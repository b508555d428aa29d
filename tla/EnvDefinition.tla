---------------------------- MODULE EnvDefinition ----------------------------
(***************************************************************************)
(* From an env's definition in the config to an env that serves: what the  *)
(* `env start` command checks and resolves (runtime/src/cli/env.rs,        *)
(* load/resolve.rs), what the env daemon checks in turn, and how it ties   *)
(* the instances together by CAN buses and shared regions                  *)
(* (envd/server/bootstrap.rs).  EnvBootstrap has the processes this takes  *)
(* and how they fail; here a start is one command after the other, and     *)
(* the question is which definitions it accepts and what it makes of them. *)
(*                                                                         *)
(* Region files stay where they are when an env is closed, and an instance *)
(* of another command may be named as a member of a channel.               *)
(***************************************************************************)
EXTENDS Naturals, FiniteSets, Sequences

CONSTANTS
  Definitions,  (* [name, instances, can, shared]; several may have a name  *)
  Devices,      (* each device's library                                    *)
  Libraries,    (* the libraries that exist: [tick, buses, channels, colon] *)
  Ifaces,       (* the network interfaces that are up                       *)
  Strangers,    (* instances other commands load: [name |-> library]        *)
  MaxSteps      (* bound: starts, closes and loads together                 *)

None == "none"

DefinitionAssumption ==
  \A d \in Definitions :
    /\ d.name # None
    /\ \A k \in DOMAIN d.shared : DOMAIN d.shared[k].members \subseteq Nat \ {0}
    /\ \A j, k \in DOMAIN d.shared : d.shared[j].name = d.shared[k].name => j = k

VARIABLES
  up,        (* the instances that run: name |-> [lib, env]                 *)
  serving,   (* the definitions of the envs that serve, by env name         *)
  phase,     (* where the start that is under way stands; "idle"            *)
  def,       (* its definition                                              *)
  onBus,     (* <<instance, bus>> |-> network interface, for attached buses *)
  onRegion,  (* <<instance, channel>> |-> [path, writes], for shared        *)
  files,     (* path |-> slot count of the region                           *)
  todo,      (* the channels to be checked and members to be attached       *)
  steps

vars == <<up, serving, phase, def, onBus, onRegion, files, todo, steps>>

Without(f, S) == [x \in DOMAIN f \ S |-> f[x]]
With(f, x, v) == [y \in DOMAIN f \cup {x} |-> IF y = x THEN v ELSE f[y]]
Names(d) == {d.instances[k].name : k \in DOMAIN d.instances}

Init ==
  /\ up = <<>> /\ serving = <<>>
  /\ phase = "idle" /\ def \in Definitions
  /\ onBus = <<>> /\ onRegion = <<>> /\ files = <<>>
  /\ todo = {} /\ steps = 0

Moves(from, to) == phase = from /\ phase' = to
Fails == phase' = "rollback" /\ UNCHANGED <<up, serving, def, onBus, onRegion, files, todo, steps>>
Passes(to) == phase' = to /\ UNCHANGED <<up, serving, def, onBus, onRegion, files, todo, steps>>

-----------------------------------------------------------------------------
(* The command.                                                            *)
Start(d) ==
  /\ Moves("idle", "command") /\ steps < MaxSteps
  /\ d.name \notin DOMAIN serving
  /\ def' = d /\ steps' = steps + 1
  /\ UNCHANGED <<up, serving, onBus, onRegion, files, todo>>

(* resolve_env_member_load_spec: a library or a device, not both.          *)
LibOf(m) ==
  IF m.lib # None /\ m.device = None THEN m.lib
  ELSE IF m.lib = None /\ m.device \in DOMAIN Devices THEN Devices[m.device]
  ELSE None

(* validate_env_can_ifaces, ensure_sessions_available, build_env_spec.     *)
CheckDefinition ==
  /\ phase = "command"
  /\ IF /\ \A k \in DOMAIN def.can : def.can[k].iface \in Ifaces
        /\ Names(def) \cap DOMAIN up = {}
        /\ \A k \in DOMAIN def.instances : LibOf(def.instances[k]) \in DOMAIN Libraries
     THEN Passes("instances")
     ELSE phase' = "idle" /\ UNCHANGED <<up, serving, def, onBus, onRegion, files, todo, steps>>

(* The instances are started: a name that is taken fails, also when it is  *)
(* the definition that has it twice.                                       *)
StartInstances ==
  /\ phase = "instances"
  /\ LET mine == [i \in Names(def) |->
           [lib |-> LibOf(def.instances[CHOOSE k \in DOMAIN def.instances : def.instances[k].name = i]),
            env |-> def.name]]
     IN IF Names(def) \cap DOMAIN up = {}
        THEN /\ up' = [i \in DOMAIN up \cup DOMAIN mine |->
                         IF i \in DOMAIN mine THEN mine[i] ELSE up[i]]
             /\ phase' = IF Cardinality(Names(def)) = Len(def.instances) THEN "ticks" ELSE "rollback"
        ELSE /\ phase' = "rollback" /\ UNCHANGED up
  /\ UNCHANGED <<serving, def, onBus, onRegion, files, todo, steps>>

Lib(i) == Libraries[up[i].lib]

(* Mutant: the members' ticks are not compared.                            *)
TicksDiffer(d) == \A i \in Names(d) : Lib(i).tick > 0

(* The ticks are alike and there is one; no signal's name has a ":".       *)
TicksFit(d) ==
  /\ \A i, j \in Names(d) : Lib(i).tick = Lib(j).tick /\ Lib(i).tick > 0
  /\ \A i \in Names(d) : ~ Lib(i).colon

CheckInfo ==
  /\ phase = "ticks"
  /\ IF TicksFit(def) THEN Passes("buses") ELSE Fails

-----------------------------------------------------------------------------
(* CAN buses.                                                              *)
BusPlaces(d) == UNION {{k} \X DOMAIN d.can[k].members : k \in DOMAIN d.can}
BusAt(d, p) == d.can[p[1]].members[p[2]]

(* Every member is a bus of an instance of the env, and a member once.     *)
BusesFit(d) ==
  /\ \A p \in BusPlaces(d) :
       LET at == BusAt(d, p) IN at[1] \in Names(d) /\ at[2] \in Lib(at[1]).buses
  /\ \A p, q \in BusPlaces(d) : BusAt(d, p) = BusAt(d, q) => p = q

(* CanAttach opens the interface that the definition has for the env bus,  *)
(* which has no other name there: env buses on one interface are one bus.  *)
AttachBuses ==
  /\ phase = "buses"
  /\ IF BusesFit(def)
     THEN /\ phase' = "channels"
          /\ onBus' = [at \in DOMAIN onBus \cup {BusAt(def, p) : p \in BusPlaces(def)} |->
               IF at \in DOMAIN onBus THEN onBus[at]
               ELSE LET p == CHOOSE p \in BusPlaces(def) : BusAt(def, p) = at
                    IN def.can[p[1]].iface]
          /\ UNCHANGED <<up, serving, def, onRegion, files, todo, steps>>
     ELSE Fails

-----------------------------------------------------------------------------
(* attach_shared_channel, one channel after the other: <<k, n>> stands for *)
(* the n-th member of the k-th, and <<k, 0>> for what is checked first.    *)

ChannelPlaces(d) ==
  UNION {{k} \X ({0} \cup DOMAIN d.shared[k].members) : k \in DOMAIN d.shared}

PrepareChannels ==
  /\ phase = "channels"
  /\ phase' = "attach"
  /\ todo' = ChannelPlaces(def)
  /\ UNCHANGED <<up, serving, def, onBus, onRegion, files, steps>>

(* The members are sorted so that those of the writer come first.          *)
Rank(p) ==
  LET c == def.shared[p[1]]
  IN IF p[2] = 0 THEN 0 ELSE IF c.members[p[2]][1] = c.writer THEN 1 ELSE 2

Before(p, q) ==
  \/ p[1] < q[1]
  \/ p[1] = q[1] /\ Rank(p) < Rank(q)
  \/ p[1] = q[1] /\ Rank(p) = Rank(q) /\ p[2] < q[2]

IsNext(p) == p \in todo /\ \A q \in todo : q = p \/ Before(p, q)

WriterListed(c) == \E n \in DOMAIN c.members : c.members[n][1] = c.writer

CheckChannel ==
  /\ phase = "attach"
  /\ \E p \in todo :
       /\ IsNext(p) /\ p[2] = 0
       /\ IF WriterListed(def.shared[p[1]])
          THEN /\ todo' = todo \ {p}
               /\ UNCHANGED <<up, serving, phase, def, onBus, onRegion, files, steps>>
          ELSE Fails

(* SharedAttach, sent to whatever instance has that name: its channel is   *)
(* free, and the region, which the writer makes, has its size.             *)
CanAttach(at, path, writes) ==
  /\ at[1] \in DOMAIN up
  /\ at \notin DOMAIN onRegion
  /\ at[2] \in DOMAIN Lib(at[1]).channels
  /\ writes \/ path \in DOMAIN files
  /\ path \in DOMAIN files => files[path] = Lib(at[1]).channels[at[2]]

AttachMember ==
  /\ phase = "attach"
  /\ \E p \in todo :
       /\ IsNext(p) /\ p[2] # 0
       /\ LET c == def.shared[p[1]]
              at == c.members[p[2]]
              path == <<def.name, c.name>>
              writes == at[1] = c.writer
          IN IF CanAttach(at, path, writes)
             THEN /\ onRegion' = With(onRegion, at, [path |-> path, writes |-> writes])
                  /\ files' = With(files, path, Lib(at[1]).channels[at[2]])
                  /\ todo' = todo \ {p}
                  /\ UNCHANGED <<up, serving, phase, def, onBus, steps>>
             ELSE Fails

Serve ==
  /\ phase = "attach" /\ todo = {}
  /\ phase' = IF Names(def) = {} THEN "rollback" ELSE "idle"
  /\ serving' = IF Names(def) = {} THEN serving ELSE With(serving, def.name, def)
  /\ UNCHANGED <<up, def, onBus, onRegion, files, todo, steps>>

-----------------------------------------------------------------------------
Gone(S) ==
  /\ up' = Without(up, S)
  /\ onBus' = Without(onBus, {at \in DOMAIN onBus : at[1] \in S})
  /\ onRegion' = Without(onRegion, {at \in DOMAIN onRegion : at[1] \in S})

(* rollback_instances: those this start has started.                       *)
RollBack ==
  /\ Moves("rollback", "idle")
  /\ Gone({i \in DOMAIN up : up[i].env = def.name})
  /\ todo' = {}
  /\ UNCHANGED <<serving, def, files, steps>>

CloseEnv(e) ==
  /\ phase = "idle" /\ steps < MaxSteps /\ e \in DOMAIN serving
  /\ steps' = steps + 1
  /\ Gone({i \in DOMAIN up : up[i].env = e})
  /\ serving' = Without(serving, {e})
  /\ UNCHANGED <<phase, def, files, todo>>

LoadStranger(i) ==
  /\ steps < MaxSteps /\ i \notin DOMAIN up
  /\ steps' = steps + 1
  /\ up' = With(up, i, [lib |-> Strangers[i], env |-> None])
  /\ UNCHANGED <<serving, phase, def, onBus, onRegion, files, todo>>

CloseStranger(i) ==
  /\ steps < MaxSteps /\ up[i].env = None
  /\ steps' = steps + 1
  /\ Gone({i})
  /\ UNCHANGED <<serving, phase, def, files, todo>>

Begin == \E d \in Definitions : Start(d)

Work ==
  \/ CheckDefinition \/ StartInstances \/ CheckInfo \/ AttachBuses
  \/ PrepareChannels \/ CheckChannel \/ AttachMember \/ Serve \/ RollBack

Next ==
  \/ Begin \/ Work
  \/ \E e \in DOMAIN serving : CloseEnv(e)
  \/ \E i \in DOMAIN Strangers : LoadStranger(i)
  \/ \E i \in DOMAIN up : CloseStranger(i)
  \/ steps = MaxSteps /\ phase = "idle" /\ UNCHANGED vars

Spec == Init /\ [][Next]_vars /\ WF_vars(Work)

-----------------------------------------------------------------------------
TypeOK ==
  /\ phase \in {"idle", "command", "instances", "ticks", "buses", "channels", "attach", "rollback"}
  /\ def \in Definitions
  /\ \A e \in DOMAIN serving : serving[e] \in Definitions /\ serving[e].name = e
  /\ \A at \in DOMAIN onBus \cup DOMAIN onRegion : at[1] \in DOMAIN up

(* The instances of a definition run, in its env, and can go tick by tick  *)
(* together.                                                               *)
Run(d) == \A i \in Names(d) : i \in DOMAIN up /\ up[i].env = d.name
MembersShareATick ==
  \A e \in DOMAIN serving :
    /\ Run(serving[e])
    /\ \A i, j \in Names(serving[e]) : Lib(i).tick = Lib(j).tick

(* Every bus a definition names is one of the env's own instances, and is  *)
(* on the interface the definition has for it.                             *)
OnItsBuses(d) ==
  \A p \in BusPlaces(d) :
    LET at == BusAt(d, p)
    IN at[1] \in Names(d) /\ at \in DOMAIN onBus /\ onBus[at] = d.can[p[1]].iface
BusesAsDefined == \A e \in DOMAIN serving : OnItsBuses(serving[e])

(* The members of a channel all look at the region its writer writes.      *)
(* (Those that are in the env: others may have been closed and come back.) *)
OnItsChannels(d, left) ==
  \A k \in DOMAIN d.shared : \A n \in DOMAIN d.shared[k].members :
    LET c == d.shared[k]
        at == c.members[n]
    IN at[1] \in Names(d) /\ <<k, n>> \notin left =>
         /\ at \in DOMAIN onRegion
         /\ onRegion[at] = [path |-> <<d.name, c.name>>, writes |-> at[1] = c.writer]
ChannelsAsDefined == \A e \in DOMAIN serving : OnItsChannels(serving[e], {})

(* Nobody is on an interface, and no instance of an env is at one of the   *)
(* env's regions, but as a definition says that stands: of an env that     *)
(* serves or of the start under way.  So two buses hear each other just if *)
(* such definitions put them on one interface, within an env or across.    *)
Standing ==
  {serving[e] : e \in DOMAIN serving}
    \cup (IF phase \in {"channels", "attach", "rollback"} THEN {def} ELSE {})

BusDefined(at, d) ==
  \E p \in BusPlaces(d) : BusAt(d, p) = at /\ onBus[at] = d.can[p[1]].iface

ChannelDefined(at, d) ==
  \E k \in DOMAIN d.shared : \E n \in DOMAIN d.shared[k].members :
    /\ d.shared[k].members[n] = at
    /\ onRegion[at] = [path |-> <<d.name, d.shared[k].name>>, writes |-> at[1] = d.shared[k].writer]

NothingElse ==
  /\ \A at \in DOMAIN onBus : \E d \in Standing : up[at[1]].env = d.name /\ BusDefined(at, d)
  /\ \A at \in DOMAIN onRegion : up[at[1]].env = onRegion[at].path[1] =>
       \E d \in Standing : up[at[1]].env = d.name /\ ChannelDefined(at, d)

(* Of the instances of an env that serves, the writer a channel's          *)
(* definition names is the only one that writes it.  An instance of        *)
(* another command, or of another env, that wrote the channel of an        *)
(* earlier env of that name is not detached when that env closes, and      *)
(* goes on writing: of those nothing is said.                              *)
WritersAsDefined ==
  \A e \in DOMAIN serving : \A k \in DOMAIN serving[e].shared :
    LET c == serving[e].shared[k]
    IN \A at \in DOMAIN onRegion :
         /\ onRegion[at].path = <<e, c.name>> /\ onRegion[at].writes
         /\ up[at[1]].env = e
         => at[1] = c.writer

(* Who is attached to a region has it in its own library's size.           *)
RegionFits ==
  \A at \in DOMAIN onRegion :
    /\ onRegion[at].path \in DOMAIN files
    /\ files[onRegion[at].path] = Lib(at[1]).channels[at[2]]

(* What a start that is under way has made so far.                         *)
StartKept ==
  /\ phase # "idle" => def.name \notin DOMAIN serving
  /\ phase \in {"ticks", "buses", "channels", "attach"} => Run(def)
  /\ phase \in {"buses", "channels", "attach"} => TicksFit(def)
  /\ phase \in {"ticks", "buses"} => \A at \in DOMAIN onBus : at[1] \notin Names(def)
  /\ phase \in {"channels", "attach"} => OnItsBuses(def)
  /\ phase = "attach" => OnItsChannels(def, todo)

(* Every start of an env comes to an end.                                  *)
Ended == phase = "idle"

=============================================================================
