----------------------------- MODULE EnvExchange -----------------------------
(***************************************************************************)
(* What the devices of an env hand to each other while the env steps and   *)
(* resets them (runtime/src/daemon/server/can_ops.rs, shared_ops.rs and    *)
(* advance_single_project_tick; envd/server/tick.rs and Reset in           *)
(* dispatch.rs).  In a tick of the env every instance is told to step and  *)
(* all are awaited; meanwhile they run in parallel, each through the       *)
(* stages of its own tick.  One CAN bus joins all sockets, the env's among *)
(* them; one instance writes a shared channel that the others read.        *)
(*                                                                         *)
(* A value is the moment it was made: the resets its maker has gone        *)
(* through, and its ticks since.  Failures are in EnvWorkers and           *)
(* EnvDaemon, the torn reads of a shared channel in SharedRegion.          *)
(***************************************************************************)
EXTENDS Naturals, Sequences, SequencesExt

CONSTANTS
  Instances,
  Writer,     (* the instance that writes the shared channel               *)
  Env,        (* the env's own socket                                      *)
  MaxTicks,   (* bound: the env's ticks between resets                     *)
  MaxResets,  (* bound                                                     *)
  MaxWaiting  (* bound: frames at a socket, above which nobody sends       *)

ExchangeAssumption ==
  /\ Writer \in Instances
  /\ Env \notin Instances
  /\ {MaxTicks, MaxResets, MaxWaiting} \subseteq Nat

VARIABLES
  env,     (* what the env waits for: "idle", "tick", "reset", "discard"   *)
  clock,   (* the env's ticks                                              *)
  resets,  (* resets the env has answered                                  *)
  stage,   (* where each instance is in what it was told to do             *)
  lib,     (* each library's moment                                        *)
  region,  (* the moment of the snapshot in the shared channel             *)
  taken,   (* the moment of the snapshot each reader last took             *)
  inbox,   (* per socket the frames waiting: their moments                 *)
  heard    (* the frames handed to each library in its last tick           *)

vars == <<env, clock, resets, stage, lib, region, taken, inbox, heard>>

Sockets == Instances \cup {Env}
Moments == [run : Nat, tick : Nat]
Moment(run, tick) == [run |-> run, tick |-> tick]
Startup == Moment(0, 0)

(* SharedAttach has put the writer's first snapshot into the channel.      *)
Init ==
  /\ env = "idle" /\ clock = 0 /\ resets = 0
  /\ stage = [i \in Instances |-> "idle"]
  /\ lib = [i \in Instances |-> Startup]
  /\ region = Startup
  /\ taken = [i \in Instances |-> Startup]
  /\ inbox = [s \in Sockets |-> <<>>]
  /\ heard = [i \in Instances |-> <<>>]

Goto(i, place) == stage' = [stage EXCEPT ![i] = place]
TellAll(place) == stage' = [i \in Instances |-> place]
AllAnswered == \A i \in Instances : stage[i] = "idle"

(* A frame goes to every socket on the bus but the one it is sent from.    *)
Broadcast(from, moment) ==
  [s \in Sockets |-> IF s = from THEN inbox[s] ELSE Append(inbox[s], moment)]
Room == \A s \in Sockets : Len(inbox[s]) < MaxWaiting

-----------------------------------------------------------------------------
(* The env.                                                                *)

(* A frame of env can send.                                                *)
EnvSends ==
  /\ env = "idle" /\ clock < MaxTicks /\ Room
  /\ inbox' = Broadcast(Env, Moment(resets, clock))
  /\ UNCHANGED <<env, clock, resets, stage, lib, region, taken, heard>>

(* advance_single_tick: the env looks at its own socket, sends what its    *)
(* schedules owe, and tells everybody to step.                             *)
BeginTick ==
  /\ env = "idle" /\ clock < MaxTicks
  /\ env' = "tick"
  /\ \E scheduled \in {sent \in BOOLEAN : sent => Room} :
       inbox' = [(IF scheduled THEN Broadcast(Env, Moment(resets, clock + 1)) ELSE inbox)
                   EXCEPT ![Env] = <<>>]
  /\ TellAll("receive")
  /\ UNCHANGED <<clock, resets, lib, region, taken, heard>>

EndTick ==
  /\ env = "tick" /\ AllAnswered
  /\ env' = "idle"
  /\ inbox' = [inbox EXCEPT ![Env] = <<>>]
  /\ clock' = clock + 1
  /\ UNCHANGED <<resets, stage, lib, region, taken, heard>>

BeginReset ==
  /\ env = "idle" /\ resets < MaxResets
  /\ env' = "reset"
  /\ TellAll("reset")
  /\ UNCHANGED <<clock, resets, lib, region, taken, inbox, heard>>

(* Only when all are reset is anybody told to empty its sockets.           *)
AllReset ==
  /\ env = "reset" /\ AllAnswered
  /\ env' = "discard"
  /\ TellAll("discard")
  /\ UNCHANGED <<clock, resets, lib, region, taken, inbox, heard>>

EndReset ==
  /\ env = "discard" /\ AllAnswered
  /\ env' = "idle"
  /\ inbox' = [inbox EXCEPT ![Env] = <<>>]
  /\ clock' = 0
  /\ resets' = resets + 1
  /\ UNCHANGED <<stage, lib, region, taken, heard>>

-----------------------------------------------------------------------------
(* An instance: the stages of a tick, a reset, a discard.                  *)

(* Mutant: one frame is received in a tick.                                *)
ReceiveOneFrame(i) ==
  /\ stage[i] = "receive"
  /\ heard' = [heard EXCEPT ![i] = IF inbox[i] = <<>> THEN <<>> ELSE <<Head(inbox[i])>>]
  /\ inbox' = [inbox EXCEPT ![i] = IF @ = <<>> THEN <<>> ELSE Tail(@)]
  /\ Goto(i, "read")
  /\ UNCHANGED <<env, clock, resets, lib, region, taken>>

ReceiveFrames(i) ==
  /\ stage[i] = "receive"
  /\ heard' = [heard EXCEPT ![i] = inbox[i]]
  /\ inbox' = [inbox EXCEPT ![i] = <<>>]
  /\ Goto(i, "read")
  /\ UNCHANGED <<env, clock, resets, lib, region, taken>>

ReadShared(i) ==
  /\ stage[i] = "read"
  /\ taken' = IF i = Writer THEN taken ELSE [taken EXCEPT ![i] = region]
  /\ Goto(i, "tick")
  /\ UNCHANGED <<env, clock, resets, lib, region, inbox, heard>>

MakeTick(i) ==
  /\ stage[i] = "tick"
  /\ lib' = [lib EXCEPT ![i].tick = @ + 1]
  /\ Goto(i, "send")
  /\ UNCHANGED <<env, clock, resets, region, taken, inbox, heard>>

SendFrames(i) ==
  /\ stage[i] = "send"
  /\ \E sends \in {sent \in BOOLEAN : sent => Room} :
       inbox' = IF sends THEN Broadcast(i, lib[i]) ELSE inbox
  /\ Goto(i, "publish")
  /\ UNCHANGED <<env, clock, resets, lib, region, taken, heard>>

PublishShared(i) ==
  /\ stage[i] = "publish"
  /\ region' = IF i = Writer THEN lib[i] ELSE region
  /\ Goto(i, "idle")
  /\ UNCHANGED <<env, clock, resets, lib, taken, inbox, heard>>

ResetProject(i) ==
  /\ stage[i] = "reset"
  /\ lib' = [lib EXCEPT ![i] = Moment(@.run + 1, 0)]
  /\ Goto(i, "idle")
  /\ UNCHANGED <<env, clock, resets, region, taken, inbox, heard>>

DiscardFrames(i) ==
  /\ stage[i] = "discard"
  /\ inbox' = [inbox EXCEPT ![i] = <<>>]
  /\ Goto(i, "idle")
  /\ UNCHANGED <<env, clock, resets, lib, region, taken, heard>>

InstanceStep(i) ==
  \/ ReceiveFrames(i) \/ ReadShared(i) \/ MakeTick(i) \/ SendFrames(i) \/ PublishShared(i)
  \/ ResetProject(i) \/ DiscardFrames(i)

Finished ==
  /\ env = "idle" /\ clock = MaxTicks /\ resets = MaxResets
  /\ UNCHANGED vars

Next ==
  \/ EnvSends \/ BeginTick \/ EndTick \/ BeginReset \/ AllReset \/ EndReset
  \/ \E i \in Instances : InstanceStep(i)
  \/ Finished

Spec == Init /\ [][Next]_vars

-----------------------------------------------------------------------------
TypeOK ==
  /\ env \in {"idle", "tick", "reset", "discard"}
  /\ clock \in Nat /\ resets \in Nat
  /\ stage \in [Instances -> {"idle", "receive", "read", "tick", "send", "publish",
                              "reset", "discard"}]
  /\ lib \in [Instances -> Moments]
  /\ region \in Moments
  /\ taken \in [Instances -> Moments]
  /\ inbox \in [Sockets -> Seq(Moments)]
  /\ heard \in [Instances -> Seq(Moments)]

(* The tick an instance is making.                                         *)
Making(i) == lib[i].tick + 1

(* Though the devices step in parallel, what one of them reads from the    *)
(* shared channel is never more than one tick old, nor from a tick that    *)
(* the reader is not making yet.                                           *)
SharedIsRecent ==
  \A i \in Instances \ {Writer} :
    stage[i] = "tick" /\ taken[i].run = lib[i].run
      => taken[i].tick \in {lib[i].tick, Making(i)}

(* A frame is handed to every other device in the tick it was sent in, or  *)
(* in the next one.                                                        *)
FramesArriveNext ==
  \A i \in Instances : stage[i] = "read" =>
    \A m \in ToSet(heard[i]) : m.tick \in {lib[i].tick, Making(i)}

(* No frame that was sent before a reset of the env is handed to a device  *)
(* after it.                                                               *)
NoFrameSurvivesReset ==
  \A i \in Instances : stage[i] = "read" =>
    \A m \in ToSet(heard[i]) : m.run = lib[i].run

(* The env tells its instances to tick only when all of them are at its    *)
(* own tick of its own run.                                                *)
TicksFromOneMoment ==
  env = "idle" => \A i \in Instances : lib[i] = Moment(resets, clock)

=============================================================================
