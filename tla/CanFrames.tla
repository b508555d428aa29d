------------------------------ MODULE CanFrames ------------------------------
(* Frames on one CAN bus: which an env, an instance's library or another   *)
(* tool may put on it, what a socket makes of a frame and what the readers *)
(* make of that (can/mod.rs, can/backend/, daemon/server/can_ops.rs).      *)
(* EnvExchange has when frames are sent and read; this module what they    *)
(* are.  Payload bytes are left out; a payload is its length.              *)
EXTENDS Naturals, SequencesExt

CONSTANTS
  Members,     (* instances attached to the bus                             *)
  FdMembers,   (* those whose library declares the bus to be FD capable     *)
  Frames,      (* what libraries and requests ask for: [id, len, flags]     *)
  ToolFrames,  (* what another node may put on the wire: [id, len, flags]   *)
  MaxSent      (* bound: frames asked for                                   *)

Env == "env"
Tool == "tool"
Stations == Members \cup {Env}

Flags == {"EXT", "RTR", "FD", "BRS", "ESI", "reserved"}
Frame == [id : Nat, len : Nat, flags : SUBSET Flags]

(* Env and Tool are no members; a frame has its fields.                    *)
CanAssumption ==
  /\ Env \notin Members /\ Tool \notin Members
  /\ Frames \cup ToolFrames \subseteq Frame
  /\ MaxSent \in Nat

VARIABLES
  backend,  (* the driver the program was built for                         *)
  inbox,    (* per station, what its socket has to read                     *)
  latest,   (* the env's latest frame per identifier                        *)
  heard,    (* what the env has recorded since its last reset               *)
  handed,   (* per member, the frames its library was last given            *)
  tick,     (* per member, the frames its library has asked for in a tick,  *)
            (* how many are made, whether it has not failed, and, a history,*)
            (* which of them have come to each station's socket             *)
  sent      (* how many frames have been asked for                          *)

vars == <<backend, inbox, latest, heard, handed, tick, sent>>

(* The env's socket is FD capable if one member's is; so is the tool's.    *)
Fd(s) == IF s = Env THEN FdMembers # {} ELSE s \in FdMembers \cup {Tool}

-----------------------------------------------------------------------------
FdLengths == (0..8) \cup {12, 16, 20, 24, 32, 48, 64}
FdFlags == {"FD", "BRS", "ESI"}
MaxId(flags) == IF "EXT" \in flags THEN 536870911 ELSE 2047

(* validate_frame.                                                         *)
Valid(s, f) ==
  /\ "reserved" \notin f.flags
  /\ f.id <= MaxId(f.flags)
  /\ f.len <= 64
  /\ IF f.flags \cap FdFlags # {}
     THEN Fd(s) /\ f.len \in FdLengths /\ "RTR" \notin f.flags
     ELSE f.len <= 8

(* fd_len_to_dlc and fd_dlc_to_len.                                        *)
LenOfDlc(dlc) == IF dlc <= 8 THEN dlc ELSE <<12, 16, 20, 24, 32, 48, 64>>[dlc - 8]
DlcOfLen(len) == CHOOSE dlc \in 0..15 : LenOfDlc(dlc) = len

(* What goes on the wire.  A SocketCAN classic frame has no place for BRS  *)
(* and ESI; a PEAK message has its flags in the message type.              *)
Encode(s, f) ==
  IF backend = "peak"
  THEN LET fd == Fd(s) /\ ("FD" \in f.flags \/ f.len > 8)
       IN [form |-> IF fd THEN "fd" ELSE "classic", id |-> f.id,
           size |-> IF fd THEN DlcOfLen(f.len) ELSE f.len, bits |-> f.flags]
  ELSE LET fd == "FD" \in f.flags \/ f.len > 8
       IN [form |-> IF fd THEN "fd" ELSE "classic", id |-> f.id % (MaxId(f.flags) + 1),
           size |-> f.len,
           bits |-> f.flags \cap (IF fd THEN {"EXT", "RTR", "BRS", "ESI"} ELSE {"EXT", "RTR"})]

(* recv_all.                                                               *)
Decode(w) ==
  IF backend = "peak"
  THEN [id |-> w.id, flags |-> w.bits, len |-> IF w.form = "fd" THEN LenOfDlc(w.size) ELSE w.size]
  ELSE [id |-> w.id % (MaxId(w.bits) + 1),
        flags |-> w.bits \cup (IF w.form = "fd" THEN {"FD"} ELSE {}),
        len |-> w.size]

(* frame_key.                                                              *)
Key(f) == <<f.id, "EXT" \in f.flags>>

(* record_frame, of several in their order.                                *)
Record(table, fs) ==
  [k \in DOMAIN table \cup {Key(fs[n]) : n \in DOMAIN fs} |->
    IF \E n \in DOMAIN fs : Key(fs[n]) = k
    THEN fs[CHOOSE n \in DOMAIN fs : Key(fs[n]) = k /\ \A m \in n+1..Len(fs) : Key(fs[m]) # k]
    ELSE table[k]]

(* The wire takes a frame to every other station whose socket reads its    *)
(* form; a socket does not hear itself (CAN_RAW_RECV_OWN_MSGS).            *)
Hears(t, s, f) == t # s /\ (Fd(t) \/ Encode(s, f).form = "classic")

Carry(s, f) ==
  inbox' = [t \in Stations |->
    IF Hears(t, s, f)
    THEN Append(inbox[t], [wire |-> Encode(s, f), was |-> f]) ELSE inbox[t]]

-----------------------------------------------------------------------------
Asked(fs) == [asked |-> fs, made |-> 0, ok |-> TRUE, reached |-> [s \in Stations |-> {}]]
Over(ok) == [Asked(<<>>) EXCEPT !.ok = ok]

Init ==
  /\ backend \in {"socketcan", "peak"}
  /\ inbox = [s \in Stations |-> <<>>]
  /\ latest = <<>> /\ heard = {}
  /\ handed = [m \in Members |-> <<>>]
  /\ tick = [m \in Members |-> Over(TRUE)]
  /\ sent = 0

Budget(n) == sent + n <= MaxSent /\ sent' = sent + n

(* EnvAction::CanSend, and a schedule's frame when it is due: parsed and   *)
(* validated, sent, recorded.                                              *)
EnvSends(f) ==
  /\ Budget(1) /\ Valid(Env, f)
  /\ Carry(Env, f)
  /\ latest' = Record(latest, <<f>>) /\ heard' = heard \cup {f}
  /\ UNCHANGED <<backend, handed, tick>>

Sending(m) == tick[m].ok /\ tick[m].made < Len(tick[m].asked)

(* process_can_tx: the library is asked for the tick's frames ...          *)
MemberAsks(m, fs) ==
  /\ Budget(Len(fs)) /\ ~ Sending(m)
  /\ tick' = [tick EXCEPT ![m] = Asked(fs)]
  /\ UNCHANGED <<backend, inbox, latest, heard, handed>>

(* ... and they are sent one by one; the first that is refused, by the     *)
(* check or by the driver, ends the tick.                                  *)
MemberSends(m) ==
  /\ Sending(m)
  /\ LET n == tick[m].made + 1
         f == tick[m].asked[n]
     IN \/ /\ Valid(m, f)
           /\ Carry(m, f)
           /\ tick' = [tick EXCEPT ![m].made = n, ![m].reached = [s \in Stations |->
                IF Hears(s, m, f) THEN @[s] \cup {n} ELSE @[s]]]
        \/ tick' = [tick EXCEPT ![m].ok = FALSE] /\ UNCHANGED inbox
  /\ UNCHANGED <<backend, latest, heard, handed, sent>>

(* What the other node's controller can send: a PEAK message has a length  *)
(* code, the kernel takes any length up to 64.                             *)
OnTheWire(f) ==
  /\ f.id <= MaxId(f.flags)
  /\ IF "FD" \in f.flags
     THEN /\ f.flags \subseteq {"EXT", "FD", "BRS", "ESI"}
          /\ f.len \in IF backend = "peak" THEN FdLengths ELSE 0..64
     ELSE f.flags \subseteq {"EXT", "RTR"} /\ f.len <= 8

ToolSends(f) ==
  /\ Budget(1) /\ OnTheWire(f)
  /\ Carry(Tool, f)
  /\ UNCHANGED <<backend, latest, heard, handed, tick>>

Read(s) == [n \in DOMAIN inbox[s] |-> Decode(inbox[s][n].wire)]

(* recv_all, until the socket is empty or the driver fails: what is read   *)
(* is off the socket.                                                      *)
Loses(s) ==
  \E n \in 0 .. Len(inbox[s]) : inbox' = [inbox EXCEPT ![s] = SubSeq(@, n + 1, Len(@))]

AllValid(m) == \A n \in DOMAIN Read(m) : Valid(m, Read(m)[n])

(* recv_can_frames: all that is there is taken off the socket and checked, *)
(* and gone if one of the frames is not legal.                             *)
Takes(m) ==
  /\ inbox[m] # <<>> /\ ~ Sending(m)
  /\ inbox' = [inbox EXCEPT ![m] = <<>>]
  /\ tick' = [tick EXCEPT ![m] = Over(AllValid(m))]
  /\ UNCHANGED <<backend, latest, heard, sent>>

(* Mutant: frames are handed on unchecked.                                 *)
MemberReadsAll(m) == Takes(m) /\ handed' = [handed EXCEPT ![m] = Read(m)]

(* process_can_rx: the library is given them, or the tick fails.           *)
MemberReads(m) ==
  /\ Takes(m)
  /\ handed' = IF AllValid(m) THEN [handed EXCEPT ![m] = Read(m)] ELSE handed

(* discard_can_rx: nobody is given them, and a reset fails where a tick    *)
(* would.                                                                  *)
MemberDiscards(m) == Takes(m) /\ UNCHANGED handed

(* recv_all fails, in a tick or a reset.                                   *)
MemberReadFails(m) ==
  /\ ~ Sending(m)
  /\ Loses(m)
  /\ tick' = [tick EXCEPT ![m] = Over(FALSE)]
  /\ UNCHANGED <<backend, latest, heard, handed, sent>>

(* observe_env_bus_frames: recorded as they are.                           *)
EnvObserves ==
  /\ inbox[Env] # <<>>
  /\ inbox' = [inbox EXCEPT ![Env] = <<>>]
  /\ latest' = Record(latest, Read(Env))
  /\ heard' = heard \cup {Read(Env)[n] : n \in DOMAIN Read(Env)}
  /\ UNCHANGED <<backend, handed, tick, sent>>

EnvReadFails == Loses(Env) /\ UNCHANGED <<backend, latest, heard, handed, tick, sent>>

(* reset_env_can_state: what waits at the socket goes unrecorded; a read   *)
(* that fails is ignored.                                                  *)
Reset ==
  /\ Loses(Env)
  /\ latest' = <<>> /\ heard' = {}
  /\ UNCHANGED <<backend, handed, tick, sent>>

Next ==
  \/ \E f \in Frames : EnvSends(f)
  \/ \E m \in Members, f, g \in Frames : MemberAsks(m, <<f, g>>)
  \/ \E m \in Members : MemberSends(m)
  \/ \E f \in ToolFrames : ToolSends(f)
  \/ \E m \in Members : MemberReads(m)
  \/ \E m \in Members : MemberDiscards(m) \/ MemberReadFails(m)
  \/ EnvObserves
  \/ EnvReadFails
  \/ Reset

Spec == Init /\ [][Next]_vars

-----------------------------------------------------------------------------
TypeOK ==
  /\ \A s \in Stations : \A n \in DOMAIN inbox[s] :
       /\ inbox[s][n].wire.form = "fd" => Fd(s) /\ inbox[s][n].wire.size \in 0..64
       /\ inbox[s][n].wire.form = "classic" => inbox[s][n].wire.size \in 0..8
  /\ \A k \in DOMAIN latest : Key(latest[k]) = k
  /\ sent \in 0..MaxSent

(* A frame is read as what it was sent as: identifier, length and flags    *)
(* pass through the wire's form.  One with BRS or ESI and without FD is    *)
(* read as an FD frame or as a classic one, its payload whole.             *)
ReadAsSent ==
  \A s \in Stations : \A n \in DOMAIN inbox[s] :
    LET was == inbox[s][n].was
        now == Decode(inbox[s][n].wire)
    IN /\ now.id = was.id /\ now.len = was.len
       /\ now.flags \in {was.flags, was.flags \cup {"FD"}, was.flags \ {"BRS", "ESI"}}
       /\ "FD" \in was.flags => now.flags = was.flags

(* What a library is given is legal on its bus: its own flags, identifiers *)
(* and lengths, whatever other stations and tools have sent.               *)
LibrariesGetLegal == \A m \in Members : \A n \in DOMAIN handed[m] : Valid(m, handed[m][n])

(* A tick that is refused a frame has put those before it on the bus, and  *)
(* one that is not all of them: every station that reads such a frame has  *)
(* had it, and none has had one that comes after.                          *)
SentUntilRefused ==
  \A m \in Members :
    LET t == tick[m]
        onBus == IF t.ok /\ ~ Sending(m) THEN DOMAIN t.asked ELSE 1 .. t.made
    IN /\ \A n \in onBus : Valid(m, t.asked[n])
       /\ \A s \in Stations : t.reached[s] = {n \in onBus : Hears(s, m, t.asked[n])}

(* `can inspect` has an entry for every identifier heard since the reset;  *)
(* a standard one and an extended one of the same number are two.          *)
EveryIdentifierShown ==
  \A f \in heard : \E k \in DOMAIN latest :
    latest[k].id = f.id /\ ("EXT" \in latest[k].flags <=> "EXT" \in f.flags)

=============================================================================
