-------------------------- MODULE SnapshotRegister --------------------------
(***************************************************************************)
(* What a shared-state channel of an env promises: one member publishes    *)
(* whole snapshots, the others read whole snapshots.  A publication and a  *)
(* successful read are each one atomic step; a read may also give up.      *)
(* SharedRegion, the memory-mapped region the code really uses, is shown   *)
(* to implement this register.                                             *)
(***************************************************************************)

CONSTANTS
  Readers,     (* the members that read the channel                       *)
  Snapshots,   (* the snapshots the writer may publish                    *)
  NoSnapshot   (* nothing has been published yet                          *)

VARIABLES
  latest,      (* the snapshot a successful read returns                  *)
  view         (* per reader, the outcome of its last read                *)

vars == <<latest, view>>

Outcome(kind, snap) == [kind |-> kind, snap |-> snap]

Init ==
  /\ latest = NoSnapshot
  /\ view = [r \in Readers |-> Outcome("none", NoSnapshot)]

Publish(s) ==
  /\ latest' = s
  /\ UNCHANGED view

BeginRead(r) ==
  /\ view' = [view EXCEPT ![r] = Outcome("none", NoSnapshot)]
  /\ UNCHANGED latest

Return(r, outcome) ==
  /\ view' = [view EXCEPT ![r] = outcome]
  /\ UNCHANGED latest

(* A successful read returns the snapshot that is current when it returns. *)
ReadCurrent(r) ==
  /\ latest # NoSnapshot
  /\ Return(r, Outcome("ok", latest))

(* Only a channel nobody has published on is reported as uninitialized.    *)
ReadUninitialized(r) ==
  /\ latest = NoSnapshot
  /\ Return(r, Outcome("uninitialized", NoSnapshot))

GiveUp(r) ==
  \E kind \in {"busy", "invalid"} : Return(r, Outcome(kind, NoSnapshot))

Next ==
  \/ \E s \in Snapshots : Publish(s)
  \/ \E r \in Readers : BeginRead(r) \/ ReadCurrent(r) \/ ReadUninitialized(r) \/ GiveUp(r)

Spec == Init /\ [][Next]_vars

=============================================================================
