--------------------------- MODULE LockstepClock ---------------------------
(***************************************************************************)
(* What an env promises about time: its clock and the instances' positions *)
(* move together.  At rest every position is the clock; in a step each     *)
(* instance moves once, and the clock only after all of them.  Once a step *)
(* fails, or a reset begins, the positions are lost, and nothing but a     *)
(* reset that succeeds finds them again, all at zero.                      *)
(***************************************************************************)
EXTENDS Naturals

CONSTANT Instances

VARIABLES mode, clock, pos

Modes == {"rest", "step", "lost"}

Init ==
  /\ mode = "rest"
  /\ clock = 0
  /\ pos = [i \in Instances |-> 0]

StepBegins ==
  /\ mode = "rest"
  /\ mode' = "step"
  /\ UNCHANGED <<clock, pos>>

Moves(i) ==
  /\ mode = "step"
  /\ pos[i] = clock
  /\ pos' = [pos EXCEPT ![i] = clock + 1]
  /\ UNCHANGED <<mode, clock>>

StepEnds ==
  /\ mode = "step"
  /\ \A i \in Instances : pos[i] = clock + 1
  /\ clock' = clock + 1
  /\ mode' = "rest"
  /\ UNCHANGED pos

(* A failure, or the beginning of a reset, and what comes of it.           *)
Loses ==
  /\ mode' = "lost"
  /\ pos' \in [Instances -> Nat]
  /\ clock' \in {clock, clock + 1}
  /\ mode # "lost" => clock' = clock

Recovers ==
  /\ mode = "lost"
  /\ mode' = "rest"
  /\ clock' = 0
  /\ pos' = [i \in Instances |-> 0]

Next ==
  \/ StepBegins \/ StepEnds \/ Loses \/ Recovers
  \/ \E i \in Instances : Moves(i)

Spec == Init /\ [][Next]_<<mode, clock, pos>>

=============================================================================
