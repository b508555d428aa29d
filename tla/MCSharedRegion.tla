--------------------------- MODULE MCSharedRegion ---------------------------
(* Instances of SharedRegion for TLC: two slots of two words, three        *)
(* snapshots that differ in every word, and a counter that wraps after     *)
(* four publications.                                                      *)
EXTENDS SharedRegion

CONSTANTS Bool, F32, zero, one

MCTypes == {Bool, F32}
MCData == {zero, one}

Cell(t, d) == [type |-> t, data |-> d]

(* The DLL changes the type of its slots from one snapshot to the next.    *)
MixedSnapshots ==
  {[k \in Slots |-> Cell(Bool, one)], [k \in Slots |-> Cell(F32, zero)]}

(* The usual DLL: types are fixed, only the payloads change.               *)
TypedSnapshots ==
  {[k \in Slots |-> Cell(IF k = 0 THEN Bool ELSE F32, d)] : d \in MCData}

=============================================================================
