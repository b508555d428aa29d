------------------------- MODULE MCSignalSelectors -------------------------
(* An instance of three signals, one of them read-only and one a flag whose*)
(* reading may fail, and an env of two instances, for TLC.                 *)
EXTENDS Naturals, TLC

SomeSignals ==
  (1 :> [name |-> "gain", type |-> "u32", readOnly |-> FALSE, failing |-> FALSE])
  @@ (4 :> [name |-> "on", type |-> "bool", readOnly |-> FALSE, failing |-> TRUE])
  @@ (7 :> [name |-> "out", type |-> "u32", readOnly |-> TRUE, failing |-> FALSE])

(* "#1" < "#5" < "*" < "can.x" < "gain" < "o*" < "on" < "z*"                *)
SomeSelectors ==
  << [kind |-> "id", id |-> 1], [kind |-> "id", id |-> 5], [kind |-> "all"],
     [kind |-> "can"], [kind |-> "name", name |-> "gain"],
     [kind |-> "glob", names |-> {"on", "out"}], [kind |-> "name", name |-> "on"],
     [kind |-> "glob", names |-> {}] >>

SomeRaws ==
  { [text |-> "1", types |-> {"u32", "bool"}], [text |-> "2", types |-> {"u32"}],
    [text |-> "x", types |-> {}] }

SomeCatalog ==
  << [inst |-> "a", name |-> "gain"], [inst |-> "a", name |-> "out"],
     [inst |-> "b", name |-> "gain"], [inst |-> "b", name |-> "on"] >>

Pair(is, ns) == [kind |-> "pair", insts |-> is, names |-> ns]
SomeEnvSelectors ==
  { [kind |-> "all"], [kind |-> "bad"], Pair({"b"}, {"gain"}), Pair({"c"}, {"gain"}),
    Pair({"a"}, {"gain", "out", "on"}), Pair({"a", "b"}, {"gain"}), Pair({"b"}, {"on"}) }

=============================================================================
