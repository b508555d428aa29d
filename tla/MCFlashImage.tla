---------------------------- MODULE MCFlashImage ----------------------------
(* Flash blocks for TLC: sixteen addresses, of which a HEX record can tell *)
(* four.                                                                   *)
EXTENDS Integers, Sequences

Data(a, d) == [type |-> "data", addr |-> a, data |-> d]
BaseOn(t, b) == [type |-> t, base |-> b]
Record(t) == [type |-> t]

HexRecords ==
  {Data(0, <<1>>), Data(3, <<2, 3>>), Data(2, <<4, 5, 6>>), BaseOn("linear", 3),
   BaseOn("segment", 1), Record("entry"), Record("end"), Record("bad")}
SRecords ==
  {Data(4, <<1, 2>>), Data(5, <<3>>), Data(15, <<4>>), Data(15, <<5, 6>>), Record("other"), Record("bad")}

Several(S, n) == UNION {[1 .. k -> S] : k \in 0 .. n}
FilesOf(kind, records) == [kind : {kind}, records : records]

(* A 32-bit value's bytes, the lowest first.                               *)
Inline(a, v) ==
  [kind |-> "inline", records |-> <<Data(a, [k \in 1 .. 4 |-> (v \div 256 ^ (k - 1)) % 256])>>]
Binary(a, d) == [kind |-> "binary", records |-> <<Data(a, d)>>]

OtherBlocks ==
  {Inline(2, 258), Inline(13, 7), Inline(-1, 7), Binary(0, <<8, 9>>), Binary(15, <<8, 9>>), Binary(-1, <<8>>),
   Binary(3, <<>>), [kind |-> "missing", records |-> <<>>],
   [kind |-> "hex", records |-> <<BaseOn("linear", 2), Data(1, <<7, 7>>)>>],
   [kind |-> "hex", records |-> <<Data(2, <<6, 6, 6>>)>>],
   [kind |-> "srec", records |-> <<Data(5, <<5>>), Data(4, <<4>>)>>]}

SomeLoads ==
  {<<f>> : f \in FilesOf("hex", Several(HexRecords, 4)) \cup FilesOf("srec", Several(SRecords, 3))}
  \cup Several(OtherBlocks, 3)

=============================================================================
