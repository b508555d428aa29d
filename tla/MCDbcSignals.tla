---------------------------- MODULE MCDbcSignals ----------------------------
(* Two byte payloads and four bit integers for TLC.                        *)
EXTENDS Integers, Sequences

SignalAt(name, start, size, order, signed) ==
  [name |-> name, start |-> start, size |-> size, order |-> order, signed |-> signed,
   multiplexed |-> FALSE, factor |-> 1, offset |-> 0, min |-> 0, max |-> 0]
Message(signals) == [bytes |-> 2, signals |-> signals]

(* Neighbours, signals across the bytes' border in both orders, one that   *)
(* lies over others, one that has no room, and two of one name.            *)
SomeFiles ==
  {<<Message(<<SignalAt("a", 0, 3, "little", TRUE), SignalAt("b", 3, 4, "little", FALSE), SignalAt("c", 7, 2, "little", TRUE)>>),
     Message(<<[SignalAt("d", 9, 4, "little", FALSE) EXCEPT !.factor = 2, !.offset = -1], SignalAt("a", 13, 1, "little", TRUE)>>)>>,
   <<Message(<<SignalAt("a", 1, 4, "big", TRUE), SignalAt("b", 5, 4, "big", FALSE), SignalAt("c", 13, 3, "big", TRUE)>>)>>,
   <<Message(<<SignalAt("a", 4, 4, "little", TRUE), SignalAt("b", 2, 4, "big", TRUE)>>)>>,
   <<Message(<<SignalAt("a", 14, 4, "little", FALSE), SignalAt("b", 12, 2, "little", TRUE), SignalAt("c", 8, 3, "big", FALSE)>>)>>,
   <<Message(<<[SignalAt("a", 0, 4, "little", TRUE) EXCEPT !.factor = 2, !.min = -3, !.max = 7],
                [SignalAt("d", 12, 3, "big", FALSE) EXCEPT !.factor = -1, !.offset = 1]>>),
     [Message(<<SignalAt("b", 6, 4, "little", FALSE)>>) EXCEPT !.bytes = 3]>>,
   <<Message(<<[SignalAt("a", 0, 4, "little", TRUE) EXCEPT !.factor = 0]>>)>>,
   <<Message(<<[SignalAt("a", 0, 4, "little", TRUE) EXCEPT !.multiplexed = TRUE]>>)>>,
   <<Message(<<SignalAt("a", 0, 5, "little", TRUE)>>)>>, <<Message(<<SignalAt("a", 0, 0, "little", TRUE)>>)>>,
   <<[Message(<<SignalAt("a", 0, 4, "little", TRUE)>>) EXCEPT !.bytes = 4]>>}

SomeWeights == [k \in 0 .. 4 |-> 2 ^ k]

SomeValues == -9..9 \cup {15, 16}

=============================================================================
