------------------------- MODULE MCProjectLibrary -------------------------
(* Libraries for TLC: a good one, and those that differ from it in one or  *)
(* two respects.                                                           *)
EXTENDS Naturals, Sequences, TLC

Signal(id, name, type) == [id |-> id, name |-> name, type |-> type]
Channel(id, name, slots) == [id |-> id, name |-> name, slots |-> slots]
Bus(id, name) == [id |-> id, name |-> name]
Buses(n) == [k \in 1 .. n |-> Bus(k, "bus" \o ToString(k))]

CanExports == {"can_get_buses", "can_rx", "can_tx"}
SharedExports == {"shared_get_channels", "shared_read", "shared_write"}
Everything == {"init", "reset", "tick", "read_val", "write_val", "get_signal_count",
               "get_signals", "get_api_version", "get_tick_duration_us", "flash_write"}
  \cup CanExports \cup SharedExports
Answers == {"version", "tickUs", "count", "signals", "buses", "channels", "frames"}

Usual ==
  [version |-> <<2, 0>>, tickUs |-> 20, count |-> 1, signals |-> <<Signal(1, "a", 0)>>,
   regions |-> <<>>, refused |-> {}, exports |-> Everything, init |-> "ok",
   buses |-> <<Bus(1, "b")>>, channels |-> <<Channel(1, "c", 2)>>, wrong |-> {}]

Upto(S, n) == UNION {[1 .. k -> S] : k \in 0 .. n}
LibrarySignals == {Signal(i, n, t) : i \in {1, 2}, n \in {"a", "b", "can.x", "blank", "null"}, t \in {4, 5}}
SomeBuses == {Bus(i, n) : i \in {1, 2}, n \in {"a", "b", "blank", "null"}}
SomeChannels == {Channel(i, n, s) : i \in {1, 2}, n \in {"a", "b", "blank"}, s \in {0, 1}}
SomeRegions == {1 :> 5, 1 :> 6, 2 :> 7, (1 :> 8) @@ (2 :> 9)}

SomeLibraries ==
  {[Usual EXCEPT !.version = v, !.tickUs = t, !.init = s] :
     v \in {<<2, 0>>, <<2, 1>>, <<3, 0>>}, t \in {0, 20}, s \in {"ok", "error"}}
  \cup {[Usual EXCEPT !.exports = @ \ S, !.regions = r] :
          S \in {{a, b} : a, b \in Everything}
                \cup {{}, CanExports, SharedExports, CanExports \cup SharedExports},
          r \in {<<>>, <<1 :> 5>>}}
  \cup {[Usual EXCEPT !.signals = l, !.count = n] : l \in Upto(LibrarySignals, 2), n \in {0, 2, 3}}
  \cup {[Usual EXCEPT !.signals = [k \in 1 .. n |-> Signal(k, "s" \o ToString(k), 0)], !.count = c] :
          n \in 0 .. 12, c \in {0, 1, 3, 8, 10, 12}}
  \cup {[Usual EXCEPT !.buses = l] : l \in Upto(SomeBuses, 2) \cup {Buses(n) : n \in 0 .. 10}}
  \cup {[Usual EXCEPT !.channels = l] : l \in Upto(SomeChannels, 2)}
  \cup {[Usual EXCEPT !.regions = r] : r \in Upto(SomeRegions, 3)}
  \cup {[Usual EXCEPT !.regions = r, !.refused = {n}] : r \in Upto(SomeRegions, 2), n \in 1 .. 3}
  \cup {[Usual EXCEPT !.wrong = {a}, !.exports = @ \ S, !.buses = Buses(n)] :
          a \in Answers, S \in {{}, CanExports, SharedExports}, n \in {1, 5, 10}}

=============================================================================
