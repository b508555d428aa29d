---------------------------- MODULE MCCanFrames ----------------------------
(* Frames for TLC: the identifiers, lengths and flags where the rules      *)
(* change.                                                                 *)
EXTENDS Naturals

Frame(id, len, flags) == [id |-> id, len |-> len, flags |-> flags]

SomeFrames ==
  {Frame(1, 8, {}), Frame(1, 8, {"EXT"}), Frame(2047, 0, {"RTR"}), Frame(2048, 2, {}), Frame(2^29 - 1, 8, {"EXT", "RTR"}),
   Frame(2^29, 8, {"EXT"}), Frame(1, 9, {}), Frame(3, 8, {"BRS"}), Frame(3, 9, {"FD"}), Frame(3, 64, {"FD", "BRS", "ESI"}),
   Frame(3, 12, {"ESI"}), Frame(3, 8, {"FD", "RTR"}), Frame(1, 1, {"reserved"}), Frame(3, 65, {"FD"})}

(* A tool may send an FD frame of any length the wire has.                 *)
SomeToolFrames == {Frame(1, 8, {"EXT"}), Frame(3, 9, {"FD"}), Frame(3, 12, {"FD", "BRS"})}

=============================================================================
