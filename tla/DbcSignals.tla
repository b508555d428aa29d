----------------------------- MODULE DbcSignals -----------------------------
(***************************************************************************)
(* Signals of a DBC file in a frame's payload (can/dbc.rs): which signals  *)
(* a file yields, where the bits of each lie, and what is written and read *)
(* there, bit by bit. Values, factors and offsets are integers; that f64   *)
(* rounds large ones is left out. No command encodes or decodes a signal   *)
(* yet; what is modelled is what the library offers. Each load makes an    *)
(* overlay of its own; one is followed here, and all its signals are       *)
(* written into one payload. The frame's identifier and EXTENDED flag,     *)
(* copies of the signal's, are left out.                                   *)
(***************************************************************************)
EXTENDS Integers, SequencesExt

CONSTANTS
  Files,      (* sequences of messages [bytes, signals]                    *)
  Values,     (* values to encode                                           *)
  Width,      (* bits of an integer: 64                                     *)
  Weight,     (* the powers of two, up to 2^Width                           *)
  Bits,       (* bits of the payload: 512                                   *)
  MaxBytes,   (* bytes of the largest payload: 64                           *)
  Classic,    (* bytes of the largest classic payload: 8                    *)
  MaxSteps    (* bound: values encoded                                      *)

DbcAssumption ==
  /\ {Width, Bits, MaxBytes, Classic, MaxSteps} \subseteq Nat /\ Width > 0
  /\ Values \subseteq Int
  /\ Weight \in [0 .. Width -> Nat] /\ Weight[0] = 1
  /\ \A n \in 0 .. Width - 1 : Weight[n + 1] = 2 * Weight[n]
  /\ \A m, n \in 0 .. Width : m < n => Weight[m] < Weight[n]
  /\ \A f \in Files :
       /\ f \in Seq(ToSet(f))
       /\ \A m \in ToSet(f) :
            /\ m.bytes \in Nat /\ m.signals \in Seq(ToSet(m.signals))
            /\ \A s \in ToSet(m.signals) :
                 /\ {s.start, s.size} \subseteq Nat
                 /\ s.order \in {"little", "big"}
                 /\ {s.signed, s.multiplexed} \subseteq BOOLEAN
                 /\ {s.factor, s.offset, s.min, s.max} \subseteq Int

VARIABLES
  file, message, next,   (* the file, and the signal to be taken from it    *)
  overlay,   (* the signals so far, by name                                 *)
  data,      (* the bits of the payload that are 1                          *)
  len, fd,   (* the frame's length and FD flag                              *)
  written,   (* the value last asked of each signal                         *)
  call,      (* "load", "refused", "idle", what is done with a signal, or   *)
             (* "panicked"                                                  *)
  steps

vars == <<file, message, next, overlay, data, len, fd, written, call, steps>>
frame == <<data, len, fd, written, steps>>
loaded == <<file, message, next, overlay>>

Init ==
  /\ file \in Files /\ message = 1 /\ next = 1
  /\ overlay = [n \in {} |-> 0]
  /\ data \in {{}, 0 .. Bits - 1} /\ len = 0 /\ fd = FALSE
  /\ written = [n \in {} |-> 0]
  /\ call = [op |-> "load"]
  /\ steps = 0

-----------------------------------------------------------------------------
(* DbcBusOverlay::load: the messages in order, a later signal of the same  *)
(* name in place of an earlier one.                                        *)
M == file[message]
Loading == call.op = "load" /\ message <= Len(file)

Refuse ==
  /\ call' = [op |-> "refused"]
  /\ UNCHANGED <<loaded, frame>>

LongMessage == Loading /\ next = 1 /\ M.bytes > MaxBytes /\ Refuse

TakeSignal ==
  /\ Loading /\ M.bytes <= MaxBytes /\ next <= Len(M.signals)
  /\ LET s == M.signals[next]
     IN IF s.multiplexed \/ s.size \notin 1 .. Width
        THEN Refuse
        ELSE /\ overlay' = [n \in DOMAIN overlay \cup {s.name} |->
                             IF n = s.name THEN [signal |-> s, bytes |-> M.bytes] ELSE overlay[n]]
             /\ next' = next + 1
             /\ UNCHANGED <<file, message, call, frame>>

NextMessage ==
  /\ Loading /\ M.bytes <= MaxBytes /\ next > Len(M.signals)
  /\ message' = message + 1 /\ next' = 1
  /\ UNCHANGED <<file, overlay, call, frame>>

Loaded ==
  /\ call.op = "load" /\ message > Len(file)
  /\ call' = [op |-> "idle"]
  /\ UNCHANGED <<loaded, frame>>

-----------------------------------------------------------------------------
(* Rounded to the nearest, halves away from zero, and kept in a signed     *)
(* integer of the width.                                                   *)
Abs(n) == IF n < 0 THEN -n ELSE n
Round(a, b) == IF a < 0 THEN -((2 * (-a) + b) \div (2 * b)) ELSE (2 * a + b) \div (2 * b)
Divide(a, b) == IF b < 0 THEN Round(-a, -b) ELSE Round(a, b)

Highest == Weight[Width - 1] - 1
Lowest == -Weight[Width - 1]
Clamp(n) == IF n > Highest THEN Highest ELSE IF n < Lowest THEN Lowest ELSE n
Raw(s, v) == Clamp(Divide(v - s.offset, s.factor))

Encodable(s, v) ==
  /\ (s.min # 0 \/ s.max # 0) => v \in s.min .. s.max
  /\ s.factor # 0
  /\ IF s.signed THEN Raw(s, v) \in -Weight[s.size - 1] .. Weight[s.size - 1] - 1
     ELSE Raw(s, v) \in 0 .. Weight[s.size] - 1

(* The signal's bits, as a number: two's complement.                       *)
Masked(s, raw) == IF raw < 0 THEN raw + Weight[s.size] ELSE raw

(* next_motorola_bit: down through the byte, then to the top of the next.  *)
NextBit(p) == IF p % 8 = 0 THEN p + 15 ELSE p - 1

BitOf(raw, i) == (raw \div Weight[i]) % 2
(* The weight of the bit that is visited in a place: the lowest first, or  *)
(* the highest.                                                            *)
Shift(s, idx) == IF s.order = "little" THEN idx ELSE s.size - 1 - idx

(* What is written elsewhere than in a signal's places is expected to stay.*)
Saw(p) == 8 * (p \div 8) + (7 - (p % 8))
PlaceAt(s, idx) == IF s.order = "little" THEN s.start + idx ELSE Saw(Saw(s.start) + idx)
Places(s) == {PlaceAt(s, idx) : idx \in 0 .. s.size - 1}
Apart(s) == {n \in DOMAIN written : Places(overlay[n].signal) \cap Places(s) = {}}

-----------------------------------------------------------------------------
Free == call.op \in {"idle", "decoded"}
Signal == overlay[call.name].signal

Visit(op, name, value, raw, idx, pos) ==
  [op |-> op, name |-> name, value |-> value, raw |-> raw, idx |-> idx, pos |-> pos]

(* To the next bit, or out with an error once one lies behind the payload: *)
(* the bits before it have been written.                                   *)
VisitNext(raw) ==
  call' = Visit(call.op, call.name, call.value, raw, call.idx + 1,
                IF Signal.order = "little" THEN call.pos + 1 ELSE NextBit(call.pos))
OutOfBounds ==
  /\ call.op \in {"encode", "decode"} /\ call.idx < Signal.size /\ call.pos >= Bits
  /\ call' = [op |-> "idle"]
  /\ UNCHANGED <<loaded, frame>>

(* encode_signal and insert_raw                                            *)
Encode(name, v) ==
  LET s == overlay[name].signal
  IN /\ Free /\ steps < MaxSteps /\ Encodable(s, v)
     /\ steps' = steps + 1
     /\ written' = [n \in Apart(s) |-> written[n]]
     /\ call' = Visit("encode", name, v, Masked(s, Raw(s, v)), 0, s.start)
     /\ UNCHANGED <<loaded, data, len, fd>>

SetBit ==
  /\ call.op = "encode" /\ call.idx < Signal.size /\ call.pos < Bits
  /\ data' = IF BitOf(call.raw, Shift(Signal, call.idx)) = 1
             THEN data \cup {call.pos} ELSE data \ {call.pos}
  /\ VisitNext(call.raw)
  /\ UNCHANGED <<loaded, len, fd, written, steps>>

Encoded ==
  /\ call.op = "encode" /\ call.idx = Signal.size
  /\ LET bytes == overlay[call.name].bytes
     IN len' = IF bytes > len THEN bytes ELSE len
  /\ fd' = (len' > Classic)
  /\ written' = [n \in DOMAIN written \cup {call.name} |->
                  IF n = call.name THEN call.value ELSE written[n]]
  /\ call' = [op |-> "idle"]
  /\ UNCHANGED <<loaded, data, steps>>

(* decode_signal and extract_raw                                           *)
Decode(name) ==
  /\ Free
  /\ call' = Visit("decode", name, 0, 0, 0, overlay[name].signal.start)
  /\ UNCHANGED <<loaded, frame>>

GetBit ==
  /\ call.op = "decode" /\ call.idx < Signal.size /\ call.pos < Bits
  /\ LET bit == IF call.pos \in data THEN 1 ELSE 0
     IN VisitNext(IF Signal.order = "little" THEN call.raw + bit * Weight[call.idx]
                  ELSE 2 * call.raw + bit)
  /\ UNCHANGED <<loaded, frame>>

(* signed_from_raw.  At a bit less than the width, the power of two that a *)
(* negative number is lowered by is the lowest integer, and subtracting it *)
(* overflows: a build that checks for overflow panics, one that wraps      *)
(* around ends at the same number.                                         *)
Overflows(s, raw) == s.signed /\ s.size = Width - 1 /\ raw >= Weight[s.size - 1]
Signed(s, raw) == IF raw >= Weight[s.size - 1] THEN raw - Weight[s.size] ELSE raw
Scaled(s, raw) == (IF s.signed THEN Signed(s, raw) ELSE raw) * s.factor + s.offset

Decoded ==
  /\ call.op = "decode" /\ call.idx = Signal.size
  /\ call' = [op |-> "decoded", name |-> call.name, value |-> Scaled(Signal, call.raw)]
  /\ UNCHANGED <<loaded, frame>>

DecodePanics ==
  /\ call.op = "decode" /\ call.idx = Signal.size
  /\ Overflows(Signal, call.raw)
  /\ call' = [op |-> "panicked", name |-> call.name]
  /\ UNCHANGED <<loaded, frame>>

Next ==
  \/ LongMessage \/ TakeSignal \/ NextMessage \/ Loaded
  \/ \E name \in DOMAIN overlay, v \in Values : Encode(name, v)
  \/ SetBit \/ Encoded
  \/ \E name \in DOMAIN overlay : Decode(name)
  \/ GetBit \/ Decoded \/ DecodePanics \/ OutOfBounds
  \/ (Free \/ call.op \in {"refused", "panicked"}) /\ UNCHANGED vars

Spec == Init /\ [][Next]_vars

-----------------------------------------------------------------------------
TypeOK ==
  /\ call.op \in {"load", "refused", "idle", "encode", "decode", "decoded", "panicked"}
  /\ data \subseteq 0 .. Bits - 1
  /\ len \in 0 .. MaxBytes /\ fd \in BOOLEAN /\ steps \in 0 .. MaxSteps
  /\ fd => len > Classic
  /\ DOMAIN written \subseteq DOMAIN overlay

(* Every signal reads, to half a factor, the value last asked of it,       *)
(* whatever has been written before and after to signals that share no bit *)
(* with it: signs, byte orders and neighbours do not mix, and what could   *)
(* be written can be read.  Only a signal as wide as an integer, or one    *)
(* without a sign and a bit narrower, may lose a value: one beyond a       *)
(* signed integer is not refused, the signal gets the nearest.  And only   *)
(* one with a sign and a bit narrower may panic, on a negative value.      *)
ReadsBack ==
  /\ call.op = "decoded" /\ call.name \in DOMAIN written =>
       LET s == Signal
           v == written[call.name]
       IN \/ 2 * Abs(call.value - v) <= Abs(s.factor)
          \/ /\ s.size = Width \/ (~ s.signed /\ s.size = Width - 1)
             /\ call.value \in {s.factor * Highest + s.offset, s.factor * Lowest + s.offset}
             /\ Abs(v - s.offset) > Abs(s.factor) * Highest
  /\ call.op = "panicked" /\ call.name \in DOMAIN written =>
       Signal.signed /\ Signal.size = Width - 1 /\ Raw(Signal, written[call.name]) < 0
  /\ call.op = "decode" /\ call.name \in DOMAIN written /\ call.idx < Signal.size => call.pos < Bits

=============================================================================
