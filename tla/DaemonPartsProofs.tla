------------------------- MODULE DaemonPartsProofs -------------------------
(***************************************************************************)
(* What holds of the parts that both kinds of daemon share: their          *)
(* transport of requests, their clock, and what the devices of an env hand *)
(* to each other in their ticks.                                           *)
(*                                                                         *)
(* A request is carried out as often as its client can account for,        *)
(* for any number of clients and attempts and whatever fails.  The daemon  *)
(* cannot tell that two requests are one, so this rests on what an attempt *)
(* leaves behind: only one that ended in a read timeout can leave a        *)
(* request that is still to be carried out, or an answer nobody reads.     *)
(***************************************************************************)
EXTENDS RequestTransport, FiniteSetTheorems, SequenceTheorems, TLAPS

(* An attempt of which nothing is on its way and nothing was answered.     *)
Quiet(c, n) ==
  /\ <<c, n>> \notin wire
  /\ \A j \in 1 .. Len(queue) : queue[j] # <<c, n>>
  /\ reply[c][n] = "none"

(* An attempt is on its way once, and only until it is answered.           *)
OnceInv ==
  /\ \A m \in wire : /\ reply[m[1]][m[2]] = "none"
                     /\ \A j \in 1 .. Len(queue) : queue[j] # m
  /\ \A j \in 1 .. Len(queue) : reply[queue[j][1]][queue[j][2]] = "none"
  /\ \A j, k \in 1 .. Len(queue) : queue[j] = queue[k] => j = k

(* An attempt that was not made has left nothing behind.                   *)
AheadInv ==
  \A c \in Clients, n \in Attempts :
    n > attempt[c] \/ (n = attempt[c] /\ pc[c] \in {"prepare", "connect"}) => Quiet(c, n)

(* Nor has one that failed, unless the client gave up waiting.             *)
UntimedInv ==
  \A c \in Clients, n \in Attempts :
    ~timedOut[c] /\ (n < attempt[c] \/ (n = attempt[c] /\ pc[c] = "failed")) => Quiet(c, n)

(* What a client is told is the answer to its last attempt.                *)
AnswerInv == \A c \in Clients : pc[c] \in {"ok", "refused"} => reply[c][attempt[c]] = pc[c]

(* Every time that a request is carried out is an attempt answered so.     *)
Oks(c) == {n \in Attempts : reply[c][n] = "ok"}
CountInv == \A c \in Clients : done[c] = Cardinality(Oks(c))

RefuseInv ==
  \A c \in Clients :
    /\ c \in OnceOnly => done[c] <= 1
    /\ \A n \in Attempts : reply[c][n] = "refused" => c \in OnceOnly /\ done[c] > 0

(* A daemon that died takes the requests with it.                          *)
DownInv == ~up => wire = {} /\ queue = <<>>

IInv ==
  /\ TypeOK /\ OnceInv /\ AheadInv /\ UntimedInv /\ AnswerInv /\ CountInv /\ RefuseInv
  /\ DownInv

-----------------------------------------------------------------------------
(* Types.                                                                  *)

LEMMA AttemptsFinite ==
  ASSUME TransportAssumption
  PROVE  /\ MaxAttempts \in Nat \ {0}
         /\ 0 \in Attempts /\ Attempts \subseteq Nat /\ IsFiniteSet(Attempts)
<1>1. MaxAttempts \in Nat \ {0}
  BY DEF TransportAssumption
<1>2. IsFiniteSet(0 .. MaxAttempts - 1)
  BY <1>1, FS_Interval
<1> QED BY <1>1, <1>2 DEF Attempts

LEMMA QueuedTypes ==
  ASSUME TypeOK, NEW j \in 1 .. Len(queue)
  PROVE  /\ queue[j] \in Clients \X Attempts
         /\ queue[j][1] \in Clients /\ queue[j][2] \in Attempts
         /\ queue[j] = <<queue[j][1], queue[j][2]>>
<1>1. queue \in Seq(Clients \X Attempts)
  BY DEF TypeOK
<1>2. queue[j] \in Clients \X Attempts
  BY <1>1, ElementOfSeq
<1> QED BY <1>2

LEMMA WrittenTypes ==
  ASSUME TypeOK, NEW m \in wire
  PROVE  m[1] \in Clients /\ m[2] \in Attempts /\ m = <<m[1], m[2]>>
BY DEF TypeOK

(* The request that the daemon takes from its channel, and those left.     *)
LEMMA Taking ==
  ASSUME TypeOK, queue # <<>>
  PROVE  /\ Head(queue) = queue[1] /\ 1 \in 1 .. Len(queue)
         /\ Head(queue) \in Clients \X Attempts
         /\ Head(queue) = <<Head(queue)[1], Head(queue)[2]>>
         /\ Head(queue)[1] \in Clients /\ Head(queue)[2] \in Attempts
         /\ Tail(queue) \in Seq(Clients \X Attempts)
         /\ Len(Tail(queue)) = Len(queue) - 1
         /\ \A j \in 1 .. Len(Tail(queue)) :
              j + 1 \in 1 .. Len(queue) /\ Tail(queue)[j] = queue[j + 1]
<1>1. queue \in Seq(Clients \X Attempts)
  BY DEF TypeOK
<1>2. Len(queue) \in Nat /\ Len(queue) >= 1
  BY <1>1, EmptySeq, LenProperties
<1>3. Head(queue) = queue[1] /\ 1 \in 1 .. Len(queue)
  BY <1>1, <1>2, HeadTailProperties
<1>4. /\ Tail(queue) \in Seq(Clients \X Attempts)
      /\ Len(Tail(queue)) = Len(queue) - 1
      /\ \A j \in 1 .. Len(Tail(queue)) : Tail(queue)[j] = queue[j + 1]
  BY <1>1, HeadTailProperties
<1>5. \A j \in 1 .. Len(Tail(queue)) : j + 1 \in 1 .. Len(queue)
  BY <1>2, <1>4
<1> QED BY <1>3, <1>4, <1>5, QueuedTypes

(* What the channel holds when a request is added.                         *)
LEMMA Adding ==
  ASSUME TypeOK, NEW m \in wire
  PROVE  /\ Append(queue, m) \in Seq(Clients \X Attempts)
         /\ Len(queue) \in Nat
         /\ Len(Append(queue, m)) = Len(queue) + 1
         /\ \A j \in 1 .. Len(queue) : Append(queue, m)[j] = queue[j]
         /\ Append(queue, m)[Len(queue) + 1] = m
<1>1. queue \in Seq(Clients \X Attempts) /\ m \in Clients \X Attempts
  BY DEF TypeOK
<1> QED BY <1>1, AppendProperties, LenProperties

-----------------------------------------------------------------------------
(* The invariant at first.                                                 *)

LEMMA InitInvariant ==
  ASSUME TransportAssumption, Init
  PROVE  IInv
<1>1. Len(queue) = 0 /\ wire = {} /\ queue = <<>>
  BY DEF Init
<1>2. TypeOK
  <2>1. queue \in Seq(Clients \X Attempts)
    BY <1>1
  <2> QED BY <2>1, AttemptsFinite DEF Init, TypeOK, Failures
<1>3. \A c \in Clients, n \in Attempts : Quiet(c, n)
  BY <1>1 DEF Init, Quiet
<1>4. OnceInv /\ AheadInv /\ UntimedInv /\ DownInv
  BY <1>1, <1>3 DEF OnceInv, AheadInv, UntimedInv, DownInv
<1>5. AnswerInv /\ RefuseInv
  BY DEF Init, AnswerInv, RefuseInv
<1>6. CountInv
  <2>1. \A c \in Clients : Oks(c) = {}
    BY DEF Init, Oks
  <2> QED BY <2>1, FS_EmptySet DEF Init, CountInv
<1> QED BY <1>2, <1>4, <1>5, <1>6 DEF IInv

-----------------------------------------------------------------------------
(* A client.  But for the request that Connect writes, a client changes    *)
(* nothing of what the daemon and the connections hold.                    *)

DaemonSide == <<wire, queue, reply, done, up>>

LEMMA DaemonSideKept ==
  ASSUME IInv, UNCHANGED DaemonSide
  PROVE  OnceInv' /\ CountInv' /\ RefuseInv' /\ DownInv'
<1>1. /\ wire' = wire /\ queue' = queue /\ reply' = reply /\ done' = done /\ up' = up
      /\ OnceInv /\ CountInv /\ RefuseInv /\ DownInv
  BY DEF IInv, DaemonSide
<1>2. OnceInv'
  BY <1>1 DEF OnceInv
<1>3. CountInv'
  BY <1>1 DEF CountInv, Oks
<1>4. RefuseInv'
  BY <1>1 DEF RefuseInv
<1>5. DownInv'
  BY <1>1 DEF DownInv
<1> QED BY <1>2, <1>3, <1>4, <1>5

LEMMA QuietKept ==
  ASSUME UNCHANGED DaemonSide, NEW c, NEW n, Quiet(c, n)
  PROVE  Quiet(c, n)'
BY DEF DaemonSide, Quiet

LEMMA PrepareInvariant ==
  ASSUME TransportAssumption, IInv, NEW c \in Clients, Prepare(c)
  PROVE  IInv'
<1>1. TypeOK /\ UNCHANGED DaemonSide /\ UNCHANGED <<failure, attempt, timedOut>>
  BY DEF IInv, Prepare, DaemonSide
<1>2. /\ pc' = [pc EXCEPT ![c] = IF up THEN "connect" ELSE "error"]
      /\ pc[c] = "prepare"
  BY DEF Prepare, Goto
<1>3. TypeOK'
  BY <1>1, <1>2 DEF TypeOK, DaemonSide
<1>4. AheadInv' /\ UntimedInv'
  BY <1>1, <1>2, QuietKept DEF IInv, TypeOK, AheadInv, UntimedInv
<1>5. AnswerInv'
  BY <1>1, <1>2 DEF IInv, TypeOK, DaemonSide, AnswerInv
<1> QED BY <1>1, <1>3, <1>4, <1>5, DaemonSideKept DEF IInv

(* The request that is written is of an attempt not made before.           *)
LEMMA WriteInvariant ==
  ASSUME TransportAssumption, IInv, NEW c \in Clients,
         pc[c] = "connect", up,
         wire' = wire \cup {<<c, attempt[c]>>},
         pc' = [pc EXCEPT ![c] = "read"],
         UNCHANGED <<failure, attempt, queue, reply, done, up, timedOut>>
  PROVE  IInv'
<1>1. TypeOK /\ attempt[c] \in Attempts /\ Attempts \subseteq Nat
  BY AttemptsFinite DEF IInv, TypeOK
<1>2. Quiet(c, attempt[c])
  BY <1>1 DEF IInv, AheadInv
<1>3. TypeOK'
  BY <1>1 DEF TypeOK
<1>4. ASSUME NEW d \in Clients, NEW n \in Attempts, Quiet(d, n), d # c \/ n # attempt[c]
      PROVE  Quiet(d, n)'
  BY <1>4 DEF Quiet
<1>5. OnceInv'
  BY <1>1, <1>2 DEF IInv, OnceInv, Quiet
<1>6. AheadInv'
  <2>1. SUFFICES ASSUME NEW d \in Clients, NEW n \in Attempts,
                        n > attempt[d] \/ (n = attempt[d] /\ pc'[d] \in {"prepare", "connect"})
                 PROVE  Quiet(d, n)'
    BY DEF AheadInv
  <2>2. d # c \/ n # attempt[c]
    BY <1>1, <2>1 DEF TypeOK
  <2>3. Quiet(d, n)
    BY <1>1, <2>1 DEF IInv, AheadInv, TypeOK
  <2> QED BY <1>4, <2>2, <2>3
<1>7. UntimedInv'
  <2>1. SUFFICES ASSUME NEW d \in Clients, NEW n \in Attempts, ~timedOut[d],
                        n < attempt[d] \/ (n = attempt[d] /\ pc'[d] = "failed")
                 PROVE  Quiet(d, n)'
    BY DEF UntimedInv
  <2>2. d # c \/ n # attempt[c]
    BY <1>1, <2>1 DEF TypeOK
  <2>3. Quiet(d, n)
    BY <1>1, <2>1 DEF IInv, UntimedInv, TypeOK
  <2> QED BY <1>4, <2>2, <2>3
<1>8. AnswerInv' /\ CountInv' /\ RefuseInv' /\ DownInv'
  BY <1>1 DEF IInv, TypeOK, AnswerInv, CountInv, Oks, RefuseInv, DownInv
<1> QED BY <1>3, <1>5, <1>6, <1>7, <1>8 DEF IInv

(* An attempt fails without a request that could be answered later, or     *)
(* its client has given up waiting.                                        *)
LEMMA FailInvariant ==
  ASSUME TransportAssumption, IInv, NEW c \in Clients, NEW why \in Failures,
         Fails(c, why), pc[c] \in {"connect", "read"},
         UNCHANGED DaemonSide, UNCHANGED attempt,
         \/ UNCHANGED timedOut /\ Quiet(c, attempt[c])
         \/ timedOut' = [timedOut EXCEPT ![c] = TRUE]
  PROVE  IInv'
<1>1. /\ TypeOK
      /\ pc' = [pc EXCEPT ![c] = "failed"]
      /\ failure' = [failure EXCEPT ![c] = why]
  BY DEF IInv, Fails, Goto
<1>2. TypeOK'
  BY <1>1 DEF TypeOK, DaemonSide
<1>3. AheadInv'
  BY <1>1, QuietKept DEF IInv, TypeOK, AheadInv
<1>4. UntimedInv'
  <2>1. SUFFICES ASSUME NEW d \in Clients, NEW n \in Attempts, ~timedOut'[d],
                        n < attempt[d] \/ (n = attempt[d] /\ pc'[d] = "failed")
                 PROVE  Quiet(d, n)
    BY QuietKept DEF UntimedInv
  <2>2. ~timedOut[d] /\ (d # c \/ Quiet(c, attempt[c]))
    BY <1>1, <2>1 DEF TypeOK
  <2> QED BY <1>1, <2>1, <2>2 DEF IInv, TypeOK, UntimedInv
<1>5. AnswerInv'
  BY <1>1 DEF IInv, TypeOK, DaemonSide, AnswerInv
<1> QED BY <1>2, <1>3, <1>4, <1>5, DaemonSideKept DEF IInv

LEMMA ConnectInvariant ==
  ASSUME TransportAssumption, IInv, NEW c \in Clients, Connect(c)
  PROVE  IInv'
<1>1. pc[c] = "connect" /\ UNCHANGED <<attempt, queue, reply, done, up, timedOut>>
  BY DEF Connect
<1>2. Quiet(c, attempt[c])
  BY <1>1 DEF IInv, TypeOK, AheadInv
<1>3. CASE up /\ wire' = wire \cup {<<c, attempt[c]>>} /\ Goto(c, "read") /\ UNCHANGED failure
  BY <1>1, <1>3, WriteInvariant DEF Goto
<1>4. CASE Fails(c, "refused") /\ UNCHANGED wire
  <2>1. UNCHANGED DaemonSide /\ "refused" \in Failures
    BY <1>1, <1>4 DEF DaemonSide, Failures
  <2> QED BY <1>1, <1>2, <1>4, <2>1, FailInvariant
<1>5. CASE Fails(c, "timeout") /\ UNCHANGED wire
  <2>1. UNCHANGED DaemonSide /\ "timeout" \in Failures
    BY <1>1, <1>5 DEF DaemonSide, Failures
  <2> QED BY <1>1, <1>2, <1>5, <2>1, FailInvariant
<1> QED BY <1>3, <1>4, <1>5 DEF Connect

LEMMA ReadReplyInvariant ==
  ASSUME TransportAssumption, IInv, NEW c \in Clients, ReadReply(c)
  PROVE  IInv'
<1>1. TypeOK /\ UNCHANGED DaemonSide /\ UNCHANGED <<failure, attempt, timedOut>>
  BY DEF IInv, ReadReply, DaemonSide
<1>2. /\ pc' = [pc EXCEPT ![c] = reply[c][attempt[c]]]
      /\ reply[c][attempt[c]] \in {"ok", "refused"}
  BY <1>1 DEF ReadReply, Goto, TypeOK
<1>3. TypeOK'
  BY <1>1, <1>2 DEF TypeOK, DaemonSide
<1>4. AheadInv'
  BY <1>1, <1>2, QuietKept DEF IInv, TypeOK, AheadInv
<1>5. UntimedInv'
  BY <1>1, <1>2, QuietKept DEF IInv, TypeOK, UntimedInv
<1>6. AnswerInv'
  BY <1>1, <1>2 DEF IInv, TypeOK, DaemonSide, AnswerInv
<1> QED BY <1>1, <1>3, <1>4, <1>5, <1>6, DaemonSideKept DEF IInv

LEMMA ReadTimesOutInvariant ==
  ASSUME TransportAssumption, IInv, NEW c \in Clients, ReadTimesOut(c)
  PROVE  IInv'
<1>1. "timeout" \in Failures /\ UNCHANGED DaemonSide /\ UNCHANGED attempt
  BY DEF ReadTimesOut, DaemonSide, Failures
<1> QED BY <1>1, FailInvariant DEF ReadTimesOut

LEMMA ReadBreaksInvariant ==
  ASSUME TransportAssumption, IInv, NEW c \in Clients, ReadBreaks(c)
  PROVE  IInv'
<1>1. /\ "eof" \in Failures /\ "reset" \in Failures
      /\ UNCHANGED DaemonSide /\ UNCHANGED <<attempt, timedOut>>
      /\ pc[c] = "read" /\ ~up /\ reply[c][attempt[c]] = "none"
      /\ Fails(c, "eof") \/ Fails(c, "reset")
  BY DEF ReadBreaks, DaemonSide, Failures
<1>2. wire = {} /\ Len(queue) = 0
  BY <1>1 DEF IInv, DownInv
<1>3. Quiet(c, attempt[c])
  BY <1>1, <1>2 DEF Quiet
<1> QED BY <1>1, <1>3, FailInvariant

LEMMA RetryInvariant ==
  ASSUME TransportAssumption, IInv, NEW c \in Clients, Retry(c)
  PROVE  IInv'
<1>1. /\ TypeOK /\ pc[c] = "failed" /\ attempt[c] \in Attempts
      /\ UNCHANGED DaemonSide /\ UNCHANGED <<failure, timedOut>>
  BY DEF IInv, Retry, DaemonSide, TypeOK
<1>2. CASE Goto(c, "error") /\ UNCHANGED attempt
  <2>1. pc' = [pc EXCEPT ![c] = "error"] /\ attempt' = attempt
    BY <1>2 DEF Goto
  <2>2. TypeOK'
    BY <1>1, <2>1 DEF TypeOK, DaemonSide
  <2>3. AheadInv' /\ UntimedInv'
    BY <1>1, <2>1, QuietKept DEF IInv, TypeOK, AheadInv, UntimedInv
  <2>4. AnswerInv'
    BY <1>1, <2>1 DEF IInv, TypeOK, DaemonSide, AnswerInv
  <2> QED BY <1>1, <2>2, <2>3, <2>4, DaemonSideKept DEF IInv
<1>3. CASE /\ ~(attempt[c] + 1 >= MaxAttempts)
           /\ Goto(c, "connect") /\ attempt' = [attempt EXCEPT ![c] = @ + 1]
  <2>1. /\ pc' = [pc EXCEPT ![c] = "connect"]
        /\ attempt' = [attempt EXCEPT ![c] = attempt[c] + 1]
        /\ attempt[c] + 1 \in Attempts
    BY <1>1, <1>3, AttemptsFinite DEF Goto, Attempts
  <2>2. TypeOK'
    BY <1>1, <2>1 DEF TypeOK, DaemonSide
  <2>3. /\ \A n \in Attempts : n > attempt[c] => Quiet(c, n)
        /\ ~timedOut[c] => \A n \in Attempts : n <= attempt[c] => Quiet(c, n)
        /\ Attempts \subseteq Nat
    BY <1>1, AttemptsFinite DEF IInv, AheadInv, UntimedInv
  <2>4. AheadInv'
    <3>1. SUFFICES ASSUME NEW d \in Clients, NEW n \in Attempts,
                          \/ n > attempt'[d]
                          \/ n = attempt'[d] /\ pc'[d] \in {"prepare", "connect"}
                   PROVE  Quiet(d, n)
      BY <1>1, QuietKept DEF AheadInv
    <3>2. CASE d = c
      <4>1. attempt'[c] = attempt[c] + 1 /\ pc'[c] = "connect"
        BY <1>1, <2>1 DEF TypeOK
      <4>2. attempt[c] \in Nat /\ n \in Nat
        BY <1>1, <2>3
      <4> QED BY <2>3, <3>1, <3>2, <4>1, <4>2
    <3>3. CASE d # c
      <4>1. attempt'[d] = attempt[d] /\ pc'[d] = pc[d]
        BY <1>1, <2>1, <3>3 DEF TypeOK
      <4> QED BY <3>1, <4>1 DEF IInv, AheadInv
    <3> QED BY <3>2, <3>3
  <2>5. UntimedInv'
    <3>1. SUFFICES ASSUME NEW d \in Clients, NEW n \in Attempts, ~timedOut[d],
                          n < attempt'[d] \/ (n = attempt'[d] /\ pc'[d] = "failed")
                   PROVE  Quiet(d, n)
      BY <1>1, QuietKept DEF UntimedInv
    <3>2. CASE d = c
      <4>1. attempt'[c] = attempt[c] + 1 /\ pc'[c] = "connect"
        BY <1>1, <2>1 DEF TypeOK
      <4>2. attempt[c] \in Nat /\ n \in Nat
        BY <1>1, <2>3
      <4> QED BY <2>3, <3>1, <3>2, <4>1, <4>2
    <3>3. CASE d # c
      <4>1. attempt'[d] = attempt[d] /\ pc'[d] = pc[d]
        BY <1>1, <2>1, <3>3 DEF TypeOK
      <4> QED BY <3>1, <4>1 DEF IInv, UntimedInv
    <3> QED BY <3>2, <3>3
  <2>6. AnswerInv'
    BY <1>1, <2>1 DEF IInv, TypeOK, DaemonSide, AnswerInv
  <2> QED BY <1>1, <2>2, <2>4, <2>5, <2>6, DaemonSideKept DEF IInv
<1> QED BY <1>2, <1>3 DEF Retry

-----------------------------------------------------------------------------
(* The daemon.                                                             *)

(* What a client was told, and what it tries next, is not for the daemon   *)
(* to change: it is enough that quiet attempts stay quiet.                 *)
LEMMA DaemonInvariant ==
  ASSUME TransportAssumption, IInv,
         UNCHANGED <<pc, failure, attempt, timedOut>>,
         \A c \in Clients, n \in Attempts : Quiet(c, n) => Quiet(c, n)'
  PROVE  AheadInv' /\ UntimedInv'
BY DEF IInv, AheadInv, UntimedInv

LEMMA EnqueueInvariant ==
  ASSUME TransportAssumption, IInv, Enqueue
  PROVE  IInv'
<1>1. PICK m \in wire : wire' = wire \ {m} /\ queue' = Append(queue, m)
  BY DEF Enqueue
<1>2. /\ TypeOK /\ OnceInv
      /\ UNCHANGED <<pc, failure, attempt, reply, done, up, timedOut>>
  BY DEF IInv, Enqueue
<1>3. /\ m[1] \in Clients /\ m[2] \in Attempts /\ m = <<m[1], m[2]>>
      /\ reply[m[1]][m[2]] = "none"
      /\ \A j \in 1 .. Len(queue) : queue[j] # m
  BY <1>2, WrittenTypes DEF OnceInv
<1>4. /\ queue' \in Seq(Clients \X Attempts)
      /\ Len(queue) \in Nat
      /\ Len(queue') = Len(queue) + 1
      /\ \A j \in 1 .. Len(queue) : queue'[j] = queue[j]
      /\ queue'[Len(queue) + 1] = m
  BY <1>1, <1>2, Adding
<1>5. TypeOK'
  BY <1>1, <1>2, <1>4 DEF TypeOK
<1>6. OnceInv'
  <2>1. \A k \in wire' : /\ reply'[k[1]][k[2]] = "none"
                         /\ \A j \in 1 .. Len(queue') : queue'[j] # k
    BY <1>1, <1>2, <1>4 DEF OnceInv
  <2>2. \A j \in 1 .. Len(queue') : reply'[queue'[j][1]][queue'[j][2]] = "none"
    BY <1>2, <1>3, <1>4 DEF OnceInv
  <2>3. \A j, k \in 1 .. Len(queue') : queue'[j] = queue'[k] => j = k
    BY <1>2, <1>3, <1>4 DEF OnceInv
  <2> QED BY <2>1, <2>2, <2>3 DEF OnceInv
<1>7. ASSUME NEW c \in Clients, NEW n \in Attempts, Quiet(c, n)
      PROVE  Quiet(c, n)'
  <2>1. <<c, n>> \notin wire' /\ m # <<c, n>> /\ reply'[c][n] = "none"
    BY <1>1, <1>2, <1>7 DEF Quiet
  <2>2. ASSUME NEW j \in 1 .. Len(queue') PROVE queue'[j] # <<c, n>>
    <3>1. CASE j \in 1 .. Len(queue)
      BY <1>4, <1>7, <3>1 DEF Quiet
    <3>2. CASE j = Len(queue) + 1
      BY <1>4, <2>1, <3>2
    <3> QED BY <1>4, <2>2, <3>1, <3>2
  <2> QED BY <2>1, <2>2 DEF Quiet
<1>8. AheadInv' /\ UntimedInv'
  BY <1>2, <1>7, DaemonInvariant
<1>9. AnswerInv' /\ CountInv' /\ RefuseInv' /\ DownInv'
  <2>1. AnswerInv' /\ RefuseInv'
    BY <1>2 DEF IInv, AnswerInv, RefuseInv
  <2>2. CountInv'
    BY <1>2 DEF IInv, CountInv, Oks
  <2>3. DownInv'
    BY DEF Enqueue, DownInv
  <2> QED BY <2>1, <2>2, <2>3
<1> QED BY <1>5, <1>6, <1>8, <1>9 DEF IInv

LEMMA CarryOutInvariant ==
  ASSUME TransportAssumption, IInv, CarryOut
  PROVE  IInv'
<1> DEFINE c == Head(queue)[1]
           n == Head(queue)[2]
           refuse == c \in OnceOnly /\ done[c] > 0
           word == IF refuse THEN "refused" ELSE "ok"
<1>1. /\ TypeOK /\ OnceInv /\ CountInv /\ RefuseInv
      /\ queue # <<>> /\ queue' = Tail(queue)
      /\ UNCHANGED <<pc, failure, attempt, wire, up, timedOut>>
  BY DEF IInv, CarryOut
<1>2. /\ Head(queue) = queue[1] /\ 1 \in 1 .. Len(queue)
      /\ queue[1] = <<c, n>> /\ c \in Clients /\ n \in Attempts
      /\ queue' \in Seq(Clients \X Attempts)
      /\ Len(queue') = Len(queue) - 1
      /\ \A j \in 1 .. Len(queue') : j + 1 \in 1 .. Len(queue) /\ queue'[j] = queue[j + 1]
  BY <1>1, Taking
<1>3. /\ done' = IF refuse THEN done ELSE [done EXCEPT ![c] = done[c] + 1]
      /\ reply' = [reply EXCEPT ![c] = [reply[c] EXCEPT ![n] = word]]
  BY DEF CarryOut
<1>4. /\ reply[c][n] = "none" /\ <<c, n>> \notin wire
      /\ \A j \in 1 .. Len(queue') : queue'[j] # <<c, n>>
  <2>1. reply[c][n] = "none" /\ <<c, n>> \notin wire
    BY <1>1, <1>2 DEF OnceInv
  <2>2. ASSUME NEW j \in 1 .. Len(queue') PROVE queue'[j] # <<c, n>>
    <3>1. j + 1 \in 1 .. Len(queue) /\ queue'[j] = queue[j + 1] /\ j + 1 # 1
      BY <1>2, <2>2
    <3>2. queue[j + 1] # queue[1]
      BY <1>1, <1>2, <3>1 DEF OnceInv
    <3> QED BY <1>2, <3>1, <3>2
  <2> QED BY <2>1, <2>2
<1>5. /\ word \in {"ok", "refused"} /\ (word = "refused" <=> refuse)
      /\ done \in [Clients -> Nat]
      /\ reply \in [Clients -> [Attempts -> {"none", "ok", "refused"}]]
  BY <1>1 DEF TypeOK
<1> HIDE DEF c, n, refuse, word
<1>6. /\ reply'[c][n] = word
      /\ \A k \in Attempts : k # n => reply'[c][k] = reply[c][k]
      /\ \A d \in Clients : d # c => reply'[d] = reply[d] /\ done'[d] = done[d]
      /\ done'[c] = IF refuse THEN done[c] ELSE done[c] + 1
  BY <1>2, <1>3, <1>5
<1>7. \A d \in Clients, k \in Attempts : d # c \/ k # n => reply'[d][k] = reply[d][k]
  BY <1>6
<1>8. TypeOK'
  <2>1. reply' \in [Clients -> [Attempts -> {"none", "ok", "refused"}]]
    BY <1>2, <1>3, <1>5
  <2>2. done' \in [Clients -> Nat]
    BY <1>2, <1>3, <1>5
  <2> QED BY <1>1, <1>2, <2>1, <2>2 DEF TypeOK
<1>9. OnceInv'
  <2>1. ASSUME NEW m \in wire'
        PROVE  /\ reply'[m[1]][m[2]] = "none"
               /\ \A j \in 1 .. Len(queue') : queue'[j] # m
    <3>1. m \in wire /\ m[1] \in Clients /\ m[2] \in Attempts /\ m = <<m[1], m[2]>>
      BY <1>1, WrittenTypes
    <3>2. m[1] # c \/ m[2] # n
      BY <1>4, <3>1
    <3>3. reply'[m[1]][m[2]] = "none"
      BY <1>1, <1>7, <3>1, <3>2 DEF OnceInv
    <3>4. \A j \in 1 .. Len(queue') : queue'[j] # m
      BY <1>1, <1>2, <3>1 DEF OnceInv
    <3> QED BY <3>3, <3>4
  <2>2. ASSUME NEW j \in 1 .. Len(queue')
        PROVE  reply'[queue'[j][1]][queue'[j][2]] = "none"
    <3>1. j + 1 \in 1 .. Len(queue) /\ queue'[j] = queue[j + 1]
      BY <1>2
    <3>2. /\ queue'[j][1] \in Clients /\ queue'[j][2] \in Attempts
          /\ queue'[j] = <<queue'[j][1], queue'[j][2]>>
      BY <1>1, <3>1, QueuedTypes
    <3>3. reply[queue'[j][1]][queue'[j][2]] = "none"
      BY <1>1, <3>1 DEF OnceInv
    <3> QED BY <1>4, <1>7, <3>2, <3>3
  <2>3. ASSUME NEW j \in 1 .. Len(queue'), NEW k \in 1 .. Len(queue'), queue'[j] = queue'[k]
        PROVE  j = k
    <3>1. /\ j + 1 \in 1 .. Len(queue) /\ k + 1 \in 1 .. Len(queue)
          /\ queue[j + 1] = queue[k + 1]
      BY <1>2, <2>3
    <3>2. j + 1 = k + 1
      BY <1>1, <3>1 DEF OnceInv
    <3>3. j \in Int /\ k \in Int
      OBVIOUS
    <3> QED BY <3>2, <3>3
  <2> QED BY <2>1, <2>2, <2>3 DEF OnceInv
<1>10. ASSUME NEW d \in Clients, NEW k \in Attempts, Quiet(d, k)
       PROVE  Quiet(d, k)'
  <2>1. d # c \/ k # n
    BY <1>2, <1>10 DEF Quiet
  <2>2. reply'[d][k] = "none" /\ <<d, k>> \notin wire'
    BY <1>1, <1>7, <1>10, <2>1 DEF Quiet
  <2>3. \A j \in 1 .. Len(queue') : queue'[j] # <<d, k>>
    BY <1>2, <1>10 DEF Quiet
  <2> QED BY <2>2, <2>3 DEF Quiet
<1>11. AheadInv' /\ UntimedInv'
  BY <1>1, <1>10, DaemonInvariant
<1>12. AnswerInv'
  <2>1. SUFFICES ASSUME NEW d \in Clients, pc[d] \in {"ok", "refused"}
                 PROVE  reply'[d][attempt[d]] = pc[d]
    BY <1>1 DEF AnswerInv
  <2>2. reply[d][attempt[d]] = pc[d] /\ attempt[d] \in Attempts
    BY <1>1, <2>1 DEF IInv, AnswerInv, TypeOK
  <2>3. d # c \/ attempt[d] # n
    BY <1>4, <2>1, <2>2
  <2> QED BY <1>7, <2>2, <2>3
<1>13. RefuseInv'
  <2>1. ASSUME NEW d \in Clients, d \in OnceOnly PROVE done'[d] <= 1
    BY <1>1, <1>5, <1>6, <2>1 DEF RefuseInv, refuse
  <2>2. ASSUME NEW d \in Clients, NEW k \in Attempts, reply'[d][k] = "refused"
        PROVE  d \in OnceOnly /\ done'[d] > 0
    <3>1. CASE d = c /\ k = n
      BY <1>5, <1>6, <2>2, <3>1 DEF refuse
    <3>2. CASE ~(d = c /\ k = n)
      <4>1. d \in OnceOnly /\ done[d] > 0
        BY <1>1, <1>7, <2>2, <3>2 DEF RefuseInv
      <4> QED BY <1>5, <1>6, <4>1
    <3> QED BY <3>1, <3>2
  <2> QED BY <2>1, <2>2 DEF RefuseInv
<1>14. CountInv'
  <2>1. SUFFICES ASSUME NEW d \in Clients PROVE done'[d] = Cardinality(Oks(d)')
    BY DEF CountInv
  <2>2. done[d] = Cardinality(Oks(d))
    BY <1>1 DEF CountInv
  <2>3. CASE d # c \/ refuse
    <3>1. done'[d] = done[d]
      BY <1>6, <2>3
    <3>2. Oks(d)' = Oks(d)
      BY <1>4, <1>5, <1>6, <2>3 DEF Oks
    <3> QED BY <2>2, <3>1, <3>2
  <2>4. CASE d = c /\ ~refuse
    <3>1. done'[d] = done[d] + 1
      BY <1>6, <2>4
    <3>2. n \notin Oks(d) /\ Oks(d)' = Oks(d) \cup {n}
      BY <1>2, <1>4, <1>5, <1>6, <2>4 DEF Oks
    <3>3. IsFiniteSet(Oks(d))
      <4>1. Oks(d) \subseteq Attempts
        BY DEF Oks
      <4> QED BY <4>1, AttemptsFinite, FS_Subset
    <3>4. Cardinality(Oks(d) \cup {n}) = Cardinality(Oks(d)) + 1
      BY <3>2, <3>3, FS_AddElement
    <3> QED BY <2>2, <3>1, <3>2, <3>4
  <2> QED BY <2>3, <2>4
<1>15. DownInv'
  BY <1>1 DEF IInv, DownInv, CarryOut
<1> QED BY <1>8, <1>9, <1>11, <1>12, <1>13, <1>14, <1>15 DEF IInv

LEMMA DiesInvariant ==
  ASSUME TransportAssumption, IInv, DaemonDies
  PROVE  IInv'
<1>1. /\ TypeOK /\ wire' = {} /\ queue' = <<>> /\ Len(queue') = 0
      /\ UNCHANGED <<pc, failure, attempt, reply, done, timedOut>>
  BY DEF IInv, DaemonDies
<1>2. TypeOK'
  <2>1. queue' \in Seq(Clients \X Attempts)
    BY <1>1
  <2>2. up' \in BOOLEAN
    BY DEF DaemonDies
  <2> QED BY <1>1, <2>1, <2>2 DEF TypeOK
<1>3. OnceInv' /\ DownInv'
  BY <1>1 DEF OnceInv, DownInv
<1>4. AheadInv' /\ UntimedInv'
  <2>1. \A c \in Clients, n \in Attempts : Quiet(c, n) => Quiet(c, n)'
    BY <1>1 DEF Quiet
  <2> QED BY <1>1, <2>1, DaemonInvariant
<1>5. AnswerInv' /\ CountInv' /\ RefuseInv'
  BY <1>1 DEF IInv, AnswerInv, CountInv, Oks, RefuseInv
<1> QED BY <1>2, <1>3, <1>4, <1>5 DEF IInv

LEMMA StutterInvariant ==
  ASSUME IInv, UNCHANGED vars
  PROVE  IInv'
BY DEF IInv, vars, TypeOK, OnceInv, AheadInv, UntimedInv, Quiet, AnswerInv, CountInv, Oks,
       RefuseInv, DownInv

(* Every step keeps the invariant.                                         *)
LEMMA StepInvariant ==
  ASSUME TransportAssumption, IInv, [Next]_vars
  PROVE  IInv'
<1>1. ASSUME NEW c \in Clients, ClientStep(c) PROVE IInv'
  BY <1>1, PrepareInvariant, ConnectInvariant, ReadReplyInvariant, ReadTimesOutInvariant,
     ReadBreaksInvariant, RetryInvariant DEF ClientStep
<1>2. CASE Enqueue \/ CarryOut \/ DaemonDies
  BY <1>2, EnqueueInvariant, CarryOutInvariant, DiesInvariant
<1>3. CASE UNCHANGED vars
  BY <1>3, StutterInvariant
<1> QED BY <1>1, <1>2, <1>3 DEF Next

-----------------------------------------------------------------------------
(* What it implies of the requests that were carried out.                  *)

LEMMA OksBound ==
  ASSUME TransportAssumption, IInv, NEW c \in Clients
  PROVE  /\ IsFiniteSet(Oks(c)) /\ done[c] = Cardinality(Oks(c)) /\ done[c] \in Nat
         /\ attempt[c] \in Nat
         /\ Oks(c) \subseteq 0 .. attempt[c]
         /\ ~timedOut[c] => Oks(c) \subseteq {attempt[c]}
<1>1. TypeOK /\ attempt[c] \in Attempts /\ attempt[c] \in Nat /\ Attempts \subseteq Nat
  BY AttemptsFinite DEF IInv, TypeOK
<1>2. IsFiniteSet(Oks(c))
  <2>1. Oks(c) \subseteq Attempts
    BY DEF Oks
  <2> QED BY <2>1, AttemptsFinite, FS_Subset
<1>3. Oks(c) \subseteq 0 .. attempt[c]
  <2>1. SUFFICES ASSUME NEW n \in Oks(c) PROVE n \in 0 .. attempt[c]
    OBVIOUS
  <2>2. n \in Attempts /\ n \in Nat /\ ~Quiet(c, n)
    BY <1>1 DEF Oks, Quiet
  <2>3. ~(n > attempt[c])
    BY <2>2 DEF IInv, AheadInv
  <2> QED BY <1>1, <2>2, <2>3
<1>4. ASSUME ~timedOut[c], NEW n \in Oks(c) PROVE n = attempt[c]
  <2>1. n \in Attempts /\ n <= attempt[c] /\ ~Quiet(c, n)
    BY <1>1, <1>3 DEF Oks, Quiet
  <2> QED BY <1>1, <1>4, <2>1 DEF IInv, UntimedInv
<1>5. done[c] = Cardinality(Oks(c)) /\ done[c] \in Nat
  BY DEF IInv, CountInv, TypeOK
<1> QED BY <1>1, <1>2, <1>3, <1>4, <1>5

LEMMA Accounted ==
  ASSUME TransportAssumption, IInv
  PROVE  RepeatedOnlyAfterTimeout /\ OkMeansDone /\ RefusedOnlyAfterTimeout
<1>1. ASSUME NEW c \in Clients PROVE done[c] <= attempt[c] + 1
  <2>1. IsFiniteSet(0 .. attempt[c]) /\ Cardinality(0 .. attempt[c]) = attempt[c] + 1
    BY OksBound, FS_Interval
  <2> QED BY <2>1, OksBound, FS_Subset
<1>2. ASSUME NEW c \in Clients, ~timedOut[c] PROVE done[c] <= 1
  <2>1. IsFiniteSet({attempt[c]}) /\ Cardinality({attempt[c]}) = 1
    BY FS_Singleton
  <2> QED BY <1>2, <2>1, OksBound, FS_Subset
<1>3. ASSUME NEW c \in Clients, Oks(c) # {} PROVE done[c] > 0
  BY <1>3, OksBound, FS_EmptySet
<1>4. RepeatedOnlyAfterTimeout
  <2>1. \A c \in Clients : done[c] > 1 => timedOut[c]
    BY <1>2, OksBound
  <2> QED BY <1>1, <2>1 DEF RepeatedOnlyAfterTimeout
<1>5. OkMeansDone
  <2>1. ASSUME NEW c \in Clients, pc[c] = "ok" PROVE attempt[c] \in Oks(c)
    BY <2>1 DEF IInv, AnswerInv, TypeOK, Oks
  <2> QED BY <1>3, <2>1 DEF OkMeansDone
<1>6. RefusedOnlyAfterTimeout
  <2>1. SUFFICES ASSUME NEW c \in Clients, pc[c] = "refused"
                 PROVE  done[c] = 1 /\ timedOut[c]
    BY DEF RefusedOnlyAfterTimeout
  <2>2. reply[c][attempt[c]] = "refused" /\ attempt[c] \in Attempts
    BY <2>1 DEF IInv, AnswerInv, TypeOK
  <2>3. c \in OnceOnly /\ done[c] > 0 /\ done[c] <= 1
    BY <2>2 DEF IInv, RefuseInv
  <2>4. done[c] = 1
    BY <2>3, OksBound
  <2>5. attempt[c] \notin Oks(c) /\ Oks(c) # {}
    BY <2>2, <2>4, OksBound, FS_EmptySet DEF Oks
  <2>6. timedOut[c]
    BY <2>5, OksBound
  <2> QED BY <2>4, <2>6
<1> QED BY <1>4, <1>5, <1>6

(* A request is carried out more than once, or refused because it was      *)
(* carried out before, only if its own client gave up waiting for it; and  *)
(* never more often than it was sent.                                      *)
THEOREM RequestsAccounted ==
  ASSUME TransportAssumption
  PROVE  Spec => [](RepeatedOnlyAfterTimeout /\ OkMeansDone /\ RefusedOnlyAfterTimeout)
<1>1. Init => IInv
  BY InitInvariant
<1>2. IInv /\ [Next]_vars => IInv'
  BY StepInvariant
<1>3. IInv => RepeatedOnlyAfterTimeout /\ OkMeansDone /\ RefusedOnlyAfterTimeout
  BY Accounted
<1> QED BY <1>1, <1>2, <1>3, PTL DEF Spec

-----------------------------------------------------------------------------
(* The clock of the daemons, for every tick, speed and bounds of the       *)
(* sleep: no time is lost, no tick is held back, and the daemon wakes when *)
(* the next tick is due.                                                   *)

CONSTANTS TickUs, SpeedUnit, Speeds, MinDelay, MaxDelay, PausedDelay, Late
VARIABLES running, speed, remainder, since, delay, left, late, due, undisturbed, owed, steady
Time == INSTANCE TimeEngine

(* A clock that stands has nothing to charge.                              *)
StandingInv == ~running => remainder = 0 /\ since = 0

(* While the daemon sleeps, and after a sleep that nothing disturbed, the  *)
(* reading of the wall clock is as old as what is gone of the sleep, and   *)
(* the sleep was computed from what the engine still holds.                *)
SleepInv ==
  /\ left <= delay
  /\ left > 0 => late = 0
  /\ undisturbed => left = 0
  /\ running /\ (left > 0 \/ undisturbed) =>
       /\ since + left = delay + late
       /\ delay = Time!PollDelay(remainder)

(* The type invariant in two parts, each for one kind of prover.           *)
Switches ==
  running \in BOOLEAN /\ undisturbed \in BOOLEAN /\ steady \in BOOLEAN
Numbers ==
  /\ remainder \in Nat /\ since \in Nat /\ delay \in Nat /\ left \in Nat
  /\ late \in Nat /\ due \in Nat /\ owed \in Nat
  /\ speed \in Speeds \cup {SpeedUnit}

TimeInv == Time!TypeOK /\ StandingInv /\ Time!NoTimeLost /\ Time!NoTickHeldBack /\ SleepInv

-----------------------------------------------------------------------------
(* Whole numbers.                                                          *)

LEMMA DivBounds ==
  ASSUME NEW a \in Nat, NEW b \in Nat \ {0}
  PROVE  /\ a \div b \in Nat
         /\ (a \div b) * b <= a
         /\ a < (a \div b) * b + b
OBVIOUS

LEMMA ProductGrows ==
  ASSUME NEW a \in Nat, NEW b \in Nat, NEW c \in Nat, a <= b
  PROVE  a * c <= b * c
OBVIOUS

LEMMA ProductType ==
  ASSUME NEW a \in Nat, NEW b \in Nat
  PROVE  a * b \in Nat
OBVIOUS

LEMMA ProductPositive ==
  ASSUME NEW a \in Nat \ {0}, NEW b \in Nat \ {0}
  PROVE  a * b \in Nat \ {0}
OBVIOUS

(* A division rounded up is the least factor that reaches the number.      *)
LEMMA CeilBounds ==
  ASSUME NEW a \in Nat, NEW b \in Nat \ {0}
  PROVE  /\ Time!CeilDiv(a, b) \in Nat
         /\ a <= Time!CeilDiv(a, b) * b
         /\ Time!CeilDiv(a, b) * b < a + b
<1>1. a + b - 1 \in Nat
  OBVIOUS
<1> QED BY <1>1, DivBounds DEF Time!CeilDiv

-----------------------------------------------------------------------------
(* The constants and the speed.                                            *)

LEMMA TimeConstants ==
  ASSUME Time!TimeAssumption
  PROVE  /\ Time!Tick \in Nat \ {0} /\ SpeedUnit \in Nat \ {0}
         /\ MinDelay \in Nat \ {0} /\ PausedDelay \in Nat \ {0}
         /\ MaxDelay \in Nat /\ MinDelay <= MaxDelay
         /\ Speeds \cup {SpeedUnit} \subseteq Nat \ {0}
<1>1. TickUs \in Nat \ {0} /\ SpeedUnit \in Nat \ {0}
  BY DEF Time!TimeAssumption
<1>2. Time!Tick \in Nat \ {0}
  BY <1>1, ProductPositive DEF Time!Tick
<1> QED BY <1>1, <1>2 DEF Time!TimeAssumption

LEMMA TypeParts == Time!TypeOK <=> Switches /\ Numbers
<1>1. {remainder, since, delay, left, late, due, owed} \subseteq Nat
        <=> /\ remainder \in Nat /\ since \in Nat /\ delay \in Nat /\ left \in Nat
            /\ late \in Nat /\ due \in Nat /\ owed \in Nat
  OBVIOUS
<1> QED BY <1>1, Zenon DEF Time!TypeOK, Switches, Numbers

LEMMA TypeNext ==
  ASSUME Switches', Numbers'
  PROVE  Time!TypeOK'
<1>1. {remainder', since', delay', left', late', due', owed'} \subseteq Nat
  BY DEF Numbers
<1> QED BY <1>1, Zenon DEF Time!TypeOK, Switches, Numbers

LEMMA TimeFacts ==
  ASSUME Time!TypeOK
  PROVE  /\ running \in BOOLEAN /\ undisturbed \in BOOLEAN /\ steady \in BOOLEAN
         /\ remainder \in Nat /\ since \in Nat /\ delay \in Nat /\ left \in Nat
         /\ late \in Nat /\ due \in Nat /\ owed \in Nat
         /\ speed \in Speeds \cup {SpeedUnit}
BY TypeParts, Zenon DEF Switches, Numbers

LEMMA SpeedPositive ==
  ASSUME Time!TimeAssumption, Time!TypeOK
  PROVE  speed \in Nat \ {0}
BY TimeConstants, TimeFacts

(* What a poll takes for ticks and what it leaves.                         *)
LEMMA DueBounds ==
  ASSUME Time!TimeAssumption, Time!TypeOK, running
  PROVE  /\ Time!Charged \in Nat /\ Time!Due \in Nat /\ Time!Due * Time!Tick \in Nat
         /\ Time!Charged - Time!Due * Time!Tick \in Nat
         /\ Time!Charged - Time!Due * Time!Tick < Time!Tick
<1>1. speed \in Nat \ {0} /\ Time!Tick \in Nat \ {0} /\ remainder \in Nat /\ since \in Nat
  BY SpeedPositive, TimeConstants, TimeFacts
<1>2. Time!Charged \in Nat
  <2>1. since * speed \in Nat
    BY <1>1, ProductType
  <2> QED BY <1>1, <2>1 DEF Time!Charged
<1>3. Time!Due = Time!Charged \div Time!Tick
  BY DEF Time!Due
<1>4. /\ Time!Due \in Nat
      /\ Time!Due * Time!Tick <= Time!Charged
      /\ Time!Charged < Time!Due * Time!Tick + Time!Tick
  BY <1>1, <1>2, <1>3, DivBounds
<1>5. Time!Due * Time!Tick \in Nat
  BY <1>1, <1>4, ProductType
<1> QED BY <1>1, <1>2, <1>4, <1>5

LEMMA DueType ==
  ASSUME Time!TimeAssumption, Time!TypeOK
  PROVE  Time!Due \in Nat
BY DueBounds DEF Time!Due

LEMMA ClampBounds ==
  ASSUME Time!TimeAssumption, NEW x \in Nat
  PROVE  /\ Time!Clamp(x) \in Nat \ {0}
         /\ Time!Clamp(x) < MaxDelay => x <= Time!Clamp(x)
         /\ Time!Clamp(x) > MinDelay => Time!Clamp(x) <= x
BY TimeConstants DEF Time!Clamp

(* A sleep is never empty.                                                 *)
LEMMA DelayPositive ==
  ASSUME Time!TimeAssumption, Time!TypeOK, NEW rem \in Nat, running => rem < Time!Tick
  PROVE  Time!PollDelay(rem) \in Nat \ {0}
<1>1. CASE ~running
  BY <1>1, TimeConstants DEF Time!PollDelay
<1>2. CASE running
  <2>1. Time!Tick - rem \in Nat
    BY <1>2, TimeConstants
  <2>2. Time!CeilDiv(Time!Tick - rem, speed) \in Nat
    BY <2>1, SpeedPositive, CeilBounds
  <2> QED BY <1>2, <2>2, ClampBounds DEF Time!PollDelay
<1> QED BY <1>1, <1>2, TimeFacts

-----------------------------------------------------------------------------
(* The invariant: the actions one by one.                                  *)

LEMMA TimeInit ==
  ASSUME Time!TimeAssumption, Time!Init
  PROVE  TimeInv
<1>1. Time!TypeOK
  <2>1. Switches
    BY DEF Time!Init, Switches
  <2>2. Numbers
    BY TimeConstants DEF Time!Init, Numbers
  <2> QED BY <2>1, <2>2, TypeParts
<1>2. Time!NoTickHeldBack
  BY TimeConstants DEF Time!Init, Time!NoTickHeldBack
<1> QED BY <1>1, <1>2, TimeConstants DEF Time!Init, TimeInv, StandingInv,
   Time!NoTimeLost, SleepInv

LEMMA PassInvariant ==
  ASSUME Time!TimeAssumption, TimeInv, Time!Pass
  PROVE  TimeInv'
<1>1. /\ Time!TypeOK /\ speed \in Nat \ {0}
      /\ remainder \in Nat /\ since \in Nat /\ delay \in Nat /\ left \in Nat
      /\ late \in Nat /\ owed \in Nat
  BY SpeedPositive, TimeFacts DEF TimeInv
<1>2. Time!TypeOK'
  <2>1. Switches'
    <3>1. (left = 1) \in BOOLEAN
      OBVIOUS
    <3> QED BY <1>1, <3>1, TimeFacts, Zenon DEF Time!Pass, Switches
  <2>2. Numbers'
    BY <1>1, TimeFacts DEF Time!Pass, Numbers
  <2> QED BY <2>1, <2>2, TypeNext
<1>3. StandingInv' /\ Time!NoTickHeldBack'
  BY DEF TimeInv, Time!Pass, StandingInv, Time!NoTickHeldBack, Time!Tick
<1>4. Time!NoTimeLost'
  <2>1. SUFFICES ASSUME running, steady
                 PROVE  owed' = remainder' + since' * speed'
    BY DEF Time!Pass, Time!NoTimeLost
  <2>2. owed' = owed + speed /\ since' = since + 1 /\ remainder' = remainder /\ speed' = speed
    BY <2>1 DEF Time!Pass
  <2>3. owed = remainder + since * speed
    BY <2>1 DEF TimeInv, Time!NoTimeLost
  <2>4. (since + 1) * speed = since * speed + speed
    BY <1>1
  <2>5. since * speed \in Nat
    BY <1>1, ProductType
  <2> QED BY <1>1, <2>2, <2>3, <2>4, <2>5
<1>5. SleepInv'
  <2>1. Time!PollDelay(remainder)' = Time!PollDelay(remainder)
    BY DEF Time!Pass, Time!PollDelay, Time!Tick
  <2>2. CASE left > 0
    <3>1. undisturbed' <=> left = 1
      BY <2>2, Zenon DEF Time!Pass
    <3>2. /\ left' = left - 1 /\ late' = late /\ late = 0 /\ delay' = delay
          /\ left <= delay
      BY <2>2 DEF Time!Pass, TimeInv, SleepInv
    <3>3. ASSUME running' PROVE since' = since + 1 /\ since + left = delay /\ delay = Time!PollDelay(remainder)
      BY <1>1, <2>2, <3>2, <3>3 DEF Time!Pass, TimeInv, SleepInv
    <3> QED BY <1>1, <2>1, <2>2, <3>1, <3>2, <3>3 DEF SleepInv
  <2>3. CASE left = 0
    BY <1>1, <2>1, <2>3 DEF Time!Pass, TimeInv, SleepInv
  <2> QED BY <1>1, <2>2, <2>3
<1> QED BY <1>2, <1>3, <1>4, <1>5 DEF TimeInv

LEMMA PollInvariant ==
  ASSUME Time!TimeAssumption, TimeInv, Time!Poll
  PROVE  TimeInv'
<1>1. /\ Time!TypeOK /\ speed \in Nat \ {0} /\ running \in BOOLEAN /\ steady \in BOOLEAN
      /\ remainder \in Nat /\ since \in Nat /\ delay \in Nat /\ left \in Nat
      /\ late \in Nat /\ owed \in Nat /\ Time!Due \in Nat /\ Time!Tick \in Nat \ {0}
  BY SpeedPositive, TimeFacts, TimeConstants, DueType DEF TimeInv
<1>2. running' = running /\ speed' = speed /\ steady' = steady
  BY DEF Time!Poll
<1>3. remainder' \in Nat /\ remainder' < Time!Tick
  <2>1. CASE running
    BY <1>1, <2>1, DueBounds DEF Time!Poll
  <2>2. CASE ~running
    BY <1>1, <2>2 DEF Time!Poll, TimeInv, StandingInv
  <2> QED BY <1>1, <2>1, <2>2
<1>4. owed' \in Nat /\ (running /\ steady => owed' = remainder')
  <2>1. CASE running /\ steady
    <3>1. owed = Time!Charged
      BY <2>1 DEF TimeInv, Time!NoTimeLost, Time!Charged
    <3> QED BY <1>1, <1>3, <2>1, <3>1 DEF Time!Poll
  <2>2. CASE ~(running /\ steady)
    BY <1>1, <2>2 DEF Time!Poll
  <2> QED BY <2>1, <2>2
<1>5. delay' = Time!PollDelay(remainder') /\ left' = delay' /\ delay' \in Nat \ {0}
  BY <1>1, <1>3, DelayPositive DEF Time!Poll
<1>6. Time!TypeOK'
  BY <1>1, <1>2, <1>3, <1>4, <1>5 DEF Time!Poll, Time!TypeOK
<1>7. StandingInv' /\ Time!NoTickHeldBack'
  BY <1>2, <1>3 DEF TimeInv, Time!Poll, StandingInv, Time!NoTickHeldBack, Time!Tick
<1>8. Time!NoTimeLost'
  BY <1>1, <1>2, <1>3, <1>4 DEF Time!Poll, Time!NoTimeLost
<1>9. SleepInv'
  <2>1. Time!PollDelay(remainder)' = Time!PollDelay(remainder')
    BY <1>2 DEF Time!PollDelay, Time!Tick
  <2> QED BY <1>5, <2>1 DEF Time!Poll, SleepInv
<1> QED BY <1>6, <1>7, <1>8, <1>9 DEF TimeInv

(* A request never reads the clock, and ends the sleep.                    *)
LEMMA WokenSleep ==
  ASSUME Time!TypeOK, Time!Woken
  PROVE  SleepInv'
BY TimeFacts DEF Time!Woken, SleepInv

LEMMA RequestInvariant ==
  ASSUME Time!TimeAssumption, TimeInv, Time!Request
  PROVE  TimeInv'
<1>1. /\ Time!TypeOK /\ StandingInv /\ Time!NoTimeLost /\ Time!NoTickHeldBack
      /\ SpeedUnit \in Nat \ {0} /\ Time!Tick \in Nat \ {0}
  BY TimeConstants DEF TimeInv
<1>2. CASE Time!Start
  <2>1. Time!TypeOK'
    <3>1. Switches'
      BY <1>1, <1>2, TimeFacts DEF Time!Start, Time!Woken, Switches
    <3>2. Numbers'
      BY <1>1, <1>2, TimeFacts DEF Time!Start, Time!Woken, Numbers
    <3> QED BY <3>1, <3>2, TypeNext
  <2>2. StandingInv' /\ Time!NoTickHeldBack'
    BY <1>1, <1>2 DEF Time!Start, StandingInv, Time!NoTickHeldBack, Time!Tick
  <2>3. Time!NoTimeLost'
    BY <1>1, <1>2, SpeedPositive DEF Time!Start, StandingInv, Time!NoTimeLost
  <2> QED BY <1>1, <1>2, <2>1, <2>2, <2>3, WokenSleep DEF Time!Start, TimeInv
<1>3. CASE Time!Pause
  <2>1. Time!TypeOK'
    <3>1. Switches'
      BY <1>1, <1>3, TimeFacts DEF Time!Pause, Time!Woken, Switches
    <3>2. Numbers'
      BY <1>1, <1>3, TimeFacts DEF Time!Pause, Time!Woken, Numbers
    <3> QED BY <3>1, <3>2, TypeNext
  <2>2. StandingInv' /\ Time!NoTickHeldBack' /\ Time!NoTimeLost'
    BY <1>1, <1>3 DEF Time!Pause, StandingInv, Time!NoTickHeldBack, Time!NoTimeLost,
       Time!Tick
  <2> QED BY <1>1, <1>3, <2>1, <2>2, WokenSleep DEF Time!Pause, TimeInv
<1>4. CASE Time!Reset
  <2>1. Time!TypeOK'
    <3>1. Switches'
      BY <1>1, <1>4, TimeFacts DEF Time!Reset, Time!Woken, Switches
    <3>2. Numbers'
      BY <1>1, <1>4, TimeFacts DEF Time!Reset, Time!Woken, Numbers
    <3> QED BY <3>1, <3>2, TypeNext
  <2>2. StandingInv' /\ Time!NoTickHeldBack' /\ Time!NoTimeLost'
    BY <1>1, <1>4 DEF Time!Reset, StandingInv, Time!NoTickHeldBack, Time!NoTimeLost,
       Time!Tick
  <2> QED BY <1>1, <1>4, <2>1, <2>2, WokenSleep DEF Time!Reset, TimeInv
<1>5. ASSUME NEW s \in Speeds, Time!SetSpeed(s) PROVE TimeInv'
  <2>1. Time!TypeOK'
    <3>1. Switches'
      <4>1. (steady /\ (~running \/ s = speed)) \in BOOLEAN
        OBVIOUS
      <4> QED BY <1>1, <1>5, <4>1, TimeFacts, Zenon DEF Time!SetSpeed, Time!Woken, Switches
    <3>2. Numbers'
      BY <1>1, <1>5, TimeFacts DEF Time!SetSpeed, Time!Woken, Numbers
    <3> QED BY <3>1, <3>2, TypeNext
  <2>2. StandingInv' /\ Time!NoTickHeldBack'
    BY <1>1, <1>5 DEF Time!SetSpeed, StandingInv, Time!NoTickHeldBack, Time!Tick
  <2>3. Time!NoTimeLost'
    BY <1>1, <1>5, TimeFacts DEF Time!SetSpeed, Time!NoTimeLost
  <2> QED BY <1>1, <1>5, <2>1, <2>2, <2>3, WokenSleep DEF Time!SetSpeed, TimeInv
<1> QED BY <1>2, <1>3, <1>4, <1>5 DEF Time!Request

LEMMA TimeStutter ==
  ASSUME TimeInv, UNCHANGED Time!vars
  PROVE  TimeInv'
BY DEF TimeInv, Time!vars, Time!engine, Time!sleep, Time!history, Time!TypeOK, StandingInv,
       Time!NoTimeLost, Time!NoTickHeldBack, SleepInv, Time!PollDelay, Time!Tick

(* Every step keeps the invariant.                                         *)
LEMMA TimeStep ==
  ASSUME Time!TimeAssumption, TimeInv, [Time!Next]_(Time!vars)
  PROVE  TimeInv'
BY PassInvariant, PollInvariant, RequestInvariant, TimeStutter DEF Time!Next

-----------------------------------------------------------------------------
(* What it implies of the sleeps.                                          *)

LEMMA SleepsRight ==
  ASSUME Time!TimeAssumption, TimeInv
  PROVE  Time!SleepIsLongEnough /\ Time!SleepIsShortEnough
<1>1. /\ Time!TypeOK /\ speed \in Nat \ {0} /\ remainder \in Nat /\ since \in Nat
      /\ delay \in Nat /\ left \in Nat /\ late \in Nat
      /\ Time!Tick \in Nat \ {0} /\ remainder < Time!Tick
  BY SpeedPositive, TimeFacts, TimeConstants DEF TimeInv, Time!NoTickHeldBack
<1> DEFINE wait == Time!CeilDiv(Time!Tick - remainder, speed)
<1>2. /\ wait \in Nat
      /\ Time!Tick - remainder <= wait * speed
      /\ wait * speed < (Time!Tick - remainder) + speed
  <2>1. Time!Tick - remainder \in Nat
    BY <1>1
  <2> QED BY <1>1, <2>1, CeilBounds
<1>3. since * speed \in Nat /\ wait * speed \in Nat
  BY <1>1, <1>2, ProductType
<1>4. ASSUME running, undisturbed
      PROVE  since = delay + late /\ delay = Time!Clamp(wait)
  BY <1>1, <1>4 DEF TimeInv, SleepInv, Time!PollDelay
<1> HIDE DEF wait
<1>5. Time!SleepIsLongEnough
  <2>1. SUFFICES ASSUME running, undisturbed, delay < MaxDelay PROVE Time!Due >= 1
    BY DEF Time!SleepIsLongEnough
  <2>2. wait <= since
    BY <1>1, <1>2, <1>4, <2>1, ClampBounds
  <2>3. wait * speed <= since * speed
    BY <1>1, <1>2, <2>2, ProductGrows
  <2>4. Time!Charged \in Nat /\ Time!Charged >= Time!Tick
    BY <1>1, <1>2, <1>3, <2>3 DEF Time!Charged
  <2>5. Time!Due \in Nat /\ Time!Charged < Time!Due * Time!Tick + Time!Tick
    BY <1>1, <2>1, <2>4, DivBounds DEF Time!Due
  <2>6. Time!Due # 0
    BY <1>1, <2>4, <2>5
  <2> QED BY <2>5, <2>6
<1>6. Time!SleepIsShortEnough
  <2>1. SUFFICES ASSUME running, undisturbed, late = 0, delay > MinDelay
                 PROVE  Time!Charged < Time!Tick + speed
    BY DEF Time!SleepIsShortEnough
  <2>2. since <= wait
    BY <1>1, <1>2, <1>4, <2>1, ClampBounds
  <2>3. since * speed <= wait * speed
    BY <1>1, <1>2, <2>2, ProductGrows
  <2> QED BY <1>1, <1>2, <1>3, <2>3 DEF Time!Charged
<1> QED BY <1>5, <1>6

-----------------------------------------------------------------------------
(* However late the daemon polls, whatever the speed and whenever it is    *)
(* set, what the wall clock owes is in the ticks made or still to be       *)
(* charged, and no whole tick is held back.                                *)
THEOREM ClockKeepsTime ==
  ASSUME Time!TimeAssumption
  PROVE  Time!Spec => [](Time!TypeOK /\ Time!NoTimeLost /\ Time!NoTickHeldBack)
<1>1. Time!Init => TimeInv
  BY TimeInit
<1>2. TimeInv /\ [Time!Next]_(Time!vars) => TimeInv'
  BY TimeStep
<1>3. TimeInv => Time!TypeOK /\ Time!NoTimeLost /\ Time!NoTickHeldBack
  BY DEF TimeInv
<1> QED BY <1>1, <1>2, <1>3, PTL DEF Time!Spec

(* A sleep that nothing disturbs ends with a tick due, unless it is cut at *)
(* the longest delay, and not more than a step of the speed after it.      *)
THEOREM SleepsUntilTheTick ==
  ASSUME Time!TimeAssumption
  PROVE  Time!Spec => [](Time!SleepIsLongEnough /\ Time!SleepIsShortEnough)
<1>1. Time!Init => TimeInv
  BY TimeInit
<1>2. TimeInv /\ [Time!Next]_(Time!vars) => TimeInv'
  BY TimeStep
<1>3. TimeInv => Time!SleepIsLongEnough /\ Time!SleepIsShortEnough
  BY SleepsRight
<1> QED BY <1>1, <1>2, <1>3, PTL DEF Time!Spec

-----------------------------------------------------------------------------
(* How old what one device hands to another can be, for any number of      *)
(* devices, ticks and resets: the env's two barriers - all have answered   *)
(* before the next tick, all are reset before anybody empties a socket -   *)
(* keep the devices within one tick of each other, and within one run.     *)

CONSTANTS Instances, Writer, Env, MaxTicks, MaxResets, MaxWaiting
VARIABLES env, clock, resets, stage, lib, region, taken, inbox, heard
Exchange == INSTANCE EnvExchange

(* The moment the env is at, the tick it is making, and the start of its   *)
(* next run.                                                               *)
Now == Exchange!Moment(resets, clock)
Upcoming == Exchange!Moment(resets, clock + 1)
After == Exchange!Moment(resets + 1, 0)

Early == {"receive", "read", "tick"}
Done == {"send", "publish", "idle"}

(* What an instance does is what the env waits for.                        *)
StageInv ==
  \A i \in Instances :
    /\ env = "idle" => stage[i] = "idle"
    /\ env = "tick" => stage[i] \in Early \cup Done
    /\ env = "reset" => stage[i] \in {"reset", "idle"}
    /\ env = "discard" => stage[i] \in {"discard", "idle"}

(* Every library is at the env's moment or has gone on to the next one.    *)
LibInv ==
  \A i \in Instances :
    /\ env = "idle" => lib[i] = Now
    /\ env = "tick" => lib[i] = IF stage[i] \in Early THEN Now ELSE Upcoming
    /\ env = "reset" => lib[i] = IF stage[i] = "reset" THEN Now ELSE After
    /\ env = "discard" => lib[i] = After

(* Frames that wait are as old as the last tick, and of this run.          *)
BoxInv ==
  \A i \in Instances :
    /\ env = "idle" => inbox[i] \in Seq({Now})
    /\ env = "tick" => /\ inbox[i] \in Seq({Now, Upcoming})
                       /\ stage[i] # "receive" => inbox[i] \in Seq({Upcoming})
                       /\ stage[i] = "read" => heard[i] \in Seq({Now, Upcoming})
    /\ env = "discard" /\ stage[i] = "idle" => inbox[i] = <<>>

(* The snapshot in the shared channel is the writer's last one, unless the *)
(* writer has been reset since.                                            *)
RegionInv ==
  /\ region.run <= resets
  /\ region.run = resets =>
       /\ env = "idle" => region.tick = clock
       /\ env = "tick" =>
            region.tick = IF stage[Writer] = "idle" THEN clock + 1 ELSE clock

TakenInv ==
  \A i \in Instances \ {Writer} :
    env = "tick" /\ stage[i] = "tick" /\ taken[i].run = resets
      => taken[i].tick \in {clock, clock + 1}

ExchangeInv == Exchange!TypeOK /\ StageInv /\ LibInv /\ BoxInv /\ RegionInv /\ TakenInv

-----------------------------------------------------------------------------
(* Moments and frames.                                                     *)

LEMMA MomentTypes ==
  ASSUME Exchange!TypeOK
  PROVE  /\ Now \in Exchange!Moments /\ Upcoming \in Exchange!Moments /\ After \in Exchange!Moments
         /\ Now.run = resets /\ Now.tick = clock
         /\ Upcoming.run = resets /\ Upcoming.tick = clock + 1
         /\ After.run = resets + 1 /\ After.tick = 0
         /\ clock \in Nat /\ resets \in Nat
BY DEF Exchange!TypeOK, Now, Upcoming, After, Exchange!Moment, Exchange!Moments

LEMMA Broadcasting ==
  ASSUME NEW from, NEW S, NEW m \in S, NEW s \in Exchange!Sockets, inbox[s] \in Seq(S)
  PROVE  Exchange!Broadcast(from, m)[s] \in Seq(S)
<1>1. Append(inbox[s], m) \in Seq(S)
  BY AppendProperties
<1> QED BY <1>1 DEF Exchange!Broadcast

LEMMA BroadcastType ==
  ASSUME Exchange!TypeOK, NEW from, NEW m \in Exchange!Moments
  PROVE  Exchange!Broadcast(from, m) \in [Exchange!Sockets -> Seq(Exchange!Moments)]
<1>1. \A s \in Exchange!Sockets : Exchange!Broadcast(from, m)[s] \in Seq(Exchange!Moments)
  BY Broadcasting DEF Exchange!TypeOK
<1> QED BY <1>1 DEF Exchange!Broadcast

(* What is of one set of moments is of a larger one.                       *)
LEMMA Wider ==
  ASSUME NEW S, NEW T, S \subseteq T, NEW q \in Seq(S)
  PROVE  q \in Seq(T)
BY SeqMonotonic

LEMMA NoFrames ==
  ASSUME NEW S
  PROVE  <<>> \in Seq(S)
BY EmptySeq

-----------------------------------------------------------------------------
LEMMA ExchangeInit ==
  ASSUME Exchange!ExchangeAssumption, Exchange!Init
  PROVE  ExchangeInv
<1>1. /\ Exchange!Startup = Now /\ Exchange!Startup \in Exchange!Moments
      /\ Exchange!Startup.run = 0 /\ Exchange!Startup.tick = 0
  BY DEF Exchange!Init, Exchange!Startup, Now, Exchange!Moment, Exchange!Moments
<1>2. Exchange!TypeOK
  BY <1>1, NoFrames DEF Exchange!Init, Exchange!TypeOK
<1>3. BoxInv
  BY NoFrames DEF Exchange!Init, BoxInv, Exchange!Sockets
<1> QED BY <1>1, <1>2, <1>3 DEF Exchange!Init, ExchangeInv, StageInv, LibInv,
   RegionInv, TakenInv

-----------------------------------------------------------------------------
(* The env.                                                                *)

LEMMA EnvSendsInvariant ==
  ASSUME Exchange!ExchangeAssumption, ExchangeInv, Exchange!EnvSends
  PROVE  ExchangeInv'
<1>1. /\ Exchange!TypeOK /\ env = "idle" /\ inbox' = Exchange!Broadcast(Env, Now)
      /\ UNCHANGED <<env, clock, resets, stage, lib, region, taken, heard>>
  BY DEF ExchangeInv, Exchange!EnvSends, Now
<1>2. Exchange!TypeOK'
  BY <1>1, MomentTypes, BroadcastType DEF Exchange!TypeOK
<1>3. StageInv' /\ LibInv' /\ RegionInv' /\ TakenInv'
  BY <1>1 DEF ExchangeInv, StageInv, LibInv, RegionInv, TakenInv, Now, Upcoming, After,
     Exchange!Moment
<1>4. BoxInv'
  <2>1. ASSUME NEW i \in Instances PROVE inbox'[i] \in Seq({Now})
    <3>1. i \in Exchange!Sockets /\ inbox[i] \in Seq({Now})
      BY <1>1 DEF ExchangeInv, BoxInv, Exchange!Sockets
    <3> QED BY <1>1, <3>1, Broadcasting
  <2>2. Now' = Now
    BY <1>1 DEF Now, Exchange!Moment
  <2> QED BY <1>1, <2>1, <2>2 DEF BoxInv
<1> QED BY <1>2, <1>3, <1>4 DEF ExchangeInv

LEMMA BeginTickInvariant ==
  ASSUME Exchange!ExchangeAssumption, ExchangeInv, Exchange!BeginTick
  PROVE  ExchangeInv'
<1>1. /\ Exchange!TypeOK /\ env = "idle" /\ env' = "tick"
      /\ stage' = [i \in Instances |-> "receive"]
      /\ UNCHANGED <<clock, resets, lib, region, taken, heard>>
  BY DEF ExchangeInv, Exchange!BeginTick, Exchange!TellAll
<1>2. PICK boxes \in {inbox, Exchange!Broadcast(Env, Upcoming)} :
        inbox' = [boxes EXCEPT ![Env] = <<>>]
  BY DEF Exchange!BeginTick, Upcoming
<1>3. boxes \in [Exchange!Sockets -> Seq(Exchange!Moments)]
  BY <1>1, <1>2, MomentTypes, BroadcastType DEF Exchange!TypeOK
<1>4. \A i \in Instances : inbox'[i] = boxes[i]
  BY <1>2, <1>3 DEF Exchange!ExchangeAssumption, Exchange!Sockets
<1>5. Exchange!TypeOK'
  <2>1. inbox' \in [Exchange!Sockets -> Seq(Exchange!Moments)]
    BY <1>2, <1>3, NoFrames
  <2> QED BY <1>1, <2>1 DEF Exchange!TypeOK
<1>6. /\ Now' = Now /\ Upcoming' = Upcoming
      /\ \A i \in Instances : stage'[i] = "receive"
  BY <1>1 DEF Now, Upcoming, Exchange!Moment
<1>7. StageInv' /\ LibInv'
  BY <1>1, <1>6 DEF ExchangeInv, StageInv, LibInv, Early
<1>8. RegionInv' /\ TakenInv'
  BY <1>1, <1>6 DEF ExchangeInv, RegionInv, TakenInv, Exchange!ExchangeAssumption
<1>9. BoxInv'
  <2>1. ASSUME NEW i \in Instances PROVE inbox'[i] \in Seq({Now, Upcoming})
    <3>1. i \in Exchange!Sockets /\ inbox[i] \in Seq({Now})
      BY <1>1 DEF ExchangeInv, BoxInv, Exchange!Sockets
    <3>2. inbox[i] \in Seq({Now, Upcoming})
      BY <3>1, Wider
    <3>3. Exchange!Broadcast(Env, Upcoming)[i] \in Seq({Now, Upcoming})
      BY <3>1, <3>2, Broadcasting
    <3> QED BY <1>2, <1>4, <3>2, <3>3
  <2> QED BY <1>1, <1>6, <2>1 DEF BoxInv
<1> QED BY <1>5, <1>7, <1>8, <1>9 DEF ExchangeInv

LEMMA EndTickInvariant ==
  ASSUME Exchange!ExchangeAssumption, ExchangeInv, Exchange!EndTick
  PROVE  ExchangeInv'
<1>1. /\ Exchange!TypeOK /\ env = "tick" /\ env' = "idle"
      /\ clock' = clock + 1
      /\ inbox' = [inbox EXCEPT ![Env] = <<>>]
      /\ \A i \in Instances : stage[i] = "idle"
      /\ UNCHANGED <<resets, stage, lib, region, taken, heard>>
  BY DEF ExchangeInv, Exchange!EndTick, Exchange!AllAnswered
<1>2. \A i \in Instances : inbox'[i] = inbox[i]
  BY <1>1 DEF Exchange!ExchangeAssumption, Exchange!TypeOK, Exchange!Sockets
<1>3. Now' = Upcoming
  BY <1>1 DEF Now, Upcoming, Exchange!Moment
<1>4. Exchange!TypeOK'
  <2>1. inbox' \in [Exchange!Sockets -> Seq(Exchange!Moments)]
    BY <1>1, NoFrames DEF Exchange!TypeOK
  <2>2. clock' \in Nat /\ resets' \in Nat
    BY <1>1 DEF Exchange!TypeOK
  <2> QED BY <1>1, <2>1, <2>2 DEF Exchange!TypeOK
<1>5. StageInv' /\ LibInv'
  BY <1>1, <1>3 DEF ExchangeInv, StageInv, LibInv, Early
<1>6. BoxInv'
  BY <1>1, <1>2, <1>3 DEF ExchangeInv, BoxInv
<1>7. RegionInv' /\ TakenInv'
  BY <1>1 DEF ExchangeInv, RegionInv, TakenInv, Exchange!ExchangeAssumption
<1> QED BY <1>4, <1>5, <1>6, <1>7 DEF ExchangeInv

LEMMA ResettingInvariant ==
  ASSUME Exchange!ExchangeAssumption, ExchangeInv, Exchange!BeginReset \/ Exchange!AllReset
  PROVE  ExchangeInv'
<1>1. Exchange!TypeOK /\ UNCHANGED <<clock, resets, lib, region, taken, inbox, heard>>
  BY DEF ExchangeInv, Exchange!BeginReset, Exchange!AllReset
<1>2. Now' = Now /\ After' = After
  BY <1>1 DEF Now, After, Exchange!Moment
<1>3. CASE Exchange!BeginReset
  <2>1. /\ env = "idle" /\ env' = "reset"
        /\ stage' = [i \in Instances |-> "reset"]
    BY <1>3 DEF Exchange!BeginReset, Exchange!TellAll
  <2>2. Exchange!TypeOK' /\ RegionInv' /\ TakenInv' /\ BoxInv'
    BY <1>1, <2>1 DEF ExchangeInv, Exchange!TypeOK, RegionInv, TakenInv, BoxInv
  <2>3. StageInv' /\ LibInv'
    BY <1>1, <1>2, <2>1 DEF ExchangeInv, StageInv, LibInv
  <2> QED BY <2>2, <2>3 DEF ExchangeInv
<1>4. CASE Exchange!AllReset
  <2>1. /\ env = "reset" /\ env' = "discard"
        /\ \A i \in Instances : stage[i] = "idle"
        /\ stage' = [i \in Instances |-> "discard"]
    BY <1>4 DEF Exchange!AllReset, Exchange!AllAnswered, Exchange!TellAll
  <2>2. Exchange!TypeOK' /\ RegionInv' /\ TakenInv' /\ BoxInv'
    BY <1>1, <2>1 DEF ExchangeInv, Exchange!TypeOK, RegionInv, TakenInv, BoxInv
  <2>3. StageInv' /\ LibInv'
    BY <1>1, <1>2, <2>1 DEF ExchangeInv, StageInv, LibInv
  <2> QED BY <2>2, <2>3 DEF ExchangeInv
<1> QED BY <1>3, <1>4

LEMMA EndResetInvariant ==
  ASSUME Exchange!ExchangeAssumption, ExchangeInv, Exchange!EndReset
  PROVE  ExchangeInv'
<1>1. /\ Exchange!TypeOK /\ env = "discard" /\ env' = "idle"
      /\ clock' = 0 /\ resets' = resets + 1
      /\ inbox' = [inbox EXCEPT ![Env] = <<>>]
      /\ \A i \in Instances : stage[i] = "idle"
      /\ UNCHANGED <<stage, lib, region, taken, heard>>
  BY DEF ExchangeInv, Exchange!EndReset, Exchange!AllAnswered
<1>2. \A i \in Instances : inbox'[i] = inbox[i]
  BY <1>1 DEF Exchange!ExchangeAssumption, Exchange!TypeOK, Exchange!Sockets
<1>3. Now' = After
  BY <1>1 DEF Now, After, Exchange!Moment
<1>4. Exchange!TypeOK'
  <2>1. inbox' \in [Exchange!Sockets -> Seq(Exchange!Moments)]
    BY <1>1, NoFrames DEF Exchange!TypeOK
  <2>2. clock' \in Nat /\ resets' \in Nat
    BY <1>1 DEF Exchange!TypeOK
  <2> QED BY <1>1, <2>1, <2>2 DEF Exchange!TypeOK
<1>5. StageInv' /\ LibInv'
  BY <1>1, <1>3 DEF ExchangeInv, StageInv, LibInv
<1>6. BoxInv'
  BY <1>1, <1>2, NoFrames DEF ExchangeInv, BoxInv
<1>7. RegionInv' /\ TakenInv'
  <2>1. region.run \in Nat /\ resets \in Nat
    BY <1>1 DEF Exchange!TypeOK, Exchange!Moments
  <2> QED BY <1>1, <2>1 DEF ExchangeInv, RegionInv, TakenInv
<1> QED BY <1>4, <1>5, <1>6, <1>7 DEF ExchangeInv

-----------------------------------------------------------------------------
(* An instance.  It acts only in the phase its stage belongs to.           *)

LEMMA Phase ==
  ASSUME ExchangeInv, NEW i \in Instances
  PROVE  /\ stage[i] \in Early \cup {"send", "publish"} => env = "tick"
         /\ stage[i] = "reset" => env = "reset"
         /\ stage[i] = "discard" => env = "discard"
BY DEF ExchangeInv, Exchange!TypeOK, StageInv, Early, Done

LEMMA ReceiveInvariant ==
  ASSUME Exchange!ExchangeAssumption, ExchangeInv, NEW i \in Instances, Exchange!ReceiveFrames(i)
  PROVE  ExchangeInv'
<1>1. /\ Exchange!TypeOK /\ stage[i] = "receive" /\ env = "tick"
      /\ stage' = [stage EXCEPT ![i] = "read"]
      /\ heard' = [heard EXCEPT ![i] = inbox[i]]
      /\ inbox' = [inbox EXCEPT ![i] = <<>>]
      /\ UNCHANGED <<env, clock, resets, lib, region, taken>>
  BY Phase DEF ExchangeInv, Exchange!ReceiveFrames, Exchange!Goto, Early
<1>2. i \in Exchange!Sockets
  BY DEF Exchange!Sockets
<1>3. Exchange!TypeOK'
  BY <1>1, <1>2, NoFrames DEF Exchange!TypeOK
<1>4. Now' = Now /\ Upcoming' = Upcoming
  BY <1>1 DEF Now, Upcoming, Exchange!Moment
<1>5. StageInv' /\ LibInv'
  BY <1>1, <1>4 DEF ExchangeInv, Exchange!TypeOK, StageInv, LibInv, Early, Done
<1>6. BoxInv'
  <2>1. SUFFICES ASSUME NEW k \in Instances
                 PROVE  /\ inbox'[k] \in Seq({Now, Upcoming})
                        /\ stage'[k] # "receive" => inbox'[k] \in Seq({Upcoming})
                        /\ stage'[k] = "read" => heard'[k] \in Seq({Now, Upcoming})
    BY <1>1, <1>4 DEF BoxInv
  <2>2. CASE k = i
    <3>1. inbox'[i] = <<>> /\ heard'[i] = inbox[i] /\ inbox[i] \in Seq({Now, Upcoming})
      BY <1>1, <1>2 DEF ExchangeInv, Exchange!TypeOK, BoxInv
    <3> QED BY <2>2, <3>1, NoFrames
  <2>3. CASE k # i
    <3>1. inbox'[k] = inbox[k] /\ heard'[k] = heard[k] /\ stage'[k] = stage[k]
      BY <1>1, <2>3 DEF Exchange!TypeOK, Exchange!Sockets
    <3> QED BY <1>1, <3>1 DEF ExchangeInv, BoxInv
  <2> QED BY <2>2, <2>3
<1>7. RegionInv' /\ TakenInv'
  BY <1>1 DEF ExchangeInv, Exchange!TypeOK, RegionInv, TakenInv, Exchange!ExchangeAssumption
<1> QED BY <1>3, <1>5, <1>6, <1>7 DEF ExchangeInv

LEMMA ReadInvariant ==
  ASSUME Exchange!ExchangeAssumption, ExchangeInv, NEW i \in Instances, Exchange!ReadShared(i)
  PROVE  ExchangeInv'
<1>1. /\ Exchange!TypeOK /\ stage[i] = "read" /\ env = "tick"
      /\ stage' = [stage EXCEPT ![i] = "tick"]
      /\ taken' = IF i = Writer THEN taken ELSE [taken EXCEPT ![i] = region]
      /\ UNCHANGED <<env, clock, resets, lib, region, inbox, heard>>
  BY Phase DEF ExchangeInv, Exchange!ReadShared, Exchange!Goto, Early
<1>2. Exchange!TypeOK'
  BY <1>1 DEF Exchange!TypeOK
<1>3. Now' = Now /\ Upcoming' = Upcoming
  BY <1>1 DEF Now, Upcoming, Exchange!Moment
<1>4. StageInv' /\ LibInv'
  BY <1>1, <1>3 DEF ExchangeInv, Exchange!TypeOK, StageInv, LibInv, Early, Done
<1>5. BoxInv'
  BY <1>1, <1>3 DEF ExchangeInv, Exchange!TypeOK, BoxInv
<1>6. RegionInv'
  BY <1>1 DEF ExchangeInv, Exchange!TypeOK, RegionInv, Exchange!ExchangeAssumption
<1>7. TakenInv'
  <2>1. SUFFICES ASSUME NEW k \in Instances \ {Writer}, stage'[k] = "tick",
                        taken'[k].run = resets
                 PROVE  taken'[k].tick \in {clock, clock + 1}
    BY <1>1 DEF TakenInv
  <2>2. CASE k = i
    <3>1. taken'[k] = region
      BY <1>1, <2>2 DEF Exchange!TypeOK
    <3> QED BY <1>1, <2>1, <3>1 DEF ExchangeInv, RegionInv
  <2>3. CASE k # i
    <3>1. taken'[k] = taken[k] /\ stage'[k] = stage[k]
      BY <1>1, <2>3 DEF Exchange!TypeOK
    <3> QED BY <1>1, <2>1, <3>1 DEF ExchangeInv, TakenInv
  <2> QED BY <2>2, <2>3
<1> QED BY <1>2, <1>4, <1>5, <1>6, <1>7 DEF ExchangeInv

LEMMA TickInvariant ==
  ASSUME Exchange!ExchangeAssumption, ExchangeInv, NEW i \in Instances, Exchange!MakeTick(i)
  PROVE  ExchangeInv'
<1>1. /\ Exchange!TypeOK /\ stage[i] = "tick" /\ env = "tick" /\ lib[i] = Now
      /\ stage' = [stage EXCEPT ![i] = "send"]
      /\ UNCHANGED <<env, clock, resets, region, taken, inbox, heard>>
  BY Phase DEF ExchangeInv, Exchange!MakeTick, Exchange!Goto, Early, LibInv
<1>2. lib' = [lib EXCEPT ![i] = Upcoming]
  <2>1. [lib[i] EXCEPT !.tick = lib[i].tick + 1] = Upcoming
    BY <1>1 DEF Now, Upcoming, Exchange!Moment
  <2>2. lib' = [lib EXCEPT ![i] = [lib[i] EXCEPT !.tick = lib[i].tick + 1]]
    BY DEF Exchange!MakeTick
  <2> QED BY <2>1, <2>2
<1>3. Now' = Now /\ Upcoming' = Upcoming /\ Upcoming \in Exchange!Moments
  BY <1>1, MomentTypes DEF Now, Upcoming, Exchange!Moment
<1>4. Exchange!TypeOK'
  BY <1>1, <1>2, <1>3 DEF Exchange!TypeOK
<1>5. StageInv' /\ LibInv'
  BY <1>1, <1>2, <1>3 DEF ExchangeInv, Exchange!TypeOK, StageInv, LibInv, Early, Done
<1>6. BoxInv' /\ RegionInv' /\ TakenInv'
  BY <1>1, <1>3 DEF ExchangeInv, Exchange!TypeOK, BoxInv, RegionInv, TakenInv,
     Exchange!ExchangeAssumption
<1> QED BY <1>4, <1>5, <1>6 DEF ExchangeInv

LEMMA SendInvariant ==
  ASSUME Exchange!ExchangeAssumption, ExchangeInv, NEW i \in Instances, Exchange!SendFrames(i)
  PROVE  ExchangeInv'
<1>1. /\ Exchange!TypeOK /\ stage[i] = "send" /\ env = "tick" /\ lib[i] = Upcoming
      /\ stage' = [stage EXCEPT ![i] = "publish"]
      /\ inbox' \in {inbox, Exchange!Broadcast(i, lib[i])}
      /\ UNCHANGED <<env, clock, resets, lib, region, taken, heard>>
  BY Phase DEF ExchangeInv, Exchange!SendFrames, Exchange!Goto, Early, LibInv
<1>2. Now' = Now /\ Upcoming' = Upcoming /\ Upcoming \in Exchange!Moments
  BY <1>1, MomentTypes DEF Now, Upcoming, Exchange!Moment
<1>3. Exchange!TypeOK'
  BY <1>1, <1>2, BroadcastType DEF Exchange!TypeOK
<1>4. StageInv' /\ LibInv'
  BY <1>1, <1>2 DEF ExchangeInv, Exchange!TypeOK, StageInv, LibInv, Early, Done
<1>5. BoxInv'
  <2>1. SUFFICES ASSUME NEW k \in Instances
                 PROVE  /\ inbox'[k] \in Seq({Now, Upcoming})
                        /\ stage'[k] # "receive" => inbox'[k] \in Seq({Upcoming})
                        /\ stage'[k] = "read" => heard'[k] \in Seq({Now, Upcoming})
    BY <1>1, <1>2 DEF BoxInv
  <2>2. /\ inbox[k] \in Seq({Now, Upcoming}) /\ k \in Exchange!Sockets
        /\ stage[k] # "receive" => inbox[k] \in Seq({Upcoming})
        /\ stage[k] = "read" => heard[k] \in Seq({Now, Upcoming})
    BY <1>1 DEF ExchangeInv, BoxInv, Exchange!Sockets
  <2>3. inbox'[k] \in Seq({Now, Upcoming})
    BY <1>1, <2>2, Broadcasting
  <2>4. stage[k] # "receive" => inbox'[k] \in Seq({Upcoming})
    BY <1>1, <2>2, Broadcasting
  <2>5. stage'[k] # "receive" => stage[k] # "receive"
    BY <1>1 DEF Exchange!TypeOK
  <2>6. stage'[k] = "read" => stage[k] = "read"
    BY <1>1 DEF Exchange!TypeOK
  <2> QED BY <1>1, <2>2, <2>3, <2>4, <2>5, <2>6
<1>6. RegionInv' /\ TakenInv'
  BY <1>1 DEF ExchangeInv, Exchange!TypeOK, RegionInv, TakenInv, Exchange!ExchangeAssumption
<1> QED BY <1>3, <1>4, <1>5, <1>6 DEF ExchangeInv

LEMMA PublishInvariant ==
  ASSUME Exchange!ExchangeAssumption, ExchangeInv, NEW i \in Instances, Exchange!PublishShared(i)
  PROVE  ExchangeInv'
<1>1. /\ Exchange!TypeOK /\ stage[i] = "publish" /\ env = "tick" /\ lib[i] = Upcoming
      /\ stage' = [stage EXCEPT ![i] = "idle"]
      /\ region' = IF i = Writer THEN lib[i] ELSE region
      /\ UNCHANGED <<env, clock, resets, lib, taken, inbox, heard>>
  BY Phase DEF ExchangeInv, Exchange!PublishShared, Exchange!Goto, Early, LibInv
<1>2. Now' = Now /\ Upcoming' = Upcoming /\ Upcoming \in Exchange!Moments
  BY <1>1, MomentTypes DEF Now, Upcoming, Exchange!Moment
<1>3. Exchange!TypeOK'
  BY <1>1, <1>2 DEF Exchange!TypeOK
<1>4. StageInv' /\ LibInv'
  BY <1>1, <1>2 DEF ExchangeInv, Exchange!TypeOK, StageInv, LibInv, Early, Done
<1>5. BoxInv' /\ TakenInv'
  BY <1>1, <1>2 DEF ExchangeInv, Exchange!TypeOK, BoxInv, TakenInv
<1>6. RegionInv'
  <2>1. CASE i = Writer
    <3>1. region' = Upcoming /\ stage'[Writer] = "idle"
      BY <1>1, <2>1 DEF Exchange!TypeOK
    <3>2. Upcoming.run = resets /\ Upcoming.tick = clock + 1 /\ resets \in Nat
      BY <1>1, MomentTypes
    <3> QED BY <1>1, <3>1, <3>2 DEF RegionInv
  <2>2. CASE i # Writer
    <3>1. stage'[Writer] = stage[Writer]
      BY <1>1, <2>2 DEF Exchange!TypeOK, Exchange!ExchangeAssumption
    <3> QED BY <1>1, <2>2, <3>1 DEF ExchangeInv, RegionInv
  <2> QED BY <2>1, <2>2
<1> QED BY <1>3, <1>4, <1>5, <1>6 DEF ExchangeInv

LEMMA ResetInvariant ==
  ASSUME Exchange!ExchangeAssumption, ExchangeInv, NEW i \in Instances, Exchange!ResetProject(i)
  PROVE  ExchangeInv'
<1>1. /\ Exchange!TypeOK /\ stage[i] = "reset" /\ env = "reset" /\ lib[i] = Now
      /\ stage' = [stage EXCEPT ![i] = "idle"]
      /\ lib' = [lib EXCEPT ![i] = Exchange!Moment(lib[i].run + 1, 0)]
      /\ UNCHANGED <<env, clock, resets, region, taken, inbox, heard>>
  BY Phase DEF ExchangeInv, Exchange!ResetProject, Exchange!Goto, LibInv
<1>2. Exchange!Moment(lib[i].run + 1, 0) = After /\ After \in Exchange!Moments /\ Now' = Now /\ After' = After
  BY <1>1, MomentTypes DEF Now, After, Exchange!Moment
<1>3. Exchange!TypeOK'
  BY <1>1, <1>2 DEF Exchange!TypeOK
<1>4. StageInv' /\ LibInv'
  BY <1>1, <1>2 DEF ExchangeInv, Exchange!TypeOK, StageInv, LibInv
<1>5. BoxInv' /\ RegionInv' /\ TakenInv'
  BY <1>1 DEF ExchangeInv, BoxInv, RegionInv, TakenInv
<1> QED BY <1>3, <1>4, <1>5 DEF ExchangeInv

LEMMA DiscardInvariant ==
  ASSUME Exchange!ExchangeAssumption, ExchangeInv, NEW i \in Instances, Exchange!DiscardFrames(i)
  PROVE  ExchangeInv'
<1>1. /\ Exchange!TypeOK /\ stage[i] = "discard" /\ env = "discard" /\ i \in Exchange!Sockets
      /\ stage' = [stage EXCEPT ![i] = "idle"]
      /\ inbox' = [inbox EXCEPT ![i] = <<>>]
      /\ UNCHANGED <<env, clock, resets, lib, region, taken, heard>>
  BY Phase DEF ExchangeInv, Exchange!DiscardFrames, Exchange!Goto, Exchange!Sockets
<1>2. Exchange!TypeOK'
  BY <1>1, NoFrames DEF Exchange!TypeOK
<1>3. StageInv' /\ LibInv'
  BY <1>1 DEF ExchangeInv, Exchange!TypeOK, StageInv, LibInv, After, Exchange!Moment
<1>4. BoxInv'
  BY <1>1 DEF ExchangeInv, Exchange!TypeOK, BoxInv, Exchange!Sockets
<1>5. RegionInv' /\ TakenInv'
  BY <1>1 DEF ExchangeInv, RegionInv, TakenInv
<1> QED BY <1>2, <1>3, <1>4, <1>5 DEF ExchangeInv

LEMMA ExchangeStutter ==
  ASSUME ExchangeInv, UNCHANGED Exchange!vars
  PROVE  ExchangeInv'
BY DEF ExchangeInv, Exchange!vars, Exchange!TypeOK, StageInv, LibInv, BoxInv,
   RegionInv, TakenInv,
       Now, Upcoming, After

(* Every step keeps the invariant.                                         *)
LEMMA ExchangeStep ==
  ASSUME Exchange!ExchangeAssumption, ExchangeInv, [Exchange!Next]_(Exchange!vars)
  PROVE  ExchangeInv'
<1>1. ASSUME NEW i \in Instances, Exchange!InstanceStep(i) PROVE ExchangeInv'
  BY <1>1, ReceiveInvariant, ReadInvariant, TickInvariant, SendInvariant, PublishInvariant,
     ResetInvariant, DiscardInvariant DEF Exchange!InstanceStep
<1>2. CASE \/ Exchange!EnvSends \/ Exchange!BeginTick \/ Exchange!EndTick
           \/ Exchange!BeginReset \/ Exchange!AllReset \/ Exchange!EndReset
  BY <1>2, EnvSendsInvariant, BeginTickInvariant, EndTickInvariant, ResettingInvariant,
     EndResetInvariant
<1>3. CASE UNCHANGED Exchange!vars
  BY <1>3, ExchangeStutter
<1> QED BY <1>1, <1>2, <1>3 DEF Exchange!Next, Exchange!Finished

-----------------------------------------------------------------------------
(* What it implies of what is handed over.                                 *)

LEMMA InTime ==
  ASSUME ExchangeInv
  PROVE  /\ Exchange!SharedIsRecent /\ Exchange!FramesArriveNext
         /\ Exchange!NoFrameSurvivesReset /\ Exchange!TicksFromOneMoment
<1>1. Exchange!TypeOK
  BY DEF ExchangeInv
<1>2. ASSUME NEW i \in Instances, stage[i] \in {"read", "tick"}
      PROVE  env = "tick" /\ lib[i] = Now
  BY <1>2, Phase DEF ExchangeInv, LibInv, Early
<1>3. Exchange!SharedIsRecent
  BY <1>1, <1>2, MomentTypes DEF ExchangeInv, TakenInv, Exchange!SharedIsRecent,
     Exchange!Making
<1>4. ASSUME NEW i \in Instances, stage[i] = "read", NEW m \in Exchange!ToSet(heard[i])
      PROVE  m \in {Now, Upcoming}
  <2>1. heard[i] \in Seq({Now, Upcoming})
    BY <1>2, <1>4 DEF ExchangeInv, BoxInv
  <2>2. PICK j \in DOMAIN heard[i] : m = heard[i][j]
    BY DEF Exchange!ToSet
  <2>3. j \in 1 .. Len(heard[i])
    BY <2>1, LenProperties
  <2> QED BY <2>1, <2>2, <2>3, ElementOfSeq
<1>5. Exchange!FramesArriveNext
  BY <1>1, <1>2, <1>4, MomentTypes DEF Exchange!FramesArriveNext, Exchange!Making
<1>6. Exchange!NoFrameSurvivesReset
  BY <1>1, <1>2, <1>4, MomentTypes DEF Exchange!NoFrameSurvivesReset
<1>7. Exchange!TicksFromOneMoment
  BY DEF ExchangeInv, LibInv, Exchange!TicksFromOneMoment, Now
<1> QED BY <1>3, <1>5, <1>6, <1>7

(* Though the devices of an env run in parallel, what they read from a     *)
(* shared channel is at most one tick old, frames arrive in the tick they  *)
(* were sent in or the next, and none that was sent before a reset arrives *)
(* after it.                                                               *)
THEOREM ExchangedInTime ==
  ASSUME Exchange!ExchangeAssumption
  PROVE  Exchange!Spec => []( /\ Exchange!SharedIsRecent /\ Exchange!FramesArriveNext
                     /\ Exchange!NoFrameSurvivesReset /\ Exchange!TicksFromOneMoment )
<1>1. Exchange!Init => ExchangeInv
  BY ExchangeInit
<1>2. ExchangeInv /\ [Exchange!Next]_(Exchange!vars) => ExchangeInv'
  BY ExchangeStep
<1>3. ExchangeInv => /\ Exchange!SharedIsRecent /\ Exchange!FramesArriveNext
              /\ Exchange!NoFrameSurvivesReset /\ Exchange!TicksFromOneMoment
  BY InTime
<1> QED BY <1>1, <1>2, <1>3, PTL DEF Exchange!Spec

=============================================================================
