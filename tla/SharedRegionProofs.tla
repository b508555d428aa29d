------------------------- MODULE SharedRegionProofs -------------------------
(***************************************************************************)
(* Theorems about SharedRegion, for every number of readers and slots,     *)
(* every set of snapshots, every spin limit and every even counter range.  *)
(***************************************************************************)
EXTENDS SharedRegion, TLAPS

(* Strengthening of TypeOK: a turn of the retry loop starts at slot 0, and *)
(* a running read has attempts left.                                       *)
LoopInv ==
  \A r \in Readers :
    /\ rpc[r] \notin {"tag", "type", "data", "after"} => rslot[r] = 0
    /\ rpc[r] \notin {"detached", "idle"} => attempts[r] < MaxSpins

TypeInv == TypeOK /\ LoopInv

LEMMA ConstantFacts ==
  /\ NumSlots \in Nat /\ NumSlots > 0 /\ 0 \in Slots
  /\ MaxSpins \in Nat /\ MaxSpins > 0
  /\ GenModulus \in Nat /\ GenModulus > 3
  /\ ZeroTag \in Tag /\ ZeroValue \in Value /\ ZeroCopy \in [Slots -> Value]
BY SharedRegionAssumption
   DEF SharedRegionAssumption, Slots, ZeroTag, ZeroValue, ZeroCopy, Tag, Value

LEMMA WrappingAddType ==
  ASSUME NEW g \in Generations, NEW n \in Nat, n < GenModulus
  PROVE  WrappingAdd(g, n) \in Generations
BY ConstantFacts DEF WrappingAdd, Generations

LEMMA InitTypeInv == Init => TypeInv
<1>1. NoOutcome \in Results
  BY DEF NoOutcome, Results, Kinds
<1>2. 0 \in Generations /\ ZeroType \in Types
  BY ConstantFacts, SharedRegionAssumption
     DEF Generations, SharedRegionAssumption
<1> SUFFICES ASSUME Init PROVE TypeInv
  OBVIOUS
<1>3. /\ quiet \in [Readers -> BOOLEAN]
      /\ misread \in [Readers -> BOOLEAN]
      /\ created \in BOOLEAN /\ initialized \in BOOLEAN
      /\ marked \in BOOLEAN /\ crashed \in BOOLEAN
  BY DEF Init
<1>4. /\ rpc \in [Readers -> {"detached", "idle", "before", "initialized",
                             "tag", "type", "data", "after"}]
      /\ attempts \in [Readers -> 0 .. MaxSpins]
      /\ before \in [Readers -> Generations]
      /\ rslot \in [Readers -> 0 .. NumSlots]
      /\ rcopy \in [Readers -> [Slots -> Value]]
      /\ result \in [Readers -> Results]
      /\ lag \in [Readers -> Nat]
  BY <1>1, <1>2, ConstantFacts DEF Init
<1>5. TypeOK
  BY <1>1, <1>2, <1>3, <1>4, ConstantFacts DEF Init, TypeOK
<1>6. LoopInv
  BY ConstantFacts DEF Init, LoopInv
<1> QED
  BY <1>5, <1>6 DEF TypeInv

(* The writer's steps leave what TypeInv says of the readers alone.        *)
LEMMA WriterTypeInv == TypeInv /\ WriterNext => TypeInv'
<1> SUFFICES ASSUME TypeInv, WriterNext PROVE TypeInv'
  OBVIOUS
<1> USE ConstantFacts, SharedRegionAssumption
    DEF TypeInv, TypeOK, LoopInv, reader, history, memory
<1>1. CASE OpenWriter
  <2>1. 0 \in Generations /\ ZeroType \in Types
    BY DEF Generations, SharedRegionAssumption
  <2> QED
    BY <1>1, <2>1 DEF OpenWriter
<1>2. CASE \E s \in Snapshots : BeginPublish(s)
  BY <1>2 DEF BeginPublish, Slots
<1>3. CASE MarkOdd
  BY <1>3, WrappingAddType DEF MarkOdd
<1>4. CASE StoreTag
  BY <1>4 DEF StoreTag, SharedRegionAssumption, Tag, Value
<1>5. CASE StoreType
  BY <1>5 DEF StoreType, SharedRegionAssumption, Value
<1>6. CASE StoreData
  BY <1>6 DEF StoreData, SharedRegionAssumption, Slots
<1>7. CASE SetInitialized
  BY <1>7 DEF SetInitialized
<1>8. CASE EndPublish
  <2>1. generation' \in Generations
    BY <1>8, WrappingAddType DEF EndPublish
  <2>2. lag' \in [Readers -> Nat]
    BY <1>8 DEF EndPublish
  <2> QED
    BY <1>8, <2>1, <2>2 DEF EndPublish
<1>9. CASE CrashWriter
  BY <1>9 DEF CrashWriter
<1> QED
  BY <1>1, <1>2, <1>3, <1>4, <1>5, <1>6, <1>7, <1>8, <1>9 DEF WriterNext

LEMMA OutcomeType ==
  ASSUME TypeInv, NEW r \in Readers, NEW kind \in Kinds,
         NEW snap \in [Slots -> Value] \cup {NoSnapshot}
  PROVE  Outcome(r, kind, snap) \in Results
BY DEF TypeInv, TypeOK, Outcome, Results

(* What the end of a turn leaves in the locals of reader r.                *)
LEMMA EndTurnType ==
  ASSUME TypeInv, NEW r \in Readers, EndTurn(r)
  PROVE  /\ before' \in [Readers -> Generations]
         /\ rslot' \in [Readers -> 0 .. NumSlots]
         /\ rtag' \in [Readers -> Tag]
         /\ rtype' \in [Readers -> Types]
         /\ rcopy' \in [Readers -> [Slots -> Value]]
         /\ expected' \in [Readers -> Snapshots \cup {NoSnapshot}]
         /\ lag' \in [Readers -> Nat]
         /\ rslot'[r] = 0
         /\ \A q \in Readers \ {r} : rslot'[q] = rslot[q]
BY ConstantFacts, SharedRegionAssumption
   DEF TypeInv, TypeOK, EndTurn, Generations, SharedRegionAssumption

LEMMA ReturnTypeInv ==
  ASSUME TypeInv, NEW r \in Readers, NEW kind \in Kinds,
         NEW snap \in [Slots -> Value] \cup {NoSnapshot},
         Return(r, kind, snap)
  PROVE  /\ rpc' = [rpc EXCEPT ![r] = "idle"]
         /\ result' \in [Readers -> Results]
BY OutcomeType DEF Return, Goto, TypeInv, TypeOK

LEMMA RetryTypeInv ==
  ASSUME TypeInv, NEW r \in Readers, rpc[r] \notin {"detached", "idle"},
         Retry(r), UNCHANGED <<memory, writer, latest, quiet, misread>>
  PROVE  TypeInv'
<1> USE ConstantFacts
<1>1. attempts' \in [Readers -> 0 .. MaxSpins]
  BY DEF Retry, TypeInv, TypeOK, LoopInv
<1>2. EndTurn(r)
  BY DEF Retry, Return
<1>3. CASE attempts[r] + 1 = MaxSpins
  <2>1. Return(r, "busy", NoSnapshot)
    BY <1>3 DEF Retry
  <2>2. "busy" \in Kinds
    BY DEF Kinds
  <2>3. rpc' = [rpc EXCEPT ![r] = "idle"] /\ result' \in [Readers -> Results]
    BY <2>1, <2>2, ReturnTypeInv
  <2>4. attempts' = [attempts EXCEPT ![r] = @ + 1]
    BY DEF Retry
  <2> QED
    BY <1>1, <1>2, <2>3, <2>4, EndTurnType
       DEF TypeInv, TypeOK, LoopInv, memory, writer
<1>4. CASE attempts[r] + 1 # MaxSpins
  <2>1. /\ rpc' = [rpc EXCEPT ![r] = "before"]
        /\ attempts' = [attempts EXCEPT ![r] = @ + 1]
        /\ result' = result
    BY <1>4 DEF Retry, Goto
  <2>2. TypeOK'
    BY <1>1, <1>2, <2>1, EndTurnType DEF TypeInv, TypeOK, memory, writer
  <2>3. attempts'[r] < MaxSpins
    <3>1. attempts \in [Readers -> 0 .. MaxSpins] /\ attempts[r] < MaxSpins
      BY DEF TypeInv, TypeOK, LoopInv
    <3> QED
      BY <1>4, <2>1, <3>1
  <2>4. LoopInv'
    BY <1>2, <2>1, <2>3, EndTurnType DEF TypeInv, TypeOK, LoopInv
  <2> QED
    BY <2>2, <2>4 DEF TypeInv
<1> QED
  BY <1>3, <1>4

LEMMA StopTypeInv ==
  ASSUME TypeInv, NEW r \in Readers, NEW kind \in Kinds,
         NEW snap \in [Slots -> Value] \cup {NoSnapshot},
         Return(r, kind, snap),
         UNCHANGED <<memory, writer, attempts, latest, quiet, misread>>
  PROVE  TypeInv'
<1>1. EndTurn(r)
  BY DEF Return
<1>2. rpc' = [rpc EXCEPT ![r] = "idle"] /\ result' \in [Readers -> Results]
  BY ReturnTypeInv
<1>3. TypeOK'
  BY <1>1, <1>2, EndTurnType DEF TypeInv, TypeOK, memory, writer
<1>4. LoopInv'
  BY <1>1, <1>2, EndTurnType DEF TypeInv, TypeOK, LoopInv
<1> QED
  BY <1>3, <1>4 DEF TypeInv

LEMMA ReaderTypeInv ==
  ASSUME TypeInv, NEW r \in Readers, ReaderNext(r)
  PROVE  TypeInv'
<1> USE ConstantFacts, SharedRegionAssumption
    DEF memory, writer, history, Goto
<1>1. CASE AttachReader(r)
  BY <1>1 DEF AttachReader, TypeInv, TypeOK, LoopInv
<1>2. CASE BeginRead(r)
  <2>1. NoOutcome \in Results
    BY DEF NoOutcome, Results, Kinds
  <2>2. quiet' \in [Readers -> BOOLEAN]
    BY <1>2 DEF BeginRead, TypeInv, TypeOK
  <2> QED
    BY <1>2, <2>1, <2>2 DEF BeginRead, TypeInv, TypeOK, LoopInv
<1>3. CASE LoadBefore(r)
  <2>1. CASE Odd(generation)
    BY <1>3, <2>1, RetryTypeInv DEF LoadBefore
  <2>2. CASE ~Odd(generation)
    <3>1. /\ before' \in [Readers -> Generations]
          /\ expected' \in [Readers -> Snapshots \cup {NoSnapshot}]
          /\ rpc' = [rpc EXCEPT ![r] = "initialized"]
      <4>1. /\ before' = [before EXCEPT ![r] = generation]
            /\ expected' = [expected EXCEPT ![r] = latest]
            /\ rpc' = [rpc EXCEPT ![r] = "initialized"]
        BY <1>3, <2>2 DEF LoadBefore
      <4> QED
        BY <4>1 DEF TypeInv, TypeOK
    <3>2. TypeOK'
      <4>1. \A q \in Readers :
              rpc'[q] \in {"tag", "type", "data"} => rslot'[q] \in Slots
        BY <1>3, <2>2, <3>1 DEF LoadBefore, TypeInv, TypeOK
      <4> QED
        BY <1>3, <2>2, <3>1, <4>1 DEF LoadBefore, TypeInv, TypeOK
    <3>3. LoopInv'
      BY <1>3, <2>2, <3>1 DEF LoadBefore, TypeInv, TypeOK, LoopInv
    <3> QED
      BY <3>2, <3>3 DEF TypeInv
  <2> QED
    BY <2>1, <2>2
<1>4. CASE CheckInitialized(r)
  <2>1. CASE initialized
    <3>1. /\ rpc[r] = "initialized" /\ rpc' = [rpc EXCEPT ![r] = "tag"]
          /\ rslot' = rslot /\ attempts' = attempts
      BY <1>4, <2>1 DEF CheckInitialized, Goto
    <3>2. \A q \in Readers : rpc'[q] \in {"tag", "type", "data"} => rslot'[q] \in Slots
      BY <3>1 DEF TypeInv, TypeOK, LoopInv
    <3>3. TypeOK'
      BY <1>4, <2>1, <3>1, <3>2 DEF CheckInitialized, TypeInv, TypeOK
    <3>4. LoopInv'
      BY <3>1 DEF TypeInv, TypeOK, LoopInv
    <3> QED BY <3>3, <3>4 DEF TypeInv
  <2>2. CASE ~initialized
    <3>1. "uninitialized" \in Kinds
      BY DEF Kinds
    <3> QED
      BY <1>4, <2>2, <3>1, StopTypeInv DEF CheckInitialized
  <2> QED
    BY <2>1, <2>2
<1>5. CASE CopyTag(r)
  BY <1>5 DEF CopyTag, TypeInv, TypeOK, LoopInv
<1>6. CASE CopyType(r)
  BY <1>6 DEF CopyType, TypeInv, TypeOK, LoopInv
<1>7. CASE CopyData(r)
  <2> DEFINE k == rslot[r]
  <2>1. CASE Decodes(k, rtag[r], rtype[r])
    <3>1. k \in Slots /\ ReadAs(rtype[r], val[k]) \in Value
      BY <1>7 DEF CopyData, ReadAs, TypeInv, TypeOK, Value
    <3>2. rcopy' \in [Readers -> [Slots -> Value]]
      <4>1. rcopy' = [rcopy EXCEPT ![r][k] = ReadAs(rtype[r], val[k])]
        BY <1>7, <2>1 DEF CopyData
      <4>2. rcopy \in [Readers -> [Slots -> Value]]
        BY DEF TypeInv, TypeOK
      <4> QED
        BY <3>1, <4>1, <4>2
    <3>3. misread' \in [Readers -> BOOLEAN]
      <4>1. misread' = IF val[k].type # rtype[r]
                       THEN [misread EXCEPT ![r] = TRUE] ELSE misread
        BY <1>7, <2>1 DEF CopyData
      <4>2. misread \in [Readers -> BOOLEAN]
        BY DEF TypeInv, TypeOK
      <4> QED
        BY <4>1, <4>2
    <3>4. /\ rslot' = [rslot EXCEPT ![r] = k + 1]
          /\ rpc' = [rpc EXCEPT ![r] = IF k + 1 = NumSlots THEN "after"
                                                           ELSE "tag"]
      BY <1>7, <2>1 DEF CopyData
    <3>5. k + 1 \in 0 .. NumSlots /\ (k + 1 # NumSlots => k + 1 \in Slots)
      BY <3>1 DEF Slots
    <3>6. /\ rslot' \in [Readers -> 0 .. NumSlots]
          /\ \A q \in Readers : rpc'[q] \in {"tag", "type", "data"} => rslot'[q] \in Slots
      BY <1>7, <2>1, <3>4, <3>5 DEF TypeInv, TypeOK
    <3>7. TypeOK'
      BY <1>7, <2>1, <3>2, <3>3, <3>4, <3>6 DEF CopyData, TypeInv, TypeOK
    <3>8. attempts' = attempts /\ rpc[r] = "data"
      BY <1>7, <2>1 DEF CopyData
    <3>9. LoopInv'
      BY <3>4, <3>8 DEF TypeInv, TypeOK, LoopInv
    <3> QED
      BY <3>7, <3>9 DEF TypeInv
  <2>2. CASE ~Decodes(k, rtag[r], rtype[r])
    <3>1. "invalid" \in Kinds
      BY DEF Kinds
    <3> QED
      BY <1>7, <2>2, <3>1, StopTypeInv DEF CopyData
  <2> QED
    BY <2>1, <2>2
<1>8. CASE LoadAfter(r)
  <2>1. CASE generation = before[r] /\ ~Odd(generation)
    <3>1. "ok" \in Kinds /\ rcopy[r] \in [Slots -> Value]
      BY DEF Kinds, TypeInv, TypeOK
    <3> QED
      BY <1>8, <2>1, <3>1, StopTypeInv DEF LoadAfter
  <2>2. CASE ~(generation = before[r] /\ ~Odd(generation))
    BY <1>8, <2>2, RetryTypeInv DEF LoadAfter
  <2> QED
    BY <2>1, <2>2
<1> QED
  BY <1>1, <1>2, <1>3, <1>4, <1>5, <1>6, <1>7, <1>8
     DEF ReaderNext, ReadStep

LEMMA TypeInvStep == TypeInv /\ [Next]_vars => TypeInv'
<1> SUFFICES ASSUME TypeInv, [Next]_vars PROVE TypeInv'
  OBVIOUS
<1>1. CASE WriterNext
  BY <1>1, WriterTypeInv
<1>2. CASE \E r \in Readers : ReaderNext(r)
  BY <1>2, ReaderTypeInv
<1>3. CASE UNCHANGED vars
  BY <1>3 DEF vars, memory, writer, reader, history, TypeInv, TypeOK, LoopInv
<1> QED
  BY <1>1, <1>2, <1>3 DEF Next

(* Every variable keeps to its range in every behaviour.                   *)
THEOREM TypeCorrect == Spec => []TypeOK
<1>1. TypeInv => TypeOK
  BY DEF TypeInv
<1> QED
  BY <1>1, InitTypeInv, TypeInvStep, PTL DEF Spec

-----------------------------------------------------------------------------
(* The seqlock argument.  It needs stores that become visible in order.    *)

Publishing == wpc \in {"storing", "initializing", "ending"}

(* Slot k of the mapped memory, or of its first words, holds snapshot s.   *)
TagIs(s, k) == tag[k] = [id |-> k, type |-> s[k].type]
SlotIs(s, k) == TagIs(s, k) /\ vtype[k] = s[k].type /\ val[k] = s[k]
MemoryIs(s) == \A k \in Slots : SlotIs(s, k)

(* The counter is odd exactly while a publication is marked.               *)
ParityInv ==
  /\ marked => Publishing
  /\ ~marked => ~Odd(generation)
  /\ Publishing =>
       /\ ~Odd(wsaved)
       /\ generation = IF marked THEN WrappingAdd(wsaved, 1) ELSE wsaved

(* At rest the memory is the last publication; within one, its prefix is.  *)
MemoryInv ==
  /\ wpc = "closed" => ~created /\ latest = NoSnapshot
  /\ initialized => latest # NoSnapshot \/ wpc = "ending"
  /\ latest # NoSnapshot => initialized
  /\ latest # NoSnapshot /\ ~marked => MemoryIs(latest)
  /\ wpc \in {"initializing", "ending"} => marked /\ MemoryIs(wsnap)
  /\ wpc = "ending" => initialized
  /\ wpc = "storing" =>
       /\ ~marked => wslot = 0 /\ wword = "tag"
       /\ \A k \in Slots : k < wslot => SlotIs(wsnap, k)
       /\ wword # "tag" => TagIs(wsnap, wslot)
       /\ wword = "data" => vtype[wslot] = wsnap[wslot].type

(* The counter has moved by two for every publication finished since the   *)
(* even load, and not all the way round.                                   *)
CounterInv ==
  \A r \in Readers :
    /\ ~created => rpc[r] = "detached"
    /\ 2 * lag[r] < GenModulus
    /\ Publishing => 2 * lag[r] + 2 < GenModulus
    /\ ~InRead(r) => lag[r] = 0
    /\ InRead(r) =>
         /\ ~Odd(before[r])
         /\ generation =
              WrappingAdd(before[r], 2 * lag[r] + (IF marked THEN 1 ELSE 0))

(* While nothing was published since the even load, the words copied so    *)
(* far are those of the publication that was current then.                 *)
CopyInv ==
  \A r \in Readers :
    InRead(r) =>
      /\ rpc[r] # "initialized" => initialized
      /\ rpc[r] = "after" => rslot[r] = NumSlots
      /\ lag[r] = 0 => expected[r] = latest
      /\ lag[r] = 0 /\ ~marked =>
           /\ \A k \in Slots : k < rslot[r] => rcopy[r][k] = expected[r][k]
           /\ rpc[r] \in {"type", "data"} =>
                rtag[r] = [id |-> rslot[r],
                           type |-> expected[r][rslot[r]].type]
           /\ rpc[r] = "data" => rtype[r] = expected[r][rslot[r]].type

(* A read is quiet as long as no publication ran beside it.                *)
QuietInv ==
  \A r \in Readers :
    quiet[r] /\ rpc[r] \notin {"detached", "idle"} => ~Publishing /\ lag[r] = 0

OutcomeInv ==
  SnapshotNotTorn /\ UndisturbedReadSucceeds /\ InvalidMeansOvertaken

(* The inductive invariant.                                                *)
SeqlockInv ==
  /\ TypeInv
  /\ ParityInv
  /\ MemoryInv
  /\ CounterInv
  /\ CopyInv
  /\ QuietInv
  /\ OutcomeInv

LEMMA EvenHalf ==
  ASSUME NEW g \in Generations, ~Odd(g)
  PROVE  \E h \in Nat : g = 2 * h
<1>1. g \in Nat
  BY ConstantFacts DEF Generations
<1>2. g % 2 # 1
  BY DEF Odd
<1> DEFINE h == g \div 2
<1>3. h \in Nat /\ g = 2 * h
  BY <1>1, <1>2
<1> QED
  BY <1>3

LEMMA WrappingAddParity ==
  ASSUME NEW g \in Generations, ~Odd(g)
  PROVE  /\ WrappingAdd(g, 1) = g + 1
         /\ Odd(WrappingAdd(g, 1))
         /\ ~Odd(WrappingAdd(g, 2))
<1>1. PICK h \in Nat : g = 2 * h
  BY EvenHalf
<1>2. PICK m \in Nat : GenModulus = 2 * m
  BY ConstantFacts, SharedRegionAssumption DEF SharedRegionAssumption
<1>3. g < GenModulus /\ h < m /\ g + 1 < GenModulus
  BY <1>1, <1>2, ConstantFacts DEF Generations
<1>4. WrappingAdd(g, 1) = g + 1
  BY <1>3 DEF WrappingAdd
<1>5. Odd(g + 1)
  BY <1>1 DEF Odd
<1>6. ~Odd(WrappingAdd(g, 2))
  BY <1>1, <1>2, <1>3 DEF WrappingAdd, Odd
<1> QED
  BY <1>4, <1>5, <1>6

(* A counter that comes back to its value has gone all the way round.      *)
LEMMA WrappingAddReturns ==
  ASSUME NEW g \in Generations, NEW n \in Nat, n < GenModulus,
         WrappingAdd(g, n) = g
  PROVE  n = 0
BY ConstantFacts DEF WrappingAdd, Generations

(* Adding one more to equal odd sums, one of which has not wrapped.        *)
LEMMA WrappingAddNext ==
  ASSUME NEW w \in Generations, NEW b \in Generations, NEW n \in Nat,
         ~Odd(w), ~Odd(b), 2 * n + 2 < GenModulus,
         WrappingAdd(w, 1) = WrappingAdd(b, 2 * n + 1)
  PROVE  WrappingAdd(w, 2) = WrappingAdd(b, 2 * n + 2)
<1>1. PICK h \in Nat : b = 2 * h
  BY EvenHalf
<1>2. PICK m \in Nat : GenModulus = 2 * m
  BY ConstantFacts, SharedRegionAssumption DEF SharedRegionAssumption
<1>3. WrappingAdd(w, 1) = w + 1
  BY WrappingAddParity
<1> QED
  BY <1>1, <1>2, <1>3, ConstantFacts DEF WrappingAdd, Generations

LEMMA InitSeqlockInv == Init => SeqlockInv
<1> SUFFICES ASSUME Init PROVE SeqlockInv
  OBVIOUS
<1>1. TypeInv
  BY InitTypeInv
<1>2. ParityInv
  BY DEF Init, ParityInv, Publishing, Odd
<1>3. MemoryInv
  BY DEF Init, MemoryInv
<1>4. CounterInv /\ CopyInv
  BY ConstantFacts DEF Init, CounterInv, CopyInv, InRead, Publishing
<1>5. QuietInv /\ OutcomeInv
  BY DEF Init, QuietInv, OutcomeInv, SnapshotNotTorn, UndisturbedReadSucceeds,
         InvalidMeansOvertaken, NoOutcome
<1> QED
  BY <1>1, <1>2, <1>3, <1>4, <1>5 DEF SeqlockInv

(* The writer's steps, when the slot stores wait for the odd generation.   *)
LEMMA WriterParityInv ==
  ASSUME TypeInv, ParityInv, WriterNext
  PROVE  ParityInv'
<1> USE DEF ParityInv, Publishing
<1>0. TypeOK /\ generation \in Generations /\ wsaved \in Generations
  BY DEF TypeInv, TypeOK
<1>1. CASE OpenWriter
  BY <1>1 DEF OpenWriter, Odd
<1>2. CASE \E s \in Snapshots : BeginPublish(s)
  BY <1>2, <1>0 DEF BeginPublish, memory
<1>3. CASE MarkOdd
  BY <1>3, <1>0 DEF MarkOdd
<1>4. CASE StoreTag
  BY <1>4 DEF StoreTag
<1>5. CASE StoreType
  BY <1>5 DEF StoreType
<1>6. CASE StoreData
  BY <1>6 DEF StoreData
<1>7. CASE SetInitialized
  BY <1>7 DEF SetInitialized
<1>8. CASE EndPublish
  BY <1>8, <1>0, WrappingAddParity DEF EndPublish
<1>9. CASE CrashWriter
  BY <1>9 DEF CrashWriter, memory
<1> QED
  BY <1>1, <1>2, <1>3, <1>4, <1>5, <1>6, <1>7, <1>8, <1>9 DEF WriterNext

LEMMA WriterMemoryInv ==
  ASSUME ~WeakOrder, TypeInv, ParityInv, MemoryInv, WriterNext
  PROVE  MemoryInv'
<1> USE ConstantFacts, SharedRegionAssumption
    DEF TypeInv, TypeOK, ParityInv, Publishing, MemoryInv, StoresEnabled,
        MemoryIs, SlotIs, TagIs
<1>1. CASE OpenWriter
  BY <1>1 DEF OpenWriter, reader, history
<1>2. CASE \E s \in Snapshots : BeginPublish(s)
  BY <1>2 DEF BeginPublish, memory, reader, Slots
<1>3. CASE MarkOdd
  BY <1>3 DEF MarkOdd, reader, history
<1>4. CASE StoreTag
  BY <1>4 DEF StoreTag, reader, history, Slots
<1>5. CASE StoreType
  BY <1>5 DEF StoreType, reader, history, Slots
<1>6. CASE StoreData
  BY <1>6 DEF StoreData, reader, history, Slots
<1>7. CASE SetInitialized
  BY <1>7 DEF SetInitialized, reader, history
<1>8. CASE EndPublish
  BY <1>8 DEF EndPublish, reader, SharedRegionAssumption
<1>9. CASE CrashWriter
  BY <1>9 DEF CrashWriter, memory, reader, history
<1> QED
  BY <1>1, <1>2, <1>3, <1>4, <1>5, <1>6, <1>7, <1>8, <1>9 DEF WriterNext

LEMMA WriterCounterInv ==
  ASSUME TypeInv, ParityInv, MemoryInv, CounterInv, WriterNext
  PROVE  CounterInv'
<1> USE ConstantFacts
    DEF CounterInv, InRead, Publishing, reader, history, memory
<1>0. /\ generation \in Generations /\ wsaved \in Generations
      /\ before \in [Readers -> Generations]
      /\ lag \in [Readers -> Nat]
  BY DEF TypeInv, TypeOK
<1>1. CASE OpenWriter
  BY <1>0, <1>1 DEF OpenWriter, MemoryInv
<1>2. CASE \E s \in Snapshots : BeginPublish(s)
  BY <1>0, <1>2 DEF BeginPublish, OvertakeBound
<1>3. CASE MarkOdd
  <2>1. ASSUME NEW r \in Readers, InRead(r)
        PROVE  WrappingAdd(wsaved, 1) = WrappingAdd(before[r], 2 * lag[r] + 1)
    <3>1. wsaved = WrappingAdd(before[r], 2 * lag[r]) /\ ~Odd(wsaved)
      BY <1>0, <1>3, <2>1 DEF MarkOdd, ParityInv
    <3>2. wsaved + 1 < GenModulus
      <4>1. PICK h \in Nat : wsaved = 2 * h
        BY <1>0, <3>1, EvenHalf
      <4>2. PICK m \in Nat : GenModulus = 2 * m
        BY SharedRegionAssumption DEF SharedRegionAssumption
      <4> QED
        BY <1>0, <4>1, <4>2 DEF Generations
    <3> QED
      BY <1>0, <3>1, <3>2 DEF WrappingAdd, Generations
  <2> QED
    BY <1>0, <1>3, <2>1 DEF MarkOdd
<1>4. CASE StoreTag
  BY <1>4 DEF StoreTag
<1>5. CASE StoreType
  BY <1>5 DEF StoreType
<1>6. CASE StoreData
  BY <1>6 DEF StoreData
<1>7. CASE SetInitialized
  BY <1>7 DEF SetInitialized
<1>8. CASE EndPublish
  <2> SUFFICES ASSUME NEW r \in Readers
               PROVE  CounterInv!(r)'
    OBVIOUS
  <2>1. CASE InRead(r)
    <3>1. WrappingAdd(wsaved, 1) = WrappingAdd(before[r], 2 * lag[r] + 1)
      BY <1>8, <2>1 DEF EndPublish, ParityInv
    <3>2. WrappingAdd(wsaved, 2) = WrappingAdd(before[r], 2 * lag[r] + 2)
      BY <1>0, <1>8, <2>1, <3>1, WrappingAddNext DEF EndPublish, ParityInv
    <3>3. lag'[r] = lag[r] + 1 /\ 2 * lag'[r] = 2 * lag[r] + 2
      BY <1>0, <1>8, <2>1 DEF EndPublish
    <3> QED
      BY <1>0, <1>8, <2>1, <3>2, <3>3 DEF EndPublish
  <2>2. CASE ~InRead(r)
    BY <1>0, <1>8, <2>2 DEF EndPublish
  <2> QED
    BY <2>1, <2>2
<1>9. CASE CrashWriter
  BY <1>9 DEF CrashWriter
<1> QED
  BY <1>1, <1>2, <1>3, <1>4, <1>5, <1>6, <1>7, <1>8, <1>9 DEF WriterNext

(* A store happens while the publication is marked, when CopyInv says      *)
(* nothing of the words copied; ending the publication raises the lag.     *)
LEMMA WriterCopyInv ==
  ASSUME ~WeakOrder, TypeInv, ParityInv, MemoryInv, CounterInv, CopyInv,
         WriterNext
  PROVE  CopyInv'
<1> USE DEF CopyInv, InRead, Publishing, StoresEnabled, reader, history, memory
<1>0. lag \in [Readers -> Nat]
  BY DEF TypeInv, TypeOK
<1>1. CASE OpenWriter
  BY <1>1 DEF OpenWriter, CounterInv, MemoryInv
<1>2. CASE \E s \in Snapshots : BeginPublish(s)
  BY <1>2 DEF BeginPublish
<1>3. CASE MarkOdd
  BY <1>3 DEF MarkOdd
<1>4. CASE StoreTag
  BY <1>4 DEF StoreTag
<1>5. CASE StoreType
  BY <1>5 DEF StoreType
<1>6. CASE StoreData
  BY <1>6 DEF StoreData
<1>7. CASE SetInitialized
  BY <1>7 DEF SetInitialized
<1>8. CASE EndPublish
  <2>1. \A r \in Readers : InRead(r) => lag'[r] = lag[r] + 1 /\ lag'[r] # 0
    BY <1>0, <1>8 DEF EndPublish
  <2> QED
    BY <1>8, <2>1 DEF EndPublish
<1>9. CASE CrashWriter
  BY <1>9 DEF CrashWriter
<1> QED
  BY <1>1, <1>2, <1>3, <1>4, <1>5, <1>6, <1>7, <1>8, <1>9 DEF WriterNext

LEMMA WriterQuietInv ==
  ASSUME TypeInv, QuietInv, ParityInv, MemoryInv, CounterInv, WriterNext
  PROVE  QuietInv'
<1> USE DEF QuietInv, Publishing, reader, history, memory
<1>0. /\ quiet \in [Readers -> BOOLEAN] /\ lag \in [Readers -> Nat]
  BY DEF TypeInv, TypeOK
<1>1. CASE OpenWriter
  BY <1>1 DEF OpenWriter, CounterInv, MemoryInv
<1>2. CASE \E s \in Snapshots : BeginPublish(s)
  BY <1>2 DEF BeginPublish
<1>3. CASE EndPublish
  BY <1>3 DEF EndPublish
<1>4. CASE \/ MarkOdd \/ StoreTag \/ StoreType \/ StoreData \/ SetInitialized
           \/ CrashWriter
  BY <1>4 DEF MarkOdd, StoreTag, StoreType, StoreData, SetInitialized,
              CrashWriter
<1> QED
  BY <1>1, <1>2, <1>3, <1>4 DEF WriterNext

LEMMA WriterOutcomeInv ==
  ASSUME OutcomeInv, WriterNext
  PROVE  OutcomeInv'
<1>1. result' = result
  BY DEF WriterNext, OpenWriter, BeginPublish, MarkOdd, StoreTag, StoreType,
         StoreData, SetInitialized, EndPublish, CrashWriter, reader
<1> QED
  BY <1>1 DEF OutcomeInv, SnapshotNotTorn, UndisturbedReadSucceeds,
              InvalidMeansOvertaken

(* A reader writes neither the memory nor the writer's state.              *)
LEMMA ReaderFrame ==
  ASSUME NEW r \in Readers, ReaderNext(r)
  PROVE  UNCHANGED <<memory, writer, latest>>
BY DEF ReaderNext, ReadStep, AttachReader, BeginRead, LoadBefore, Retry, Return,
       CheckInitialized, CopyTag, CopyType, CopyData, LoadAfter, history

LEMMA ReaderMemoryInv ==
  ASSUME ParityInv, MemoryInv, NEW r \in Readers, ReaderNext(r)
  PROVE  ParityInv' /\ MemoryInv'
BY ReaderFrame DEF ParityInv, MemoryInv, MemoryIs, SlotIs, TagIs, Publishing,
   memory, writer

(* What a finished turn leaves to prove: reader r has no read under way,   *)
(* and the other readers' locals are as before.                            *)
TurnEnds(r) ==
  /\ EndTurn(r)
  /\ \E label \in {"idle", "before"} : rpc' = [rpc EXCEPT ![r] = label]
  /\ created /\ UNCHANGED <<memory, writer, latest>>

LEMMA RetryEndsTurn ==
  ASSUME NEW r \in Readers, Retry(r)
  PROVE  /\ EndTurn(r)
         /\ \E label \in {"idle", "before"} : rpc' = [rpc EXCEPT ![r] = label]
BY DEF Retry, Return, Goto

LEMMA TurnEndsInv ==
  ASSUME TypeInv, CounterInv, CopyInv, NEW r \in Readers, TurnEnds(r)
  PROVE  CounterInv' /\ CopyInv'
<1>1. PICK label \in {"idle", "before"} : rpc' = [rpc EXCEPT ![r] = label]
  BY DEF TurnEnds
<1>2. rpc'[r] = label /\ \A q \in Readers \ {r} : rpc'[q] = rpc[q]
  BY <1>1 DEF TypeInv, TypeOK
<1>3. /\ before'[r] = 0 /\ lag'[r] = 0
      /\ \A q \in Readers \ {r} :
           /\ before'[q] = before[q] /\ lag'[q] = lag[q]
           /\ rslot'[q] = rslot[q] /\ rtag'[q] = rtag[q]
           /\ rtype'[q] = rtype[q] /\ rcopy'[q] = rcopy[q]
           /\ expected'[q] = expected[q]
  BY DEF TurnEnds, EndTurn, TypeInv, TypeOK
<1>4. CounterInv'
  BY <1>2, <1>3, ConstantFacts
     DEF TurnEnds, CounterInv, InRead, Publishing, memory, writer
<1>5. CopyInv'
  <2>1. UNCHANGED <<initialized, latest, marked>>
    BY DEF TurnEnds, memory, writer
  <2>2. \A q \in Readers : InRead(q)' => q \in Readers \ {r}
    BY <1>2 DEF InRead
  <2>3. \A q \in Readers \ {r} : InRead(q)' = InRead(q)
    BY <1>2 DEF InRead
  <2> QED
    BY <1>2, <1>3, <2>1, <2>2, <2>3 DEF CopyInv
<1> QED
  BY <1>4, <1>5

(* Every read starts on a region that exists.                              *)
LEMMA ReaderIsAttached ==
  ASSUME CounterInv, NEW r \in Readers, rpc[r] # "detached"
  PROVE  created
BY DEF CounterInv

LEMMA ReaderSeqlock ==
  ASSUME ~WeakOrder, TypeInv, ParityInv, MemoryInv, CounterInv, CopyInv,
         NEW r \in Readers, ReaderNext(r)
  PROVE  CounterInv' /\ CopyInv'
<1>0. TypeOK /\ UNCHANGED <<memory, writer, latest>>
  BY ReaderFrame DEF TypeInv
<1> USE ConstantFacts, <1>0
<1>1. CASE AttachReader(r)
  BY <1>1 DEF AttachReader, Goto, TypeOK, CounterInv, CopyInv, InRead,
              Publishing, memory, writer, history
<1>2. CASE BeginRead(r)
  BY <1>2 DEF BeginRead, Goto, TypeOK, CounterInv, CopyInv, InRead,
              Publishing, memory, writer
<1>3. CASE LoadBefore(r)
  <2>1. CASE Odd(generation)
    <3>1. TurnEnds(r)
      BY <1>3, <2>1, RetryEndsTurn, ReaderIsAttached DEF LoadBefore, TurnEnds
    <3> QED
      BY <3>1, TurnEndsInv
  <2>2. CASE ~Odd(generation)
    <3>1. /\ before' = [before EXCEPT ![r] = generation]
          /\ expected' = [expected EXCEPT ![r] = latest]
          /\ rpc' = [rpc EXCEPT ![r] = "initialized"]
          /\ UNCHANGED <<rslot, rtag, rtype, rcopy, lag>>
          /\ rpc[r] = "before"
      BY <1>3, <2>2 DEF LoadBefore, Goto
    <3>2. /\ ~marked /\ lag[r] = 0 /\ rslot[r] = 0
          /\ generation = WrappingAdd(generation, 0)
      <4>1. ~marked
        BY <2>2, WrappingAddParity DEF ParityInv, TypeOK
      <4>2. lag[r] = 0
        BY <3>1 DEF CounterInv, InRead
      <4>3. rslot[r] = 0
        BY <3>1 DEF TypeInv, LoopInv
      <4>4. generation = WrappingAdd(generation, 0)
        BY DEF WrappingAdd, Generations, TypeOK
      <4> QED
        BY <4>1, <4>2, <4>3, <4>4
    <3>3. CounterInv'
      BY <2>2, <3>1, <3>2
         DEF CounterInv, InRead, TypeOK, Publishing, memory, writer
    <3>4. CopyInv'
      BY <3>1, <3>2 DEF CopyInv, InRead, TypeOK, Slots, memory, writer
    <3> QED
      BY <3>3, <3>4
  <2> QED
    BY <2>1, <2>2
<1>4. CASE CheckInitialized(r)
  <2>1. CASE initialized
    <3>1. /\ rpc' = [rpc EXCEPT ![r] = "tag"]
          /\ UNCHANGED <<before, rslot, rtag, rtype, rcopy, expected, lag>>
          /\ rpc[r] = "initialized"
      BY <1>4, <2>1 DEF CheckInitialized, Goto
    <3>2. rpc'[r] = "tag" /\ \A q \in Readers \ {r} : rpc'[q] = rpc[q]
      BY <3>1 DEF TypeOK
    <3>3. CounterInv'
      BY <3>1, <3>2 DEF CounterInv, InRead, Publishing, memory, writer
    <3>4. CopyInv'
      BY <2>1, <3>1, <3>2 DEF CopyInv, InRead, memory, writer
    <3> QED
      BY <3>3, <3>4
  <2>2. CASE ~initialized
    <3>1. TurnEnds(r)
      BY <1>4, <2>2, ReaderIsAttached
         DEF CheckInitialized, Return, Goto, TurnEnds
    <3> QED
      BY <3>1, TurnEndsInv
  <2> QED
    BY <2>1, <2>2
<1>5. CASE CopyTag(r)
  <2>1. lag[r] = 0 /\ ~marked =>
          tag[rslot[r]] = [id |-> rslot[r], type |-> expected[r][rslot[r]].type]
    BY <1>5 DEF CopyTag, CopyInv, MemoryInv, MemoryIs, SlotIs, TagIs, InRead,
                TypeOK, ParityInv, Publishing
  <2>2. CounterInv'
    BY <1>5 DEF CopyTag, Goto, TypeOK, CounterInv, InRead, Publishing, memory,
                writer, history
  <2>3. CopyInv'
    BY <1>5, <2>1 DEF CopyTag, Goto, TypeOK, CopyInv, InRead, memory, writer,
                      history
  <2> QED
    BY <2>2, <2>3
<1>6. CASE CopyType(r)
  <2>1. lag[r] = 0 /\ ~marked =>
          vtype[rslot[r]] = expected[r][rslot[r]].type
    BY <1>6 DEF CopyType, CopyInv, MemoryInv, MemoryIs, SlotIs, TagIs, InRead,
                TypeOK, ParityInv, Publishing
  <2>2. CounterInv'
    BY <1>6 DEF CopyType, Goto, TypeOK, CounterInv, InRead, Publishing, memory,
                writer, history
  <2>3. CopyInv'
    BY <1>6, <2>1 DEF CopyType, Goto, TypeOK, CopyInv, InRead, memory, writer,
                      history
  <2> QED
    BY <2>2, <2>3
<1>7. CASE CopyData(r)
  <2> DEFINE k == rslot[r]
  <2>1. CASE Decodes(k, rtag[r], rtype[r])
    <3>1. /\ rcopy' = [rcopy EXCEPT ![r][k] = ReadAs(rtype[r], val[k])]
          /\ rslot' = [rslot EXCEPT ![r] = k + 1]
          /\ rpc' = [rpc EXCEPT ![r] = IF k + 1 = NumSlots THEN "after"
                                                           ELSE "tag"]
          /\ UNCHANGED <<before, rtag, rtype, expected, lag>>
          /\ rpc[r] = "data" /\ k \in Slots
      BY <1>7, <2>1 DEF CopyData, Goto, TypeOK
    <3>2. lag[r] = 0 /\ ~marked =>
            /\ ReadAs(rtype[r], val[k]) = val[k]
            /\ val[k] = expected[r][k]
      <4> SUFFICES ASSUME lag[r] = 0, ~marked
                   PROVE  /\ ReadAs(rtype[r], val[k]) = val[k]
                          /\ val[k] = expected[r][k]
        OBVIOUS
      <4>1. /\ expected[r] = latest /\ latest # NoSnapshot
            /\ rtype[r] = expected[r][k].type
        BY <3>1 DEF CopyInv, InRead, MemoryInv, ParityInv, Publishing
      <4>2. val[k] = expected[r][k]
        BY <3>1, <4>1 DEF MemoryInv, MemoryIs, SlotIs
      <4>3. val[k] \in Value
        BY <3>1 DEF TypeOK
      <4> QED
        BY <4>1, <4>2, <4>3 DEF ReadAs, Value
    <3>3. CounterInv'
      BY <3>1 DEF TypeOK, CounterInv, InRead, Publishing, memory, writer
    <3>4. /\ rcopy'[r][k] = ReadAs(rtype[r], val[k])
          /\ \A j \in Slots \ {k} : rcopy'[r][j] = rcopy[r][j]
          /\ \A q \in Readers \ {r} : rcopy'[q] = rcopy[q]
          /\ rslot'[r] = k + 1
          /\ \A q \in Readers \ {r} : rslot'[q] = rslot[q]
          /\ rpc'[r] \in {"after", "tag"}
          /\ rpc'[r] = "after" => k + 1 = NumSlots
          /\ \A q \in Readers \ {r} : rpc'[q] = rpc[q]
      BY <3>1 DEF TypeOK
    <3>5. \A j \in Slots : j < k + 1 => j < k \/ j = k
      BY <3>1 DEF Slots
    <3>6. CopyInv'
      <4>1. ASSUME NEW q \in Readers, q # r PROVE CopyInv!(q)'
        <5>1. /\ CopyInv!(q)
              /\ rpc'[q] = rpc[q] /\ rslot'[q] = rslot[q] /\ rcopy'[q] = rcopy[q]
          BY <3>4, <4>1 DEF CopyInv
        <5>2. /\ rtag' = rtag /\ rtype' = rtype /\ expected' = expected /\ lag' = lag
              /\ latest' = latest /\ initialized' = initialized /\ marked' = marked
          BY <1>7, <3>1 DEF CopyData, memory, writer
        <5> QED
          BY <5>1, <5>2 DEF InRead
      <4>2. initialized
        BY <3>1 DEF CopyInv, InRead
      <4>3. ASSUME lag[r] = 0, ~marked, NEW j \in Slots, j < k + 1
            PROVE  rcopy'[r][j] = expected[r][j]
        BY <3>1, <3>2, <3>4, <3>5, <4>3 DEF CopyInv, InRead
      <4>4. lag[r] = 0 => expected[r] = latest
        BY <3>1 DEF CopyInv, InRead
      <4>5. CopyInv!(r)'
        BY <3>1, <3>4, <4>2, <4>3, <4>4 DEF memory, writer
      <4> QED
        BY <4>1, <4>5 DEF CopyInv
    <3> QED
      BY <3>3, <3>6
  <2>2. CASE ~Decodes(k, rtag[r], rtype[r])
    <3>1. TurnEnds(r)
      BY <1>7, <2>2, ReaderIsAttached DEF CopyData, Return, Goto, TurnEnds
    <3> QED
      BY <3>1, TurnEndsInv
  <2> QED
    BY <2>1, <2>2
<1>8. CASE LoadAfter(r)
  <2>1. TurnEnds(r)
    BY <1>8, RetryEndsTurn, ReaderIsAttached
       DEF LoadAfter, Return, Goto, TurnEnds
  <2> QED
    BY <2>1, TurnEndsInv
<1> QED
  BY <1>1, <1>2, <1>3, <1>4, <1>5, <1>6, <1>7, <1>8 DEF ReaderNext, ReadStep

LEMMA ReaderQuietInv ==
  ASSUME TypeInv, CounterInv, QuietInv, NEW r \in Readers, ReaderNext(r)
  PROVE  QuietInv'
<1>0. /\ quiet \in [Readers -> BOOLEAN] /\ lag \in [Readers -> Nat]
      /\ rpc \in [Readers -> {"detached", "idle", "before", "initialized",
                             "tag", "type", "data", "after"}]
      /\ UNCHANGED <<memory, writer, latest>>
  BY ReaderFrame DEF TypeInv, TypeOK
<1> USE <1>0
    DEF QuietInv, Publishing, Goto, history, memory, writer
<1>1. CASE AttachReader(r)
  BY <1>1 DEF AttachReader
<1>2. CASE BeginRead(r)
  BY <1>2 DEF BeginRead, CounterInv, InRead, TypeInv, TypeOK
<1>3. ASSUME ReadStep(r)
      PROVE  /\ quiet' = quiet /\ rpc[r] \notin {"detached", "idle"}
             /\ lag'[r] \in {lag[r], 0}
             /\ \A q \in Readers \ {r} : rpc'[q] = rpc[q] /\ lag'[q] = lag[q]
  BY <1>3 DEF ReadStep, LoadBefore, CheckInitialized, CopyTag, CopyType,
              CopyData, LoadAfter, Retry, Return, EndTurn
<1>4. CASE ReadStep(r)
  BY <1>3, <1>4
<1> QED
  BY <1>1, <1>2, <1>4 DEF ReaderNext

(* A counter that has not moved since the even load: nothing was published *)
(* and nothing is being published.                                         *)
LEMMA SameGeneration ==
  ASSUME TypeInv, ParityInv, CounterInv, CopyInv, NEW r \in Readers, InRead(r),
         generation = before[r]
  PROVE  ~marked /\ lag[r] = 0 /\ expected[r] = latest
<1>1. ~marked
  <2>1. marked => Odd(generation)
    BY WrappingAddParity DEF ParityInv, Publishing, TypeInv, TypeOK
  <2> QED
    BY <2>1 DEF CounterInv
<1>2. lag[r] = 0
  <2>1. /\ lag[r] \in Nat /\ generation \in Generations
        /\ generation = WrappingAdd(generation, 2 * lag[r])
        /\ 2 * lag[r] \in Nat /\ 2 * lag[r] < GenModulus
    BY <1>1 DEF CounterInv, TypeInv, TypeOK
  <2>2. 2 * lag[r] = 0
    BY <2>1, WrappingAddReturns
  <2> QED
    BY <2>1, <2>2
<1> QED
  BY <1>1, <1>2 DEF CopyInv

(* In that case the words just copied decode.                              *)
LEMMA SameGenerationDecodes ==
  ASSUME TypeInv, ParityInv, CounterInv, CopyInv, NEW r \in Readers,
         rpc[r] = "data", ~marked, lag[r] = 0
  PROVE  Decodes(rslot[r], rtag[r], rtype[r])
<1>1. /\ rtag[r] = [id |-> rslot[r], type |-> expected[r][rslot[r]].type]
      /\ rtype[r] = expected[r][rslot[r]].type
  BY DEF CopyInv, InRead
<1>2. rtag[r].id = rslot[r] /\ rtag[r].type = rtype[r]
  BY <1>1
<1> QED
  BY <1>2 DEF Decodes

(* And once every slot is copied, the copy is the last publication.        *)
LEMMA SameGenerationCopy ==
  ASSUME TypeInv, ParityInv, MemoryInv, CounterInv, CopyInv, NEW r \in Readers,
         rpc[r] = "after", ~marked, lag[r] = 0
  PROVE  rcopy[r] = latest /\ expected[r] = latest /\ latest # NoSnapshot
<1>1. /\ expected[r] = latest /\ latest # NoSnapshot
  BY DEF CopyInv, InRead, MemoryInv, ParityInv, Publishing
<1>2. \A k \in Slots : rcopy[r][k] = latest[k]
  <2>1. /\ rslot[r] = NumSlots
        /\ \A k \in Slots : k < rslot[r] => rcopy[r][k] = expected[r][k]
    BY DEF CopyInv, InRead
  <2>2. \A k \in Slots : k < NumSlots
    BY ConstantFacts DEF Slots
  <2> QED
    BY <1>1, <2>1, <2>2
<1>3. latest \in [Slots -> Value] /\ rcopy[r] \in [Slots -> Value]
  BY <1>1, SharedRegionAssumption DEF SharedRegionAssumption, TypeInv, TypeOK
<1> QED
  BY <1>1, <1>2, <1>3

(* What a step of reader r may do to the outcome of its read.              *)
ReadEnds(r) ==
  \/ UNCHANGED result
  \/ result' = [result EXCEPT ![r] = NoOutcome]
  \/ /\ result' = [result EXCEPT ![r] = Outcome(r, "ok", latest)]
     /\ expected[r] = latest /\ latest # NoSnapshot
  \/ /\ result' = [result EXCEPT ![r] = Outcome(r, "uninitialized", NoSnapshot)]
     /\ expected[r] = NoSnapshot \/ ~quiet[r]
     /\ latest = NoSnapshot
  \/ /\ result' = [result EXCEPT ![r] = Outcome(r, "busy", NoSnapshot)]
     /\ ~quiet[r]
  \/ /\ result' = [result EXCEPT ![r] = Outcome(r, "invalid", NoSnapshot)]
     /\ ~quiet[r] /\ generation # before[r]

LEMMA QuietGeneration ==
  ASSUME TypeInv, ParityInv, CounterInv, QuietInv, NEW r \in Readers, quiet[r],
         rpc[r] \notin {"detached", "idle"}
  PROVE  /\ ~Odd(generation) /\ ~marked /\ lag[r] = 0
         /\ InRead(r) => generation = before[r]
<1>1. ~marked /\ lag[r] = 0 /\ ~Odd(generation)
  BY DEF QuietInv, ParityInv
<1>2. ASSUME InRead(r) PROVE generation = before[r]
  <2>1. generation = WrappingAdd(before[r], 0) /\ before[r] \in Generations
    BY <1>1, <1>2 DEF CounterInv, TypeInv, TypeOK
  <2> QED
    BY <2>1, ConstantFacts DEF WrappingAdd, Generations
<1> QED
  BY <1>1, <1>2

LEMMA ReadOutcome ==
  ASSUME TypeInv, ParityInv, MemoryInv, CounterInv, CopyInv, QuietInv,
         NEW r \in Readers, ReaderNext(r)
  PROVE  ReadEnds(r)
<1>1. CASE AttachReader(r) \/ BeginRead(r) \/ CopyTag(r) \/ CopyType(r)
  BY <1>1 DEF AttachReader, BeginRead, CopyTag, CopyType, ReadEnds
<1>2. ASSUME Retry(r), ~quiet[r] PROVE ReadEnds(r)
  BY <1>2 DEF Retry, Return, ReadEnds
<1>3. CASE LoadBefore(r)
  BY <1>2, <1>3, QuietGeneration DEF LoadBefore, ReadEnds
<1>4. CASE CheckInitialized(r)
  <2>1. latest # NoSnapshot => initialized
    BY DEF MemoryInv
  <2>2. InRead(r) /\ (quiet[r] => expected[r] = latest)
    BY <1>4, QuietGeneration DEF CheckInitialized, InRead, CopyInv
  <2> QED
    BY <1>4, <2>1, <2>2 DEF CheckInitialized, Return, ReadEnds
<1>5. CASE CopyData(r)
  <2>1. rpc[r] = "data" /\ InRead(r)
    BY <1>5 DEF CopyData, InRead
  <2>2. CASE Decodes(rslot[r], rtag[r], rtype[r])
    BY <1>5, <2>2 DEF CopyData, ReadEnds
  <2>3. CASE ~Decodes(rslot[r], rtag[r], rtype[r])
    <3>1. generation # before[r]
      BY <2>1, <2>3, SameGeneration, SameGenerationDecodes
    <3>2. ~quiet[r]
      BY <2>1, <3>1, QuietGeneration
    <3> QED
      BY <1>5, <2>3, <3>1, <3>2 DEF CopyData, Return, ReadEnds
  <2> QED
    BY <2>2, <2>3
<1>6. CASE LoadAfter(r)
  <2>1. rpc[r] = "after" /\ InRead(r)
    BY <1>6 DEF LoadAfter, InRead
  <2>2. CASE generation = before[r] /\ ~Odd(generation)
    <3>1. rcopy[r] = latest /\ expected[r] = latest /\ latest # NoSnapshot
      BY <2>1, <2>2, SameGeneration, SameGenerationCopy
    <3> QED
      BY <1>6, <2>2, <3>1 DEF LoadAfter, Return, ReadEnds
  <2>3. CASE ~(generation = before[r] /\ ~Odd(generation))
    BY <1>2, <1>6, <2>1, <2>3, QuietGeneration DEF LoadAfter
  <2> QED
    BY <2>2, <2>3
<1> QED
  BY <1>1, <1>3, <1>4, <1>5, <1>6 DEF ReaderNext, ReadStep

LEMMA OutcomeFields ==
  ASSUME TypeInv, NEW r \in Readers, NEW kind, NEW snap
  PROVE  /\ Outcome(r, kind, snap).kind = kind
         /\ Outcome(r, kind, snap).snap = snap
         /\ Outcome(r, kind, snap).current = expected[r]
         /\ Outcome(r, kind, snap).quiet <=> quiet[r]
         /\ Outcome(r, kind, snap).moved <=> generation # before[r]
<1>1. quiet[r] \in BOOLEAN
  BY DEF TypeInv, TypeOK
<1>2. Outcome(r, kind, snap).quiet <=> quiet[r]
  BY <1>1 DEF Outcome
<1>3. Outcome(r, kind, snap).moved <=> generation # before[r]
  BY DEF Outcome
<1> QED
  BY <1>2, <1>3 DEF Outcome

LEMMA ReaderOutcomeInv ==
  ASSUME TypeInv, OutcomeInv, NEW r \in Readers, ReadEnds(r)
  PROVE  OutcomeInv'
<1>1. \A q \in Readers \ {r} : result'[q] = result[q]
  BY DEF ReadEnds, TypeInv, TypeOK
<1>2. result \in [Readers -> Results]
  BY DEF TypeInv, TypeOK
<1>3. \/ result'[r] = result[r]
      \/ result'[r] = NoOutcome
      \/ result'[r] = Outcome(r, "ok", latest) /\ expected[r] = latest
         /\ latest # NoSnapshot
      \/ result'[r] = Outcome(r, "uninitialized", NoSnapshot)
         /\ (expected[r] = NoSnapshot \/ ~quiet[r])
      \/ result'[r] = Outcome(r, "busy", NoSnapshot) /\ ~quiet[r]
      \/ result'[r] = Outcome(r, "invalid", NoSnapshot) /\ ~quiet[r]
         /\ generation # before[r]
  BY <1>2 DEF ReadEnds
<1>4. result'[r].kind = "ok" =>
        result'[r].snap = result'[r].current /\ result'[r].snap # NoSnapshot
  BY <1>3, OutcomeFields DEF OutcomeInv, SnapshotNotTorn, NoOutcome
<1>5. result'[r].quiet =>
        \/ result'[r].kind = "ok"
        \/ result'[r].kind = "uninitialized" /\ result'[r].current = NoSnapshot
  BY <1>3, OutcomeFields DEF OutcomeInv, UndisturbedReadSucceeds, NoOutcome
<1>6. result'[r].kind = "invalid" => result'[r].moved
  BY <1>3, OutcomeFields DEF OutcomeInv, InvalidMeansOvertaken, NoOutcome
<1>7. SnapshotNotTorn'
  BY <1>1, <1>4 DEF OutcomeInv, SnapshotNotTorn
<1>8. UndisturbedReadSucceeds'
  BY <1>1, <1>5 DEF OutcomeInv, UndisturbedReadSucceeds
<1>9. InvalidMeansOvertaken'
  BY <1>1, <1>6 DEF OutcomeInv, InvalidMeansOvertaken
<1> QED
  BY <1>7, <1>8, <1>9 DEF OutcomeInv

LEMMA SeqlockInvStep ==
  ASSUME ~WeakOrder, SeqlockInv, [Next]_vars
  PROVE  SeqlockInv'
<1> USE DEF SeqlockInv
<1>1. TypeInv'
  BY TypeInvStep
<1>2. CASE WriterNext
  BY <1>1, <1>2, WriterParityInv, WriterMemoryInv, WriterCounterInv,
     WriterCopyInv, WriterQuietInv, WriterOutcomeInv
<1>3. ASSUME NEW r \in Readers, ReaderNext(r) PROVE SeqlockInv'
  BY <1>1, <1>3, ReaderMemoryInv, ReaderSeqlock, ReaderQuietInv, ReadOutcome,
     ReaderOutcomeInv
<1>4. CASE UNCHANGED vars
  BY <1>1, <1>4
     DEF vars, memory, writer, reader, history, ParityInv, MemoryInv, MemoryIs,
         SlotIs, TagIs, CounterInv, CopyInv, QuietInv, OutcomeInv, InRead,
         Publishing, SnapshotNotTorn, UndisturbedReadSucceeds,
         InvalidMeansOvertaken
<1> QED
  BY <1>2, <1>3, <1>4 DEF Next

LEMMA SeqlockInductive ==
  ASSUME ~WeakOrder
  PROVE  Spec => []SeqlockInv
<1>1. SeqlockInv /\ [Next]_vars => SeqlockInv'
  BY SeqlockInvStep
<1> QED
  BY <1>1, InitSeqlockInv, PTL DEF Spec

(* When stores become visible in order, no read ever returns a mixture of  *)
(* two publications or a snapshot that was replaced while it was copied.   *)
THEOREM NeverTorn ==
  ASSUME ~WeakOrder
  PROVE  Spec => []SnapshotNotTorn
<1>1. SeqlockInv => SnapshotNotTorn
  BY DEF SeqlockInv, OutcomeInv
<1> QED
  BY <1>1, SeqlockInductive, PTL

(* A read beside which no publication runs succeeds, unless nothing was    *)
(* ever published.                                                         *)
THEOREM UndisturbedSucceeds ==
  ASSUME ~WeakOrder
  PROVE  Spec => []UndisturbedReadSucceeds
<1>1. SeqlockInv => UndisturbedReadSucceeds
  BY DEF SeqlockInv, OutcomeInv
<1> QED
  BY <1>1, SeqlockInductive, PTL

(* An Invalid error always hides a copy that a retry would have thrown     *)
(* away: the counter moved under it.                                       *)
THEOREM InvalidIsOvertaken ==
  ASSUME ~WeakOrder
  PROVE  Spec => []InvalidMeansOvertaken
<1>1. SeqlockInv => InvalidMeansOvertaken
  BY DEF SeqlockInv, OutcomeInv
<1> QED
  BY <1>1, SeqlockInductive, PTL

-----------------------------------------------------------------------------
(* The region implements the register.                                     *)

View == [r \in Readers |-> [kind |-> result[r].kind, snap |-> result[r].snap]]

LEMMA WriterPublishes ==
  ASSUME TypeInv, WriterNext
  PROVE  /\ View' = View
         /\ latest' = latest \/ \E s \in Snapshots : latest' = s
<1>1. result' = result
  BY DEF WriterNext, OpenWriter, BeginPublish, MarkOdd, StoreTag, StoreType,
         StoreData, SetInitialized, EndPublish, CrashWriter, reader
<1>2. CASE EndPublish
  <2>1. wsnap \in Snapshots /\ latest' = wsnap
    BY <1>2 DEF EndPublish, TypeInv, TypeOK
  <2> QED
    BY <1>1, <2>1 DEF View
<1>3. CASE ~EndPublish
  <2>1. latest' = latest
    BY <1>3 DEF WriterNext, OpenWriter, BeginPublish, MarkOdd, StoreTag,
                StoreType, StoreData, SetInitialized, CrashWriter, history
  <2> QED
    BY <1>1, <2>1 DEF View
<1> QED
  BY <1>2, <1>3

LEMMA ReaderReturns ==
  ASSUME TypeInv, NEW r \in Readers, ReadEnds(r), UNCHANGED latest
  PROVE  [Register!Next]_(Register!vars)
<1>1. result \in [Readers -> Results]
  BY DEF TypeInv, TypeOK
<1>2. ASSUME NEW o, result' = [result EXCEPT ![r] = o]
      PROVE  View' = [View EXCEPT ![r] = [kind |-> o.kind, snap |-> o.snap]]
  BY <1>1, <1>2 DEF View
<1> USE DEF Register!Next, Register!vars, Register!Return, Register!Outcome,
            Register!BeginRead, Register!ReadCurrent,
            Register!ReadUninitialized, Register!GiveUp
<1>3. CASE UNCHANGED result
  BY <1>3
<1>4. CASE result' = [result EXCEPT ![r] = NoOutcome]
  <2> DEFINE o == NoOutcome
  <2>1. View' = [View EXCEPT ![r] = [kind |-> o.kind, snap |-> o.snap]]
    BY <1>2, <1>4
  <2>2. o.kind = "none" /\ o.snap = NoSnapshot
    BY DEF NoOutcome
  <2> HIDE DEF o
  <2>3. View' = [View EXCEPT ![r] = [kind |-> "none", snap |-> NoSnapshot]]
    BY <2>1, <2>2
  <2> QED
    BY <1>4, <2>3 DEF View
<1>5. CASE /\ result' = [result EXCEPT ![r] = Outcome(r, "ok", latest)]
           /\ latest # NoSnapshot
  <2> DEFINE o == Outcome(r, "ok", latest)
  <2>1. View' = [View EXCEPT ![r] = [kind |-> o.kind, snap |-> o.snap]]
    BY <1>2, <1>5
  <2>2. o.kind = "ok" /\ o.snap = latest
    BY OutcomeFields
  <2> HIDE DEF o
  <2>3. View' = [View EXCEPT ![r] = [kind |-> "ok", snap |-> latest]]
    BY <2>1, <2>2
  <2> QED
    BY <1>5, <2>3 DEF View
<1>6. CASE /\ result' = [result EXCEPT
                           ![r] = Outcome(r, "uninitialized", NoSnapshot)]
           /\ latest = NoSnapshot
  <2> DEFINE o == Outcome(r, "uninitialized", NoSnapshot)
  <2>1. View' = [View EXCEPT ![r] = [kind |-> o.kind, snap |-> o.snap]]
    BY <1>2, <1>6
  <2>2. o.kind = "uninitialized" /\ o.snap = NoSnapshot
    BY OutcomeFields
  <2> HIDE DEF o
  <2>3. View' = [View EXCEPT ![r] = [kind |-> "uninitialized", snap |-> NoSnapshot]]
    BY <2>1, <2>2
  <2> QED
    BY <1>6, <2>3 DEF View
<1>7. ASSUME NEW kind \in {"busy", "invalid"},
             result' = [result EXCEPT ![r] = Outcome(r, kind, NoSnapshot)]
      PROVE  Register!GiveUp(r)
  <2> DEFINE o == Outcome(r, kind, NoSnapshot)
  <2>1. View' = [View EXCEPT ![r] = [kind |-> o.kind, snap |-> o.snap]]
    BY <1>2, <1>7
  <2>2. o.kind = kind /\ o.snap = NoSnapshot
    BY OutcomeFields
  <2> HIDE DEF o
  <2>3. View' = [View EXCEPT ![r] = [kind |-> kind, snap |-> NoSnapshot]]
    BY <2>1, <2>2
  <2> QED
    BY <1>7, <2>3 DEF View
<1> QED
  BY <1>3, <1>4, <1>5, <1>6, <1>7 DEF ReadEnds

LEMMA RegisterStep ==
  ASSUME ~WeakOrder, SeqlockInv, [Next]_vars
  PROVE  [Register!Next]_(Register!vars)
<1>1. CASE WriterNext
  BY <1>1, WriterPublishes
     DEF SeqlockInv, View, Register!Next, Register!vars, Register!Publish
<1>2. ASSUME NEW r \in Readers, ReaderNext(r)
      PROVE  [Register!Next]_(Register!vars)
  BY <1>2, ReaderFrame, ReadOutcome, ReaderReturns DEF SeqlockInv
<1>3. CASE UNCHANGED vars
  BY <1>3 DEF vars, reader, history, Register!vars
<1> QED
  BY <1>1, <1>2, <1>3 DEF Next

(* When stores become visible in order, a channel behaves as a register:   *)
(* publications and successful reads are single steps, and a read returns  *)
(* what is current when it returns.                                        *)
THEOREM ImplementsRegister ==
  ASSUME ~WeakOrder
  PROVE  Spec => RegisterSpec
<1>1. Init => Register!Init
  BY DEF Init, Register!Init, Register!Outcome, NoOutcome
<1>2. SeqlockInv /\ [Next]_vars => [Register!Next]_(Register!vars)
  BY RegisterStep
<1> QED
  BY <1>1, <1>2, SeqlockInductive, PTL DEF Spec, RegisterSpec, Register!Spec

-----------------------------------------------------------------------------
(* Slots of fixed types, whatever the order in which stores become visible.*)

TypeOfSlot(k) == CHOOSE type \in Types : \E s \in Snapshots : s[k].type = type

TagTyped(k) == tag[k] = [id |-> k, type |-> TypeOfSlot(k)]
SlotTyped(k) ==
  /\ TagTyped(k) /\ vtype[k] = TypeOfSlot(k) /\ val[k].type = TypeOfSlot(k)

(* From the first store of "initialized" on every slot is of its type, and *)
(* publications only ever replace it by one of the same type.              *)
TypedMemory ==
  /\ wpc = "closed" => ~created /\ ~initialized
  /\ ~created => \A r \in Readers : rpc[r] = "detached"
  /\ initialized \/ wpc \in {"initializing", "ending"} =>
       \A k \in Slots : SlotTyped(k)
  /\ wpc = "storing" =>
       /\ \A k \in Slots : k < wslot => SlotTyped(k)
       /\ wword # "tag" => TagTyped(wslot)
       /\ wword = "data" => vtype[wslot] = TypeOfSlot(wslot)

(* What reader r has copied of a slot is of the slot's type.               *)
TypedCopy(r) ==
  /\ rpc[r] \in {"tag", "type", "data", "after"} => initialized
  /\ rpc[r] \in {"type", "data"} =>
       rtag[r] = [id |-> rslot[r], type |-> TypeOfSlot(rslot[r])]
  /\ rpc[r] = "data" => rtype[r] = TypeOfSlot(rslot[r])
  /\ ~misread[r]
  /\ result[r].kind # "invalid"

TypedInv == TypedMemory /\ \A r \in Readers : TypedCopy(r)

LEMMA TypeOfSlotIs ==
  ASSUME FixedTypes, NEW s \in Snapshots, NEW k \in Slots
  PROVE  s[k].type = TypeOfSlot(k) /\ s[k] \in Value
<1>1. s \in [Slots -> Value]
  BY SharedRegionAssumption DEF SharedRegionAssumption
<1>2. s[k] \in Value /\ s[k].type \in Types
  BY <1>1 DEF Value
<1>3. \E type \in Types : \E t \in Snapshots : t[k].type = type
  BY <1>2
<1>4. \E t \in Snapshots : t[k].type = TypeOfSlot(k)
  BY <1>3 DEF TypeOfSlot
<1> QED
  BY <1>2, <1>4 DEF FixedTypes

LEMMA WriterTyped ==
  ASSUME FixedTypes, TypeInv, TypedInv, WriterNext
  PROVE  TypedInv'
<1> USE ConstantFacts
<1>0. /\ TypeOK /\ UNCHANGED reader
      /\ UNCHANGED misread
  BY DEF WriterNext, OpenWriter, BeginPublish, MarkOdd, StoreTag, StoreType,
         StoreData, SetInitialized, EndPublish, CrashWriter, TypeInv, history
<1>1. initialized => initialized' \/ OpenWriter
  BY DEF WriterNext, BeginPublish, MarkOdd, StoreTag, StoreType, StoreData,
         SetInitialized, EndPublish, CrashWriter, memory
<1>2. created => created'
  BY DEF WriterNext, OpenWriter, BeginPublish, MarkOdd, StoreTag, StoreType,
         StoreData, SetInitialized, EndPublish, CrashWriter, memory
<1>3. ASSUME NEW r \in Readers
      PROVE  TypedCopy(r)'
  <2>1. OpenWriter => rpc[r] = "detached"
    BY DEF OpenWriter, TypedInv, TypedMemory
  <2> QED
    BY <1>0, <1>1, <2>1 DEF TypedInv, TypedCopy, reader
<1>4. ~created' => \A r \in Readers : rpc'[r] = "detached"
  BY <1>0, <1>2 DEF TypedInv, TypedMemory, reader
<1>5. TypedMemory'
  <2>1. CASE OpenWriter
    BY <1>4, <2>1 DEF OpenWriter, TypedMemory
  <2>2. CASE \E s \in Snapshots : BeginPublish(s)
    <3>1. \A k \in Slots : ~(k < 0)
      BY DEF Slots
    <3> QED
      BY <1>4, <2>2, <3>1
         DEF BeginPublish, TypedInv, TypedMemory, SlotTyped, TagTyped, memory
  <2>3. CASE MarkOdd \/ CrashWriter
    BY <1>4, <2>3
       DEF MarkOdd, CrashWriter, TypedInv, TypedMemory, SlotTyped, TagTyped, memory
  <2>4. CASE StoreTag \/ StoreType
    <3>1. /\ wpc = "storing" /\ wslot \in Slots /\ wsnap \in Snapshots
          /\ wpc' = wpc /\ wslot' = wslot /\ UNCHANGED <<created, initialized, val>>
      BY <1>0, <2>4 DEF StoreTag, StoreType, TypeOK
    <3>2. wsnap[wslot].type = TypeOfSlot(wslot)
      BY <3>1, TypeOfSlotIs
    <3>3. \A k \in Slots : SlotTyped(k) => SlotTyped(k)'
      BY <1>0, <2>4, <3>1, <3>2
         DEF StoreTag, StoreType, TypeOK, SlotTyped, TagTyped
    <3>4. TagTyped(wslot)' /\ (wword' = "data" => vtype'[wslot] = TypeOfSlot(wslot))
      BY <1>0, <2>4, <3>1, <3>2
         DEF StoreTag, StoreType, TypeOK, TagTyped, TypedInv, TypedMemory
    <3> QED
      BY <1>4, <3>1, <3>3, <3>4 DEF TypedInv, TypedMemory, TagTyped
  <2>5. CASE StoreData
    <3>1. /\ wpc = "storing" /\ wslot \in Slots /\ wsnap \in Snapshots
          /\ wword = "data" /\ wword' = "tag" /\ wslot' = wslot + 1
          /\ wpc' = IF wslot + 1 = NumSlots THEN "initializing" ELSE "storing"
          /\ val' = [val EXCEPT ![wslot] = wsnap[wslot]]
          /\ UNCHANGED <<created, initialized, tag, vtype>>
      BY <1>0, <2>5 DEF StoreData, TypeOK
    <3>2. wsnap[wslot].type = TypeOfSlot(wslot)
      BY <3>1, TypeOfSlotIs
    <3>3. \A k \in Slots : SlotTyped(k) => SlotTyped(k)'
      BY <1>0, <3>1, <3>2 DEF TypeOK, SlotTyped, TagTyped
    <3>4. \A k \in Slots : k = wslot => SlotTyped(k)'
      BY <1>0, <3>1, <3>2 DEF TypeOK, SlotTyped, TagTyped, TypedInv, TypedMemory
    <3>5. \A k \in Slots : k < wslot => SlotTyped(k)
      BY <3>1 DEF TypedInv, TypedMemory
    <3>6. \A k \in Slots : k < wslot + 1 => k < wslot \/ k = wslot
      BY <3>1 DEF Slots
    <3>7. wslot + 1 = NumSlots => \A k \in Slots : k < wslot + 1
      BY DEF Slots
    <3> QED
      BY <1>4, <3>1, <3>3, <3>4, <3>5, <3>6, <3>7 DEF TypedInv, TypedMemory
  <2>6. CASE SetInitialized \/ EndPublish
    <3>1. /\ wpc \in {"initializing", "ending"} /\ wpc' \in {"ending", "ready"}
          /\ UNCHANGED <<created, tag, vtype, val>>
      BY <2>6 DEF SetInitialized, EndPublish
    <3> QED
      BY <1>4, <3>1 DEF TypedInv, TypedMemory, SlotTyped, TagTyped
  <2> QED
    BY <2>1, <2>2, <2>3, <2>4, <2>5, <2>6 DEF WriterNext
<1> QED
  BY <1>3, <1>5 DEF TypedInv

LEMMA ReaderTyped ==
  ASSUME FixedTypes, TypeInv, TypedInv, NEW r \in Readers, ReaderNext(r)
  PROVE  TypedInv'
<1>0. TypeOK /\ UNCHANGED <<memory, writer>>
  BY ReaderFrame DEF TypeInv
<1>1. \A q \in Readers \ {r} :
        /\ rpc'[q] = rpc[q] /\ rtag'[q] = rtag[q] /\ rslot'[q] = rslot[q]
        /\ rtype'[q] = rtype[q] /\ misread'[q] = misread[q]
        /\ result'[q] = result[q]
  BY <1>0 DEF ReaderNext, AttachReader, BeginRead, ReadStep, LoadBefore, Retry,
              Return, EndTurn, CheckInitialized, CopyTag, CopyType, CopyData,
              LoadAfter, Goto, TypeOK, history
<1>2. \A q \in Readers \ {r} : TypedCopy(q)'
  BY <1>0, <1>1 DEF TypedInv, TypedCopy, memory
<1>3. created /\ TypedMemory'
  <2>1. created
    BY DEF ReaderNext, AttachReader, BeginRead, ReadStep, LoadBefore,
           CheckInitialized, CopyTag, CopyType, CopyData, LoadAfter, TypedInv,
           TypedMemory
  <2> QED
    BY <1>0, <2>1 DEF TypedInv, TypedMemory, SlotTyped, TagTyped, memory, writer
<1>4. TypedCopy(r)
  BY DEF TypedInv
<1>5. ASSUME NEW kind, NEW snap, Return(r, kind, snap), kind # "invalid",
             misread' = misread
      PROVE  TypedCopy(r)'
  BY <1>0, <1>4, <1>5 DEF Return, Goto, Outcome, TypedCopy, TypeOK
<1>6. ASSUME Retry(r), misread' = misread
      PROVE  TypedCopy(r)'
  <2>1. CASE attempts[r] + 1 = MaxSpins
    BY <1>5, <1>6, <2>1 DEF Retry
  <2>2. CASE attempts[r] + 1 # MaxSpins
    BY <1>0, <1>4, <1>6, <2>2 DEF Retry, Goto, TypedCopy, TypeOK
  <2> QED
    BY <2>1, <2>2
<1>7. TypedCopy(r)'
  <2>1. CASE AttachReader(r) \/ BeginRead(r)
    BY <1>0, <1>4, <2>1
       DEF AttachReader, BeginRead, Goto, TypedCopy, TypeOK, NoOutcome, history
  <2>2. CASE LoadBefore(r)
    <3>1. CASE Odd(generation)
      BY <1>6, <2>2, <3>1 DEF LoadBefore
    <3>2. CASE ~Odd(generation)
      BY <1>0, <1>4, <2>2, <3>2 DEF LoadBefore, Goto, TypedCopy, TypeOK
    <3> QED
      BY <3>1, <3>2
  <2>3. CASE CheckInitialized(r)
    <3>1. CASE initialized
      BY <1>0, <1>4, <2>3, <3>1 DEF CheckInitialized, Goto, TypedCopy, TypeOK, memory
    <3>2. CASE ~initialized
      BY <1>5, <2>3, <3>2 DEF CheckInitialized
    <3> QED
      BY <3>1, <3>2
  <2>4. CASE CopyTag(r) \/ CopyType(r) \/ CopyData(r)
    <3>1. rslot[r] \in Slots /\ initialized
      BY <1>0, <1>4, <2>4 DEF CopyTag, CopyType, CopyData, TypeOK, TypedCopy
    <3>2. SlotTyped(rslot[r])
      BY <3>1 DEF TypedInv, TypedMemory
    <3>3. CASE CopyTag(r) \/ CopyType(r)
      BY <1>0, <1>4, <3>1, <3>2, <3>3
         DEF CopyTag, CopyType, Goto, TypedCopy, TypeOK, SlotTyped, TagTyped,
             history, memory
    <3>4. CASE CopyData(r)
      <4>1. Decodes(rslot[r], rtag[r], rtype[r]) /\ val[rslot[r]].type = rtype[r]
        BY <1>4, <3>2, <3>4 DEF CopyData, TypedCopy, Decodes, SlotTyped
      <4>2. /\ misread' = misread /\ result' = result
            /\ Goto(r, IF rslot[r] + 1 = NumSlots THEN "after" ELSE "tag")
        BY <3>4, <4>1 DEF CopyData
      <4>3. rpc'[r] \in {"after", "tag"}
        BY <1>0, <4>2 DEF Goto, TypeOK
      <4> QED
        BY <1>0, <1>4, <3>1, <4>2, <4>3 DEF TypedCopy, memory
    <3> QED
      BY <2>4, <3>3, <3>4
  <2>5. CASE LoadAfter(r)
    BY <1>5, <1>6, <2>5 DEF LoadAfter
  <2> QED
    BY <2>1, <2>2, <2>3, <2>4, <2>5 DEF ReaderNext, ReadStep
<1> QED
  BY <1>2, <1>3, <1>7 DEF TypedInv

(* When the snapshots agree on the type of every slot, no copy, even one   *)
(* that the generation check then throws away, reads a union field that was*)
(* not written, and no read reports Invalid, also where stores may become  *)
(* visible out of order.                                                   *)
THEOREM FixedTypesKept == Spec => []FixedTypesReadWell
<1>1. Init => (FixedTypes => TypedInv)
  <2> SUFFICES ASSUME Init PROVE TypedInv
    OBVIOUS
  <2> QED
    BY DEF Init, TypedInv, TypedMemory, TypedCopy, NoOutcome
<1>2. TypeInv /\ (FixedTypes => TypedInv) /\ [Next]_vars => (FixedTypes => TypedInv)'
  <2> SUFFICES ASSUME TypeInv, FixedTypes, TypedInv, [Next]_vars
               PROVE  TypedInv'
    BY DEF FixedTypes
  <2>1. CASE UNCHANGED vars
    BY <2>1 DEF vars, memory, writer, reader, history, TypedInv, TypedMemory,
                TypedCopy, SlotTyped, TagTyped
  <2> QED
    BY <2>1, WriterTyped, ReaderTyped DEF Next
<1>3. (FixedTypes => TypedInv) => FixedTypesReadWell
  BY DEF TypedInv, TypedCopy, FixedTypesReadWell, ActiveFieldRead
<1> QED
  BY <1>1, <1>2, <1>3, InitTypeInv, TypeInvStep, PTL DEF Spec

=============================================================================
