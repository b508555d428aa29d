---------------------------- MODULE SharedRegion ----------------------------
(***************************************************************************)
(* The memory-mapped region behind a shared-state channel: the writer      *)
(* publishes with a generation counter that is odd while the slots change, *)
(* readers copy the slots between two loads of the counter and retry when  *)
(* it moved (runtime/src/shared/mod.rs).                                   *)
(*                                                                         *)
(* Writer and readers are different processes: every load and store of the *)
(* mapped memory is a step of its own.  A slot is three words, copied one  *)
(* after the other because the code copies slots with plain, non-atomic    *)
(* moves: its tag (slot id and type), the type tag of its value and the    *)
(* data of that value.  The data is a union: it remembers the type it was  *)
(* written as, and is read as the type the copied tag says.                *)
(***************************************************************************)
EXTENDS Integers

CONSTANTS
  Readers,      (* the reading members of the channel                      *)
  NumSlots,     (* slots declared by the channel                           *)
  Types, Data,  (* type tags and payloads of a slot's value                *)
  ZeroType,     (* the type tag whose encoding is 0                        *)
  ZeroData,     (* the payload whose encoding is 0                         *)
  Snapshots,    (* the dense snapshots the writer's DLL may produce        *)
  NoSnapshot,
  MaxSpins,     (* MAX_SNAPSHOT_SPINS                                      *)
  GenModulus,   (* the counter wraps here: 2^64 in the code                *)
  WeakOrder     (* may the slot stores pass the store that opens a publish *)

Slots == 0 .. NumSlots - 1

Value == [type : Types, data : Data]
Tag == [id : Slots, type : Types]

ASSUME SharedRegionAssumption ==
  /\ NumSlots \in Nat \ {0}
  /\ MaxSpins \in Nat \ {0}
  /\ GenModulus \in Nat
  /\ \E half \in 2 .. GenModulus : GenModulus = 2 * half
  /\ ZeroType \in Types
  /\ ZeroData \in Data
  /\ Snapshots \subseteq [Slots -> Value]
  /\ NoSnapshot \notin Snapshots
  /\ WeakOrder \in BOOLEAN

VARIABLES
  (* the mapped memory *)
  created,      (* the file exists and its header was written              *)
  generation, initialized,
  tag, vtype, val, (* the three words of each slot                         *)
  (* the writer process *)
  wpc,          (* "closed", "ready", "storing", "initializing", "ending"  *)
  marked,       (* the odd generation of this publication is visible       *)
  wsaved,       (* the generation publish() loaded                         *)
  wsnap, wslot, wword,
  crashed,
  (* each reader process *)
  rpc, attempts, before, rslot, rtag, rtype, rcopy, result,
  (* history: what the last finished publication was, and per reader what  *)
  (* it was at its last even load, how many have finished since then,      *)
  (* whether the writer was at rest during the whole read, and whether a   *)
  (* union field was read that is not the one last written                 *)
  latest, expected, lag, quiet, misread

memory == <<created, generation, initialized, tag, vtype, val>>
writer == <<wpc, marked, wsaved, wsnap, wslot, wword, crashed>>
reader == <<rpc, attempts, before, rslot, rtag, rtype, rcopy, result>>
history == <<latest, expected, lag, quiet, misread>>
vars == <<memory, writer, reader, history>>

ZeroTag == [id |-> 0, type |-> ZeroType]
ZeroValue == [type |-> ZeroType, data |-> ZeroData]

Odd(g) == g % 2 = 1

(* Mutant: the addition does not wrap.                                     *)
OverflowingAdd(g, n) == g + n

(* u64::wrapping_add, for the small increments publish() uses.             *)
WrappingAdd(g, n) ==
  IF g + n < GenModulus THEN g + n ELSE g + n - GenModulus

(* SimSharedSlot::try_from_raw and the dense slot-id check after it: both  *)
(* type tags must agree, then the union is read as the field they name.    *)
Decodes(k, t, vt) == t.id = k /\ t.type = vt
ReadAs(vt, v) == [type |-> vt, data |-> v.data]

Kinds == {"none", "ok", "busy", "uninitialized", "invalid"}

Outcome(r, kind, snap) ==
  [kind |-> kind, snap |-> snap, current |-> expected[r],
   quiet |-> quiet[r], moved |-> generation # before[r]]

NoOutcome ==
  [kind |-> "none", snap |-> NoSnapshot, current |-> NoSnapshot,
   quiet |-> FALSE, moved |-> FALSE]

ZeroCopy == [k \in Slots |-> ZeroValue]

Init ==
  /\ created = FALSE
  /\ generation = 0
  /\ initialized = FALSE
  /\ tag = [k \in Slots |-> ZeroTag]
  /\ vtype = [k \in Slots |-> ZeroType]
  /\ val = [k \in Slots |-> ZeroValue]
  /\ wpc = "closed"
  /\ marked = FALSE
  /\ wsaved = 0
  /\ wsnap = NoSnapshot
  /\ wslot = 0
  /\ wword = "tag"
  /\ crashed = FALSE
  /\ rpc = [r \in Readers |-> "detached"]
  /\ attempts = [r \in Readers |-> 0]
  /\ before = [r \in Readers |-> 0]
  /\ rslot = [r \in Readers |-> 0]
  /\ rtag = [r \in Readers |-> ZeroTag]
  /\ rtype = [r \in Readers |-> ZeroType]
  /\ rcopy = [r \in Readers |-> ZeroCopy]
  /\ result = [r \in Readers |-> NoOutcome]
  /\ latest = NoSnapshot
  /\ expected = [r \in Readers |-> NoSnapshot]
  /\ lag = [r \in Readers |-> 0]
  /\ quiet = [r \in Readers |-> FALSE]
  /\ misread = [r \in Readers |-> FALSE]

(* The reader holds an even generation and has not compared it yet.        *)
InRead(r) == rpc[r] \in {"initialized", "tag", "type", "data", "after"}

-----------------------------------------------------------------------------
(* The writer.                                                             *)

(* open(.., initialize = true): size the file, write the header and zero   *)
(* the slots.  The env attaches the writer before any reader, so no reader *)
(* can look at the region while it is being laid out.                      *)
OpenWriter ==
  /\ wpc = "closed"
  /\ ~crashed
  /\ created' = TRUE
  /\ generation' = 0
  /\ initialized' = FALSE
  /\ tag' = [k \in Slots |-> ZeroTag]
  /\ vtype' = [k \in Slots |-> ZeroType]
  /\ val' = [k \in Slots |-> ZeroValue]
  /\ wpc' = "ready"
  /\ UNCHANGED <<marked, wsaved, wsnap, wslot, wword, crashed, reader, history>>

(* The bound on overtaking: no reader is passed by half the counter's      *)
(* range while it copies once (2^63 publications in the code).             *)
OvertakeBound == \A r \in Readers : 2 * (lag[r] + 1) < GenModulus

(* publish(slots): the length and dense-id checks reject a malformed       *)
(* snapshot before anything is written, so only well-formed ones start.    *)
BeginPublish(s) ==
  /\ wpc = "ready"
  /\ ~crashed
  /\ OvertakeBound
  /\ wpc' = "storing"
  /\ wsaved' = generation
  /\ wsnap' = s
  /\ wslot' = 0
  /\ wword' = "tag"
  /\ quiet' = [r \in Readers |-> FALSE]
  /\ UNCHANGED <<memory, marked, crashed, reader, latest, expected, lag, misread>>

(* The release store of the odd generation.                                *)
MarkOdd ==
  /\ wpc \in {"storing", "initializing", "ending"}
  /\ ~crashed
  /\ ~marked
  /\ marked' = TRUE
  /\ generation' = WrappingAdd(wsaved, 1)
  /\ UNCHANGED <<created, initialized, tag, vtype, val, wpc, wsaved, wsnap,
                 wslot, wword, crashed, reader, history>>

(* Mutant: the slots are stored before the generation is odd.              *)
StoresUnmarked == ~crashed

(* A release store orders what precedes it, not what follows: with         *)
(* WeakOrder the slot stores may become visible before the odd generation. *)
StoresEnabled == ~crashed /\ (marked \/ WeakOrder)

StoreTag ==
  /\ wpc = "storing"
  /\ StoresEnabled
  /\ wword = "tag"
  /\ tag' = [tag EXCEPT ![wslot] = [id |-> wslot, type |-> wsnap[wslot].type]]
  /\ wword' = "type"
  /\ UNCHANGED <<created, generation, initialized, vtype, val, wpc, marked,
                 wsaved, wsnap, wslot, crashed, reader, history>>

StoreType ==
  /\ wpc = "storing"
  /\ StoresEnabled
  /\ wword = "type"
  /\ vtype' = [vtype EXCEPT ![wslot] = wsnap[wslot].type]
  /\ wword' = "data"
  /\ UNCHANGED <<created, generation, initialized, tag, val, wpc, marked,
                 wsaved, wsnap, wslot, crashed, reader, history>>

StoreData ==
  /\ wpc = "storing"
  /\ StoresEnabled
  /\ wword = "data"
  /\ val' = [val EXCEPT ![wslot] = wsnap[wslot]]
  /\ wword' = "tag"
  /\ wslot' = wslot + 1
  /\ wpc' = IF wslot + 1 = NumSlots THEN "initializing" ELSE "storing"
  /\ UNCHANGED <<created, generation, initialized, tag, vtype, marked, wsaved,
                 wsnap, crashed, reader, history>>

SetInitialized ==
  /\ wpc = "initializing"
  /\ StoresEnabled
  /\ initialized' = TRUE
  /\ wpc' = "ending"
  /\ UNCHANGED <<created, generation, tag, vtype, val, marked, wsaved, wsnap,
                 wslot, wword, crashed, reader, history>>

(* Mutant: the publication ends with an odd generation.                    *)
EndPublishOdd ==
  /\ wpc = "ending"
  /\ ~crashed
  /\ marked
  /\ marked' = FALSE
  /\ wpc' = "ready"
  /\ latest' = wsnap
  /\ lag' = [r \in Readers |-> IF InRead(r) THEN lag[r] + 1 ELSE 0]
  /\ UNCHANGED <<memory, wsaved, wsnap, wslot, wword, crashed, reader,
                 expected, quiet, misread>>

(* The release store of the next even generation: the snapshot is out.     *)
EndPublish ==
  /\ wpc = "ending"
  /\ ~crashed
  /\ marked
  /\ generation' = WrappingAdd(wsaved, 2)
  /\ marked' = FALSE
  /\ wpc' = "ready"
  /\ latest' = wsnap
  /\ lag' = [r \in Readers |-> IF InRead(r) THEN lag[r] + 1 ELSE 0]
  /\ UNCHANGED <<created, initialized, tag, vtype, val, wsaved, wsnap, wslot,
                 wword, crashed, reader, expected, quiet, misread>>

(* The writer's process is killed; the region stays as it is.              *)
CrashWriter ==
  /\ ~crashed
  /\ crashed' = TRUE
  /\ UNCHANGED <<memory, wpc, marked, wsaved, wsnap, wslot, wword, reader,
                 history>>

WriterNext ==
  \/ OpenWriter
  \/ \E s \in Snapshots : BeginPublish(s)
  \/ MarkOdd
  \/ StoreTag
  \/ StoreType
  \/ StoreData
  \/ SetInitialized
  \/ EndPublish
  \/ CrashWriter

-----------------------------------------------------------------------------
(* A reader.                                                               *)

Goto(r, label) == rpc' = [rpc EXCEPT ![r] = label]

(* open(.., initialize = false) fails until the writer created the file.   *)
AttachReader(r) ==
  /\ rpc[r] = "detached"
  /\ created
  /\ Goto(r, "idle")
  /\ UNCHANGED <<memory, writer, attempts, before, rslot, rtag, rtype, rcopy,
                 result, history>>

BeginRead(r) ==
  /\ rpc[r] = "idle"
  /\ Goto(r, "before")
  /\ attempts' = [attempts EXCEPT ![r] = 0]
  /\ result' = [result EXCEPT ![r] = NoOutcome]
  /\ quiet' = [quiet EXCEPT ![r] = (wpc \in {"closed", "ready"})]
  /\ UNCHANGED <<memory, writer, before, rslot, rtag, rtype, rcopy, latest,
                 expected, lag, misread>>

(* The locals of one turn of the loop end with the turn.                   *)
EndTurn(r) ==
  /\ before' = [before EXCEPT ![r] = 0]
  /\ rslot' = [rslot EXCEPT ![r] = 0]
  /\ rtag' = [rtag EXCEPT ![r] = ZeroTag]
  /\ rtype' = [rtype EXCEPT ![r] = ZeroType]
  /\ rcopy' = [rcopy EXCEPT ![r] = ZeroCopy]
  /\ expected' = [expected EXCEPT ![r] = NoSnapshot]
  /\ lag' = [lag EXCEPT ![r] = 0]

Return(r, kind, snap) ==
  /\ Goto(r, "idle")
  /\ EndTurn(r)
  /\ result' = [result EXCEPT ![r] = Outcome(r, kind, snap)]

(* Mutant: the attempts are not counted.                                   *)
RetryUncounted(r) ==
  /\ Goto(r, "before")
  /\ EndTurn(r)
  /\ UNCHANGED <<attempts, result>>

(* The next turn of the bounded loop, or the Busy error after the last.    *)
Retry(r) ==
  /\ attempts' = [attempts EXCEPT ![r] = @ + 1]
  /\ IF attempts[r] + 1 = MaxSpins
     THEN Return(r, "busy", NoSnapshot)
     ELSE /\ Goto(r, "before")
          /\ EndTurn(r)
          /\ UNCHANGED result

LoadBefore(r) ==
  /\ rpc[r] = "before"
  /\ IF Odd(generation)
     THEN Retry(r)
     ELSE /\ before' = [before EXCEPT ![r] = generation]
          /\ expected' = [expected EXCEPT ![r] = latest]
          /\ Goto(r, "initialized")
          /\ UNCHANGED <<attempts, rslot, rtag, rtype, rcopy, result, lag>>
  /\ UNCHANGED <<memory, writer, latest, quiet, misread>>

(* Mutant: the slots are read whether or not anything was published.       *)
SkipInitialized(r) ==
  /\ rpc[r] = "initialized"
  /\ Goto(r, "tag")
  /\ UNCHANGED <<memory, writer, attempts, before, rslot, rtag, rtype, rcopy,
                 result, history>>

CheckInitialized(r) ==
  /\ rpc[r] = "initialized"
  /\ IF initialized
     THEN /\ Goto(r, "tag")
          /\ UNCHANGED <<before, rslot, rtag, rtype, rcopy, result, expected,
                         lag>>
     ELSE Return(r, "uninitialized", NoSnapshot)
  /\ UNCHANGED <<memory, writer, attempts, latest, quiet, misread>>

CopyTag(r) ==
  /\ rpc[r] = "tag"
  /\ rtag' = [rtag EXCEPT ![r] = tag[rslot[r]]]
  /\ Goto(r, "type")
  /\ UNCHANGED <<memory, writer, attempts, before, rslot, rtype, rcopy, result,
                 history>>

CopyType(r) ==
  /\ rpc[r] = "type"
  /\ rtype' = [rtype EXCEPT ![r] = vtype[rslot[r]]]
  /\ Goto(r, "data")
  /\ UNCHANGED <<memory, writer, attempts, before, rslot, rtag, rcopy, result,
                 history>>

(* The slot is copied: decode it.  A slot that does not decode ends the    *)
(* read at once: the error is not retried, whatever the generation says.   *)
CopyData(r) ==
  LET k == rslot[r] IN
  /\ rpc[r] = "data"
  /\ IF Decodes(k, rtag[r], rtype[r])
     THEN /\ rcopy' = [rcopy EXCEPT ![r][k] = ReadAs(rtype[r], val[k])]
          /\ misread' = IF val[k].type # rtype[r]
                       THEN [misread EXCEPT ![r] = TRUE] ELSE misread
          /\ rslot' = [rslot EXCEPT ![r] = k + 1]
          /\ Goto(r, IF k + 1 = NumSlots THEN "after" ELSE "tag")
          /\ UNCHANGED <<before, rtag, rtype, result, expected, lag>>
     ELSE /\ Return(r, "invalid", NoSnapshot)
          /\ UNCHANGED misread
  /\ UNCHANGED <<memory, writer, attempts, latest, quiet>>

(* Mutant: the second load only checks that no publication is running.     *)
LoadAfterParity(r) ==
  /\ rpc[r] = "after"
  /\ IF ~Odd(generation)
     THEN /\ Return(r, "ok", rcopy[r])
          /\ UNCHANGED attempts
     ELSE Retry(r)
  /\ UNCHANGED <<memory, writer, latest, quiet, misread>>

LoadAfter(r) ==
  /\ rpc[r] = "after"
  /\ IF generation = before[r] /\ ~Odd(generation)
     THEN /\ Return(r, "ok", rcopy[r])
          /\ UNCHANGED attempts
     ELSE Retry(r)
  /\ UNCHANGED <<memory, writer, latest, quiet, misread>>

ReadStep(r) ==
  \/ LoadBefore(r)
  \/ CheckInitialized(r)
  \/ CopyTag(r)
  \/ CopyType(r)
  \/ CopyData(r)
  \/ LoadAfter(r)

ReaderNext(r) == AttachReader(r) \/ BeginRead(r) \/ ReadStep(r)

-----------------------------------------------------------------------------
Next == WriterNext \/ \E r \in Readers : ReaderNext(r)

Spec == Init /\ [][Next]_vars

(* A read is a loop on the instance's own thread: it keeps running.        *)
Fairness == \A r \in Readers : WF_vars(ReadStep(r))

FairSpec == Spec /\ Fairness

-----------------------------------------------------------------------------
(* Properties.                                                             *)

Results == [kind : Kinds, snap : [Slots -> Value] \cup {NoSnapshot},
            current : Snapshots \cup {NoSnapshot},
            quiet : BOOLEAN, moved : BOOLEAN]

Generations == 0 .. GenModulus - 1

(* Every variable stays in its range; in particular the slot cursors never *)
(* leave the region, though slot_storage() is built from a raw pointer.    *)
TypeOK ==
  /\ created \in BOOLEAN
  /\ generation \in Generations
  /\ initialized \in BOOLEAN
  /\ tag \in [Slots -> Tag]
  /\ vtype \in [Slots -> Types]
  /\ val \in [Slots -> Value]
  /\ wpc \in {"closed", "ready", "storing", "initializing", "ending"}
  /\ marked \in BOOLEAN
  /\ wsaved \in Generations
  /\ wsnap \in Snapshots \cup {NoSnapshot}
  /\ wpc \in {"storing", "initializing", "ending"} => wsnap \in Snapshots
  /\ wslot \in 0 .. NumSlots
  /\ wpc = "storing" => wslot \in Slots
  /\ wword \in {"tag", "type", "data"}
  /\ crashed \in BOOLEAN
  /\ rpc \in [Readers -> {"detached", "idle", "before", "initialized", "tag",
                          "type", "data", "after"}]
  /\ attempts \in [Readers -> 0 .. MaxSpins]
  /\ before \in [Readers -> Generations]
  /\ rslot \in [Readers -> 0 .. NumSlots]
  /\ \A r \in Readers : rpc[r] \in {"tag", "type", "data"} => rslot[r] \in Slots
  /\ rtag \in [Readers -> Tag]
  /\ rtype \in [Readers -> Types]
  /\ rcopy \in [Readers -> [Slots -> Value]]
  /\ result \in [Readers -> Results]
  /\ latest \in Snapshots \cup {NoSnapshot}
  /\ expected \in [Readers -> Snapshots \cup {NoSnapshot}]
  /\ lag \in [Readers -> Nat]
  /\ quiet \in [Readers -> BOOLEAN]
  /\ misread \in [Readers -> BOOLEAN]

(* A snapshot read_snapshot() returns is one the writer published whole,   *)
(* and the one that was current when the read made its last even load: no  *)
(* mixture of two publications, and nothing older.                         *)
SnapshotNotTorn ==
  \A r \in Readers :
    result[r].kind = "ok" =>
      result[r].snap = result[r].current /\ result[r].snap # NoSnapshot

(* A read during which the writer was at rest succeeds, unless nothing was *)
(* published yet: Busy and Invalid are only ever the writer's doing.       *)
UndisturbedReadSucceeds ==
  \A r \in Readers :
    result[r].quiet =>
      \/ result[r].kind = "ok"
      \/ result[r].kind = "uninitialized" /\ result[r].current = NoSnapshot

(* The Invalid error, which is not retried, is only returned when the      *)
(* generation moved under the copy, that is when a retry was possible.     *)
InvalidMeansOvertaken ==
  \A r \in Readers : result[r].kind = "invalid" => result[r].moved

(* The contract of SignalValue::from_raw: the field it reads is the one    *)
(* that was written.                                                       *)
ActiveFieldRead == \A r \in Readers : ~misread[r]

(* With fixed slot types the contract is kept, even by copies that the     *)
(* generation check then throws away, and no read reports Invalid.         *)
FixedTypes ==
  \A s, t \in Snapshots : \A k \in Slots : s[k].type = t[k].type
FixedTypesReadWell ==
  FixedTypes => ActiveFieldRead /\ \A r \in Readers : result[r].kind # "invalid"

(* Every read_snapshot() returns, even when the writer died in the middle  *)
(* of a publication and the generation stays odd for ever.                 *)
ReadReturns ==
  \A r \in Readers :
    (rpc[r] \notin {"detached", "idle"}) ~> (rpc[r] = "idle")

(* The region implements a register with atomic publications and reads:    *)
(* a read takes effect when it loads the second generation.                *)
Register == INSTANCE SnapshotRegister WITH
  view <- [r \in Readers |-> [kind |-> result[r].kind, snap |-> result[r].snap]]

RegisterSpec == Register!Spec

=============================================================================
