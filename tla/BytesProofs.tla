----------------------------- MODULE BytesProofs -----------------------------
(***************************************************************************)
(* What MCCommands checks of a few flash images and a few signals of DBC   *)
(* files follows for all: for any files in any order, any addresses and    *)
(* any sizes; for any signals, of whatever order, sign, factor and place.  *)
(* Both work byte by byte or bit by bit, and the invariants say what has   *)
(* been taken so far.                                                      *)
(*                                                                         *)
(* The variables of a part go by the names MCCommands gives them: in       *)
(* Flash, v1 is the load, v2 the block, v3 the record or the region at     *)
(* hand, v4 the base, v5 the memory, v6 the regions, v7 the outcome.  In   *)
(* Dbc, v1 is the file, v2 and v3 the next signal of it, v4 the overlay,   *)
(* v5 the bits, v6 the length, v7 the flag, v8 the values written, v9 the  *)
(* call, v10 the steps.                                                    *)
(***************************************************************************)
EXTENDS MCCommands, SequenceTheorems, FiniteSetTheorems, WellFoundedInduction, TLAPS

(* A behaviour is of the part it began with.                               *)
LEMMA BytesMove ==
  ASSUME [Next]_vars
  PROVE  /\ part' = part
         /\ part = "flash" => [Flash!Next]_(Flash!vars)
         /\ part = "dbc" => [Dbc!Next]_(Dbc!vars)
BY DEF Next, vars, Rest7, Rest9, Flash!vars, Dbc!vars

-----------------------------------------------------------------------------
(* Flash images.                                                           *)

(* Record k of block n comes before record l of block b.                   *)
Taken(b, l, n, k) == n < b \/ (n = b /\ k < l)

(* Of what comes before it, record k of block n is the last to say a.      *)
LastBy(load, b, l, n, k, a) ==
  /\ Taken(b, l, n, k) /\ Flash!Says(load, n, k, a)
  /\ \A m \in DOMAIN load : \A j \in DOMAIN load[m].records :
       Taken(b, l, m, j) /\ Flash!Says(load, m, j, a) => m < n \/ (m = n /\ j <= k)
IsSaid(load, b, l, a, byte) ==
  \E n \in DOMAIN load : \E k \in DOMAIN load[n].records :
    LastBy(load, b, l, n, k, a) /\ byte = Flash!ByteIn(Flash!PieceOf(load, n, k), a)
Unsaid(load, b, l, a) ==
  \A n \in DOMAIN load : \A k \in DOMAIN load[n].records :
    Taken(b, l, n, k) => ~ Flash!Says(load, n, k, a)

(* Of the first regions, r is the last one over a.                         *)
LastOver(rs, r, a, first) ==
  /\ r <= first /\ Flash!Covers(rs[r], a)
  /\ \A q \in DOMAIN rs : q <= first /\ Flash!Covers(rs[q], a) => q <= r

Pieces == [base : Nat, data : Seq(0 .. 255)]
FlashTypes ==
  /\ v1 \in Loads /\ v2 \in 1 .. Len(v1) + 1 /\ v3 \in Nat \ {0} /\ v4 \in Nat
  /\ DOMAIN v5 \subseteq 0 .. Top /\ v5 \in [DOMAIN v5 -> 0 .. 255]
  /\ v6 \in Seq(Pieces)
  /\ v7 \in {"reading", "listing", "ok", "error"}

(* Where the reading is: at records that count, at the base they stand at. *)
PlaceInv ==
  /\ v7 = "reading" /\ v3 = 1 => DOMAIN v5 = {}
  /\ Flash!Reading /\ v1[v2].kind \notin {"hex", "srec"} => v3 = 1
  /\ Flash!Reading /\ v3 <= Len(v1[v2].records) =>
       Flash!Counts(v1, v2, v3) /\ v4 = Flash!BaseAt(v1, v2, v3)
  /\ v7 \in {"listing", "ok"} => v2 = Len(v1) + 1
  /\ v7 = "ok" => DOMAIN v5 = {}

(* Memory and regions together hold what has been said: the memory stands  *)
(* over the regions, and a region over those before it.                    *)
HeldInv ==
  v7 # "error" =>
    /\ ~ Flash!Merging => \A a \in DOMAIN v5 : IsSaid(v1, v2, v3, a, v5[a])
    /\ \A a \in Nat : \A r \in DOMAIN v6 :
         (Flash!Merging \/ a \notin DOMAIN v5) /\ LastOver(v6, r, a, Len(v6))
           => IsSaid(v1, v2, v3, a, Flash!ByteIn(v6[r], a))
    /\ \A a \in Nat :
         \/ Unsaid(v1, v2, v3, a)
         \/ ~ Flash!Merging /\ a \in DOMAIN v5
         \/ \E r \in DOMAIN v6 : LastOver(v6, r, a, Len(v6))

(* While regions are merged the memory holds those that were.              *)
MergeInv ==
  Flash!Merging =>
    /\ \A a \in DOMAIN v5 :
         \E r \in DOMAIN v6 : LastOver(v6, r, a, v3 - 1) /\ v5[a] = Flash!ByteIn(v6[r], a)
    /\ \A a \in Nat : \A r \in DOMAIN v6 : r < v3 /\ Flash!Covers(v6[r], a) => a \in DOMAIN v5

(* The regions of the merged memory.                                       *)
ApartInv ==
  v7 \in {"listing", "ok"} =>
    \A r \in DOMAIN v6 :
      /\ v6[r].data # <<>> /\ Flash!Fits(v6[r])
      /\ \A q \in 1 .. r - 1 : v6[r].base > v6[q].base + Len(v6[q].data)
      /\ \A a \in DOMAIN v5 : a > v6[r].base + Len(v6[r].data)

(* What is wrong has been refused, or is a region yet to be merged.        *)
CauseInv ==
  /\ v7 = "error" => Flash!Refusable(v1)
  /\ v7 = "reading" => \A r \in DOMAIN v6 : Flash!Fits(v6[r]) \/ Flash!Refusable(v1)
  /\ v7 # "error" =>
       /\ \A n \in DOMAIN v1 : n < v2 => v1[n].kind # "missing"
       /\ \A n \in DOMAIN v1 : \A k \in DOMAIN v1[n].records :
            Taken(v2, v3, n, k) /\ Flash!Wrong(v1, n, k) =>
              /\ v7 = "reading"
              /\ \E r \in DOMAIN v6 : ~ Flash!Fits(v6[r]) /\ (Flash!Merging => r >= v3)

FlashInv == FlashTypes /\ PlaceInv /\ HeldInv /\ MergeInv /\ ApartInv /\ CauseInv

LEMMA FlashLimits ==
  /\ {Top, LinearUnit, SegmentUnit} \subseteq Nat
  /\ \A load \in Loads : Len(load) \in Nat /\ DOMAIN load = 1 .. Len(load)
<1>1. \A load \in Loads : load \in Seq(Flash!ToSet(load))
  BY CommandsAssumption DEF Flash!FlashAssumption
<1> QED BY <1>1, LenProperties, CommandsAssumption DEF Flash!FlashAssumption

LEMMA BlocksAre ==
  ASSUME NEW load \in Loads, NEW n \in DOMAIN load
  PROVE  /\ load[n].kind \in {"hex", "srec", "binary", "inline", "missing"}
         /\ Len(load[n].records) \in Nat
         /\ DOMAIN load[n].records = 1 .. Len(load[n].records)
         /\ load[n].kind \in {"binary", "inline"} =>
              Len(load[n].records) = 1 /\ load[n].records[1].type = "data"
         /\ \A k \in DOMAIN load[n].records :
              LET r == load[n].records[k]
              IN /\ r.type = "data" => r.addr \in Nat \cup {-1} /\ r.data \in Seq(0 .. 255)
                 /\ r.type \in {"segment", "linear"} => r.base \in Nat
                 /\ load[n].kind \in {"hex", "srec"} /\ r.type = "data" => r.addr # -1
<1> DEFINE b == load[n]
<1>1. b \in Flash!ToSet(load)
  BY DEF Flash!ToSet
<1> HIDE DEF b
<1>2. /\ b.kind \in {"hex", "srec", "binary", "inline", "missing"}
      /\ b.records \in Seq(Flash!ToSet(b.records))
      /\ b.kind \in {"binary", "inline"} => Len(b.records) = 1 /\ b.records[1].type = "data"
      /\ \A r \in Flash!ToSet(b.records) :
           /\ r.type = "data" => r.addr \in Nat \cup {-1} /\ r.data \in Seq(0 .. 255)
           /\ r.type \in {"segment", "linear"} => r.base \in Nat
           /\ b.kind \in {"hex", "srec"} /\ r.type = "data" => r.addr # -1
  BY <1>1, CommandsAssumption DEF Flash!FlashAssumption
<1>3. Len(b.records) \in Nat /\ DOMAIN b.records = 1 .. Len(b.records)
  BY <1>2, LenProperties
<1>4. \A k \in DOMAIN b.records : b.records[k] \in Flash!ToSet(b.records)
  BY DEF Flash!ToSet
<1>5. \A k \in DOMAIN b.records :
        LET r == b.records[k]
        IN /\ r.type = "data" => r.addr \in Nat \cup {-1} /\ r.data \in Seq(0 .. 255)
           /\ r.type \in {"segment", "linear"} => r.base \in Nat
           /\ b.kind \in {"hex", "srec"} /\ r.type = "data" => r.addr # -1
  BY <1>2, <1>4
<1> QED BY <1>2, <1>3, <1>5 DEF b

(* Blocks and records are counted from one.                                *)
LEMMA RecordsCounted ==
  ASSUME NEW load \in Loads, NEW n \in DOMAIN load, NEW k \in DOMAIN load[n].records
  PROVE  /\ n \in Nat /\ k \in Nat /\ k > 0
         /\ Len(load[n].records) \in Nat /\ k <= Len(load[n].records)
<1>1. n \in Nat
  BY FlashLimits
<1>2. Len(load[n].records) \in Nat /\ k \in 1 .. Len(load[n].records)
  BY BlocksAre
<1> QED BY <1>1, <1>2

LEMMA PieceTyped ==
  ASSUME NEW base \in Nat, NEW addr \in Nat, NEW bytes \in Seq(0 .. 255)
  PROVE  Flash!Piece(base + addr, bytes) \in Pieces
<1>1. base + addr \in Nat
  OBVIOUS
<1> QED BY <1>1, Zenon DEF Flash!Piece, Pieces

(* The base a record stands at, from the one before it.                    *)
LEMMA BaseFirst ==
  ASSUME NEW load \in Loads, NEW n \in DOMAIN load
  PROVE  Flash!BaseAt(load, n, 1) = 0 /\ Flash!Counts(load, n, 1)
BY DEF Flash!BaseAt, Flash!Bases, Flash!Counts

LEMMA BaseNext ==
  ASSUME NEW load \in Loads, NEW n \in DOMAIN load, NEW k \in DOMAIN load[n].records
  PROVE  LET r == load[n].records[k]
         IN Flash!BaseAt(load, n, k + 1) =
              IF load[n].kind = "hex" /\ r.type \in {"segment", "linear"}
              THEN Flash!BaseOf(r) ELSE Flash!BaseAt(load, n, k)
<1> DEFINE r == load[n].records[k]
           Now == Flash!Bases(load, n, k)
           Then == Flash!Bases(load, n, k + 1)
<1>1. k \in Nat /\ k > 0
  BY BlocksAre
<1>2. Then = IF r.type \in {"segment", "linear"} THEN Now \cup {k} ELSE Now
  BY <1>1 DEF Flash!Bases
<1>3. \A i \in Now : i \in Nat /\ i < k
  BY <1>1 DEF Flash!Bases
<1> HIDE DEF r, Now, Then
<1>4. CASE load[n].kind = "hex" /\ r.type \in {"segment", "linear"}
  <2>1. \A j \in Then : (\A i \in Then : i <= j) <=> j = k
    BY <1>1, <1>2, <1>3, <1>4
  <2>2. k \in Then
    BY <1>2, <1>4
  <2>3. k = CHOOSE j \in Then : \A i \in Then : i <= j
    BY <2>1, <2>2
  <2>4. Flash!BaseAt(load, n, k + 1) = Flash!BaseOf(load[n].records[k])
    <3>1. Flash!BaseAt(load, n, k + 1) =
            Flash!BaseOf(load[n].records[CHOOSE j \in Then : \A i \in Then : i <= j])
      BY <1>4, <2>2 DEF Then, Flash!BaseAt
    <3> QED BY <2>3, <3>1
  <2> QED BY <1>4, <2>4 DEF r
<1>5. CASE ~ (load[n].kind = "hex" /\ r.type \in {"segment", "linear"})
  <2>1. load[n].kind # "hex" \/ Then = Now
    BY <1>2, <1>5
  <2>2. Flash!BaseAt(load, n, k + 1) = Flash!BaseAt(load, n, k)
    <3>1. CASE load[n].kind # "hex"
      BY <3>1 DEF Flash!BaseAt
    <3>2. CASE Then = Now
      <4>1. Flash!Bases(load, n, k + 1) = Flash!Bases(load, n, k)
        BY <3>2 DEF Now, Then
      <4> DEFINE BaseOver(S) ==
            IF load[n].kind # "hex" \/ S = {} THEN 0
            ELSE LET last == CHOOSE j \in S : \A i \in S : i <= j
                 IN Flash!BaseOf(load[n].records[last])
      <4>2. /\ Flash!BaseAt(load, n, k + 1) = BaseOver(Flash!Bases(load, n, k + 1))
            /\ Flash!BaseAt(load, n, k) = BaseOver(Flash!Bases(load, n, k))
        BY DEF Flash!BaseAt
      <4> HIDE DEF BaseOver
      <4> QED BY <4>1, <4>2
    <3> QED BY <2>1, <3>1, <3>2
  <2> QED BY <1>5, <2>2 DEF r
<1> QED BY <1>4, <1>5

LEMMA CountsNext ==
  ASSUME NEW load \in Loads, NEW n \in DOMAIN load, NEW k \in DOMAIN load[n].records,
         Flash!Counts(load, n, k), load[n].records[k].type # "end"
  PROVE  Flash!Counts(load, n, k + 1)
<1>1. k \in Nat
  BY BlocksAre
<1> QED BY <1>1 DEF Flash!Counts

(* Another record is taken: where it says something it is the last to, and *)
(* elsewhere nothing is said that was not.                                 *)
LEMMA OneMore ==
  ASSUME NEW load, NEW b, NEW l, NEW b2, NEW l2,
         NEW n \in DOMAIN load, NEW k \in DOMAIN load[n].records,
         n \in Nat, k \in Nat,
         \A m \in DOMAIN load : \A j \in DOMAIN load[m].records :
           /\ m \in Nat /\ j \in Nat
           /\ Taken(b, l, m, j) => m < n \/ (m = n /\ j < k)
           /\ Taken(b2, l2, m, j) <=> Taken(b, l, m, j) \/ (m = n /\ j = k),
         NEW a
  PROVE  /\ Flash!Says(load, n, k, a) =>
              IsSaid(load, b2, l2, a, Flash!ByteIn(Flash!PieceOf(load, n, k), a))
         /\ ~ Flash!Says(load, n, k, a) =>
              /\ \A byte : IsSaid(load, b, l, a, byte) => IsSaid(load, b2, l2, a, byte)
              /\ Unsaid(load, b, l, a) => Unsaid(load, b2, l2, a)
<1>1. ASSUME Flash!Says(load, n, k, a)
      PROVE  IsSaid(load, b2, l2, a, Flash!ByteIn(Flash!PieceOf(load, n, k), a))
  <2>1. LastBy(load, b2, l2, n, k, a)
    <3>1. Taken(b2, l2, n, k)
      OBVIOUS
    <3>2. ASSUME NEW m \in DOMAIN load, NEW j \in DOMAIN load[m].records, Taken(b2, l2, m, j)
          PROVE  m < n \/ (m = n /\ j <= k)
      <4>1. (m < n \/ (m = n /\ j < k)) \/ (m = n /\ j = k)
        BY <3>2
      <4> QED BY <4>1
    <3> QED BY <1>1, <3>1, <3>2 DEF LastBy
  <2> QED BY <2>1 DEF IsSaid
<1>2. ASSUME ~ Flash!Says(load, n, k, a), NEW byte, IsSaid(load, b, l, a, byte)
      PROVE  IsSaid(load, b2, l2, a, byte)
  <2> PICK m \in DOMAIN load : \E j \in DOMAIN load[m].records :
        LastBy(load, b, l, m, j, a) /\ byte = Flash!ByteIn(Flash!PieceOf(load, m, j), a)
    BY <1>2 DEF IsSaid
  <2>1. PICK j \in DOMAIN load[m].records :
          LastBy(load, b, l, m, j, a) /\ byte = Flash!ByteIn(Flash!PieceOf(load, m, j), a)
    OBVIOUS
  <2>2. LastBy(load, b2, l2, m, j, a)
    BY <1>2, <2>1 DEF LastBy
  <2> QED BY <2>1, <2>2 DEF IsSaid
<1>3. ASSUME ~ Flash!Says(load, n, k, a), Unsaid(load, b, l, a)
      PROVE  Unsaid(load, b2, l2, a)
  BY <1>3 DEF Unsaid
<1> QED BY <1>1, <1>2, <1>3

(* Only records that say nothing are taken.                                *)
LEMMA NothingMore ==
  ASSUME NEW load, NEW b, NEW l, NEW b2, NEW l2, NEW a,
         \A n \in DOMAIN load : \A k \in DOMAIN load[n].records :
           Flash!Says(load, n, k, a) => (Taken(b, l, n, k) <=> Taken(b2, l2, n, k))
  PROVE  /\ \A byte : IsSaid(load, b, l, a, byte) => IsSaid(load, b2, l2, a, byte)
         /\ Unsaid(load, b, l, a) => Unsaid(load, b2, l2, a)
<1>1. ASSUME NEW byte, IsSaid(load, b, l, a, byte)
      PROVE  IsSaid(load, b2, l2, a, byte)
  <2> PICK n \in DOMAIN load : \E k \in DOMAIN load[n].records :
        LastBy(load, b, l, n, k, a) /\ byte = Flash!ByteIn(Flash!PieceOf(load, n, k), a)
    BY <1>1 DEF IsSaid
  <2>1. PICK k \in DOMAIN load[n].records :
          LastBy(load, b, l, n, k, a) /\ byte = Flash!ByteIn(Flash!PieceOf(load, n, k), a)
    OBVIOUS
  <2>2. LastBy(load, b2, l2, n, k, a)
    BY <2>1 DEF LastBy
  <2> QED BY <2>1, <2>2 DEF IsSaid
<1>2. ASSUME Unsaid(load, b, l, a) PROVE Unsaid(load, b2, l2, a)
  BY <1>2 DEF Unsaid
<1> QED BY <1>1, <1>2

(* What a write leaves in the memory.                                      *)
LEMMA WrittenIs ==
  ASSUME NEW m, m \in [DOMAIN m -> 0 .. 255], DOMAIN m \subseteq 0 .. Top,
         NEW p \in Pieces, Flash!Fits(p)
  PROVE  LET w == Flash!Written(m, p)
         IN /\ \A a : a \in DOMAIN w <=> a \in DOMAIN m \/ Flash!Covers(p, a)
            /\ DOMAIN w \subseteq 0 .. Top
            /\ w \in [DOMAIN w -> 0 .. 255]
            /\ \A a \in DOMAIN w :
                 w[a] = IF Flash!Covers(p, a) THEN Flash!ByteIn(p, a) ELSE m[a]
<1> DEFINE w == Flash!Written(m, p)
<1>1. p.base \in Nat /\ Top \in Nat /\ p.data \in Seq(0 .. 255)
  BY FlashLimits DEF Pieces
<1>2. Len(p.data) \in Nat /\ DOMAIN p.data = 1 .. Len(p.data) /\ p.data \in [1 .. Len(p.data) -> 0 .. 255]
  BY <1>1, LenProperties
<1>3. p.data = <<>> => Len(p.data) = 0
  BY EmptySeq
<1>4. \A a : a \in DOMAIN w <=> a \in DOMAIN m \/ Flash!Covers(p, a)
  BY DEF Flash!Written, Flash!Covers
<1>5. \A a \in DOMAIN w :
        w[a] = IF Flash!Covers(p, a) THEN Flash!ByteIn(p, a) ELSE m[a]
  BY SMTT(30) DEF Flash!Written
<1>6. \A a : Flash!Covers(p, a) => a \in 0 .. Top /\ Flash!ByteIn(p, a) \in 0 .. 255
  <2> SUFFICES ASSUME NEW a, Flash!Covers(p, a)
               PROVE  a \in 0 .. Top /\ Flash!ByteIn(p, a) \in 0 .. 255
    OBVIOUS
  <2>1. a \in p.base .. p.base + Len(p.data) - 1
    BY DEF Flash!Covers
  <2>2. p.data # <<>> /\ p.base + Len(p.data) - 1 <= Top
    BY <1>1, <1>2, <1>3, <2>1 DEF Flash!Fits
  <2>3. a \in Int /\ a - p.base + 1 \in 1 .. Len(p.data)
    BY <1>1, <1>2, <2>1
  <2>4. p.data[a - p.base + 1] \in 0 .. 255
    BY <1>2, <2>3
  <2>5. a \in 0 .. Top
    BY <1>1, <1>2, <2>1, <2>2, <2>3
  <2> QED BY <2>4, <2>5, Zenon DEF Flash!ByteIn
<1>7. w = [a \in DOMAIN w |-> w[a]]
  BY DEF Flash!Written
<1> HIDE DEF w
<1>8. DOMAIN w \subseteq 0 .. Top
  BY <1>4, <1>6
<1>9. \A a \in DOMAIN w : w[a] \in 0 .. 255
  BY <1>4, <1>5, <1>6
<1>10. w \in [DOMAIN w -> 0 .. 255]
  BY <1>7, <1>9
<1> QED BY <1>4, <1>5, <1>8, <1>10 DEF w

LEMMA CoveredIs ==
  ASSUME NEW p \in Pieces, NEW a, Flash!Covers(p, a)
  PROVE  a \in Nat /\ p.base <= a /\ a < p.base + Len(p.data)
<1>1. p.base \in Nat /\ Len(p.data) \in Nat
  BY LenProperties DEF Pieces
<1> QED BY <1>1 DEF Flash!Covers

(* A record says what its data covers.                                     *)
LEMMA HereSays ==
  ASSUME FlashInv, Flash!Reading, v3 <= Len(v1[v2].records)
  PROVE  /\ v2 \in DOMAIN v1 /\ v3 \in DOMAIN v1[v2].records /\ v2 \in Nat
         /\ Flash!Counts(v1, v2, v3)
         /\ \A a : Flash!Says(v1, v2, v3, a) <=>
              v1[v2].records[v3].type = "data" /\ Flash!Covers(Flash!PieceOf(v1, v2, v3), a)
<1>1. v2 \in DOMAIN v1 /\ v2 \in Nat
  BY FlashLimits DEF FlashInv, FlashTypes, Flash!Reading
<1>2. v3 \in DOMAIN v1[v2].records
  BY <1>1, BlocksAre DEF FlashInv, FlashTypes
<1>3. Flash!Counts(v1, v2, v3)
  BY DEF FlashInv, PlaceInv
<1> QED BY <1>1, <1>2, <1>3 DEF Flash!Says

LEMMA RecordKeeps ==
  ASSUME FlashInv, Flash!Reading, v1[v2].kind \in {"hex", "srec"}, v3 <= Len(v1[v2].records),
         v1[v2].records[v3].type \notin {"end", "bad"},
         v1' = v1, v2' = v2, v3' = v3 + 1, v6' = v6, v7' = v7,
         v4' = Flash!BaseAt(v1, v2, v3 + 1), v4' \in Nat,
         IF v1[v2].records[v3].type = "data"
         THEN Flash!Fits(Flash!PieceOf(v1, v2, v3))
                /\ v5' = Flash!Written(v5, Flash!PieceOf(v1, v2, v3))
         ELSE v5' = v5
  PROVE  FlashInv'
<1> DEFINE p == Flash!PieceOf(v1, v2, v3)
           r == v1[v2].records[v3]
<1>1. /\ FlashTypes /\ PlaceInv /\ HeldInv /\ CauseInv
      /\ v7 = "reading" /\ ~ Flash!Merging /\ ~ Flash!Merging'
      /\ v2 \in DOMAIN v1 /\ v3 \in DOMAIN v1[v2].records /\ v2 \in Nat /\ v3 \in Nat
      /\ v1 \in Loads
  <2>1. FlashTypes /\ PlaceInv /\ HeldInv /\ CauseInv /\ v7 = "reading" /\ v2 <= Len(v1)
    BY DEF FlashInv, Flash!Reading
  <2>2. v1 \in Loads /\ v2 \in Nat /\ v3 \in Nat /\ Len(v1) \in Nat
    BY <2>1, FlashLimits DEF FlashTypes
  <2>3. ~ Flash!Merging /\ ~ Flash!Merging'
    BY <2>1, <2>2 DEF Flash!Merging
  <2> QED BY <2>1, <2>2, <2>3, HereSays
<1>2. \A a : Flash!Says(v1, v2, v3, a) <=> r.type = "data" /\ Flash!Covers(p, a)
  BY HereSays
<1>3. r.type = "data" => p \in Pieces /\ Flash!Fits(p) /\ v5' = Flash!Written(v5, p)
  <2> SUFFICES ASSUME r.type = "data" PROVE p \in Pieces /\ Flash!Fits(p) /\ v5' = Flash!Written(v5, p)
    OBVIOUS
  <2>1. r.addr \in Nat /\ r.data \in Seq(0 .. 255)
    BY <1>1, BlocksAre
  <2>2. Flash!BaseAt(v1, v2, v3) \in Nat
    BY <1>1 DEF PlaceInv, FlashTypes, Flash!Reading
  <2>3. p \in Pieces
    BY <2>1, <2>2, PieceTyped, Zenon DEF Flash!PieceOf
  <2> QED BY <2>3
<1>4. \A m \in DOMAIN v1 : \A j \in DOMAIN v1[m].records :
        /\ m \in Nat /\ j \in Nat
        /\ Taken(v2, v3, m, j) => m < v2 \/ (m = v2 /\ j < v3)
        /\ Taken(v2, v3 + 1, m, j) <=> Taken(v2, v3, m, j) \/ (m = v2 /\ j = v3)
  <2> SUFFICES ASSUME NEW m \in DOMAIN v1, NEW j \in DOMAIN v1[m].records
               PROVE  /\ m \in Nat /\ j \in Nat
                      /\ Taken(v2, v3, m, j) => m < v2 \/ (m = v2 /\ j < v3)
                      /\ Taken(v2, v3 + 1, m, j) <=> Taken(v2, v3, m, j) \/ (m = v2 /\ j = v3)
    OBVIOUS
  <2>1. m \in Nat /\ j \in Nat
    BY <1>1, FlashLimits, BlocksAre
  <2> QED BY <1>1, <2>1 DEF Taken
<1>5. \A a : /\ Flash!Says(v1, v2, v3, a) => IsSaid(v1, v2, v3 + 1, a, Flash!ByteIn(p, a))
             /\ ~ Flash!Says(v1, v2, v3, a) =>
                  /\ \A byte : IsSaid(v1, v2, v3, a, byte) => IsSaid(v1, v2, v3 + 1, a, byte)
                  /\ Unsaid(v1, v2, v3, a) => Unsaid(v1, v2, v3 + 1, a)
  BY <1>1, <1>4, OneMore
<1> HIDE DEF p, r
<1>6. /\ v5 \in [DOMAIN v5 -> 0 .. 255] /\ DOMAIN v5 \subseteq 0 .. Top
      /\ r.type # "data" => v5' = v5
  BY <1>1 DEF FlashTypes, r
<1>7. /\ v5' \in [DOMAIN v5' -> 0 .. 255] /\ DOMAIN v5' \subseteq 0 .. Top
      /\ \A a : a \in DOMAIN v5' <=> a \in DOMAIN v5 \/ Flash!Says(v1, v2, v3, a)
      /\ \A a \in DOMAIN v5' :
           v5'[a] = IF Flash!Says(v1, v2, v3, a) THEN Flash!ByteIn(p, a) ELSE v5[a]
  <2>1. CASE r.type = "data"
    <3>1. p \in Pieces /\ Flash!Fits(p) /\ v5' = Flash!Written(v5, p)
      BY <1>3, <2>1
    <3> DEFINE w == Flash!Written(v5, p)
    <3>2. /\ \A a : a \in DOMAIN w <=> a \in DOMAIN v5 \/ Flash!Covers(p, a)
          /\ DOMAIN w \subseteq 0 .. Top
          /\ w \in [DOMAIN w -> 0 .. 255]
          /\ \A a \in DOMAIN w :
               w[a] = IF Flash!Covers(p, a) THEN Flash!ByteIn(p, a) ELSE v5[a]
      BY <1>6, <3>1, WrittenIs, Zenon
    <3>3. v5' = w
      BY <3>1
    <3> HIDE DEF w
    <3> QED BY <1>2, <2>1, <3>2, <3>3, Zenon
  <2>2. CASE r.type # "data"
    BY <1>2, <1>6, <2>2
  <2> QED BY <2>1, <2>2
<1>8. FlashTypes'
  <2>1. /\ v1 \in Loads /\ v2 \in 1 .. Len(v1) + 1 /\ v3 + 1 \in Nat \ {0}
        /\ v6 \in Seq(Pieces) /\ v7 \in {"reading", "listing", "ok", "error"}
    BY <1>1 DEF FlashTypes
  <2> QED BY <1>7, <2>1 DEF FlashTypes
<1>9. PlaceInv'
  <2>1. v3 + 1 <= Len(v1[v2].records) => Flash!Counts(v1, v2, v3 + 1)
    BY <1>1, HereSays, CountsNext
  <2>2. v3' # 1 /\ v7' = "reading"
    BY <1>1 DEF FlashTypes
  <2> QED BY <1>1, <2>1, <2>2 DEF PlaceInv, Flash!Reading
<1>10. HeldInv'
  <2>1. \A a \in DOMAIN v5' : IsSaid(v1, v2, v3 + 1, a, v5'[a])
    BY <1>1, <1>5, <1>7 DEF HeldInv
  <2>2. \A a \in Nat : \A q \in DOMAIN v6 :
          a \notin DOMAIN v5' /\ LastOver(v6, q, a, Len(v6))
            => IsSaid(v1, v2, v3 + 1, a, Flash!ByteIn(v6[q], a))
    BY <1>1, <1>5, <1>7 DEF HeldInv
  <2>3. \A a \in Nat :
          \/ Unsaid(v1, v2, v3 + 1, a)
          \/ a \in DOMAIN v5'
          \/ \E q \in DOMAIN v6 : LastOver(v6, q, a, Len(v6))
    BY <1>1, <1>5, <1>7 DEF HeldInv
  <2> QED BY <1>1, <2>1, <2>2, <2>3 DEF HeldInv
<1>11. CauseInv'
  <2>1. ~ Flash!Wrong(v1, v2, v3)
    <3>1. r.type = "data" => r.addr # -1 /\ Flash!Fits(p)
      BY <1>1, <1>3, BlocksAre DEF r
    <3> QED BY <3>1 DEF Flash!Wrong, r, p
  <2>2. \A n \in DOMAIN v1 : \A k \in DOMAIN v1[n].records :
          Taken(v2, v3 + 1, n, k) /\ Flash!Wrong(v1, n, k) => Taken(v2, v3, n, k)
    BY <1>4, <2>1
  <2> QED BY <1>1, <2>2 DEF CauseInv
<1>12. MergeInv' /\ ApartInv'
  BY <1>1 DEF MergeInv, ApartInv
<1> QED BY <1>8, <1>9, <1>10, <1>11, <1>12 DEF FlashInv

LEMMA RefuseKeeps ==
  ASSUME FlashInv, Flash!Refuse, Flash!Refusable(v1)
  PROVE  FlashInv'
<1>1. /\ v1' = v1 /\ v2' = v2 /\ v3' = v3 /\ v4' = v4 /\ v5' = v5
      /\ v6' = <<>> /\ v7' = "error" /\ <<>> \in Seq(Pieces) /\ ~ Flash!Merging'
  BY EmptySeq DEF Flash!Refuse, Flash!Merging
<1>2. FlashTypes'
  BY <1>1 DEF FlashInv, FlashTypes
<1>3. PlaceInv'
  BY <1>1 DEF PlaceInv, Flash!Reading
<1>4. HeldInv' /\ MergeInv' /\ ApartInv' /\ CauseInv'
  BY <1>1 DEF HeldInv, MergeInv, ApartInv, CauseInv
<1> QED BY <1>2, <1>3, <1>4 DEF FlashInv

(* Behind the end of a file nothing counts.                                *)
LEMMA HexEndKeeps ==
  ASSUME FlashInv, Flash!HexEnd
  PROVE  FlashInv'
<1> DEFINE end == Len(v1[v2].records) + 1
<1>1. /\ FlashTypes /\ PlaceInv /\ HeldInv /\ CauseInv
      /\ v7 = "reading" /\ v2 <= Len(v1) /\ v1[v2].kind = "hex"
      /\ v3 <= Len(v1[v2].records) /\ v1[v2].records[v3].type = "end"
      /\ v1' = v1 /\ v2' = v2 /\ v3' = end /\ v4' = v4 /\ v5' = v5 /\ v6' = v6 /\ v7' = v7
      /\ Flash!Reading
  BY DEF FlashInv, Flash!HexEnd, Flash!InRecords, Flash!Reading, Flash!B, Flash!Record
<1>2. v2 \in DOMAIN v1 /\ v3 \in DOMAIN v1[v2].records /\ v2 \in Nat
  BY <1>1, HereSays
<1>3. /\ v1 \in Loads /\ v3 \in Nat \ {0} /\ Len(v1) \in Nat
      /\ Len(v1[v2].records) \in Nat
  BY <1>1, <1>2, FlashLimits, BlocksAre DEF FlashTypes
<1>4. end \in Nat \ {0, 1} /\ ~ Flash!Merging /\ ~ Flash!Merging'
  BY <1>1, <1>2, <1>3 DEF Flash!Merging
<1>5. \A n \in DOMAIN v1 : \A k \in DOMAIN v1[n].records :
        /\ n \in Nat /\ k \in Nat /\ k > 0
        /\ n = v2 => k < end
  <2> SUFFICES ASSUME NEW n \in DOMAIN v1, NEW k \in DOMAIN v1[n].records
               PROVE  /\ n \in Nat /\ k \in Nat /\ k > 0
                      /\ n = v2 => k < end
    OBVIOUS
  <2>1. /\ n \in Nat /\ k \in Nat /\ k > 0
        /\ Len(v1[n].records) \in Nat /\ k <= Len(v1[n].records)
    BY <1>3, RecordsCounted
  <2> QED BY <2>1
<1> HIDE DEF end
<1>6. \A n \in DOMAIN v1 : \A k \in DOMAIN v1[n].records :
        Flash!Counts(v1, n, k) /\ v1[n].records[k].type # "end" =>
          (Taken(v2, v3, n, k) <=> Taken(v2, end, n, k))
  <2> SUFFICES ASSUME NEW n \in DOMAIN v1, NEW k \in DOMAIN v1[n].records,
                      Flash!Counts(v1, n, k), v1[n].records[k].type # "end"
               PROVE  Taken(v2, v3, n, k) <=> Taken(v2, end, n, k)
    OBVIOUS
  <2>1. n = v2 => ~ (v3 \in 1 .. k - 1) /\ k # v3
    BY <1>1 DEF Flash!Counts
  <2>2. n = v2 => k < v3
    BY <1>3, <1>5, <2>1
  <2> QED BY <1>5, <2>2 DEF Taken
<1>7. \A a : /\ \A byte : IsSaid(v1, v2, v3, a, byte) => IsSaid(v1, v2, end, a, byte)
             /\ Unsaid(v1, v2, v3, a) => Unsaid(v1, v2, end, a)
  <2>1. \A a : \A n \in DOMAIN v1 : \A k \in DOMAIN v1[n].records :
          Flash!Says(v1, n, k, a) => (Taken(v2, v3, n, k) <=> Taken(v2, end, n, k))
    BY <1>6 DEF Flash!Says
  <2> QED BY <2>1, NothingMore
<1>8. FlashTypes'
  BY <1>1, <1>4 DEF FlashTypes
<1>9. PlaceInv'
  <2>1. ~ (end <= Len(v1[v2].records)) /\ end # 1
    BY <1>3, <1>4 DEF end
  <2> QED BY <1>1, <2>1 DEF PlaceInv, Flash!Reading
<1>10. HeldInv'
  <2>1. \A a \in DOMAIN v5 : IsSaid(v1, v2, end, a, v5[a])
    BY <1>1, <1>4, <1>7 DEF HeldInv
  <2>2. \A a \in Nat : \A q \in DOMAIN v6 :
          a \notin DOMAIN v5 /\ LastOver(v6, q, a, Len(v6))
            => IsSaid(v1, v2, end, a, Flash!ByteIn(v6[q], a))
    BY <1>1, <1>4, <1>7 DEF HeldInv
  <2>3. \A a \in Nat :
          \/ Unsaid(v1, v2, end, a)
          \/ a \in DOMAIN v5
          \/ \E q \in DOMAIN v6 : LastOver(v6, q, a, Len(v6))
    BY <1>1, <1>4, <1>7 DEF HeldInv
  <2> QED BY <1>1, <1>4, <2>1, <2>2, <2>3 DEF HeldInv
<1>11. CauseInv'
  <2>1. \A n \in DOMAIN v1 : \A k \in DOMAIN v1[n].records :
          Taken(v2, end, n, k) /\ Flash!Wrong(v1, n, k) => Taken(v2, v3, n, k)
    <3>1. \A n \in DOMAIN v1 : \A k \in DOMAIN v1[n].records :
            Flash!Wrong(v1, n, k) => Flash!Counts(v1, n, k) /\ v1[n].records[k].type # "end"
      BY DEF Flash!Wrong
    <3> QED BY <1>6, <3>1
  <2> QED BY <1>1, <1>4, <2>1 DEF CauseInv
<1>12. MergeInv' /\ ApartInv'
  BY <1>1, <1>4 DEF MergeInv, ApartInv
<1> QED BY <1>8, <1>9, <1>10, <1>11, <1>12 DEF FlashInv

(* The next block begins, or the merging, with an empty memory.            *)
LEMMA PlaceBegins ==
  ASSUME v1 \in Loads, v2 \in DOMAIN v1, v7 = "reading",
         v1' = v1, v2' = v2 + 1, v3' = 1, v4' = 0, v7' = v7, DOMAIN v5' = {},
         v6' \in Seq(Pieces)
  PROVE  PlaceInv' /\ MergeInv' /\ ApartInv'
<1>1. Flash!Reading' => v2 + 1 \in DOMAIN v1
  BY FlashLimits DEF Flash!Reading
<1>2. Flash!Reading' => Flash!Counts(v1, v2 + 1, 1) /\ 0 = Flash!BaseAt(v1, v2 + 1, 1)
  BY <1>1, BaseFirst
<1>3. PlaceInv'
  BY <1>2 DEF PlaceInv
<1>4. MergeInv'
  <2>1. \A q \in DOMAIN v6' : ~ q < 1
    <3>1. DOMAIN v6' = 1 .. Len(v6')
      OBVIOUS
    <3> QED BY <3>1, LenProperties
  <2> QED BY <2>1 DEF MergeInv
<1> QED BY <1>3, <1>4 DEF ApartInv

LEMMA FileEndsKeeps ==
  ASSUME FlashInv, Flash!FileEnds
  PROVE  FlashInv'
<1>1. /\ FlashTypes /\ PlaceInv /\ HeldInv /\ CauseInv
      /\ v7 = "reading" /\ v2 <= Len(v1) /\ v1[v2].kind \in {"hex", "srec"}
      /\ v3 > Len(v1[v2].records) /\ DOMAIN v5 = {}
      /\ v1' = v1 /\ v2' = v2 + 1 /\ v3' = 1 /\ v4' = 0 /\ v5' = v5 /\ v6' = v6 /\ v7' = v7
  BY DEF FlashInv, Flash!FileEnds, Flash!NextBlock, Flash!FileRead, Flash!Reading, Flash!B
<1>2. /\ v1 \in Loads /\ v2 \in Nat \ {0} /\ Len(v1) \in Nat /\ v2 \in DOMAIN v1 /\ v3 \in Nat
      /\ v2 + 1 \in 1 .. Len(v1) + 1
  BY <1>1, FlashLimits DEF FlashTypes
<1>3. ~ Flash!Merging
  BY <1>1, <1>2 DEF Flash!Merging
<1>4. \A n \in DOMAIN v1 : \A k \in DOMAIN v1[n].records :
        Taken(v2, v3, n, k) <=> Taken(v2 + 1, 1, n, k)
  <2> SUFFICES ASSUME NEW n \in DOMAIN v1, NEW k \in DOMAIN v1[n].records
               PROVE  Taken(v2, v3, n, k) <=> Taken(v2 + 1, 1, n, k)
    OBVIOUS
  <2>1. n \in Nat /\ k \in Nat /\ k > 0 /\ Len(v1[n].records) \in Nat /\ k <= Len(v1[n].records)
    BY <1>2, FlashLimits, BlocksAre
  <2>2. n = v2 => k < v3
    BY <1>1, <1>2, <2>1
  <2> QED BY <1>2, <2>1, <2>2 DEF Taken
<1>5. \A a : /\ \A byte : IsSaid(v1, v2, v3, a, byte) => IsSaid(v1, v2 + 1, 1, a, byte)
             /\ Unsaid(v1, v2, v3, a) => Unsaid(v1, v2 + 1, 1, a)
  BY <1>4, NothingMore
<1>6. FlashTypes'
  BY <1>1, <1>2 DEF FlashTypes
<1>7. PlaceInv' /\ MergeInv' /\ ApartInv'
  <2>1. v6' \in Seq(Pieces) /\ DOMAIN v5' = {}
    BY <1>1 DEF FlashTypes
  <2> QED BY <1>1, <1>2, <2>1, PlaceBegins
<1>8. HeldInv'
  <2>1. \A a \in Nat : \A q \in DOMAIN v6 :
          LastOver(v6, q, a, Len(v6)) => IsSaid(v1, v2 + 1, 1, a, Flash!ByteIn(v6[q], a))
    BY <1>1, <1>5 DEF HeldInv
  <2>2. \A a \in Nat :
          Unsaid(v1, v2 + 1, 1, a) \/ \E q \in DOMAIN v6 : LastOver(v6, q, a, Len(v6))
    BY <1>1, <1>5 DEF HeldInv
  <2> QED BY <1>1, <2>1, <2>2 DEF HeldInv
<1>9. CauseInv'
  <2>1. \A n \in DOMAIN v1 : n < v2 + 1 => v1[n].kind # "missing"
    <3>1. \A n \in DOMAIN v1 : n \in Nat
      BY <1>2, FlashLimits
    <3>2. \A n \in DOMAIN v1 : n < v2 + 1 => n < v2 \/ n = v2
      BY <1>2, <3>1
    <3> QED BY <1>1, <3>2 DEF CauseInv
  <2>2. \A q \in DOMAIN v6 : q >= 1
    BY <1>1, LenProperties DEF FlashTypes
  <2>3. \A n \in DOMAIN v1 : \A k \in DOMAIN v1[n].records :
          Taken(v2 + 1, 1, n, k) /\ Flash!Wrong(v1, n, k) =>
            \E q \in DOMAIN v6 : ~ Flash!Fits(v6[q]) /\ q >= 1
    BY <1>1, <1>4, <2>2 DEF CauseInv
  <2> QED BY <1>1, <2>1, <2>3 DEF CauseInv
<1> QED BY <1>6, <1>7, <1>8, <1>9 DEF FlashInv

(* A region after the others stands over them.                             *)
LEMMA RegionAdded ==
  ASSUME NEW rs \in Seq(Pieces), NEW p \in Pieces
  PROVE  LET more == Append(rs, p)
         IN /\ more \in Seq(Pieces)
            /\ Len(rs) \in Nat /\ Len(more) = Len(rs) + 1
            /\ DOMAIN rs = 1 .. Len(rs) /\ DOMAIN more = 1 .. Len(rs) + 1
            /\ \A r \in DOMAIN rs : more[r] = rs[r]
            /\ more[Len(rs) + 1] = p
            /\ \A a : Flash!Covers(p, a) =>
                 \A r \in DOMAIN more : LastOver(more, r, a, Len(more)) <=> r = Len(rs) + 1
            /\ \A a : ~ Flash!Covers(p, a) =>
                 \A r \in DOMAIN more :
                   LastOver(more, r, a, Len(more)) <=> r \in DOMAIN rs /\ LastOver(rs, r, a, Len(rs))
<1> DEFINE more == Append(rs, p)
<1>1. /\ more \in Seq(Pieces)
      /\ Len(rs) \in Nat /\ Len(more) = Len(rs) + 1
      /\ DOMAIN rs = 1 .. Len(rs) /\ DOMAIN more = 1 .. Len(rs) + 1
  BY LenProperties
<1>2. more[Len(rs) + 1] = p /\ \A r \in DOMAIN rs : more[r] = rs[r]
  BY <1>1
<1> HIDE DEF more
<1>3. ASSUME NEW a, Flash!Covers(p, a), NEW r \in DOMAIN more
      PROVE  LastOver(more, r, a, Len(more)) <=> r = Len(rs) + 1
  BY <1>1, <1>2, <1>3 DEF LastOver
<1>4. ASSUME NEW a, ~ Flash!Covers(p, a), NEW r \in DOMAIN more
      PROVE  LastOver(more, r, a, Len(more)) <=> r \in DOMAIN rs /\ LastOver(rs, r, a, Len(rs))
  <2>1. \A q \in DOMAIN more : Flash!Covers(more[q], a) <=> q \in DOMAIN rs /\ Flash!Covers(rs[q], a)
    <3>1. \A q \in DOMAIN more : q \in DOMAIN rs \/ q = Len(rs) + 1
      BY <1>1
    <3>2. Len(rs) + 1 \notin DOMAIN rs
      BY <1>1
    <3> QED BY <1>2, <1>4, <3>1, <3>2
  <2>2. \A q \in DOMAIN more : q <= Len(more) /\ (q \in DOMAIN rs => q <= Len(rs))
    BY <1>1
  <2>3. \A q \in DOMAIN rs : q \in DOMAIN more
    BY <1>1
  <2> QED BY <1>4, <2>1, <2>2, <2>3 DEF LastOver
<1> QED BY <1>1, <1>2, <1>3, <1>4 DEF more

(* A file of bytes without addresses, or an inline value, is one region.   *)
LEMMA RawBlockKeeps ==
  ASSUME FlashInv, Flash!RawBlock
  PROVE  FlashInv'
<1> DEFINE r == v1[v2].records[1]
           p == Flash!Piece(r.addr, r.data)
<1>1. /\ FlashTypes /\ PlaceInv /\ HeldInv /\ CauseInv /\ Flash!Reading
      /\ v7 = "reading" /\ v2 <= Len(v1) /\ v1[v2].kind \in {"binary", "inline"}
  BY DEF FlashInv, Flash!RawBlock, Flash!Reading, Flash!B
<1>2. /\ v1 \in Loads /\ v2 \in Nat \ {0} /\ Len(v1) \in Nat /\ v2 \in DOMAIN v1
      /\ v2 + 1 \in 1 .. Len(v1) + 1 /\ v6 \in Seq(Pieces)
  BY <1>1, FlashLimits DEF FlashTypes
<1>3. /\ Len(v1[v2].records) = 1 /\ 1 \in DOMAIN v1[v2].records
      /\ r.type = "data" /\ r.addr \in Nat \cup {-1} /\ r.data \in Seq(0 .. 255)
  BY <1>1, <1>2, BlocksAre
<1>4. v3 = 1 /\ DOMAIN v5 = {} /\ ~ Flash!Merging
  BY <1>1, <1>2 DEF PlaceInv, Flash!Merging
<1>5. Flash!PieceOf(v1, v2, 1) = p /\ Flash!Counts(v1, v2, 1)
  <2>1. Flash!BaseAt(v1, v2, 1) = 0 /\ Flash!Counts(v1, v2, 1)
    BY <1>2, BaseFirst
  <2>2. 0 + r.addr = r.addr
    BY <1>3
  <2> QED BY <2>1, <2>2 DEF Flash!PieceOf
<1>6. Flash!Wrong(v1, v2, 1) <=> (r.addr = -1 \/ ~ Flash!Fits(p))
  BY <1>3, <1>5 DEF Flash!Wrong
<1>7. \A a : Flash!Says(v1, v2, 1, a) <=> Flash!Covers(p, a)
  BY <1>3, <1>5 DEF Flash!Says
<1>8. CASE r.addr = -1 \/ (v1[v2].kind = "binary" /\ ~ Flash!Fits(p))
  <2>1. Flash!Refuse
    BY <1>8 DEF Flash!RawBlock, Flash!B
  <2>2. Flash!Refusable(v1)
    BY <1>2, <1>3, <1>6, <1>8 DEF Flash!Refusable
  <2> QED BY <2>1, <2>2, RefuseKeeps
<1>9. CASE ~ (r.addr = -1 \/ (v1[v2].kind = "binary" /\ ~ Flash!Fits(p)))
  <2> DEFINE more == Append(v6, p)
  <2>1. /\ v1' = v1 /\ v2' = v2 + 1 /\ v3' = 1 /\ v4' = 0 /\ v5' = v5 /\ v6' = more /\ v7' = v7
    BY <1>9 DEF Flash!RawBlock, Flash!B, Flash!NextBlock
  <2>2. p \in Pieces
    BY <1>3, <1>9 DEF Pieces, Flash!Piece
  <2>3. /\ more \in Seq(Pieces)
        /\ Len(v6) \in Nat /\ Len(more) = Len(v6) + 1
        /\ DOMAIN v6 = 1 .. Len(v6) /\ DOMAIN more = 1 .. Len(v6) + 1
        /\ \A q \in DOMAIN v6 : more[q] = v6[q]
        /\ more[Len(v6) + 1] = p
        /\ \A a : Flash!Covers(p, a) =>
             \A q \in DOMAIN more : LastOver(more, q, a, Len(more)) <=> q = Len(v6) + 1
        /\ \A a : ~ Flash!Covers(p, a) =>
             \A q \in DOMAIN more :
               LastOver(more, q, a, Len(more)) <=> q \in DOMAIN v6 /\ LastOver(v6, q, a, Len(v6))
    BY <1>2, <2>2, RegionAdded
  <2>4. \A n \in DOMAIN v1 : \A k \in DOMAIN v1[n].records :
          /\ n \in Nat /\ k \in Nat
          /\ Taken(v2, 1, n, k) => n < v2 \/ (n = v2 /\ k < 1)
          /\ Taken(v2 + 1, 1, n, k) <=> Taken(v2, 1, n, k) \/ (n = v2 /\ k = 1)
    <3> SUFFICES ASSUME NEW n \in DOMAIN v1, NEW k \in DOMAIN v1[n].records
                 PROVE  /\ n \in Nat /\ k \in Nat
                        /\ Taken(v2, 1, n, k) => n < v2 \/ (n = v2 /\ k < 1)
                        /\ Taken(v2 + 1, 1, n, k) <=> Taken(v2, 1, n, k) \/ (n = v2 /\ k = 1)
      OBVIOUS
    <3>1. n \in Nat /\ k \in Nat /\ k > 0 /\ k <= Len(v1[n].records)
      BY <1>2, RecordsCounted
    <3>2. n = v2 => k <= 1
      BY <1>3, <3>1
    <3> QED BY <1>2, <3>1, <3>2 DEF Taken
  <2>5. \A a : /\ Flash!Covers(p, a) => IsSaid(v1, v2 + 1, 1, a, Flash!ByteIn(p, a))
               /\ ~ Flash!Covers(p, a) =>
                    /\ \A byte : IsSaid(v1, v2, 1, a, byte) => IsSaid(v1, v2 + 1, 1, a, byte)
                    /\ Unsaid(v1, v2, 1, a) => Unsaid(v1, v2 + 1, 1, a)
    <3> SUFFICES ASSUME NEW a
                 PROVE  /\ Flash!Covers(p, a) => IsSaid(v1, v2 + 1, 1, a, Flash!ByteIn(p, a))
                        /\ ~ Flash!Covers(p, a) =>
                             /\ \A byte : IsSaid(v1, v2, 1, a, byte) => IsSaid(v1, v2 + 1, 1, a, byte)
                             /\ Unsaid(v1, v2, 1, a) => Unsaid(v1, v2 + 1, 1, a)
      OBVIOUS
    <3>1. 1 \in Nat
      OBVIOUS
    <3>2. /\ Flash!Says(v1, v2, 1, a) =>
               IsSaid(v1, v2 + 1, 1, a, Flash!ByteIn(Flash!PieceOf(v1, v2, 1), a))
          /\ ~ Flash!Says(v1, v2, 1, a) =>
               /\ \A byte : IsSaid(v1, v2, 1, a, byte) => IsSaid(v1, v2 + 1, 1, a, byte)
               /\ Unsaid(v1, v2, 1, a) => Unsaid(v1, v2 + 1, 1, a)
      BY <1>2, <1>3, <2>4, <3>1, OneMore, Zenon
    <3>3. Flash!Says(v1, v2, 1, a) <=> Flash!Covers(p, a)
      BY <1>7
    <3> QED BY <1>5, <3>2, <3>3, Zenon
  <2> HIDE DEF more, p, r
  <2>6. FlashTypes'
    <3>1. more \in Seq(Pieces)
      BY <2>3
    <3>2. /\ DOMAIN v5 \subseteq 0 .. Top /\ v5 \in [DOMAIN v5 -> 0 .. 255]
          /\ v7 \in {"reading", "listing", "ok", "error"}
      BY <1>1 DEF FlashTypes
    <3>3. v1' \in Loads /\ v2' \in 1 .. Len(v1') + 1 /\ v3' \in Nat \ {0} /\ v4' \in Nat
      BY <1>2, <2>1
    <3>4. DOMAIN v5' \subseteq 0 .. Top /\ v5' \in [DOMAIN v5' -> 0 .. 255]
      BY <2>1, <3>2
    <3> QED BY <2>1, <3>1, <3>2, <3>3, <3>4 DEF FlashTypes
  <2>7. PlaceInv' /\ MergeInv' /\ ApartInv'
    <3>1. v6' \in Seq(Pieces)
      BY <2>6 DEF FlashTypes
    <3> QED BY <1>1, <1>2, <1>4, <2>1, <3>1, PlaceBegins
  <2>8. HeldInv'
    <3>1. \A a \in Nat : \A q \in DOMAIN more :
            LastOver(more, q, a, Len(more)) => IsSaid(v1, v2 + 1, 1, a, Flash!ByteIn(more[q], a))
      <4> SUFFICES ASSUME NEW a \in Nat, NEW q \in DOMAIN more, LastOver(more, q, a, Len(more))
                   PROVE  IsSaid(v1, v2 + 1, 1, a, Flash!ByteIn(more[q], a))
        OBVIOUS
      <4>1. CASE Flash!Covers(p, a)
        BY <2>3, <2>5, <4>1
      <4>2. CASE ~ Flash!Covers(p, a)
        <5>1. q \in DOMAIN v6 /\ LastOver(v6, q, a, Len(v6)) /\ more[q] = v6[q]
          BY <2>3, <4>2
        <5>2. IsSaid(v1, v2, 1, a, Flash!ByteIn(v6[q], a))
          BY <1>1, <1>4, <5>1 DEF HeldInv
        <5> QED BY <2>5, <4>2, <5>1, <5>2
      <4> QED BY <4>1, <4>2
    <3>2. \A a \in Nat :
            Unsaid(v1, v2 + 1, 1, a) \/ \E q \in DOMAIN more : LastOver(more, q, a, Len(more))
      <4> SUFFICES ASSUME NEW a \in Nat
                   PROVE  \/ Unsaid(v1, v2 + 1, 1, a)
                          \/ \E q \in DOMAIN more : LastOver(more, q, a, Len(more))
        OBVIOUS
      <4>1. CASE Flash!Covers(p, a)
        BY <2>3, <4>1
      <4>2. CASE ~ Flash!Covers(p, a)
        <5>1. Unsaid(v1, v2, 1, a) \/ \E q \in DOMAIN v6 : LastOver(v6, q, a, Len(v6))
          BY <1>1, <1>4 DEF HeldInv
        <5>2. \A q \in DOMAIN v6 : q \in DOMAIN more
          BY <2>3
        <5> QED BY <2>3, <2>5, <4>2, <5>1, <5>2
      <4> QED BY <4>1, <4>2
    <3> QED BY <1>4, <2>1, <3>1, <3>2 DEF HeldInv
  <2>9. CauseInv'
    <3>1. \A n \in DOMAIN v1 : n < v2 + 1 => v1[n].kind # "missing"
      <4>1. \A n \in DOMAIN v1 : n \in Nat
        BY <1>2, FlashLimits
      <4>2. \A n \in DOMAIN v1 : n < v2 + 1 => n < v2 \/ n = v2
        BY <1>2, <4>1
      <4> QED BY <1>1, <4>2 DEF CauseInv
    <3>2. \A q \in DOMAIN more : Flash!Fits(more[q]) \/ Flash!Refusable(v1)
      <4>1. Flash!Fits(p) \/ Flash!Refusable(v1)
        BY <1>2, <1>3, <1>6 DEF Flash!Refusable
      <4>2. \A q \in DOMAIN v6 : Flash!Fits(v6[q]) \/ Flash!Refusable(v1)
        BY <1>1 DEF CauseInv
      <4>3. \A q \in DOMAIN more : q \in DOMAIN v6 \/ q = Len(v6) + 1
        BY <2>3
      <4> QED BY <2>3, <4>1, <4>2, <4>3
    <3>3. \A q \in DOMAIN more : q >= 1
      BY <2>3
    <3>4. \A n \in DOMAIN v1 : \A k \in DOMAIN v1[n].records :
            Taken(v2 + 1, 1, n, k) /\ Flash!Wrong(v1, n, k) =>
              \E q \in DOMAIN more : ~ Flash!Fits(more[q])
      <4> SUFFICES ASSUME NEW n \in DOMAIN v1, NEW k \in DOMAIN v1[n].records,
                          Taken(v2 + 1, 1, n, k), Flash!Wrong(v1, n, k)
                   PROVE  \E q \in DOMAIN more : ~ Flash!Fits(more[q])
        OBVIOUS
      <4>1. CASE Taken(v2, 1, n, k)
        <5>1. \E q \in DOMAIN v6 : ~ Flash!Fits(v6[q])
          BY <1>1, <1>4, <4>1 DEF CauseInv
        <5>2. \A q \in DOMAIN v6 : q \in DOMAIN more
          BY <2>3
        <5> QED BY <2>3, <5>1, <5>2
      <4>2. CASE n = v2 /\ k = 1
        <5>1. ~ Flash!Fits(p) /\ Len(v6) + 1 \in DOMAIN more
          BY <1>6, <1>9, <2>3, <4>2
        <5> QED BY <2>3, <5>1
      <4> QED BY <2>4, <4>1, <4>2
    <3> QED BY <1>1, <2>1, <3>1, <3>2, <3>3, <3>4 DEF CauseInv
  <2> QED BY <2>6, <2>7, <2>8, <2>9 DEF FlashInv
<1> QED BY <1>8, <1>9

(* A run of the memory becomes a region, which holds the same.             *)
LEMMA NextRunKeeps ==
  ASSUME FlashInv, Flash!NextRun
  PROVE  FlashInv'
<1>1. /\ FlashTypes /\ PlaceInv /\ HeldInv /\ ApartInv /\ CauseInv
      /\ v1' = v1 /\ v2' = v2 /\ v3' = v3 /\ v4' = v4 /\ v7' = v7
      /\ (v7 = "reading" /\ v2 <= Len(v1) /\ v1[v2].kind \in {"hex", "srec"} /\ v3 > Len(v1[v2].records))
           \/ v7 = "listing"
  BY DEF FlashInv, Flash!NextRun, Flash!FileRead, Flash!Reading, Flash!B
<1>2. PICK s \in DOMAIN v5, e \in DOMAIN v5 : Flash!TakeRun(s, e)
  BY DEF Flash!NextRun
<1> DEFINE data == [k \in 1 .. e - s + 1 |-> v5[s + k - 1]]
           p == Flash!Piece(s, data)
           more == Append(v6, p)
<1>3. /\ \A a \in DOMAIN v5 : s <= a
      /\ s <= e /\ s .. e \subseteq DOMAIN v5 /\ e + 1 \notin DOMAIN v5
      /\ v6' = more
      /\ v5' = [a \in (DOMAIN v5) \ (s .. e) |-> v5[a]]
  BY <1>2 DEF Flash!TakeRun
<1>4. /\ v1 \in Loads /\ Len(v1) \in Nat /\ v2 \in Nat /\ Top \in Nat /\ v6 \in Seq(Pieces)
      /\ v2 \in 1 .. Len(v1) + 1
      /\ DOMAIN v5 \subseteq 0 .. Top /\ v5 \in [DOMAIN v5 -> 0 .. 255]
      /\ s \in Nat /\ e \in Nat /\ e <= Top
  BY <1>1, FlashLimits DEF FlashTypes
<1>5. ~ Flash!Merging /\ ~ Flash!Merging' /\ ~ (Flash!Reading' /\ v3 <= Len(v1[v2].records))
  <2>1. v7 = "reading" => v2 <= Len(v1) /\ v3 > Len(v1[v2].records) /\ v2 \in DOMAIN v1
    BY <1>1, <1>4, FlashLimits
  <2>2. v7 = "reading" => Len(v1[v2].records) \in Nat /\ v3 \in Nat
    BY <1>1, <1>4, <2>1, BlocksAre DEF FlashTypes
  <2> QED BY <1>1, <1>4, <2>1, <2>2 DEF Flash!Merging, Flash!Reading
<1>6. /\ DOMAIN v5' = (DOMAIN v5) \ (s .. e)
      /\ \A a \in DOMAIN v5' : v5'[a] = v5[a]
      /\ v5' \in [DOMAIN v5' -> 0 .. 255]
  BY <1>3, <1>4
<1>7. data \in Seq(0 .. 255) /\ Len(data) = e - s + 1 /\ p \in Pieces
  <2>1. e - s + 1 \in Nat /\ data \in [1 .. e - s + 1 -> 0 .. 255]
    <3>1. \A k \in 1 .. e - s + 1 : s + k - 1 \in s .. e
      BY <1>4
    <3>2. \A k \in 1 .. e - s + 1 : v5[s + k - 1] \in 0 .. 255
      BY <1>3, <1>4, <3>1
    <3>3. e - s + 1 \in Nat
      BY <1>3, <1>4
    <3> QED BY <3>2, <3>3
  <2> DEFINE n == e - s + 1
  <2> HIDE DEF data, n
  <2>2. n \in Nat /\ data \in [1 .. n -> 0 .. 255]
    BY <2>1 DEF n
  <2>3. data \in Seq(0 .. 255)
    BY <2>2
  <2>4. Len(data) = n
    BY <2>2, <2>3, LenProperties
  <2>5. data \in Seq(0 .. 255) /\ Len(data) = e - s + 1
    BY <2>3, <2>4 DEF n
  <2> QED BY <1>4, <2>5 DEF Flash!Piece, Pieces
<1>8. \A a : Flash!Covers(p, a) <=> a \in s .. e
  <2>1. p.base = s /\ p.data = data
    BY DEF Flash!Piece
  <2>2. s + (e - s + 1) - 1 = e
    BY <1>4
  <2> QED BY <1>7, <2>1, <2>2 DEF Flash!Covers
<1>9. \A a \in s .. e : Flash!ByteIn(p, a) = v5[a]
  <2> SUFFICES ASSUME NEW a \in s .. e PROVE Flash!ByteIn(p, a) = v5[a]
    OBVIOUS
  <2>1. a - s + 1 \in 1 .. e - s + 1 /\ s + (a - s + 1) - 1 = a
    BY <1>4
  <2> QED BY <2>1 DEF Flash!ByteIn, Flash!Piece
<1>10. p.base = s /\ p.data = data /\ p.base + Len(p.data) = e + 1 /\ p.data # <<>> /\ Flash!Fits(p)
  <2>1. p.base = s /\ p.data = data
    BY DEF Flash!Piece
  <2>2. Len(<<>>) = 0
    OBVIOUS
  <2> HIDE DEF data, p
  <2>3. p.data # <<>>
    BY <1>3, <1>4, <1>7, <2>1, <2>2
  <2>4. s + (e - s + 1) = e + 1 /\ s + (e - s + 1) - 1 <= Top
    BY <1>4
  <2>5. p.base + Len(p.data) = e + 1 /\ p.base + Len(p.data) - 1 <= Top
    BY <1>7, <2>1, <2>4, Zenon
  <2>6. Flash!Fits(p)
    BY <2>5, Zenon DEF Flash!Fits
  <2> QED BY <2>1, <2>3, <2>5, <2>6
<1> HIDE DEF p, data
<1>11. /\ more \in Seq(Pieces)
       /\ Len(v6) \in Nat /\ Len(more) = Len(v6) + 1
       /\ DOMAIN v6 = 1 .. Len(v6) /\ DOMAIN more = 1 .. Len(v6) + 1
       /\ \A q \in DOMAIN v6 : more[q] = v6[q]
       /\ more[Len(v6) + 1] = p
       /\ \A a : Flash!Covers(p, a) =>
            \A q \in DOMAIN more : LastOver(more, q, a, Len(more)) <=> q = Len(v6) + 1
       /\ \A a : ~ Flash!Covers(p, a) =>
            \A q \in DOMAIN more :
              LastOver(more, q, a, Len(more)) <=> q \in DOMAIN v6 /\ LastOver(v6, q, a, Len(v6))
  BY <1>4, <1>7, RegionAdded
<1> HIDE DEF more
<1>12. \A q \in DOMAIN more : q \in DOMAIN v6 \/ q = Len(v6) + 1
  BY <1>11
<1>13. \A q \in DOMAIN v6 : q \in DOMAIN more
  BY <1>11
<1>14. FlashTypes'
  <2>1. /\ v2 \in 1 .. Len(v1) + 1 /\ v3 \in Nat \ {0} /\ v4 \in Nat
        /\ v7 \in {"reading", "listing", "ok", "error"}
    BY <1>1 DEF FlashTypes
  <2>2. DOMAIN v5' \subseteq 0 .. Top
    BY <1>4, <1>6
  <2>3. more \in Seq(Pieces)
    BY <1>11
  <2> QED BY <1>1, <1>3, <1>4, <1>6, <2>1, <2>2, <2>3 DEF FlashTypes
<1>15. PlaceInv'
  <2>1. v7 = "reading" /\ v3 = 1 => DOMAIN v5' = {}
    BY <1>1, <1>6 DEF PlaceInv
  <2>2. v7 \in {"listing", "ok"} => v2 = Len(v1) + 1
    BY <1>1 DEF PlaceInv
  <2>3. Flash!Reading' /\ v1[v2].kind \notin {"hex", "srec"} => v3 = 1
    BY <1>1 DEF Flash!Reading
  <2>4. v7 # "ok"
    BY <1>1
  <2> QED BY <1>1, <1>5, <2>1, <2>2, <2>3, <2>4 DEF PlaceInv
<1>16. HeldInv'
  <2>1. \A a \in DOMAIN v5' : IsSaid(v1, v2, v3, a, v5'[a])
    BY <1>1, <1>5, <1>6 DEF HeldInv
  <2>2. \A a \in Nat : \A q \in DOMAIN more :
          a \notin DOMAIN v5' /\ LastOver(more, q, a, Len(more))
            => IsSaid(v1, v2, v3, a, Flash!ByteIn(more[q], a))
    <3> SUFFICES ASSUME NEW a \in Nat, NEW q \in DOMAIN more,
                        a \notin DOMAIN v5', LastOver(more, q, a, Len(more))
                 PROVE  IsSaid(v1, v2, v3, a, Flash!ByteIn(more[q], a))
      OBVIOUS
    <3>1. CASE a \in s .. e
      <4>1. more[q] = p
        BY <1>8, <1>11, <3>1
      <4>2. a \in DOMAIN v5 /\ Flash!ByteIn(p, a) = v5[a]
        BY <1>3, <1>9, <3>1
      <4>3. IsSaid(v1, v2, v3, a, v5[a])
        BY <1>1, <1>5, <4>2 DEF HeldInv
      <4> QED BY <4>1, <4>2, <4>3
    <3>2. CASE a \notin s .. e
      <4>1. q \in DOMAIN v6 /\ LastOver(v6, q, a, Len(v6)) /\ more[q] = v6[q]
        BY <1>8, <1>11, <3>2
      <4>2. a \notin DOMAIN v5
        BY <1>6, <3>2
      <4> QED BY <1>1, <4>1, <4>2 DEF HeldInv
    <3> QED BY <3>1, <3>2
  <2>3. \A a \in Nat :
          \/ Unsaid(v1, v2, v3, a)
          \/ a \in DOMAIN v5'
          \/ \E q \in DOMAIN more : LastOver(more, q, a, Len(more))
    <3> SUFFICES ASSUME NEW a \in Nat, ~ Unsaid(v1, v2, v3, a), a \notin DOMAIN v5'
                 PROVE  \E q \in DOMAIN more : LastOver(more, q, a, Len(more))
      OBVIOUS
    <3>1. CASE a \in s .. e
      <4>1. Len(v6) + 1 \in DOMAIN more
        BY <1>11
      <4> QED BY <1>8, <1>11, <3>1, <4>1
    <3>2. CASE a \notin s .. e
      <4>1. a \notin DOMAIN v5
        BY <1>6, <3>2
      <4>2. PICK q \in DOMAIN v6 : LastOver(v6, q, a, Len(v6))
        BY <1>1, <4>1 DEF HeldInv
      <4> QED BY <1>8, <1>11, <1>13, <3>2, <4>2
    <3> QED BY <3>1, <3>2
  <2> QED BY <1>1, <1>3, <1>5, <2>1, <2>2, <2>3 DEF HeldInv
<1>17. ApartInv'
  <2> SUFFICES ASSUME v7 = "listing", NEW q \in DOMAIN more
               PROVE  /\ more[q].data # <<>> /\ Flash!Fits(more[q])
                      /\ \A i \in 1 .. q - 1 : more[q].base > more[i].base + Len(more[i].data)
                      /\ \A a \in DOMAIN v5' : a > more[q].base + Len(more[q].data)
    BY <1>1, <1>3 DEF ApartInv
  <2>1. CASE q \in DOMAIN v6
    <3>1. /\ v6[q].data # <<>> /\ Flash!Fits(v6[q])
          /\ \A i \in 1 .. q - 1 : v6[q].base > v6[i].base + Len(v6[i].data)
          /\ \A a \in DOMAIN v5 : a > v6[q].base + Len(v6[q].data)
      BY <1>1, <2>1 DEF ApartInv
    <3>2. \A i \in 1 .. q - 1 : i \in DOMAIN v6
      BY <1>11, <2>1
    <3> QED BY <1>6, <1>11, <2>1, <3>1, <3>2
  <2>2. CASE q = Len(v6) + 1
    <3>1. more[q] = p
      BY <1>11, <2>2
    <3>2. \A i \in 1 .. q - 1 : s > more[i].base + Len(more[i].data)
      <4>1. \A i \in 1 .. q - 1 : i \in DOMAIN v6
        BY <1>11, <2>2
      <4> QED BY <1>1, <1>11, <4>1 DEF ApartInv
    <3>3. \A a \in DOMAIN v5' : a > e + 1
      <4> SUFFICES ASSUME NEW a \in DOMAIN v5' PROVE a > e + 1
        OBVIOUS
      <4>1. a \in DOMAIN v5 /\ a \notin s .. e /\ s <= a /\ a \in Nat /\ a # e + 1
        BY <1>3, <1>4, <1>6
      <4> QED BY <1>4, <4>1
    <3> QED BY <1>10, <3>1, <3>2, <3>3
  <2> QED BY <1>12, <2>1, <2>2
<1>18. CauseInv'
  <2>1. v7 = "reading" => \A q \in DOMAIN more : Flash!Fits(more[q]) \/ Flash!Refusable(v1)
    BY <1>1, <1>10, <1>11, <1>12 DEF CauseInv
  <2>2. \A n \in DOMAIN v1 : n < v2 => v1[n].kind # "missing"
    BY <1>1 DEF CauseInv
  <2>3. \A n \in DOMAIN v1 : \A k \in DOMAIN v1[n].records :
          Taken(v2, v3, n, k) /\ Flash!Wrong(v1, n, k) =>
            v7 = "reading" /\ \E q \in DOMAIN more : ~ Flash!Fits(more[q])
    <3> SUFFICES ASSUME NEW n \in DOMAIN v1, NEW k \in DOMAIN v1[n].records,
                        Taken(v2, v3, n, k), Flash!Wrong(v1, n, k)
                 PROVE  v7 = "reading" /\ \E q \in DOMAIN more : ~ Flash!Fits(more[q])
      OBVIOUS
    <3>1. v7 = "reading" /\ \E q \in DOMAIN v6 : ~ Flash!Fits(v6[q])
      BY <1>1 DEF CauseInv
    <3> QED BY <1>11, <1>13, <3>1
  <2> QED BY <1>1, <1>3, <1>5, <2>1, <2>2, <2>3 DEF CauseInv
<1>19. MergeInv'
  BY <1>5 DEF MergeInv
<1> QED BY <1>14, <1>15, <1>16, <1>17, <1>18, <1>19 DEF FlashInv

(* A region is merged: it is the last of those that were.                  *)
LEMMA MergeRegionKeeps ==
  ASSUME FlashInv, Flash!MergeRegion
  PROVE  FlashInv'
<1> DEFINE p == v6[v3]
<1>1. /\ FlashTypes /\ PlaceInv /\ HeldInv /\ MergeInv /\ CauseInv
      /\ Flash!Merging /\ v7 = "reading" /\ v2 > Len(v1) /\ v3 <= Len(v6)
  BY DEF FlashInv, Flash!MergeRegion, Flash!Merging
<1>2. /\ v1 \in Loads /\ Len(v1) \in Nat /\ v2 \in Nat /\ v2 = Len(v1) + 1 /\ v3 \in Nat \ {0}
      /\ v6 \in Seq(Pieces) /\ Len(v6) \in Nat /\ DOMAIN v6 = 1 .. Len(v6) /\ v3 \in DOMAIN v6
      /\ DOMAIN v5 \subseteq 0 .. Top /\ v5 \in [DOMAIN v5 -> 0 .. 255]
  <2>1. v6 \in Seq(Pieces) /\ Len(v6) \in Nat /\ DOMAIN v6 = 1 .. Len(v6)
    BY <1>1, LenProperties DEF FlashTypes
  <2> QED BY <1>1, <2>1, FlashLimits DEF FlashTypes
<1>3. p \in Pieces
  BY <1>2, ElementOfSeq
<1>4. CASE ~ Flash!Fits(p)
  <2>1. Flash!Refuse
    BY <1>4 DEF Flash!MergeRegion
  <2>2. Flash!Refusable(v1)
    BY <1>1, <1>2, <1>4 DEF CauseInv
  <2> QED BY <2>1, <2>2, RefuseKeeps
<1>5. CASE Flash!Fits(p)
  <2>1. /\ v5' = Flash!Written(v5, p) /\ v3' = v3 + 1
        /\ v1' = v1 /\ v2' = v2 /\ v4' = v4 /\ v6' = v6 /\ v7' = v7
    BY <1>5 DEF Flash!MergeRegion
  <2>2. LET w == Flash!Written(v5, p)
        IN /\ \A a : a \in DOMAIN w <=> a \in DOMAIN v5 \/ Flash!Covers(p, a)
           /\ DOMAIN w \subseteq 0 .. Top
           /\ w \in [DOMAIN w -> 0 .. 255]
           /\ \A a \in DOMAIN w :
                w[a] = IF Flash!Covers(p, a) THEN Flash!ByteIn(p, a) ELSE v5[a]
    BY <1>2, <1>3, <1>5, WrittenIs
  <2>3. /\ \A a : a \in DOMAIN v5' <=> a \in DOMAIN v5 \/ Flash!Covers(p, a)
        /\ DOMAIN v5' \subseteq 0 .. Top
        /\ v5' \in [DOMAIN v5' -> 0 .. 255]
        /\ \A a \in DOMAIN v5' :
             v5'[a] = IF Flash!Covers(p, a) THEN Flash!ByteIn(p, a) ELSE v5[a]
    BY <2>1, <2>2
  <2>4. \A n \in DOMAIN v1 : \A k \in DOMAIN v1[n].records :
          Taken(v2, v3, n, k) <=> Taken(v2, v3 + 1, n, k)
    BY <1>2, FlashLimits DEF Taken
  <2>5. \A a : /\ \A byte : IsSaid(v1, v2, v3, a, byte) => IsSaid(v1, v2, v3 + 1, a, byte)
               /\ Unsaid(v1, v2, v3, a) => Unsaid(v1, v2, v3 + 1, a)
    BY <2>4, NothingMore
  <2>6. Flash!Merging' /\ ~ Flash!Reading'
    BY <1>1, <1>2, <2>1 DEF Flash!Merging, Flash!Reading
  <2>7. v3 - 1 \in Nat /\ (v3 + 1) - 1 = v3 /\ \A q \in DOMAIN v6 : q \in Nat
    BY <1>2
  <2> HIDE DEF p
  <2>8. FlashTypes'
    <3>1. /\ v4 \in Nat /\ v7 \in {"reading", "listing", "ok", "error"}
          /\ v2 \in 1 .. Len(v1) + 1
      BY <1>1 DEF FlashTypes
    <3>2. v3 + 1 \in Nat \ {0}
      BY <1>2
    <3> QED BY <1>2, <2>1, <2>3, <3>1, <3>2 DEF FlashTypes
  <2>9. PlaceInv'
    <3>1. v3 + 1 # 1 /\ v7 = "reading"
      BY <1>1, <1>2
    <3> QED BY <2>1, <2>6, <3>1 DEF PlaceInv
  <2>10. HeldInv'
    <3>1. \A a \in Nat : \A q \in DOMAIN v6 :
            LastOver(v6, q, a, Len(v6)) => IsSaid(v1, v2, v3 + 1, a, Flash!ByteIn(v6[q], a))
      BY <1>1, <2>5 DEF HeldInv
    <3>2. \A a \in Nat :
            Unsaid(v1, v2, v3 + 1, a) \/ \E q \in DOMAIN v6 : LastOver(v6, q, a, Len(v6))
      BY <1>1, <2>5 DEF HeldInv
    <3> QED BY <2>1, <2>6, <3>1, <3>2 DEF HeldInv
  <2>11. MergeInv'
    <3>1. ASSUME NEW a \in DOMAIN v5'
          PROVE  \E q \in DOMAIN v6 : LastOver(v6, q, a, v3) /\ v5'[a] = Flash!ByteIn(v6[q], a)
      <4>1. CASE Flash!Covers(p, a)
        <5>1. LastOver(v6, v3, a, v3)
          BY <1>2, <4>1 DEF LastOver, p
        <5>2. v5'[a] = Flash!ByteIn(v6[v3], a)
          BY <2>3, <3>1, <4>1 DEF p
        <5> QED BY <1>2, <5>1, <5>2
      <4>2. CASE ~ Flash!Covers(p, a)
        <5>1. a \in DOMAIN v5 /\ v5'[a] = v5[a]
          BY <2>3, <3>1, <4>2
        <5>2. PICK q \in DOMAIN v6 : LastOver(v6, q, a, v3 - 1) /\ v5[a] = Flash!ByteIn(v6[q], a)
          BY <1>1, <5>1 DEF MergeInv
        <5>3. LastOver(v6, q, a, v3)
          <6>1. \A i \in DOMAIN v6 : i <= v3 /\ Flash!Covers(v6[i], a) => i <= v3 - 1
            <7>1. \A i \in DOMAIN v6 : i <= v3 => i = v3 \/ i <= v3 - 1
              BY <1>2, <2>7
            <7> QED BY <4>2, <7>1 DEF p
          <6>2. q <= v3 - 1 /\ Flash!Covers(v6[q], a)
                  /\ \A i \in DOMAIN v6 : i <= v3 - 1 /\ Flash!Covers(v6[i], a) => i <= q
            BY <5>2 DEF LastOver
          <6>3. q <= v3
            BY <1>2, <2>7, <6>2
          <6> QED BY <6>1, <6>2, <6>3 DEF LastOver
        <5> QED BY <5>1, <5>2, <5>3
      <4> QED BY <4>1, <4>2
    <3>2. \A a \in Nat : \A q \in DOMAIN v6 : q < v3 + 1 /\ Flash!Covers(v6[q], a) => a \in DOMAIN v5'
      <4> SUFFICES ASSUME NEW a \in Nat, NEW q \in DOMAIN v6, q < v3 + 1, Flash!Covers(v6[q], a)
                   PROVE  a \in DOMAIN v5'
        OBVIOUS
      <4>1. q = v3 \/ q < v3
        BY <1>2, <2>7
      <4>2. CASE q = v3
        BY <2>3, <4>2 DEF p
      <4>3. CASE q < v3
        BY <1>1, <2>3, <4>3 DEF MergeInv
      <4> QED BY <4>1, <4>2, <4>3
    <3> QED BY <2>1, <2>7, <3>1, <3>2 DEF MergeInv
  <2>12. CauseInv'
    <3>1. \A n \in DOMAIN v1 : \A k \in DOMAIN v1[n].records :
            Taken(v2, v3 + 1, n, k) /\ Flash!Wrong(v1, n, k) =>
              \E q \in DOMAIN v6 : ~ Flash!Fits(v6[q]) /\ q >= v3 + 1
      <4> SUFFICES ASSUME NEW n \in DOMAIN v1, NEW k \in DOMAIN v1[n].records,
                          Taken(v2, v3 + 1, n, k), Flash!Wrong(v1, n, k)
                   PROVE  \E q \in DOMAIN v6 : ~ Flash!Fits(v6[q]) /\ q >= v3 + 1
        OBVIOUS
      <4>1. PICK q \in DOMAIN v6 : ~ Flash!Fits(v6[q]) /\ q >= v3
        BY <1>1, <2>4 DEF CauseInv
      <4>2. q # v3
        BY <1>5, <4>1 DEF p
      <4>3. q >= v3 + 1
        BY <1>2, <2>7, <4>1, <4>2
      <4> QED BY <4>1, <4>3
    <3> QED BY <1>1, <2>1, <3>1 DEF CauseInv
  <2>13. ApartInv'
    BY <1>1, <2>1 DEF ApartInv
  <2> QED BY <2>8, <2>9, <2>10, <2>11, <2>12, <2>13 DEF FlashInv
<1> QED BY <1>4, <1>5

(* All are merged: the memory holds what the regions did.                  *)
LEMMA MergeEndsKeeps ==
  ASSUME FlashInv, Flash!MergeEnds
  PROVE  FlashInv'
<1>1. /\ FlashTypes /\ PlaceInv /\ HeldInv /\ MergeInv /\ CauseInv
      /\ Flash!Merging /\ v7 = "reading" /\ v2 > Len(v1) /\ v3 > Len(v6)
      /\ v1' = v1 /\ v2' = v2 /\ v3' = v3 /\ v4' = v4 /\ v5' = v5 /\ v6' = <<>> /\ v7' = "listing"
  BY DEF FlashInv, Flash!MergeEnds, Flash!Merging
<1>2. /\ v1 \in Loads /\ Len(v1) \in Nat /\ v2 = Len(v1) + 1 /\ v3 \in Nat
      /\ Len(v6) \in Nat /\ DOMAIN v6 = 1 .. Len(v6) /\ DOMAIN v5 \subseteq Nat
  <2>1. Len(v6) \in Nat /\ DOMAIN v6 = 1 .. Len(v6)
    BY <1>1, LenProperties DEF FlashTypes
  <2> QED BY <1>1, <2>1, FlashLimits DEF FlashTypes
<1>3. /\ <<>> \in Seq(Pieces) /\ DOMAIN <<>> = {}
      /\ ~ Flash!Merging' /\ ~ Flash!Reading'
  BY <1>1, EmptySeq DEF Flash!Merging, Flash!Reading
<1>4. \A q \in DOMAIN v6 : q < v3 /\ q <= Len(v6)
  BY <1>1, <1>2
<1>5. FlashTypes'
  BY <1>1, <1>3 DEF FlashTypes
<1>6. PlaceInv'
  BY <1>1, <1>2, <1>3 DEF PlaceInv
<1>7. HeldInv'
  <2>1. \A a \in DOMAIN v5 : IsSaid(v1, v2, v3, a, v5[a])
    <3> SUFFICES ASSUME NEW a \in DOMAIN v5 PROVE IsSaid(v1, v2, v3, a, v5[a])
      OBVIOUS
    <3>1. PICK q \in DOMAIN v6 : LastOver(v6, q, a, v3 - 1) /\ v5[a] = Flash!ByteIn(v6[q], a)
      BY <1>1 DEF MergeInv
    <3>2. LastOver(v6, q, a, Len(v6))
      <4>1. \A i \in DOMAIN v6 : i <= v3 - 1 /\ i <= Len(v6)
        BY <1>2, <1>4
      <4> QED BY <3>1, <4>1 DEF LastOver
    <3>3. a \in Nat
      BY <1>2
    <3> QED BY <1>1, <3>1, <3>2, <3>3 DEF HeldInv
  <2>2. \A a \in Nat : Unsaid(v1, v2, v3, a) \/ a \in DOMAIN v5
    <3> SUFFICES ASSUME NEW a \in Nat, ~ Unsaid(v1, v2, v3, a) PROVE a \in DOMAIN v5
      OBVIOUS
    <3>1. PICK q \in DOMAIN v6 : LastOver(v6, q, a, Len(v6))
      BY <1>1 DEF HeldInv
    <3> QED BY <1>1, <1>4, <3>1 DEF LastOver, MergeInv
  <2> QED BY <1>1, <1>3, <2>1, <2>2 DEF HeldInv
<1>8. MergeInv' /\ ApartInv'
  BY <1>1, <1>3 DEF MergeInv, ApartInv
<1>9. CauseInv'
  <2>1. \A n \in DOMAIN v1 : \A k \in DOMAIN v1[n].records :
          ~ (Taken(v2, v3, n, k) /\ Flash!Wrong(v1, n, k))
    <3> SUFFICES ASSUME NEW n \in DOMAIN v1, NEW k \in DOMAIN v1[n].records,
                        Taken(v2, v3, n, k), Flash!Wrong(v1, n, k)
                 PROVE  FALSE
      OBVIOUS
    <3>1. PICK q \in DOMAIN v6 : q >= v3
      BY <1>1 DEF CauseInv
    <3> QED BY <1>2, <1>4, <3>1
  <2> QED BY <1>1, <2>1 DEF CauseInv
<1> QED BY <1>5, <1>6, <1>7, <1>8, <1>9 DEF FlashInv

LEMMA FlashFinishKeeps ==
  ASSUME FlashInv, Flash!Finish
  PROVE  FlashInv'
<1>1. /\ FlashTypes /\ PlaceInv /\ HeldInv /\ ApartInv /\ CauseInv
      /\ v7 = "listing" /\ DOMAIN v5 = {}
      /\ v1' = v1 /\ v2' = v2 /\ v3' = v3 /\ v4' = v4 /\ v5' = v5 /\ v6' = v6 /\ v7' = "ok"
      /\ ~ Flash!Merging /\ ~ Flash!Merging' /\ ~ Flash!Reading'
  BY DEF FlashInv, Flash!Finish, Flash!Merging, Flash!Reading
<1>2. FlashTypes' /\ PlaceInv'
  BY <1>1 DEF FlashTypes, PlaceInv
<1>3. HeldInv'
  BY <1>1 DEF HeldInv
<1>4. MergeInv' /\ ApartInv'
  BY <1>1 DEF MergeInv, ApartInv
<1>5. CauseInv'
  BY <1>1 DEF CauseInv
<1> QED BY <1>2, <1>3, <1>4, <1>5 DEF FlashInv

(* A record at its address, or a refusal.                                  *)
LEMMA WriteDataKeeps ==
  ASSUME FlashInv, Flash!HexData \/ Flash!SrecData
  PROVE  FlashInv'
<1> DEFINE p == Flash!PieceOf(v1, v2, v3)
           r == v1[v2].records[v3]
<1>1. /\ Flash!Reading /\ v3 <= Len(v1[v2].records) /\ r.type = "data"
      /\ v1[v2].kind \in {"hex", "srec"} /\ v4 \in Nat /\ v1 \in Loads
  BY DEF FlashInv, FlashTypes, Flash!HexData, Flash!SrecData, Flash!InRecords, Flash!B, Flash!Record
<1>2. v2 \in DOMAIN v1 /\ v3 \in DOMAIN v1[v2].records /\ Flash!Counts(v1, v2, v3)
  BY <1>1, HereSays
<1>3. r.addr \in Nat
  BY <1>1, <1>2, BlocksAre
<1>4. v4 = Flash!BaseAt(v1, v2, v3) /\ (v1[v2].kind = "srec" => v4 = 0)
  <2>1. v4 = Flash!BaseAt(v1, v2, v3)
    BY <1>1 DEF FlashInv, PlaceInv
  <2> QED BY <2>1 DEF Flash!BaseAt
<1>5. Flash!WriteData(v4 + r.addr)
  <2>1. CASE Flash!HexData
    BY <2>1 DEF Flash!HexData, Flash!Record, Flash!B
  <2>2. CASE Flash!SrecData
    <3>1. v1[v2].kind = "srec" /\ Flash!WriteData(r.addr)
      BY <2>2 DEF Flash!SrecData, Flash!InRecords, Flash!Record, Flash!B
    <3>2. v4 + r.addr = r.addr
      BY <1>3, <1>4, <3>1
    <3> QED BY <3>1, <3>2
  <2> QED BY <2>1, <2>2
<1>6. Flash!Piece(v4 + r.addr, r.data) = p
  BY <1>4 DEF Flash!PieceOf
<1>7. CASE Flash!Fits(p)
  <2>1. /\ v5' = Flash!Written(v5, p) /\ v3' = v3 + 1
        /\ v1' = v1 /\ v2' = v2 /\ v4' = v4 /\ v6' = v6 /\ v7' = v7
    BY <1>5, <1>6, <1>7 DEF Flash!WriteData, Flash!Record, Flash!B
  <2>2. v4 = Flash!BaseAt(v1, v2, v3 + 1)
    BY <1>1, <1>2, <1>4, BaseNext
  <2> QED BY <1>1, <1>7, <2>1, <2>2, RecordKeeps
<1>8. CASE ~ Flash!Fits(p)
  <2>1. Flash!Refuse
    BY <1>5, <1>6, <1>8 DEF Flash!WriteData, Flash!Record, Flash!B
  <2>2. Flash!Wrong(v1, v2, v3)
    BY <1>1, <1>2, <1>8 DEF Flash!Wrong
  <2> QED BY <1>2, <2>1, <2>2, RefuseKeeps DEF Flash!Refusable
<1> QED BY <1>7, <1>8

(* A base is set, or a record says nothing.                                *)
LEMMA OtherRecordsKeep ==
  ASSUME FlashInv, Flash!HexBase \/ Flash!OtherRecord
  PROVE  FlashInv'
<1> DEFINE r == v1[v2].records[v3]
<1>1. /\ Flash!Reading /\ v3 <= Len(v1[v2].records) /\ v1[v2].kind \in {"hex", "srec"}
      /\ r.type \in {"segment", "linear", "entry", "other"}
      /\ v1' = v1 /\ v2' = v2 /\ v3' = v3 + 1 /\ v5' = v5 /\ v6' = v6 /\ v7' = v7
      /\ v4' = IF v1[v2].kind = "hex" /\ r.type \in {"segment", "linear"}
               THEN Flash!BaseOf(r) ELSE v4
  BY DEF Flash!HexBase, Flash!OtherRecord, Flash!InRecords, Flash!B, Flash!Record
<1>2. /\ v2 \in DOMAIN v1 /\ v3 \in DOMAIN v1[v2].records /\ v4 \in Nat /\ v1 \in Loads
  BY <1>1, HereSays DEF FlashInv, FlashTypes
<1>3. v4 = Flash!BaseAt(v1, v2, v3)
  BY <1>1 DEF FlashInv, PlaceInv
<1>4. v4' = Flash!BaseAt(v1, v2, v3 + 1)
  BY <1>1, <1>2, <1>3, BaseNext
<1>5. v4' \in Nat
  <2>1. r.type \in {"segment", "linear"} => Flash!BaseOf(r) \in Nat
    <3>1. r.type \in {"segment", "linear"} => r.base \in Nat
      BY <1>2, BlocksAre
    <3> QED BY <3>1, FlashLimits DEF Flash!BaseOf
  <2> QED BY <1>1, <1>2, <2>1
<1> QED BY <1>1, <1>4, <1>5, RecordKeeps

LEMMA RefusalsKeep ==
  ASSUME FlashInv, Flash!BadRecord \/ Flash!NoSuchFile
  PROVE  FlashInv'
<1>1. CASE Flash!BadRecord
  <2>1. /\ Flash!Reading /\ v3 <= Len(v1[v2].records) /\ v1[v2].records[v3].type = "bad"
        /\ Flash!Refuse
    BY <1>1 DEF Flash!BadRecord, Flash!InRecords, Flash!B, Flash!Record
  <2>2. v2 \in DOMAIN v1 /\ v3 \in DOMAIN v1[v2].records /\ Flash!Counts(v1, v2, v3)
    BY <2>1, HereSays
  <2>3. Flash!Wrong(v1, v2, v3)
    BY <2>1, <2>2 DEF Flash!Wrong
  <2> QED BY <2>1, <2>2, <2>3, RefuseKeeps DEF Flash!Refusable
<1>2. CASE Flash!NoSuchFile
  <2>1. v2 \in DOMAIN v1 /\ v1[v2].kind = "missing" /\ Flash!Refuse
    BY <1>2, FlashLimits DEF Flash!NoSuchFile, Flash!Reading, Flash!B, FlashInv, FlashTypes
  <2> QED BY <2>1, RefuseKeeps DEF Flash!Refusable
<1> QED BY <1>1, <1>2

LEMMA FlashStep == FlashInv /\ [Flash!Next]_(Flash!vars) => FlashInv'
<1> SUFFICES ASSUME FlashInv, [Flash!Next]_(Flash!vars) PROVE FlashInv'
  OBVIOUS
<1>1. CASE UNCHANGED Flash!vars
  <2>1. /\ v1' = v1 /\ v2' = v2 /\ v3' = v3 /\ v4' = v4 /\ v5' = v5 /\ v6' = v6 /\ v7' = v7
    BY <1>1 DEF Flash!vars
  <2>2. FlashTypes' /\ PlaceInv'
    BY <2>1 DEF FlashInv, FlashTypes, PlaceInv, Flash!Reading
  <2>3. Flash!Merging' = Flash!Merging
    BY <2>1 DEF Flash!Merging
  <2>4. HeldInv' /\ MergeInv' /\ ApartInv' /\ CauseInv'
    BY <2>1, <2>3 DEF FlashInv, HeldInv, MergeInv, ApartInv, CauseInv
  <2> QED BY <2>2, <2>4 DEF FlashInv
<1>2. CASE Flash!Next
  BY <1>1, <1>2, WriteDataKeeps, OtherRecordsKeep, HexEndKeeps, RefusalsKeep, FileEndsKeeps,
     RawBlockKeeps, MergeRegionKeeps, MergeEndsKeeps, NextRunKeeps, FlashFinishKeeps DEF Flash!Next
<1> QED BY <1>1, <1>2

LEMMA FlashInit == Flash!Init => FlashInv
<1> SUFFICES ASSUME Flash!Init PROVE FlashInv
  OBVIOUS
<1>1. /\ v1 \in Loads /\ v2 = 1 /\ v3 = 1 /\ v4 = 0 /\ v6 = <<>> /\ v7 = "reading"
      /\ DOMAIN v5 = {} /\ v5 \in [DOMAIN v5 -> 0 .. 255]
  BY DEF Flash!Init, Flash!Blank
<1>2. Len(v1) \in Nat /\ DOMAIN v1 = 1 .. Len(v1) /\ <<>> \in Seq(Pieces) /\ DOMAIN <<>> = {}
  BY <1>1, FlashLimits, EmptySeq
<1>3. FlashTypes
  BY <1>1, <1>2 DEF FlashTypes
<1>4. PlaceInv
  <2>1. Flash!Reading => Flash!Counts(v1, 1, 1) /\ 0 = Flash!BaseAt(v1, 1, 1)
    BY <1>1, <1>2, BaseFirst DEF Flash!Reading
  <2> QED BY <1>1, <2>1 DEF PlaceInv
<1>5. \A n \in DOMAIN v1 : \A k \in DOMAIN v1[n].records : ~ Taken(v2, v3, n, k)
  <2>1. \A n \in DOMAIN v1 : \A k \in DOMAIN v1[n].records : n \in Nat /\ n > 0 /\ k \in Nat /\ k > 0
    BY <1>1, <1>2, BlocksAre
  <2> QED BY <1>1, <2>1 DEF Taken
<1>6. HeldInv
  BY <1>1, <1>2, <1>5 DEF HeldInv, Unsaid
<1>7. MergeInv /\ ApartInv
  BY <1>1, <1>2 DEF MergeInv, ApartInv
<1>8. CauseInv
  <2>1. \A n \in DOMAIN v1 : ~ (n < v2)
    BY <1>1, <1>2
  <2> QED BY <1>1, <1>2, <1>5, <2>1 DEF CauseInv
<1> QED BY <1>3, <1>4, <1>6, <1>7, <1>8 DEF FlashInv

(* At the end everything has been taken, and the regions are apart: the one*)
(* over an address is the last over it.                                    *)
LEMMA FlashPassed ==
  ASSUME FlashInv
  PROVE  /\ Flash!TypeOK
         /\ Flash!RegionsAreTheImage /\ Flash!RegionsStandApart /\ Flash!RefusedForCause
<1>1. Flash!TypeOK
  BY DEF FlashInv, FlashTypes, Flash!TypeOK
<1>2. Flash!RegionsStandApart
  BY DEF FlashInv, ApartInv, Flash!RegionsStandApart
<1>3. v1 \in Loads /\ Len(v1) \in Nat /\ DOMAIN v1 = 1 .. Len(v1)
  BY FlashLimits DEF FlashInv, FlashTypes
<1>4. v7 = "ok" => \A n \in DOMAIN v1 : \A k : n < v2 /\ Taken(v2, v3, n, k)
  BY <1>3 DEF FlashInv, PlaceInv, Taken
<1>5. Flash!RefusedForCause
  <2>1. v7 = "ok" => ~ Flash!Refusable(v1)
    BY <1>4 DEF FlashInv, CauseInv, Flash!Refusable
  <2> QED BY <2>1 DEF FlashInv, CauseInv, Flash!RefusedForCause
<1>6. Flash!RegionsAreTheImage
  <2> SUFFICES ASSUME v7 = "ok", NEW a \in 0 .. Top
               PROVE  /\ \A r \in DOMAIN v6 : Flash!Covers(v6[r], a) =>
                           \E n \in DOMAIN v1 : \E k \in DOMAIN v1[n].records :
                             /\ Flash!SaysLast(v1, n, k, a)
                             /\ Flash!ByteIn(v6[r], a) = Flash!ByteIn(Flash!PieceOf(v1, n, k), a)
                      /\ \A n \in DOMAIN v1 : \A k \in DOMAIN v1[n].records :
                           Flash!Says(v1, n, k, a) => \E r \in DOMAIN v6 : Flash!Covers(v6[r], a)
    BY DEF Flash!RegionsAreTheImage
  <2>1. /\ DOMAIN v5 = {} /\ ~ Flash!Merging /\ a \in Nat /\ v6 \in Seq(Pieces)
        /\ Len(v6) \in Nat /\ DOMAIN v6 = 1 .. Len(v6)
    <3>1. v6 \in Seq(Pieces) /\ Len(v6) \in Nat /\ DOMAIN v6 = 1 .. Len(v6)
      BY LenProperties DEF FlashInv, FlashTypes
    <3>2. a \in Nat
      BY FlashLimits
    <3> QED BY <3>1, <3>2 DEF FlashInv, PlaceInv, Flash!Merging
  <2>2. ASSUME NEW r \in DOMAIN v6, Flash!Covers(v6[r], a)
        PROVE  \E n \in DOMAIN v1 : \E k \in DOMAIN v1[n].records :
                 /\ Flash!SaysLast(v1, n, k, a)
                 /\ Flash!ByteIn(v6[r], a) = Flash!ByteIn(Flash!PieceOf(v1, n, k), a)
    <3>1. LastOver(v6, r, a, Len(v6))
      <4>1. ASSUME NEW q \in DOMAIN v6, Flash!Covers(v6[q], a), ~ (q <= r)
            PROVE  FALSE
        <5>1. r \in 1 .. q - 1
          BY <2>1, <4>1
        <5>2. v6[q].base > v6[r].base + Len(v6[r].data)
          BY <4>1, <5>1 DEF FlashInv, ApartInv
        <5>3. v6[q] \in Pieces /\ v6[r] \in Pieces
          BY <2>1, ElementOfSeq
        <5>4. /\ v6[q].base \in Nat /\ v6[r].base \in Nat /\ Len(v6[r].data) \in Nat
          BY <5>3, LenProperties DEF Pieces
        <5>5. a \in Nat /\ v6[q].base <= a /\ a < v6[r].base + Len(v6[r].data)
          BY <2>2, <4>1, <5>3, CoveredIs
        <5> QED BY <5>2, <5>4, <5>5
      <4> QED BY <2>1, <2>2, <4>1 DEF LastOver
    <3>2. IsSaid(v1, v2, v3, a, Flash!ByteIn(v6[r], a))
      BY <2>1, <3>1 DEF FlashInv, HeldInv
    <3>3. \A n \in DOMAIN v1 : \A k \in DOMAIN v1[n].records :
            LastBy(v1, v2, v3, n, k, a) => Flash!SaysLast(v1, n, k, a)
      BY <1>4 DEF LastBy, Flash!SaysLast
    <3> QED BY <3>2, <3>3 DEF IsSaid
  <2>3. ASSUME NEW n \in DOMAIN v1, NEW k \in DOMAIN v1[n].records, Flash!Says(v1, n, k, a)
        PROVE  \E r \in DOMAIN v6 : Flash!Covers(v6[r], a)
    <3>1. ~ Unsaid(v1, v2, v3, a)
      BY <1>4, <2>3 DEF Unsaid
    <3>2. PICK r \in DOMAIN v6 : LastOver(v6, r, a, Len(v6))
      BY <2>1, <3>1 DEF FlashInv, HeldInv
    <3> QED BY <3>2 DEF LastOver
  <2> QED BY <2>2, <2>3
<1> QED BY <1>1, <1>2, <1>5, <1>6

-----------------------------------------------------------------------------
(* Signals of a DBC file.                                                  *)

GoodSignal(s) ==
  /\ s.start \in Nat /\ s.size \in 1 .. Width /\ s.order \in {"little", "big"}
  /\ s.signed \in BOOLEAN /\ s.factor \in Int /\ s.offset \in Int
  /\ s.min \in Int /\ s.max \in Int

(* What is written for a value, and where it is found.                     *)
Code(s, v) == Dbc!Masked(s, Dbc!Raw(s, v))
Holds(s, raw, bits, upto) ==
  \A i \in 0 .. upto - 1 :
    /\ Dbc!PlaceAt(s, i) \in 0 .. Bits - 1
    /\ Dbc!PlaceAt(s, i) \in bits <=> Dbc!BitOf(raw, Dbc!Shift(s, i)) = 1

DbcTypes ==
  /\ v1 \in DbcFiles /\ v2 \in Nat \ {0} /\ v3 \in Nat \ {0}
  /\ \A n \in DOMAIN v4 : GoodSignal(v4[n].signal) /\ v4[n].bytes \in 0 .. MaxBytes
  /\ DOMAIN v8 \subseteq DOMAIN v4
  /\ v5 \subseteq 0 .. Bits - 1
  /\ v6 \in 0 .. MaxBytes /\ v7 \in BOOLEAN /\ (v7 => v6 > Classic)
  /\ v10 \in 0 .. MaxEncodes
  /\ v9.op \in {"load", "refused", "idle", "encode", "decode", "decoded", "panicked"}

WrittenInv ==
  /\ v9.op = "load" => DOMAIN v8 = {}
  /\ \A n \in DOMAIN v8 :
       LET s == v4[n].signal
       IN /\ v8[n] \in Int /\ Dbc!Encodable(s, v8[n])
          /\ Holds(s, Code(s, v8[n]), v5, s.size)

(* The bit that is visited, and what has been visited before it.           *)
VisitInv ==
  v9.op \in {"encode", "decode"} =>
    /\ v9.name \in DOMAIN v4 /\ v9.raw \in Nat
    /\ v9.idx \in 0 .. Dbc!Signal.size /\ v9.pos = Dbc!PlaceAt(Dbc!Signal, v9.idx)
EncodeInv ==
  v9.op = "encode" =>
    /\ v9.value \in Int /\ Dbc!Encodable(Dbc!Signal, v9.value)
    /\ v9.raw = Code(Dbc!Signal, v9.value)
    /\ \A n \in DOMAIN v8 : Dbc!Places(v4[n].signal) \cap Dbc!Places(Dbc!Signal) = {}
    /\ Holds(Dbc!Signal, v9.raw, v5, v9.idx)
DecodeInv ==
  /\ v9.op = "decode" /\ v9.name \in DOMAIN v8 =>
       LET s == Dbc!Signal
           code == Code(s, v8[v9.name])
       IN v9.raw = IF s.order = "little" THEN code % Weight[v9.idx]
                   ELSE code \div Weight[s.size - v9.idx]
  /\ v9.op = "decoded" /\ v9.name \in DOMAIN v8 =>
       v9.value = Dbc!Scaled(Dbc!Signal, Code(Dbc!Signal, v8[v9.name]))
  /\ v9.op = "panicked" /\ v9.name \in DOMAIN v8 =>
       Dbc!Overflows(Dbc!Signal, Code(Dbc!Signal, v8[v9.name]))

DbcInv == DbcTypes /\ WrittenInv /\ VisitInv /\ EncodeInv /\ DecodeInv

LEMMA DbcLimits ==
  /\ Width \in Nat \ {0} /\ Bits \in Nat /\ MaxBytes \in Nat /\ Classic \in Nat /\ MaxEncodes \in Nat
  /\ DbcValues \subseteq Int
  /\ \A n \in 0 .. Width : Weight[n] \in Nat \ {0}
  /\ Weight[0] = 1
  /\ \A n \in 0 .. Width - 1 : Weight[n + 1] = 2 * Weight[n]
  /\ \A m, n \in 0 .. Width : m < n => Weight[m] < Weight[n]
<1>1. /\ Width \in Nat \ {0} /\ Bits \in Nat /\ MaxBytes \in Nat /\ Classic \in Nat /\ MaxEncodes \in Nat
      /\ DbcValues \subseteq Int
  BY CommandsAssumption DEF Dbc!DbcAssumption
<1>2. /\ Weight \in [0 .. Width -> Nat] /\ Weight[0] = 1
      /\ \A n \in 0 .. Width - 1 : Weight[n + 1] = 2 * Weight[n]
      /\ \A m, n \in 0 .. Width : m < n => Weight[m] < Weight[n]
  BY CommandsAssumption DEF Dbc!DbcAssumption
<1>3. \A n \in 0 .. Width : Weight[n] \in Nat \ {0}
  <2> SUFFICES ASSUME NEW n \in 0 .. Width PROVE Weight[n] \in Nat \ {0}
    OBVIOUS
  <2>1. Weight[n] \in Nat /\ Weight[0] = 1 /\ 0 \in 0 .. Width
    BY <1>1, <1>2
  <2>2. n > 0 => Weight[0] < Weight[n]
    BY <1>2, <2>1
  <2> QED BY <2>1, <2>2
<1> QED BY <1>1, <1>2, <1>3

(* Counted from the top of each byte, the places of either order ascend.   *)
LEMMA SawTwice ==
  ASSUME NEW p \in Nat
  PROVE  Dbc!Saw(p) \in Nat /\ Dbc!Saw(Dbc!Saw(p)) = p
<1> DEFINE q == p \div 8
           r == p % 8
<1>1. q \in Nat /\ r \in 0 .. 7 /\ p = 8 * q + r
  OBVIOUS
<1> HIDE DEF q, r
<1>2. Dbc!Saw(p) = 8 * q + (7 - r)
  BY DEF Dbc!Saw, q, r
<1>3. (8 * q + (7 - r)) \div 8 = q /\ (8 * q + (7 - r)) % 8 = 7 - r
  BY <1>1
<1>4. Dbc!Saw(8 * q + (7 - r)) = 8 * q + (7 - (7 - r))
  BY <1>3 DEF Dbc!Saw
<1> QED BY <1>1, <1>2, <1>4

LEMMA NextBitIs ==
  ASSUME NEW p \in Nat
  PROVE  Dbc!NextBit(p) = Dbc!Saw(Dbc!Saw(p) + 1)
<1> DEFINE q == p \div 8
           r == p % 8
<1>1. q \in Nat /\ r \in 0 .. 7 /\ p = 8 * q + r
  OBVIOUS
<1> HIDE DEF q, r
<1>2. Dbc!Saw(p) = 8 * q + (7 - r)
  BY DEF Dbc!Saw, q, r
<1>3. Dbc!NextBit(p) = IF r = 0 THEN p + 15 ELSE p - 1
  BY DEF Dbc!NextBit, r
<1>4. CASE r = 0
  <2>1. Dbc!Saw(p) + 1 = 8 * (q + 1)
    BY <1>1, <1>2, <1>4
  <2>2. (8 * (q + 1)) \div 8 = q + 1 /\ (8 * (q + 1)) % 8 = 0
    BY <1>1
  <2>3. Dbc!Saw(8 * (q + 1)) = 8 * (q + 1) + (7 - 0)
    BY <2>2 DEF Dbc!Saw
  <2> QED BY <1>1, <1>3, <1>4, <2>1, <2>3
<1>5. CASE r # 0
  <2>1. Dbc!Saw(p) + 1 = 8 * q + (8 - r)
    BY <1>1, <1>2
  <2>2. (8 * q + (8 - r)) \div 8 = q /\ (8 * q + (8 - r)) % 8 = 8 - r
    BY <1>1, <1>5
  <2>3. Dbc!Saw(8 * q + (8 - r)) = 8 * q + (7 - (8 - r))
    BY <2>2 DEF Dbc!Saw
  <2> QED BY <1>1, <1>3, <1>5, <2>1, <2>3
<1> QED BY <1>4, <1>5

LEMMA PlacesAscend ==
  ASSUME NEW s, GoodSignal(s), NEW i \in Nat
  PROVE  /\ Dbc!PlaceAt(s, 0) = s.start
         /\ Dbc!PlaceAt(s, i) \in Nat
         /\ Dbc!PlaceAt(s, i + 1) =
              IF s.order = "little" THEN Dbc!PlaceAt(s, i) + 1 ELSE Dbc!NextBit(Dbc!PlaceAt(s, i))
         /\ \A j \in Nat : Dbc!PlaceAt(s, i) = Dbc!PlaceAt(s, j) => i = j
<1>1. s.start \in Nat /\ s.order \in {"little", "big"}
  BY DEF GoodSignal
<1>2. CASE s.order = "little"
  BY <1>1, <1>2 DEF Dbc!PlaceAt
<1>3. CASE s.order = "big"
  <2> DEFINE b == Dbc!Saw(s.start)
  <2>1. b \in Nat /\ Dbc!Saw(b) = s.start
    BY <1>1, SawTwice
  <2> HIDE DEF b
  <2>2. \A j \in Nat : Dbc!PlaceAt(s, j) = Dbc!Saw(b + j)
    BY <1>3 DEF Dbc!PlaceAt, b
  <2>3. \A j \in Nat : b + j \in Nat /\ Dbc!Saw(b + j) \in Nat /\ Dbc!Saw(Dbc!Saw(b + j)) = b + j
    BY <2>1, SawTwice
  <2>4. Dbc!PlaceAt(s, 0) = s.start
    BY <2>1, <2>2
  <2>5. Dbc!PlaceAt(s, i + 1) = Dbc!NextBit(Dbc!PlaceAt(s, i))
    <3>1. Dbc!NextBit(Dbc!Saw(b + i)) = Dbc!Saw((b + i) + 1)
      BY <2>3, NextBitIs
    <3>2. (b + i) + 1 = b + (i + 1) /\ i + 1 \in Nat
      BY <2>1
    <3> QED BY <2>2, <3>1, <3>2
  <2>6. ASSUME NEW j \in Nat, Dbc!PlaceAt(s, i) = Dbc!PlaceAt(s, j) PROVE i = j
    <3>1. b + i = b + j
      BY <2>2, <2>3, <2>6
    <3> QED BY <2>1, <3>1
  <2> QED BY <1>3, <2>2, <2>3, <2>4, <2>5, <2>6
<1> QED BY <1>1, <1>2, <1>3

(* The bits of a number, from the lowest and from the highest.             *)
LEMMA Halves ==
  ASSUME NEW raw \in Nat, NEW p \in Nat, p > 0
  PROVE  /\ raw % (2 * p) = (raw % p) + ((raw \div p) % 2) * p
         /\ raw \div p = 2 * (raw \div (2 * p)) + ((raw \div p) % 2)
<1> DEFINE q == raw \div p
           r == raw % p
<1>1. q \in Nat /\ r \in Nat /\ r < p /\ raw = p * q + r
  OBVIOUS
<1> HIDE DEF q, r
<1> DEFINE h == q \div 2
           b == q % 2
<1>2. h \in Nat /\ b \in {0, 1} /\ q = 2 * h + b
  BY <1>1
<1> HIDE DEF h, b
<1>3. raw = (2 * p) * h + (b * p + r)
  <2>1. p * q = p * (2 * h) + p * b
    BY <1>1, <1>2
  <2>2. p * (2 * h) = (2 * p) * h
    BY <1>2
  <2>3. p * b = b * p
    BY <1>2
  <2> QED BY <1>1, <1>2, <2>1, <2>2, <2>3
<1>4. b * p + r \in Nat /\ b * p + r < 2 * p
  BY <1>1, <1>2
<1> DEFINE w == 2 * p
           t == b * p + r
<1>5. w \in Nat /\ w > 0 /\ t \in Nat /\ t < w /\ raw = w * h + t
  BY <1>3, <1>4
<1> HIDE DEF w, t
<1>6. raw \div w = h /\ raw % w = t
  BY <1>2, <1>5
<1>7. raw % (2 * p) = b * p + r /\ raw \div (2 * p) = h
  BY <1>6, Zenon DEF w, t
<1>8. b * p + r = r + b * p
  BY <1>1, <1>2
<1>9. raw % (2 * p) = r + b * p /\ q = 2 * (raw \div (2 * p)) + b
  BY <1>2, <1>7, <1>8, Zenon
<1> QED BY <1>9, Zenon DEF q, r, b

LEMMA BitByBit ==
  ASSUME NEW raw \in Nat, NEW i \in 0 .. Width - 1
  PROVE  /\ Dbc!BitOf(raw, i) \in {0, 1}
         /\ raw % Weight[i + 1] = (raw % Weight[i]) + Dbc!BitOf(raw, i) * Weight[i]
         /\ raw \div Weight[i] = 2 * (raw \div Weight[i + 1]) + Dbc!BitOf(raw, i)
<1>1. i \in 0 .. Width
  BY DbcLimits
<1>2. Weight[i] \in Nat /\ Weight[i] > 0 /\ Weight[i + 1] = 2 * Weight[i]
  BY <1>1, DbcLimits
<1>3. raw \div Weight[i] \in Nat
  BY <1>2
<1>4. Dbc!BitOf(raw, i) \in {0, 1}
  BY <1>3 DEF Dbc!BitOf
<1> QED BY <1>2, <1>4, Halves DEF Dbc!BitOf

LEMMA AllBits ==
  ASSUME NEW n \in 0 .. Width, NEW raw \in 0 .. Weight[n] - 1
  PROVE  raw % Weight[0] = 0 /\ raw \div Weight[n] = 0 /\ raw % Weight[n] = raw /\ raw \div Weight[0] = raw
<1>1. Weight[n] \in Nat /\ Weight[n] > 0 /\ Weight[0] = 1
  BY DbcLimits
<1> DEFINE w == Weight[n]
<1>2. w \in Nat /\ w > 0 /\ raw \in Nat /\ raw < w
  BY <1>1
<1> HIDE DEF w
<1>3. raw \div w = 0 /\ raw % w = raw
  BY <1>2
<1> QED BY <1>1, <1>2, <1>3 DEF w

(* Rounding loses half a factor at most.                                   *)
LEMMA RoundsNear ==
  ASSUME NEW a \in Int, NEW b \in Nat, b > 0
  PROVE  Dbc!Round(a, b) \in Int /\ 2 * Dbc!Abs(a - b * Dbc!Round(a, b)) <= b
<1>1. ASSUME NEW n \in Nat
      PROVE  LET q == (2 * n + b) \div (2 * b)
             IN q \in Nat /\ b * q \in Nat /\ 2 * (n - b * q) <= b /\ 2 * (b * q - n) <= b
  <2> DEFINE w == 2 * b
             x == 2 * n + b
             q == x \div w
  <2>1. w \in Nat /\ w > 0 /\ x \in Nat
    OBVIOUS
  <2> HIDE DEF w, x
  <2>2. q \in Nat /\ w * q <= x /\ x < w * q + w
    BY <2>1
  <2> HIDE DEF q
  <2>3. w * q = 2 * (b * q) /\ b * q \in Nat
    BY <2>2 DEF w
  <2>4. 2 * (n - b * q) <= b /\ 2 * (b * q - n) <= b
    BY <2>1, <2>2, <2>3 DEF w, x
  <2> QED BY <2>2, <2>3, <2>4 DEF q, w, x
<1>2. CASE a < 0
  <2> DEFINE q == (2 * (-a) + b) \div (2 * b)
  <2>1. q \in Nat /\ b * q \in Nat /\ 2 * (-a - b * q) <= b /\ 2 * (b * q - (-a)) <= b
    BY <1>1, <1>2
  <2>2. Dbc!Round(a, b) = -q
    BY <1>2 DEF Dbc!Round
  <2> HIDE DEF q
  <2>3. b * (-q) = -(b * q)
    BY <2>1
  <2> QED BY <2>1, <2>2, <2>3 DEF Dbc!Abs
<1>3. CASE ~ (a < 0)
  <2> DEFINE q == (2 * a + b) \div (2 * b)
  <2>1. q \in Nat /\ b * q \in Nat /\ 2 * (a - b * q) <= b /\ 2 * (b * q - a) <= b
    BY <1>1, <1>3
  <2>2. Dbc!Round(a, b) = q
    BY <1>3 DEF Dbc!Round
  <2> HIDE DEF q
  <2> QED BY <2>1, <2>2 DEF Dbc!Abs
<1> QED BY <1>2, <1>3

LEMMA DividesNear ==
  ASSUME NEW a \in Int, NEW b \in Int, b # 0
  PROVE  Dbc!Divide(a, b) \in Int /\ 2 * Dbc!Abs(a - b * Dbc!Divide(a, b)) <= Dbc!Abs(b)
<1>1. CASE b < 0
  <2> DEFINE q == Dbc!Round(-a, -b)
  <2>1. q \in Int /\ 2 * Dbc!Abs((-a) - (-b) * q) <= -b
    BY <1>1, RoundsNear
  <2>2. Dbc!Divide(a, b) = q
    BY <1>1 DEF Dbc!Divide
  <2> HIDE DEF q
  <2>3. (-b) * q = -(b * q) /\ b * q \in Int
    BY <2>1
  <2>4. Dbc!Abs((-a) - (-b) * q) = Dbc!Abs(a - b * q)
    BY <2>3 DEF Dbc!Abs
  <2> QED BY <1>1, <2>1, <2>2, <2>4 DEF Dbc!Abs
<1>2. CASE b > 0
  <2>1. Dbc!Round(a, b) \in Int /\ 2 * Dbc!Abs(a - b * Dbc!Round(a, b)) <= b
    BY <1>2, RoundsNear
  <2>2. Dbc!Divide(a, b) = Dbc!Round(a, b) /\ Dbc!Abs(b) = b
    BY <1>2 DEF Dbc!Divide, Dbc!Abs
  <2> QED BY <2>1, <2>2
<1> QED BY <1>1, <1>2

LEMMA FarAsked ==
  ASSUME NEW a \in Int, NEW f \in Int, f # 0, NEW q \in Int, NEW h \in Nat,
         2 * Dbc!Abs(a - f * q) <= Dbc!Abs(f), Dbc!Abs(q) > h
  PROVE  Dbc!Abs(a) > Dbc!Abs(f) * h
<1> DEFINE p == f * q
           g == Dbc!Abs(f)
           m == Dbc!Abs(q)
<1>1. p \in Int /\ g \in Nat /\ g > 0 /\ m \in Nat /\ m >= h + 1
  BY DEF Dbc!Abs
<1>2. Dbc!Abs(p) = g * m
  BY DEF Dbc!Abs
<1>3. g * m >= g * (h + 1) /\ g * (h + 1) = g * h + g /\ g * h \in Nat /\ g * m \in Nat
  <2> HIDE DEF p, g, m
  <2> QED BY <1>1
<1>4. 2 * Dbc!Abs(a - p) <= g
  OBVIOUS
<1> HIDE DEF p, g, m
<1>5. Dbc!Abs(a) + Dbc!Abs(a - p) >= Dbc!Abs(p) /\ Dbc!Abs(a) \in Nat /\ Dbc!Abs(a - p) \in Nat
  BY <1>1 DEF Dbc!Abs
<1>6. Dbc!Abs(a) > g * h
  BY <1>1, <1>2, <1>3, <1>4, <1>5
<1> QED BY <1>6 DEF g

(* A signal's code has its bits, and stands for the number that was meant. *)
LEMMA RawIs ==
  ASSUME NEW s, GoodSignal(s), NEW v \in Int, s.factor # 0
  PROVE  /\ Dbc!Divide(v - s.offset, s.factor) \in Int
         /\ Dbc!Highest \in Nat /\ Dbc!Lowest = -(Dbc!Highest + 1)
         /\ Dbc!Raw(s, v) \in Int
<1>1. v - s.offset \in Int /\ s.factor \in Int
  BY DEF GoodSignal
<1>2. Dbc!Divide(v - s.offset, s.factor) \in Int
  BY <1>1, DividesNear
<1>3. Dbc!Highest \in Nat /\ Dbc!Lowest = -(Dbc!Highest + 1)
  <2>1. Width - 1 \in 0 .. Width
    BY DbcLimits
  <2>2. Weight[Width - 1] \in Nat \ {0}
    BY <2>1, DbcLimits
  <2> QED BY <2>2 DEF Dbc!Highest, Dbc!Lowest
<1> QED BY <1>2, <1>3 DEF Dbc!Raw, Dbc!Clamp

LEMMA WeightsOf ==
  ASSUME NEW s, GoodSignal(s)
  PROVE  /\ s.size \in Nat /\ s.size > 0 /\ s.size - 1 \in 0 .. Width /\ s.size \in 0 .. Width
         /\ Weight[s.size - 1] \in Nat \ {0} /\ Weight[s.size] = 2 * Weight[s.size - 1]
<1>1. s.size \in Nat /\ s.size > 0 /\ s.size - 1 \in 0 .. Width - 1 /\ s.size - 1 \in 0 .. Width
        /\ s.size \in 0 .. Width /\ (s.size - 1) + 1 = s.size
  BY DbcLimits DEF GoodSignal
<1>2. Weight[(s.size - 1) + 1] = 2 * Weight[s.size - 1] /\ Weight[s.size - 1] \in Nat \ {0}
  BY <1>1, DbcLimits
<1> QED BY <1>1, <1>2

LEMMA CodeIs ==
  ASSUME NEW s, GoodSignal(s), NEW v \in Int, Dbc!Encodable(s, v)
  PROVE  /\ Code(s, v) \in 0 .. Weight[s.size] - 1
         /\ Dbc!Scaled(s, Code(s, v)) = Dbc!Raw(s, v) * s.factor + s.offset
<1> DEFINE w == Weight[s.size - 1]
           raw == Dbc!Raw(s, v)
<1>1. w \in Nat /\ w > 0 /\ Weight[s.size] = 2 * w /\ raw \in Int /\ s.signed \in BOOLEAN
  BY WeightsOf, RawIs DEF Dbc!Encodable, GoodSignal
<1>2. IF s.signed THEN raw \in -w .. w - 1 ELSE raw \in 0 .. 2 * w - 1
  BY <1>1 DEF Dbc!Encodable
<1>3. Code(s, v) = IF raw < 0 THEN raw + 2 * w ELSE raw
  BY <1>1 DEF Code, Dbc!Masked
<1>4. \A n : Dbc!Signed(s, n) = IF n >= w THEN n - 2 * w ELSE n
  BY <1>1 DEF Dbc!Signed
<1> HIDE DEF w, raw
<1>5. Code(s, v) \in 0 .. 2 * w - 1
  BY <1>1, <1>2, <1>3
<1>6. CASE s.signed
  <2>1. Dbc!Signed(s, Code(s, v)) = raw
    BY <1>1, <1>2, <1>3, <1>4, <1>6
  <2> QED BY <1>1, <1>5, <1>6, <2>1 DEF Dbc!Scaled, raw
<1>7. CASE ~ s.signed
  <2>1. Code(s, v) = raw
    BY <1>1, <1>2, <1>3, <1>7
  <2> QED BY <1>1, <1>5, <1>7, <2>1 DEF Dbc!Scaled, raw
<1> QED BY <1>1, <1>6, <1>7

(* A code of a signed signal whose highest bit is set is of a negative     *)
(* number.                                                                 *)
LEMMA NegativeCode ==
  ASSUME NEW s, GoodSignal(s), NEW v \in Int, Dbc!Encodable(s, v), Dbc!Overflows(s, Code(s, v))
  PROVE  Dbc!Raw(s, v) < 0
<1> DEFINE w == Weight[s.size - 1]
           raw == Dbc!Raw(s, v)
<1>1. w \in Nat /\ raw \in Int /\ s.signed
  BY WeightsOf, RawIs DEF Dbc!Encodable, GoodSignal, Dbc!Overflows
<1>2. raw \in -w .. w - 1
  BY <1>1 DEF Dbc!Encodable
<1>3. Code(s, v) >= w /\ (raw >= 0 => Code(s, v) = raw)
  BY <1>1 DEF Code, Dbc!Masked, Dbc!Overflows
<1> HIDE DEF w, raw
<1>4. raw < 0
  BY <1>1, <1>2, <1>3
<1> QED BY <1>4 DEF raw

LEMMA AbsSwaps ==
  ASSUME NEW x \in Int, NEW y \in Int
  PROVE  Dbc!Abs(x - y) = Dbc!Abs(y - x)
BY DEF Dbc!Abs

LEMMA CodeReads ==
  ASSUME NEW s, GoodSignal(s), NEW v \in Int, Dbc!Encodable(s, v)
  PROVE  LET c == Dbc!Scaled(s, Code(s, v))
         IN \/ 2 * Dbc!Abs(c - v) <= Dbc!Abs(s.factor)
            \/ /\ s.size = Width \/ (~ s.signed /\ s.size = Width - 1)
               /\ c \in {s.factor * Dbc!Highest + s.offset, s.factor * Dbc!Lowest + s.offset}
               /\ Dbc!Abs(v - s.offset) > Dbc!Abs(s.factor) * Dbc!Highest
<1> DEFINE f == s.factor
           a == v - s.offset
           q == Dbc!Divide(a, f)
           raw == Dbc!Raw(s, v)
           c == Dbc!Scaled(s, Code(s, v))
           h == Dbc!Highest
<1>1. /\ f \in Int /\ f # 0 /\ a \in Int /\ s.offset \in Int /\ q \in Int /\ raw \in Int /\ h \in Nat
      /\ Dbc!Lowest = -(h + 1) /\ c = raw * f + s.offset
      /\ s.signed \in BOOLEAN
  BY RawIs, CodeIs DEF GoodSignal, Dbc!Encodable
<1>2. 2 * Dbc!Abs(a - f * q) <= Dbc!Abs(f)
  BY <1>1, DividesNear
<1>3. raw = IF q > h THEN h ELSE IF q < -(h + 1) THEN -(h + 1) ELSE q
  BY <1>1 DEF Dbc!Raw, Dbc!Clamp
<1>4. IF s.signed THEN raw \in -Weight[s.size - 1] .. Weight[s.size - 1] - 1
      ELSE raw \in 0 .. Weight[s.size] - 1
  BY DEF Dbc!Encodable
<1>5. /\ s.size - 1 \in 0 .. Width /\ s.size \in 0 .. Width /\ s.size \in Nat /\ Width \in Nat
      /\ Width - 1 \in 0 .. Width
      /\ Weight[s.size - 1] \in Nat /\ Weight[s.size] \in Nat /\ h = Weight[Width - 1] - 1
      /\ Weight[Width - 1] \in Nat
  BY DbcLimits, WeightsOf DEF Dbc!Highest
<1>6. v = a + s.offset /\ v \in Int
  BY <1>1 DEF GoodSignal
<1> HIDE DEF f, a, q, raw, c, h
<1>7. CASE q <= h /\ q >= -(h + 1)
  <2>1. raw = q
    BY <1>1, <1>3, <1>7
  <2>2. raw * f = f * q /\ f * q \in Int
    BY <1>1, <2>1
  <2>3. Dbc!Abs(c - v) = Dbc!Abs(a - f * q)
    <3> DEFINE g == f * q
    <3>1. g \in Int /\ c = g + s.offset
      BY <1>1, <2>2
    <3> HIDE DEF g
    <3>2. c - v = g - a
      BY <1>1, <1>6, <3>1
    <3>3. Dbc!Abs(g - a) = Dbc!Abs(a - g)
      BY <1>1, <3>1, AbsSwaps
    <3> QED BY <3>2, <3>3 DEF g
  <2> QED BY <1>2, <2>3 DEF c, f
<1>8. CASE ~ (q <= h /\ q >= -(h + 1))
  <2>1. raw = h \/ raw = -(h + 1)
    BY <1>1, <1>3, <1>8
  <2>2. s.size = Width \/ (~ s.signed /\ s.size = Width - 1)
    <3>1. CASE s.signed
      <4>1. ~ (Weight[s.size - 1] < Weight[Width - 1])
        BY <1>1, <1>4, <1>5, <2>1, <3>1
      <4>2. ~ (s.size - 1 < Width - 1)
        BY <1>5, <4>1, DbcLimits
      <4> QED BY <1>5, <4>2
    <3>2. CASE ~ s.signed
      <4>1. ~ (Weight[s.size] < Weight[Width - 1])
        BY <1>1, <1>4, <1>5, <2>1, <3>2
      <4>2. ~ (s.size < Width - 1)
        BY <1>5, <4>1, DbcLimits
      <4> QED BY <1>5, <3>2, <4>2
    <3> QED BY <3>1, <3>2
  <2>3. c \in {f * h + s.offset, f * (-(h + 1)) + s.offset}
    <3>1. raw * f = f * raw
      BY <1>1
    <3> QED BY <1>1, <2>1, <3>1
  <2>4. Dbc!Abs(q) > h
    BY <1>1, <1>8 DEF Dbc!Abs
  <2>5. Dbc!Abs(a) > Dbc!Abs(f) * h
    BY <1>1, <1>2, <2>4, FarAsked
  <2> QED BY <1>1, <2>2, <2>3, <2>5 DEF c, f, a, h
<1> QED BY <1>1, <1>7, <1>8

LEMMA FilesAre ==
  ASSUME NEW f \in DbcFiles
  PROVE  /\ Len(f) \in Nat
         /\ \A m \in 1 .. Len(f) :
              /\ f[m].bytes \in Nat /\ Len(f[m].signals) \in Nat
              /\ \A k \in 1 .. Len(f[m].signals) :
                   f[m].signals[k].size \in 1 .. Width => GoodSignal(f[m].signals[k])
<1>1. /\ f \in Seq(Dbc!ToSet(f))
      /\ \A m \in Dbc!ToSet(f) :
           /\ m.bytes \in Nat /\ m.signals \in Seq(Dbc!ToSet(m.signals))
           /\ \A s \in Dbc!ToSet(m.signals) :
                /\ {s.start, s.size} \subseteq Nat
                /\ s.order \in {"little", "big"}
                /\ {s.signed, s.multiplexed} \subseteq BOOLEAN
                /\ {s.factor, s.offset, s.min, s.max} \subseteq Int
  BY CommandsAssumption DEF Dbc!DbcAssumption
<1>2. Len(f) \in Nat /\ DOMAIN f = 1 .. Len(f)
  BY <1>1, LenProperties
<1>3. ASSUME NEW m \in 1 .. Len(f)
      PROVE  /\ f[m].bytes \in Nat /\ Len(f[m].signals) \in Nat
             /\ \A k \in 1 .. Len(f[m].signals) :
                  f[m].signals[k].size \in 1 .. Width => GoodSignal(f[m].signals[k])
  <2>1. f[m] \in Dbc!ToSet(f)
    BY <1>2 DEF Dbc!ToSet
  <2>2. f[m].bytes \in Nat /\ f[m].signals \in Seq(Dbc!ToSet(f[m].signals))
    BY <1>1, <2>1
  <2>3. Len(f[m].signals) \in Nat /\ DOMAIN f[m].signals = 1 .. Len(f[m].signals)
    BY <2>2, LenProperties
  <2>4. ASSUME NEW k \in 1 .. Len(f[m].signals), f[m].signals[k].size \in 1 .. Width
        PROVE  GoodSignal(f[m].signals[k])
    <3>1. f[m].signals[k] \in Dbc!ToSet(f[m].signals)
      BY <2>3 DEF Dbc!ToSet
    <3> HIDE <1>1
    <3> DEFINE s == f[m].signals[k]
    <3>2. /\ {s.start, s.size} \subseteq Nat
          /\ s.order \in {"little", "big"}
          /\ {s.signed, s.multiplexed} \subseteq BOOLEAN
          /\ {s.factor, s.offset, s.min, s.max} \subseteq Int
      BY <1>1, <2>1, <3>1
    <3>3. s.size \in 1 .. Width
      BY <2>4
    <3> HIDE DEF s
    <3>4. GoodSignal(s)
      BY <3>2, <3>3 DEF GoodSignal
    <3> QED BY <3>4 DEF s
  <2> QED BY <2>2, <2>3, <2>4
<1> QED BY <1>2, <1>3

(* A call that ends, or a load that does, leaves everything as it is.      *)
LEMMA CallEndsKeeps ==
  ASSUME DbcInv, v9' \in {[op |-> "idle"], [op |-> "refused"]},
         v1' = v1, v2' = v2, v3' = v3, v4' = v4, v5' = v5, v6' = v6, v7' = v7, v8' = v8, v10' = v10
  PROVE  DbcInv'
<1>1. v9'.op \in {"idle", "refused"}
  OBVIOUS
<1>2. DbcTypes'
  BY <1>1 DEF DbcInv, DbcTypes
<1>3. WrittenInv'
  BY <1>1 DEF DbcInv, WrittenInv
<1>4. VisitInv' /\ EncodeInv' /\ DecodeInv'
  BY <1>1 DEF VisitInv, EncodeInv, DecodeInv
<1> QED BY <1>2, <1>3, <1>4 DEF DbcInv

LEMMA DbcLoadKeeps ==
  ASSUME DbcInv, Dbc!LongMessage \/ Dbc!TakeSignal \/ Dbc!NextMessage \/ Dbc!Loaded
  PROVE  DbcInv'
<1>1. CASE Dbc!LongMessage \/ Dbc!Loaded
  BY <1>1, CallEndsKeeps DEF Dbc!LongMessage, Dbc!Loaded, Dbc!Refuse, Dbc!loaded, Dbc!frame
<1>2. CASE Dbc!NextMessage
  <2>1. /\ v2' = v2 + 1 /\ v3' = 1 /\ v1' = v1 /\ v4' = v4 /\ v5' = v5 /\ v6' = v6 /\ v7' = v7
        /\ v8' = v8 /\ v9' = v9 /\ v10' = v10 /\ v9.op = "load"
    BY <1>2 DEF Dbc!NextMessage, Dbc!Loading, Dbc!frame
  <2>2. DbcTypes'
    BY <2>1 DEF DbcInv, DbcTypes
  <2>3. WrittenInv'
    BY <2>1 DEF DbcInv, WrittenInv
  <2>4. VisitInv' /\ EncodeInv' /\ DecodeInv'
    BY <2>1 DEF VisitInv, EncodeInv, DecodeInv
  <2> QED BY <2>2, <2>3, <2>4 DEF DbcInv
<1>3. CASE Dbc!TakeSignal
  <2> DEFINE m == v1[v2]
             s == m.signals[v3]
  <2>1. v9.op = "load" /\ v2 <= Len(v1) /\ m.bytes <= MaxBytes /\ v3 <= Len(m.signals)
    BY <1>3 DEF Dbc!TakeSignal, Dbc!Loading, Dbc!M
  <2>2. CASE s.multiplexed \/ s.size \notin 1 .. Width
    <3>1. Dbc!Refuse
      BY <1>3, <2>2 DEF Dbc!TakeSignal, Dbc!M
    <3> QED BY <3>1, CallEndsKeeps DEF Dbc!Refuse, Dbc!loaded, Dbc!frame
  <2>3. CASE ~ (s.multiplexed \/ s.size \notin 1 .. Width)
    <3>1. /\ v3' = v3 + 1 /\ v1' = v1 /\ v2' = v2 /\ v5' = v5 /\ v6' = v6 /\ v7' = v7
          /\ v8' = v8 /\ v9' = v9 /\ v10' = v10
          /\ v4' = [n \in DOMAIN v4 \cup {s.name} |->
                     IF n = s.name THEN [signal |-> s, bytes |-> m.bytes] ELSE v4[n]]
      BY <1>3, <2>3 DEF Dbc!TakeSignal, Dbc!M, Dbc!frame
    <3>2. v1 \in DbcFiles /\ v2 \in Nat \ {0} /\ v3 \in Nat \ {0} /\ MaxBytes \in Nat
      BY DbcLimits DEF DbcInv, DbcTypes
    <3>3. m.bytes \in 0 .. MaxBytes /\ GoodSignal(s)
      <4>1. Len(v1) \in Nat /\ v2 \in 1 .. Len(v1)
        BY <2>1, <3>2, FilesAre
      <4>2. m.bytes \in Nat /\ Len(m.signals) \in Nat
        BY <3>2, <4>1, FilesAre
      <4>3. v3 \in 1 .. Len(m.signals) /\ s.size \in 1 .. Width
        BY <2>1, <2>3, <3>2, <4>2
      <4>4. GoodSignal(s)
        BY <3>2, <4>1, <4>3, FilesAre
      <4> QED BY <2>1, <3>2, <4>2, <4>4
    <3> HIDE DEF m, s
    <3>4. \A n \in DOMAIN v4' : GoodSignal(v4'[n].signal) /\ v4'[n].bytes \in 0 .. MaxBytes
      BY <3>1, <3>3 DEF DbcInv, DbcTypes
    <3>5. DOMAIN v8 = {}
      BY <2>1 DEF DbcInv, WrittenInv
    <3>6. DbcTypes'
      <4>1. v3 + 1 \in Nat \ {0}
        BY <3>2
      <4>2. /\ v5 \subseteq 0 .. Bits - 1
            /\ v6 \in 0 .. MaxBytes /\ v7 \in BOOLEAN /\ (v7 => v6 > Classic)
            /\ v10 \in 0 .. MaxEncodes
            /\ v9.op \in {"load", "refused", "idle", "encode", "decode", "decoded", "panicked"}
        BY DEF DbcInv, DbcTypes
      <4> QED BY <3>1, <3>2, <3>4, <3>5, <4>1, <4>2 DEF DbcTypes
    <3>7. WrittenInv'
      BY <3>1, <3>5 DEF WrittenInv
    <3>8. VisitInv' /\ EncodeInv' /\ DecodeInv'
      BY <2>1, <3>1 DEF VisitInv, EncodeInv, DecodeInv
    <3> QED BY <3>6, <3>7, <3>8 DEF DbcInv
  <2> QED BY <2>2, <2>3
<1> QED BY <1>1, <1>2, <1>3

LEMMA EncodeKeeps ==
  ASSUME DbcInv, NEW name \in DOMAIN v4, NEW v \in DbcValues, Dbc!Encode(name, v)
  PROVE  DbcInv'
<1> DEFINE s == v4[name].signal
<1>1. /\ v9.op \in {"idle", "decoded"} /\ v10 < MaxEncodes /\ Dbc!Encodable(s, v)
      /\ v10' = v10 + 1
      /\ v8' = [n \in Dbc!Apart(s) |-> v8[n]]
      /\ v9' = Dbc!Visit("encode", name, v, Code(s, v), 0, s.start)
      /\ v1' = v1 /\ v2' = v2 /\ v3' = v3 /\ v4' = v4 /\ v5' = v5 /\ v6' = v6 /\ v7' = v7
  BY DEF Dbc!Encode, Dbc!Free, Dbc!loaded, Code
<1>2. DbcTypes /\ WrittenInv /\ GoodSignal(s) /\ v \in Int
  BY DbcLimits DEF DbcInv, DbcTypes
<1>3. /\ v9'.op = "encode" /\ v9'.name = name /\ v9'.value = v /\ v9'.raw = Code(s, v)
      /\ v9'.idx = 0 /\ v9'.pos = s.start
  BY <1>1 DEF Dbc!Visit
<1>4. DOMAIN v8' \subseteq DOMAIN v8 /\ \A n \in DOMAIN v8' : v8'[n] = v8[n]
  BY <1>1 DEF Dbc!Apart
<1>5. \A n \in DOMAIN v8' : Dbc!Places(v4[n].signal) \cap Dbc!Places(s) = {}
  BY <1>1 DEF Dbc!Apart
<1>6. Code(s, v) \in Nat
  <2>1. Code(s, v) \in 0 .. Weight[s.size] - 1
    BY <1>1, <1>2, CodeIs
  <2> QED BY <1>2, <2>1, WeightsOf
<1>7. s.start = Dbc!PlaceAt(s, 0) /\ 0 \in 0 .. s.size
  BY <1>2, PlacesAscend, WeightsOf
<1>8. Dbc!Signal' = s
  BY <1>1, <1>3 DEF Dbc!Signal
<1> HIDE DEF s
<1>9. DbcTypes'
  <2>1. v10 + 1 \in 0 .. MaxEncodes
    BY <1>1, <1>2, DbcLimits DEF DbcTypes
  <2> QED BY <1>1, <1>2, <1>3, <1>4, <2>1 DEF DbcTypes
<1>10. WrittenInv'
  BY <1>1, <1>2, <1>3, <1>4 DEF WrittenInv
<1>11. VisitInv'
  BY <1>1, <1>3, <1>6, <1>7, <1>8 DEF VisitInv
<1>12. EncodeInv'
  <2>1. Holds(s, Code(s, v), v5, 0)
    BY DEF Holds
  <2> QED BY <1>1, <1>2, <1>3, <1>5, <1>8, <2>1 DEF EncodeInv
<1>13. DecodeInv'
  BY <1>3 DEF DecodeInv
<1> QED BY <1>9, <1>10, <1>11, <1>12, <1>13 DEF DbcInv

LEMMA SetBitKeeps ==
  ASSUME DbcInv, Dbc!SetBit
  PROVE  DbcInv'
<1> DEFINE s == Dbc!Signal
           bit == Dbc!BitOf(v9.raw, Dbc!Shift(s, v9.idx))
<1>1. /\ v9.op = "encode" /\ v9.idx < s.size /\ v9.pos < Bits
      /\ v5' = IF bit = 1 THEN v5 \cup {v9.pos} ELSE v5 \ {v9.pos}
      /\ v9' = Dbc!Visit(v9.op, v9.name, v9.value, v9.raw, v9.idx + 1,
                         IF s.order = "little" THEN v9.pos + 1 ELSE Dbc!NextBit(v9.pos))
      /\ v1' = v1 /\ v2' = v2 /\ v3' = v3 /\ v4' = v4 /\ v6' = v6 /\ v7' = v7 /\ v8' = v8 /\ v10' = v10
  BY DEF Dbc!SetBit, Dbc!VisitNext, Dbc!loaded
<1>2. /\ DbcTypes /\ WrittenInv /\ v9.name \in DOMAIN v4 /\ GoodSignal(s)
      /\ v9.raw \in Nat /\ v9.idx \in 0 .. s.size /\ v9.pos = Dbc!PlaceAt(s, v9.idx)
      /\ v9.value \in Int /\ Dbc!Encodable(s, v9.value) /\ v9.raw = Code(s, v9.value)
      /\ \A n \in DOMAIN v8 : Dbc!Places(v4[n].signal) \cap Dbc!Places(s) = {}
      /\ Holds(s, v9.raw, v5, v9.idx)
  BY <1>1 DEF DbcInv, DbcTypes, VisitInv, EncodeInv, Dbc!Signal
<1>3. /\ v9'.op = "encode" /\ v9'.name = v9.name /\ v9'.value = v9.value /\ v9'.raw = v9.raw
      /\ v9'.idx = v9.idx + 1
      /\ v9'.pos = IF s.order = "little" THEN v9.pos + 1 ELSE Dbc!NextBit(v9.pos)
  BY <1>1 DEF Dbc!Visit
<1>4. v9.idx \in Nat /\ s.size \in Nat /\ v9.idx + 1 \in 0 .. s.size /\ Bits \in Nat
  BY <1>1, <1>2, WeightsOf, DbcLimits
<1>5. Dbc!Signal' = s
  BY <1>1, <1>3 DEF Dbc!Signal
<1> HIDE DEF s
<1>6. v9.pos \in Nat /\ v9'.pos = Dbc!PlaceAt(s, v9.idx + 1)
  <2>1. /\ Dbc!PlaceAt(s, v9.idx) \in Nat
        /\ Dbc!PlaceAt(s, v9.idx + 1) =
             IF s.order = "little" THEN Dbc!PlaceAt(s, v9.idx) + 1 ELSE Dbc!NextBit(Dbc!PlaceAt(s, v9.idx))
    BY <1>2, <1>4, PlacesAscend
  <2> QED BY <1>2, <1>3, <2>1, Zenon
<1>7. /\ v5' \subseteq 0 .. Bits - 1
      /\ v9.pos \in v5' <=> bit = 1
      /\ \A p : p # v9.pos => (p \in v5' <=> p \in v5)
  <2>1. v9.pos \in 0 .. Bits - 1
    BY <1>1, <1>4, <1>6
  <2> QED BY <1>1, <1>2, <2>1 DEF DbcTypes
<1>8. DbcTypes'
  <2>1. /\ v1 \in DbcFiles /\ v2 \in Nat \ {0} /\ v3 \in Nat \ {0}
        /\ \A n \in DOMAIN v4 : GoodSignal(v4[n].signal) /\ v4[n].bytes \in 0 .. MaxBytes
        /\ DOMAIN v8 \subseteq DOMAIN v4
        /\ v6 \in 0 .. MaxBytes /\ v7 \in BOOLEAN /\ (v7 => v6 > Classic)
        /\ v10 \in 0 .. MaxEncodes
    BY <1>2 DEF DbcTypes
  <2>2. v9'.op \in {"load", "refused", "idle", "encode", "decode", "decoded"}
    BY <1>3
  <2> QED BY <1>1, <1>7, <2>1, <2>2 DEF DbcTypes
<1>9. WrittenInv'
  <2>1. ASSUME NEW n \in DOMAIN v8
        PROVE  LET t == v4[n].signal
               IN v8[n] \in Int /\ Dbc!Encodable(t, v8[n]) /\ Holds(t, Code(t, v8[n]), v5', t.size)
    <3> DEFINE t == v4[n].signal
    <3>1. v8[n] \in Int /\ Dbc!Encodable(t, v8[n]) /\ Holds(t, Code(t, v8[n]), v5, t.size)
      BY <1>2 DEF WrittenInv
    <3>2. \A i \in 0 .. t.size - 1 : Dbc!PlaceAt(t, i) # v9.pos
      <4>1. \A i \in 0 .. t.size - 1 : Dbc!PlaceAt(t, i) \in Dbc!Places(t)
        BY DEF Dbc!Places
      <4>2. v9.pos \in Dbc!Places(s)
        <5>1. v9.idx \in 0 .. s.size - 1
          BY <1>1, <1>4 DEF s
        <5> QED BY <1>2, <5>1 DEF Dbc!Places
      <4>3. Dbc!Places(t) \cap Dbc!Places(s) = {}
        BY <1>2
      <4> QED BY <4>1, <4>2, <4>3
    <3> HIDE DEF t
    <3>3. Holds(t, Code(t, v8[n]), v5', t.size)
      BY <1>7, <3>1, <3>2 DEF Holds
    <3> QED BY <3>1, <3>3 DEF t
  <2> QED BY <1>1, <1>3, <2>1 DEF WrittenInv
<1>10. VisitInv'
  BY <1>1, <1>2, <1>3, <1>4, <1>5, <1>6 DEF VisitInv
<1>11. EncodeInv'
  <2>1. Holds(s, v9.raw, v5', v9.idx + 1)
    <3> SUFFICES ASSUME NEW i \in 0 .. (v9.idx + 1) - 1
                 PROVE  /\ Dbc!PlaceAt(s, i) \in 0 .. Bits - 1
                        /\ Dbc!PlaceAt(s, i) \in v5' <=> Dbc!BitOf(v9.raw, Dbc!Shift(s, i)) = 1
      BY DEF Holds
    <3>1. i \in Nat /\ (i = v9.idx \/ i \in 0 .. v9.idx - 1)
      BY <1>4
    <3>2. CASE i = v9.idx
      BY <1>1, <1>2, <1>4, <1>6, <1>7, <3>2
    <3>3. CASE i \in 0 .. v9.idx - 1
      <4>1. i # v9.idx
        BY <1>4, <3>3
      <4>2. Dbc!PlaceAt(s, i) # v9.pos
        BY <1>2, <1>4, <3>1, <4>1, PlacesAscend
      <4>3. /\ Dbc!PlaceAt(s, i) \in 0 .. Bits - 1
            /\ Dbc!PlaceAt(s, i) \in v5 <=> Dbc!BitOf(v9.raw, Dbc!Shift(s, i)) = 1
        BY <1>2, <3>3 DEF Holds
      <4> QED BY <1>7, <4>2, <4>3
    <3> QED BY <3>1, <3>2, <3>3
  <2> QED BY <1>1, <1>2, <1>3, <1>5, <2>1 DEF EncodeInv
<1>12. DecodeInv'
  BY <1>3 DEF DecodeInv
<1> QED BY <1>8, <1>9, <1>10, <1>11, <1>12 DEF DbcInv

LEMMA EncodedKeeps ==
  ASSUME DbcInv, Dbc!Encoded
  PROVE  DbcInv'
<1> DEFINE s == Dbc!Signal
           bytes == v4[v9.name].bytes
<1>1. /\ v9.op = "encode" /\ v9.idx = s.size
      /\ v6' = IF bytes > v6 THEN bytes ELSE v6
      /\ v7' = (v6' > Classic)
      /\ v8' = [n \in DOMAIN v8 \cup {v9.name} |-> IF n = v9.name THEN v9.value ELSE v8[n]]
      /\ v9' = [op |-> "idle"]
      /\ v1' = v1 /\ v2' = v2 /\ v3' = v3 /\ v4' = v4 /\ v5' = v5 /\ v10' = v10
  BY DEF Dbc!Encoded, Dbc!loaded
<1>2. /\ DbcTypes /\ WrittenInv /\ v9.name \in DOMAIN v4 /\ s = v4[v9.name].signal
      /\ v9.value \in Int /\ Dbc!Encodable(s, v9.value) /\ v9.raw = Code(s, v9.value)
      /\ Holds(s, v9.raw, v5, v9.idx)
  BY <1>1 DEF DbcInv, VisitInv, EncodeInv, Dbc!Signal
<1>3. v9'.op = "idle"
  BY <1>1
<1>4. v6' \in 0 .. MaxBytes /\ v7' \in BOOLEAN /\ (v7' => v6' > Classic)
  <2>1. bytes \in 0 .. MaxBytes /\ v6 \in 0 .. MaxBytes
    BY <1>2 DEF DbcTypes
  <2>2. v6' = IF bytes > v6 THEN bytes ELSE v6
    BY <1>1
  <2>3. v7' = (v6' > Classic)
    BY <1>1
  <2> HIDE DEF bytes
  <2>4. v6' \in 0 .. MaxBytes
    BY <2>1, <2>2
  <2>5. v7' \in BOOLEAN
    <3>1. v6' \in Int /\ Classic \in Int
      BY <2>4, DbcLimits
    <3>2. (v6' > Classic) \in BOOLEAN
      BY <3>1
    <3> QED BY <2>3, <3>2, Zenon
  <2>6. v7' => v6' > Classic
    BY <2>3, Zenon
  <2> QED BY <2>4, <2>5, <2>6
<1> HIDE DEF s, bytes
<1>5. DbcTypes'
  <2>1. /\ v1 \in DbcFiles /\ v2 \in Nat \ {0} /\ v3 \in Nat \ {0}
        /\ \A n \in DOMAIN v4 : GoodSignal(v4[n].signal) /\ v4[n].bytes \in 0 .. MaxBytes
        /\ DOMAIN v8 \subseteq DOMAIN v4 /\ v5 \subseteq 0 .. Bits - 1
        /\ v10 \in 0 .. MaxEncodes
    BY <1>2 DEF DbcTypes
  <2>2. DOMAIN v8' \subseteq DOMAIN v4
    BY <1>1, <1>2, <2>1
  <2> QED BY <1>1, <1>3, <1>4, <2>1, <2>2 DEF DbcTypes
<1>6. WrittenInv'
  <2>1. ASSUME NEW n \in DOMAIN v8'
        PROVE  LET t == v4[n].signal
               IN v8'[n] \in Int /\ Dbc!Encodable(t, v8'[n]) /\ Holds(t, Code(t, v8'[n]), v5, t.size)
    <3>1. CASE n = v9.name
      BY <1>1, <1>2, <3>1
    <3>2. CASE n # v9.name
      BY <1>1, <1>2, <2>1, <3>2 DEF WrittenInv
    <3> QED BY <3>1, <3>2
  <2> QED BY <1>1, <1>3, <2>1 DEF WrittenInv
<1>7. VisitInv' /\ EncodeInv' /\ DecodeInv'
  BY <1>3 DEF VisitInv, EncodeInv, DecodeInv
<1> QED BY <1>5, <1>6, <1>7 DEF DbcInv


LEMMA DecodeKeeps ==
  ASSUME DbcInv, NEW name \in DOMAIN v4, Dbc!Decode(name)
  PROVE  DbcInv'
<1> DEFINE s == v4[name].signal
<1>1. /\ v9' = Dbc!Visit("decode", name, 0, 0, 0, s.start)
      /\ v1' = v1 /\ v2' = v2 /\ v3' = v3 /\ v4' = v4 /\ v5' = v5 /\ v6' = v6 /\ v7' = v7
      /\ v8' = v8 /\ v10' = v10
  BY DEF Dbc!Decode, Dbc!loaded, Dbc!frame
<1>2. DbcTypes /\ WrittenInv /\ GoodSignal(s)
  BY DEF DbcInv, DbcTypes
<1>3. v9'.op = "decode" /\ v9'.name = name /\ v9'.raw = 0 /\ v9'.idx = 0 /\ v9'.pos = s.start
  BY <1>1 DEF Dbc!Visit
<1>4. Dbc!Signal' = s
  BY <1>1, <1>3 DEF Dbc!Signal
<1>5. name \in DOMAIN v8 =>
        /\ Code(s, v8[name]) % Weight[0] = 0
        /\ Code(s, v8[name]) \div Weight[s.size - 0] = 0
  <2> SUFFICES ASSUME name \in DOMAIN v8
               PROVE  /\ Code(s, v8[name]) % Weight[0] = 0
                      /\ Code(s, v8[name]) \div Weight[s.size - 0] = 0
    OBVIOUS
  <2>1. v8[name] \in Int /\ Dbc!Encodable(s, v8[name])
    BY <1>2 DEF WrittenInv
  <2>2. Code(s, v8[name]) \in 0 .. Weight[s.size] - 1 /\ s.size \in 0 .. Width /\ s.size - 0 = s.size
    BY <1>2, <2>1, CodeIs, WeightsOf
  <2> QED BY <2>2, AllBits
<1>6. s.start = Dbc!PlaceAt(s, 0) /\ 0 \in 0 .. s.size
  BY <1>2, PlacesAscend, WeightsOf
<1> HIDE DEF s
<1>7. DbcTypes'
  BY <1>1, <1>2, <1>3 DEF DbcTypes
<1>8. WrittenInv'
  BY <1>1, <1>2, <1>3 DEF WrittenInv
<1>9. VisitInv'
  BY <1>1, <1>3, <1>4, <1>6 DEF VisitInv
<1>10. EncodeInv'
  BY <1>3 DEF EncodeInv
<1>11. DecodeInv'
  BY <1>1, <1>3, <1>4, <1>5 DEF DecodeInv
<1> QED BY <1>7, <1>8, <1>9, <1>10, <1>11 DEF DbcInv

LEMMA GetBitKeeps ==
  ASSUME DbcInv, Dbc!GetBit
  PROVE  DbcInv'
<1> DEFINE s == Dbc!Signal
           bit == IF v9.pos \in v5 THEN 1 ELSE 0
           raw == IF s.order = "little" THEN v9.raw + bit * Weight[v9.idx] ELSE 2 * v9.raw + bit
<1>1. /\ v9.op = "decode" /\ v9.idx < s.size /\ v9.pos < Bits
      /\ v9' = Dbc!Visit(v9.op, v9.name, v9.value, raw, v9.idx + 1,
                         IF s.order = "little" THEN v9.pos + 1 ELSE Dbc!NextBit(v9.pos))
      /\ v1' = v1 /\ v2' = v2 /\ v3' = v3 /\ v4' = v4 /\ v5' = v5 /\ v6' = v6 /\ v7' = v7
      /\ v8' = v8 /\ v10' = v10
  BY DEF Dbc!GetBit, Dbc!VisitNext, Dbc!loaded, Dbc!frame
<1>2. /\ DbcTypes /\ WrittenInv /\ v9.name \in DOMAIN v4 /\ GoodSignal(s) /\ s = v4[v9.name].signal
      /\ v9.raw \in Nat /\ v9.idx \in 0 .. s.size /\ v9.pos = Dbc!PlaceAt(s, v9.idx)
  BY <1>1 DEF DbcInv, DbcTypes, VisitInv, Dbc!Signal
<1>3. v9.name \in DOMAIN v8 =>
        v9.raw = IF s.order = "little" THEN Code(s, v8[v9.name]) % Weight[v9.idx]
                 ELSE Code(s, v8[v9.name]) \div Weight[s.size - v9.idx]
  BY <1>1 DEF DbcInv, DecodeInv
<1>4. /\ v9'.op = "decode" /\ v9'.name = v9.name /\ v9'.raw = raw /\ v9'.idx = v9.idx + 1
      /\ v9'.pos = IF s.order = "little" THEN v9.pos + 1 ELSE Dbc!NextBit(v9.pos)
  BY <1>1 DEF Dbc!Visit
<1>5. Dbc!Signal' = s
  BY <1>1, <1>4 DEF Dbc!Signal
<1> HIDE DEF s
<1>6. /\ v9.idx \in 0 .. Width - 1 /\ v9.idx \in 0 .. Width /\ v9.idx \in Nat /\ s.size \in Nat
      /\ v9.idx \in 0 .. s.size - 1 /\ v9.idx + 1 \in 0 .. s.size
      /\ (s.size - 1) - v9.idx \in 0 .. Width - 1
      /\ ((s.size - 1) - v9.idx) + 1 = s.size - v9.idx /\ s.size - (v9.idx + 1) = (s.size - 1) - v9.idx
      /\ s.order \in {"little", "big"}
  <2>1. s.size \in 0 .. Width /\ s.size \in Nat /\ Width \in Nat /\ s.order \in {"little", "big"}
    BY <1>2, WeightsOf, DbcLimits DEF GoodSignal
  <2> QED BY <1>1, <1>2, <2>1
<1>7. bit \in {0, 1} /\ Weight[v9.idx] \in Nat
  BY <1>6, DbcLimits
<1>8. v9'.pos = Dbc!PlaceAt(s, v9.idx + 1)
  <2>1. Dbc!PlaceAt(s, v9.idx + 1) =
          IF s.order = "little" THEN Dbc!PlaceAt(s, v9.idx) + 1 ELSE Dbc!NextBit(Dbc!PlaceAt(s, v9.idx))
    BY <1>2, <1>6, PlacesAscend
  <2> QED BY <1>2, <1>4, <2>1, Zenon
<1>9. raw \in Nat
  <2> HIDE DEF bit
  <2> QED BY <1>2, <1>7
<1>10. ASSUME v9.name \in DOMAIN v8
       PROVE  raw = IF s.order = "little" THEN Code(s, v8[v9.name]) % Weight[v9.idx + 1]
                    ELSE Code(s, v8[v9.name]) \div Weight[s.size - (v9.idx + 1)]
  <2> DEFINE code == Code(s, v8[v9.name])
             b == Dbc!BitOf(code, Dbc!Shift(s, v9.idx))
  <2>1. v8[v9.name] \in Int /\ Dbc!Encodable(s, v8[v9.name]) /\ Holds(s, code, v5, s.size)
    BY <1>2, <1>10 DEF WrittenInv
  <2>2. code \in Nat
    <3>1. code \in 0 .. Weight[s.size] - 1 /\ Weight[s.size] \in Nat
      BY <1>2, <2>1, CodeIs, WeightsOf
    <3> QED BY <3>1
  <2>3. v9.pos \in v5 <=> b = 1
    BY <1>2, <1>6, <2>1 DEF Holds
  <2> HIDE DEF code
  <2>4. CASE s.order = "little"
    <3>1. Dbc!Shift(s, v9.idx) = v9.idx
      BY <2>4 DEF Dbc!Shift
    <3>2. b \in {0, 1} /\ code % Weight[v9.idx + 1] = (code % Weight[v9.idx]) + b * Weight[v9.idx]
      BY <1>6, <2>2, <3>1, BitByBit
    <3>3. bit = b
      BY <2>3, <3>2
    <3>4. raw = v9.raw + bit * Weight[v9.idx] /\ v9.raw = code % Weight[v9.idx]
      BY <1>3, <1>10, <2>4 DEF code
    <3> HIDE DEF bit, b, raw
    <3>5. raw = code % Weight[v9.idx + 1]
      BY <3>2, <3>3, <3>4
    <3> QED BY <2>4, <3>5 DEF code
  <2>5. CASE s.order = "big"
    <3>1. Dbc!Shift(s, v9.idx) = (s.size - 1) - v9.idx
      BY <2>5 DEF Dbc!Shift
    <3>2. /\ b \in {0, 1}
          /\ code \div Weight[s.size - (v9.idx + 1)] = 2 * (code \div Weight[s.size - v9.idx]) + b
      <4> DEFINE i == (s.size - 1) - v9.idx
      <4>1. i \in 0 .. Width - 1 /\ i + 1 = s.size - v9.idx /\ i = s.size - (v9.idx + 1)
        BY <1>6
      <4> HIDE DEF i
      <4>2. Dbc!BitOf(code, i) \in {0, 1} /\ code \div Weight[i] = 2 * (code \div Weight[i + 1]) + Dbc!BitOf(code, i)
        BY <2>2, <4>1, BitByBit
      <4> QED BY <3>1, <4>1, <4>2 DEF i
    <3>3. bit = b
      BY <2>3, <3>2
    <3>4. raw = 2 * v9.raw + bit /\ v9.raw = code \div Weight[s.size - v9.idx]
      BY <1>3, <1>10, <2>5 DEF code
    <3> HIDE DEF bit, b, raw
    <3>5. raw = code \div Weight[s.size - (v9.idx + 1)]
      BY <3>2, <3>3, <3>4
    <3> QED BY <2>5, <3>5 DEF code
  <2> QED BY <1>6, <2>4, <2>5
<1> HIDE DEF raw
<1>11. DbcTypes'
  BY <1>1, <1>2, <1>4 DEF DbcTypes
<1>12. WrittenInv'
  BY <1>1, <1>2, <1>4 DEF WrittenInv
<1>13. VisitInv'
  BY <1>1, <1>2, <1>4, <1>5, <1>6, <1>8, <1>9 DEF VisitInv
<1>14. EncodeInv'
  BY <1>4 DEF EncodeInv
<1>15. DecodeInv'
  BY <1>1, <1>4, <1>5, <1>10 DEF DecodeInv
<1> QED BY <1>11, <1>12, <1>13, <1>14, <1>15 DEF DbcInv

(* What is taken at the end of a decoding is the code of the value.        *)
LEMMA CodeTaken ==
  ASSUME DbcInv, v9.op = "decode", v9.idx = Dbc!Signal.size, v9.name \in DOMAIN v8
  PROVE  v9.raw = Code(Dbc!Signal, v8[v9.name])
<1> DEFINE s == Dbc!Signal
           code == Code(s, v8[v9.name])
<1>1. v9.raw = IF s.order = "little" THEN code % Weight[v9.idx] ELSE code \div Weight[s.size - v9.idx]
  BY DEF DbcInv, DecodeInv
<1>2. GoodSignal(s) /\ v8[v9.name] \in Int /\ Dbc!Encodable(s, v8[v9.name])
  BY DEF DbcInv, DbcTypes, WrittenInv, Dbc!Signal
<1>3. code \in 0 .. Weight[s.size] - 1 /\ s.size \in 0 .. Width /\ s.size - s.size = 0
  BY <1>2, CodeIs, WeightsOf
<1>4. code % Weight[s.size] = code /\ code \div Weight[0] = code
  BY <1>3, AllBits
<1>5. v9.idx = s.size
  OBVIOUS
<1> HIDE DEF s, code
<1>6. v9.raw = code
  BY <1>1, <1>3, <1>4, <1>5
<1> QED BY <1>6 DEF code, s

LEMMA PanicKeeps ==
  ASSUME DbcInv, Dbc!DecodePanics
  PROVE  DbcInv'
<1>1. /\ v9.op = "decode" /\ v9.idx = Dbc!Signal.size /\ Dbc!Overflows(Dbc!Signal, v9.raw)
      /\ v9'.op = "panicked" /\ v9'.name = v9.name
      /\ v1' = v1 /\ v2' = v2 /\ v3' = v3 /\ v4' = v4 /\ v5' = v5 /\ v6' = v6 /\ v7' = v7
      /\ v8' = v8 /\ v10' = v10
  BY DEF Dbc!DecodePanics, Dbc!loaded, Dbc!frame
<1>2. DbcTypes' /\ WrittenInv'
  BY <1>1 DEF DbcInv, DbcTypes, WrittenInv
<1>3. VisitInv' /\ EncodeInv'
  BY <1>1 DEF VisitInv, EncodeInv
<1>4. Dbc!Signal' = Dbc!Signal
  BY <1>1 DEF Dbc!Signal
<1>5. v9.name \in DOMAIN v8 => v9.raw = Code(Dbc!Signal, v8[v9.name])
  BY <1>1, CodeTaken
<1>6. DecodeInv'
  BY <1>1, <1>4, <1>5 DEF DecodeInv
<1> QED BY <1>2, <1>3, <1>6 DEF DbcInv

LEMMA DecodedKeeps ==
  ASSUME DbcInv, Dbc!Decoded
  PROVE  DbcInv'
<1> DEFINE s == Dbc!Signal
<1>1. /\ v9.op = "decode" /\ v9.idx = s.size
      /\ v9' = [op |-> "decoded", name |-> v9.name, value |-> Dbc!Scaled(s, v9.raw)]
      /\ v1' = v1 /\ v2' = v2 /\ v3' = v3 /\ v4' = v4 /\ v5' = v5 /\ v6' = v6 /\ v7' = v7
      /\ v8' = v8 /\ v10' = v10
  BY DEF Dbc!Decoded, Dbc!loaded, Dbc!frame
<1>2. /\ DbcTypes /\ WrittenInv /\ v9.name \in DOMAIN v4 /\ GoodSignal(s) /\ s = v4[v9.name].signal
  BY <1>1 DEF DbcInv, DbcTypes, VisitInv, Dbc!Signal
<1>3. v9'.op = "decoded" /\ v9'.name = v9.name /\ v9'.value = Dbc!Scaled(s, v9.raw)
  BY <1>1
<1>4. Dbc!Signal' = s
  BY <1>1, <1>3 DEF Dbc!Signal
<1>5. ASSUME v9.name \in DOMAIN v8
      PROVE  v9.raw = Code(s, v8[v9.name])
  BY <1>1, <1>5, CodeTaken
<1> HIDE DEF s
<1>6. DbcTypes'
  BY <1>1, <1>2, <1>3 DEF DbcTypes
<1>7. WrittenInv'
  BY <1>1, <1>2, <1>3 DEF WrittenInv
<1>8. VisitInv' /\ EncodeInv'
  BY <1>3 DEF VisitInv, EncodeInv
<1>9. DecodeInv'
  BY <1>1, <1>3, <1>4, <1>5 DEF DecodeInv
<1> QED BY <1>6, <1>7, <1>8, <1>9 DEF DbcInv

LEMMA DbcStep ==
  ASSUME DbcInv, [Dbc!Next]_(Dbc!vars)
  PROVE  DbcInv'
<1>1. CASE Dbc!LongMessage \/ Dbc!TakeSignal \/ Dbc!NextMessage \/ Dbc!Loaded
  BY <1>1, DbcLoadKeeps
<1>2. CASE \E name \in DOMAIN v4, v \in DbcValues : Dbc!Encode(name, v)
  <2>1. PICK name \in DOMAIN v4 : \E v \in DbcValues : Dbc!Encode(name, v)
    BY <1>2
  <2>2. PICK v \in DbcValues : Dbc!Encode(name, v)
    BY <2>1
  <2> QED BY <2>2, EncodeKeeps
<1>3. CASE Dbc!SetBit
  BY <1>3, SetBitKeeps
<1>4. CASE Dbc!Encoded
  BY <1>4, EncodedKeeps
<1>5. CASE \E name \in DOMAIN v4 : Dbc!Decode(name)
  BY <1>5, DecodeKeeps
<1>6. CASE Dbc!GetBit
  BY <1>6, GetBitKeeps
<1>7. CASE Dbc!Decoded
  BY <1>7, DecodedKeeps
<1>8. CASE Dbc!OutOfBounds
  BY <1>8, CallEndsKeeps DEF Dbc!OutOfBounds, Dbc!loaded, Dbc!frame
<1>10. CASE Dbc!DecodePanics
  BY <1>10, PanicKeeps
<1>9. CASE UNCHANGED Dbc!vars
  <2>1. /\ v1' = v1 /\ v2' = v2 /\ v3' = v3 /\ v4' = v4 /\ v5' = v5 /\ v6' = v6 /\ v7' = v7
        /\ v8' = v8 /\ v9' = v9 /\ v10' = v10
    BY <1>9 DEF Dbc!vars
  <2> QED BY <2>1 DEF DbcInv, DbcTypes, WrittenInv, VisitInv, EncodeInv, DecodeInv, Dbc!Signal
<1> QED BY <1>1, <1>2, <1>3, <1>4, <1>5, <1>6, <1>7, <1>8, <1>9, <1>10 DEF Dbc!Next

LEMMA DbcInit ==
  ASSUME Dbc!Init
  PROVE  DbcInv
<1>1. /\ v1 \in DbcFiles /\ v2 = 1 /\ v3 = 1 /\ DOMAIN v4 = {} /\ v5 \in {{}, 0 .. Bits - 1}
      /\ v6 = 0 /\ v7 = FALSE /\ DOMAIN v8 = {} /\ v9.op = "load" /\ v10 = 0
  BY DEF Dbc!Init
<1>2. DbcTypes
  <2>1. v6 \in 0 .. MaxBytes /\ v10 \in 0 .. MaxEncodes
    BY <1>1, DbcLimits
  <2>2. v5 \subseteq 0 .. Bits - 1
    BY <1>1
  <2>3. v7 \in BOOLEAN /\ (v7 => v6 > Classic)
    BY <1>1
  <2>4. /\ v1 \in DbcFiles /\ v2 \in Nat \ {0} /\ v3 \in Nat \ {0}
        /\ v9.op \in {"load", "refused", "idle", "encode", "decode", "decoded", "panicked"}
    BY <1>1
  <2>5. /\ \A n \in DOMAIN v4 : GoodSignal(v4[n].signal) /\ v4[n].bytes \in 0 .. MaxBytes
        /\ DOMAIN v8 \subseteq DOMAIN v4
    BY <1>1
  <2> QED BY <2>1, <2>2, <2>3, <2>4, <2>5 DEF DbcTypes
<1>3. WrittenInv
  BY <1>1 DEF WrittenInv
<1>4. VisitInv /\ EncodeInv /\ DecodeInv
  BY <1>1 DEF VisitInv, EncodeInv, DecodeInv
<1> QED BY <1>2, <1>3, <1>4 DEF DbcInv

LEMMA DbcPassed ==
  ASSUME DbcInv
  PROVE  Dbc!TypeOK /\ Dbc!ReadsBack
<1>1. Dbc!TypeOK
  BY DEF DbcInv, DbcTypes, Dbc!TypeOK
<1>2. ASSUME v9.op = "decoded", v9.name \in DOMAIN v8
      PROVE  LET s == Dbc!Signal
                 v == v8[v9.name]
             IN \/ 2 * Dbc!Abs(v9.value - v) <= Dbc!Abs(s.factor)
                \/ /\ s.size = Width \/ (~ s.signed /\ s.size = Width - 1)
                   /\ v9.value \in {s.factor * Dbc!Highest + s.offset, s.factor * Dbc!Lowest + s.offset}
                   /\ Dbc!Abs(v - s.offset) > Dbc!Abs(s.factor) * Dbc!Highest
  <2> DEFINE s == Dbc!Signal
             v == v8[v9.name]
  <2>1. /\ GoodSignal(s) /\ v \in Int /\ Dbc!Encodable(s, v) /\ v9.value = Dbc!Scaled(s, Code(s, v))
    BY <1>2 DEF DbcInv, DbcTypes, WrittenInv, DecodeInv, Dbc!Signal
  <2> HIDE DEF s, v
  <2>2. LET c == Dbc!Scaled(s, Code(s, v))
        IN \/ 2 * Dbc!Abs(c - v) <= Dbc!Abs(s.factor)
           \/ /\ s.size = Width \/ (~ s.signed /\ s.size = Width - 1)
              /\ c \in {s.factor * Dbc!Highest + s.offset, s.factor * Dbc!Lowest + s.offset}
              /\ Dbc!Abs(v - s.offset) > Dbc!Abs(s.factor) * Dbc!Highest
    BY <2>1, CodeReads
  <2> QED BY <2>1, <2>2 DEF s, v
<1>3. ASSUME v9.op = "decode", v9.name \in DOMAIN v8, v9.idx < Dbc!Signal.size
      PROVE  v9.pos < Bits
  <2> DEFINE s == Dbc!Signal
  <2>1. /\ GoodSignal(s) /\ Holds(s, Code(s, v8[v9.name]), v5, s.size)
        /\ v9.idx \in 0 .. s.size /\ v9.pos = Dbc!PlaceAt(s, v9.idx)
    BY <1>3 DEF DbcInv, DbcTypes, WrittenInv, VisitInv, Dbc!Signal
  <2>2. s.size \in Nat /\ Bits \in Nat /\ v9.idx < s.size
    BY <1>3, <2>1, WeightsOf, DbcLimits
  <2> HIDE DEF s
  <2>3. Dbc!PlaceAt(s, v9.idx) \in 0 .. Bits - 1
    BY <2>1, <2>2 DEF Holds
  <2> QED BY <2>1, <2>2, <2>3
<1>4. ASSUME v9.op = "panicked", v9.name \in DOMAIN v8
      PROVE  /\ Dbc!Signal.signed /\ Dbc!Signal.size = Width - 1
             /\ Dbc!Raw(Dbc!Signal, v8[v9.name]) < 0
  <2>1. /\ GoodSignal(Dbc!Signal) /\ v8[v9.name] \in Int
        /\ Dbc!Encodable(Dbc!Signal, v8[v9.name])
        /\ Dbc!Overflows(Dbc!Signal, Code(Dbc!Signal, v8[v9.name]))
    BY <1>4 DEF DbcInv, DbcTypes, WrittenInv, DecodeInv, Dbc!Signal
  <2>2. Dbc!Raw(Dbc!Signal, v8[v9.name]) < 0
    BY <2>1, NegativeCode
  <2> QED BY <2>1, <2>2 DEF Dbc!Overflows
<1> QED BY <1>1, <1>2, <1>3, <1>4 DEF Dbc!ReadsBack

-----------------------------------------------------------------------------
(* Whatever the files and in whatever order they are loaded, the regions   *)
(* handed to the libraries are what the files say, the last word on each   *)
(* address, in pieces that stand apart, and only a file with an error that *)
(* counts is refused.  Of a DBC file, a signal reads the value last asked  *)
(* of it, whatever was written to signals that share no bit with it: it    *)
(* reads the nearest that an integer holds if it is as wide as one, and it *)
(* may panic only if it has a sign, is a bit narrower and was asked for a  *)
(* negative value.                                                         *)
THEOREM BytesAsMeant == Spec => []BytesExact
<1> DEFINE Inv == (part = "flash" => FlashInv) /\ (part = "dbc" => DbcInv)
<1>1. Init => Inv
  <2> SUFFICES ASSUME Init
               PROVE  Inv
    OBVIOUS
  <2>1. ASSUME part = "flash"
        PROVE  FlashInv
    <3>1. Flash!Init
      BY <2>1 DEF Init
    <3> QED BY <3>1, FlashInit
  <2>2. ASSUME part = "dbc"
        PROVE  DbcInv
    <3>1. Dbc!Init
      BY <2>2 DEF Init
    <3> QED BY <3>1, DbcInit
  <2> QED BY <2>1, <2>2
<1>2. Inv /\ [Next]_vars => Inv'
  <2> SUFFICES ASSUME Inv, [Next]_vars
               PROVE  Inv'
    OBVIOUS
  <2>1. ASSUME part = "flash"
        PROVE  FlashInv'
    BY <2>1, BytesMove, FlashStep
  <2>2. ASSUME part = "dbc"
        PROVE  DbcInv'
    BY <2>2, BytesMove, DbcStep
  <2>3. part' = part
    BY BytesMove
  <2> QED BY <2>1, <2>2, <2>3
<1>3. Inv => BytesExact
  BY FlashPassed, DbcPassed DEF BytesExact
<1> QED BY <1>1, <1>2, <1>3, PTL DEF Spec

=============================================================================
