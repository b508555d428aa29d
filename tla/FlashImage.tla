------------------------------ MODULE FlashImage ------------------------------
(***************************************************************************)
(* From flash blocks to the regions given to an instance: Intel HEX,       *)
(* S-record and raw files are read into a memory, record by record, the    *)
(* memory is taken apart into regions, and the regions of all blocks are   *)
(* written over each other and taken apart again (runtime/src/load/mod.rs  *)
(* and the flash blocks of load/resolve.rs).                               *)
(*                                                                         *)
(* A record is what its line decodes to; a line that does not (a bad       *)
(* digit, length or checksum) is a record of type "bad".  A raw file and   *)
(* an inline value are one record of data, at -1 if no base was given.     *)
(* Addresses are 32 bits wide in the code; a HEX record's base and offset  *)
(* of 16 bits each never pass the last one.                                *)
(***************************************************************************)
EXTENDS Integers, SequencesExt

CONSTANTS
  Loads,        (* the lists of blocks considered: [kind, records]         *)
  Top,          (* the last address                                        *)
  LinearUnit,   (* what the bases of a HEX file count in                   *)
  SegmentUnit

FlashAssumption ==
  /\ {Top, LinearUnit, SegmentUnit} \subseteq Nat
  /\ \A load \in Loads :
       /\ load \in Seq(ToSet(load))
       /\ \A b \in ToSet(load) :
            /\ b.kind \in {"hex", "srec", "binary", "inline", "missing"}
            /\ b.records \in Seq(ToSet(b.records))
            /\ \A r \in ToSet(b.records) :
                 /\ r.type = "data" => r.addr \in Nat \cup {-1} /\ r.data \in Seq(0 .. 255)
                 /\ r.type \in {"segment", "linear"} => r.base \in Nat
                 /\ b.kind \in {"hex", "srec"} /\ r.type = "data" => r.addr # -1
            /\ b.kind \in {"binary", "inline"} => Len(b.records) = 1 /\ b.records[1].type = "data"

VARIABLES
  blocks,    (* the blocks of the load                                     *)
  block,     (* the one being read, past the last when they are merged     *)
  line,      (* the record being read, or the region being merged          *)
  upper,     (* upper_addr: the base of the following HEX records          *)
  memory,    (* FlashMemory: of the file being read, or of all regions     *)
  regions,   (* the regions so far                                         *)
  outcome    (* "reading", "listing" the merged memory, "ok", "error"      *)

vars == <<blocks, block, line, upper, memory, regions, outcome>>

Blank == [a \in {} |-> 0]

Init ==
  /\ blocks \in Loads
  /\ block = 1 /\ line = 1 /\ upper = 0
  /\ memory = Blank
  /\ regions = <<>>
  /\ outcome = "reading"

-----------------------------------------------------------------------------
(* FlashMemory, and the pieces of data it is made of.                      *)

Piece(base, data) == [base |-> base, data |-> data]
Covers(p, a) == a \in p.base .. p.base + Len(p.data) - 1
ByteIn(p, a) == p.data[a - p.base + 1]

(* ensure_address_range                                                    *)
Fits(p) == p.data = <<>> \/ p.base + Len(p.data) - 1 <= Top

Written(m, p) ==
  [a \in DOMAIN m \cup p.base .. p.base + Len(p.data) - 1 |->
     IF Covers(p, a) THEN ByteIn(p, a) ELSE m[a]]

(* into_regions: a region for the next run of consecutive addresses.       *)
TakeRun(s, e) ==
  /\ \A a \in DOMAIN memory : s <= a
  /\ s <= e /\ s .. e \subseteq DOMAIN memory /\ e + 1 \notin DOMAIN memory
  /\ regions' = Append(regions, Piece(s, [k \in 1 .. e - s + 1 |-> memory[s + k - 1]]))
  /\ memory' = [a \in (DOMAIN memory) \ (s .. e) |-> memory[a]]

-----------------------------------------------------------------------------
Reading == outcome = "reading" /\ block <= Len(blocks)
Merging == outcome = "reading" /\ block > Len(blocks)
B == blocks[block]
Record == B.records[line]
InRecords(format) == Reading /\ B.kind = format /\ line <= Len(B.records)
FileRead == Reading /\ B.kind \in {"hex", "srec"} /\ line > Len(B.records)

Refuse ==
  /\ outcome' = "error"
  /\ regions' = <<>>
  /\ UNCHANGED <<blocks, block, line, upper, memory>>

BaseOf(r) == r.base * (IF r.type = "linear" THEN LinearUnit ELSE SegmentUnit)

(* A record of data, at the address it stands for.                         *)
WriteData(at) ==
  IF Fits(Piece(at, Record.data))
  THEN /\ memory' = Written(memory, Piece(at, Record.data))
       /\ line' = line + 1
       /\ UNCHANGED <<blocks, block, upper, regions, outcome>>
  ELSE Refuse

HexData == InRecords("hex") /\ Record.type = "data" /\ WriteData(upper + Record.addr)
SrecData == InRecords("srec") /\ Record.type = "data" /\ WriteData(Record.addr)

(* Records 02 and 04 of a HEX file.                                        *)
HexBase ==
  /\ InRecords("hex") /\ Record.type \in {"segment", "linear"}
  /\ upper' = BaseOf(Record)
  /\ line' = line + 1
  /\ UNCHANGED <<blocks, block, memory, regions, outcome>>

(* Records 03 and 05 of a HEX file, S0 and S5 to S9.                       *)
OtherRecord ==
  /\ \/ InRecords("hex") /\ Record.type = "entry"
     \/ InRecords("srec") /\ Record.type = "other"
  /\ line' = line + 1
  /\ UNCHANGED <<blocks, block, upper, memory, regions, outcome>>

(* Record 01: what follows is not looked at.                               *)
HexEnd ==
  /\ InRecords("hex") /\ Record.type = "end"
  /\ line' = Len(B.records) + 1
  /\ UNCHANGED <<blocks, block, upper, memory, regions, outcome>>

(* A line that is no record, or of a type the format does not have.        *)
BadRecord ==
  /\ InRecords("hex") \/ InRecords("srec")
  /\ Record.type = "bad"
  /\ Refuse

NextBlock ==
  /\ block' = block + 1
  /\ line' = 1 /\ upper' = 0
  /\ UNCHANGED <<blocks, outcome>>

FileEnds ==
  /\ FileRead /\ DOMAIN memory = {}
  /\ NextBlock
  /\ UNCHANGED <<memory, regions>>

(* parse_raw_binary at the base that must be given, and the inline blocks: *)
(* a value's bytes, the lowest first.  An inline block's range is checked  *)
(* only when the regions are merged.                                       *)
RawBlock ==
  /\ Reading /\ B.kind \in {"binary", "inline"}
  /\ LET r == B.records[1]
         p == Piece(r.addr, r.data)
     IN IF r.addr = -1 \/ (B.kind = "binary" /\ ~ Fits(p))
        THEN Refuse
        ELSE /\ NextBlock
             /\ regions' = Append(regions, p)
             /\ UNCHANGED memory

(* A file that does not exist, a format nobody knows.                      *)
NoSuchFile == Reading /\ B.kind = "missing" /\ Refuse

(* merge_regions                                                           *)
MergeRegion ==
  /\ Merging /\ line <= Len(regions)
  /\ IF Fits(regions[line])
     THEN /\ memory' = Written(memory, regions[line])
          /\ line' = line + 1
          /\ UNCHANGED <<blocks, block, upper, regions, outcome>>
     ELSE Refuse

(* Mutant: the regions are handed on as they were read.                    *)
MergeNothing ==
  /\ Merging /\ line > Len(regions)
  /\ outcome' = "ok"
  /\ UNCHANGED <<blocks, block, line, upper, memory, regions>>

MergeEnds ==
  /\ Merging /\ line > Len(regions)
  /\ outcome' = "listing"
  /\ regions' = <<>>
  /\ UNCHANGED <<blocks, block, line, upper, memory>>

NextRun ==
  /\ FileRead \/ outcome = "listing"
  /\ \E s, e \in DOMAIN memory : TakeRun(s, e)
  /\ UNCHANGED <<blocks, block, line, upper, outcome>>

Finish ==
  /\ outcome = "listing" /\ DOMAIN memory = {}
  /\ outcome' = "ok"
  /\ UNCHANGED <<blocks, block, line, upper, memory, regions>>

Next ==
  \/ HexData \/ HexBase \/ HexEnd \/ SrecData \/ OtherRecord \/ BadRecord
  \/ FileEnds \/ RawBlock \/ NoSuchFile
  \/ MergeRegion \/ MergeEnds \/ NextRun \/ Finish
  \/ outcome \in {"ok", "error"} /\ UNCHANGED vars

Spec == Init /\ [][Next]_vars /\ WF_vars(Next)

-----------------------------------------------------------------------------
TypeOK ==
  /\ blocks \in Loads
  /\ block \in 1 .. Len(blocks) + 1
  /\ line \in Nat \ {0} /\ upper \in Nat
  /\ DOMAIN memory \subseteq 0 .. Top
  /\ outcome \in {"reading", "listing", "ok", "error"}

(* What a load says, told from its records alone: record k of block n      *)
(* counts if no end comes before it, and stands at the last base before it.*)
Counts(load, n, k) == \A j \in 1 .. k - 1 : load[n].records[j].type # "end"
Bases(load, n, k) == {j \in 1 .. k - 1 : load[n].records[j].type \in {"segment", "linear"}}
BaseAt(load, n, k) ==
  IF load[n].kind # "hex" \/ Bases(load, n, k) = {} THEN 0
  ELSE LET last == CHOOSE j \in Bases(load, n, k) : \A i \in Bases(load, n, k) : i <= j
       IN BaseOf(load[n].records[last])
PieceOf(load, n, k) ==
  Piece(BaseAt(load, n, k) + load[n].records[k].addr, load[n].records[k].data)

Says(load, n, k, a) ==
  /\ Counts(load, n, k) /\ load[n].records[k].type = "data"
  /\ Covers(PieceOf(load, n, k), a)

(* Record k of block n is the last to say something of a.                  *)
SaysLast(load, n, k, a) ==
  /\ Says(load, n, k, a)
  /\ \A m \in DOMAIN load : \A j \in DOMAIN load[m].records :
       Says(load, m, j, a) => m < n \/ (m = n /\ j <= k)

(* What an instance gets is the last byte the blocks say of each address,  *)
(* whatever the format, the order and the overlaps, and nothing else.      *)
RegionsAreTheImage ==
  outcome = "ok" =>
    \A a \in 0 .. Top :
      /\ \A r \in DOMAIN regions : Covers(regions[r], a) =>
           \E n \in DOMAIN blocks : \E k \in DOMAIN blocks[n].records :
             /\ SaysLast(blocks, n, k, a)
             /\ ByteIn(regions[r], a) = ByteIn(PieceOf(blocks, n, k), a)
      /\ \A n \in DOMAIN blocks : \A k \in DOMAIN blocks[n].records :
           Says(blocks, n, k, a) => \E r \in DOMAIN regions : Covers(regions[r], a)

(* The regions ascend, none is empty, no two touch, and all lie within the *)
(* address space.                                                          *)
RegionsStandApart ==
  outcome = "ok" =>
    \A r \in DOMAIN regions :
      /\ regions[r].data # <<>> /\ Fits(regions[r])
      /\ \A q \in 1 .. r - 1 : regions[r].base > regions[q].base + Len(regions[q].data)

(* An image is refused exactly when something that counts is wrong with a  *)
(* block: what stands behind a HEX file's end does not.                    *)
Wrong(load, n, k) ==
  LET r == load[n].records[k]
  IN /\ Counts(load, n, k)
     /\ r.type = "bad" \/ (r.type = "data" /\ (r.addr = -1 \/ ~ Fits(PieceOf(load, n, k))))
Refusable(load) ==
  \E n \in DOMAIN load :
    load[n].kind = "missing" \/ \E k \in DOMAIN load[n].records : Wrong(load, n, k)

RefusedForCause == outcome \in {"ok", "error"} => (outcome = "error" <=> Refusable(blocks))

(* Every load is resolved or refused.                                      *)
Ended == outcome \in {"ok", "error"}

=============================================================================
