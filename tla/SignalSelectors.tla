--------------------------- MODULE SignalSelectors ---------------------------
(***************************************************************************)
(* How a request names signals, and what a request over several signals    *)
(* does when one of them fails (runtime/src/signal_selectors.rs and the    *)
(* Get and Set handlers of daemon/server/action_router.rs).  Every handler *)
(* goes through its selectors and, for each, through what it stands for in *)
(* ascending order: the loop is taken step by step.                        *)
(*                                                                         *)
(* A selector is what its text parses to.  A glob stands for the names it  *)
(* matches (the globset crate is external).  A Set arrives as a BTreeMap:  *)
(* its writes are taken in the order of the selectors' text, which is the  *)
(* order of the sequence Selectors.                                        *)
(***************************************************************************)
EXTENDS Integers, FiniteSets, SequencesExt

CONSTANTS
  Signals,       (* the instance's signals, by id: [name, type, readOnly,   *)
                 (* failing: the library may refuse to read it]             *)
  Selectors,     (* the selectors of an instance, in the order of their text*)
  Raws,          (* the value texts: [text, types it parses as]             *)
  Catalog,       (* the env's signals, sorted: a sequence of [inst, name]   *)
  EnvSelectors,  (* the selectors of an env                                 *)
  MaxSelectors   (* bound: selectors in one request                         *)

(* Ids are unsigned; a selector has one of the forms there are.            *)
SelectorAssumption ==
  /\ DOMAIN Signals \subseteq Nat
  /\ Selectors \in Seq(ToSet(Selectors)) /\ Catalog \in Seq(ToSet(Catalog))
  /\ \A s \in ToSet(Selectors) : s.kind \in {"all", "id", "name", "glob", "can"}
  /\ \A s \in EnvSelectors : s.kind \in {"all", "bad", "pair"}
  /\ MaxSelectors \in Nat

VARIABLES
  values,    (* the project's value of each signal                          *)
  request,   (* the request being answered                                  *)
  todo,      (* the places of its selectors that are still to be taken      *)
  at,        (* the place of the one that was taken last                    *)
  ids,       (* what that one stands for and is still to be read or written *)
  items,     (* what has been read, written or found so far                 *)
  outcome    (* "idle", "working", "ok", "error"                            *)

vars == <<values, request, todo, at, ids, items, outcome>>

-----------------------------------------------------------------------------
(* One selector of an instance.                                            *)

Named(names) == {i \in DOMAIN Signals : Signals[i].name \in names}

(* select_instance_signal_ids of one selector.                             *)
IdsOf(s) ==
  CASE s.kind = "all"  -> DOMAIN Signals
    [] s.kind = "id"   -> {s.id} \cap DOMAIN Signals
    [] s.kind = "name" -> Named({s.name})
    [] s.kind = "glob" -> Named(s.names)
    [] s.kind = "can"  -> {}

(* One of an env: resolve_selector_indices.  "*", or an instance part and  *)
(* a signal part, each a name or a glob; "a", ":s", "a:" and "a:#1" are    *)
(* errors.                                                                 *)
Matches(s, e) == e.inst \in s.insts /\ e.name \in s.names

IndicesOf(s) ==
  CASE s.kind = "all"  -> DOMAIN Catalog
    [] s.kind = "bad"  -> {}
    [] s.kind = "pair" -> {n \in DOMAIN Catalog : Matches(s, Catalog[n])}

(* To stand for nothing is an error, except for "*".                       *)
Stands(s, found) == s.kind = "all" \/ found # {}

-----------------------------------------------------------------------------
Idle(vs) ==
  /\ values = vs /\ request = [kind |-> "none"]
  /\ todo = {} /\ at = 0 /\ ids = {} /\ items = <<>>
  /\ outcome = "idle"

Init == Idle([i \in DOMAIN Signals |-> "0"])

Begin(r, places) ==
  /\ outcome = "idle"
  /\ request' = r
  /\ todo' = places
  /\ UNCHANGED <<values, at, ids, items>>

Get(sels) ==
  Begin([kind |-> "get", sels |-> sels], DOMAIN sels) /\ outcome' = "working"

Set(w) ==
  Begin([kind |-> "set", writes |-> w, before |-> values], DOMAIN w) /\ outcome' = "working"

(* resolve_selectors, of EnvAction::Get, Signals and TraceStart.           *)
EnvGet(sels) ==
  /\ Begin([kind |-> "env", sels |-> sels], DOMAIN sels)
  /\ outcome' = IF sels = <<>> THEN "error" ELSE "working"

-----------------------------------------------------------------------------
(* The `?` of the loops: what was gathered is dropped, what was written is *)
(* written.                                                                *)
Fails ==
  /\ outcome' = "error" /\ items' = <<>>
  /\ UNCHANGED <<values, request, todo, at, ids>>

SelectorAt(k) == IF request.kind = "set" THEN Selectors[k] ELSE request.sels[k]
Found(k) == IF request.kind = "env" THEN IndicesOf(SelectorAt(k)) ELSE IdsOf(SelectorAt(k))

(* The next selector, once what the one before stands for is done.         *)
Resolve(k) ==
  /\ outcome = "working" /\ ids = {}
  /\ k \in todo /\ \A l \in todo : k <= l
  /\ IF Stands(SelectorAt(k), Found(k))
     THEN /\ at' = k /\ todo' = todo \ {k} /\ ids' = Found(k)
          /\ UNCHANGED <<values, request, items, outcome>>
     ELSE Fails

Take(kind, id) ==
  /\ outcome = "working" /\ request.kind = kind
  /\ id \in ids /\ \A i \in ids : id <= i
  /\ ids' = ids \ {id}
  /\ UNCHANGED <<request, todo, at, outcome>>

(* read_selected_signal_values: a signal that is named twice is read twice.*)
ReadSignal(id) ==
  /\ Take("get", id)
  /\ items' = Append(items, <<id, values[id]>>)
  /\ UNCHANGED values

(* The library's own refusal of a read ends the whole Get.                 *)
ReadRefused(id) ==
  /\ outcome = "working" /\ request.kind = "get"
  /\ id \in ids /\ \A i \in ids : id <= i
  /\ Signals[id].failing
  /\ Fails

(* parse_value of the signal's type, and the library's own refusal.        *)
Accepts(id, raw) == Signals[id].type \in raw.types /\ ~ Signals[id].readOnly

Write(id) ==
  /\ Take("set", id)
  /\ values' = [values EXCEPT ![id] = request.writes[at].text]
  /\ items' = Append(items, id)

(* Mutant: a signal that is refused is skipped, those after it are written.*)
WritePast(id) ==
  /\ outcome = "working" /\ request.kind = "set"
  /\ id \in ids /\ \A i \in ids : id <= i
  /\ IF Accepts(id, request.writes[at]) THEN Write(id)
     ELSE Take("set", id) /\ UNCHANGED <<values, items>>

WriteSignal(id) ==
  /\ outcome = "working" /\ request.kind = "set"
  /\ id \in ids /\ \A i \in ids : id <= i
  /\ IF Accepts(id, request.writes[at]) THEN Write(id) ELSE Fails

(* resolve_selectors: an index not seen before.                            *)
AddColumn(n) ==
  /\ Take("env", n)
  /\ items' = IF n \in ToSet(items) THEN items ELSE Append(items, n)
  /\ UNCHANGED values

Finish ==
  /\ outcome = "working" /\ todo = {} /\ ids = {}
  /\ outcome' = "ok"
  /\ UNCHANGED <<values, request, todo, at, ids, items>>

Answered ==
  /\ outcome \in {"ok", "error"}
  /\ request' = [kind |-> "none"]
  /\ todo' = {} /\ at' = 0 /\ ids' = {} /\ items' = <<>>
  /\ outcome' = "idle"
  /\ UNCHANGED values

Lists(S) == UNION {[1 .. n -> S] : n \in 0 .. MaxSelectors}
Writes == UNION {[K -> Raws] : K \in {K \in SUBSET DOMAIN Selectors : Cardinality(K) <= MaxSelectors}}

Next ==
  \/ \E sels \in Lists(ToSet(Selectors)) : Get(sels)
  \/ \E w \in Writes : Set(w)
  \/ \E sels \in Lists(EnvSelectors) : EnvGet(sels)
  \/ \E k \in todo : Resolve(k)
  \/ \E id \in ids : ReadSignal(id) \/ ReadRefused(id) \/ WriteSignal(id) \/ AddColumn(id)
  \/ Finish
  \/ Answered

Spec == Init /\ [][Next]_vars

-----------------------------------------------------------------------------
TypeOK ==
  /\ values \in [DOMAIN Signals -> {r.text : r \in Raws} \cup {"0"}]
  /\ request.kind \in {"none", "get", "set", "env"}
  /\ outcome \in {"idle", "working", "ok", "error"}
  /\ outcome = "error" => items = <<>>
  /\ request.kind = "env" => ToSet(items) \subseteq DOMAIN Catalog

Done == outcome \in {"ok", "error"}

(* What a Set leaves if it is carried out, in the order of the selectors   *)
(* and then of the ids, as far as id c of selector k: the last write wins. *)
WrittenUpTo(k, c) ==
  \A i \in DOMAIN Signals :
    LET by == {l \in DOMAIN request.writes :
                 i \in IdsOf(Selectors[l]) /\ (l < k \/ (l = k /\ i <= c))}
    IN \/ by = {} /\ values[i] = request.before[i]
       \/ \E l \in by : (\A m \in by : m <= l) /\ values[i] = request.writes[l].text

(* A Set that is refused half way leaves the writes before the one that    *)
(* failed, and none after it: it is not all or nothing.                    *)
RefusedSetIsAPrefix ==
  request.kind = "set" =>
    \E k \in 0 .. Len(Selectors) : \E c \in DOMAIN Signals \cup {-1} : WrittenUpTo(k, c)

(* A Set that succeeds has written every selector's signals, and where two *)
(* selectors name one signal, the later in the order of their text.        *)
SetLeavesTheLast ==
  request.kind = "set" /\ outcome = "ok" => WrittenUpTo(Len(Selectors) + 1, -1)

(* A Get that is answered has read every signal each of its selectors      *)
(* stands for and no other, once for each, and each of its selectors       *)
(* stands for something.  One that fails delivers nothing, not even what   *)
(* was read before: one of its selectors stands for none, or the library   *)
(* refused to read a signal that one of them stands for.                   *)
StandsForNone(k) == ~ Stands(request.sels[k], IdsOf(request.sels[k]))

GetIsComplete ==
  request.kind = "get" =>
    /\ outcome = "ok" =>
         /\ \A k \in DOMAIN request.sels : ~ StandsForNone(k)
         /\ \A i \in DOMAIN Signals :
              Cardinality({n \in DOMAIN items : items[n] = <<i, values[i]>>})
                = Cardinality({k \in DOMAIN request.sels : i \in IdsOf(request.sels[k])})
    /\ outcome = "error" =>
         /\ items = <<>>
         /\ \E k \in DOMAIN request.sels :
              StandsForNone(k) \/ \E i \in IdsOf(request.sels[k]) : Signals[i].failing

(* The columns of an env's Get or trace: every selected signal once, where *)
(* the first selector that names it puts it.                               *)
FirstNaming(n) ==
  CHOOSE k \in DOMAIN request.sels :
    /\ n \in IndicesOf(request.sels[k])
    /\ \A l \in DOMAIN request.sels : n \in IndicesOf(request.sels[l]) => k <= l

EnvColumnsOnce ==
  request.kind = "env" /\ Done =>
    IF \/ request.sels = <<>>
       \/ \E k \in DOMAIN request.sels : ~ Stands(request.sels[k], IndicesOf(request.sels[k]))
    THEN outcome = "error"
    ELSE /\ outcome = "ok"
         /\ ToSet(items) = {n \in DOMAIN Catalog :
              \E k \in DOMAIN request.sels : n \in IndicesOf(request.sels[k])}
         /\ \A a, b \in DOMAIN items : a < b =>
              \/ FirstNaming(items[a]) < FirstNaming(items[b])
              \/ FirstNaming(items[a]) = FirstNaming(items[b]) /\ items[a] < items[b]

=============================================================================
