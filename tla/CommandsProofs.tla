--------------------------- MODULE CommandsProofs ---------------------------
(***************************************************************************)
(* What MCCommands checks of a loaded library, a recipe, an env definition,*)
(* the frames on a bus and a request over several signals for a few of     *)
(* them follows for all, whatever the sizes of the buffers and however     *)
(* many commands come in between.                                          *)
(*                                                                         *)
(* The variables of a part go by the names MCCommands gives them: in       *)
(* Loading, v1 is the phase, v2 the library, v3 the capacity, v4 what was  *)
(* read, v5 the flash, v6 the regions written, v7 the flash sim_init saw,  *)
(* v8 the frames unsent, v9 those handed over, and v10 those made.  In     *)
(* Cooking, v1 is the recipe, v2 whether it is a dry run, v3 the phase, v4 *)
(* the compiler's calls, v5 the operations, v6 the next of them, v7 the    *)
(* env each instance was in, v8 the instances, v9 the clocks of the envs,  *)
(* and v10 what other commands have done.  In Definition, v1 is what runs, *)
(* v2 what serves, v3 the phase, v4 the definition, v5 who is on a bus, v6 *)
(* who is on a region, v7 the region files, v8 the places still to attach. *)
(* In Can, v1 is the driver, v2 the sockets, v3 the env's latest frames,   *)
(* v4 those it heard, v5 what the libraries were handed, v6 what they have *)
(* still to send, and v7 how many frames were asked for.  In Selecting, v1 *)
(* is the values, v2 the request, v3 the places still to take, v4 the one  *)
(* at hand, v5 what is left of it, v6 what was gathered, v7 the outcome.   *)
(***************************************************************************)
EXTENDS MCCommands, SequenceTheorems, FiniteSetTheorems, WellFoundedInduction, TLAPS

(* A behaviour is of the part it began with.                               *)
LEMMA PartsMove ==
  ASSUME [Next]_vars
  PROVE  /\ part' = part
         /\ part = "definition" => [Definition!Next]_(Definition!vars)
         /\ part = "library" => [Loading!Next]_(Loading!vars)
         /\ part = "recipe" => [Cooking!Next]_(Cooking!vars)
         /\ part = "can" => [Can!Next]_(Can!vars)
         /\ part = "selectors" => [Selecting!Next]_(Selecting!vars)
BY DEF Next, vars, Rest7, Rest9, Loading!vars, Loading!loading, Loading!frames,
       Cooking!vars, Definition!vars, Can!vars, Selecting!vars

-----------------------------------------------------------------------------
(* The loaded library.                                                     *)

LEMMA LoadLimits ==
  /\ MaxCapacity \in Nat /\ BusCapacity \in Nat /\ TxCapacity \in Nat /\ MaxFrames \in Nat
  /\ MaxCapacity > 1 /\ TxCapacity > 0 /\ TxCapacity <= MaxCapacity /\ BusCapacity <= MaxCapacity
  /\ \A l \in Loadable : l.count \in Nat /\ l.tickUs \in Nat
BY CommandsAssumption DEF Loading!LibraryAssumption

LEMMA LoadLists ==
  \A l \in Loadable :
    /\ Len(l.signals) \in Nat /\ Len(l.regions) \in Nat
    /\ Len(l.buses) \in Nat /\ Len(l.channels) \in Nat
<1> SUFFICES ASSUME NEW l \in Loadable
             PROVE  /\ Len(l.signals) \in Nat /\ Len(l.regions) \in Nat
                    /\ Len(l.buses) \in Nat /\ Len(l.channels) \in Nat
  OBVIOUS
<1>1. /\ l.signals \in Seq(Range(l.signals)) /\ l.regions \in Seq(Range(l.regions))
      /\ l.buses \in Seq(Range(l.buses)) /\ l.channels \in Seq(Range(l.channels))
  BY CommandsAssumption DEF Loading!LibraryAssumption, Loading!Range, Range
<1> QED BY <1>1, LenProperties

(* A buffer grows, up to the largest, and twofold at most.                 *)
LEMMA NextCapacityGrows ==
  ASSUME NEW c \in Nat, c < MaxCapacity
  PROVE  /\ Loading!NextCapacity(c) \in Nat
         /\ c <= Loading!NextCapacity(c) /\ Loading!NextCapacity(c) <= MaxCapacity
         /\ Loading!NextCapacity(c) <= 2 * c \/ c = 0
BY LoadLimits DEF Loading!NextCapacity, Loading!Least, Loading!Greatest

(* The validators' loop over the earlier entries finds what occurs twice.  *)
LEMMA DistinctIsOneToOne ==
  ASSUME NEW list, Len(list) \in Nat
  PROVE  Loading!Distinct(list) <=>
           Loading!OneToOne(list) /\ \A k \in 1 .. Len(list) : list[k].name # "blank"
<1> DEFINE L == 1 .. Len(list)
<1>1. ASSUME Loading!Distinct(list), NEW j \in L, NEW k \in L,
             list[j].id = list[k].id \/ list[j].name = list[k].name
      PROVE  j = k
  <2>1. CASE j < k  BY <1>1, <2>1 DEF Loading!Distinct
  <2>2. CASE k < j  BY <1>1, <2>2 DEF Loading!Distinct
  <2> QED BY <2>1, <2>2
<1>2. Loading!Distinct(list) => Loading!OneToOne(list)
  BY <1>1 DEF Loading!OneToOne
<1>3. ASSUME Loading!OneToOne(list), \A k \in L : list[k].name # "blank"
      PROVE  Loading!Distinct(list)
  BY <1>3 DEF Loading!OneToOne, Loading!Distinct
<1> QED BY <1>2, <1>3 DEF Loading!Distinct

LoadInv == v2 \in Loadable /\ Loading!TypeOK /\ Loading!LoadPassed

LEMMA LoadInit == Loading!Init => LoadInv
<1> SUFFICES ASSUME Loading!Init PROVE LoadInv
  OBVIOUS
<1>1. Len(v2.regions) \in Nat /\ v2.count \in Nat
  BY LoadLimits, LoadLists DEF Loading!Init
<1>2. Loading!TypeOK
  BY <1>1, LoadLimits DEF Loading!Init, Loading!TypeOK, Loading!Greatest, Loading!Nothing
<1>3. Loading!LoadPassed
  BY <1>1 DEF Loading!Init, Loading!LoadPassed, Loading!HeaderPassed, Loading!SignalsPassed,
     Loading!FlashPassed, Loading!ListsPassed, Loading!Collecting, Loading!Nothing,
     Loading!LoadedPhases, Loading!PastChannels, Loading!PastBuses, Loading!PastInit,
     Loading!PastFlash, Loading!PastSignals, Loading!PastDuration, Loading!PastVersion,
     Loading!PastSymbols
<1> QED BY <1>2, <1>3 DEF LoadInv, Loading!Init

(* A load that fails keeps what it has, and says no more than that the     *)
(* library is not good.                                                    *)
LEMMA FailKeeps ==
  ASSUME LoadInv, Loading!Fail, UNCHANGED <<v2, v8, v9, v10>>, ~ Loading!Good
  PROVE  LoadInv'
<1> USE DEF LoadInv, Loading!Fail, Loading!loading
<1>1. Loading!TypeOK'
  BY DEF Loading!TypeOK
<1>2. ~ Loading!Good'
  BY DEF Loading!Good, Loading!Complete, Loading!OneToOne
<1>3. Loading!FlashPassed'
  BY DEF Loading!LoadPassed, Loading!FlashPassed, Loading!LoadedPhases, Loading!PastChannels,
     Loading!PastBuses, Loading!PastInit, Loading!PastFlash, Loading!PastSignals
<1>4. Loading!HeaderPassed' /\ Loading!SignalsPassed' /\ Loading!ListsPassed' /\ Loading!Collecting'
  BY DEF Loading!HeaderPassed, Loading!SignalsPassed, Loading!ListsPassed, Loading!Collecting,
     Loading!LoadedPhases, Loading!PastChannels, Loading!PastBuses, Loading!PastInit,
     Loading!PastFlash, Loading!PastSignals, Loading!PastDuration, Loading!PastVersion,
     Loading!PastSymbols
<1> QED BY <1>1, <1>2, <1>3, <1>4 DEF Loading!LoadPassed, Loading!LoadedPhases

(* So does one that goes on to a step that vouches for no more.            *)
LEMMA LookUpKeeps ==
  ASSUME LoadInv, Loading!LookUp, UNCHANGED <<v2, v8, v9, v10>>
  PROVE  LoadInv'
<1>1. CASE Loading!Required \subseteq v2.exports
  <2> USE <1>1 DEF LoadInv, Loading!LookUp, Loading!Go, Loading!loading
  <2>1. Loading!TypeOK'
    BY DEF Loading!TypeOK
  <2>2. Loading!LoadPassed'
    BY DEF Loading!LoadPassed, Loading!HeaderPassed, Loading!SignalsPassed,
     Loading!FlashPassed, Loading!ListsPassed, Loading!Collecting,
     Loading!LoadedPhases, Loading!PastChannels, Loading!PastBuses, Loading!PastInit,
     Loading!PastFlash, Loading!PastSignals, Loading!PastDuration, Loading!PastVersion,
     Loading!PastSymbols
  <2> QED BY <2>1, <2>2
<1>2. CASE ~ (Loading!Required \subseteq v2.exports)
  BY <1>2, FailKeeps DEF Loading!LookUp, Loading!Good
<1> QED BY <1>1, <1>2

LEMMA HeaderKeeps ==
  ASSUME LoadInv, Loading!CheckVersion \/ Loading!CheckTickDuration, UNCHANGED <<v2, v8, v9, v10>>
  PROVE  LoadInv'
<1> USE DEF LoadInv
<1>1. CASE Loading!CheckVersion /\ v2.version = <<2, 0>> /\ "version" \notin v2.wrong
  <2>1. Loading!TypeOK'
    BY <1>1 DEF Loading!TypeOK, Loading!CheckVersion, Loading!Go, Loading!loading
  <2>2. Loading!LoadPassed'
    BY <1>1 DEF Loading!CheckVersion, Loading!Go, Loading!loading, Loading!LoadPassed, Loading!HeaderPassed, Loading!SignalsPassed,
     Loading!FlashPassed, Loading!ListsPassed, Loading!Collecting,
     Loading!LoadedPhases, Loading!PastChannels, Loading!PastBuses, Loading!PastInit,
     Loading!PastFlash, Loading!PastSignals, Loading!PastDuration, Loading!PastVersion,
     Loading!PastSymbols
  <2> QED BY <2>1, <2>2
<1>2. CASE Loading!CheckTickDuration /\ ~ (v2.tickUs = 0 \/ {"tickUs", "count"} \cap v2.wrong # {})
  <2>1. v2.count \in Nat /\ v2.tickUs > 0
    BY <1>2, LoadLimits
  <2>2. Loading!TypeOK'
    <3>1. v1' = "signals" /\ v3' = Loading!Greatest(v2.count, 1)
          /\ UNCHANGED <<v2, v4, v5, v6, v7, v8, v9, v10>>
      BY <1>2 DEF Loading!CheckTickDuration, Loading!loading
    <3>2. v3' \in 0 .. Loading!Greatest(MaxCapacity, v2.count)
      BY <2>1, <3>1, LoadLimits DEF Loading!Greatest
    <3>3. Loading!TypeOK
      OBVIOUS
    <3> QED BY <3>1, <3>2, <3>3 DEF Loading!TypeOK
  <2>3. Loading!LoadPassed'
    BY <1>2, <2>1 DEF Loading!CheckTickDuration, Loading!loading, Loading!Greatest, Loading!LoadPassed, Loading!HeaderPassed, Loading!SignalsPassed,
     Loading!FlashPassed, Loading!ListsPassed, Loading!Collecting,
     Loading!LoadedPhases, Loading!PastChannels, Loading!PastBuses, Loading!PastInit,
     Loading!PastFlash, Loading!PastSignals, Loading!PastDuration, Loading!PastVersion,
     Loading!PastSymbols
  <2> QED BY <2>2, <2>3
<1>3. CASE Loading!CheckVersion /\ ~ (v2.version = <<2, 0>> /\ "version" \notin v2.wrong)
  BY <1>3, FailKeeps DEF Loading!CheckVersion, Loading!Good
<1>4. CASE Loading!CheckTickDuration /\ (v2.tickUs = 0 \/ {"tickUs", "count"} \cap v2.wrong # {})
  BY <1>4, FailKeeps DEF Loading!CheckTickDuration, Loading!Good
<1> QED BY <1>1, <1>2, <1>3, <1>4

(* A buffer too small is doubled until the list fits or it is the largest. *)
LEMMA SignalsKeep ==
  ASSUME LoadInv, Loading!FetchSignals, UNCHANGED <<v2, v8, v9, v10>>
  PROVE  LoadInv'
<1> USE DEF LoadInv
<1> DEFINE accepted == Loading!Named(v2.signals)
                         /\ \A k \in 1 .. Len(v2.signals) : v2.signals[k].type \in 0 .. 4
<1>1. v1 = "signals" /\ Len(v2.signals) \in Nat /\ v2.count \in Nat /\ v3 \in Nat
      /\ v3 >= v2.count /\ v3 <= Loading!Greatest(MaxCapacity, v2.count)
      /\ Loading!Required \subseteq v2.exports
  BY LoadLimits, LoadLists
  DEF Loading!FetchSignals, Loading!TypeOK, Loading!Greatest, Loading!LoadPassed, Loading!HeaderPassed, Loading!SignalsPassed,
     Loading!FlashPassed, Loading!ListsPassed, Loading!Collecting,
     Loading!LoadedPhases, Loading!PastChannels, Loading!PastBuses, Loading!PastInit,
     Loading!PastFlash, Loading!PastSignals, Loading!PastDuration, Loading!PastVersion,
     Loading!PastSymbols
<1>2. Loading!Fetch(v2.signals, "signals", accepted, "flash", 0)
  BY DEF Loading!FetchSignals
<1>3. CASE Loading!Fail /\ "signals" \in v2.wrong
  <2>1. ~ Loading!Good
    BY <1>3 DEF Loading!Good
  <2> QED BY <1>3, <2>1, FailKeeps
<1>4. CASE ~ (Loading!Fail /\ "signals" \in v2.wrong) /\ Len(v2.signals) <= v3 /\ accepted
  <2>1. v1' = "flash" /\ v3' = 0 /\ v4' = [v4 EXCEPT !.signals = v2.signals] /\ UNCHANGED <<v5, v6, v7>>
    BY <1>1, <1>2, <1>4 DEF Loading!Fetch
  <2>0. "signals" \notin v2.wrong
    BY <1>1, <1>2, <1>4 DEF Loading!Fetch
  <2>2. Loading!TypeOK'
    <3>1. v4' \in [signals : {<<>>, v2.signals}, buses : {<<>>, v2.buses},
                   channels : {<<>>, v2.channels}]
      BY <2>1 DEF Loading!TypeOK
    <3>2. 0 \in 0 .. Loading!Greatest(MaxCapacity, v2.count)
      BY <1>1, LoadLimits DEF Loading!Greatest
    <3> QED BY <2>1, <3>1, <3>2 DEF Loading!TypeOK
  <2>3. Len(v2.signals) <= Loading!Greatest(MaxCapacity, v2.count)
    BY <1>1, <1>4, LoadLimits DEF Loading!Greatest
  <2>4. v4'.signals = v2.signals /\ v4'.buses = v4.buses /\ v4'.channels = v4.channels
    BY <2>1 DEF Loading!TypeOK
  <2>5. Loading!HeaderPassed' /\ Loading!SignalsPassed' /\ Loading!ListsPassed' /\ Loading!Collecting'
    BY <1>1, <1>4, <2>0, <2>1, <2>3, <2>4 DEF Loading!LoadPassed, Loading!HeaderPassed, Loading!SignalsPassed,
     Loading!FlashPassed, Loading!ListsPassed, Loading!Collecting,
     Loading!LoadedPhases, Loading!PastChannels, Loading!PastBuses, Loading!PastInit,
     Loading!PastFlash, Loading!PastSignals, Loading!PastDuration, Loading!PastVersion,
     Loading!PastSymbols
  <2>6. v5 = Loading!Erased /\ v6 = 0
    BY <1>1 DEF Loading!LoadPassed, Loading!HeaderPassed, Loading!SignalsPassed,
     Loading!FlashPassed, Loading!ListsPassed, Loading!Collecting,
     Loading!LoadedPhases, Loading!PastChannels, Loading!PastBuses, Loading!PastInit,
     Loading!PastFlash, Loading!PastSignals, Loading!PastDuration, Loading!PastVersion,
     Loading!PastSymbols
  <2>7. Loading!WrittenInto(v5, v6)'
    BY <2>1, <2>6 DEF Loading!WrittenInto, Loading!Erased
  <2>8. Loading!FlashPassed'
    BY <2>1, <2>6, <2>7 DEF Loading!LoadPassed, Loading!HeaderPassed, Loading!SignalsPassed,
     Loading!FlashPassed, Loading!ListsPassed, Loading!Collecting,
     Loading!LoadedPhases, Loading!PastChannels, Loading!PastBuses, Loading!PastInit,
     Loading!PastFlash, Loading!PastSignals, Loading!PastDuration, Loading!PastVersion,
     Loading!PastSymbols
  <2> QED BY <2>1, <2>2, <2>5, <2>8 DEF Loading!LoadPassed, Loading!HeaderPassed, Loading!SignalsPassed,
     Loading!FlashPassed, Loading!ListsPassed, Loading!Collecting,
     Loading!LoadedPhases, Loading!PastChannels, Loading!PastBuses, Loading!PastInit,
     Loading!PastFlash, Loading!PastSignals, Loading!PastDuration, Loading!PastVersion,
     Loading!PastSymbols
<1>5. CASE ~ (Loading!Fail /\ "signals" \in v2.wrong) /\ Len(v2.signals) <= v3 /\ ~ accepted
  <2>1. Loading!Fail
    BY <1>1, <1>2, <1>5 DEF Loading!Fetch
  <2>2. ~ Loading!Good
    BY <1>1, <1>5 DEF Loading!Good, Loading!Complete, Loading!Named, Loading!Required
  <2> QED BY <2>1, <2>2, FailKeeps
<1>6. CASE ~ (Loading!Fail /\ "signals" \in v2.wrong) /\ Len(v2.signals) > v3 /\ v3 < MaxCapacity
  <2>1. v3' = Loading!NextCapacity(v3) /\ UNCHANGED <<v1, v4, v5, v6, v7>>
    BY <1>1, <1>2, <1>6, LoadLimits DEF Loading!Fetch, Loading!loading
  <2>2. v3' \in Nat /\ v3 <= v3' /\ v3' <= MaxCapacity
    BY <1>1, <1>6, <2>1, NextCapacityGrows
  <2>3. Loading!TypeOK'
    BY <1>1, <2>1, <2>2, LoadLimits DEF Loading!TypeOK, Loading!Greatest
  <2>4. Loading!LoadPassed'
    BY <1>1, <2>1, <2>2, LoadLimits DEF Loading!LoadPassed, Loading!HeaderPassed, Loading!SignalsPassed,
     Loading!FlashPassed, Loading!ListsPassed, Loading!Collecting,
     Loading!LoadedPhases, Loading!PastChannels, Loading!PastBuses, Loading!PastInit,
     Loading!PastFlash, Loading!PastSignals, Loading!PastDuration, Loading!PastVersion,
     Loading!PastSymbols
  <2> QED BY <2>3, <2>4
<1>7. CASE ~ (Loading!Fail /\ "signals" \in v2.wrong) /\ Len(v2.signals) > v3 /\ v3 >= MaxCapacity
  <2>1. Loading!Fail
    BY <1>1, <1>2, <1>7, LoadLimits DEF Loading!Fetch
  <2>2. Len(v2.signals) > Loading!Greatest(MaxCapacity, v2.count)
    BY <1>1, <1>7, LoadLimits DEF Loading!Greatest
  <2>3. ~ Loading!Good
    BY <1>1, <2>2, LoadLimits DEF Loading!Good, Loading!Complete, Loading!Required, Loading!Greatest
  <2> QED BY <2>1, <2>3, FailKeeps
<1> QED BY <1>1, <1>3, <1>4, <1>5, <1>6, <1>7, LoadLimits

(* A region on top of those before it.                                     *)
LEMMA OverwriteIsOnTop ==
  ASSUME NEW memory, NEW n \in Nat, Loading!WrittenInto(memory, n)
  PROVE  Loading!WrittenInto(Loading!Overwrite(memory, v2.regions[n + 1]), n + 1)
<1> DEFINE new == v2.regions[n + 1]
           result == Loading!Overwrite(memory, new)
<1>1. DOMAIN result = DOMAIN memory \cup DOMAIN new
  BY DEF Loading!Overwrite
<1>2. DOMAIN result = UNION {DOMAIN v2.regions[k] : k \in 1 .. n + 1}
  <2>1. \A k : k \in 1 .. n + 1 <=> k \in 1 .. n \/ k = n + 1
    OBVIOUS
  <2> QED BY <1>1, <2>1 DEF Loading!WrittenInto
<1>3. ASSUME NEW k \in 1 .. n + 1, NEW a \in DOMAIN v2.regions[k],
             \A j \in k + 1 .. n + 1 : a \notin DOMAIN v2.regions[j]
      PROVE  result[a] = v2.regions[k][a]
  <2>1. CASE k = n + 1
    BY <1>1, <2>1 DEF Loading!Overwrite
  <2>2. CASE k # n + 1
    <3>1. k \in 1 .. n /\ n + 1 \in k + 1 .. n + 1 /\ \A j \in k + 1 .. n : j \in k + 1 .. n + 1
      BY <2>2
    <3>2. a \notin DOMAIN new /\ memory[a] = v2.regions[k][a] /\ a \in DOMAIN memory
      BY <1>3, <3>1 DEF Loading!WrittenInto
    <3> QED BY <1>1, <3>2 DEF Loading!Overwrite
  <2> QED BY <2>1, <2>2
<1> QED BY <1>2, <1>3 DEF Loading!WrittenInto

LEMMA FlashKeeps ==
  ASSUME LoadInv, Loading!WriteFlash \/ Loading!FlashIsWritten, UNCHANGED <<v2, v8, v9, v10>>
  PROVE  LoadInv'
<1> USE DEF LoadInv
<1>1. v1 = "flash" /\ v6 \in Nat /\ v6 <= Len(v2.regions) /\ Len(v2.regions) \in Nat
      /\ Loading!WrittenInto(v5, v6)
  BY LoadLists DEF Loading!WriteFlash, Loading!FlashIsWritten, Loading!TypeOK, Loading!LoadPassed, Loading!HeaderPassed, Loading!SignalsPassed,
     Loading!FlashPassed, Loading!ListsPassed, Loading!Collecting,
     Loading!LoadedPhases, Loading!PastChannels, Loading!PastBuses, Loading!PastInit,
     Loading!PastFlash, Loading!PastSignals, Loading!PastDuration, Loading!PastVersion,
     Loading!PastSymbols
<1>2. CASE Loading!WriteFlash /\ "flash_write" \in v2.exports /\ v6 + 1 \notin v2.refused
  <2>1. v5' = Loading!Overwrite(v5, v2.regions[v6 + 1]) /\ v6' = v6 + 1 /\ UNCHANGED <<v1, v3, v4, v7>>
    BY <1>2 DEF Loading!WriteFlash
  <2>2. Loading!WrittenInto(v5, v6)'
    <3>1. Loading!WrittenInto(Loading!Overwrite(v5, v2.regions[v6 + 1]), v6 + 1)
      BY <1>1, OverwriteIsOnTop
    <3> QED BY <2>1, <3>1 DEF Loading!WrittenInto
  <2>3. Loading!TypeOK'
    <3>1. v6' \in 0 .. Len(v2.regions)'
      BY <1>1, <1>2, <2>1 DEF Loading!WriteFlash
    <3> QED BY <2>1, <3>1 DEF Loading!TypeOK
  <2>4. Loading!FlashPassed'
    <3>1. \A k \in 1 .. v6' : k \in 1 .. v6 \/ k = v6 + 1
      BY <1>1, <2>1
    <3> QED BY <1>1, <1>2, <2>1, <2>2, <3>1 DEF Loading!LoadPassed, Loading!HeaderPassed, Loading!SignalsPassed,
     Loading!FlashPassed, Loading!ListsPassed, Loading!Collecting,
     Loading!LoadedPhases, Loading!PastChannels, Loading!PastBuses, Loading!PastInit,
     Loading!PastFlash, Loading!PastSignals, Loading!PastDuration, Loading!PastVersion,
     Loading!PastSymbols
  <2>5. Loading!HeaderPassed' /\ Loading!SignalsPassed' /\ Loading!ListsPassed' /\ Loading!Collecting'
    BY <1>1, <2>1 DEF Loading!LoadPassed, Loading!HeaderPassed, Loading!SignalsPassed,
     Loading!FlashPassed, Loading!ListsPassed, Loading!Collecting,
     Loading!LoadedPhases, Loading!PastChannels, Loading!PastBuses, Loading!PastInit,
     Loading!PastFlash, Loading!PastSignals, Loading!PastDuration, Loading!PastVersion,
     Loading!PastSymbols
  <2> QED BY <1>1, <2>1, <2>3, <2>4, <2>5 DEF Loading!LoadPassed, Loading!HeaderPassed, Loading!SignalsPassed,
     Loading!FlashPassed, Loading!ListsPassed, Loading!Collecting,
     Loading!LoadedPhases, Loading!PastChannels, Loading!PastBuses, Loading!PastInit,
     Loading!PastFlash, Loading!PastSignals, Loading!PastDuration, Loading!PastVersion,
     Loading!PastSymbols
<1>3. CASE Loading!WriteFlash /\ ~ ("flash_write" \in v2.exports /\ v6 + 1 \notin v2.refused)
  <2>1. Loading!Fail /\ v6 + 1 \in 1 .. Len(v2.regions)
    BY <1>1, <1>3 DEF Loading!WriteFlash
  <2>2. v2.regions # <<>>
    BY <2>1
  <2>3. ~ Loading!Good
    BY <1>3, <2>1, <2>2 DEF Loading!Good
  <2> QED BY <2>1, <2>3, FailKeeps
<1>4. CASE Loading!FlashIsWritten
  <2>1. v1' = "init" /\ v6 = Len(v2.regions) /\ UNCHANGED <<v3, v4, v5, v6, v7>>
    BY <1>4 DEF Loading!FlashIsWritten, Loading!Go, Loading!loading
  <2>2. Loading!TypeOK'
    BY <2>1 DEF Loading!TypeOK
  <2>3. Loading!WrittenInto(v5, v6)'
    BY <1>1, <2>1 DEF Loading!WrittenInto
  <2>4. Loading!FlashPassed'
    BY <1>1, <2>1, <2>3 DEF Loading!LoadPassed, Loading!HeaderPassed, Loading!SignalsPassed,
     Loading!FlashPassed, Loading!ListsPassed, Loading!Collecting,
     Loading!LoadedPhases, Loading!PastChannels, Loading!PastBuses, Loading!PastInit,
     Loading!PastFlash, Loading!PastSignals, Loading!PastDuration, Loading!PastVersion,
     Loading!PastSymbols
  <2>5. Loading!HeaderPassed' /\ Loading!SignalsPassed' /\ Loading!ListsPassed' /\ Loading!Collecting'
    BY <1>1, <2>1 DEF Loading!LoadPassed, Loading!HeaderPassed, Loading!SignalsPassed,
     Loading!FlashPassed, Loading!ListsPassed, Loading!Collecting,
     Loading!LoadedPhases, Loading!PastChannels, Loading!PastBuses, Loading!PastInit,
     Loading!PastFlash, Loading!PastSignals, Loading!PastDuration, Loading!PastVersion,
     Loading!PastSymbols
  <2> QED BY <1>1, <2>1, <2>2, <2>4, <2>5 DEF Loading!LoadPassed, Loading!HeaderPassed, Loading!SignalsPassed,
     Loading!FlashPassed, Loading!ListsPassed, Loading!Collecting,
     Loading!LoadedPhases, Loading!PastChannels, Loading!PastBuses, Loading!PastInit,
     Loading!PastFlash, Loading!PastSignals, Loading!PastDuration, Loading!PastVersion,
     Loading!PastSymbols
<1> QED BY <1>2, <1>3, <1>4

LEMMA InitializeKeeps ==
  ASSUME LoadInv, Loading!Initialize, UNCHANGED <<v2, v8, v9, v10>>
  PROVE  LoadInv'
<1> USE DEF LoadInv
<1>1. v1 = "init" /\ v7' = v5 /\ v3' = BusCapacity /\ UNCHANGED <<v4, v5, v6>>
  BY DEF Loading!Initialize
<1>2. Loading!TypeOK'
  <2>1. BusCapacity \in 0 .. Loading!Greatest(MaxCapacity, v2.count)
    BY LoadLimits DEF Loading!Greatest
  <2>2. v1' \in {"can", "failed"}
    BY DEF Loading!Initialize
  <2> QED BY <1>1, <2>1, <2>2 DEF Loading!TypeOK
<1>3. Loading!WrittenInto(v5, v6)'
  BY <1>1 DEF Loading!WrittenInto, Loading!LoadPassed, Loading!HeaderPassed, Loading!SignalsPassed,
     Loading!FlashPassed, Loading!ListsPassed, Loading!Collecting,
     Loading!LoadedPhases, Loading!PastChannels, Loading!PastBuses, Loading!PastInit,
     Loading!PastFlash, Loading!PastSignals, Loading!PastDuration, Loading!PastVersion,
     Loading!PastSymbols
<1>4. CASE v2.init = "ok"
  <2>1. v1' = "can"
    BY <1>4 DEF Loading!Initialize
  <2>2. Loading!FlashPassed'
    BY <1>1, <1>3, <1>4, <2>1 DEF Loading!LoadPassed, Loading!HeaderPassed, Loading!SignalsPassed,
     Loading!FlashPassed, Loading!ListsPassed, Loading!Collecting,
     Loading!LoadedPhases, Loading!PastChannels, Loading!PastBuses, Loading!PastInit,
     Loading!PastFlash, Loading!PastSignals, Loading!PastDuration, Loading!PastVersion,
     Loading!PastSymbols
  <2>3. Loading!HeaderPassed' /\ Loading!SignalsPassed' /\ Loading!ListsPassed' /\ Loading!Collecting'
    BY <1>1, <2>1, LoadLimits DEF Loading!LoadPassed, Loading!HeaderPassed, Loading!SignalsPassed,
     Loading!FlashPassed, Loading!ListsPassed, Loading!Collecting,
     Loading!LoadedPhases, Loading!PastChannels, Loading!PastBuses, Loading!PastInit,
     Loading!PastFlash, Loading!PastSignals, Loading!PastDuration, Loading!PastVersion,
     Loading!PastSymbols
  <2> QED BY <1>2, <2>1, <2>2, <2>3 DEF Loading!LoadPassed, Loading!HeaderPassed, Loading!SignalsPassed,
     Loading!FlashPassed, Loading!ListsPassed, Loading!Collecting,
     Loading!LoadedPhases, Loading!PastChannels, Loading!PastBuses, Loading!PastInit,
     Loading!PastFlash, Loading!PastSignals, Loading!PastDuration, Loading!PastVersion,
     Loading!PastSymbols
<1>5. CASE v2.init # "ok"
  <2>1. v1' = "failed"
    BY <1>5 DEF Loading!Initialize
  <2>2. ~ Loading!Good'
    BY <1>5 DEF Loading!Good
  <2>3. Loading!LoadPassed'
    BY <1>1, <2>1, <2>2 DEF Loading!LoadPassed, Loading!HeaderPassed, Loading!SignalsPassed,
     Loading!FlashPassed, Loading!ListsPassed, Loading!Collecting,
     Loading!LoadedPhases, Loading!PastChannels, Loading!PastBuses, Loading!PastInit,
     Loading!PastFlash, Loading!PastSignals, Loading!PastDuration, Loading!PastVersion,
     Loading!PastSymbols
  <2> QED BY <1>2, <2>3
<1> QED BY <1>4, <1>5

(* Of the flash, nothing changes after sim_init has seen it.               *)
LEMMA FlashStays ==
  ASSUME Loading!FlashPassed, v1 \in {"can", "shared"}, v1' \in {"can", "shared", "validate"},
         UNCHANGED <<v2, v5, v6, v7>>
  PROVE  Loading!FlashPassed'
<1>1. \A p \in {"can", "shared", "validate"} :
        p \in Loading!PastInit /\ p \in Loading!PastFlash /\ p \in Loading!PastSignals /\ p # "flash"
  BY DEF Loading!PastInit, Loading!PastFlash, Loading!PastSignals, Loading!PastBuses, Loading!PastChannels
<1>2. /\ v6 = Len(v2.regions) /\ Loading!WrittenInto(v5, v6)
      /\ \A k \in 1 .. v6 : k \notin v2.refused /\ "flash_write" \in v2.exports
      /\ v2.init = "ok" /\ v7 = v5
  BY <1>1 DEF Loading!FlashPassed
<1>3. Loading!WrittenInto(v5, v6)'
  BY <1>2 DEF Loading!WrittenInto
<1> QED BY <1>1, <1>2, <1>3 DEF Loading!FlashPassed

LEMMA BusesKeep ==
  ASSUME LoadInv, Loading!FetchBuses, UNCHANGED <<v2, v8, v9, v10>>
  PROVE  LoadInv'
<1> USE DEF LoadInv
<1>1. /\ v1 = "can" /\ v3 \in Nat /\ v3 <= MaxCapacity /\ v4.buses = <<>>
      /\ Len(v2.buses) \in Nat /\ v2.count \in Nat /\ MaxCapacity \in Nat
      /\ Len(<<>>) = 0
  BY LoadLimits, LoadLists DEF Loading!FetchBuses, Loading!TypeOK, Loading!Greatest, Loading!LoadPassed, Loading!HeaderPassed, Loading!SignalsPassed,
     Loading!FlashPassed, Loading!ListsPassed, Loading!Collecting,
     Loading!LoadedPhases, Loading!PastChannels, Loading!PastBuses, Loading!PastInit,
     Loading!PastFlash, Loading!PastSignals, Loading!PastDuration, Loading!PastVersion,
     Loading!PastSymbols
<1>2. CASE Loading!CanExports \cap v2.exports = {}
  <2>1. v1' = "shared" /\ v3' = BusCapacity /\ UNCHANGED <<v4, v5, v6, v7>>
    BY <1>1, <1>2 DEF Loading!FetchBuses, Loading!CanExports, Loading!Go, Loading!loading
  <2>2. Loading!TypeOK'
    <3>1. v3' \in 0 .. Loading!Greatest(MaxCapacity, v2.count)'
      BY <1>1, <2>1, LoadLimits DEF Loading!Greatest
    <3> QED BY <2>1, <3>1 DEF Loading!TypeOK
  <2>3. Loading!FlashPassed'
    BY <1>1, <2>1, FlashStays DEF Loading!LoadPassed
  <2>4. Loading!HeaderPassed' /\ Loading!SignalsPassed' /\ Loading!ListsPassed' /\ Loading!Collecting'
    BY <1>1, <1>2, <2>1, LoadLimits DEF Loading!ReadAs, Loading!LoadPassed, Loading!HeaderPassed, Loading!SignalsPassed,
     Loading!FlashPassed, Loading!ListsPassed, Loading!Collecting,
     Loading!LoadedPhases, Loading!PastChannels, Loading!PastBuses, Loading!PastInit,
     Loading!PastFlash, Loading!PastSignals, Loading!PastDuration, Loading!PastVersion,
     Loading!PastSymbols
  <2> QED BY <2>1, <2>2, <2>3, <2>4 DEF Loading!LoadPassed, Loading!HeaderPassed, Loading!SignalsPassed,
     Loading!FlashPassed, Loading!ListsPassed, Loading!Collecting,
     Loading!LoadedPhases, Loading!PastChannels, Loading!PastBuses, Loading!PastInit,
     Loading!PastFlash, Loading!PastSignals, Loading!PastDuration, Loading!PastVersion,
     Loading!PastSymbols
<1>3. CASE Loading!CanExports \cap v2.exports \notin {{}, Loading!CanExports}
  <2>1. Loading!Fail
    BY <1>1, <1>3 DEF Loading!FetchBuses, Loading!CanExports
  <2>2. ~ Loading!Good
    BY <1>3 DEF Loading!Good, Loading!Complete
  <2> QED BY <2>1, <2>2, FailKeeps
<1>4. CASE Loading!CanExports \subseteq v2.exports
  <2>1. Loading!Fetch(v2.buses, "buses", Loading!Named(v2.buses), "shared", BusCapacity)
        /\ Loading!CanExports \cap v2.exports # {}
    BY <1>1, <1>4 DEF Loading!FetchBuses, Loading!CanExports
  <2>2. CASE ~ (Loading!Fail /\ "buses" \in v2.wrong) /\ Len(v2.buses) <= v3 /\ Loading!Named(v2.buses)
    <3>1. /\ v1' = "shared" /\ v3' = BusCapacity /\ v4' = [v4 EXCEPT !.buses = v2.buses]
          /\ UNCHANGED <<v5, v6, v7>>
      BY <1>1, <2>1, <2>2 DEF Loading!Fetch
    <3>0. "buses" \notin v2.wrong
      BY <1>1, <2>1, <2>2 DEF Loading!Fetch
    <3>2. Loading!TypeOK'
      <4>1. v4' \in [signals : {<<>>, v2.signals}, buses : {<<>>, v2.buses},
                     channels : {<<>>, v2.channels}]
        BY <3>1 DEF Loading!TypeOK
      <4>2. v3' \in 0 .. Loading!Greatest(MaxCapacity, v2.count)
        BY <1>1, <3>1, LoadLimits DEF Loading!Greatest
      <4> QED BY <3>1, <4>1, <4>2 DEF Loading!TypeOK
    <3>3. v4'.buses = v2.buses /\ v4'.signals = v4.signals /\ v4'.channels = v4.channels
      BY <3>1 DEF Loading!TypeOK
    <3>4. Loading!ReadAs(v2.buses, "buses", Loading!CanExports, v4.buses)'
      BY <1>1, <1>4, <2>2, <3>0, <3>3 DEF Loading!ReadAs, Loading!Named
    <3>5. Loading!FlashPassed'
      BY <1>1, <3>1, FlashStays DEF Loading!LoadPassed
    <3>6. Loading!HeaderPassed' /\ Loading!SignalsPassed' /\ Loading!Collecting'
      BY <1>1, <3>1, <3>3 DEF Loading!LoadPassed, Loading!HeaderPassed, Loading!SignalsPassed,
     Loading!FlashPassed, Loading!ListsPassed, Loading!Collecting,
     Loading!LoadedPhases, Loading!PastChannels, Loading!PastBuses, Loading!PastInit,
     Loading!PastFlash, Loading!PastSignals, Loading!PastDuration, Loading!PastVersion,
     Loading!PastSymbols
    <3>7. Loading!ListsPassed'
      BY <1>1, <3>1, <3>3, <3>4, LoadLimits DEF Loading!ReadAs, Loading!LoadPassed, Loading!HeaderPassed, Loading!SignalsPassed,
     Loading!FlashPassed, Loading!ListsPassed, Loading!Collecting,
     Loading!LoadedPhases, Loading!PastChannels, Loading!PastBuses, Loading!PastInit,
     Loading!PastFlash, Loading!PastSignals, Loading!PastDuration, Loading!PastVersion,
     Loading!PastSymbols
    <3> QED BY <3>1, <3>2, <3>5, <3>6, <3>7 DEF Loading!LoadPassed, Loading!HeaderPassed, Loading!SignalsPassed,
     Loading!FlashPassed, Loading!ListsPassed, Loading!Collecting,
     Loading!LoadedPhases, Loading!PastChannels, Loading!PastBuses, Loading!PastInit,
     Loading!PastFlash, Loading!PastSignals, Loading!PastDuration, Loading!PastVersion,
     Loading!PastSymbols
  <2>3. CASE ~ (Loading!Fail /\ "buses" \in v2.wrong) /\ Len(v2.buses) <= v3 /\ ~ Loading!Named(v2.buses)
    <3>1. Loading!Fail
      BY <1>1, <2>1, <2>3 DEF Loading!Fetch
    <3>2. ~ Loading!Good
      BY <2>1, <2>3 DEF Loading!Good, Loading!Complete, Loading!Named
    <3> QED BY <3>1, <3>2, FailKeeps
  <2>4. CASE ~ (Loading!Fail /\ "buses" \in v2.wrong) /\ Len(v2.buses) > v3 /\ v3 < MaxCapacity
    <3>1. v3' = Loading!NextCapacity(v3) /\ UNCHANGED <<v1, v4, v5, v6, v7>>
      BY <1>1, <2>1, <2>4 DEF Loading!Fetch, Loading!loading
    <3>2. v3' \in Nat /\ v3 <= v3' /\ v3' <= MaxCapacity
      BY <1>1, <2>4, <3>1, NextCapacityGrows
    <3>3. Loading!TypeOK'
      <4>1. v3' \in 0 .. Loading!Greatest(MaxCapacity, v2.count)
        BY <1>1, <3>2, LoadLimits DEF Loading!Greatest
      <4> QED BY <3>1, <4>1 DEF Loading!TypeOK
    <3>4. Loading!FlashPassed'
      BY <1>1, <3>1, FlashStays DEF Loading!LoadPassed
    <3>5. Loading!HeaderPassed' /\ Loading!SignalsPassed' /\ Loading!ListsPassed' /\ Loading!Collecting'
      BY <1>1, <3>1, <3>2 DEF Loading!ReadAs, Loading!LoadPassed, Loading!HeaderPassed, Loading!SignalsPassed,
     Loading!FlashPassed, Loading!ListsPassed, Loading!Collecting,
     Loading!LoadedPhases, Loading!PastChannels, Loading!PastBuses, Loading!PastInit,
     Loading!PastFlash, Loading!PastSignals, Loading!PastDuration, Loading!PastVersion,
     Loading!PastSymbols
    <3> QED BY <1>1, <3>1, <3>3, <3>4, <3>5 DEF Loading!LoadPassed, Loading!HeaderPassed, Loading!SignalsPassed,
     Loading!FlashPassed, Loading!ListsPassed, Loading!Collecting,
     Loading!LoadedPhases, Loading!PastChannels, Loading!PastBuses, Loading!PastInit,
     Loading!PastFlash, Loading!PastSignals, Loading!PastDuration, Loading!PastVersion,
     Loading!PastSymbols
  <2>5. CASE ~ (Loading!Fail /\ "buses" \in v2.wrong) /\ Len(v2.buses) > v3 /\ v3 >= MaxCapacity
    <3>1. Loading!Fail
      BY <1>1, <2>1, <2>5 DEF Loading!Fetch
    <3>2. ~ Loading!Good
      BY <1>1, <2>1, <2>5 DEF Loading!Good, Loading!Complete
    <3> QED BY <3>1, <3>2, FailKeeps
  <2>6. CASE Loading!Fail /\ "buses" \in v2.wrong
    <3>1. ~ Loading!Good
      BY <1>4, <2>6 DEF Loading!Good
    <3> QED BY <2>6, <3>1, FailKeeps
  <2> QED BY <1>1, <2>2, <2>3, <2>4, <2>5, <2>6
<1> QED BY <1>2, <1>3, <1>4

LEMMA ChannelsKeep ==
  ASSUME LoadInv, Loading!FetchChannels, UNCHANGED <<v2, v8, v9, v10>>
  PROVE  LoadInv'
<1> USE DEF LoadInv
<1>1. /\ v1 = "shared" /\ v3 \in Nat /\ v3 <= MaxCapacity /\ v4.channels = <<>>
      /\ Len(v2.channels) \in Nat /\ v2.count \in Nat /\ MaxCapacity \in Nat
      /\ Len(<<>>) = 0
  BY LoadLimits, LoadLists DEF Loading!FetchChannels, Loading!TypeOK, Loading!Greatest, Loading!LoadPassed, Loading!HeaderPassed, Loading!SignalsPassed,
     Loading!FlashPassed, Loading!ListsPassed, Loading!Collecting,
     Loading!LoadedPhases, Loading!PastChannels, Loading!PastBuses, Loading!PastInit,
     Loading!PastFlash, Loading!PastSignals, Loading!PastDuration, Loading!PastVersion,
     Loading!PastSymbols
<1>2. CASE Loading!SharedExports \cap v2.exports = {}
  <2>1. v1' = "validate" /\ v3' = v3 /\ UNCHANGED <<v4, v5, v6, v7>>
    BY <1>1, <1>2 DEF Loading!FetchChannels, Loading!SharedExports, Loading!Go, Loading!loading
  <2>2. Loading!TypeOK'
    <3>1. v3' \in 0 .. Loading!Greatest(MaxCapacity, v2.count)'
      BY <1>1, <2>1, LoadLimits DEF Loading!Greatest
    <3> QED BY <2>1, <3>1 DEF Loading!TypeOK
  <2>3. Loading!FlashPassed'
    BY <1>1, <2>1, FlashStays DEF Loading!LoadPassed
  <2>4. Loading!HeaderPassed' /\ Loading!SignalsPassed' /\ Loading!ListsPassed' /\ Loading!Collecting'
    BY <1>1, <1>2, <2>1, LoadLimits DEF Loading!ReadAs, Loading!LoadPassed, Loading!HeaderPassed, Loading!SignalsPassed,
     Loading!FlashPassed, Loading!ListsPassed, Loading!Collecting,
     Loading!LoadedPhases, Loading!PastChannels, Loading!PastBuses, Loading!PastInit,
     Loading!PastFlash, Loading!PastSignals, Loading!PastDuration, Loading!PastVersion,
     Loading!PastSymbols
  <2> QED BY <2>1, <2>2, <2>3, <2>4 DEF Loading!LoadPassed, Loading!HeaderPassed, Loading!SignalsPassed,
     Loading!FlashPassed, Loading!ListsPassed, Loading!Collecting,
     Loading!LoadedPhases, Loading!PastChannels, Loading!PastBuses, Loading!PastInit,
     Loading!PastFlash, Loading!PastSignals, Loading!PastDuration, Loading!PastVersion,
     Loading!PastSymbols
<1>3. CASE Loading!SharedExports \cap v2.exports \notin {{}, Loading!SharedExports}
  <2>1. Loading!Fail
    BY <1>1, <1>3 DEF Loading!FetchChannels, Loading!SharedExports
  <2>2. ~ Loading!Good
    BY <1>3 DEF Loading!Good, Loading!Complete
  <2> QED BY <2>1, <2>2, FailKeeps
<1>4. CASE Loading!SharedExports \subseteq v2.exports
  <2>1. Loading!Fetch(v2.channels, "channels", Loading!Named(v2.channels), "validate", v3)
        /\ Loading!SharedExports \cap v2.exports # {}
    BY <1>1, <1>4 DEF Loading!FetchChannels, Loading!SharedExports
  <2>2. CASE ~ (Loading!Fail /\ "channels" \in v2.wrong) /\ Len(v2.channels) <= v3 /\ Loading!Named(v2.channels)
    <3>1. /\ v1' = "validate" /\ v3' = v3 /\ v4' = [v4 EXCEPT !.channels = v2.channels]
          /\ UNCHANGED <<v5, v6, v7>>
      BY <1>1, <2>1, <2>2 DEF Loading!Fetch
    <3>0. "channels" \notin v2.wrong
      BY <1>1, <2>1, <2>2 DEF Loading!Fetch
    <3>2. Loading!TypeOK'
      <4>1. v4' \in [signals : {<<>>, v2.signals}, buses : {<<>>, v2.buses},
                     channels : {<<>>, v2.channels}]
        BY <3>1 DEF Loading!TypeOK
      <4>2. v3' \in 0 .. Loading!Greatest(MaxCapacity, v2.count)
        BY <1>1, <3>1, LoadLimits DEF Loading!Greatest
      <4> QED BY <3>1, <4>1, <4>2 DEF Loading!TypeOK
    <3>3. v4'.channels = v2.channels /\ v4'.signals = v4.signals /\ v4'.buses = v4.buses
      BY <3>1 DEF Loading!TypeOK
    <3>4. Loading!ReadAs(v2.channels, "channels", Loading!SharedExports, v4.channels)'
      BY <1>1, <1>4, <2>2, <3>0, <3>3 DEF Loading!ReadAs, Loading!Named
    <3>5. Loading!FlashPassed'
      BY <1>1, <3>1, FlashStays DEF Loading!LoadPassed
    <3>6. Loading!HeaderPassed' /\ Loading!SignalsPassed' /\ Loading!Collecting'
      BY <1>1, <3>1, <3>3 DEF Loading!LoadPassed, Loading!HeaderPassed, Loading!SignalsPassed,
     Loading!FlashPassed, Loading!ListsPassed, Loading!Collecting,
     Loading!LoadedPhases, Loading!PastChannels, Loading!PastBuses, Loading!PastInit,
     Loading!PastFlash, Loading!PastSignals, Loading!PastDuration, Loading!PastVersion,
     Loading!PastSymbols
    <3>7. Loading!ListsPassed'
      BY <1>1, <3>1, <3>3, <3>4, LoadLimits DEF Loading!ReadAs, Loading!LoadPassed, Loading!HeaderPassed, Loading!SignalsPassed,
     Loading!FlashPassed, Loading!ListsPassed, Loading!Collecting,
     Loading!LoadedPhases, Loading!PastChannels, Loading!PastBuses, Loading!PastInit,
     Loading!PastFlash, Loading!PastSignals, Loading!PastDuration, Loading!PastVersion,
     Loading!PastSymbols
    <3> QED BY <3>1, <3>2, <3>5, <3>6, <3>7 DEF Loading!LoadPassed, Loading!HeaderPassed, Loading!SignalsPassed,
     Loading!FlashPassed, Loading!ListsPassed, Loading!Collecting,
     Loading!LoadedPhases, Loading!PastChannels, Loading!PastBuses, Loading!PastInit,
     Loading!PastFlash, Loading!PastSignals, Loading!PastDuration, Loading!PastVersion,
     Loading!PastSymbols
  <2>3. CASE ~ (Loading!Fail /\ "channels" \in v2.wrong) /\ Len(v2.channels) <= v3 /\ ~ Loading!Named(v2.channels)
    <3>1. Loading!Fail
      BY <1>1, <2>1, <2>3 DEF Loading!Fetch
    <3>2. ~ Loading!Good
      BY <2>1, <2>3 DEF Loading!Good, Loading!Complete, Loading!Named
    <3> QED BY <3>1, <3>2, FailKeeps
  <2>4. CASE ~ (Loading!Fail /\ "channels" \in v2.wrong) /\ Len(v2.channels) > v3 /\ v3 < MaxCapacity
    <3>1. v3' = Loading!NextCapacity(v3) /\ UNCHANGED <<v1, v4, v5, v6, v7>>
      BY <1>1, <2>1, <2>4 DEF Loading!Fetch, Loading!loading
    <3>2. v3' \in Nat /\ v3 <= v3' /\ v3' <= MaxCapacity
      BY <1>1, <2>4, <3>1, NextCapacityGrows
    <3>3. Loading!TypeOK'
      <4>1. v3' \in 0 .. Loading!Greatest(MaxCapacity, v2.count)
        BY <1>1, <3>2, LoadLimits DEF Loading!Greatest
      <4> QED BY <3>1, <4>1 DEF Loading!TypeOK
    <3>4. Loading!FlashPassed'
      BY <1>1, <3>1, FlashStays DEF Loading!LoadPassed
    <3>5. Loading!HeaderPassed' /\ Loading!SignalsPassed' /\ Loading!ListsPassed' /\ Loading!Collecting'
      BY <1>1, <3>1, <3>2 DEF Loading!ReadAs, Loading!LoadPassed, Loading!HeaderPassed, Loading!SignalsPassed,
     Loading!FlashPassed, Loading!ListsPassed, Loading!Collecting,
     Loading!LoadedPhases, Loading!PastChannels, Loading!PastBuses, Loading!PastInit,
     Loading!PastFlash, Loading!PastSignals, Loading!PastDuration, Loading!PastVersion,
     Loading!PastSymbols
    <3> QED BY <1>1, <3>1, <3>3, <3>4, <3>5 DEF Loading!LoadPassed, Loading!HeaderPassed, Loading!SignalsPassed,
     Loading!FlashPassed, Loading!ListsPassed, Loading!Collecting,
     Loading!LoadedPhases, Loading!PastChannels, Loading!PastBuses, Loading!PastInit,
     Loading!PastFlash, Loading!PastSignals, Loading!PastDuration, Loading!PastVersion,
     Loading!PastSymbols
  <2>5. CASE ~ (Loading!Fail /\ "channels" \in v2.wrong) /\ Len(v2.channels) > v3 /\ v3 >= MaxCapacity
    <3>1. Loading!Fail
      BY <1>1, <2>1, <2>5 DEF Loading!Fetch
    <3>2. ~ Loading!Good
      BY <1>1, <2>1, <2>5 DEF Loading!Good, Loading!Complete
    <3> QED BY <3>1, <3>2, FailKeeps
  <2>6. CASE Loading!Fail /\ "channels" \in v2.wrong
    <3>1. ~ Loading!Good
      BY <1>4, <2>6 DEF Loading!Good
    <3> QED BY <2>6, <3>1, FailKeeps
  <2> QED BY <1>1, <2>2, <2>3, <2>4, <2>5, <2>6
<1> QED BY <1>2, <1>3, <1>4

(* What is valid of what was read is what makes the library good.          *)
LEMMA ValidIsGood ==
  ASSUME LoadInv, v1 \in Loading!PastChannels
  PROVE  Loading!Valid <=> Loading!Good
<1> DEFINE Fit(list) == Loading!OneToOne(list)
                          /\ \A k \in 1 .. Len(list) : list[k].name \notin {"null", "blank"}
<1>1. /\ Loading!Required \subseteq v2.exports /\ v2.version = <<2, 0>> /\ v2.tickUs > 0
      /\ v2.init = "ok" /\ {"version", "tickUs", "count"} \cap v2.wrong = {}
  BY DEF LoadInv, Loading!LoadPassed, Loading!HeaderPassed, Loading!SignalsPassed,
     Loading!FlashPassed, Loading!ListsPassed, Loading!Collecting,
     Loading!LoadedPhases, Loading!PastChannels, Loading!PastBuses, Loading!PastInit,
     Loading!PastFlash, Loading!PastSignals, Loading!PastDuration, Loading!PastVersion,
     Loading!PastSymbols
<1>2. /\ v2.regions # <<>> => "flash_write" \in v2.exports
      /\ \A k \in 1 .. Len(v2.regions) : k \notin v2.refused
  <2>1. v6 = Len(v2.regions) /\ v6 \in Nat
        /\ \A k \in 1 .. v6 : k \notin v2.refused /\ "flash_write" \in v2.exports
    BY LoadLists DEF LoadInv, Loading!LoadPassed, Loading!HeaderPassed, Loading!SignalsPassed,
     Loading!FlashPassed, Loading!ListsPassed, Loading!Collecting,
     Loading!LoadedPhases, Loading!PastChannels, Loading!PastBuses, Loading!PastInit,
     Loading!PastFlash, Loading!PastSignals, Loading!PastDuration, Loading!PastVersion,
     Loading!PastSymbols
  <2>2. v2.regions # <<>> => 1 \in 1 .. v6
    <3>1. v2 \in Loadable
      BY DEF LoadInv
    <3>2. v2.regions \in Seq(Range(v2.regions))
      BY <3>1, CommandsAssumption DEF Loading!LibraryAssumption, Loading!Range, Range
    <3>3. v2.regions # <<>> => Len(v2.regions) # 0
      BY <3>2, EmptySeq
    <3> QED BY <2>1, <3>3
  <2> QED BY <2>1, <2>2
<1>3. /\ v4.signals = v2.signals /\ Loading!Named(v2.signals) /\ "signals" \notin v2.wrong
      /\ Len(v2.signals) <= Loading!Greatest(MaxCapacity, v2.count)
      /\ \A k \in 1 .. Len(v2.signals) : v2.signals[k].type \in 0 .. 4
      /\ Len(v2.signals) \in Nat /\ Len(v2.buses) \in Nat /\ Len(v2.channels) \in Nat
      /\ Loading!ReadAs(v2.buses, "buses", Loading!CanExports, v4.buses)
      /\ Loading!ReadAs(v2.channels, "channels", Loading!SharedExports, v4.channels)
  BY LoadLists DEF LoadInv, Loading!LoadPassed, Loading!HeaderPassed, Loading!SignalsPassed,
     Loading!FlashPassed, Loading!ListsPassed, Loading!Collecting,
     Loading!LoadedPhases, Loading!PastChannels, Loading!PastBuses, Loading!PastInit,
     Loading!PastFlash, Loading!PastSignals, Loading!PastDuration, Loading!PastVersion,
     Loading!PastSymbols
<1>4. /\ Loading!Required # {} /\ Loading!CanExports # {} /\ Loading!SharedExports # {}
      /\ Loading!Distinct(<<>>)
  BY DEF Loading!Required, Loading!CanExports, Loading!SharedExports, Loading!Distinct
<1>5. Loading!Distinct(v4.signals)
        <=> Loading!Complete(Loading!Required, v2.signals, Loading!Greatest(MaxCapacity, v2.count))
  <2>1. Loading!Distinct(v2.signals) <=> Fit(v2.signals)
    BY <1>3, DistinctIsOneToOne DEF Loading!Named
  <2> QED BY <1>1, <1>3, <1>4, <2>1 DEF Loading!Complete
<1>6. Loading!Distinct(v4.buses) <=> Loading!Complete(Loading!CanExports, v2.buses, MaxCapacity)
  <2>1. Loading!Named(v2.buses) => (Loading!Distinct(v2.buses) <=> Fit(v2.buses))
    BY <1>3, DistinctIsOneToOne DEF Loading!Named
  <2> QED BY <1>3, <1>4, <2>1 DEF Loading!Complete, Loading!ReadAs
<1>7. Loading!Distinct(v4.channels) <=> Loading!Complete(Loading!SharedExports, v2.channels, MaxCapacity)
  <2>1. Loading!Named(v2.channels) => (Loading!Distinct(v2.channels) <=> Fit(v2.channels))
    BY <1>3, DistinctIsOneToOne DEF Loading!Named
  <2> QED BY <1>3, <1>4, <2>1 DEF Loading!Complete, Loading!ReadAs
<1>8. (\A k \in 1 .. Len(v4.channels) : v4.channels[k].slots > 0)
        <=> (Loading!SharedExports \subseteq v2.exports =>
               \A k \in 1 .. Len(v2.channels) : v2.channels[k].slots > 0)
  BY <1>3, <1>4 DEF Loading!ReadAs
<1>9. /\ Loading!CanExports \subseteq v2.exports => "buses" \notin v2.wrong
      /\ Loading!SharedExports \subseteq v2.exports => "channels" \notin v2.wrong
  BY <1>3, <1>4 DEF Loading!ReadAs
<1>10. {"version", "tickUs", "count", "signals"} \cap v2.wrong = {}
  BY <1>1, <1>3
<1> QED BY <1>1, <1>2, <1>3, <1>5, <1>6, <1>7, <1>8, <1>9, <1>10 DEF Loading!Valid, Loading!Good

LEMMA ValidateKeeps ==
  ASSUME LoadInv, Loading!Validate, UNCHANGED <<v2, v8, v9, v10>>
  PROVE  LoadInv'
<1>1. v1 = "validate" /\ (Loading!Valid <=> Loading!Good)
  BY ValidIsGood DEF Loading!Validate, Loading!PastChannels
<1>2. CASE Loading!Valid
  <2> USE DEF LoadInv
  <2>1. v1' = "loaded" /\ UNCHANGED <<v3, v4, v5, v6, v7>>
    BY <1>2 DEF Loading!Validate, Loading!Go, Loading!loading
  <2>2. Loading!Valid' /\ Loading!TypeOK'
    BY <1>2, <2>1 DEF Loading!Valid, Loading!TypeOK
  <2>3. Loading!FlashPassed'
    BY <1>1, <2>1 DEF Loading!WrittenInto, Loading!LoadPassed, Loading!HeaderPassed, Loading!SignalsPassed,
     Loading!FlashPassed, Loading!ListsPassed, Loading!Collecting,
     Loading!LoadedPhases, Loading!PastChannels, Loading!PastBuses, Loading!PastInit,
     Loading!PastFlash, Loading!PastSignals, Loading!PastDuration, Loading!PastVersion,
     Loading!PastSymbols
  <2>4. Loading!HeaderPassed' /\ Loading!SignalsPassed' /\ Loading!ListsPassed' /\ Loading!Collecting'
    BY <1>1, <2>1 DEF Loading!ReadAs, Loading!LoadPassed, Loading!HeaderPassed, Loading!SignalsPassed,
     Loading!FlashPassed, Loading!ListsPassed, Loading!Collecting,
     Loading!LoadedPhases, Loading!PastChannels, Loading!PastBuses, Loading!PastInit,
     Loading!PastFlash, Loading!PastSignals, Loading!PastDuration, Loading!PastVersion,
     Loading!PastSymbols
  <2> QED BY <2>1, <2>2, <2>3, <2>4 DEF Loading!LoadPassed, Loading!HeaderPassed, Loading!SignalsPassed,
     Loading!FlashPassed, Loading!ListsPassed, Loading!Collecting,
     Loading!LoadedPhases, Loading!PastChannels, Loading!PastBuses, Loading!PastInit,
     Loading!PastFlash, Loading!PastSignals, Loading!PastDuration, Loading!PastVersion,
     Loading!PastSymbols
<1>3. CASE ~ Loading!Valid
  BY <1>1, <1>3, FailKeeps DEF Loading!Validate
<1> QED BY <1>2, <1>3

(* Making and collecting frames touches nothing of what was loaded.        *)
LEMMA FramesKeepTheLoad ==
  ASSUME LoadInv, v1 \in Loading!LoadedPhases, v1' \in Loading!LoadedPhases,
         UNCHANGED <<v2, v4, v5, v6, v7>>, v3' \in 0 .. MaxCapacity,
         v8' \in Seq(1 .. MaxFrames), v9' \in Seq(1 .. MaxFrames), v10' \in Seq(1 .. MaxFrames),
         Loading!Collecting'
  PROVE  LoadInv'
<1> USE DEF LoadInv
<1>1. Loading!TypeOK'
  <2>1. v3' \in 0 .. Loading!Greatest(MaxCapacity, v2.count)
    BY LoadLimits DEF Loading!Greatest
  <2> QED BY <2>1 DEF Loading!TypeOK, Loading!LoadedPhases
<1>2. Loading!Valid'
  BY DEF Loading!LoadPassed, Loading!Valid
<1>3. Loading!FlashPassed'
  BY DEF Loading!WrittenInto, Loading!LoadPassed, Loading!HeaderPassed, Loading!SignalsPassed,
     Loading!FlashPassed, Loading!ListsPassed, Loading!Collecting,
     Loading!LoadedPhases, Loading!PastChannels, Loading!PastBuses, Loading!PastInit,
     Loading!PastFlash, Loading!PastSignals, Loading!PastDuration, Loading!PastVersion,
     Loading!PastSymbols
<1>4. Loading!HeaderPassed' /\ Loading!SignalsPassed'
  BY DEF Loading!LoadPassed, Loading!HeaderPassed, Loading!SignalsPassed,
     Loading!FlashPassed, Loading!ListsPassed, Loading!Collecting,
     Loading!LoadedPhases, Loading!PastChannels, Loading!PastBuses, Loading!PastInit,
     Loading!PastFlash, Loading!PastSignals, Loading!PastDuration, Loading!PastVersion,
     Loading!PastSymbols
<1>5. Loading!ListsPassed'
  BY LoadLimits DEF Loading!ReadAs, Loading!LoadPassed, Loading!HeaderPassed, Loading!SignalsPassed,
     Loading!FlashPassed, Loading!ListsPassed, Loading!Collecting,
     Loading!LoadedPhases, Loading!PastChannels, Loading!PastBuses, Loading!PastInit,
     Loading!PastFlash, Loading!PastSignals, Loading!PastDuration, Loading!PastVersion,
     Loading!PastSymbols
<1> QED BY <1>1, <1>2, <1>3, <1>4, <1>5 DEF Loading!LoadPassed, Loading!HeaderPassed, Loading!SignalsPassed,
     Loading!FlashPassed, Loading!ListsPassed, Loading!Collecting,
     Loading!LoadedPhases, Loading!PastChannels, Loading!PastBuses, Loading!PastInit,
     Loading!PastFlash, Loading!PastSignals, Loading!PastDuration, Loading!PastVersion,
     Loading!PastSymbols

LEMMA MakeKeeps ==
  ASSUME LoadInv, Loading!MakeFrames
  PROVE  LoadInv'
<1>1. PICK n \in 0 .. MaxFrames : v10' = [k \in 1 .. n |-> k]
  BY DEF Loading!MakeFrames
<1>2. v8' = v10' /\ v9' = <<>> /\ v3' = TxCapacity /\ v1 = "loaded" /\ v1' = "collect"
      /\ UNCHANGED <<v2, v4, v5, v6, v7>>
  BY DEF Loading!MakeFrames, Loading!loading
<1>3. v10' \in Seq(1 .. MaxFrames)
  <2>1. n \in Nat /\ \A k \in 1 .. n : k \in 1 .. MaxFrames
    BY LoadLimits
  <2> QED BY <1>1, <2>1
<1>4. v9' \in Seq(1 .. MaxFrames) /\ v9' \o v8' = v10' /\ Len(v9') = 0
  BY <1>2, <1>3, ConcatEmptySeq
<1>5. Loading!Collecting'
  BY <1>2, <1>4, LoadLimits DEF Loading!Collecting
<1> QED BY <1>2, <1>3, <1>4, <1>5, LoadLimits, FramesKeepTheLoad DEF Loading!LoadedPhases

LEMMA NonEmpty ==
  ASSUME NEW S, NEW s \in Seq(S), s # <<>>
  PROVE  Len(s) > 0
BY EmptySeq

(* What is left of a sequence without its first n elements.                *)
LEMMA AllButFirst ==
  ASSUME NEW S, NEW s \in Seq(S), NEW n \in Nat, n <= Len(s)
  PROVE  /\ SubSeq(s, n + 1, Len(s)) \in Seq(S)
         /\ Len(SubSeq(s, n + 1, Len(s))) = Len(s) - n
<1>1. Len(s) \in Nat /\ n + 1 \in Int /\ Len(s) \in Int
  BY LenProperties
<1>2. \A i \in n + 1 .. Len(s) : s[i] \in S
  <2> SUFFICES ASSUME NEW i \in n + 1 .. Len(s) PROVE s[i] \in S
    OBVIOUS
  <2>1. i \in 1 .. Len(s)
    BY <1>1
  <2> QED BY <2>1, ElementOfSeq
<1> DEFINE first == n + 1
           last == Len(s)
<1>3. /\ first \in Int /\ last \in Int /\ \A i \in first .. last : s[i] \in S
      /\ (IF first <= last THEN last - first + 1 ELSE 0) = Len(s) - n
  BY <1>1, <1>2
<1> HIDE DEF first, last
<1>4. /\ SubSeq(s, first, last) \in Seq(S)
      /\ Len(SubSeq(s, first, last)) = IF first <= last THEN last - first + 1 ELSE 0
  BY <1>3, SubSeqProperties
<1>5. Len(SubSeq(s, first, last)) = Len(s) - n
  BY <1>3, <1>4
<1> QED BY <1>4, <1>5, Zenon DEF first, last

(* One call of sim_can_tx: the frames that fit into the buffer are handed  *)
(* over, the others stay.                                                  *)
LEMMA CollectStep ==
  ASSUME LoadInv, Loading!CollectFrames
  PROVE  /\ v8' \in Seq(1 .. MaxFrames) /\ Loading!Handed \in Seq(1 .. MaxFrames)
         /\ Loading!Handed \o v8' = v10
         /\ v8' # <<>> => Len(Loading!Handed) = Len(v9) + v3 /\ Len(v8') > 0
<1> DEFINE F == 1 .. MaxFrames
           n == Loading!Least(Len(v8), v3)
           now == SubSeq(v8, 1, n)
           later == SubSeq(v8, n + 1, Len(v8))
<1>1. v8 \in Seq(F) /\ v9 \in Seq(F)
  BY DEF LoadInv, Loading!TypeOK
<1>2. v9 \o v8 = v10
  BY DEF Loading!CollectFrames, LoadInv, Loading!LoadPassed, Loading!Collecting
<1>3. v3 \in Nat /\ Len(v8) \in Nat
  <2>1. v3 \in Nat
    BY LoadLimits DEF LoadInv, Loading!TypeOK, Loading!Greatest
  <2> QED BY <1>1, <2>1, LenProperties
<1>4. n \in 0 .. Len(v8) /\ (n = Len(v8) \/ n = v3)
  BY <1>3 DEF Loading!Least
<1>5. Loading!Handed = v9 \o now /\ v8' = later
  <2>1. Loading!Handed = v9 \o now
    BY Zenon DEF Loading!Handed, Loading!Fitting
  <2>2. v8' = later
    BY DEF Loading!CollectFrames, Loading!Fitting
  <2> QED BY <2>1, <2>2
<1> HIDE DEF n, F
<1>6. n \in Nat /\ n <= Len(v8) /\ \A i \in 1 .. Len(v8) : v8[i] \in F
  BY <1>1, <1>3, <1>4, ElementOfSeq
<1>7. now \in Seq(F) /\ Len(now) = n
  <2>1. \A i \in 1 .. n : v8[i] \in F
    BY <1>3, <1>6
  <2> QED BY <1>6, <2>1, SubSeqProperties
<1>8. later \in Seq(F) /\ Len(later) = Len(v8) - n
  BY <1>1, <1>6, AllButFirst
<1>9. now \o later = v8
  <2>1. 1 \in 1 .. Len(v8) + 1 /\ n \in 1 - 1 .. Len(v8) /\ Len(v8) \in n .. Len(v8)
    BY <1>3, <1>6
  <2>2. SubSeq(v8, 1, n) \o SubSeq(v8, n + 1, Len(v8)) = SubSeq(v8, 1, Len(v8))
    BY <1>1, <2>1, ConcatAdjacentSubSeq
  <2> QED BY <1>1, <2>2, SubSeqFull
<1> HIDE DEF now, later
<1>10. v9 \o now \in Seq(F) /\ Len(v9 \o now) = Len(v9) + n
  BY <1>1, <1>7, ConcatProperties
<1>11. (v9 \o now) \o later = v9 \o (now \o later)
  <2>1. v9 \in Seq(F)
    BY <1>1
  <2>2. now \in Seq(F) /\ later \in Seq(F)
    BY <1>7, <1>8
  <2> QED BY <2>1, <2>2, ConcatAssociative
<1>12. Loading!Handed \o v8' = v10
  BY <1>2, <1>5, <1>9, <1>11, Zenon
<1>13. Loading!Handed \in Seq(F) /\ Len(Loading!Handed) = Len(v9) + n
  BY <1>5, <1>10, Zenon
<1>14. v8' \in Seq(F) /\ Len(v8') = Len(v8) - n
  BY <1>5, <1>8, Zenon
<1>15. ASSUME v8' # <<>> PROVE Len(Loading!Handed) = Len(v9) + v3 /\ Len(v8') > 0
  <2>1. Len(v8') > 0
    BY <1>14, <1>15, NonEmpty, Zenon
  <2>2. n = v3
    BY <1>3, <1>4, <1>14, <2>1
  <2> QED BY <1>13, <2>1, <2>2
<1> QED BY <1>12, <1>13, <1>14, <1>15, Zenon DEF F

LEMMA CollectKeeps ==
  ASSUME LoadInv, Loading!CollectFrames
  PROVE  LoadInv' /\ Loading!FramesCollectedOnce'
<1>1. /\ v1 = "collect" /\ v3 \in Nat /\ TxCapacity <= v3 /\ v3 <= MaxCapacity
      /\ Len(v9) \in Nat /\ Len(v9) + TxCapacity >= v3 /\ v10 \in Seq(1 .. MaxFrames)
      /\ UNCHANGED <<v2, v4, v5, v6, v7, v10>>
  BY LoadLimits, LenProperties
  DEF Loading!CollectFrames, Loading!loading, LoadInv, Loading!TypeOK, Loading!LoadPassed,
      Loading!Collecting, Loading!ListsPassed, Loading!Greatest
<1> DEFINE given == Loading!Handed
<1>2. /\ v8' \in Seq(1 .. MaxFrames) /\ given \in Seq(1 .. MaxFrames) /\ given \o v8' = v10
      /\ v8' # <<>> => Len(given) = Len(v9) + v3 /\ Len(v8') > 0
      /\ Len(v8') \in Nat /\ Len(given) \in Nat
  BY CollectStep, LenProperties
<1>3. CASE v8' = <<>>
  <2>1. v1' = "collected" /\ v3' = v3 /\ v9' = given
    BY <1>3 DEF Loading!CollectFrames
  <2>2. given = v10
    BY <1>2, <1>3, ConcatEmptySeq
  <2>3. LoadInv'
    BY <1>1, <1>2, <2>1, FramesKeepTheLoad DEF Loading!LoadedPhases, Loading!Collecting
  <2> QED BY <1>1, <2>1, <2>2, <2>3 DEF Loading!FramesCollectedOnce
<1>4. CASE v8' # <<>> /\ v3 < MaxCapacity
  <2>1. v1' = "collect" /\ v3' = Loading!NextCapacity(v3) /\ v9' = given
    BY <1>1, <1>4, LoadLimits DEF Loading!CollectFrames
  <2>2. v3' \in Nat /\ v3 <= v3' /\ v3' <= MaxCapacity /\ v3' <= 2 * v3
    BY <1>1, <1>4, <2>1, LoadLimits, NextCapacityGrows
  <2>3. Len(given) + TxCapacity >= v3' /\ v3' >= TxCapacity
    BY <1>1, <1>2, <1>4, <2>2, LoadLimits
  <2>4. Loading!Collecting'
    <3>1. v9' \o v8' = v10'
      BY <1>1, <1>2, <2>1
    <3>2. Len(v9') + TxCapacity >= v3'
      BY <2>1, <2>3
    <3> QED BY <2>3, <3>1, <3>2 DEF Loading!Collecting
  <2>5. LoadInv'
    BY <1>1, <1>2, <2>1, <2>2, <2>4, LoadLimits, FramesKeepTheLoad DEF Loading!LoadedPhases
  <2> QED BY <2>1, <2>5 DEF Loading!FramesCollectedOnce
<1>5. CASE v8' # <<>> /\ v3 >= MaxCapacity
  <2>1. v1' = "broken" /\ v3' = v3 /\ v3 = MaxCapacity /\ v9' = <<>>
    BY <1>1, <1>5, LoadLimits DEF Loading!CollectFrames
  <2>2. v9' \in Seq(1 .. MaxFrames)
    BY <2>1
  <2>3. LoadInv'
    BY <1>1, <1>2, <2>1, <2>2, FramesKeepTheLoad DEF Loading!LoadedPhases, Loading!Collecting
  <2>4. Len(v10) = Len(given) + Len(v8')
    BY <1>2, ConcatProperties
  <2>5. Len(v10) > 2 * MaxCapacity - TxCapacity
    BY <1>1, <1>2, <1>5, <2>1, <2>4, LoadLimits
  <2> QED BY <1>1, <2>1, <2>3, <2>5 DEF Loading!FramesCollectedOnce
<1> QED BY <1>1, <1>3, <1>4, <1>5, LoadLimits

(* A wrong answer breaks the collection and leaves nothing handed over.    *)
LEMMA CollectionFailsKeeps ==
  ASSUME LoadInv, Loading!CollectionFails
  PROVE  LoadInv' /\ Loading!FramesCollectedOnce'
<1>1. /\ v1 = "collect" /\ v1' = "broken" /\ v9' = <<>> /\ "frames" \in v2.wrong
      /\ UNCHANGED <<v2, v3, v4, v5, v6, v7, v10>>
  BY DEF Loading!CollectionFails, Loading!loading
<1>2. v3 \in 0 .. MaxCapacity /\ v8 \in Seq(1 .. MaxFrames) /\ v10 \in Seq(1 .. MaxFrames)
  BY <1>1, LoadLimits
  DEF LoadInv, Loading!TypeOK, Loading!LoadPassed, Loading!ListsPassed, Loading!Greatest
<1>3. v8' \in Seq(1 .. MaxFrames)
  <2>1. PICK n \in 0 .. Len(v8) : v8' = SubSeq(v8, n + 1, Len(v8))
    BY DEF Loading!CollectionFails
  <2>2. n \in Nat /\ n <= Len(v8)
    BY <1>2, LenProperties
  <2> QED BY <1>2, <2>1, <2>2, AllButFirst
<1>4. v9' \in Seq(1 .. MaxFrames) /\ Loading!Collecting'
  BY <1>1 DEF Loading!Collecting
<1>5. LoadInv'
  BY <1>1, <1>2, <1>3, <1>4, FramesKeepTheLoad DEF Loading!LoadedPhases
<1> QED BY <1>1, <1>5 DEF Loading!FramesCollectedOnce

LEMMA LoadStep == LoadInv /\ [Loading!Next]_(Loading!vars) => LoadInv'
<1> SUFFICES ASSUME LoadInv, [Loading!Next]_(Loading!vars) PROVE LoadInv'
  OBVIOUS
<1>1. CASE Loading!Load
  <2>1. UNCHANGED <<v2, v8, v9, v10>>
    BY <1>1 DEF Loading!Load, Loading!frames
  <2> QED BY <1>1, <2>1, LookUpKeeps, HeaderKeeps, SignalsKeep, FlashKeeps, InitializeKeeps,
             BusesKeep, ChannelsKeep, ValidateKeeps DEF Loading!Load
<1>2. CASE Loading!MakeFrames
  BY <1>2, MakeKeeps
<1>3. CASE Loading!CollectFrames
  BY <1>3, CollectKeeps
<1>4. CASE Loading!CollectionFails
  BY <1>4, CollectionFailsKeeps
<1>5. CASE UNCHANGED Loading!vars
  <2>1. UNCHANGED <<v1, v2, v3, v4, v5, v6, v7, v8, v9, v10>>
    BY <1>5 DEF Loading!vars, Loading!loading, Loading!frames
  <2>2. Loading!TypeOK'
    BY <2>1 DEF LoadInv, Loading!TypeOK
  <2>3. Loading!HeaderPassed' /\ Loading!SignalsPassed' /\ Loading!ListsPassed' /\ Loading!Collecting'
    BY <2>1 DEF LoadInv, Loading!LoadPassed, Loading!HeaderPassed, Loading!SignalsPassed,
       Loading!ListsPassed, Loading!ReadAs, Loading!Collecting
  <2>4. Loading!FlashPassed'
    BY <2>1 DEF LoadInv, Loading!LoadPassed, Loading!FlashPassed, Loading!WrittenInto
  <2>5. (v1 \in Loading!LoadedPhases => Loading!Valid)' /\ (v1 = "failed" => ~ Loading!Good)'
    <3>1. (Loading!Good <=> Loading!Good') /\ (Loading!Valid <=> Loading!Valid')
      BY <2>1 DEF Loading!Good, Loading!Complete, Loading!OneToOne, Loading!Valid
    <3> QED BY <2>1, <3>1 DEF LoadInv, Loading!LoadPassed
  <2> QED BY <2>1, <2>2, <2>3, <2>4, <2>5 DEF LoadInv, Loading!LoadPassed
<1> QED BY <1>1, <1>2, <1>3, <1>4, <1>5 DEF Loading!Next

LEMMA CollectedOnceStep ==
  LoadInv /\ Loading!FramesCollectedOnce /\ [Loading!Next]_(Loading!vars)
    => Loading!FramesCollectedOnce'
<1> SUFFICES ASSUME LoadInv, Loading!FramesCollectedOnce, [Loading!Next]_(Loading!vars)
             PROVE  Loading!FramesCollectedOnce'
  OBVIOUS
<1>1. CASE Loading!Load
  <2>1. v1' \notin {"collected", "broken"}
    BY <1>1 DEF Loading!Load, Loading!LookUp, Loading!CheckVersion, Loading!CheckTickDuration,
       Loading!FetchSignals, Loading!WriteFlash, Loading!FlashIsWritten, Loading!Initialize,
       Loading!FetchBuses, Loading!FetchChannels, Loading!Validate, Loading!Fetch, Loading!Fail,
       Loading!Go, Loading!loading
  <2> QED BY <2>1 DEF Loading!FramesCollectedOnce
<1>2. CASE Loading!MakeFrames
  BY <1>2 DEF Loading!MakeFrames, Loading!FramesCollectedOnce
<1>3. CASE Loading!CollectFrames
  BY <1>3, CollectKeeps
<1>4. CASE Loading!CollectionFails
  BY <1>4, CollectionFailsKeeps
<1>5. CASE UNCHANGED Loading!vars
  BY <1>5 DEF Loading!vars, Loading!loading, Loading!frames, Loading!FramesCollectedOnce
<1> QED BY <1>1, <1>2, <1>3, <1>4, <1>5 DEF Loading!Next

LEMMA LoadInvIsWhole ==
  LoadInv => Loading!TypeOK /\ Loading!LoadsTheGood /\ Loading!LoadedIsWhole /\ Loading!InitFindsFlash
<1> SUFFICES ASSUME LoadInv
             PROVE  Loading!LoadsTheGood /\ Loading!LoadedIsWhole /\ Loading!InitFindsFlash
  BY DEF LoadInv
<1>1. Loading!LoadsTheGood
  <2>1. Loading!Loaded => Loading!Good
    BY ValidIsGood DEF Loading!Loaded, Loading!PastChannels, LoadInv, Loading!LoadPassed
  <2> QED BY <2>1 DEF Loading!LoadsTheGood, LoadInv, Loading!LoadPassed
<1>2. Loading!LoadedIsWhole
  <2>1. Loading!CanExports # {} /\ Loading!SharedExports # {}
    BY DEF Loading!CanExports, Loading!SharedExports
  <2> QED BY <2>1 DEF LoadInv, Loading!Loaded, Loading!LoadedIsWhole, Loading!ReadAs, Loading!LoadPassed, Loading!HeaderPassed, Loading!SignalsPassed,
     Loading!FlashPassed, Loading!ListsPassed, Loading!Collecting,
     Loading!LoadedPhases, Loading!PastChannels, Loading!PastBuses, Loading!PastInit,
     Loading!PastFlash, Loading!PastSignals, Loading!PastDuration, Loading!PastVersion,
     Loading!PastSymbols
<1>3. Loading!InitFindsFlash
  BY DEF LoadInv, Loading!InitFindsFlash, Loading!Loaded, Loading!LoadPassed, Loading!HeaderPassed, Loading!SignalsPassed,
     Loading!FlashPassed, Loading!ListsPassed, Loading!Collecting,
     Loading!LoadedPhases, Loading!PastChannels, Loading!PastBuses, Loading!PastInit,
     Loading!PastFlash, Loading!PastSignals, Loading!PastDuration, Loading!PastVersion,
     Loading!PastSymbols
<1> QED BY <1>1, <1>2, <1>3

(* What was loaded is whole: whatever a library exports and answers, error *)
(* statuses and counts beyond the buffer included, and whatever the sizes  *)
(* of the buffers, the load accepts it only if it is good, has read all of *)
(* its lists, wrote its flash before sim_init, and a collection delivers   *)
(* each frame once and in order or, after a wrong answer or a buffer that  *)
(* cannot grow, none (Project::load and can_tx).                           *)
THEOREM LibrariesWhole == Spec => []LibraryWhole
<1> DEFINE Inv == part = "library" => LoadInv /\ Loading!FramesCollectedOnce
<1>1. Init => Inv
  BY LoadInit DEF Init, Loading!Init, Loading!FramesCollectedOnce
<1>2. Inv /\ [Next]_vars => Inv'
  <2>1. ASSUME Inv, [Next]_vars PROVE Inv'
    BY <2>1, PartsMove, LoadStep, CollectedOnceStep
  <2> QED BY <2>1
<1>3. Inv => LibraryWhole
  BY LoadInvIsWhole DEF LibraryWhole
<1> QED BY <1>1, <1>2, <1>3, PTL DEF Spec

-----------------------------------------------------------------------------
(* Recipes.                                                                *)

LEMMA NegatedProduct ==
  ASSUME NEW x \in Int, NEW y \in Int
  PROVE  (- x) * y = - (x * y) /\ (- x) * y \in Int
OBVIOUS

(* How often a positive number goes into another.                          *)
LEMMA Goes ==
  ASSUME NEW a \in Nat, NEW b \in Nat, b > 0, NEW n \in Nat
  PROVE  n <= a \div b <=> b * n <= a
<1> DEFINE q == a \div b
<1>1. q \in Nat /\ b * q <= a /\ a < b * (q + 1)
  OBVIOUS
<1> HIDE DEF q
<1>2. ASSUME n <= q PROVE b * n <= a
  <2>1. b * n <= b * q
    BY <1>1, <1>2
  <2> QED BY <1>1, <2>1
<1>3. ASSUME n > q PROVE b * n > a
  <2>1. n >= q + 1
    BY <1>1, <1>3
  <2>2. b * n >= b * (q + 1)
    BY <1>1, <2>1
  <2>3. b * n \in Int /\ b * (q + 1) \in Int
    BY <1>1
  <2> QED BY <1>1, <2>2, <2>3
<1> QED BY <1>1, <1>2, <1>3 DEF q

(* The loop's count of its iterations is that of the values in its range.  *)
LEMMA CountCoversTheRange ==
  ASSUME NEW s \in Cooking!Loops, s.by # 0, NEW n \in Nat
  PROVE  Cooking!InRange(s, Cooking!LoopValue(s, n))
           <=> ~ Cooking!WrongWay(s) /\ n <= Cooking!MaxSteps(s)
<1> DEFINE d == s.to - s.from
<1>1. s.from \in Int /\ s.to \in Int /\ s.by \in Int
  BY DEF Cooking!Loops
<1>3. Cooking!InRange(s, Cooking!LoopValue(s, n)) <=> (d - s.by * n) * s.by >= 0
  <2>1. s.from + s.by * n - s.from = s.by * n /\ s.to - (s.from + s.by * n) = d - s.by * n
        /\ s.by * n \in Int
    BY <1>1
  <2>2. (s.by * n) * s.by >= 0
    <3>1. (s.by * n) * s.by = n * (s.by * s.by) /\ s.by * s.by \in Nat
      BY <1>1
    <3> QED BY <3>1
  <2> DEFINE v == Cooking!LoopValue(s, n)
  <2>3. v - s.from = s.by * n /\ s.to - v = d - s.by * n
    <3>1. v = s.from + s.by * n
      BY Zenon DEF Cooking!LoopValue
    <3> HIDE DEF v
    <3> QED BY <1>1, <2>1, <3>1
  <2> HIDE DEF v, d
  <2>4. Cooking!InRange(s, v) <=> (v - s.from) * s.by >= 0 /\ (s.to - v) * s.by >= 0
    BY Zenon DEF Cooking!InRange
  <2>5. Cooking!InRange(s, v) <=> (d - s.by * n) * s.by >= 0
    BY <2>2, <2>3, <2>4, Zenon
  <2> QED BY <2>5 DEF v
<1>4. CASE s.by > 0
  <2>1. (d - s.by * n) * s.by >= 0 <=> s.by * n <= d
    <3>1. d - s.by * n \in Int
      BY <1>1
    <3>2. \A x \in Int : x * s.by >= 0 <=> x >= 0
      BY <1>1, <1>4
    <3> QED BY <1>1, <3>1, <3>2
  <2>2. Cooking!WrongWay(s) <=> d < 0
    BY <1>1, <1>4 DEF Cooking!WrongWay
  <2>3. CASE d < 0
    <3>1. s.by * n >= 0
      BY <1>1, <1>4
    <3> QED BY <1>1, <1>3, <2>1, <2>2, <2>3, <3>1
  <2>4. CASE d >= 0
    <3>1. Cooking!MaxSteps(s) = d \div s.by
      BY <1>1, <1>4, <2>4 DEF Cooking!MaxSteps, Cooking!Abs
    <3>2. n <= d \div s.by <=> s.by * n <= d
      BY <1>1, <1>4, <2>4, Goes
    <3> QED BY <1>1, <1>3, <2>1, <2>2, <2>4, <3>1, <3>2
  <2> QED BY <1>1, <2>3, <2>4
<1>5. CASE s.by < 0
  <2> DEFINE b == - s.by
             e == - d
  <2>1. b \in Nat /\ b > 0 /\ e \in Int /\ b * n = - (s.by * n) /\ b * n \in Int
    <3>1. b \in Nat /\ b > 0 /\ e \in Int
      BY <1>1, <1>5
    <3>2. b * n = - (s.by * n) /\ b * n \in Int
      BY <1>1, NegatedProduct
    <3> QED BY <3>1, <3>2
  <2>2. (d - s.by * n) * s.by >= 0 <=> b * n <= e
    <3>1. d - s.by * n \in Int /\ (d - s.by * n <= 0 <=> b * n <= e)
      BY <1>1, <2>1
    <3>2. \A x \in Int : x * s.by >= 0 <=> x <= 0
      BY <1>1, <1>5
    <3> QED BY <3>1, <3>2
  <2>3. Cooking!WrongWay(s) <=> e < 0
    BY <1>1, <1>5 DEF Cooking!WrongWay
  <2>4. CASE e < 0
    <3>1. b * n >= 0
      BY <2>1
    <3> QED BY <1>3, <2>1, <2>2, <2>3, <2>4, <3>1
  <2>5. CASE e >= 0
    <3>1. Cooking!MaxSteps(s) = e \div b
      BY <1>1, <1>5, <2>5 DEF Cooking!MaxSteps, Cooking!Abs
    <3>2. n <= e \div b <=> b * n <= e
      BY <2>1, <2>5, Goes
    <3> QED BY <1>3, <2>1, <2>2, <2>3, <2>5, <3>1, <3>2
  <2> QED BY <2>1, <2>4, <2>5
<1> QED BY <1>1, <1>4, <1>5

LEMMA PushKeeps ==
  ASSUME NEW S, NEW s \in Seq(S), NEW c \in S
  PROVE  <<c>> \o s \in Seq(S)
<1>1. <<c>> \in Seq(S)
  OBVIOUS
<1> QED BY <1>1, ConcatProperties

(* The calls of the compiler are calls, and what it compiles operations.   *)
LEMMA RecipeLimits ==
  /\ Members \in [Envs -> SUBSET Instances] /\ Cooking!None \notin Envs \cup Instances
  /\ Steps \subseteq Cooking!Requests \cup Cooking!Asserts \cup Cooking!Loops
  /\ \A r \in Recipes : r.instance \in Instances /\ r.steps \in Seq(Steps)
  /\ MaxOthers \in Nat
BY CommandsAssumption DEF Cooking!RecipeAssumption

LEMMA CallsAreCalls ==
  /\ \A steps \in Seq(Steps), at \in Cooking!Places : Cooking!Body(steps, at) \in Cooking!Calls
  /\ \A s \in Cooking!Unrollable, n \in Nat, at \in Cooking!Places :
       Cooking!Loop(s, n, at) \in Cooking!Calls
BY DEF Cooking!Body, Cooking!Loop, Cooking!Calls

LEMMA StepsAreKinds ==
  ASSUME NEW s \in Steps
  PROVE  /\ s.at \in Cooking!Places
         /\ s.kind # "iteration"
         /\ s.kind = "for" => s \in Cooking!Loops
         /\ s.kind # "for" => s \in Cooking!Requests \cup Cooking!Asserts
BY RecipeLimits DEF Cooking!Requests, Cooking!Asserts, Cooking!Loops

LEMMA FilledInIsOp ==
  ASSUME NEW s \in Cooking!Requests \cup Cooking!Asserts, NEW at \in Cooking!Places
  PROVE  [s EXCEPT !.at = at] \in Cooking!Ops /\ [s EXCEPT !.at = at].kind = s.kind
<1>1. CASE s \in [kind : {"set"}, at : Cooking!Places, value : Int, scalar : BOOLEAN]
  BY <1>1 DEF Cooking!Requests, Cooking!Ops
<1>2. CASE s \in [kind : {"step"}, at : Cooking!Places, n : Nat]
  BY <1>2 DEF Cooking!Requests, Cooking!Ops
<1>3. CASE s \in [kind : {"speed"}, at : Cooking!Places, speed : Int]
  BY <1>3 DEF Cooking!Requests, Cooking!Ops
<1>4. CASE s \in [kind : {"reset", "print", "sleep"}, at : Cooking!Places]
  BY <1>4 DEF Cooking!Requests, Cooking!Ops
<1>5. CASE s \in Cooking!Asserts
  BY <1>5 DEF Cooking!Asserts, Cooking!Ops
<1> QED BY <1>1, <1>2, <1>3, <1>4, <1>5 DEF Cooking!Requests

LEMMA HeadCall ==
  ASSUME Cooking!TypeOK, v4 # <<>>
  PROVE  /\ Head(v4).at \in Cooking!Places /\ Tail(v4) \in Seq(Cooking!Calls)
         /\ Head(v4).call = "steps" => Head(v4).steps \in Seq(Steps)
         /\ Head(v4).call = "loop" => Head(v4).loop \in Cooking!Unrollable /\ Head(v4).n \in Nat
         /\ Head(v4).call \in {"steps", "loop"}
<1>1. Head(v4) \in Cooking!Calls /\ Tail(v4) \in Seq(Cooking!Calls)
  BY HeadTailProperties DEF Cooking!TypeOK
<1> QED BY <1>1 DEF Cooking!Calls

(* What is compiled, and what is left to compile.                          *)
Compiled == v4 \in Seq(Cooking!Calls) /\ v5 \in Seq(Cooking!Ops) /\ Cooking!IterationsInRange

LEMMA AppendKeeps ==
  ASSUME NEW S, NEW s \in Seq(S), NEW c \in S, NEW r, r = Append(s, c)
  PROVE  /\ r \in Seq(S) /\ Len(r) = Len(s) + 1 /\ Len(s) \in Nat
         /\ r[Len(s) + 1] = c
         /\ \A j \in 1 .. Len(s) : r[j] = s[j]
BY AppendProperties, LenProperties

LEMMA ConcatKeeps ==
  ASSUME NEW S, NEW s \in Seq(S), NEW t \in Seq(S), NEW r, r = s \o t
  PROVE  /\ r \in Seq(S) /\ Len(r) = Len(s) + Len(t)
         /\ Len(s) \in Nat /\ Len(t) \in Nat
         /\ \A j \in 1 .. Len(s) : r[j] = s[j]
         /\ \A j \in 1 .. Len(t) : r[Len(s) + j] = t[j]
BY ConcatProperties, LenProperties

(* An operation that is no iteration may follow any others.                *)
LEMMA OpsGrow ==
  ASSUME Cooking!IterationsInRange, v5 \in Seq(Cooking!Ops), Len(v5) \in Nat,
         v5' \in Seq(Cooking!Ops), Len(v5') = Len(v5) + 1,
         v5'[Len(v5) + 1].kind # "iteration",
         \A j \in 1 .. Len(v5) : v5'[j] = v5[j]
  PROVE  Cooking!IterationsInRange'
<1> SUFFICES ASSUME NEW j \in DOMAIN v5', v5'[j].kind = "iteration"
             PROVE  /\ j < Len(v5') /\ v5'[j + 1] = Cooking!SetTo(v5'[j].value, v5'[j + 1].at)
                    /\ \E t \in Cooking!Unrollable : Cooking!IterationOf(t, v5'[j].value)
  BY DEF Cooking!IterationsInRange
<1>1. j \in 1 .. Len(v5)
  BY LenProperties
<1>2. v5'[j] = v5[j] /\ j \in DOMAIN v5
  BY <1>1, LenProperties
<1>3. /\ j < Len(v5) /\ v5[j + 1] = Cooking!SetTo(v5[j].value, v5[j + 1].at)
      /\ \E t \in Cooking!Unrollable : Cooking!IterationOf(t, v5[j].value)
  BY <1>2, Zenon DEF Cooking!IterationsInRange
<1>4. v5'[j + 1] = v5[j + 1] /\ j < Len(v5')
  BY <1>1, <1>3
<1> QED BY <1>2, <1>3, <1>4, Zenon

LEMMA CompileStepKeeps ==
  ASSUME Cooking!TypeOK, Compiled, Cooking!CompileStep
  PROVE  Compiled' /\ Len(v5') >= Len(v5) /\ v3' \in {"compile", "failed"}
<1> DEFINE call == Head(v4)
           s == Head(call.steps)
           at == Cooking!Target(s.at, call.at)
           rest == <<Cooking!Body(Tail(call.steps), call.at)>> \o Tail(v4)
           loop == <<Cooking!Loop(s, 0, at)>> \o rest
           op == [s EXCEPT !.at = at]
<1>1. /\ v3 = "compile" /\ v4 # <<>> /\ call.call = "steps" /\ call.steps # <<>>
      /\ v4 \in Seq(Cooking!Calls) /\ v5 \in Seq(Cooking!Ops)
  BY DEF Cooking!CompileStep, Cooking!Compiling, Cooking!TypeOK
<1>2. call.at \in Cooking!Places /\ Tail(v4) \in Seq(Cooking!Calls) /\ call.steps \in Seq(Steps)
  BY <1>1, HeadCall
<1>3. s \in Steps /\ Tail(call.steps) \in Seq(Steps)
  BY <1>1, <1>2, HeadTailProperties
<1>4. at \in Cooking!Places
  BY <1>2, <1>3, StepsAreKinds DEF Cooking!Target
<1>5. rest \in Seq(Cooking!Calls)
  BY <1>2, <1>3, CallsAreCalls, PushKeeps
<1>6. s \in Cooking!Unrollable => loop \in Seq(Cooking!Calls)
  <2>1. s \in Cooking!Unrollable => Cooking!Loop(s, 0, at) \in Cooking!Calls
    BY <1>4, CallsAreCalls
  <2> HIDE DEF rest
  <2> QED BY <1>5, <2>1, PushKeeps
<1>7. s.kind # "for" => op \in Cooking!Ops /\ op.kind # "iteration"
  BY <1>3, <1>4, StepsAreKinds, FilledInIsOp
<1>8. \/ /\ Cooking!Compiles(s) /\ s.kind = "for"
         /\ v4' = IF Cooking!WrongWay(s) THEN rest ELSE loop
         /\ UNCHANGED <<v3, v5>>
      \/ /\ Cooking!Compiles(s) /\ s.kind # "for"
         /\ v4' = rest
         /\ v5' = Append(v5, op)
         /\ UNCHANGED v3
      \/ ~ Cooking!Compiles(s) /\ v3' = "failed" /\ UNCHANGED <<v4, v5>>
  BY Zenon DEF Cooking!CompileStep
<1>9. Cooking!Compiles(s) /\ s.kind = "for" /\ ~ Cooking!WrongWay(s) => s \in Cooking!Unrollable
  BY <1>3 DEF Cooking!Compiles, Cooking!Unrollable
<1> HIDE DEF call, s, at, rest, loop, op
<1>10. /\ v4' = v4 \/ v4' = rest \/ (s \in Cooking!Unrollable /\ v4' = loop)
       /\ v5' = v5 \/ (s.kind # "for" /\ v5' = Append(v5, op))
       /\ v3' = v3 \/ v3' = "failed"
  BY <1>8, <1>9
<1>11. v4' \in Seq(Cooking!Calls) /\ v3' \in {"compile", "failed"}
  BY <1>1, <1>5, <1>6, <1>10, Zenon
<1>12. CASE v5' = v5
  <2>1. Cooking!IterationsInRange' /\ Len(v5') = Len(v5)
    BY <1>12 DEF Compiled, Cooking!IterationsInRange
  <2>2. Len(v5) >= Len(v5)
    BY <1>1, LenProperties
  <2> QED BY <1>1, <1>11, <1>12, <2>1, <2>2, Zenon DEF Compiled
<1>13. CASE s.kind # "for" /\ v5' = Append(v5, op)
  <2>1. /\ v5' \in Seq(Cooking!Ops) /\ Len(v5') = Len(v5) + 1 /\ Len(v5) \in Nat
        /\ v5'[Len(v5) + 1] = op /\ \A j \in 1 .. Len(v5) : v5'[j] = v5[j]
    <3>1. v5' = Append(v5, op) /\ op \in Cooking!Ops /\ v5 \in Seq(Cooking!Ops)
      BY <1>1, <1>7, <1>13
    <3> HIDE DEF Cooking!Ops
    <3> QED BY <3>1, AppendKeeps
  <2>2. v5'[Len(v5) + 1].kind # "iteration"
    BY <1>7, <1>13, <2>1
  <2>3. Cooking!IterationsInRange'
    BY <1>1, <2>1, <2>2, OpsGrow, Zenon DEF Compiled
  <2>4. Len(v5') >= Len(v5)
    BY <2>1
  <2>5. Compiled'
    BY <1>11, <2>1, <2>3, Zenon DEF Compiled
  <2> QED BY <1>11, <2>4, <2>5, Zenon
<1> QED BY <1>10, <1>12, <1>13, Zenon

LEMMA CompileIterationKeeps ==
  ASSUME Cooking!TypeOK, Compiled, Cooking!CompileIteration
  PROVE  Compiled' /\ Len(v5') >= Len(v5)
<1> DEFINE call == Head(v4)
           s == call.loop
           v == Cooking!LoopValue(s, call.n)
           set == Cooking!SetTo(v, call.at)
           two == <<Cooking!Iteration(v), set>>
           body == Cooking!Body(s.each, call.at)
           next == Cooking!Loop(s, call.n + 1, call.at)
<1>1. v4 # <<>> /\ call.call = "loop" /\ v5 \in Seq(Cooking!Ops) /\ call.n <= Cooking!MaxSteps(s)
  BY DEF Cooking!CompileIteration, Cooking!Compiling, Cooking!TypeOK
<1>2. /\ call.at \in Cooking!Places /\ Tail(v4) \in Seq(Cooking!Calls)
      /\ s \in Cooking!Unrollable /\ call.n \in Nat
  BY <1>1, HeadCall
<1>3. s \in Cooking!Loops /\ s \in Steps /\ s.by # 0 /\ ~ Cooking!WrongWay(s)
  BY <1>2, StepsAreKinds DEF Cooking!Unrollable
<1>4. s.from \in Int /\ s.by \in Int /\ s.each \in Seq(Steps) /\ call.n \in Int /\ call.n + 1 \in Nat
  BY <1>2, <1>3 DEF Cooking!Loops
<1>5. v \in Int
  BY <1>4 DEF Cooking!LoopValue
<1>6. Cooking!IterationOf(s, v)
  <2>1. Cooking!InRange(s, v)
    BY <1>1, <1>2, <1>3, CountCoversTheRange
  <2>2. v = s.from + s.by * call.n
    BY Zenon DEF Cooking!LoopValue
  <2>3. call.n \in 0 .. Cooking!MaxSteps(s)
    <3>1. Cooking!MaxSteps(s) \in Int
      BY <1>3 DEF Cooking!MaxSteps, Cooking!Abs, Cooking!Loops
    <3> QED BY <1>1, <1>2, <3>1
  <2> QED BY <2>1, <2>2, <2>3, Zenon DEF Cooking!IterationOf
<1>7. body \in Cooking!Calls /\ next \in Cooking!Calls
  BY <1>2, <1>4, CallsAreCalls
<1>8. v5' = v5 \o two /\ v4' = <<body, next>> \o Tail(v4)
  BY Zenon DEF Cooking!CompileIteration
<1> HIDE DEF body, next, call, s, v
<1>9. Cooking!Iteration(v) \in Cooking!Ops /\ set \in Cooking!Ops
  <2>1. Cooking!Iteration(v) \in [kind : {"iteration"}, at : {Cooking!None}, value : Int]
    BY <1>5 DEF Cooking!Iteration
  <2>2. set \in [kind : {"set"}, at : Cooking!Places, value : Int, scalar : BOOLEAN]
    BY <1>2, <1>5 DEF Cooking!SetTo
  <2> QED BY <2>1, <2>2, Zenon DEF Cooking!Ops, Cooking!Requests
<1>10. v4' \in Seq(Cooking!Calls)
  <2>1. <<body, next>> \in Seq(Cooking!Calls)
    BY <1>7
  <2> QED BY <1>2, <1>8, <2>1, ConcatProperties
<1>11. /\ v5' \in Seq(Cooking!Ops) /\ Len(v5') = Len(v5) + 2 /\ Len(v5) \in Nat
       /\ v5'[Len(v5) + 1] = Cooking!Iteration(v) /\ v5'[Len(v5) + 2] = set
       /\ \A j \in 1 .. Len(v5) : v5'[j] = v5[j]
  <2> HIDE DEF set
  <2>1. two \in Seq(Cooking!Ops) /\ Len(two) = 2 /\ two[1] = Cooking!Iteration(v) /\ two[2] = set
    BY <1>9
  <2> HIDE DEF two
  <2>2. /\ v5' \in Seq(Cooking!Ops) /\ Len(v5') = Len(v5) + Len(two) /\ Len(v5) \in Nat
        /\ \A j \in 1 .. Len(v5) : v5'[j] = v5[j]
        /\ \A j \in 1 .. Len(two) : v5'[Len(v5) + j] = two[j]
    <3>1. v5' = v5 \o two
      BY <1>8, Zenon
    <3>2. v5 \in Seq(Cooking!Ops) /\ two \in Seq(Cooking!Ops)
      BY <1>1, <2>1
    <3> HIDE DEF Cooking!Ops
    <3> QED BY <3>1, <3>2, ConcatKeeps
  <2> QED BY <2>1, <2>2
<1>12. Cooking!IterationsInRange'
  <2> HIDE DEF two
  <2>1. /\ Cooking!Iteration(v).kind = "iteration" /\ Cooking!Iteration(v).value = v
        /\ set = Cooking!SetTo(v, set.at) /\ set.kind = "set"
    BY DEF Cooking!Iteration, Cooking!SetTo
  <2> HIDE DEF set
  <2> SUFFICES ASSUME NEW j \in DOMAIN v5', v5'[j].kind = "iteration"
               PROVE  /\ j < Len(v5') /\ v5'[j + 1] = Cooking!SetTo(v5'[j].value, v5'[j + 1].at)
                      /\ \E t \in Cooking!Unrollable : Cooking!IterationOf(t, v5'[j].value)
    BY DEF Cooking!IterationsInRange
  <2>2. j \in 1 .. Len(v5) + 2
    BY <1>11, LenProperties
  <2>3. CASE j \in 1 .. Len(v5)
    <3>1. v5'[j] = v5[j] /\ j \in DOMAIN v5
      BY <1>1, <1>11, <2>3, LenProperties
    <3>2. /\ j < Len(v5) /\ v5[j + 1] = Cooking!SetTo(v5[j].value, v5[j + 1].at)
          /\ \E t \in Cooking!Unrollable : Cooking!IterationOf(t, v5[j].value)
      BY <3>1, Zenon DEF Compiled, Cooking!IterationsInRange
    <3>3. v5'[j + 1] = v5[j + 1] /\ j < Len(v5')
      BY <1>11, <2>3, <3>2
    <3> QED BY <3>1, <3>2, <3>3, Zenon
  <2>4. CASE j = Len(v5) + 1
    <3>1. v5'[j] = Cooking!Iteration(v) /\ v5'[j + 1] = set /\ j < Len(v5')
      BY <1>11, <2>4
    <3> QED BY <1>2, <1>6, <2>1, <3>1, Zenon
  <2>5. CASE j = Len(v5) + 2
    BY <1>11, <2>1, <2>5
  <2> QED BY <1>11, <2>2, <2>3, <2>4, <2>5
<1>13. Len(v5') >= Len(v5)
  BY <1>11
<1> QED BY <1>10, <1>11, <1>12, <1>13 DEF Compiled

LEMMA FreshState ==
  ASSUME NEW e \in Envs \cup {Cooking!None}
  PROVE  /\ Cooking!Fresh(e) \in Cooking!InstanceStates
         /\ Cooking!Fresh(e).up /\ Cooking!Fresh(e).env = e /\ Cooking!Fresh(e).ticks = 0
<1>1. Cooking!Down \in Cooking!InstanceStates
  BY DEF Cooking!Down, Cooking!InstanceStates
<1>2. \A s \in Cooking!InstanceStates :
        [s EXCEPT !.up = TRUE, !.env = e] \in Cooking!InstanceStates
  BY DEF Cooking!InstanceStates
<1>3. Cooking!Fresh(e) \in Cooking!InstanceStates
  BY <1>1, <1>2, Zenon DEF Cooking!Fresh
<1>4. Cooking!Fresh(e).up /\ Cooking!Fresh(e).env = e /\ Cooking!Fresh(e).ticks = 0
  BY DEF Cooking!Fresh, Cooking!Down
<1> QED BY <1>3, <1>4

RecipeInv ==
  Cooking!TypeOK /\ Compiled /\ Cooking!EnvsHoldMembers /\ Cooking!LockstepKept

LEMMA DaemonsAre ==
  /\ Cooking!Gone \in Cooking!DaemonStates /\ Cooking!Started \in Cooking!DaemonStates
  /\ Cooking!Gone.ticks = 0 /\ Cooking!Gone.failed = 0
  /\ Cooking!Started.ticks = 0 /\ Cooking!Started.failed = 0
BY DEF Cooking!Gone, Cooking!Started, Cooking!DaemonStates

LEMMA RecipeInit == Cooking!Init => RecipeInv
<1> SUFFICES ASSUME Cooking!Init PROVE RecipeInv
  OBVIOUS
<1>1. PICK up \in SUBSET Envs :
        /\ \A e, f \in up : e = f \/ Members[e] \cap Members[f] = {}
        /\ v9 = [e \in Envs |-> IF e \in up THEN Cooking!Started ELSE Cooking!Gone]
        /\ \E alone \in SUBSET (Instances \ UNION {Members[e] : e \in up}) :
             v8 = [i \in Instances |->
               IF i \in alone THEN Cooking!Fresh(Cooking!None)
               ELSE IF \E e \in up : i \in Members[e]
               THEN Cooking!Fresh(CHOOSE e \in up : i \in Members[e]) ELSE Cooking!Down]
  BY DEF Cooking!Init
<1>2. ASSUME NEW i \in Instances
      PROVE  \/ v8[i] = Cooking!Down
             \/ v8[i] = Cooking!Fresh(Cooking!None)
             \/ \E e \in Envs : i \in Members[e] /\ v8[i] = Cooking!Fresh(e)
  <2>1. (\E e \in up : i \in Members[e]) => (CHOOSE e \in up : i \in Members[e]) \in up
                                            /\ i \in Members[CHOOSE e \in up : i \in Members[e]]
    OBVIOUS
  <2> QED BY <1>1, <2>1
<1>3. \A e \in Envs \cup {Cooking!None} :
        /\ Cooking!Fresh(e) \in Cooking!InstanceStates
        /\ Cooking!Fresh(e).up /\ Cooking!Fresh(e).env = e /\ Cooking!Fresh(e).ticks = 0
  BY FreshState
<1>4. /\ Cooking!Down \in Cooking!InstanceStates
      /\ ~ Cooking!Down.up /\ Cooking!Down.env = Cooking!None /\ Cooking!Down.ticks = 0
  BY DEF Cooking!Down, Cooking!InstanceStates
<1>5. \A i \in Instances : /\ v8[i] \in Cooking!InstanceStates /\ v8[i].ticks = 0
                           /\ ~ v8[i].up => v8[i] = Cooking!Down
                           /\ v8[i].env # Cooking!None => i \in Members[v8[i].env]
  BY <1>2, <1>3, <1>4
<1>6. Cooking!TypeOK
  <2>1. v8 \in [Instances -> Cooking!InstanceStates]
    BY <1>1, <1>5
  <2>2. v9 \in [Envs -> Cooking!DaemonStates]
    BY <1>1, DaemonsAre
  <2>3. /\ v4 \in Seq(Cooking!Calls) /\ v5 \in Seq(Cooking!Ops) /\ v6 \in 1 .. Len(v5) + 1
        /\ v10 \in 0 .. MaxOthers /\ v7 \in [Instances -> Envs \cup {Cooking!None}]
        /\ v1 \in Recipes /\ v3 = "list"
    <3>1. /\ v4 = <<>> /\ v5 = <<>> /\ v6 = 1 /\ v10 = 0
          /\ v7 = [i \in Instances |-> Cooking!None]
          /\ v1 \in Recipes /\ v3 = "list"
      BY DEF Cooking!Init
    <3> QED BY <3>1, RecipeLimits
  <2>4. /\ v3 \in {"list", "compile", "envs", "run", "done", "failed"}
        /\ \A i \in Instances : ~ v8[i].up => v8[i] = Cooking!Down
    BY <1>5, <2>3
  <2>5. v2 \in {TRUE, FALSE}
    BY Zenon DEF Cooking!Init
  <2> QED BY <2>1, <2>2, <2>3, <2>4, <2>5 DEF Cooking!TypeOK
<1>7. Cooking!EnvsHoldMembers
  BY <1>5 DEF Cooking!EnvsHoldMembers, Cooking!Init
<1>8. Cooking!LockstepKept
  <2>1. \A e \in Envs : v9[e].ticks = 0 /\ v9[e].failed = 0
    BY <1>1, DaemonsAre
  <2>2. \A e \in Envs : Cooking!MembersUp(e) \subseteq Instances
    BY DEF Cooking!MembersUp
  <2> QED BY <1>5, <2>1, <2>2 DEF Cooking!LockstepKept
<1>9. Compiled
  <2>1. v4 \in Seq(Cooking!Calls) /\ v5 = <<>>
    BY <1>6 DEF Cooking!Init, Cooking!TypeOK
  <2> QED BY <1>6, <2>1 DEF Compiled, Cooking!TypeOK, Cooking!IterationsInRange
<1> QED BY <1>6, <1>7, <1>8, <1>9 DEF RecipeInv

LEMMA CompiledStays ==
  ASSUME Compiled, v4' \in Seq(Cooking!Calls), UNCHANGED v5
  PROVE  Compiled'
BY DEF Compiled, Cooking!IterationsInRange

(* The steps before the first request send nothing.                        *)
LEMMA PrepareKeeps ==
  ASSUME RecipeInv,
         \/ Cooking!CheckInstances \/ Cooking!CompileStep \/ Cooking!CompileIteration
         \/ Cooking!CompileReturn \/ Cooking!LoadEnvs
  PROVE  RecipeInv' /\ UNCHANGED <<v8, v9>>
<1> USE DEF RecipeInv
<1>1. UNCHANGED <<v1, v2, v6, v8, v9, v10>>
  BY DEF Cooking!CheckInstances, Cooking!CompileStep, Cooking!CompileIteration,
     Cooking!CompileReturn, Cooking!LoadEnvs, Cooking!World
<1>2. /\ v4 \in Seq(Cooking!Calls) /\ v5 \in Seq(Cooking!Ops) /\ v6 \in 1 .. Len(v5) + 1
      /\ Len(v5) \in Nat
  BY LenProperties DEF Cooking!TypeOK
<1>3. /\ Compiled' /\ Len(v5') >= Len(v5)
      /\ v3' \in {"list", "compile", "envs", "run", "done", "failed"}
      /\ v7' \in [Instances -> Envs \cup {Cooking!None}]
      /\ \A i \in Instances : v7'[i] = v7[i] \/ v7'[i] = v8[i].env
  <2>1. CASE Cooking!CheckInstances
    <3>1. v1.steps \in Seq(Steps) /\ Cooking!None \in Cooking!Places
      BY RecipeLimits DEF Cooking!TypeOK, Cooking!Places
    <3>2. <<Cooking!Body(v1.steps, Cooking!None)>> \in Seq(Cooking!Calls)
      <4>1. Cooking!Body(v1.steps, Cooking!None) \in Cooking!Calls
        BY <3>1, CallsAreCalls
      <4> QED BY <4>1
    <3>3. v4' = v4 \/ v4' = <<Cooking!Body(v1.steps, Cooking!None)>>
      BY <2>1 DEF Cooking!CheckInstances
    <3>4. v3' \in {"compile", "failed"} /\ UNCHANGED <<v5, v7>>
      BY <2>1 DEF Cooking!CheckInstances
    <3>5. v4' \in Seq(Cooking!Calls)
      BY <1>2, <3>2, <3>3, Zenon
    <3>6. Compiled'
      BY <3>4, <3>5, CompiledStays
    <3> QED BY <1>2, <3>4, <3>6 DEF Cooking!TypeOK
  <2>2. CASE Cooking!CompileStep
    <3>1. UNCHANGED v7
      BY <2>2 DEF Cooking!CompileStep
    <3> QED BY <2>2, <3>1, CompileStepKeeps DEF Cooking!TypeOK
  <2>3. CASE Cooking!CompileIteration
    <3>1. UNCHANGED <<v3, v7>>
      BY <2>3 DEF Cooking!CompileIteration
    <3> QED BY <2>3, <3>1, CompileIterationKeeps DEF Cooking!TypeOK
  <2>4. CASE Cooking!CompileReturn
    <3>1. v4 # <<>> /\ v4' = Tail(v4) /\ v3' \in {v3, "envs"} /\ UNCHANGED <<v5, v7>>
      BY <2>4 DEF Cooking!CompileReturn, Cooking!Compiling
    <3>2. v4' \in Seq(Cooking!Calls)
      BY <3>1, HeadCall
    <3>3. Compiled'
      BY <3>1, <3>2, CompiledStays
    <3> QED BY <1>2, <3>1, <3>3 DEF Cooking!TypeOK
  <2>5. CASE Cooking!LoadEnvs
    <3>1. /\ v3' \in {"run", "failed"} /\ UNCHANGED <<v4, v5>>
          /\ v7' = v7 \/ v7' = [i \in Instances |-> v8[i].env]
      BY <2>5 DEF Cooking!LoadEnvs
    <3>2. \A i \in Instances : v8[i].env \in Envs \cup {Cooking!None}
      BY DEF Cooking!TypeOK, Cooking!InstanceStates
    <3>3. Compiled'
      BY <1>2, <3>1, CompiledStays
    <3> QED BY <1>2, <3>1, <3>2, <3>3 DEF Cooking!TypeOK
  <2> QED BY <2>1, <2>2, <2>3, <2>4, <2>5
<1>4. Cooking!TypeOK'
  <2>1. v4' \in Seq(Cooking!Calls) /\ v5' \in Seq(Cooking!Ops) /\ Len(v5') \in Nat
    BY <1>3, LenProperties DEF Compiled
  <2>2. v6' \in 1 .. Len(v5') + 1
    BY <1>1, <1>2, <1>3, <2>1
  <2> QED BY <1>1, <1>3, <2>1, <2>2 DEF Cooking!TypeOK
<1>5. Cooking!EnvsHoldMembers' /\ Cooking!LockstepKept'
  BY <1>1, <1>3 DEF Cooking!EnvsHoldMembers, Cooking!LockstepKept, Cooking!MembersUp
<1> QED BY <1>1, <1>3, <1>4, <1>5

(* A request goes to an instance, with what its kind says.                 *)
LEMMA OpIsForAnInstance ==
  ASSUME RecipeInv, Cooking!Running
  PROVE  /\ Cooking!Op \in Cooking!Ops /\ Cooking!Here \in Instances
         /\ Cooking!Op.kind = "step" => Cooking!Op.n \in Nat
         /\ Cooking!Op.kind = "set" => Cooking!Op.value \in Int
         /\ Cooking!Op.kind = "speed" => Cooking!Op.speed \in Int
         /\ v8[Cooking!Here] \in Cooking!InstanceStates
<1>1. Cooking!Op \in Cooking!Ops
  <2>1. v5 \in Seq(Cooking!Ops) /\ v6 \in 1 .. Len(v5)
    BY LenProperties DEF RecipeInv, Cooking!TypeOK, Cooking!Running
  <2> QED BY <2>1, ElementOfSeq DEF Cooking!Op
<1>2. Cooking!Op.at \in Cooking!Places /\ v1.instance \in Instances
  BY <1>1, RecipeLimits
     DEF RecipeInv, Cooking!TypeOK, Cooking!Ops, Cooking!Requests, Cooking!Asserts, Cooking!Places
<1>3. Cooking!Here \in Instances
  BY <1>2 DEF Cooking!Here, Cooking!Target, Cooking!Places
<1>4. v8[Cooking!Here] \in Cooking!InstanceStates
  BY <1>3 DEF RecipeInv, Cooking!TypeOK
<1> QED
  BY <1>1, <1>3, <1>4 DEF Cooking!Ops, Cooking!Requests, Cooking!Asserts

(* The steps that leave the recipe as it is compiled, and may change what  *)
(* runs.                                                                   *)
Onwards ==
  /\ UNCHANGED <<v1, v2, v4, v5, v7>>
  /\ v3' \in {"list", "compile", "envs", "run", "done", "failed"}
  /\ v6' \in 1 .. Len(v5) + 1
  /\ v10' \in 0 .. MaxOthers
  /\ v9' \in [Envs -> Cooking!DaemonStates]

LEMMA AnsweredIsOnwards ==
  ASSUME RecipeInv, Cooking!Running, Cooking!Proceed \/ Cooking!Fail,
         v9' \in [Envs -> Cooking!DaemonStates]
  PROVE  Onwards
<1>1. v6 \in 1 .. Len(v5) /\ Len(v5) \in Nat
  BY LenProperties DEF RecipeInv, Cooking!TypeOK, Cooking!Running
<1>2. /\ UNCHANGED <<v1, v2, v4, v5, v7, v10>>
      /\ (v6' = v6 + 1 /\ v3' = v3) \/ (v6' = v6 /\ v3' = "failed")
  BY DEF Cooking!Proceed, Cooking!Fail
<1>3. v6' \in 1 .. Len(v5) + 1
  BY <1>1, <1>2
<1> QED BY <1>2, <1>3 DEF Onwards, RecipeInv, Cooking!TypeOK

LEMMA OnwardsKeeps ==
  ASSUME RecipeInv, Onwards,
         v8' \in [Instances -> Cooking!InstanceStates],
         \A i \in Instances : ~ v8'[i].up => v8'[i] = Cooking!Down,
         \A i \in Instances : v8'[i].env # Cooking!None => i \in Members[v8'[i].env],
         Cooking!LockstepKept'
  PROVE  RecipeInv'
<1>1. Cooking!TypeOK'
  <2>1. v1' \in Recipes /\ v4' \in Seq(Cooking!Calls) /\ v5' \in Seq(Cooking!Ops)
        /\ v7' \in [Instances -> Envs \cup {Cooking!None}] /\ v5' = v5
    BY DEF RecipeInv, Cooking!TypeOK, Onwards
  <2>2. v2' \in BOOLEAN
    BY Zenon DEF RecipeInv, Cooking!TypeOK, Onwards
  <2> QED BY <2>1, <2>2 DEF Onwards, Cooking!TypeOK
<1>2. Cooking!EnvsHoldMembers'
  BY DEF RecipeInv, Onwards, Cooking!EnvsHoldMembers
<1>3. Compiled'
  BY <1>1, CompiledStays DEF RecipeInv, Onwards, Cooking!TypeOK
<1> QED BY <1>1, <1>2, <1>3 DEF RecipeInv

LEMMA InstancesAre ==
  ASSUME RecipeInv
  PROVE  /\ v8 \in [Instances -> Cooking!InstanceStates]
         /\ \A i \in Instances : /\ v8[i] \in Cooking!InstanceStates
                                 /\ v8[i].up \in BOOLEAN /\ v8[i].ticks \in Nat
                                 /\ v8[i].env \in Envs \cup {Cooking!None}
                                 /\ ~ v8[i].up => v8[i] = Cooking!Down
                                 /\ v8[i].env # Cooking!None => i \in Members[v8[i].env]
         /\ \A e \in Envs : Members[e] \subseteq Instances /\ e # Cooking!None
BY RecipeLimits DEF RecipeInv, Cooking!TypeOK, Cooking!EnvsHoldMembers, Cooking!InstanceStates

LEMMA EnvsAre ==
  ASSUME RecipeInv
  PROVE  /\ v9 \in [Envs -> Cooking!DaemonStates]
         /\ \A e \in Envs : /\ v9[e].ticks \in Nat /\ v9[e].failed \in Nat
                           /\ v9[e].state \in {"gone", "paused", "running"}
                           /\ v9[e].closing \in BOOLEAN
BY DEF RecipeInv, Cooking!TypeOK, Cooking!DaemonStates

(* An instance keeps its distance from its env's clock as long as neither  *)
(* of them moves.                                                          *)
SameTime(e) == v9'[e].ticks = v9[e].ticks /\ v9'[e].failed = v9[e].failed

Apart(i, e) ==
  /\ v9[e].ticks <= v8[i].ticks
  /\ v8[i].ticks <= v9[e].ticks + v9[e].failed

LEMMA LockstepStays ==
  ASSUME RecipeInv,
         \A e \in Envs, i \in Instances : v8'[i].up /\ v8'[i].env = e =>
           \/ SameTime(e) /\ v8[i].up /\ v8[i].env = e /\ v8'[i].ticks = v8[i].ticks
           \/ Apart(i, e)'
  PROVE  Cooking!LockstepKept'
<1> SUFFICES ASSUME NEW e \in Envs, NEW i \in Instances, v8'[i].up /\ v8'[i].env = e
             PROVE  Apart(i, e)'
  BY DEF Cooking!LockstepKept, Cooking!MembersUp, Apart
<1>1. CASE SameTime(e) /\ v8[i].up /\ v8[i].env = e /\ v8'[i].ticks = v8[i].ticks
  <2>1. v9[e].ticks <= v8[i].ticks /\ v8[i].ticks <= v9[e].ticks + v9[e].failed
    BY <1>1 DEF RecipeInv, Cooking!LockstepKept, Cooking!MembersUp
  <2> QED BY <1>1, <2>1, Zenon DEF Apart, SameTime
<1> QED BY <1>1

LEMMA StandingKeeps ==
  ASSUME RecipeInv, Onwards, UNCHANGED v8, \A e \in Envs : SameTime(e)
  PROVE  RecipeInv'
<1>1. Cooking!LockstepKept'
  BY LockstepStays
<1> QED BY <1>1, InstancesAre, OnwardsKeeps

(* What becomes of one instance, which stays where it is and only moves by *)
(* itself when it is in no env.                                            *)
LEMMA RequestKeeps ==
  ASSUME RecipeInv, Onwards, UNCHANGED v9, NEW h \in Instances, v8[h].up,
         NEW after \in Cooking!InstanceStates, after.up, after.env = v8[h].env,
         after.ticks = v8[h].ticks \/ v8[h].env = Cooking!None,
         v8' = [v8 EXCEPT ![h] = after]
  PROVE  RecipeInv'
<1>1. /\ v8' \in [Instances -> Cooking!InstanceStates]
      /\ v8'[h] = after /\ \A i \in Instances : i # h => v8'[i] = v8[i]
  BY InstancesAre
<1>2. \A i \in Instances : v8'[i].up = v8[i].up /\ v8'[i].env = v8[i].env
  <2>1. v8[h].up = TRUE /\ after.up = TRUE
    BY InstancesAre, Zenon DEF Cooking!InstanceStates
  <2> QED BY <1>1, <2>1
<1>3. Cooking!LockstepKept'
  <2>1. \A e \in Envs : SameTime(e) /\ e # Cooking!None
    BY InstancesAre DEF SameTime
  <2>2. \A i \in Instances : v8[i].env # Cooking!None => v8'[i].ticks = v8[i].ticks
    BY <1>1
  <2> QED BY <1>2, <2>1, <2>2, LockstepStays
<1>4. \A i \in Instances : ~ v8'[i].up => v8'[i] = Cooking!Down
  BY <1>1, <1>2, InstancesAre
<1>5. \A i \in Instances : v8'[i].env # Cooking!None => i \in Members[v8'[i].env]
  BY <1>2, InstancesAre
<1> QED BY <1>1, <1>3, <1>4, <1>5, OnwardsKeeps

(* An instance that is reset, or runs on.                                  *)
LEMMA InstanceBecomes ==
  \A s \in Cooking!InstanceStates :
    /\ LET after == [s EXCEPT !.value = 0, !.clock = 0]
       IN /\ after \in Cooking!InstanceStates
          /\ after.up = s.up /\ after.env = s.env /\ after.ticks = s.ticks
    /\ \A n \in Nat :
         LET after == [s EXCEPT !.ticks = s.ticks + n, !.clock = s.clock + n]
         IN /\ after \in Cooking!InstanceStates
            /\ after.up = s.up /\ after.env = s.env /\ after.ticks = s.ticks + n
<1> SUFFICES ASSUME NEW s \in Cooking!InstanceStates PROVE
    /\ LET after == [s EXCEPT !.value = 0, !.clock = 0]
       IN /\ after \in Cooking!InstanceStates
          /\ after.up = s.up /\ after.env = s.env /\ after.ticks = s.ticks
    /\ \A n \in Nat :
         LET after == [s EXCEPT !.ticks = s.ticks + n, !.clock = s.clock + n]
         IN /\ after \in Cooking!InstanceStates
            /\ after.up = s.up /\ after.env = s.env /\ after.ticks = s.ticks + n
  OBVIOUS
<1>1. \A a \in Int, b \in Nat : [s EXCEPT !.value = a, !.clock = b] \in Cooking!InstanceStates
  BY DEF Cooking!InstanceStates
<1>2. \A a, b \in Nat : [s EXCEPT !.ticks = a, !.clock = b] \in Cooking!InstanceStates
  BY DEF Cooking!InstanceStates
<1>3. 0 \in Int /\ 0 \in Nat /\ \A n \in Nat : s.ticks + n \in Nat /\ s.clock + n \in Nat
  BY DEF Cooking!InstanceStates
<1>4. \A a, b :
        /\ [s EXCEPT !.value = a, !.clock = b].up = s.up
        /\ [s EXCEPT !.value = a, !.clock = b].env = s.env
        /\ [s EXCEPT !.value = a, !.clock = b].ticks = s.ticks
        /\ [s EXCEPT !.ticks = a, !.clock = b].up = s.up
        /\ [s EXCEPT !.ticks = a, !.clock = b].env = s.env
        /\ [s EXCEPT !.ticks = a, !.clock = b].ticks = a
  BY DEF Cooking!InstanceStates
<1> QED BY <1>1, <1>2, <1>3, <1>4, Zenon

(* A request to an instance is answered or refused.                        *)
LEMMA RequestsKeep ==
  ASSUME RecipeInv,
         \/ Cooking!Set \/ Cooking!ResetInstance \/ Cooking!Read
         \/ Cooking!StepInstance \/ Cooking!SpeedInstance \/ Cooking!InstanceRefuses
  PROVE  RecipeInv'
<1> DEFINE h == Cooking!Here
           o == Cooking!Op
<1>1. Cooking!Running /\ (Cooking!Proceed \/ Cooking!Fail) /\ UNCHANGED v9
  BY DEF Cooking!Set, Cooking!ResetInstance, Cooking!Read, Cooking!StepInstance,
     Cooking!SpeedInstance, Cooking!InstanceRefuses, Cooking!Sends, Cooking!Becomes
<1>2. Onwards /\ \A e \in Envs : SameTime(e)
  BY <1>1, AnsweredIsOnwards, EnvsAre DEF SameTime
<1>3. h \in Instances /\ v8[h] \in Cooking!InstanceStates
  BY <1>1, OpIsForAnInstance
<1>4. (h \in Cooking!Up <=> v8[h].up) /\ (Cooking!OwnsItsTime(h) => v8[h].up /\ v8[h].env = Cooking!None)
  BY <1>3 DEF Cooking!Up, Cooking!OwnsItsTime
<1>5. /\ o.kind = "set" => o.value \in Int
      /\ o.kind = "step" => o.n \in Nat
      /\ o.kind = "speed" => o.speed \in Int
  BY <1>1, OpIsForAnInstance
<1> HIDE DEF h, o
<1>6. ASSUME NEW after \in Cooking!InstanceStates, v8[h].up,
             after.up = v8[h].up, after.env = v8[h].env,
             after.ticks = v8[h].ticks \/ v8[h].env = Cooking!None,
             Cooking!Becomes(after)
      PROVE  RecipeInv'
  <2>1. v8' = [v8 EXCEPT ![h] = after]
    BY <1>6 DEF Cooking!Becomes, h
  <2> QED BY <1>1, <1>2, <1>3, <1>6, <2>1, RequestKeeps
<1>7. ASSUME Cooking!Becomes(v8[h]) PROVE RecipeInv'
  <2>1. v8' = [v8 EXCEPT ![h] = v8[h]]
    BY <1>7 DEF Cooking!Becomes, h
  <2>2. v8' = v8
    BY <1>3, <2>1, InstancesAre
  <2> QED BY <1>2, <2>2, StandingKeeps
<1>8. ASSUME o.kind = "set", v8[h].up, Cooking!Becomes([v8[h] EXCEPT !.value = o.value])
      PROVE  RecipeInv'
  <2> DEFINE after == [v8[h] EXCEPT !.value = o.value]
  <2>1. after \in Cooking!InstanceStates /\ after.up = v8[h].up /\ after.env = v8[h].env
        /\ after.ticks = v8[h].ticks
    BY <1>3, <1>5, <1>8 DEF Cooking!InstanceStates
  <2>2. Cooking!Becomes(after)
    BY <1>8
  <2> HIDE DEF after
  <2> QED BY <1>6, <1>8, <2>1, <2>2
<1>9. ASSUME NEW n \in Nat, Cooking!OwnsItsTime(h), Cooking!Becomes(Cooking!After(n))
      PROVE  RecipeInv'
  <2> DEFINE after == [v8[h] EXCEPT !.ticks = v8[h].ticks + n, !.clock = v8[h].clock + n]
  <2>1. after \in Cooking!InstanceStates /\ after.up = v8[h].up /\ after.env = v8[h].env
    BY <1>3, <1>9, InstanceBecomes, Zenon
  <2>2. Cooking!Becomes(after)
    BY <1>9 DEF Cooking!After, h
  <2> HIDE DEF after
  <2> QED BY <1>4, <1>6, <1>9, <2>1, <2>2
<1>10. CASE Cooking!Set
  BY <1>4, <1>8, <1>10 DEF Cooking!Set, Cooking!Sends, h, o
<1>11. CASE Cooking!ResetInstance
  <2> DEFINE after == [v8[h] EXCEPT !.value = 0, !.clock = 0]
  <2>1. after \in Cooking!InstanceStates /\ after.up = v8[h].up /\ after.env = v8[h].env
        /\ after.ticks = v8[h].ticks
    BY <1>3, InstanceBecomes, Zenon
  <2>2. Cooking!Becomes(after) /\ v8[h].up
    BY <1>4, <1>11 DEF Cooking!ResetInstance, h
  <2> HIDE DEF after
  <2> QED BY <1>6, <2>1, <2>2
<1>12. CASE Cooking!Read
  BY <1>7, <1>12 DEF Cooking!Read, h
<1>13. CASE Cooking!StepInstance
  <2>1. o.n \in Nat
    BY <1>5, <1>13 DEF Cooking!StepInstance, Cooking!Sends, o
  <2>2. Cooking!OwnsItsTime(h) /\ Cooking!Becomes(Cooking!After(o.n))
    BY <1>13 DEF Cooking!StepInstance, h, o
  <2> QED BY <1>9, <2>1, <2>2
<1>14. CASE Cooking!SpeedInstance
  <2> DEFINE after == [v8[h] EXCEPT !.speed = o.speed]
  <2>1. o.speed \in Int
    BY <1>5, <1>14 DEF Cooking!SpeedInstance, Cooking!Sends, o
  <2>2. after \in Cooking!InstanceStates /\ after.up = v8[h].up /\ after.env = v8[h].env
        /\ after.ticks = v8[h].ticks
    BY <1>3, <2>1 DEF Cooking!InstanceStates
  <2>3. Cooking!Becomes(after) /\ v8[h].up
    BY <1>4, <1>14 DEF Cooking!SpeedInstance, h, o
  <2> HIDE DEF after
  <2> QED BY <1>6, <2>2, <2>3
<1>15. CASE Cooking!InstanceRefuses
  <2>1. CASE Cooking!Becomes(v8[h])
    BY <1>7, <2>1
  <2>2. CASE o.kind = "set" /\ h \in Cooking!Up /\ Cooking!Becomes([v8[h] EXCEPT !.value = o.value])
    BY <1>4, <1>8, <2>2
  <2>3. CASE h \in Cooking!Up /\ Cooking!Becomes([v8[h] EXCEPT !.value = 0])
    <3> DEFINE after == [v8[h] EXCEPT !.value = 0]
    <3>1. after \in Cooking!InstanceStates /\ after.up = v8[h].up /\ after.env = v8[h].env
          /\ after.ticks = v8[h].ticks
      BY <1>3 DEF Cooking!InstanceStates
    <3>2. Cooking!Becomes(after) /\ v8[h].up
      BY <1>4, <2>3
    <3> HIDE DEF after
    <3> QED BY <1>6, <3>1, <3>2
  <2>4. CASE /\ o.kind = "step" /\ Cooking!OwnsItsTime(h)
             /\ \E n \in 0 .. o.n : Cooking!Becomes(Cooking!After(n))
    <3>1. PICK n \in 0 .. o.n : Cooking!Becomes(Cooking!After(n))
      BY <2>4
    <3>2. n \in Nat
      BY <1>5, <2>4
    <3> QED BY <1>9, <2>4, <3>1, <3>2
  <2> QED
    BY <1>15, <2>1, <2>2, <2>3, <2>4, Zenon DEF Cooking!InstanceRefuses, h, o
<1> QED BY <1>10, <1>11, <1>12, <1>13, <1>14, <1>15

LEMMA OneMore == \A k \in Nat : k + 1 \in Nat
OBVIOUS

(* The ticks of an env: what they leave of an instance.                    *)
LEMMA MembersMove ==
  ASSUME RecipeInv, NEW env \in Envs, NEW n \in Nat, NEW S \in SUBSET Cooking!MembersUp(env),
         Cooking!MembersMake(env, n, S)
  PROVE  /\ v8' \in [Instances -> Cooking!InstanceStates]
         /\ \A i \in Instances : /\ v8'[i].up = v8[i].up /\ v8'[i].env = v8[i].env
                                 /\ i \notin Cooking!MembersUp(env) => v8'[i] = v8[i]
                                 /\ i \in Cooking!MembersUp(env) =>
                                      v8'[i].ticks = v8[i].ticks + (IF i \in S THEN n + 1 ELSE n)
<1> DEFINE m(i) == IF i \in S THEN n + 1 ELSE n
           after(i) == [v8[i] EXCEPT !.ticks = v8[i].ticks + m(i), !.clock = v8[i].clock + m(i)]
<1>1. \A i \in Instances : m(i) \in Nat
  <2>1. n \in Nat /\ n + 1 \in Nat
    BY OneMore, Zenon
  <2> TAKE i \in Instances
  <2>2. CASE i \in S
    BY <2>1, <2>2, Zenon
  <2>3. CASE i \notin S
    BY <2>1, <2>3, Zenon
  <2> HIDE DEF m
  <2> QED BY <2>2, <2>3
<1>2. v8' = [i \in Instances |-> IF i \in Cooking!MembersUp(env) THEN after(i) ELSE v8[i]]
  BY DEF Cooking!MembersMake
<1> HIDE DEF m
<1>3. \A i \in Instances : after(i) \in Cooking!InstanceStates /\ after(i).up = v8[i].up
                           /\ after(i).env = v8[i].env /\ after(i).ticks = v8[i].ticks + m(i)
  <2> SUFFICES ASSUME NEW i \in Instances
               PROVE  /\ after(i) \in Cooking!InstanceStates /\ after(i).up = v8[i].up
                      /\ after(i).env = v8[i].env /\ after(i).ticks = v8[i].ticks + m(i)
    OBVIOUS
  <2> DEFINE s == v8[i]
             k == m(i)
  <2>1. s \in Cooking!InstanceStates /\ k \in Nat
    BY <1>1, InstancesAre
  <2>2. LET next == [s EXCEPT !.ticks = s.ticks + k, !.clock = s.clock + k]
        IN /\ next \in Cooking!InstanceStates
           /\ next.up = s.up /\ next.env = s.env /\ next.ticks = s.ticks + k
    <3> HIDE DEF s, k
    <3> QED BY <2>1, InstanceBecomes, Zenon
  <2> QED BY <2>2, Zenon
<1> HIDE DEF after
<1>4. \A i \in Instances : /\ i \in Cooking!MembersUp(env) => v8'[i] = after(i)
                           /\ i \notin Cooking!MembersUp(env) => v8'[i] = v8[i]
  BY <1>2
<1>5. v8' \in [Instances -> Cooking!InstanceStates]
  BY <1>2, <1>3, InstancesAre
<1> QED BY <1>3, <1>4, <1>5, Zenon DEF m

(* An env that moves keeps its members by its clock: it counts the ticks   *)
(* they all made, and has failed in the one that some of them made.        *)
LEMMA EnvMovesKeeps ==
  ASSUME RecipeInv, Onwards, NEW env \in Envs, NEW n \in Nat,
         NEW S \in SUBSET Cooking!MembersUp(env), Cooking!MembersMake(env, n, S),
         v9'[env].ticks = v9[env].ticks + n,
         \/ v9'[env].failed = v9[env].failed /\ S = {}
         \/ v9'[env].failed = v9[env].failed + 1,
         \A e \in Envs \ {env} : v9'[e] = v9[e]
  PROVE  RecipeInv'
<1>1. /\ v8' \in [Instances -> Cooking!InstanceStates]
      /\ \A i \in Instances : /\ v8'[i].up = v8[i].up /\ v8'[i].env = v8[i].env
                              /\ i \notin Cooking!MembersUp(env) => v8'[i] = v8[i]
                              /\ i \in Cooking!MembersUp(env) =>
                                   v8'[i].ticks = v8[i].ticks + (IF i \in S THEN n + 1 ELSE n)
  BY MembersMove
<1>2. ASSUME NEW e \in Envs, NEW i \in Instances, v8'[i].up, v8'[i].env = e
      PROVE  \/ SameTime(e) /\ v8[i].up /\ v8[i].env = e /\ v8'[i].ticks = v8[i].ticks
             \/ Apart(i, e)'
  <2>1. v8[i].up /\ v8[i].env = e /\ i \in Cooking!MembersUp(e)
    BY <1>1, <1>2 DEF Cooking!MembersUp
  <2>2. CASE e = env
    <3>1. v9[e].ticks <= v8[i].ticks /\ v8[i].ticks <= v9[e].ticks + v9[e].failed
      BY <2>1 DEF RecipeInv, Cooking!LockstepKept
    <3>2. v9[e].ticks \in Nat /\ v9[e].failed \in Nat /\ v8[i].ticks \in Nat
      BY EnvsAre, InstancesAre
    <3>3. CASE i \in S
      <4>1. v8'[i].ticks = v8[i].ticks + (n + 1) /\ v9'[e].ticks = v9[e].ticks + n
            /\ v9'[e].failed = v9[e].failed + 1
        BY <1>1, <2>1, <2>2, <3>3
      <4> QED BY <3>1, <3>2, <4>1 DEF Apart
    <3>4. CASE i \notin S
      <4>1. v8'[i].ticks = v8[i].ticks + n /\ v9'[e].ticks = v9[e].ticks + n
        BY <1>1, <2>1, <2>2, <3>4
      <4>2. v9'[e].failed = v9[e].failed \/ v9'[e].failed = v9[e].failed + 1
        BY <2>2
      <4> QED BY <3>1, <3>2, <4>1, <4>2 DEF Apart
    <3> QED BY <3>3, <3>4
  <2>3. CASE e # env
    <3>1. i \notin Cooking!MembersUp(env)
      BY <2>1, <2>3 DEF Cooking!MembersUp
    <3>2. v8'[i] = v8[i] /\ v9'[e] = v9[e]
      BY <1>1, <2>3, <3>1
    <3> QED BY <2>1, <3>2 DEF SameTime
  <2> QED BY <2>2, <2>3
<1>3. Cooking!LockstepKept'
  BY <1>2, LockstepStays
<1>4. \A i \in Instances : /\ ~ v8'[i].up => v8'[i] = Cooking!Down
                           /\ v8'[i].env # Cooking!None => i \in Members[v8'[i].env]
  <2> TAKE i \in Instances
  <2>1. ~ v8'[i].up => i \notin Cooking!MembersUp(env)
    BY <1>1 DEF Cooking!MembersUp
  <2> QED BY <1>1, <2>1, InstancesAre
<1> QED BY <1>1, <1>3, <1>4, OnwardsKeeps

LEMMA TicksKeep ==
  ASSUME RecipeInv, NEW env \in Envs, NEW n \in Nat, NEW closing \in BOOLEAN,
         Cooking!TicksMade(env, n) \/ Cooking!TickFails(env, n, closing),
         v9' \in [Envs -> Cooking!DaemonStates] => Onwards
  PROVE  RecipeInv'
<1>1. /\ v9 \in [Envs -> Cooking!DaemonStates] /\ v9[env] \in Cooking!DaemonStates
      /\ v9[env].ticks + n \in Nat /\ v9[env].failed + 1 \in Nat
  <2>1. v9 \in [Envs -> Cooking!DaemonStates] /\ v9[env].ticks \in Nat /\ v9[env].failed \in Nat
    BY EnvsAre
  <2> QED BY <2>1
<1>2. CASE Cooking!TicksMade(env, n)
  <2> DEFINE after == [v9[env] EXCEPT !.ticks = v9[env].ticks + n]
  <2>1. v9' = [v9 EXCEPT ![env] = after] /\ Cooking!MembersMake(env, n, {})
    BY <1>2 DEF Cooking!TicksMade
  <2>2. after \in Cooking!DaemonStates /\ after.ticks = v9[env].ticks + n /\ after.failed = v9[env].failed
    BY <1>1 DEF Cooking!DaemonStates
  <2> HIDE DEF after
  <2>3. /\ v9' \in [Envs -> Cooking!DaemonStates] /\ v9'[env] = after
        /\ \A e \in Envs \ {env} : v9'[e] = v9[e]
    BY <1>1, <2>1, <2>2
  <2>4. {} \in SUBSET Cooking!MembersUp(env) /\ Onwards
    BY <2>3
  <2> QED BY <2>1, <2>2, <2>3, <2>4, EnvMovesKeeps
<1>3. CASE Cooking!TickFails(env, n, closing)
  <2> DEFINE after == [v9[env] EXCEPT !.ticks = v9[env].ticks + n, !.failed = v9[env].failed + 1,
                                      !.closing = closing]
  <2>1. v9' = [v9 EXCEPT ![env] = after]
    BY <1>1, <1>3 DEF Cooking!TickFails, Cooking!DaemonStates
  <2>2. PICK S \in SUBSET Cooking!MembersUp(env) : Cooking!MembersMake(env, n, S)
    BY <1>3 DEF Cooking!TickFails
  <2>3. after \in Cooking!DaemonStates /\ after.ticks = v9[env].ticks + n
        /\ after.failed = v9[env].failed + 1
    BY <1>1 DEF Cooking!DaemonStates
  <2> HIDE DEF after
  <2>4. /\ v9' \in [Envs -> Cooking!DaemonStates] /\ v9'[env] = after
        /\ \A e \in Envs \ {env} : v9'[e] = v9[e]
    BY <1>1, <2>1, <2>3
  <2>5. Onwards
    BY <2>4
  <2> QED BY <2>2, <2>3, <2>4, <2>5, EnvMovesKeeps
<1> QED BY <1>2, <1>3

(* An env's step moves all its members, or fails, or the env is closing.   *)
LEMMA StepEnvKeeps ==
  ASSUME RecipeInv, Cooking!StepEnv
  PROVE  RecipeInv'
<1> DEFINE env == Cooking!EnvHere
<1>1. Cooking!Running /\ env # Cooking!None /\ Cooking!Op.kind = "step"
      /\ (Cooking!Proceed \/ Cooking!Fail)
  BY DEF Cooking!StepEnv, Cooking!Sends
<1>2. Cooking!Op.n \in Nat /\ env \in Envs
  BY <1>1, OpIsForAnInstance DEF Cooking!EnvHere, RecipeInv, Cooking!TypeOK
<1>3. v9' \in [Envs -> Cooking!DaemonStates] => Onwards
  BY <1>1, AnsweredIsOnwards
<1>4. \/ Cooking!TicksMade(env, Cooking!Op.n)
      \/ \E n \in 0 .. Cooking!Op.n - 1 : Cooking!TickFails(env, n, FALSE)
      \/ UNCHANGED <<v8, v9>>
  BY Zenon DEF Cooking!StepEnv
<1> HIDE DEF env
<1>5. CASE Cooking!TicksMade(env, Cooking!Op.n)
  BY <1>2, <1>3, <1>5, TicksKeep
<1>6. CASE \E n \in 0 .. Cooking!Op.n - 1 : Cooking!TickFails(env, n, FALSE)
  <2>1. PICK n \in 0 .. Cooking!Op.n - 1 : Cooking!TickFails(env, n, FALSE)
    BY <1>6
  <2>2. n \in Nat /\ FALSE \in BOOLEAN
    BY <1>2
  <2> QED BY <1>2, <1>3, <2>1, <2>2, TicksKeep
<1>7. CASE UNCHANGED <<v8, v9>>
  <2>1. Onwards /\ \A e \in Envs : SameTime(e)
    BY <1>3, <1>7, EnvsAre DEF SameTime
  <2> QED BY <1>7, <2>1, StandingKeeps
<1> QED BY <1>4, <1>5, <1>6, <1>7

(* What other commands close goes down, and what they load is in no env.   *)
LEMMA ClosingKeeps ==
  ASSUME RecipeInv, Onwards, v8' \in [Instances -> Cooking!InstanceStates],
         \A i \in Instances : v8'[i] \in {v8[i], Cooking!Down, Cooking!Fresh(Cooking!None)},
         \A e \in Envs : SameTime(e) \/ \A i \in Instances : v8'[i].env # e
  PROVE  RecipeInv'
<1>1. /\ ~ Cooking!Down.up /\ Cooking!Down.env = Cooking!None
      /\ Cooking!Fresh(Cooking!None).up /\ Cooking!Fresh(Cooking!None).env = Cooking!None
  BY FreshState DEF Cooking!Down
<1>2. Cooking!LockstepKept'
  <2>1. ASSUME NEW e \in Envs, NEW i \in Instances, v8'[i].up, v8'[i].env = e
        PROVE  SameTime(e) /\ v8[i].up /\ v8[i].env = e /\ v8'[i].ticks = v8[i].ticks
    <3>1. v8'[i] = v8[i]
      BY <1>1, <2>1, InstancesAre
    <3> QED BY <2>1, <3>1
  <2> QED BY <2>1, LockstepStays
<1>3. \A i \in Instances : ~ v8'[i].up => v8'[i] = Cooking!Down
  BY <1>1, InstancesAre
<1>4. \A i \in Instances : v8'[i].env # Cooking!None => i \in Members[v8'[i].env]
  BY <1>1, InstancesAre
<1> QED BY <1>2, <1>3, <1>4, OnwardsKeeps

(* An env that they start has all its members at tick 0.                   *)
LEMMA StartingKeeps ==
  ASSUME RecipeInv, Onwards, NEW e \in Envs, Members[e] \cap Cooking!Up = {},
         v9'[e] = Cooking!Started, \A f \in Envs \ {e} : v9'[f] = v9[f],
         v8' = [i \in Instances |-> IF i \in Members[e] THEN Cooking!Fresh(e) ELSE v8[i]]
  PROVE  RecipeInv'
<1>1. Cooking!Fresh(e) \in Cooking!InstanceStates
      /\ Cooking!Fresh(e).up /\ Cooking!Fresh(e).env = e /\ Cooking!Fresh(e).ticks = 0
  BY FreshState
<1>2. v8' \in [Instances -> Cooking!InstanceStates]
  BY <1>1, InstancesAre
<1>3. \A i \in Instances : /\ i \in Members[e] => v8'[i] = Cooking!Fresh(e)
                           /\ i \notin Members[e] => v8'[i] = v8[i]
  OBVIOUS
<1>4. ASSUME NEW f \in Envs, NEW i \in Instances, v8'[i].up, v8'[i].env = f
      PROVE  \/ SameTime(f) /\ v8[i].up /\ v8[i].env = f /\ v8'[i].ticks = v8[i].ticks
             \/ Apart(i, f)'
  <2>1. CASE i \in Members[e]
    <3>1. f = e /\ v8'[i].ticks = 0 /\ v9'[f].ticks = 0 /\ v9'[f].failed = 0
      BY <1>1, <1>3, <1>4, <2>1, DaemonsAre
    <3> QED BY <3>1 DEF Apart
  <2>2. CASE i \notin Members[e]
    <3>1. v8'[i] = v8[i] /\ i \in Members[f]
      BY <1>3, <1>4, <2>2, InstancesAre
    <3>2. v9'[f] = v9[f]
      BY <2>2, <3>1
    <3> QED BY <1>4, <3>1, <3>2 DEF SameTime
  <2> QED BY <2>1, <2>2
<1>5. Cooking!LockstepKept'
  BY <1>4, LockstepStays
<1>6. \A i \in Instances : ~ v8'[i].up => v8'[i] = Cooking!Down
  BY <1>1, <1>3, InstancesAre
<1>7. \A i \in Instances : v8'[i].env # Cooking!None => i \in Members[v8'[i].env]
  BY <1>1, <1>3, InstancesAre
<1> QED BY <1>2, <1>5, <1>6, <1>7, OnwardsKeeps

LEMMA OthersKeep ==
  ASSUME RecipeInv, Cooking!Other
  PROVE  RecipeInv'
<1>1. ASSUME NEW what, Cooking!OtherDoes(what), v9' \in [Envs -> Cooking!DaemonStates]
      PROVE  Onwards
  <2>1. UNCHANGED <<v1, v2, v3, v4, v5, v6, v7>> /\ v10 < MaxOthers /\ v10' = v10 + 1
    BY <1>1 DEF Cooking!OtherDoes
  <2>2. v10' \in 0 .. MaxOthers
    BY <2>1, RecipeLimits DEF RecipeInv, Cooking!TypeOK
  <2> QED BY <1>1, <2>1, <2>2 DEF Onwards, RecipeInv, Cooking!TypeOK
<1>2. /\ v9 \in [Envs -> Cooking!DaemonStates]
      /\ v9' = v9 => \A e \in Envs : SameTime(e)
  BY EnvsAre DEF SameTime
<1>3. Cooking!Down \in Cooking!InstanceStates /\ Cooking!Fresh(Cooking!None) \in Cooking!InstanceStates
  BY FreshState DEF Cooking!Down, Cooking!InstanceStates
<1>4. ASSUME NEW i \in Instances, Cooking!OtherCloses(i) \/ Cooking!OtherLoads(i)
      PROVE  RecipeInv'
  <2>1. Onwards /\ \A e \in Envs : SameTime(e)
    BY <1>1, <1>2, <1>4 DEF Cooking!OtherCloses, Cooking!OtherLoads
  <2>2. \/ v8' = [v8 EXCEPT ![i] = Cooking!Down]
        \/ v8' = [v8 EXCEPT ![i] = Cooking!Fresh(Cooking!None)]
    BY <1>4 DEF Cooking!OtherCloses, Cooking!OtherLoads
  <2>3. v8' \in [Instances -> Cooking!InstanceStates]
    BY <1>3, <2>2, InstancesAre
  <2>4. \A j \in Instances : v8'[j] \in {v8[j], Cooking!Down, Cooking!Fresh(Cooking!None)}
    BY <2>2, InstancesAre
  <2> QED BY <2>1, <2>3, <2>4, ClosingKeeps
<1>5. ASSUME NEW e \in Envs, NEW d \in Cooking!DaemonStates, v9' = [v9 EXCEPT ![e] = d]
      PROVE  /\ v9' \in [Envs -> Cooking!DaemonStates] /\ v9'[e] = d
             /\ \A f \in Envs \ {e} : v9'[f] = v9[f]
             /\ d.ticks = v9[e].ticks /\ d.failed = v9[e].failed => \A f \in Envs : SameTime(f)
  <2>1. /\ v9' \in [Envs -> Cooking!DaemonStates] /\ v9'[e] = d
        /\ \A f \in Envs \ {e} : v9'[f] = v9[f]
    BY <1>2, <1>5
  <2> QED BY <2>1 DEF SameTime
<1>6. ASSUME NEW e \in Envs, Cooking!OtherClosesEnv(e) \/ Cooking!OtherTurnsClock(e)
      PROVE  RecipeInv'
  <2>1. \A b \in BOOLEAN, s \in {"gone", "paused", "running"} :
          /\ [v9[e] EXCEPT !.closing = b] \in Cooking!DaemonStates
          /\ [v9[e] EXCEPT !.closing = b].ticks = v9[e].ticks
          /\ [v9[e] EXCEPT !.closing = b].failed = v9[e].failed
          /\ [v9[e] EXCEPT !.state = s] \in Cooking!DaemonStates
          /\ [v9[e] EXCEPT !.state = s].ticks = v9[e].ticks
          /\ [v9[e] EXCEPT !.state = s].failed = v9[e].failed
    BY <1>2 DEF Cooking!DaemonStates
  <2>2. PICK d \in Cooking!DaemonStates :
          v9' = [v9 EXCEPT ![e] = d] /\ d.ticks = v9[e].ticks /\ d.failed = v9[e].failed
    <3>1. CASE Cooking!OtherClosesEnv(e)
      <4>1. v9' = [v9 EXCEPT ![e] = [v9[e] EXCEPT !.closing = TRUE]]
        BY <3>1 DEF Cooking!OtherClosesEnv
      <4>2. TRUE \in BOOLEAN /\ "gone" \in {"gone", "paused", "running"}
        OBVIOUS
      <4> QED BY <2>1, <4>1, <4>2, Zenon
    <3>2. CASE Cooking!OtherTurnsClock(e)
      <4>1. PICK s \in {"paused", "running"} : v9' = [v9 EXCEPT ![e] = [v9[e] EXCEPT !.state = s]]
        BY <3>2 DEF Cooking!OtherTurnsClock
      <4>2. TRUE \in BOOLEAN /\ s \in {"gone", "paused", "running"}
        BY <4>1
      <4> QED BY <2>1, <4>1, <4>2, Zenon
    <3> QED BY <1>6, <3>1, <3>2
  <2>3. v9' \in [Envs -> Cooking!DaemonStates] /\ \A f \in Envs : SameTime(f)
    BY <1>5, <2>2
  <2>4. Onwards /\ UNCHANGED v8
    BY <1>1, <1>6, <2>3 DEF Cooking!OtherClosesEnv, Cooking!OtherTurnsClock
  <2> QED BY <2>3, <2>4, StandingKeeps
<1>7. ASSUME NEW e \in Envs, Cooking!OtherStartsEnv(e)
      PROVE  RecipeInv'
  <2>1. v9' = [v9 EXCEPT ![e] = Cooking!Started]
    BY <1>7 DEF Cooking!OtherStartsEnv
  <2>2. /\ v9' \in [Envs -> Cooking!DaemonStates] /\ v9'[e] = Cooking!Started
        /\ \A f \in Envs \ {e} : v9'[f] = v9[f]
    BY <1>5, <2>1, DaemonsAre
  <2>3. Onwards
    BY <1>1, <1>7, <2>2 DEF Cooking!OtherStartsEnv
  <2> QED BY <1>7, <2>2, <2>3, StartingKeeps DEF Cooking!OtherStartsEnv
<1>8. ASSUME NEW e \in Envs, Cooking!ClockTicks(e)
      PROVE  RecipeInv'
  <2>1. Cooking!TicksMade(e, 1) \/ Cooking!TickFails(e, 0, TRUE)
    BY <1>8 DEF Cooking!ClockTicks
  <2>2. v9' \in [Envs -> Cooking!DaemonStates] => Onwards
    BY <1>1, <1>8 DEF Cooking!ClockTicks
  <2>3. 0 \in Nat /\ 1 \in Nat /\ TRUE \in BOOLEAN
    OBVIOUS
  <2> QED BY <2>1, <2>2, <2>3, TicksKeep
<1>9. ASSUME NEW e \in Envs, Cooking!EnvEnds(e)
      PROVE  RecipeInv'
  <2>1. /\ v9' = [v9 EXCEPT ![e] = Cooking!Gone]
        /\ v8' = [i \in Instances |-> IF i \in Cooking!MembersUp(e) THEN Cooking!Down ELSE v8[i]]
        /\ UNCHANGED <<v1, v2, v3, v4, v5, v6, v7, v10>>
    BY <1>9 DEF Cooking!EnvEnds
  <2>2. /\ v9' \in [Envs -> Cooking!DaemonStates] /\ \A f \in Envs \ {e} : v9'[f] = v9[f]
    BY <1>5, <2>1, DaemonsAre
  <2>3. Onwards
    BY <2>1, <2>2 DEF Onwards, RecipeInv, Cooking!TypeOK
  <2>4. v8' \in [Instances -> Cooking!InstanceStates]
        /\ \A j \in Instances : v8'[j] \in {v8[j], Cooking!Down, Cooking!Fresh(Cooking!None)}
    BY <1>3, <2>1, InstancesAre
  <2>5. \A i \in Instances : v8'[i].env # e
    <3> TAKE i \in Instances
    <3>1. CASE i \in Cooking!MembersUp(e)
      <4>1. v8'[i].env = Cooking!None
        BY <2>1, <3>1 DEF Cooking!Down
      <4> QED BY <4>1, InstancesAre
    <3>2. CASE i \notin Cooking!MembersUp(e)
      <4>1. v8'[i] = v8[i]
        BY <2>1, <3>2
      <4>2. v8[i].env = e => ~ v8[i].up /\ v8[i] = Cooking!Down
        BY <3>2, InstancesAre DEF Cooking!MembersUp
      <4>3. Cooking!Down.env # e
        BY InstancesAre DEF Cooking!Down
      <4> QED BY <4>1, <4>2, <4>3
    <3> QED BY <3>1, <3>2
  <2>6. \A f \in Envs : SameTime(f) \/ \A i \in Instances : v8'[i].env # f
    BY <2>2, <2>5 DEF SameTime
  <2> QED BY <2>3, <2>4, <2>6, ClosingKeeps
<1> QED BY <1>4, <1>6, <1>7, <1>8, <1>9 DEF Cooking!Other

LEMMA RecipeStep == RecipeInv /\ [Cooking!Next]_(Cooking!vars) => RecipeInv'
<1> SUFFICES ASSUME RecipeInv, [Cooking!Next]_(Cooking!vars) PROVE RecipeInv'
  OBVIOUS
<1>1. CASE \/ Cooking!CheckInstances \/ Cooking!CompileStep \/ Cooking!CompileIteration
           \/ Cooking!CompileReturn \/ Cooking!LoadEnvs
  BY <1>1, PrepareKeeps
<1>2. CASE Cooking!SendsNothing \/ Cooking!SpeedEnv \/ Cooking!EnvRefuses
  <2>1. Cooking!Running /\ (Cooking!Proceed \/ Cooking!Fail) /\ UNCHANGED <<v8, v9>>
    BY <1>2 DEF Cooking!SendsNothing, Cooking!SpeedEnv, Cooking!EnvRefuses, Cooking!Sends
  <2>2. v9' \in [Envs -> Cooking!DaemonStates] /\ \A e \in Envs : SameTime(e)
    BY <2>1, EnvsAre DEF SameTime
  <2> QED BY <2>1, <2>2, AnsweredIsOnwards, StandingKeeps
<1>3. CASE \/ Cooking!Set \/ Cooking!ResetInstance \/ Cooking!Read
           \/ Cooking!StepInstance \/ Cooking!SpeedInstance \/ Cooking!InstanceRefuses
  BY <1>3, RequestsKeep
<1>4. CASE Cooking!StepEnv
  BY <1>4, StepEnvKeeps
<1>6. CASE Cooking!Finish
  <2>1. UNCHANGED <<v1, v2, v4, v5, v6, v7, v8, v9, v10>> /\ v3' = "done"
    BY <1>6 DEF Cooking!Finish, Cooking!World
  <2>2. Onwards /\ \A e \in Envs : SameTime(e)
    BY <2>1 DEF Onwards, RecipeInv, Cooking!TypeOK, SameTime
  <2> QED BY <2>1, <2>2, StandingKeeps
<1>7. CASE Cooking!Other
  BY <1>7, OthersKeep
<1>8. CASE UNCHANGED Cooking!vars
  <2>1. UNCHANGED <<v1, v2, v3, v4, v5, v6, v7, v8, v9, v10>>
    BY <1>8 DEF Cooking!vars
  <2>2. Onwards /\ \A e \in Envs : SameTime(e)
    BY <2>1 DEF Onwards, RecipeInv, Cooking!TypeOK, SameTime
  <2> QED BY <2>1, <2>2, StandingKeeps
<1> QED BY <1>1, <1>2, <1>3, <1>4, <1>6, <1>7, <1>8 DEF Cooking!Next, Cooking!Command

(* Whatever the recipe, and whatever other commands do in between: each    *)
(* iteration that is compiled is of one of the recipe's loops and in its   *)
(* range, at a multiple of its `by`, and followed by the Set of its value; *)
(* and a member of an env is never behind the env's clock, nor ahead of it *)
(* by more than the ticks in which the env failed, since it takes no step  *)
(* by itself (compile_for_step, execute_recipe_ops, advance_single_tick,   *)
(* reject_local_time_control).                                             *)
THEOREM RecipesKept == Spec => []RecipeKept
<1> DEFINE Inv == part = "recipe" => RecipeInv
<1>1. Init => Inv
  BY RecipeInit DEF Init
<1>2. Inv /\ [Next]_vars => Inv'
  <2>1. ASSUME Inv, [Next]_vars PROVE Inv'
    BY <2>1, PartsMove, RecipeStep
  <2> QED BY <2>1
<1>3. Inv => RecipeKept
  BY DEF RecipeKept, RecipeInv, Compiled
<1> QED BY <1>1, <1>2, <1>3, PTL DEF Spec

LEMMA DryRunStep ==
  ASSUME RecipeInv, [Cooking!Next]_(Cooking!vars)
  PROVE  Cooking!DryRunTouchesNothing
<1> SUFFICES ASSUME v2, v6' # v6 \/ v3' # v3 PROVE UNCHANGED <<v8, v9>>
  BY DEF Cooking!DryRunTouchesNothing
<1>1. CASE \/ Cooking!CheckInstances \/ Cooking!CompileStep \/ Cooking!CompileIteration
           \/ Cooking!CompileReturn \/ Cooking!LoadEnvs
  BY <1>1, PrepareKeeps
<1>2. CASE Cooking!SendsNothing
  BY <1>2 DEF Cooking!SendsNothing
<1>3. CASE \/ Cooking!Set \/ Cooking!ResetInstance \/ Cooking!Read
           \/ Cooking!StepInstance \/ Cooking!SpeedInstance \/ Cooking!InstanceRefuses
           \/ Cooking!StepEnv \/ Cooking!SpeedEnv \/ Cooking!EnvRefuses
  BY <1>3, Zenon DEF Cooking!Set, Cooking!ResetInstance, Cooking!Read, Cooking!StepInstance,
     Cooking!SpeedInstance, Cooking!InstanceRefuses, Cooking!StepEnv, Cooking!SpeedEnv,
     Cooking!EnvRefuses, Cooking!Sends
<1>4. CASE Cooking!Finish
  BY <1>4 DEF Cooking!Finish, Cooking!World
<1>5. CASE Cooking!Other
  BY <1>5 DEF Cooking!Other, Cooking!OtherCloses, Cooking!OtherLoads, Cooking!OtherClosesEnv,
     Cooking!OtherStartsEnv, Cooking!OtherTurnsClock, Cooking!ClockTicks, Cooking!EnvEnds,
     Cooking!OtherDoes
<1>6. CASE UNCHANGED Cooking!vars
  BY <1>6 DEF Cooking!vars
<1> QED BY <1>1, <1>2, <1>3, <1>4, <1>5, <1>6 DEF Cooking!Next, Cooking!Command

LEMMA StepReachesStep ==
  ASSUME RecipeInv, [Cooking!Next]_(Cooking!vars)
  PROVE  Cooking!StepReachesTarget
<1> DEFINE h == Cooking!Here
           n == Cooking!Op.n
<1> SUFFICES ASSUME v3 = "run", v6' = v6 + 1, ~ v2, Cooking!Op.kind = "step"
             PROVE  \/ v8'[h].ticks = v8[h].ticks + n
                    \/ /\ Cooking!EnvHere # Cooking!None /\ v9[Cooking!EnvHere].closing
                       /\ UNCHANGED v8
  BY DEF Cooking!StepReachesTarget
<1>1. v6' # v6 /\ ~ Cooking!Fail
  BY DEF RecipeInv, Cooking!TypeOK, Cooking!Fail
<1>2. ASSUME Cooking!Running PROVE h \in Instances
  BY <1>2, OpIsForAnInstance
<1> HIDE DEF h, n
<1>3. CASE \/ Cooking!CheckInstances \/ Cooking!CompileStep \/ Cooking!CompileIteration
           \/ Cooking!CompileReturn \/ Cooking!LoadEnvs \/ Cooking!Finish
  BY <1>1, <1>3 DEF Cooking!CheckInstances, Cooking!CompileStep, Cooking!CompileIteration,
     Cooking!CompileReturn, Cooking!LoadEnvs, Cooking!Finish
<1>4. CASE \/ Cooking!SendsNothing \/ Cooking!Set \/ Cooking!ResetInstance \/ Cooking!Read
           \/ Cooking!SpeedInstance \/ Cooking!InstanceRefuses
           \/ Cooking!SpeedEnv \/ Cooking!EnvRefuses
  <2>1. \/ Cooking!SendsNothing \/ Cooking!InstanceRefuses \/ Cooking!EnvRefuses
        \/ Cooking!Op.kind \in {"set", "reset", "print", "assert", "speed"}
    BY <1>4 DEF Cooking!Set, Cooking!ResetInstance, Cooking!Read, Cooking!SpeedInstance,
       Cooking!SpeedEnv, Cooking!Sends
  <2>2. ~ Cooking!SendsNothing /\ ~ Cooking!InstanceRefuses /\ ~ Cooking!EnvRefuses
    BY <1>1, Zenon DEF Cooking!SendsNothing, Cooking!InstanceRefuses, Cooking!EnvRefuses
  <2> QED BY <2>1, <2>2
<1>5. CASE Cooking!StepInstance
  <2> DEFINE after == [v8[h] EXCEPT !.ticks = v8[h].ticks + n, !.clock = v8[h].clock + n]
  <2>1. Cooking!Running
    BY <1>5 DEF Cooking!StepInstance, Cooking!Sends
  <2>2. v8' = [v8 EXCEPT ![h] = after]
    BY <1>5 DEF Cooking!StepInstance, Cooking!Becomes, Cooking!After, h, n
  <2>3. after.ticks = v8[h].ticks + n
    <3>1. n \in Nat /\ v8[h] \in Cooking!InstanceStates
      BY <1>2, <2>1, InstancesAre, OpIsForAnInstance DEF n
    <3> QED BY <3>1, InstanceBecomes, Zenon
  <2> HIDE DEF after
  <2> QED BY <1>2, <2>1, <2>2, <2>3, InstancesAre
<1>6. CASE Cooking!StepEnv
  <2> DEFINE env == Cooking!EnvHere
  <2>1. Cooking!Running /\ env # Cooking!None
    BY <1>6 DEF Cooking!StepEnv, Cooking!Sends
  <2>2. h \in Members[env] /\ env \in Envs
    BY <1>2, <2>1 DEF Cooking!EnvHere, RecipeInv, Cooking!EnvsHoldMembers, Cooking!TypeOK, h
  <2>3. \/ Cooking!TicksMade(env, n)
        \/ v9[env].closing /\ UNCHANGED v8
    BY <1>1, <1>6 DEF Cooking!StepEnv, n
  <2>4. ASSUME Cooking!TicksMade(env, n) PROVE v8'[h].ticks = v8[h].ticks + n
    <3>1. n \in Nat
      BY <2>1, OpIsForAnInstance DEF n
    <3>2. h \in Cooking!MembersUp(env) /\ Cooking!MembersMake(env, n, {})
      BY <2>2, <2>4 DEF Cooking!TicksMade
    <3>3. {} \in SUBSET Cooking!MembersUp(env) /\ h \notin {}
      OBVIOUS
    <3> HIDE DEF env
    <3> QED BY <1>2, <2>1, <2>2, <3>1, <3>2, <3>3, MembersMove
  <2> QED BY <2>1, <2>3, <2>4
<1>7. CASE Cooking!Other
  BY <1>1, <1>7 DEF Cooking!Other, Cooking!OtherCloses, Cooking!OtherLoads, Cooking!OtherClosesEnv,
     Cooking!OtherStartsEnv, Cooking!OtherTurnsClock, Cooking!ClockTicks, Cooking!EnvEnds,
     Cooking!OtherDoes
<1>8. CASE UNCHANGED Cooking!vars
  BY <1>1, <1>8 DEF Cooking!vars
<1> QED BY <1>3, <1>4, <1>5, <1>6, <1>7, <1>8 DEF Cooking!Next, Cooking!Command

(* A dry run comes to its end without a request, and a Step that is        *)
(* answered has moved the instance it names by its ticks, whether that     *)
(* instance is alone or one of an env, and whatever has been closed since  *)
(* the recipe looked (execute_recipe_ops).                                 *)
THEOREM RecipesStep == Spec => RecipeSteps
<1> DEFINE Inv == part = "recipe" => RecipeInv
<1>1. Init => Inv
  BY RecipeInit DEF Init
<1>2. Inv /\ [Next]_vars => Inv'
  <2>1. ASSUME Inv, [Next]_vars PROVE Inv'
    BY <2>1, PartsMove, RecipeStep
  <2> QED BY <2>1
<1>3. Inv /\ [Next]_vars
        => [part = "recipe" => Cooking!DryRunTouchesNothing /\ Cooking!StepReachesTarget]_vars
  <2>1. ASSUME Inv, [Next]_vars, part = "recipe"
        PROVE  Cooking!DryRunTouchesNothing /\ Cooking!StepReachesTarget
    BY <2>1, PartsMove, DryRunStep, StepReachesStep
  <2> QED BY <2>1
<1> QED BY <1>1, <1>2, <1>3, PTL DEF Spec, RecipeSteps

-----------------------------------------------------------------------------
(* Env definitions.                                                        *)

LEMMA DefinitionLimits ==
  \A d \in Definitions :
    /\ d.name # Definition!None
    /\ \A k \in DOMAIN d.shared : DOMAIN d.shared[k].members \subseteq Nat \ {0}
    /\ \A j, k \in DOMAIN d.shared : d.shared[j].name = d.shared[k].name => j = k
BY CommandsAssumption DEF Definition!DefinitionAssumption

DefinitionPhases ==
  {"idle", "command", "instances", "ticks", "buses", "channels", "attach", "rollback"}

(* What is said of the envs that serve, and of the regions; StartKept says *)
(* it of the start that is under way.                                      *)
ServingKept ==
  /\ Definition!TypeOK
  /\ Definition!MembersShareATick
  /\ Definition!BusesAsDefined
  /\ Definition!ChannelsAsDefined
  /\ Definition!RegionFits

DefinitionInv == ServingKept /\ Definition!StartKept

LEMMA DefinitionInit == Definition!Init => DefinitionInv
<1> SUFFICES ASSUME Definition!Init PROVE DefinitionInv
  OBVIOUS
<1>1. /\ v3 = "idle" /\ v4 \in Definitions
      /\ DOMAIN v2 = {} /\ DOMAIN v5 = {} /\ DOMAIN v6 = {}
  BY DEF Definition!Init
<1>2. ServingKept
  BY <1>1 DEF ServingKept, Definition!TypeOK, Definition!MembersShareATick,
     Definition!BusesAsDefined, Definition!ChannelsAsDefined, Definition!RegionFits
<1>3. Definition!StartKept
  BY <1>1 DEF Definition!StartKept
<1> QED BY <1>2, <1>3 DEF DefinitionInv

(* The instances that run stay, and others may come to run.                *)
LEMMA GrowingKeeps ==
  ASSUME ServingKept, UNCHANGED <<v2, v5, v6, v7>>,
         v3' \in DefinitionPhases, v4' \in Definitions,
         \A i \in DOMAIN v1 : i \in DOMAIN v1' /\ v1'[i] = v1[i]
  PROVE  ServingKept'
<1>1. Definition!TypeOK'
  BY DEF ServingKept, Definition!TypeOK, DefinitionPhases
<1>2. Definition!MembersShareATick'
  BY DEF ServingKept, Definition!MembersShareATick, Definition!Run, Definition!Lib
<1>3. Definition!BusesAsDefined' /\ Definition!ChannelsAsDefined'
  BY DEF ServingKept, Definition!BusesAsDefined, Definition!ChannelsAsDefined,
     Definition!OnItsBuses, Definition!OnItsChannels
<1>4. Definition!RegionFits'
  BY DEF ServingKept, Definition!RegionFits, Definition!TypeOK, Definition!Lib
<1> QED BY <1>1, <1>2, <1>3, <1>4 DEF ServingKept

LEMMA WaitingKeeps ==
  ASSUME ServingKept, UNCHANGED <<v1, v2, v5, v6, v7>>,
         v3' \in DefinitionPhases, v4' \in Definitions
  PROVE  ServingKept'
BY GrowingKeeps

LEMMA WithoutIs ==
  ASSUME NEW f, NEW S
  PROVE  LET g == Definition!Without(f, S)
         IN /\ DOMAIN g = DOMAIN f \ S
            /\ \A y \in DOMAIN f \ S : g[y] = f[y]
BY DEF Definition!Without

(* The instances that go are of no env that goes on serving.               *)
LEMMA GoneKeeps ==
  ASSUME ServingKept, NEW S, Definition!Gone(S), UNCHANGED v7,
         v3' \in DefinitionPhases, v4' \in Definitions,
         \A e \in DOMAIN v2' : e \in DOMAIN v2 /\ v2'[e] = v2[e],
         \A e \in DOMAIN v2' : Definition!Names(v2[e]) \cap S = {}
  PROVE  /\ ServingKept'
         /\ \A i \in DOMAIN v1 \ S : i \in DOMAIN v1' /\ v1'[i] = v1[i]
         /\ \A at \in DOMAIN v5 : at[1] \notin S => at \in DOMAIN v5' /\ v5'[at] = v5[at]
         /\ \A at \in DOMAIN v6 : at[1] \notin S => at \in DOMAIN v6' /\ v6'[at] = v6[at]
         /\ DOMAIN v5' \subseteq DOMAIN v5 /\ DOMAIN v6' \subseteq DOMAIN v6
<1>1. /\ v1' = Definition!Without(v1, S)
      /\ v5' = Definition!Without(v5, {at \in DOMAIN v5 : at[1] \in S})
      /\ v6' = Definition!Without(v6, {at \in DOMAIN v6 : at[1] \in S})
  BY Zenon DEF Definition!Gone
<1>2. /\ DOMAIN v1' = DOMAIN v1 \ S /\ \A i \in DOMAIN v1 \ S : v1'[i] = v1[i]
      /\ DOMAIN v5' = DOMAIN v5 \ {at \in DOMAIN v5 : at[1] \in S}
      /\ DOMAIN v6' = DOMAIN v6 \ {at \in DOMAIN v6 : at[1] \in S}
      /\ \A at \in DOMAIN v5 : at[1] \notin S => at \in DOMAIN v5' /\ v5'[at] = v5[at]
      /\ \A at \in DOMAIN v6 : at[1] \notin S => at \in DOMAIN v6' /\ v6'[at] = v6[at]
  <2>1. DOMAIN v1' = DOMAIN v1 \ S /\ \A i \in DOMAIN v1 \ S : v1'[i] = v1[i]
    BY <1>1 DEF Definition!Without
  <2> DEFINE gone(f) == {at \in DOMAIN f : at[1] \in S}
  <2>2. /\ DOMAIN v5' = DOMAIN v5 \ gone(v5) /\ \A at \in DOMAIN v5 \ gone(v5) : v5'[at] = v5[at]
        /\ DOMAIN v6' = DOMAIN v6 \ gone(v6) /\ \A at \in DOMAIN v6 \ gone(v6) : v6'[at] = v6[at]
    BY <1>1 DEF Definition!Without
  <2>3. /\ \A at \in DOMAIN v5 : at[1] \notin S => at \in DOMAIN v5 \ gone(v5)
        /\ \A at \in DOMAIN v6 : at[1] \notin S => at \in DOMAIN v6 \ gone(v6)
    OBVIOUS
  <2>4. /\ \A at \in DOMAIN v5 : at[1] \notin S => at \in DOMAIN v5' /\ v5'[at] = v5[at]
        /\ \A at \in DOMAIN v6 : at[1] \notin S => at \in DOMAIN v6' /\ v6'[at] = v6[at]
    BY <2>2, <2>3, Zenon
  <2> QED BY <2>1, <2>2, <2>4
<1>3. /\ DOMAIN v5' \subseteq DOMAIN v5 /\ \A at \in DOMAIN v5' : at[1] \notin S
      /\ DOMAIN v6' \subseteq DOMAIN v6 /\ \A at \in DOMAIN v6' : at[1] \notin S
  BY <1>2
<1>4. Definition!TypeOK'
  BY <1>2, <1>3 DEF ServingKept, Definition!TypeOK, DefinitionPhases
<1>5. \A e \in DOMAIN v2' : /\ e \in DOMAIN v2 /\ v2'[e] = v2[e]
                           /\ \A i \in Definition!Names(v2[e]) : i \notin S
  OBVIOUS
<1>6. Definition!MembersShareATick'
  BY <1>2, <1>5 DEF ServingKept, Definition!MembersShareATick, Definition!Run, Definition!Lib
<1>7. Definition!BusesAsDefined'
  BY <1>2, <1>5 DEF ServingKept, Definition!BusesAsDefined, Definition!OnItsBuses
<1>8. Definition!ChannelsAsDefined'
  <2>1. ASSUME NEW e \in DOMAIN v2' PROVE Definition!OnItsChannels(v2[e], {})'
    <3>1. Definition!OnItsChannels(v2[e], {})
      BY <1>5 DEF ServingKept, Definition!ChannelsAsDefined
    <3>2. \A at \in DOMAIN v6 : at[1] \in Definition!Names(v2[e])
            => at \in DOMAIN v6' /\ v6'[at] = v6[at]
      BY <1>2, <1>5
    <3> QED BY <1>5, <3>1, <3>2 DEF Definition!OnItsChannels
  <2> QED BY <2>1 DEF Definition!ChannelsAsDefined
<1>9. Definition!RegionFits'
  BY <1>2, <1>3 DEF ServingKept, Definition!RegionFits, Definition!TypeOK, Definition!Lib
<1> QED BY <1>2, <1>3, <1>4, <1>6, <1>7, <1>8, <1>9 DEF ServingKept

(* What the command and the env daemon check passes or fails.              *)
LEMMA ChecksKeep ==
  ASSUME DefinitionInv,
         \/ \E d \in Definitions : Definition!Start(d)
         \/ Definition!CheckDefinition \/ Definition!CheckInfo
         \/ Definition!PrepareChannels \/ Definition!CheckChannel
  PROVE  DefinitionInv'
<1>1. UNCHANGED <<v1, v2, v5, v6, v7>>
  BY DEF Definition!Start, Definition!Moves, Definition!CheckDefinition, Definition!CheckInfo,
     Definition!PrepareChannels, Definition!CheckChannel, Definition!Passes, Definition!Fails
<1>2. v4 \in Definitions /\ v3 \in DefinitionPhases
  BY DEF DefinitionInv, ServingKept, Definition!TypeOK, DefinitionPhases
<1>3. v3' \in DefinitionPhases /\ v4' \in Definitions
  BY <1>2 DEF Definition!Start, Definition!Moves, Definition!CheckDefinition, Definition!CheckInfo,
     Definition!PrepareChannels, Definition!CheckChannel, Definition!Passes, Definition!Fails,
     DefinitionPhases
<1>4. ServingKept'
  BY <1>1, <1>3, WaitingKeeps DEF DefinitionInv
<1>5. CASE \E d \in Definitions : Definition!Start(d)
  <2>1. v3' = "command" /\ v4'.name \notin DOMAIN v2'
    BY <1>1, <1>5 DEF Definition!Start, Definition!Moves
  <2>2. Definition!StartKept'
    BY <2>1 DEF Definition!StartKept
  <2> QED BY <1>4, <2>2 DEF DefinitionInv
<1>6. CASE Definition!CheckDefinition
  <2>1. v3' \in {"idle", "instances"} /\ v3 = "command" /\ v4' = v4
    BY <1>6 DEF Definition!CheckDefinition, Definition!Passes
  <2>2. Definition!StartKept'
    BY <1>1, <2>1 DEF Definition!StartKept, DefinitionInv
  <2> QED BY <1>4, <2>2 DEF DefinitionInv
<1>7. CASE Definition!CheckInfo
  <2>1. /\ v3 = "ticks" /\ v4' = v4
        /\ (v3' = "buses" /\ Definition!TicksFit(v4)) \/ v3' = "rollback"
    BY <1>7 DEF Definition!CheckInfo, Definition!Passes, Definition!Fails
  <2>2. Definition!StartKept'
    BY <1>1, <2>1 DEF Definition!StartKept, DefinitionInv, Definition!Run, Definition!TicksFit,
       Definition!Lib
  <2> QED BY <1>4, <2>2 DEF DefinitionInv
<1>8. CASE Definition!PrepareChannels
  <2>1. v3 = "channels" /\ v3' = "attach" /\ v4' = v4 /\ v8' = Definition!ChannelPlaces(v4)
    BY <1>8 DEF Definition!PrepareChannels
  <2>2. \A k \in DOMAIN v4.shared : \A n \in DOMAIN v4.shared[k].members : <<k, n>> \in v8'
    BY <2>1 DEF Definition!ChannelPlaces
  <2>3. Definition!OnItsChannels(v4, v8)'
    BY <2>1, <2>2 DEF Definition!OnItsChannels
  <2>4. Definition!StartKept'
    BY <1>1, <2>1, <2>3 DEF Definition!StartKept, DefinitionInv, Definition!Run,
       Definition!TicksFit, Definition!Lib, Definition!OnItsBuses
  <2> QED BY <1>4, <2>4 DEF DefinitionInv
<1>9. CASE Definition!CheckChannel
  <2>1. /\ v3 = "attach" /\ v4' = v4
        /\ v3' = "rollback" \/ (v3' = "attach" /\ \E p \in v8 : p[2] = 0 /\ v8' = v8 \ {p})
    BY <1>9 DEF Definition!CheckChannel, Definition!Fails
  <2>2. CASE v3' = "rollback"
    BY <1>1, <1>4, <2>1, <2>2 DEF Definition!StartKept, DefinitionInv
  <2>3. CASE v3' = "attach"
    <3>1. \A k \in DOMAIN v4.shared : \A n \in DOMAIN v4.shared[k].members :
            <<k, n>> \notin v8' => <<k, n>> \notin v8
      <4>1. \A k \in DOMAIN v4.shared : \A n \in DOMAIN v4.shared[k].members : n # 0
        BY <1>2, DefinitionLimits
      <4> QED BY <2>1, <2>3, <4>1
    <3>2. Definition!OnItsChannels(v4, v8)'
      BY <1>1, <2>1, <3>1 DEF Definition!OnItsChannels, DefinitionInv, Definition!StartKept
    <3>3. Definition!StartKept'
      BY <1>1, <2>1, <2>3, <3>2 DEF Definition!StartKept, DefinitionInv, Definition!Run,
         Definition!TicksFit, Definition!Lib, Definition!OnItsBuses
    <3> QED BY <1>4, <3>3 DEF DefinitionInv
  <2> QED BY <2>1, <2>2, <2>3
<1> QED BY <1>5, <1>6, <1>7, <1>8, <1>9

(* The instances of a definition are started under names that were free.   *)
LEMMA StartInstancesKeeps ==
  ASSUME DefinitionInv, Definition!StartInstances
  PROVE  DefinitionInv'
<1>1. /\ v3 = "instances" /\ UNCHANGED <<v2, v4, v5, v6, v7>>
      /\ v4.name \notin DOMAIN v2 /\ v4 \in Definitions
  BY DEF Definition!StartInstances, Definition!StartKept, DefinitionInv, ServingKept,
     Definition!TypeOK
<1>2. CASE Definition!Names(v4) \cap DOMAIN v1 # {}
  <2>1. v3' = "rollback" /\ UNCHANGED v1
    BY <1>2 DEF Definition!StartInstances
  <2>2. ServingKept'
    BY <1>1, <2>1, WaitingKeeps DEF DefinitionInv, DefinitionPhases
  <2>3. Definition!StartKept'
    BY <1>1, <2>1 DEF Definition!StartKept
  <2> QED BY <2>2, <2>3 DEF DefinitionInv
<1>3. CASE Definition!Names(v4) \cap DOMAIN v1 = {}
  <2> DEFINE lib(i) == Definition!LibOf(v4.instances[
                         CHOOSE k \in DOMAIN v4.instances : v4.instances[k].name = i])
  <2>1. /\ v3' \in {"ticks", "rollback"}
        /\ v1' = [i \in DOMAIN v1 \cup Definition!Names(v4) |->
                    IF i \in Definition!Names(v4) THEN [lib |-> lib(i), env |-> v4.name] ELSE v1[i]]
    BY <1>3 DEF Definition!StartInstances
  <2> HIDE DEF lib
  <2>2. /\ \A i \in DOMAIN v1 : i \in DOMAIN v1' /\ v1'[i] = v1[i]
        /\ \A i \in Definition!Names(v4) : i \in DOMAIN v1' /\ v1'[i].env = v4.name
    BY <1>3, <2>1
  <2>3. v3' \in DefinitionPhases
    BY <2>1 DEF DefinitionPhases
  <2>4. ServingKept'
    BY <1>1, <2>2, <2>3, GrowingKeeps DEF DefinitionInv
  <2>5. \A at \in DOMAIN v5 : at[1] \notin Definition!Names(v4)
    BY <1>3 DEF DefinitionInv, ServingKept, Definition!TypeOK
  <2>6. Definition!StartKept'
    BY <1>1, <2>1, <2>2, <2>5 DEF Definition!StartKept, Definition!Run
  <2> QED BY <2>4, <2>6 DEF DefinitionInv
<1> QED BY <1>2, <1>3

(* The buses of its instances are still free then.                         *)
LEMMA AttachBusesKeeps ==
  ASSUME DefinitionInv, Definition!AttachBuses
  PROVE  DefinitionInv'
<1> DEFINE at(p) == Definition!BusAt(v4, p)
           new == {at(p) : p \in Definition!BusPlaces(v4)}
           place(x) == CHOOSE p \in Definition!BusPlaces(v4) : at(p) = x
<1>1. v3 = "buses" /\ UNCHANGED <<v1, v2, v4, v6, v7>> /\ v4 \in Definitions
  BY DEF Definition!AttachBuses, Definition!Fails, DefinitionInv, ServingKept, Definition!TypeOK
<1>2. CASE ~ Definition!BusesFit(v4)
  <2>1. v3' = "rollback" /\ UNCHANGED v5
    BY <1>2 DEF Definition!AttachBuses, Definition!Fails
  <2>2. ServingKept'
    BY <1>1, <2>1, WaitingKeeps DEF DefinitionInv, DefinitionPhases
  <2>3. Definition!StartKept'
    BY <1>1, <2>1 DEF Definition!StartKept, DefinitionInv
  <2> QED BY <2>2, <2>3 DEF DefinitionInv
<1>3. CASE Definition!BusesFit(v4)
  <2>1. /\ v3' = "channels"
        /\ v5' = [x \in DOMAIN v5 \cup new |->
                    IF x \in DOMAIN v5 THEN v5[x]
                    ELSE v4.can[place(x)[1]].iface]
    BY <1>3 DEF Definition!AttachBuses
  <2>2. \A p \in Definition!BusPlaces(v4) :
          /\ at(p)[1] \in Definition!Names(v4) /\ at(p) \in new /\ at(p) \notin DOMAIN v5
          /\ place(at(p)) = p
    <3>1. \A p \in Definition!BusPlaces(v4) :
            /\ at(p)[1] \in Definition!Names(v4)
            /\ \A q \in Definition!BusPlaces(v4) : at(p) = at(q) => p = q
      BY <1>3 DEF Definition!BusesFit
    <3>2. \A p \in Definition!BusPlaces(v4) : at(p) \notin DOMAIN v5
      BY <1>1, <3>1 DEF DefinitionInv, Definition!StartKept
    <3> HIDE DEF at
    <3> QED BY <3>1, <3>2
  <2> HIDE DEF place, new, at
  <2>3. /\ \A x \in DOMAIN v5 : x \in DOMAIN v5' /\ v5'[x] = v5[x]
        /\ \A x \in DOMAIN v5' : x \in DOMAIN v5 \/ x \in new
        /\ \A p \in Definition!BusPlaces(v4) :
             at(p) \in DOMAIN v5' /\ v5'[at(p)] = v4.can[p[1]].iface
    BY <2>1, <2>2
  <2>4. Definition!OnItsBuses(v4)'
    BY <1>1, <2>2, <2>3 DEF Definition!OnItsBuses, at
  <2>5. \A x \in new : x[1] \in DOMAIN v1
    <3>1. Definition!Run(v4)
      BY <1>1 DEF DefinitionInv, Definition!StartKept
    <3> QED BY <2>2, <3>1 DEF new, Definition!Run
  <2>6. Definition!TypeOK'
    BY <1>1, <2>1, <2>3, <2>5 DEF DefinitionInv, ServingKept, Definition!TypeOK
  <2>7. Definition!BusesAsDefined'
    BY <1>1, <2>3 DEF DefinitionInv, ServingKept, Definition!BusesAsDefined, Definition!OnItsBuses
  <2>8. Definition!MembersShareATick' /\ Definition!ChannelsAsDefined' /\ Definition!RegionFits'
    <3>1. Definition!MembersShareATick'
      BY <1>1 DEF DefinitionInv, ServingKept, Definition!MembersShareATick, Definition!Run,
         Definition!Lib
    <3>2. Definition!ChannelsAsDefined'
      BY <1>1 DEF DefinitionInv, ServingKept, Definition!ChannelsAsDefined,
         Definition!OnItsChannels
    <3>3. Definition!RegionFits'
      BY <1>1 DEF DefinitionInv, ServingKept, Definition!RegionFits, Definition!Lib
    <3> QED BY <3>1, <3>2, <3>3
  <2>9. Definition!StartKept'
    BY <1>1, <2>1, <2>4 DEF DefinitionInv, Definition!StartKept, Definition!Run,
       Definition!TicksFit, Definition!Lib
  <2> QED BY <2>6, <2>7, <2>8, <2>9 DEF DefinitionInv, ServingKept
<1> QED BY <1>2, <1>3

(* A member is attached to a channel that is free, and finds the region,   *)
(* or makes it, in its own size.                                           *)
LEMMA AttachMemberKeeps ==
  ASSUME DefinitionInv, Definition!AttachMember
  PROVE  DefinitionInv'
<1>1. /\ v3 = "attach" /\ UNCHANGED <<v1, v2, v4, v5>> /\ v4 \in Definitions
      /\ v4.name \notin DOMAIN v2
  BY ZenonT(60) DEF Definition!AttachMember, Definition!Fails, DefinitionInv, ServingKept, Definition!TypeOK,
     Definition!StartKept
<1>2. PICK p \in v8 :
        LET c == v4.shared[p[1]]
            at == c.members[p[2]]
            path == <<v4.name, c.name>>
            writes == at[1] = c.writer
        IN IF Definition!CanAttach(at, path, writes)
           THEN /\ v6' = Definition!With(v6, at, [path |-> path, writes |-> writes])
                /\ v7' = Definition!With(v7, path, Definition!Lib(at[1]).channels[at[2]])
                /\ v8' = v8 \ {p} /\ v3' = v3
           ELSE v3' = "rollback" /\ UNCHANGED <<v6, v7>>
  BY DEF Definition!AttachMember, Definition!Fails
<1> DEFINE c == v4.shared[p[1]]
           at == c.members[p[2]]
           path == <<v4.name, c.name>>
           writes == at[1] = c.writer
           entry == [path |-> path, writes |-> writes]
           size == Definition!Lib(at[1]).channels[at[2]]
<1>3. CASE ~ Definition!CanAttach(at, path, writes)
  <2>1. v3' = "rollback" /\ UNCHANGED <<v6, v7>>
    BY <1>2, <1>3
  <2>2. ServingKept'
    BY <1>1, <2>1, WaitingKeeps DEF DefinitionInv, DefinitionPhases
  <2>3. Definition!StartKept'
    BY <1>1, <2>1 DEF Definition!StartKept, DefinitionInv
  <2> QED BY <2>2, <2>3 DEF DefinitionInv
<1>4. CASE Definition!CanAttach(at, path, writes)
  <2>1. /\ v6' = Definition!With(v6, at, entry) /\ v7' = Definition!With(v7, path, size)
        /\ v8' = v8 \ {p} /\ v3' = "attach"
    BY <1>1, <1>2, <1>4, ZenonT(60)
  <2>2. /\ at[1] \in DOMAIN v1 /\ at \notin DOMAIN v6
        /\ path \in DOMAIN v7 => v7[path] = size
    BY <1>4 DEF Definition!CanAttach
  <2>3. entry.path = path
    OBVIOUS
  <2>4. \A k, n : <<k, n>> = p =>
          /\ v4.shared[k].members[n] = at
          /\ [path |-> <<v4.name, v4.shared[k].name>>,
              writes |-> v4.shared[k].members[n][1] = v4.shared[k].writer] = entry
    OBVIOUS
  <2> HIDE DEF entry, path, size, writes, at, c
  <2>5. /\ DOMAIN v6' = DOMAIN v6 \cup {at} /\ v6'[at] = entry
        /\ \A x \in DOMAIN v6 : v6'[x] = v6[x]
    BY <2>1, <2>2 DEF Definition!With
  <2>6. /\ DOMAIN v7' = DOMAIN v7 \cup {path} /\ v7'[path] = size
        /\ \A x \in DOMAIN v7 : v7'[x] = v7[x]
    BY <2>1, <2>2 DEF Definition!With
  <2>7. Definition!TypeOK'
    BY <1>1, <2>1, <2>2, <2>5 DEF DefinitionInv, ServingKept, Definition!TypeOK
  <2>8. Definition!MembersShareATick' /\ Definition!BusesAsDefined'
    BY <1>1 DEF DefinitionInv, ServingKept, Definition!MembersShareATick, Definition!Run,
       Definition!Lib, Definition!BusesAsDefined, Definition!OnItsBuses
  <2>9. Definition!ChannelsAsDefined'
    <3>1. ASSUME NEW e \in DOMAIN v2 PROVE Definition!OnItsChannels(v2[e], {})'
      <4>1. Definition!OnItsChannels(v2[e], {})
        BY DEF DefinitionInv, ServingKept, Definition!ChannelsAsDefined
      <4>2. \A x \in DOMAIN v6 : x \in DOMAIN v6' /\ v6'[x] = v6[x]
        BY <2>5
      <4> QED BY <1>1, <4>1, <4>2 DEF Definition!OnItsChannels
    <3> QED BY <1>1, <3>1 DEF Definition!ChannelsAsDefined
  <2>10. Definition!RegionFits'
    <3> SUFFICES ASSUME NEW x \in DOMAIN v6'
                 PROVE  /\ v6'[x].path \in DOMAIN v7'
                        /\ v7'[v6'[x].path] = (Definition!Lib(x[1]).channels[x[2]])'
      BY DEF Definition!RegionFits
    <3>1. (Definition!Lib(x[1]).channels[x[2]])' = Definition!Lib(x[1]).channels[x[2]]
      BY <1>1 DEF Definition!Lib
    <3>2. CASE x = at
      BY <2>3, <2>5, <2>6, <3>1, <3>2 DEF size
    <3>3. CASE x # at
      <4>1. /\ x \in DOMAIN v6 /\ v6'[x] = v6[x] /\ v6[x].path \in DOMAIN v7
            /\ v7[v6[x].path] = Definition!Lib(x[1]).channels[x[2]]
        BY <2>5, <3>3 DEF DefinitionInv, ServingKept, Definition!RegionFits
      <4> QED BY <2>6, <3>1, <4>1
    <3> QED BY <3>2, <3>3
  <2>11. Definition!OnItsChannels(v4, v8)'
    <3>1. Definition!OnItsChannels(v4, v8)
      BY <1>1 DEF DefinitionInv, Definition!StartKept
    <3>2. \A k, n : <<k, n>> \notin v8' => <<k, n>> \notin v8 \/ <<k, n>> = p
      BY <2>1
    <3>3. \A x \in DOMAIN v6 : x \in DOMAIN v6' /\ v6'[x] = v6[x]
      BY <2>5
    <3>4. at \in DOMAIN v6' /\ v6'[at] = entry
      BY <2>5
    <3> SUFFICES ASSUME NEW k \in DOMAIN v4.shared, NEW n \in DOMAIN v4.shared[k].members,
                        v4.shared[k].members[n][1] \in Definition!Names(v4), <<k, n>> \notin v8'
                 PROVE  /\ v4.shared[k].members[n] \in DOMAIN v6'
                        /\ v6'[v4.shared[k].members[n]] =
                             [path |-> <<v4.name, v4.shared[k].name>>,
                              writes |-> v4.shared[k].members[n][1] = v4.shared[k].writer]
      BY <1>1, Zenon DEF Definition!OnItsChannels
    <3>5. CASE <<k, n>> = p
      BY <2>4, <3>4, <3>5, ZenonT(60)
    <3>6. CASE <<k, n>> \notin v8
      BY <3>1, <3>3, <3>6, Zenon DEF Definition!OnItsChannels
    <3> QED BY <3>2, <3>5, <3>6
  <2>12. Definition!StartKept'
    BY <1>1, <2>1, <2>11 DEF DefinitionInv, Definition!StartKept, Definition!Run,
       Definition!TicksFit, Definition!Lib, Definition!OnItsBuses
  <2> QED BY <2>7, <2>8, <2>9, <2>10, <2>12 DEF DefinitionInv, ServingKept
<1> QED BY <1>3, <1>4, SMTT(30)

(* What a start has made when nothing is left to do is what the env that   *)
(* serves is said to have.                                                 *)
LEMMA ServeKeeps ==
  ASSUME DefinitionInv, Definition!Serve
  PROVE  DefinitionInv'
<1>1. /\ v3 = "attach" /\ v8 = {} /\ UNCHANGED <<v1, v4, v5, v6, v7>> /\ v4 \in Definitions
  BY DEF Definition!Serve, DefinitionInv, ServingKept, Definition!TypeOK
<1>2. CASE Definition!Names(v4) = {}
  <2>1. v3' = "rollback" /\ UNCHANGED v2
    BY <1>2 DEF Definition!Serve
  <2>2. ServingKept'
    BY <1>1, <2>1, WaitingKeeps DEF DefinitionInv, DefinitionPhases
  <2>3. Definition!StartKept'
    BY <1>1, <2>1 DEF Definition!StartKept, DefinitionInv
  <2> QED BY <2>2, <2>3 DEF DefinitionInv
<1>3. CASE Definition!Names(v4) # {}
  <2>1. v3' = "idle" /\ v2' = Definition!With(v2, v4.name, v4)
    BY <1>3 DEF Definition!Serve
  <2>2. /\ DOMAIN v2' = DOMAIN v2 \cup {v4.name} /\ v2'[v4.name] = v4
        /\ \A e \in DOMAIN v2' : e = v4.name \/ (e \in DOMAIN v2 /\ v2'[e] = v2[e])
    BY <2>1 DEF Definition!With
  <2>3. Definition!TypeOK'
    BY <1>1, <2>1, <2>2 DEF DefinitionInv, ServingKept, Definition!TypeOK
  <2>4. Definition!MembersShareATick'
    BY <1>1, <2>2 DEF DefinitionInv, ServingKept, Definition!StartKept,
       Definition!MembersShareATick, Definition!Run, Definition!TicksFit, Definition!Lib
  <2>5. Definition!BusesAsDefined'
    BY <1>1, <2>2 DEF DefinitionInv, ServingKept, Definition!StartKept,
       Definition!BusesAsDefined, Definition!OnItsBuses
  <2>6. Definition!ChannelsAsDefined'
    <3>1. \A e \in DOMAIN v2' : Definition!OnItsChannels(v2'[e], {})
      BY <1>1, <2>2 DEF DefinitionInv, ServingKept, Definition!StartKept,
         Definition!ChannelsAsDefined
    <3> QED BY <1>1, <3>1 DEF Definition!ChannelsAsDefined, Definition!OnItsChannels
  <2>7. Definition!RegionFits'
    BY <1>1 DEF DefinitionInv, ServingKept, Definition!RegionFits, Definition!Lib
  <2>8. Definition!StartKept'
    BY <2>1 DEF Definition!StartKept
  <2> QED BY <2>3, <2>4, <2>5, <2>6, <2>7, <2>8 DEF DefinitionInv, ServingKept
<1> QED BY <1>2, <1>3

(* Those that go with an env, or with a start that failed, have its name;  *)
(* those other commands close are in no env.                               *)
LEMMA EndsKeep ==
  ASSUME DefinitionInv,
         \/ Definition!RollBack
         \/ \E e \in DOMAIN v2 : Definition!CloseEnv(e)
         \/ \E i \in DOMAIN v1 : Definition!CloseStranger(i)
  PROVE  DefinitionInv'
<1>1. /\ v3 \in DefinitionPhases /\ v4 \in Definitions
      /\ \A e \in DOMAIN v2 : v2[e] \in Definitions /\ v2[e].name = e
      /\ \A e \in DOMAIN v2 : \A i \in Definition!Names(v2[e]) : v1[i].env = e
  BY DEF DefinitionInv, ServingKept, Definition!TypeOK, Definition!MembersShareATick,
     Definition!Run, DefinitionPhases
<1>2. CASE Definition!RollBack
  <2> DEFINE S == {i \in DOMAIN v1 : v1[i].env = v4.name}
  <2>1. v3 = "rollback" /\ v3' = "idle" /\ UNCHANGED <<v2, v4, v7>> /\ Definition!Gone(S)
    BY <1>2 DEF Definition!RollBack, Definition!Moves
  <2>2. v4.name \notin DOMAIN v2
    BY <2>1 DEF DefinitionInv, Definition!StartKept
  <2>3. \A e \in DOMAIN v2 : Definition!Names(v2[e]) \cap S = {}
    BY <1>1, <2>2
  <2> HIDE DEF S
  <2>4. ServingKept'
    <3>1. v3' \in DefinitionPhases
      BY <2>1 DEF DefinitionPhases
    <3> QED BY <1>1, <2>1, <2>3, <3>1, GoneKeeps DEF DefinitionInv
  <2>5. Definition!StartKept'
    BY <2>1 DEF Definition!StartKept
  <2> QED BY <2>4, <2>5 DEF DefinitionInv
<1>3. ASSUME NEW e \in DOMAIN v2, Definition!CloseEnv(e) PROVE DefinitionInv'
  <2> DEFINE S == {i \in DOMAIN v1 : v1[i].env = e}
  <2>1. /\ v3 = "idle" /\ UNCHANGED <<v3, v4, v7>> /\ Definition!Gone(S)
        /\ v2' = Definition!Without(v2, {e})
    BY <1>3 DEF Definition!CloseEnv
  <2>2. \A f \in DOMAIN v2' : f \in DOMAIN v2 /\ v2'[f] = v2[f] /\ f # e
    BY <2>1 DEF Definition!Without
  <2>3. \A f \in DOMAIN v2' : Definition!Names(v2[f]) \cap S = {}
    BY <1>1, <2>2
  <2> HIDE DEF S
  <2>4. ServingKept'
    BY <1>1, <2>1, <2>2, <2>3, GoneKeeps DEF DefinitionInv
  <2>5. Definition!StartKept'
    BY <2>1 DEF Definition!StartKept
  <2> QED BY <2>4, <2>5 DEF DefinitionInv
<1>4. ASSUME NEW i \in DOMAIN v1, Definition!CloseStranger(i) PROVE DefinitionInv'
  <2>1. v1[i].env = Definition!None /\ UNCHANGED <<v2, v3, v4, v7, v8>> /\ Definition!Gone({i})
    BY <1>4 DEF Definition!CloseStranger
  <2>2. \A e \in DOMAIN v2 : Definition!Names(v2[e]) \cap {i} = {}
    BY <1>1, <2>1, DefinitionLimits
  <2>3. /\ ServingKept'
        /\ \A j \in DOMAIN v1 \ {i} : j \in DOMAIN v1' /\ v1'[j] = v1[j]
        /\ \A at \in DOMAIN v5 : at[1] \notin {i} => at \in DOMAIN v5' /\ v5'[at] = v5[at]
        /\ \A at \in DOMAIN v6 : at[1] \notin {i} => at \in DOMAIN v6' /\ v6'[at] = v6[at]
        /\ DOMAIN v5' \subseteq DOMAIN v5
    BY <1>1, <2>1, <2>2, GoneKeeps DEF DefinitionInv
  <2>4. Definition!Run(v4) => \A j \in Definition!Names(v4) : j \in DOMAIN v1 /\ j # i
    BY <1>1, <2>1, DefinitionLimits DEF Definition!Run
  <2>5. Definition!Run(v4) =>
          /\ Definition!Run(v4)'
          /\ Definition!TicksFit(v4) => Definition!TicksFit(v4)'
    BY <2>1, <2>3, <2>4 DEF Definition!Run, Definition!TicksFit, Definition!Lib
  <2>6. Definition!Run(v4) /\ Definition!OnItsBuses(v4) => Definition!OnItsBuses(v4)'
    BY <2>1, <2>3, <2>4 DEF Definition!OnItsBuses
  <2>7. Definition!Run(v4) /\ Definition!OnItsChannels(v4, v8) => Definition!OnItsChannels(v4, v8)'
    <3>1. Definition!Run(v4) => \A at \in DOMAIN v6 : at[1] \in Definition!Names(v4)
            => at \in DOMAIN v6' /\ v6'[at] = v6[at]
      BY <2>3, <2>4
    <3> QED BY <2>1, <3>1 DEF Definition!OnItsChannels
  <2>8. Definition!StartKept'
    BY <2>1, <2>3, <2>5, <2>6, <2>7 DEF DefinitionInv, Definition!StartKept
  <2> QED BY <2>3, <2>8 DEF DefinitionInv
<1> QED BY <1>2, <1>3, <1>4

LEMMA LoadStrangerKeeps ==
  ASSUME DefinitionInv, NEW i, Definition!LoadStranger(i)
  PROVE  DefinitionInv'
<1>1. /\ i \notin DOMAIN v1 /\ UNCHANGED <<v2, v3, v4, v5, v6, v7, v8>>
      /\ v1' = Definition!With(v1, i, [lib |-> Strangers[i], env |-> Definition!None])
  BY DEF Definition!LoadStranger
<1>2. \A j \in DOMAIN v1 : j \in DOMAIN v1' /\ v1'[j] = v1[j]
  BY <1>1 DEF Definition!With
<1>3. v3 \in DefinitionPhases /\ v4 \in Definitions
  BY DEF DefinitionInv, ServingKept, Definition!TypeOK, DefinitionPhases
<1>4. ServingKept'
  BY <1>1, <1>2, <1>3, GrowingKeeps DEF DefinitionInv
<1>5. Definition!Run(v4) =>
        /\ Definition!Run(v4)'
        /\ Definition!TicksFit(v4) => Definition!TicksFit(v4)'
  BY <1>1, <1>2 DEF Definition!Run, Definition!TicksFit, Definition!Lib
<1>6. /\ Definition!OnItsBuses(v4) => Definition!OnItsBuses(v4)'
      /\ Definition!OnItsChannels(v4, v8) => Definition!OnItsChannels(v4, v8)'
  BY <1>1 DEF Definition!OnItsBuses, Definition!OnItsChannels
<1>7. Definition!StartKept'
  BY <1>1, <1>5, <1>6 DEF DefinitionInv, Definition!StartKept
<1> QED BY <1>4, <1>7 DEF DefinitionInv

LEMMA DefinitionStep ==
  DefinitionInv /\ [Definition!Next]_(Definition!vars) => DefinitionInv'
<1> SUFFICES ASSUME DefinitionInv, [Definition!Next]_(Definition!vars) PROVE DefinitionInv'
  OBVIOUS
<1>1. CASE \/ Definition!Begin \/ Definition!CheckDefinition \/ Definition!CheckInfo
           \/ Definition!PrepareChannels \/ Definition!CheckChannel
  BY <1>1, ChecksKeep DEF Definition!Begin
<1>2. CASE Definition!StartInstances
  BY <1>2, StartInstancesKeeps
<1>3. CASE Definition!AttachBuses
  BY <1>3, AttachBusesKeeps
<1>4. CASE Definition!AttachMember
  BY <1>4, AttachMemberKeeps
<1>5. CASE Definition!Serve
  BY <1>5, ServeKeeps
<1>6. CASE \/ Definition!RollBack
           \/ \E e \in DOMAIN v2 : Definition!CloseEnv(e)
           \/ \E i \in DOMAIN v1 : Definition!CloseStranger(i)
  BY <1>6, EndsKeep
<1>7. CASE \E i \in DOMAIN Strangers : Definition!LoadStranger(i)
  BY <1>7, LoadStrangerKeeps
<1>8. CASE UNCHANGED Definition!vars
  <2>1. UNCHANGED <<v1, v2, v3, v4, v5, v6, v7, v8>>
    BY <1>8 DEF Definition!vars
  <2>2. v3 \in DefinitionPhases /\ v4 \in Definitions
    BY DEF DefinitionInv, ServingKept, Definition!TypeOK, DefinitionPhases
  <2>3. ServingKept'
    BY <2>1, <2>2, WaitingKeeps DEF DefinitionInv
  <2>4. Definition!StartKept'
    BY <2>1 DEF DefinitionInv, Definition!StartKept, Definition!Run, Definition!TicksFit,
       Definition!Lib, Definition!OnItsBuses, Definition!OnItsChannels
  <2> QED BY <2>3, <2>4 DEF DefinitionInv
<1> QED
  BY <1>1, <1>2, <1>3, <1>4, <1>5, <1>6, <1>7, <1>8 DEF Definition!Next, Definition!Work

(* What is still to be attached is of the definition.                      *)
TodoKept == v3 = "attach" => v8 \subseteq Definition!ChannelPlaces(v4)

(* An attachment that a definition says, apart from who is attached.       *)
ChannelOf(at, entry, d) ==
  \E k \in DOMAIN d.shared : \E n \in DOMAIN d.shared[k].members :
    /\ d.shared[k].members[n] = at
    /\ entry = [path |-> <<d.name, d.shared[k].name>>, writes |-> at[1] = d.shared[k].writer]

(* What was attached under a definition that goes on standing stays so.    *)
LEMMA StandingStays ==
  ASSUME Definition!TypeOK, Definition!NothingElse, UNCHANGED <<v5, v6>>,
         \A i \in DOMAIN v1 : i \in DOMAIN v1' /\ v1'[i] = v1[i],
         \A d \in Definition!Standing : d \in Definition!Standing'
  PROVE  Definition!NothingElse'
<1>1. \A at \in DOMAIN v5 \cup DOMAIN v6 : v1'[at[1]] = v1[at[1]]
  BY DEF Definition!TypeOK
<1>2. ASSUME NEW at \in DOMAIN v5
      PROVE  \E d \in Definition!Standing' : v1'[at[1]].env = d.name /\ Definition!BusDefined(at, d)'
  <2>1. PICK d \in Definition!Standing : v1[at[1]].env = d.name /\ Definition!BusDefined(at, d)
    BY <1>2 DEF Definition!NothingElse
  <2>2. Definition!BusDefined(at, d)'
    BY <2>1 DEF Definition!BusDefined
  <2> QED BY <1>1, <2>1, <2>2
<1>3. ASSUME NEW at \in DOMAIN v6, v1'[at[1]].env = v6[at].path[1]
      PROVE  \E d \in Definition!Standing' : v1'[at[1]].env = d.name /\ Definition!ChannelDefined(at, d)'
  <2>1. v1[at[1]].env = v6[at].path[1]
    BY <1>1, <1>3
  <2>2. PICK d \in Definition!Standing : v1[at[1]].env = d.name /\ Definition!ChannelDefined(at, d)
    BY <1>3, <2>1 DEF Definition!NothingElse
  <2>3. Definition!ChannelDefined(at, d)'
    BY <2>2 DEF Definition!ChannelDefined
  <2> QED BY <1>1, <2>2, <2>3
<1> QED BY <1>2, <1>3 DEF Definition!NothingElse

(* A start adds what its own definition says.                              *)
LEMMA AttachBusesElse ==
  ASSUME DefinitionInv, Definition!NothingElse, Definition!AttachBuses, v3' = "channels"
  PROVE  Definition!NothingElse'
<1> DEFINE at(p) == Definition!BusAt(v4, p)
           new == {at(p) : p \in Definition!BusPlaces(v4)}
           place(x) == CHOOSE p \in Definition!BusPlaces(v4) : at(p) = x
<1>1. /\ v3 = "buses" /\ UNCHANGED <<v1, v2, v4, v6>>
      /\ v5' = [x \in DOMAIN v5 \cup new |->
                  IF x \in DOMAIN v5 THEN v5[x] ELSE v4.can[place(x)[1]].iface]
      /\ \A p \in Definition!BusPlaces(v4) : at(p)[1] \in Definition!Names(v4)
  BY DEF Definition!AttachBuses, Definition!Fails, Definition!BusesFit
<1>2. \A x \in new : place(x) \in Definition!BusPlaces(v4) /\ at(place(x)) = x
  OBVIOUS
<1>3. v4 \in Definition!Standing' /\ \A d \in Definition!Standing : d \in Definition!Standing'
  BY <1>1 DEF Definition!Standing
<1>4. \A i \in Definition!Names(v4) : v1[i].env = v4.name
  BY <1>1 DEF DefinitionInv, Definition!StartKept, Definition!Run
<1>5. \A x \in new : x[1] \in Definition!Names(v4)
  BY <1>1
<1> HIDE DEF at, new, place
<1>6. ASSUME NEW x \in DOMAIN v5'
      PROVE  \E d \in Definition!Standing' : v1'[x[1]].env = d.name /\ Definition!BusDefined(x, d)'
  <2>1. CASE x \in DOMAIN v5
    <3>1. PICK d \in Definition!Standing : v1[x[1]].env = d.name /\ Definition!BusDefined(x, d)
      BY <2>1 DEF Definition!NothingElse
    <3>2. v5'[x] = v5[x]
      BY <1>1, <2>1
    <3>3. Definition!BusDefined(x, d)'
      BY <3>1, <3>2 DEF Definition!BusDefined
    <3> QED BY <1>1, <1>3, <3>1, <3>3
  <2>2. CASE x \notin DOMAIN v5
    <3>1. x \in new /\ v5'[x] = v4.can[place(x)[1]].iface
      BY <1>1, <2>2
    <3>2. Definition!BusAt(v4, place(x)) = x /\ place(x) \in Definition!BusPlaces(v4)
      BY <1>2, <3>1 DEF at
    <3>3. Definition!BusDefined(x, v4)'
      BY <1>1, <3>1, <3>2 DEF Definition!BusDefined, Definition!BusAt, Definition!BusPlaces
    <3>4. v1[x[1]].env = v4.name
      BY <1>4, <1>5, <3>1
    <3> QED BY <1>1, <1>3, <3>3, <3>4
  <2> QED BY <2>1, <2>2
<1>7. ASSUME NEW x \in DOMAIN v6, v1[x[1]].env = v6[x].path[1]
      PROVE  \E d \in Definition!Standing' : v1[x[1]].env = d.name /\ Definition!ChannelDefined(x, d)'
  <2>1. PICK d \in Definition!Standing : v1[x[1]].env = d.name /\ Definition!ChannelDefined(x, d)
    BY <1>7 DEF Definition!NothingElse
  <2>2. Definition!ChannelDefined(x, d)'
    BY <1>1, <2>1 DEF Definition!ChannelDefined
  <2> QED BY <1>3, <2>1, <2>2
<1>8. /\ v6' = v6 /\ v1' = v1
  BY <1>1
<1> QED BY <1>6, <1>7, <1>8 DEF Definition!NothingElse

LEMMA AttachMemberElse ==
  ASSUME DefinitionInv, Definition!NothingElse, TodoKept, Definition!AttachMember, v3' = "attach"
  PROVE  Definition!NothingElse'
<1>1. v3 = "attach" /\ UNCHANGED <<v1, v2, v4, v5>>
  BY Zenon DEF Definition!AttachMember, Definition!Fails
<1>2. PICK p \in v8 :
        /\ p[2] # 0
        /\ LET c == v4.shared[p[1]]
               at == c.members[p[2]]
               path == <<v4.name, c.name>>
               writes == at[1] = c.writer
           IN IF Definition!CanAttach(at, path, writes)
              THEN v6' = Definition!With(v6, at, [path |-> path, writes |-> writes])
              ELSE v3' = "rollback"
  BY Zenon DEF Definition!AttachMember, Definition!Fails
<1> DEFINE c == v4.shared[p[1]]
           at == c.members[p[2]]
           entry == [path |-> <<v4.name, c.name>>, writes |-> at[1] = c.writer]
<1>3. /\ v6' = Definition!With(v6, at, entry) /\ at \notin DOMAIN v6
      /\ p[1] \in DOMAIN v4.shared /\ p[2] \in DOMAIN v4.shared[p[1]].members
  <2>1. p \in Definition!ChannelPlaces(v4)
    BY <1>1 DEF TodoKept
  <2>2. PICK k \in DOMAIN v4.shared : p \in {k} \X ({0} \cup DOMAIN v4.shared[k].members)
    BY <2>1 DEF Definition!ChannelPlaces
  <2>3. p[1] = k /\ (p[2] = 0 \/ p[2] \in DOMAIN v4.shared[k].members)
    BY <2>2
  <2>4. Definition!CanAttach(at, <<v4.name, c.name>>, at[1] = c.writer)
    <3>1. v3' # "rollback"
      OBVIOUS
    <3> QED BY <1>2, <3>1, Zenon
  <2>5. at \notin DOMAIN v6
    BY <2>4, Zenon DEF Definition!CanAttach
  <2>6. v6' = Definition!With(v6, at, entry)
    BY <1>2, <2>4, Zenon
  <2>7. p[2] # 0
    BY <1>2, Zenon
  <2> HIDE DEF at, entry, c
  <2> QED BY <2>3, <2>5, <2>6, <2>7
<1>4. ChannelOf(at, entry, v4)
  BY <1>3, Zenon DEF ChannelOf
<1>5. entry.path = <<v4.name, c.name>>
  OBVIOUS
<1>6. v4 \in Definition!Standing' /\ \A d \in Definition!Standing : d \in Definition!Standing'
  BY <1>1 DEF Definition!Standing
<1> HIDE DEF entry, at, c
<1>7. /\ DOMAIN v6' = DOMAIN v6 \cup {at} /\ v6'[at] = entry
      /\ \A x \in DOMAIN v6 : v6'[x] = v6[x]
  BY <1>3 DEF Definition!With
<1>8. ASSUME NEW x \in DOMAIN v6', v1[x[1]].env = v6'[x].path[1]
      PROVE  \E d \in Definition!Standing' : v1[x[1]].env = d.name /\ Definition!ChannelDefined(x, d)'
  <2>1. CASE x \in DOMAIN v6
    <3>1. v6'[x] = v6[x]
      BY <1>7, <2>1
    <3>2. PICK d \in Definition!Standing : v1[x[1]].env = d.name /\ Definition!ChannelDefined(x, d)
      BY <1>8, <2>1, <3>1 DEF Definition!NothingElse
    <3>3. Definition!ChannelDefined(x, d)'
      BY <3>1, <3>2 DEF Definition!ChannelDefined
    <3> QED BY <1>6, <3>2, <3>3
  <2>2. CASE x \notin DOMAIN v6
    <3>1. x = at /\ v6'[x] = entry
      BY <1>7, <2>2
    <3>2. v1[x[1]].env = v4.name
      BY <1>5, <1>8, <3>1
    <3>3. ChannelOf(x, v6'[x], v4)
      BY <1>4, <3>1
    <3>4. Definition!ChannelDefined(x, v4)'
      BY <1>1, <3>3 DEF Definition!ChannelDefined, ChannelOf
    <3> QED BY <1>1, <1>6, <3>2, <3>4
  <2> QED BY <2>1, <2>2
<1>9. ASSUME NEW x \in DOMAIN v5
      PROVE  \E d \in Definition!Standing' : v1[x[1]].env = d.name /\ Definition!BusDefined(x, d)'
  <2>1. PICK d \in Definition!Standing : v1[x[1]].env = d.name /\ Definition!BusDefined(x, d)
    BY <1>9 DEF Definition!NothingElse
  <2>2. Definition!BusDefined(x, d)'
    BY <1>1, <2>1 DEF Definition!BusDefined
  <2> QED BY <1>6, <2>1, <2>2
<1>10. v5' = v5 /\ v1' = v1
  BY <1>1
<1> QED BY <1>8, <1>9, <1>10 DEF Definition!NothingElse

(* With the instances that end, what was attached under their definition   *)
(* goes, and nothing else.                                                 *)
LEMMA GoneElse ==
  ASSUME Definition!TypeOK, Definition!NothingElse, NEW S, Definition!Gone(S),
         \A d \in Definition!Standing :
           d \in Definition!Standing' \/ \A i \in DOMAIN v1 : v1[i].env = d.name => i \in S
  PROVE  Definition!NothingElse'
<1>1. /\ v1' = Definition!Without(v1, S)
      /\ v5' = Definition!Without(v5, {at \in DOMAIN v5 : at[1] \in S})
      /\ v6' = Definition!Without(v6, {at \in DOMAIN v6 : at[1] \in S})
  BY Zenon DEF Definition!Gone
<1>2. /\ DOMAIN v1' = DOMAIN v1 \ S /\ \A i \in DOMAIN v1 \ S : v1'[i] = v1[i]
  BY <1>1 DEF Definition!Without
<1>3. \A at \in DOMAIN v5' : at \in DOMAIN v5 /\ v5'[at] = v5[at] /\ at[1] \notin S
  BY <1>1 DEF Definition!Without
<1>4. \A at \in DOMAIN v6' : at \in DOMAIN v6 /\ v6'[at] = v6[at] /\ at[1] \notin S
  BY <1>1 DEF Definition!Without
<1>5. \A at \in DOMAIN v5 \cup DOMAIN v6 : at[1] \in DOMAIN v1
  BY DEF Definition!TypeOK
<1>6. ASSUME NEW at \in DOMAIN v5'
      PROVE  \E d \in Definition!Standing' : v1'[at[1]].env = d.name /\ Definition!BusDefined(at, d)'
  <2>1. at \in DOMAIN v5 /\ v5'[at] = v5[at] /\ v1'[at[1]] = v1[at[1]]
        /\ at[1] \in DOMAIN v1 \ S
    BY <1>2, <1>3, <1>5, <1>6
  <2>2. PICK d \in Definition!Standing : v1[at[1]].env = d.name /\ Definition!BusDefined(at, d)
    BY <2>1 DEF Definition!NothingElse
  <2>3. Definition!BusDefined(at, d)'
    BY <2>1, <2>2 DEF Definition!BusDefined
  <2>4. d \in Definition!Standing' /\ v1'[at[1]].env = d.name
    BY <2>1, <2>2
  <2> QED BY <2>3, <2>4
<1>7. ASSUME NEW at \in DOMAIN v6', v1'[at[1]].env = v6'[at].path[1]
      PROVE  \E d \in Definition!Standing' : v1'[at[1]].env = d.name /\ Definition!ChannelDefined(at, d)'
  <2>1. at \in DOMAIN v6 /\ v6'[at] = v6[at] /\ v1'[at[1]] = v1[at[1]]
        /\ at[1] \in DOMAIN v1 \ S
    BY <1>2, <1>4, <1>5, <1>7
  <2>2. PICK d \in Definition!Standing : v1[at[1]].env = d.name /\ Definition!ChannelDefined(at, d)
    BY <1>7, <2>1 DEF Definition!NothingElse
  <2>3. Definition!ChannelDefined(at, d)'
    BY <2>1, <2>2 DEF Definition!ChannelDefined
  <2>4. d \in Definition!Standing' /\ v1'[at[1]].env = d.name
    BY <2>1, <2>2
  <2> QED BY <2>3, <2>4
<1> QED BY <1>6, <1>7 DEF Definition!NothingElse

LEMMA ElseInit == Definition!Init => Definition!NothingElse /\ TodoKept
BY DEF Definition!Init, Definition!NothingElse, TodoKept

LEMMA TodoStep ==
  ASSUME DefinitionInv, TodoKept, [Definition!Next]_(Definition!vars)
  PROVE  TodoKept'
<1> SUFFICES ASSUME v3' = "attach" PROVE v8' \subseteq Definition!ChannelPlaces(v4')
  BY DEF TodoKept
<1>1. CASE Definition!PrepareChannels
  BY <1>1 DEF Definition!PrepareChannels
<1>2. CASE Definition!CheckChannel \/ Definition!AttachMember
  <2>0. v3 = "attach" /\ v4' = v4
    BY <1>2 DEF Definition!CheckChannel, Definition!AttachMember, Definition!Fails
  <2>1. v3 = "attach" /\ v4' = v4 /\ v8' \subseteq v8
    <3>1. \/ v8' = v8 \/ \E p \in v8 : v8' = v8 \ {p}
      BY <1>2, Zenon DEF Definition!CheckChannel, Definition!AttachMember, Definition!Fails
    <3> QED BY <2>0, <3>1
  <2> QED BY <2>1 DEF TodoKept
<1>3. CASE UNCHANGED <<v3, v4, v8>>
  BY <1>3 DEF TodoKept
<1>4. CASE ~ (Definition!PrepareChannels \/ Definition!CheckChannel \/ Definition!AttachMember)
  <2>1. \/ UNCHANGED <<v3, v4, v8>> \/ v3' # "attach"
    BY <1>4 DEF Definition!Next, Definition!Work, Definition!vars, Definition!Begin,
       Definition!Start, Definition!Moves, Definition!CheckDefinition, Definition!StartInstances,
       Definition!CheckInfo, Definition!AttachBuses, Definition!Serve, Definition!RollBack,
       Definition!CloseEnv, Definition!LoadStranger, Definition!CloseStranger,
       Definition!Passes, Definition!Fails
  <2> QED BY <1>3, <2>1
<1> QED BY <1>1, <1>2, <1>4

LEMMA ElseStep ==
  ASSUME DefinitionInv, Definition!NothingElse, TodoKept, [Definition!Next]_(Definition!vars)
  PROVE  Definition!NothingElse'
<1>0. /\ Definition!TypeOK
      /\ \A e \in DOMAIN v2 : v2[e].name = e /\ v2[e] \in Definitions
      /\ v3 # "idle" => v4.name \notin DOMAIN v2
  BY DEF DefinitionInv, ServingKept, Definition!TypeOK, Definition!StartKept
<1>1. CASE \E d \in Definitions : Definition!Start(d)
  <2>1. UNCHANGED <<v1, v2, v5, v6>> /\ v3 = "idle"
    BY <1>1 DEF Definition!Start, Definition!Moves
  <2>2. \A d \in Definition!Standing : d \in Definition!Standing'
    BY <2>1 DEF Definition!Standing
  <2> QED BY <1>0, <2>1, <2>2, StandingStays
<1>2. CASE \/ Definition!CheckDefinition \/ Definition!CheckInfo
           \/ Definition!PrepareChannels \/ Definition!CheckChannel
  <2>1. /\ UNCHANGED <<v1, v2, v4, v5, v6>>
        /\ v3 \in {"channels", "attach", "rollback"} => v3' \in {"channels", "attach", "rollback"}
    BY <1>2 DEF Definition!CheckDefinition, Definition!CheckInfo, Definition!PrepareChannels,
       Definition!CheckChannel, Definition!Passes, Definition!Fails
  <2>2. \A d \in Definition!Standing : d \in Definition!Standing'
    BY <2>1 DEF Definition!Standing
  <2> QED BY <1>0, <2>1, <2>2, StandingStays
<1>3. CASE Definition!StartInstances
  <2>1. UNCHANGED <<v2, v5, v6>> /\ v3 = "instances"
    BY <1>3 DEF Definition!StartInstances
  <2>2. \A i \in DOMAIN v1 : i \in DOMAIN v1' /\ v1'[i] = v1[i]
    BY <1>3 DEF Definition!StartInstances
  <2>3. \A d \in Definition!Standing : d \in Definition!Standing'
    BY <2>1 DEF Definition!Standing
  <2> QED BY <1>0, <2>1, <2>2, <2>3, StandingStays
<1>4. CASE Definition!AttachBuses
  <2>1. CASE v3' = "channels"
    BY <1>4, <2>1, AttachBusesElse
  <2>2. CASE v3' # "channels"
    <3>1. UNCHANGED <<v1, v2, v5, v6>> /\ v3 = "buses"
      BY <1>4, <2>2 DEF Definition!AttachBuses, Definition!Fails
    <3>2. \A d \in Definition!Standing : d \in Definition!Standing'
      BY <3>1 DEF Definition!Standing
    <3> QED BY <1>0, <3>1, <3>2, StandingStays
  <2> QED BY <2>1, <2>2
<1>5. CASE Definition!AttachMember
  <2>1. CASE v3' = "attach"
    BY <1>5, <2>1, AttachMemberElse
  <2>2. CASE v3' # "attach"
    <3>1. UNCHANGED <<v1, v2, v4, v5, v6>> /\ v3' = "rollback"
      BY <1>5, <2>2 DEF Definition!AttachMember, Definition!Fails
    <3>2. \A d \in Definition!Standing : d \in Definition!Standing'
      BY <3>1 DEF Definition!Standing
    <3> QED BY <1>0, <3>1, <3>2, StandingStays
  <2> QED BY <2>1, <2>2
<1>6. CASE Definition!Serve
  <2>1. /\ UNCHANGED <<v1, v4, v5, v6>> /\ v3 = "attach"
        /\ \/ v3' = "rollback" /\ v2' = v2
           \/ v2' = Definition!With(v2, v4.name, v4)
    BY <1>6 DEF Definition!Serve
  <2>2. \A d \in Definition!Standing : d = v4 \/ \E e \in DOMAIN v2 : d = v2[e]
    BY DEF Definition!Standing
  <2>3. CASE v3' = "rollback" /\ v2' = v2
    <3>1. \A d \in Definition!Standing : d \in Definition!Standing'
      BY <2>1, <2>3 DEF Definition!Standing
    <3> QED BY <1>0, <2>1, <3>1, StandingStays
  <2>4. CASE v2' = Definition!With(v2, v4.name, v4)
    <3>1. /\ DOMAIN v2' = DOMAIN v2 \cup {v4.name} /\ v2'[v4.name] = v4
          /\ \A e \in DOMAIN v2 : v2'[e] = v2[e]
      BY <1>0, <2>1, <2>4 DEF Definition!With
    <3>2. \A d \in Definition!Standing : d \in Definition!Standing'
      BY <2>2, <3>1 DEF Definition!Standing
    <3> QED BY <1>0, <2>1, <3>2, StandingStays
  <2> QED BY <2>1, <2>3, <2>4
<1>7. CASE Definition!RollBack
  <2> DEFINE S == {i \in DOMAIN v1 : v1[i].env = v4.name}
  <2>1. v3 = "rollback" /\ v2' = v2 /\ Definition!Gone(S)
    BY <1>7 DEF Definition!RollBack, Definition!Moves
  <2>2. \A i \in DOMAIN v1 : v1[i].env = v4.name => i \in S
    OBVIOUS
  <2>3. \A d \in Definition!Standing : d = v4 \/ d \in Definition!Standing'
    BY <2>1 DEF Definition!Standing
  <2> HIDE DEF S
  <2> QED BY <1>0, <2>1, <2>2, <2>3, GoneElse
<1>8. ASSUME NEW e \in DOMAIN v2, Definition!CloseEnv(e) PROVE Definition!NothingElse'
  <2> DEFINE S == {i \in DOMAIN v1 : v1[i].env = e}
  <2>1. v3 = "idle" /\ v2' = Definition!Without(v2, {e}) /\ Definition!Gone(S)
    BY <1>8 DEF Definition!CloseEnv
  <2>2. \A i \in DOMAIN v1 : v1[i].env = e => i \in S
    OBVIOUS
  <2>3. \A f \in DOMAIN v2 : f # e => f \in DOMAIN v2' /\ v2'[f] = v2[f]
    BY <2>1 DEF Definition!Without
  <2>4. ASSUME NEW d \in Definition!Standing PROVE d.name = e \/ d \in Definition!Standing'
    <3>1. PICK f \in DOMAIN v2 : d = v2[f]
      BY <2>1 DEF Definition!Standing
    <3>2. CASE f = e
      BY <1>0, <3>1, <3>2
    <3>3. CASE f # e
      BY <2>3, <3>1, <3>3 DEF Definition!Standing
    <3> QED BY <3>2, <3>3
  <2> HIDE DEF S
  <2> QED BY <1>0, <2>1, <2>2, <2>4, GoneElse
<1>9. ASSUME NEW i \in DOMAIN v1, Definition!CloseStranger(i) PROVE Definition!NothingElse'
  <2>1. v1[i].env = Definition!None /\ UNCHANGED <<v2, v3, v4>> /\ Definition!Gone({i})
    BY <1>9 DEF Definition!CloseStranger
  <2>2. \A d \in Definition!Standing : d \in Definition!Standing'
    BY <2>1 DEF Definition!Standing
  <2> QED BY <1>0, <2>1, <2>2, GoneElse
<1>10. ASSUME NEW i, Definition!LoadStranger(i) PROVE Definition!NothingElse'
  <2>1. /\ i \notin DOMAIN v1 /\ UNCHANGED <<v2, v3, v4, v5, v6>>
        /\ v1' = Definition!With(v1, i, [lib |-> Strangers[i], env |-> Definition!None])
    BY <1>10 DEF Definition!LoadStranger
  <2>2. \A j \in DOMAIN v1 : j \in DOMAIN v1' /\ v1'[j] = v1[j]
    BY <2>1 DEF Definition!With
  <2>3. \A d \in Definition!Standing : d \in Definition!Standing'
    BY <2>1 DEF Definition!Standing
  <2> QED BY <1>0, <2>1, <2>2, <2>3, StandingStays
<1>11. CASE UNCHANGED Definition!vars
  <2>1. UNCHANGED <<v1, v2, v3, v4, v5, v6>>
    BY <1>11 DEF Definition!vars
  <2>2. \A d \in Definition!Standing : d \in Definition!Standing'
    BY <2>1 DEF Definition!Standing
  <2> QED BY <1>0, <2>1, <2>2, StandingStays
<1> QED
  BY <1>1, <1>2, <1>3, <1>4, <1>5, <1>6, <1>7, <1>8, <1>9, <1>10, <1>11
  DEF Definition!Next, Definition!Work, Definition!Begin

(* A writer of the env is one of its definition's, and a channel of the    *)
(* definition is known by its name.                                        *)
LEMMA WritersFollow ==
  ASSUME DefinitionInv, Definition!NothingElse
  PROVE  Definition!WritersAsDefined
<1> SUFFICES ASSUME NEW e \in DOMAIN v2, NEW k \in DOMAIN v2[e].shared, NEW at \in DOMAIN v6,
                    v6[at].path = <<e, v2[e].shared[k].name>>, v6[at].writes, v1[at[1]].env = e
             PROVE  at[1] = v2[e].shared[k].writer
  BY DEF Definition!WritersAsDefined
<1>1. /\ v2[e] \in Definitions /\ \A f \in DOMAIN v2 : v2[f].name = f
      /\ v3 # "idle" => v4.name \notin DOMAIN v2
  BY DEF DefinitionInv, ServingKept, Definition!TypeOK, Definition!StartKept
<1>2. PICK d \in Definition!Standing : e = d.name /\ Definition!ChannelDefined(at, d)
  BY DEF Definition!NothingElse
<1>3. d = v2[e]
  BY <1>1, <1>2 DEF Definition!Standing
<1>4. PICK j \in DOMAIN d.shared :
        v6[at] = [path |-> <<d.name, d.shared[j].name>>, writes |-> at[1] = d.shared[j].writer]
  BY <1>2 DEF Definition!ChannelDefined
<1>5. v6[at].path = <<d.name, d.shared[j].name>> /\ at[1] = d.shared[j].writer
  <2> DEFINE writes == at[1] = d.shared[j].writer
             path == <<d.name, d.shared[j].name>>
  <2>1. v6[at] = [path |-> path, writes |-> writes]
    BY <1>4
  <2> HIDE DEF writes, path
  <2>2. v6[at].path = path /\ v6[at].writes = writes
    BY <2>1
  <2> QED BY <2>2 DEF writes, path
<1>6. d.shared[j].name = d.shared[k].name
  BY <1>3, <1>5
<1>7. j = k
  BY <1>1, <1>3, <1>6, DefinitionLimits
<1> QED BY <1>3, <1>5, <1>7

(* Whatever the definitions in the config, the members of an env that      *)
(* serves run in it and share a tick; they are attached to the interfaces  *)
(* and regions as it defines them, and nothing else is attached there but  *)
(* under another definition, or at a region by an instance not of the env; *)
(* and a region, also one that was left behind, has the size that          *)
(* everybody attached to it expects (run_env_start, bootstrap_inner,       *)
(* attach_shared_channel, SharedAttach).                                   *)
THEOREM DefinitionsKept == Spec => []DefinitionKept
<1> DEFINE Inv ==
      part = "definition" => DefinitionInv /\ Definition!NothingElse /\ TodoKept
<1>1. Init => Inv
  BY DefinitionInit, ElseInit DEF Init
<1>2. Inv /\ [Next]_vars => Inv'
  <2>1. ASSUME Inv, [Next]_vars PROVE Inv'
    <3>1. part' = part /\ (part = "definition" => [Definition!Next]_(Definition!vars))
      BY <2>1, PartsMove
    <3> QED BY <2>1, <3>1, DefinitionStep, ElseStep, TodoStep
  <2> QED BY <2>1
<1>3. Inv => DefinitionKept
  BY WritersFollow DEF DefinitionKept, DefinitionInv, ServingKept
<1> QED BY <1>1, <1>2, <1>3, PTL DEF Spec

-----------------------------------------------------------------------------
(* Frames.                                                                 *)

(* A set of numbers that has an upper bound has a greatest.                *)
LEMMA GreatestOf ==
  ASSUME NEW N \in Nat, NEW C, C \subseteq 1 .. N, C # {}
  PROVE  \E n \in C : \A m \in C : m <= n
<1> DEFINE T == {n .. N : n \in C}
<1>1. IsWellFoundedOn(StrictSubsetOrdering(1 .. N), FiniteSubsetsOf(1 .. N))
  BY FS_StrictSubsetOrderingWellFounded
<1>2. T \subseteq FiniteSubsetsOf(1 .. N) /\ T # {}
  <2>1. \A n \in C : n .. N \subseteq 1 .. N
    OBVIOUS
  <2>2. \A n \in C : IsFiniteSet(n .. N)
    BY FS_Interval
  <2> QED BY <2>1, <2>2 DEF FiniteSubsetsOf
<1>3. \E x \in T : \A y \in T : ~ (<<y, x>> \in StrictSubsetOrdering(1 .. N))
  <2> HIDE DEF T
  <2> QED BY <1>1, <1>2, WFMin
<1>4. PICK x \in T : \A y \in T : ~ (<<y, x>> \in StrictSubsetOrdering(1 .. N))
  BY <1>3
<1>5. PICK n \in C : x = n .. N
  OBVIOUS
<1>6. ASSUME NEW m \in C, m > n PROVE FALSE
  <2>1. m .. N \in SUBSET (1 .. N) /\ n .. N \in SUBSET (1 .. N)
    OBVIOUS
  <2>2. m .. N \subseteq n .. N /\ m .. N # n .. N
    <3>1. n \in n .. N /\ n \notin m .. N
      BY <1>6
    <3> QED BY <1>6, <3>1
  <2>3. <<m .. N, n .. N>> \in StrictSubsetOrdering(1 .. N)
    BY <2>1, <2>2 DEF StrictSubsetOrdering
  <2> QED BY <1>4, <1>5, <2>3
<1> QED BY <1>6

(* What lies at a station's socket: on the wire a form the socket reads,   *)
(* and read as what was sent.                                              *)
Wire == [form : {"classic", "fd"}, id : Nat, size : Nat, bits : SUBSET Can!Flags]
ReadWell(e) ==
  LET now == Can!Decode(e.wire)
  IN /\ now.id = e.was.id /\ now.len = e.was.len
     /\ now.flags \in {e.was.flags, e.was.flags \cup {"FD"}, e.was.flags \ {"BRS", "ESI"}}
     /\ "FD" \in e.was.flags => now.flags = e.was.flags
Readable(s) ==
  {e \in [wire : Wire, was : Can!Frame] :
     /\ e.wire.form = "fd" => Can!Fd(s) /\ e.wire.size \in 0..64
     /\ e.wire.form = "classic" => e.wire.size \in 0..8
     /\ ReadWell(e)}

(* The frames a member's tick has put on the bus so far were all legal,    *)
(* and each station that hears them has them.                              *)
Ticks ==
  [asked : Seq(BusFrames), made : Nat, ok : BOOLEAN, reached : [Can!Stations -> SUBSET Nat]]

TickInv(m, t) ==
  /\ t.made <= Len(t.asked)
  /\ \A n \in 1 .. t.made : Can!Valid(m, t.asked[n])
  /\ \A s \in Can!Stations : t.reached[s] = {n \in 1 .. t.made : Can!Hears(s, m, t.asked[n])}

CanInv ==
  /\ v1 \in {"socketcan", "peak"}
  /\ DOMAIN v2 = Can!Stations
  /\ \A s \in Can!Stations : v2[s] \in Seq(Readable(s))
  /\ \A k \in DOMAIN v3 : Can!Key(v3[k]) = k
  /\ \A f \in v4 : Can!Key(f) \in DOMAIN v3
  /\ DOMAIN v5 = BusMembers
  /\ \A m \in BusMembers : \A n \in DOMAIN v5[m] : Can!Valid(m, v5[m][n])
  /\ v6 \in [BusMembers -> Ticks]
  /\ \A m \in BusMembers : TickInv(m, v6[m])
  /\ v7 \in 0 .. MaxSent

LEMMA CanLimits ==
  /\ MaxSent \in Nat /\ BusFrames \subseteq Can!Frame /\ ToolFrames \subseteq Can!Frame
  /\ Can!Env \notin BusMembers /\ Can!Tool \notin BusMembers
BY CommandsAssumption DEF Can!CanAssumption

(* The length codes are those of the lengths an FD frame has.              *)
LEMMA LengthCodes ==
  ASSUME NEW len \in Can!FdLengths
  PROVE  /\ Can!DlcOfLen(len) \in 0 .. 15
         /\ Can!LenOfDlc(Can!DlcOfLen(len)) = len
<1>1. \E dlc \in 0 .. 15 : Can!LenOfDlc(dlc) = len
  <2>1. CASE len \in 0 .. 8
    BY <2>1 DEF Can!LenOfDlc
  <2>2. CASE len \in {12, 16, 20, 24, 32, 48, 64}
    <3> DEFINE L == <<12, 16, 20, 24, 32, 48, 64>>
    <3>1. \E k \in 1 .. 7 : L[k] = len
      <4>1. /\ L[1] = 12 /\ L[2] = 16 /\ L[3] = 20 /\ L[4] = 24
            /\ L[5] = 32 /\ L[6] = 48 /\ L[7] = 64
        OBVIOUS
      <4> QED BY <2>2, <4>1
    <3>2. PICK k \in 1 .. 7 : L[k] = len
      BY <3>1
    <3>3. k + 8 \in 0 .. 15 /\ (k + 8) - 8 = k /\ ~ (k + 8 <= 8)
      OBVIOUS
    <3> QED BY <3>2, <3>3 DEF Can!LenOfDlc
  <2> QED BY <2>1, <2>2 DEF Can!FdLengths
<1> QED BY <1>1 DEF Can!DlcOfLen

(* Who may put a frame on the bus as it is.                                *)
Sendable(t, f) == IF t = Can!Tool THEN Can!OnTheWire(f) ELSE Can!Valid(t, f)

LEMMA ReadableWhen ==
  ASSUME NEW w \in Wire, NEW f \in Can!Frame, NEW s, NEW flags,
         Can!Decode(w) = [id |-> f.id, flags |-> flags, len |-> f.len],
         flags \in {f.flags, f.flags \cup {"FD"}, f.flags \ {"BRS", "ESI"}},
         "FD" \in f.flags => flags = f.flags,
         w.form = "fd" => Can!Fd(s) /\ w.size \in 0..64,
         w.form = "classic" => w.size \in 0..8
  PROVE  [wire |-> w, was |-> f] \in Readable(s)
<1> DEFINE e == [wire |-> w, was |-> f]
<1>1. e \in [wire : Wire, was : Can!Frame] /\ e.wire = w /\ e.was = f
  OBVIOUS
<1> HIDE DEF e
<1>2. Can!Decode(w).id = f.id /\ Can!Decode(w).flags = flags /\ Can!Decode(w).len = f.len
  OBVIOUS
<1>3. ReadWell(e)
  BY <1>1, <1>2 DEF ReadWell
<1>4. e \in Readable(s)
  BY <1>1, <1>3 DEF Readable
<1> QED BY <1>4 DEF e

(* What the drivers make of a frame on its way.                            *)
LEMMA EncodedIsReadable ==
  ASSUME v1 \in {"socketcan", "peak"}, NEW t, NEW s, NEW f \in Can!Frame, Sendable(t, f),
         Can!Fd(s) \/ Can!Encode(t, f).form = "classic"
  PROVE  [wire |-> Can!Encode(t, f), was |-> f] \in Readable(s)
<1> DEFINE w == Can!Encode(t, f)
           fd == "FD" \in f.flags \/ f.len > 8
<1>1. f.id \in Nat /\ f.len \in Nat /\ f.flags \in SUBSET Can!Flags
  BY DEF Can!Frame
<1>2. f.id <= Can!MaxId(f.flags) /\ "reserved" \notin f.flags /\ f.len <= 64
  BY <1>1 DEF Sendable, Can!Valid, Can!OnTheWire, Can!FdLengths
<1>3. /\ "FD" \in f.flags => "RTR" \notin f.flags
      /\ f.len > 8 => "RTR" \notin f.flags /\ f.flags \cap Can!FdFlags # {}
  BY <1>1 DEF Sendable, Can!Valid, Can!OnTheWire, Can!FdFlags
<1>4. CASE v1 = "peak"
  <2>1. f.len > 8 \/ "FD" \in f.flags => f.len \in Can!FdLengths /\ Can!Fd(t)
    BY <1>1, <1>4 DEF Sendable, Can!Valid, Can!OnTheWire, Can!FdFlags, Can!Fd, Can!Tool, Can!Env
  <2>2. CASE fd
    <3>1. w = [form |-> "fd", id |-> f.id, size |-> Can!DlcOfLen(f.len), bits |-> f.flags]
      BY <1>4, <2>1, <2>2 DEF Can!Encode
    <3>2. Can!DlcOfLen(f.len) \in 0 .. 15 /\ Can!LenOfDlc(Can!DlcOfLen(f.len)) = f.len
      BY <2>1, <2>2, LengthCodes
    <3>3. Can!Decode(w) = [id |-> f.id, flags |-> f.flags, len |-> f.len]
      BY <1>4, <3>1, <3>2 DEF Can!Decode
    <3>4. w \in Wire /\ w.form = "fd" /\ w.size \in 0 .. 64
      BY <1>1, <3>1, <3>2 DEF Wire
    <3>5. w.form = "fd" => Can!Fd(s)
      OBVIOUS
    <3> HIDE DEF w
    <3> QED BY <3>3, <3>4, <3>5, ReadableWhen DEF w
  <2>3. CASE ~ fd
    <3>1. w = [form |-> "classic", id |-> f.id, size |-> f.len, bits |-> f.flags]
      BY <1>4, <2>3 DEF Can!Encode
    <3>3. Can!Decode(w) = [id |-> f.id, flags |-> f.flags, len |-> f.len]
      BY <1>4, <3>1 DEF Can!Decode
    <3>4. w \in Wire /\ w.form = "classic" /\ w.size \in 0 .. 8
      BY <1>1, <2>3, <3>1 DEF Wire
    <3>5. w.form = "fd" => Can!Fd(s)
      OBVIOUS
    <3> HIDE DEF w
    <3> QED BY <3>3, <3>4, <3>5, ReadableWhen DEF w
  <2> QED BY <2>2, <2>3
<1>5. CASE v1 = "socketcan"
  <2>1. f.id % (Can!MaxId(f.flags) + 1) = f.id
    BY <1>1, <1>2 DEF Can!MaxId
  <2>2. CASE fd
    <3> DEFINE bits == f.flags \cap {"EXT", "RTR", "BRS", "ESI"}
    <3>1. w = [form |-> "fd", id |-> f.id, size |-> f.len, bits |-> bits]
      BY <1>5, <2>1, <2>2 DEF Can!Encode
    <3>2. bits \in SUBSET Can!Flags /\ Can!MaxId(bits) = Can!MaxId(f.flags)
      BY <1>1 DEF Can!MaxId
    <3>3. Can!Decode(w) = [id |-> f.id, flags |-> bits \cup {"FD"}, len |-> f.len]
      <4>1. w.id = f.id /\ w.size = f.len /\ w.bits = bits /\ w.form = "fd"
        BY <3>1
      <4> HIDE DEF w, bits
      <4> QED BY <1>5, <2>1, <3>2, <4>1 DEF Can!Decode
    <3>4. w \in Wire /\ w.form = "fd" /\ w.size \in 0 .. 64
      BY <1>1, <1>2, <3>1, <3>2 DEF Wire
    <3>5. bits \cup {"FD"} = f.flags \cup {"FD"} /\ ("FD" \in f.flags => bits \cup {"FD"} = f.flags)
      BY <1>1, <1>2 DEF Can!Flags
    <3>6. w.form = "fd" => Can!Fd(s)
      OBVIOUS
    <3> HIDE DEF w, bits
    <3> QED BY <3>3, <3>4, <3>5, <3>6, ReadableWhen DEF w
  <2>3. CASE ~ fd
    <3> DEFINE bits == f.flags \cap {"EXT", "RTR"}
    <3>1. w = [form |-> "classic", id |-> f.id, size |-> f.len, bits |-> bits]
      BY <1>5, <2>1, <2>3 DEF Can!Encode
    <3>2. bits \in SUBSET Can!Flags /\ Can!MaxId(bits) = Can!MaxId(f.flags)
      BY <1>1 DEF Can!MaxId
    <3>3. Can!Decode(w) = [id |-> f.id, flags |-> bits, len |-> f.len]
      <4>1. w.id = f.id /\ w.size = f.len /\ w.bits = bits /\ w.form = "classic"
        BY <3>1
      <4> HIDE DEF w, bits
      <4> QED BY <1>5, <2>1, <3>2, <4>1 DEF Can!Decode
    <3>4. w \in Wire /\ w.form = "classic" /\ w.size \in 0 .. 8
      BY <1>1, <2>3, <3>1, <3>2 DEF Wire
    <3>5. bits = f.flags \ {"BRS", "ESI"}
      BY <1>1, <1>2, <2>3 DEF Can!Flags
    <3>6. "FD" \notin f.flags /\ (w.form = "fd" => Can!Fd(s))
      BY <2>3
    <3> HIDE DEF w, bits
    <3> QED BY <3>3, <3>4, <3>5, <3>6, ReadableWhen DEF w
  <2> QED BY <2>2, <2>3
<1> QED BY <1>4, <1>5

LEMMA CarryKeeps ==
  ASSUME CanInv, v1' = v1, NEW t, NEW f \in Can!Frame, Sendable(t, f), Can!Carry(t, f)
  PROVE  /\ DOMAIN v2' = Can!Stations
         /\ \A s \in Can!Stations : v2'[s] \in Seq(Readable(s))
<1>1. v1 \in {"socketcan", "peak"} /\ \A s \in Can!Stations : v2[s] \in Seq(Readable(s))
  BY DEF CanInv
<1>2. DOMAIN v2' = Can!Stations
  BY DEF Can!Carry
<1> USE DEF Can!Hears
<1>3. ASSUME NEW s \in Can!Stations PROVE v2'[s] \in Seq(Readable(s))
  <2> DEFINE e == [wire |-> Can!Encode(t, f), was |-> f]
  <2>1. CASE s # t /\ (Can!Fd(s) \/ Can!Encode(t, f).form = "classic")
    <3>1. v2'[s] = Append(v2[s], e)
      BY <2>1 DEF Can!Carry
    <3>2. e \in Readable(s)
      BY <1>1, <2>1, EncodedIsReadable
    <3> HIDE DEF e
    <3> QED BY <1>1, <3>1, <3>2, AppendProperties
  <2>2. CASE ~ (s # t /\ (Can!Fd(s) \/ Can!Encode(t, f).form = "classic"))
    <3>1. v2'[s] = v2[s]
      BY <2>2 DEF Can!Carry
    <3> QED BY <1>1, <3>1
  <2> QED BY <2>1, <2>2
<1> QED BY <1>2, <1>3

(* What a socket has read is off it.                                       *)
LEMMA EmptiedKeeps ==
  ASSUME CanInv, NEW t \in Can!Stations, v2' = [v2 EXCEPT ![t] = <<>>]
  PROVE  /\ DOMAIN v2' = Can!Stations
         /\ \A s \in Can!Stations : v2'[s] \in Seq(Readable(s))
<1>1. \A s \in Can!Stations : v2'[s] = v2[s] \/ v2'[s] = <<>>
  BY DEF CanInv
<1>2. \A s \in Can!Stations : <<>> \in Seq(Readable(s))
  BY EmptySeq
<1>3. DOMAIN v2' = Can!Stations
  BY DEF CanInv
<1> QED BY <1>1, <1>2, <1>3 DEF CanInv

LEMMA LosesKeeps ==
  ASSUME CanInv, NEW t \in Can!Stations, Can!Loses(t)
  PROVE  /\ DOMAIN v2' = Can!Stations
         /\ \A s \in Can!Stations : v2'[s] \in Seq(Readable(s))
<1> DEFINE left(n) == SubSeq(v2[t], n + 1, Len(v2[t]))
<1>1. PICK n \in 0 .. Len(v2[t]) : v2' = [v2 EXCEPT ![t] = left(n)]
  BY DEF Can!Loses
<1>2. v2[t] \in Seq(Readable(t)) /\ Len(v2[t]) \in Nat
  BY LenProperties DEF CanInv
<1>3. left(n) \in Seq(Readable(t))
  <2> DEFINE s == v2[t]
             S == Readable(t)
  <2>1. n + 1 \in Int /\ Len(s) \in Int /\ \A i \in n + 1 .. Len(s) : i \in 1 .. Len(s)
    BY <1>2
  <2>2. \A i \in n + 1 .. Len(s) : s[i] \in S
    BY <1>2, <2>1, ElementOfSeq
  <2> HIDE DEF s, S
  <2> QED BY <2>1, <2>2, SubSeqProperties DEF s, S
<1> HIDE DEF left
<1>4. DOMAIN v2' = Can!Stations /\ v2'[t] = left(n)
      /\ \A s \in Can!Stations \ {t} : v2'[s] = v2[s]
  BY <1>1 DEF CanInv
<1>5. ASSUME NEW s \in Can!Stations PROVE v2'[s] \in Seq(Readable(s))
  <2>1. CASE s = t
    BY <1>3, <1>4, <2>1, Zenon
  <2>2. CASE s # t
    BY <1>4, <2>2 DEF CanInv
  <2> QED BY <2>1, <2>2, Zenon
<1> QED BY <1>4, <1>5, Zenon

(* A tick that is over, or has only been asked for.                        *)
LEMMA AskedIsTick ==
  ASSUME NEW m \in BusMembers, NEW fs \in Seq(BusFrames)
  PROVE  /\ Can!Asked(fs) \in Ticks /\ TickInv(m, Can!Asked(fs))
         /\ \A ok \in BOOLEAN : Can!Over(ok) \in Ticks /\ TickInv(m, Can!Over(ok))
<1>1. \A r \in Seq(BusFrames) :
        /\ Can!Asked(r) \in Ticks /\ Can!Asked(r).asked = r /\ Can!Asked(r).made = 0
        /\ Can!Asked(r).ok /\ \A s \in Can!Stations : Can!Asked(r).reached[s] = {}
  BY DEF Can!Asked, Ticks
<1>2. \A r \in Seq(BusFrames) : Len(r) \in Nat /\ Len(r) >= 0
  BY LenProperties
<1>3. <<>> \in Seq(BusFrames)
  BY EmptySeq
<1>4. TickInv(m, Can!Asked(fs))
  BY <1>1, <1>2 DEF TickInv
<1>5. ASSUME NEW ok \in BOOLEAN PROVE Can!Over(ok) \in Ticks /\ TickInv(m, Can!Over(ok))
  <2>1. /\ Can!Over(ok) \in Ticks /\ Can!Over(ok).asked = <<>> /\ Can!Over(ok).made = 0
        /\ \A s \in Can!Stations : Can!Over(ok).reached[s] = {}
    <3>1. PICK a : a = Can!Asked(<<>>)
      OBVIOUS
    <3>2. a \in Ticks /\ a.asked = <<>> /\ a.made = 0 /\ \A s \in Can!Stations : a.reached[s] = {}
      BY <1>1, <1>3, <3>1, Zenon
    <3>3. Can!Over(ok) = [a EXCEPT !.ok = ok]
      BY <3>1, Zenon DEF Can!Over
    <3> QED BY <3>2, <3>3 DEF Ticks
  <2>2. Len(<<>>) >= 0
    OBVIOUS
  <2> QED BY <2>1, <2>2 DEF TickInv
<1> QED BY <1>1, <1>4, <1>5

(* record_frame keeps a frame under its own key, the last of those there.  *)
LEMMA RecordKeeps ==
  ASSUME NEW table, \A k \in DOMAIN table : Can!Key(table[k]) = k,
         NEW fs, NEW N \in Nat, DOMAIN fs = 1 .. N, Len(fs) = N
  PROVE  LET all == Can!Record(table, fs)
         IN /\ DOMAIN all = DOMAIN table \cup {Can!Key(fs[n]) : n \in DOMAIN fs}
            /\ \A k \in DOMAIN all : Can!Key(all[k]) = k
<1> DEFINE all == Can!Record(table, fs)
           keys == DOMAIN table \cup {Can!Key(fs[n]) : n \in DOMAIN fs}
<1>1. DOMAIN all = keys
  BY DEF Can!Record
<1>2. ASSUME NEW k \in keys PROVE Can!Key(all[k]) = k
  <2>1. CASE \E n \in DOMAIN fs : Can!Key(fs[n]) = k
    <3> DEFINE its == {n \in DOMAIN fs : Can!Key(fs[n]) = k}
    <3>1. its \subseteq 1 .. N /\ its # {}
      BY <2>1
    <3>2. \E n \in its : \A m \in its : m <= n
      <4> HIDE DEF its
      <4> QED BY <3>1, GreatestOf
    <3>3. \E n \in DOMAIN fs : Can!Key(fs[n]) = k /\ \A m \in n+1..Len(fs) : Can!Key(fs[m]) # k
      <4>1. PICK n \in its : \A m \in its : m <= n
        BY <3>2
      <4>2. n \in DOMAIN fs /\ Can!Key(fs[n]) = k /\ n \in 1 .. N
        BY <4>1
      <4>3. ASSUME NEW m \in n+1..Len(fs) PROVE Can!Key(fs[m]) # k
        <5>1. m \in DOMAIN fs /\ m > n
          BY <4>2
        <5> QED BY <4>1, <5>1, <4>2
      <4> QED BY <4>2, <4>3
    <3> DEFINE chosen == CHOOSE n \in DOMAIN fs :
                 Can!Key(fs[n]) = k /\ \A m \in n+1..Len(fs) : Can!Key(fs[m]) # k
    <3>4. Can!Key(fs[chosen]) = k
      BY <3>3
    <3>5. all[k] = fs[chosen]
      BY <2>1 DEF Can!Record
    <3> HIDE DEF chosen
    <3> QED BY <3>4, <3>5
  <2>2. CASE ~ \E n \in DOMAIN fs : Can!Key(fs[n]) = k
    <3>1. all[k] = table[k] /\ k \in DOMAIN table
      BY <2>2 DEF Can!Record
    <3> QED BY <3>1
  <2> QED BY <2>1, <2>2
<1> HIDE DEF all
<1>3. DOMAIN all = keys /\ \A k \in DOMAIN all : Can!Key(all[k]) = k
  BY <1>1, <1>2
<1> QED BY <1>3 DEF all

LEMMA CanInit == Can!Init => CanInv
<1> SUFFICES ASSUME Can!Init PROVE CanInv
  OBVIOUS
<1>1. \A s \in Can!Stations : v2[s] \in Seq(Readable(s))
  <2>1. \A s \in Can!Stations : v2[s] = <<>>
    BY DEF Can!Init
  <2>2. \A s \in Can!Stations : <<>> \in Seq(Readable(s))
    BY EmptySeq
  <2> QED BY <2>1, <2>2
<1>2. v6 \in [BusMembers -> Ticks] /\ \A m \in BusMembers : TickInv(m, v6[m])
  <2>1. \A m \in BusMembers : Can!Over(TRUE) \in Ticks /\ TickInv(m, Can!Over(TRUE))
    BY AskedIsTick, EmptySeq
  <2>2. v6 = [m \in BusMembers |-> Can!Over(TRUE)]
    BY DEF Can!Init
  <2> QED BY <2>1, <2>2
<1>3. /\ v1 \in {"socketcan", "peak"} /\ DOMAIN v2 = Can!Stations
      /\ DOMAIN v3 = {} /\ v4 = {}
      /\ DOMAIN v5 = BusMembers
  BY DEF Can!Init
<1>4. \A m \in BusMembers : DOMAIN v5[m] = {}
  BY DEF Can!Init
<1>5. v7 \in 0 .. MaxSent
  BY CanLimits DEF Can!Init
<1> QED BY <1>1, <1>2, <1>3, <1>4, <1>5 DEF CanInv

(* What the readers have read from their sockets is a list as long.        *)
LEMMA ReadList ==
  ASSUME CanInv, NEW s \in Can!Stations
  PROVE  \E N \in Nat : DOMAIN Can!Read(s) = 1 .. N /\ Len(Can!Read(s)) = N
<1>1. v2[s] \in Seq(Readable(s))
  BY DEF CanInv
<1>2. Len(v2[s]) \in Nat /\ DOMAIN v2[s] = 1 .. Len(v2[s])
  BY <1>1, LenProperties
<1> DEFINE r == Can!Read(s)
<1>3. r = [n \in 1 .. Len(v2[s]) |-> Can!Decode(v2[s][n].wire)]
  BY <1>2 DEF Can!Read
<1> HIDE DEF r
<1>4. DOMAIN r = 1 .. Len(v2[s]) /\ Len(r) = Len(v2[s])
  BY <1>2, <1>3
<1> QED BY <1>2, <1>4 DEF r

(* What a tick has reached depends on the driver, which stays.             *)
LEMMA TickStays ==
  ASSUME v1' = v1, NEW m, NEW t, TickInv(m, t)
  PROVE  TickInv(m, t)'
BY DEF TickInv, Can!Hears, Can!Encode

LEMMA TicksStay ==
  ASSUME CanInv, v1' = v1, v6' = v6
  PROVE  v6' \in [BusMembers -> Ticks] /\ \A m \in BusMembers : TickInv(m, v6[m])'
<1>1. ASSUME NEW m \in BusMembers PROVE TickInv(m, v6[m])'
  <2>1. PICK t : t = v6[m]
    OBVIOUS
  <2>2. TickInv(m, t)'
    BY <2>1, TickStays DEF CanInv
  <2>3. t = v6'[m]
    BY <2>1
  <2> QED BY <2>2, <2>3 DEF TickInv, Can!Hears, Can!Encode
<1> QED BY <1>1 DEF CanInv

LEMMA TickBecomes ==
  ASSUME CanInv, v1' = v1, NEW m \in BusMembers, NEW t \in Ticks, TickInv(m, t),
         v6' = [v6 EXCEPT ![m] = t]
  PROVE  v6' \in [BusMembers -> Ticks] /\ \A h \in BusMembers : TickInv(h, v6[h])'
<1>1. v6' \in [BusMembers -> Ticks] /\ \A h \in BusMembers : TickInv(h, v6'[h])
  BY DEF CanInv
<1>2. ASSUME NEW h \in BusMembers PROVE TickInv(h, v6[h])'
  <2>1. PICK u : u = v6'[h]
    OBVIOUS
  <2>2. TickInv(h, u)'
    BY <1>1, <2>1, TickStays
  <2> QED BY <2>1, <2>2 DEF TickInv, Can!Hears, Can!Encode
<1> QED BY <1>1, <1>2

LEMMA EnvSendsKeeps ==
  ASSUME CanInv, NEW f \in BusFrames, Can!EnvSends(f)
  PROVE  CanInv'
<1>0. v6' \in [BusMembers -> Ticks] /\ \A m \in BusMembers : TickInv(m, v6[m])'
  BY TicksStay DEF Can!EnvSends
<1>1. /\ v1' = v1 /\ v5' = v5 /\ v6' = v6 /\ v7 + 1 <= MaxSent /\ v7' = v7 + 1
      /\ Can!Carry(Can!Env, f) /\ Can!Valid(Can!Env, f)
      /\ v3' = Can!Record(v3, <<f>>) /\ v4' = v4 \cup {f}
  BY DEF Can!EnvSends, Can!Budget
<1>2. f \in Can!Frame /\ Sendable(Can!Env, f)
  BY <1>1, CanLimits DEF Sendable, Can!Env, Can!Tool
<1>3. DOMAIN v2' = Can!Stations /\ \A s \in Can!Stations : v2'[s] \in Seq(Readable(s))
  BY <1>1, <1>2, CarryKeeps
<1>4. \A s \in Can!Stations : Readable(s)' = Readable(s)
  BY <1>1 DEF Readable, ReadWell, Can!Decode
<1>5. DOMAIN <<f>> = 1 .. 1 /\ Len(<<f>>) = 1 /\ <<f>>[1] = f
  OBVIOUS
<1> DEFINE fs == <<f>>
<1>6. /\ DOMAIN v3' = DOMAIN v3 \cup {Can!Key(fs[n]) : n \in DOMAIN fs}
      /\ \A k \in DOMAIN v3' : Can!Key(v3'[k]) = k
  <2>1. \A k \in DOMAIN v3 : Can!Key(v3[k]) = k
    BY DEF CanInv
  <2>2. v3' = Can!Record(v3, fs) /\ DOMAIN fs = 1 .. 1 /\ Len(fs) = 1
    BY <1>1, <1>5
  <2> HIDE DEF fs
  <2> QED BY <2>1, <2>2, RecordKeeps
<1>7. \A g \in v4' : Can!Key(g) \in DOMAIN v3'
  <2>1. Can!Key(f) \in DOMAIN v3'
    BY <1>5, <1>6
  <2> QED BY <1>1, <1>6, <2>1 DEF CanInv
<1>8. v7' \in 0 .. MaxSent
  BY <1>1, CanLimits DEF CanInv
<1> HIDE DEF fs
<1> QED BY <1>0, <1>1, <1>3, <1>4, <1>6, <1>7, <1>8 DEF CanInv, Can!Valid, Can!Key

LEMMA MembersAndToolsKeep ==
  ASSUME CanInv,
         \/ \E m \in BusMembers, f, g \in BusFrames : Can!MemberAsks(m, <<f, g>>)
         \/ \E m \in BusMembers : Can!MemberSends(m)
         \/ \E f \in ToolFrames : Can!ToolSends(f)
  PROVE  CanInv'
<1>1. v1' = v1 /\ v3' = v3 /\ v4' = v4 /\ v5' = v5
  BY DEF Can!MemberAsks, Can!MemberSends, Can!ToolSends
<1>2. \A s \in Can!Stations : Readable(s)' = Readable(s)
  BY <1>1 DEF Readable, ReadWell, Can!Decode
<1>3. CASE \E m \in BusMembers, f, g \in BusFrames : Can!MemberAsks(m, <<f, g>>)
  <2>1. PICK m \in BusMembers, f \in BusFrames, g \in BusFrames : Can!MemberAsks(m, <<f, g>>)
    BY <1>3
  <2> DEFINE t == Can!Asked(<<f, g>>)
  <2>2. v2' = v2 /\ v7 + 2 <= MaxSent /\ v7' = v7 + 2 /\ v6' = [v6 EXCEPT ![m] = t]
    BY <2>1 DEF Can!MemberAsks, Can!Budget
  <2>3. v6' \in [BusMembers -> Ticks] /\ \A h \in BusMembers : TickInv(h, v6[h])'
    <3>1. t \in Ticks /\ TickInv(m, t)
      <4>1. <<f, g>> \in Seq(BusFrames)
        OBVIOUS
      <4> QED BY <4>1, AskedIsTick, Zenon
    <3> HIDE DEF t
    <3>2. PICK u : u = t
      OBVIOUS
    <3> QED BY <1>1, <2>2, <3>1, <3>2, TickBecomes
  <2>4. v7' \in 0 .. MaxSent
    BY <2>2, CanLimits DEF CanInv
  <2> QED BY <1>1, <1>2, <2>2, <2>3, <2>4 DEF CanInv
<1>4. CASE \E m \in BusMembers : Can!MemberSends(m)
  <2>1. PICK m \in BusMembers : Can!MemberSends(m)
    BY <1>4
  <2> DEFINE t == v6[m]
             n == t.made + 1
             f == t.asked[n]
             came == [s \in Can!Stations |->
                       IF Can!Hears(s, m, f) THEN t.reached[s] \cup {n} ELSE t.reached[s]]
             sent == [t EXCEPT !.made = n, !.reached = came]
             refused == [t EXCEPT !.ok = FALSE]
  <2>2. v7' = v7 /\ t.ok /\ t.made < Len(t.asked) /\ t \in Ticks /\ TickInv(m, t)
    BY <2>1 DEF Can!MemberSends, Can!Sending, CanInv
  <2>9. \/ Can!Valid(m, f) /\ Can!Carry(m, f) /\ v6' = [v6 EXCEPT ![m] = sent]
        \/ v2' = v2 /\ v6' = [v6 EXCEPT ![m] = refused]
    BY <2>1, Zenon DEF Can!MemberSends
  <2>3. /\ t.asked \in Seq(BusFrames) /\ Len(t.asked) \in Nat /\ t.made \in Nat
        /\ n \in 1 .. Len(t.asked)
    BY <2>2, LenProperties DEF Ticks
  <2>4. f \in BusFrames
    BY <2>3, ElementOfSeq
  <2>10. n = t.made + 1
    OBVIOUS
  <2>11. f = t.asked[n]
    OBVIOUS
  <2>12. \A s \in Can!Stations :
           came[s] = IF Can!Hears(s, m, f) THEN t.reached[s] \cup {n} ELSE t.reached[s]
    OBVIOUS
  <2>13. came = [s \in Can!Stations |-> came[s]]
    OBVIOUS
  <2>14. sent = [t EXCEPT !.made = n, !.reached = came]
    OBVIOUS
  <2>15. refused = [t EXCEPT !.ok = FALSE]
    OBVIOUS
  <2> HIDE DEF t, f, n, came, sent, refused
  <2>16. n \in Nat /\ n <= Len(t.asked) /\ \A k \in 1 .. n : k = n \/ k \in 1 .. t.made
    BY <2>2, <2>3, <2>10
  <2>5. ASSUME Can!Valid(m, f) PROVE sent \in Ticks /\ TickInv(m, sent)
    <3>1. came \in [Can!Stations -> SUBSET Nat]
      <4>1. ASSUME NEW s \in Can!Stations PROVE came[s] \in SUBSET Nat
        BY <2>2, <2>12, <2>16, <4>1 DEF Ticks
      <4> QED BY <2>13, <4>1
    <3>2. \A s \in Can!Stations : came[s] = {k \in 1 .. n : Can!Hears(s, m, t.asked[k])}
      <4> SUFFICES ASSUME NEW s \in Can!Stations
                   PROVE  came[s] = {k \in 1 .. n : Can!Hears(s, m, t.asked[k])}
        OBVIOUS
      <4>1. t.reached[s] = {k \in 1 .. t.made : Can!Hears(s, m, t.asked[k])}
        BY <2>2 DEF TickInv
      <4>2. 1 .. n = (1 .. t.made) \cup {n} /\ n \notin 1 .. t.made
        BY <2>3, <2>10
      <4> QED BY <2>11, <2>12, <4>1, <4>2
    <3>3. /\ sent \in Ticks /\ sent.asked = t.asked /\ sent.made = n
          /\ sent.reached = came
      BY <2>2, <2>14, <2>16, <3>1 DEF Ticks
    <3>4. \A k \in 1 .. n : Can!Valid(m, t.asked[k])
      BY <2>2, <2>5, <2>11, <2>16 DEF TickInv
    <3> QED BY <2>16, <3>2, <3>3, <3>4 DEF TickInv
  <2>6. refused \in Ticks /\ TickInv(m, refused)
    <3>1. /\ refused \in Ticks /\ refused.asked = t.asked /\ refused.made = t.made
          /\ refused.reached = t.reached
      BY <2>2, <2>15 DEF Ticks
    <3> QED BY <2>2, <3>1 DEF TickInv
  <2>7. CASE Can!Valid(m, f) /\ Can!Carry(m, f) /\ v6' = [v6 EXCEPT ![m] = sent]
    <3>1. f \in Can!Frame /\ Sendable(m, f)
      BY <2>4, <2>7, CanLimits DEF Sendable
    <3>2. PICK g : g = f
      OBVIOUS
    <3>3. DOMAIN v2' = Can!Stations /\ \A s \in Can!Stations : v2'[s] \in Seq(Readable(s))
      BY <1>1, <2>7, <3>1, <3>2, CarryKeeps
    <3>4. PICK u : u = sent
      OBVIOUS
    <3>5. v6' \in [BusMembers -> Ticks] /\ \A h \in BusMembers : TickInv(h, v6[h])'
      BY <1>1, <2>5, <2>7, <3>4, TickBecomes
    <3> QED BY <1>1, <1>2, <2>2, <3>3, <3>5 DEF CanInv
  <2>8. CASE v2' = v2 /\ v6' = [v6 EXCEPT ![m] = refused]
    <3>1. PICK u : u = refused
      OBVIOUS
    <3>2. v6' \in [BusMembers -> Ticks] /\ \A h \in BusMembers : TickInv(h, v6[h])'
      BY <1>1, <2>6, <2>8, <3>1, TickBecomes
    <3> QED BY <1>1, <1>2, <2>2, <2>8, <3>2 DEF CanInv
  <2> QED BY <2>9, <2>7, <2>8
<1>5. CASE \E f \in ToolFrames : Can!ToolSends(f)
  <2>1. PICK f \in ToolFrames : Can!ToolSends(f)
    BY <1>5
  <2>2. /\ v6' = v6 /\ v7 + 1 <= MaxSent /\ v7' = v7 + 1
        /\ Can!OnTheWire(f) /\ Can!Carry(Can!Tool, f)
    BY <2>1 DEF Can!ToolSends, Can!Budget
  <2>3. f \in Can!Frame /\ Sendable(Can!Tool, f)
    BY <2>2, CanLimits DEF Sendable
  <2>4. DOMAIN v2' = Can!Stations /\ \A s \in Can!Stations : v2'[s] \in Seq(Readable(s))
    BY <1>1, <2>2, <2>3, CarryKeeps
  <2>5. v7' \in 0 .. MaxSent
    BY <2>2, CanLimits DEF CanInv
  <2>6. v6' \in [BusMembers -> Ticks] /\ \A m \in BusMembers : TickInv(m, v6[m])'
    BY <1>1, <2>2, TicksStay
  <2> QED BY <1>1, <1>2, <2>2, <2>4, <2>5, <2>6 DEF CanInv
<1> QED BY <1>3, <1>4, <1>5

LEMMA MemberTakesKeeps ==
  ASSUME CanInv, NEW m \in BusMembers,
         Can!MemberReads(m) \/ Can!MemberDiscards(m) \/ Can!MemberReadFails(m)
  PROVE  CanInv'
<1>1. /\ v1' = v1 /\ v3' = v3 /\ v4' = v4 /\ v7' = v7
      /\ v2' = [v2 EXCEPT ![m] = <<>>] \/ Can!Loses(m)
      /\ v6' = [v6 EXCEPT ![m] = Can!Over(TRUE)] \/ v6' = [v6 EXCEPT ![m] = Can!Over(FALSE)]
      /\ m \in Can!Stations
  <2>1. Can!AllValid(m) \in BOOLEAN
    BY DEF Can!AllValid
  <2> QED BY <2>1 DEF Can!MemberReads, Can!MemberDiscards, Can!MemberReadFails, Can!Takes, Can!Stations
<1>5. v6' \in [BusMembers -> Ticks] /\ \A h \in BusMembers : TickInv(h, v6[h])'
  <2>1. /\ Can!Over(TRUE) \in Ticks /\ TickInv(m, Can!Over(TRUE))
        /\ Can!Over(FALSE) \in Ticks /\ TickInv(m, Can!Over(FALSE))
    BY AskedIsTick, EmptySeq
  <2> QED BY <1>1, <2>1, TickBecomes
<1>2. \A s \in Can!Stations : Readable(s)' = Readable(s)
  BY <1>1 DEF Readable, ReadWell, Can!Decode
<1>3. DOMAIN v2' = Can!Stations /\ \A s \in Can!Stations : v2'[s] \in Seq(Readable(s))
  BY <1>1, EmptiedKeeps, LosesKeeps
<1>4. /\ DOMAIN v5' = BusMembers
      /\ \A h \in BusMembers : \A n \in DOMAIN v5'[h] : Can!Valid(h, v5'[h][n])
  <2>1. CASE v5' = v5
    BY <2>1 DEF CanInv
  <2>2. CASE Can!AllValid(m) /\ v5' = [v5 EXCEPT ![m] = Can!Read(m)]
    <3> DEFINE r == Can!Read(m)
    <3>1. v5' = [v5 EXCEPT ![m] = r] /\ \A n \in DOMAIN r : Can!Valid(m, r[n])
      BY <2>2 DEF Can!AllValid
    <3> HIDE DEF r
    <3> QED BY <3>1 DEF CanInv
  <2> QED BY <2>1, <2>2 DEF Can!MemberReads, Can!MemberDiscards, Can!MemberReadFails
<1> QED BY <1>1, <1>2, <1>3, <1>4, <1>5 DEF CanInv, Can!Valid

LEMMA EnvReadsKeep ==
  ASSUME CanInv, Can!EnvObserves \/ Can!EnvReadFails \/ Can!Reset
  PROVE  CanInv'
<1>1. /\ v1' = v1 /\ v5' = v5 /\ v6' = v6 /\ v7' = v7
      /\ v2' = [v2 EXCEPT ![Can!Env] = <<>>] \/ Can!Loses(Can!Env)
      /\ Can!Env \in Can!Stations
  BY DEF Can!EnvObserves, Can!EnvReadFails, Can!Reset, Can!Stations
<1>5. v6' \in [BusMembers -> Ticks] /\ \A m \in BusMembers : TickInv(m, v6[m])'
  BY <1>1, TicksStay
<1>2. \A s \in Can!Stations : Readable(s)' = Readable(s)
  BY <1>1 DEF Readable, ReadWell, Can!Decode
<1>3. DOMAIN v2' = Can!Stations /\ \A s \in Can!Stations : v2'[s] \in Seq(Readable(s))
  BY <1>1, EmptiedKeeps, LosesKeeps
<1>4. /\ \A k \in DOMAIN v3' : Can!Key(v3'[k]) = k
      /\ \A g \in v4' : Can!Key(g) \in DOMAIN v3'
  <2>1. CASE Can!Reset
    <3>1. DOMAIN v3' = {} /\ v4' = {}
      BY <2>1 DEF Can!Reset
    <3> QED BY <3>1
  <2>2. CASE Can!EnvObserves
    <3> DEFINE r == Can!Read(Can!Env)
    <3>1. v3' = Can!Record(v3, r) /\ v4' = v4 \cup {r[n] : n \in DOMAIN r}
      BY <2>2 DEF Can!EnvObserves
    <3>2. PICK N \in Nat : DOMAIN r = 1 .. N /\ Len(r) = N
      BY <1>1, ReadList
    <3>3. \A k \in DOMAIN v3 : Can!Key(v3[k]) = k
      BY DEF CanInv
    <3> HIDE DEF r
    <3>4. /\ DOMAIN v3' = DOMAIN v3 \cup {Can!Key(r[n]) : n \in DOMAIN r}
          /\ \A k \in DOMAIN v3' : Can!Key(v3'[k]) = k
      BY <3>1, <3>2, <3>3, RecordKeeps
    <3> QED BY <3>1, <3>4 DEF CanInv
  <2>3. CASE Can!EnvReadFails
    BY <2>3 DEF Can!EnvReadFails, CanInv, Can!Key
  <2> QED BY <2>1, <2>2, <2>3
<1> QED BY <1>1, <1>2, <1>3, <1>4, <1>5 DEF CanInv, Can!Valid, Can!Key

LEMMA CanStep == CanInv /\ [Can!Next]_(Can!vars) => CanInv'
<1> SUFFICES ASSUME CanInv, [Can!Next]_(Can!vars) PROVE CanInv'
  OBVIOUS
<1>1. CASE \E f \in BusFrames : Can!EnvSends(f)
  BY <1>1, EnvSendsKeeps
<1>2. CASE \/ \E m \in BusMembers, f, g \in BusFrames : Can!MemberAsks(m, <<f, g>>)
           \/ \E m \in BusMembers : Can!MemberSends(m)
           \/ \E f \in ToolFrames : Can!ToolSends(f)
  BY <1>2, MembersAndToolsKeep
<1>3. CASE \E m \in BusMembers :
             Can!MemberReads(m) \/ Can!MemberDiscards(m) \/ Can!MemberReadFails(m)
  BY <1>3, MemberTakesKeeps
<1>4. CASE Can!EnvObserves \/ Can!EnvReadFails \/ Can!Reset
  BY <1>4, EnvReadsKeep
<1>5. CASE UNCHANGED Can!vars
  <2>1. UNCHANGED <<v1, v2, v3, v4, v5, v6, v7>>
    BY <1>5 DEF Can!vars
  <2>2. \A s \in Can!Stations : Readable(s)' = Readable(s)
    BY <2>1 DEF Readable, ReadWell, Can!Decode
  <2>3. v6' \in [BusMembers -> Ticks] /\ \A m \in BusMembers : TickInv(m, v6[m])'
    BY <2>1, TicksStay
  <2> QED BY <2>1, <2>2, <2>3 DEF CanInv, Can!Valid, Can!Key
<1> QED BY <1>1, <1>2, <1>3, <1>4, <1>5 DEF Can!Next

LEMMA TicksUntilRefused ==
  ASSUME CanInv PROVE Can!SentUntilRefused
<1> SUFFICES ASSUME NEW m \in BusMembers
             PROVE  LET t == v6[m]
                        onBus == IF t.ok /\ ~ Can!Sending(m) THEN DOMAIN t.asked ELSE 1 .. t.made
                    IN /\ \A n \in onBus : Can!Valid(m, t.asked[n])
                       /\ \A s \in Can!Stations :
                            t.reached[s] = {n \in onBus : Can!Hears(s, m, t.asked[n])}
  BY DEF Can!SentUntilRefused
<1> DEFINE t == v6[m]
           onBus == IF t.ok /\ ~ Can!Sending(m) THEN DOMAIN t.asked ELSE 1 .. t.made
<1>1. /\ TickInv(m, t) /\ t.made \in Nat
      /\ Len(t.asked) \in Nat /\ DOMAIN t.asked = 1 .. Len(t.asked)
  BY LenProperties DEF CanInv, Ticks
<1>2. onBus = 1 .. t.made
  <2>1. CASE t.ok /\ ~ Can!Sending(m)
    <3>1. t.made = Len(t.asked)
      BY <1>1, <2>1 DEF TickInv, Can!Sending
    <3> QED BY <1>1, <2>1, <3>1
  <2> QED BY <2>1
<1> HIDE DEF t, onBus
<1> QED BY <1>1, <1>2 DEF t, onBus, TickInv

LEMMA CanInvReads ==
  CanInv => /\ Can!TypeOK /\ Can!ReadAsSent /\ Can!LibrariesGetLegal
            /\ Can!SentUntilRefused /\ Can!EveryIdentifierShown
<1> SUFFICES ASSUME CanInv
             PROVE  /\ Can!TypeOK /\ Can!ReadAsSent /\ Can!LibrariesGetLegal
                    /\ Can!SentUntilRefused /\ Can!EveryIdentifierShown
  OBVIOUS
<1>1. ASSUME NEW s \in Can!Stations, NEW n \in DOMAIN v2[s] PROVE v2[s][n] \in Readable(s)
  BY ElementOfSeq, LenProperties DEF CanInv
<1>2. Can!TypeOK
  BY <1>1 DEF CanInv, Can!TypeOK, Readable
<1>3. Can!ReadAsSent
  BY <1>1 DEF Can!ReadAsSent, Readable, ReadWell
<1>4. Can!LibrariesGetLegal
  BY DEF CanInv, Can!LibrariesGetLegal
<1>5. Can!EveryIdentifierShown
  <2>1. ASSUME NEW f \in v4
        PROVE  \E k \in DOMAIN v3 : v3[k].id = f.id /\ ("EXT" \in v3[k].flags <=> "EXT" \in f.flags)
    <3>1. Can!Key(f) \in DOMAIN v3 /\ Can!Key(v3[Can!Key(f)]) = Can!Key(f)
      BY DEF CanInv
    <3> DEFINE k == Can!Key(f)
    <3>2. v3[k].id = f.id /\ ("EXT" \in v3[k].flags <=> "EXT" \in f.flags)
      <4>1. \A g : Can!Key(g) = Can!Key(f) =>
              g.id = f.id /\ (("EXT" \in g.flags) = ("EXT" \in f.flags))
        BY DEF Can!Key
      <4> QED BY <3>1, <4>1
    <3> QED BY <3>1, <3>2
  <2> QED BY <2>1 DEF Can!EveryIdentifierShown
<1> QED BY <1>2, <1>3, <1>4, <1>5, TicksUntilRefused

(* Whatever identifiers, lengths and flags the libraries, the requests and *)
(* other tools use, whoever can do FD and wherever a read fails: either    *)
(* driver's frame is read as it was sent, a library is given legal frames  *)
(* only, a tick puts on the bus what comes before the first frame that is  *)
(* refused, and the env shows every identifier it has heard                *)
(* (validate_frame, send, recv_all, process_can_rx, process_can_tx,        *)
(* record_env_frame).                                                      *)
THEOREM FramesReadAsSent == Spec => []CanReadAsSent
<1> DEFINE Inv == part = "can" => CanInv
<1>1. Init => Inv
  BY CanInit DEF Init
<1>2. Inv /\ [Next]_vars => Inv'
  <2>1. ASSUME Inv, [Next]_vars PROVE Inv'
    BY <2>1, PartsMove, CanStep
  <2> QED BY <2>1
<1>3. Inv => CanReadAsSent
  BY CanInvReads DEF CanReadAsSent
<1> QED BY <1>1, <1>2, <1>3, PTL DEF Spec
-----------------------------------------------------------------------------
(* Selectors.                                                              *)

(* The selectors of a request, by their places.                            *)
Places == IF v2.kind = "set" THEN DOMAIN v2.writes ELSE DOMAIN v2.sels

Standing(k) == Selecting!Stands(Selecting!SelectorAt(k), Selecting!Found(k))

RequestInv ==
  /\ v2.kind \in {"none", "get", "set", "env"}
  /\ (v2.kind = "none") <=> (v7 = "idle")
  /\ v2.kind = "get" => \E n \in Nat : v2.sels \in [1 .. n -> Selecting!ToSet(Selectors)]
  /\ v2.kind = "env" => \E n \in Nat : v2.sels \in [1 .. n -> EnvSelectors]
  /\ v2.kind = "set" =>
       /\ DOMAIN v2.writes \subseteq DOMAIN Selectors
       /\ \A k \in DOMAIN v2.writes : v2.writes[k] \in Raws

(* The selectors before the one at hand are done, those after it are not,  *)
(* and what that one stands for is done up to some c.                      *)
LoopInv ==
  v2.kind # "none" =>
    /\ v3 \subseteq Places /\ v4 \in (Places \ v3) \cup {0}
    /\ \A l \in v3 : v4 < l
    /\ \A l \in Places \ v3 : l <= v4 /\ Standing(l)
    /\ v4 = 0 => v5 = {}
    /\ v4 # 0 => \E c \in Selecting!Found(v4) \cup {-1} : v5 = {j \in Selecting!Found(v4) : c < j}
    /\ v7 = "ok" => v3 = {} /\ v5 = {}

(* The selectors that have stood for i already.                            *)
DoneFor(i) ==
  {k \in Places : k \notin v3 /\ i \in Selecting!Found(k) /\ ~ (k = v4 /\ i \in v5)}

SetInv ==
  v2.kind = "set" =>
    \A i \in DOMAIN Signals :
      \/ DoneFor(i) = {} /\ v1[i] = v2.before[i]
      \/ \E l \in DoneFor(i) : (\A m \in DoneFor(i) : m <= l) /\ v1[i] = v2.writes[l].text

(* A signal that the library may refuse to read is asked for.              *)
Refusable == \E k \in Places : \E i \in Selecting!Found(k) : Signals[i].failing

GetInv ==
  v2.kind = "get" =>
    /\ v7 = "error" =>
         (\E k \in Places : ~ Standing(k)) \/ Refusable
    /\ v7 # "error" =>
         \A i \in DOMAIN Signals :
           Cardinality({n \in DOMAIN v6 : v6[n] = <<i, v1[i]>>}) = Cardinality(DoneFor(i))

EnvInv ==
  v2.kind = "env" =>
    /\ v7 = "error" =>
         \/ v2.sels = <<>>
         \/ \E k \in Places : ~ Standing(k)
    /\ v7 # "error" =>
         /\ v2.sels # <<>>
         /\ Selecting!ToSet(v6) = {n \in DOMAIN Catalog : DoneFor(n) # {}}
         /\ \A b \in DOMAIN v6 :
              /\ Selecting!FirstNaming(v6[b]) \in Nat
              /\ Selecting!FirstNaming(v6[b]) <= v4
              /\ Selecting!FirstNaming(v6[b]) = v4 => \A j \in v5 : v6[b] < j
         /\ \A a, b \in DOMAIN v6 : a < b =>
              \/ Selecting!FirstNaming(v6[a]) < Selecting!FirstNaming(v6[b])
              \/ Selecting!FirstNaming(v6[a]) = Selecting!FirstNaming(v6[b]) /\ v6[a] < v6[b]

Texts == {r.text : r \in Raws} \cup {"0"}
SelectInv ==
  /\ v1 \in [DOMAIN Signals -> Texts]
  /\ v7 \in {"idle", "working", "ok", "error"}
  /\ v6 \in Seq(((DOMAIN Signals) \X Texts) \cup DOMAIN Signals \cup DOMAIN Catalog)
  /\ v7 \in {"idle", "error"} => v6 = <<>>
  /\ v7 = "idle" => v3 = {} /\ v4 = 0 /\ v5 = {}
  /\ RequestInv /\ LoopInv
  /\ SetInv /\ GetInv /\ EnvInv

LEMMA SelectLimits ==
  /\ DOMAIN Signals \subseteq Nat
  /\ Len(Selectors) \in Nat /\ DOMAIN Selectors = 1 .. Len(Selectors)
  /\ DOMAIN Catalog \subseteq Nat
  /\ \A k \in DOMAIN Selectors : Selectors[k] \in Selecting!ToSet(Selectors)
<1>1. Selectors \in Seq(Selecting!ToSet(Selectors)) /\ Catalog \in Seq(Selecting!ToSet(Catalog))
  BY CommandsAssumption DEF Selecting!SelectorAssumption
<1>2. DOMAIN Signals \subseteq Nat
  BY CommandsAssumption DEF Selecting!SelectorAssumption
<1>3. /\ Len(Selectors) \in Nat /\ DOMAIN Selectors = 1 .. Len(Selectors)
      /\ Len(Catalog) \in Nat /\ DOMAIN Catalog = 1 .. Len(Catalog)
  BY <1>1, LenProperties
<1>4. \A k \in DOMAIN Selectors : Selectors[k] \in Selecting!ToSet(Selectors)
  BY DEF Selecting!ToSet
<1> QED BY <1>2, <1>3, <1>4

LEMMA FoundWhat ==
  /\ \A s \in Selecting!ToSet(Selectors) : Selecting!IdsOf(s) \subseteq DOMAIN Signals
  /\ \A s \in EnvSelectors : Selecting!IndicesOf(s) \subseteq DOMAIN Catalog
<1>1. /\ \A s \in Selecting!ToSet(Selectors) : s.kind \in {"all", "id", "name", "glob", "can"}
      /\ \A s \in EnvSelectors : s.kind \in {"all", "bad", "pair"}
  BY CommandsAssumption DEF Selecting!SelectorAssumption
<1>2. ASSUME NEW s \in Selecting!ToSet(Selectors) PROVE Selecting!IdsOf(s) \subseteq DOMAIN Signals
  BY <1>1 DEF Selecting!IdsOf, Selecting!Named
<1>3. ASSUME NEW s \in EnvSelectors PROVE Selecting!IndicesOf(s) \subseteq DOMAIN Catalog
  BY <1>1 DEF Selecting!IndicesOf
<1> QED BY <1>2, <1>3

(* Places are numbers from 1 on, finitely many of them in a Get.           *)
LEMMA PlacesAre ==
  ASSUME RequestInv, v2.kind # "none"
  PROVE  /\ Places \subseteq Nat \ {0}
         /\ v2.kind = "get" => IsFiniteSet(Places)
         /\ \A k \in Places : Selecting!Found(k) \subseteq Nat
         /\ v2.kind \in {"get", "set"} => \A k \in Places : Selecting!Found(k) \subseteq DOMAIN Signals
         /\ v2.kind = "env" => \A k \in Places : Selecting!Found(k) \subseteq DOMAIN Catalog
<1>1. CASE v2.kind = "get"
  <2>1. PICK n \in Nat : v2.sels \in [1 .. n -> Selecting!ToSet(Selectors)]
    BY <1>1 DEF RequestInv
  <2>2. Places = 1 .. n /\ IsFiniteSet(1 .. n)
    BY <1>1, <2>1, FS_Interval DEF Places
  <2>3. \A k \in Places : Selecting!Found(k) \subseteq DOMAIN Signals
    BY <1>1, <2>1, <2>2, FoundWhat DEF Selecting!Found, Selecting!SelectorAt
  <2> QED BY <1>1, <2>2, <2>3, SelectLimits
<1>2. CASE v2.kind = "env"
  <2>1. PICK n \in Nat : v2.sels \in [1 .. n -> EnvSelectors]
    BY <1>2 DEF RequestInv
  <2>2. Places = 1 .. n
    BY <1>2, <2>1 DEF Places
  <2>3. \A k \in Places : Selecting!Found(k) \subseteq DOMAIN Catalog
    BY <1>2, <2>1, <2>2, FoundWhat DEF Selecting!Found, Selecting!SelectorAt
  <2> QED BY <1>2, <2>2, <2>3, SelectLimits
<1>3. CASE v2.kind = "set"
  <2>1. Places \subseteq DOMAIN Selectors
    BY <1>3 DEF RequestInv, Places
  <2>2. \A k \in Places : Selecting!Found(k) \subseteq DOMAIN Signals
    BY <1>3, <2>1, FoundWhat, SelectLimits DEF Selecting!Found, Selecting!SelectorAt
  <2>3. Places \subseteq Nat \ {0}
    BY <2>1, SelectLimits
  <2> QED BY <1>3, <2>2, <2>3, SelectLimits
<1> QED BY <1>1, <1>2, <1>3 DEF RequestInv

LEMMA SelectInit == Selecting!Init => SelectInv
<1> SUFFICES ASSUME Selecting!Init PROVE SelectInv
  OBVIOUS
<1>1. /\ v1 = [i \in DOMAIN Signals |-> "0"] /\ v2 = [kind |-> "none"] /\ v2.kind = "none"
      /\ v3 = {} /\ v4 = 0 /\ v5 = {} /\ v6 = <<>> /\ v7 = "idle"
  BY DEF Selecting!Init, Selecting!Idle
<1>2. v1 \in [DOMAIN Signals -> Texts]
  BY <1>1 DEF Texts
<1>3. v6 \in Seq(((DOMAIN Signals) \X Texts) \cup DOMAIN Signals \cup DOMAIN Catalog)
  BY <1>1, EmptySeq
<1>4. RequestInv /\ LoopInv /\ SetInv /\ GetInv /\ EnvInv
  BY <1>1 DEF RequestInv, LoopInv, SetInv, GetInv, EnvInv
<1> QED BY <1>1, <1>2, <1>3, <1>4 DEF SelectInv

LEMMA SameRequest ==
  ASSUME v2' = v2
  PROVE  /\ Places' = Places
         /\ \A l : Selecting!Found(l)' = Selecting!Found(l)
         /\ \A l : Standing(l)' = Standing(l)
         /\ \A n : Selecting!FirstNaming(n)' = Selecting!FirstNaming(n)
<1>1. \A l : Selecting!SelectorAt(l)' = Selecting!SelectorAt(l)
  BY DEF Selecting!SelectorAt
<1>2. \A l : Selecting!Found(l)' = Selecting!Found(l)
  BY <1>1 DEF Selecting!Found
<1>3. \A l : Standing(l)' = Standing(l)
  BY <1>1, <1>2 DEF Standing, Selecting!Stands
<1>4. \A n : Selecting!FirstNaming(n)' = Selecting!FirstNaming(n)
  BY DEF Selecting!FirstNaming
<1>5. Places' = Places
  BY DEF Places
<1> QED BY <1>2, <1>3, <1>4, <1>5

(* The next selector: nothing has been done for it yet.                    *)
LEMMA ResolveKeeps ==
  ASSUME SelectInv, NEW k, k \in v3, \A l \in v3 : k <= l, v7 = "working", v5 = {},
         Standing(k), v4' = k, v3' = v3 \ {k}, v5' = Selecting!Found(k),
         UNCHANGED <<v1, v2, v6, v7>>
  PROVE  SelectInv'
<1>1. v2.kind # "none"
  BY DEF SelectInv, RequestInv
<1>2. /\ Places \subseteq Nat \ {0} /\ \A l \in Places : Selecting!Found(l) \subseteq Nat
  BY <1>1, PlacesAre DEF SelectInv
<1>3. /\ v3 \subseteq Places /\ v4 \in (Places \ v3) \cup {0} /\ v4 < k
      /\ \A l \in Places \ v3 : l <= v4 /\ Standing(l)
  BY <1>1 DEF SelectInv, LoopInv
<1>4. k \in Places /\ k \in Nat /\ k # 0 /\ v4 \in Nat
  BY <1>2, <1>3
<1>5. /\ Places' = Places
      /\ \A l : Selecting!Found(l)' = Selecting!Found(l)
      /\ \A l : Standing(l)' = Standing(l)
      /\ \A n : Selecting!FirstNaming(n)' = Selecting!FirstNaming(n)
  BY SameRequest
<1>6. \A i : DoneFor(i)' = DoneFor(i)
  BY <1>3, <1>4, <1>5 DEF DoneFor
<1>7. LoopInv'
  <2>1. v3' \subseteq Places' /\ v4' \in (Places' \ v3') \cup {0}
    BY <1>3, <1>4, <1>5
  <2>2. \A l \in v3' : v4' < l
    BY <1>2, <1>3, <1>4
  <2>3. ASSUME NEW l \in Places' \ v3' PROVE l <= v4' /\ Standing(l)'
    BY <1>2, <1>3, <1>4, <1>5
  <2>4. Selecting!Found(k) = {j \in Selecting!Found(k) : -1 < j}
    BY <1>2, <1>4
  <2>5. v7' # "ok" /\ v4' # 0
    BY <1>4
  <2>6. \E c \in Selecting!Found(v4)' \cup {-1} : v5' = {j \in Selecting!Found(v4)' : c < j}
    BY <1>5, <2>4, v4' = k DEF Selecting!Found, Selecting!SelectorAt
  <2> QED BY <2>1, <2>2, <2>3, <2>5, <2>6 DEF LoopInv
<1>8. SetInv'
  BY <1>6 DEF SelectInv, SetInv
<1>9. GetInv'
  BY <1>6 DEF SelectInv, GetInv
<1>10. EnvInv'
  BY <1>3, <1>4, <1>5, <1>6 DEF SelectInv, EnvInv
<1> QED BY <1>7, <1>8, <1>9, <1>10 DEF SelectInv, RequestInv

(* One signal of a selector: it is done for this selector too, and for all *)
(* else as much as before.                                                 *)
LEMMA TakeKeeps ==
  ASSUME SelectInv, NEW kind, NEW id, Selecting!Take(kind, id)
  PROVE  /\ v2.kind = kind /\ v2.kind # "none" /\ v7 = "working" /\ v7' = "working"
         /\ v4 \in Places \ v3 /\ id \in Selecting!Found(v4) /\ RequestInv' /\ LoopInv'
         /\ v4 \notin DoneFor(id) /\ DoneFor(id)' = DoneFor(id) \cup {v4}
         /\ \A l \in DoneFor(id) : l < v4
         /\ \A i : i # id => DoneFor(i)' = DoneFor(i)
<1>1. /\ v2.kind = kind /\ v7 = "working" /\ v7' = "working" /\ v2' = v2 /\ v3' = v3 /\ v4' = v4
      /\ id \in v5 /\ v5' = v5 \ {id} /\ \A i \in v5 : id <= i
  BY DEF Selecting!Take
<1>2. v2.kind # "none"
  BY <1>1 DEF SelectInv, RequestInv
<1>3. /\ Places \subseteq Nat \ {0} /\ \A l \in Places : Selecting!Found(l) \subseteq Nat
  BY <1>2, PlacesAre DEF SelectInv
<1>4. /\ v3 \subseteq Places /\ v4 \in Places \ v3 /\ v4 # 0
      /\ \A l \in v3 : v4 < l
      /\ \A l \in Places \ v3 : l <= v4 /\ Standing(l)
  BY <1>1, <1>2 DEF SelectInv, LoopInv
<1>5. PICK c \in Selecting!Found(v4) \cup {-1} : v5 = {j \in Selecting!Found(v4) : c < j}
  BY <1>2, <1>4 DEF SelectInv, LoopInv
<1>6. /\ Places' = Places
      /\ \A l : Selecting!Found(l)' = Selecting!Found(l)
      /\ \A l : Standing(l)' = Standing(l)
  BY <1>1, SameRequest
<1>7. id \in Selecting!Found(v4)
  BY <1>1, <1>5
<1>8. v5' = {j \in Selecting!Found(v4) : id < j}
  <2> DEFINE F == Selecting!Found(v4)
  <2>1. F \subseteq Nat /\ c \in F \cup {-1} /\ v5 = {j \in F : c < j} /\ id \in F
    BY <1>3, <1>4, <1>5, <1>7
  <2> HIDE DEF F
  <2>2. c < id
    BY <2>1, <1>1
  <2>3. ASSUME NEW j \in F PROVE (j \in v5') <=> (id < j)
    BY <2>1, <2>2, <1>1
  <2>4. v5' \subseteq F
    BY <2>1, <1>1
  <2>5. v5' = {j \in F : id < j}
    BY <2>3, <2>4
  <2> QED BY <2>5 DEF F
<1>9. LoopInv'
  <2>1. Selecting!Found(v4)' = Selecting!Found(v4)
    BY <1>1 DEF Selecting!Found, Selecting!SelectorAt
  <2>2. \E d \in Selecting!Found(v4)' \cup {-1} : v5' = {j \in Selecting!Found(v4)' : d < j}
    BY <1>7, <1>8, <2>1
  <2> QED BY <1>1, <1>4, <1>6, <2>2 DEF LoopInv
<1>10. RequestInv'
  BY <1>1 DEF SelectInv, RequestInv
<1>11. v4 \notin DoneFor(id) /\ \A l \in DoneFor(id) : l < v4
  BY <1>1, <1>3, <1>4 DEF DoneFor
<1>12. DoneFor(id)' = DoneFor(id) \cup {v4}
  BY <1>1, <1>4, <1>6, <1>7 DEF DoneFor
<1>13. \A i : i # id => DoneFor(i)' = DoneFor(i)
  BY <1>1, <1>6 DEF DoneFor
<1> QED BY <1>1, <1>2, <1>4, <1>7, <1>9, <1>10, <1>11, <1>12, <1>13

LEMMA WriteKeeps ==
  ASSUME SelectInv, NEW id, Selecting!Write(id)
  PROVE  SelectInv'
<1>1. /\ Selecting!Take("set", id) /\ v1' = [v1 EXCEPT ![id] = v2.writes[v4].text]
      /\ v6' = Append(v6, id) /\ v2' = v2
  BY DEF Selecting!Write, Selecting!Take
<1>2. /\ v2.kind = "set" /\ v7' = "working"
      /\ v4 \in Places \ v3 /\ id \in Selecting!Found(v4) /\ RequestInv' /\ LoopInv'
      /\ DoneFor(id)' = DoneFor(id) \cup {v4}
      /\ \A l \in DoneFor(id) : l < v4
      /\ \A i : i # id => DoneFor(i)' = DoneFor(i)
  BY <1>1, TakeKeeps
<1>3. Places = DOMAIN v2.writes /\ Places \subseteq Nat /\ id \in DOMAIN Signals
  BY <1>2, PlacesAre DEF SelectInv, Places
<1>4. v2.writes[v4].text \in Texts
  BY <1>2, <1>3 DEF SelectInv, RequestInv, Texts
<1>5. v1' \in [DOMAIN Signals -> Texts]
  BY <1>1, <1>4 DEF SelectInv
<1>6. v6' \in Seq(((DOMAIN Signals) \X Texts) \cup DOMAIN Signals \cup DOMAIN Catalog)
  BY <1>1, <1>3, AppendProperties DEF SelectInv
<1>7. SetInv'
  <2> SUFFICES ASSUME NEW i \in DOMAIN Signals
               PROVE  \/ DoneFor(i)' = {} /\ v1'[i] = v2'.before[i]
                      \/ \E l \in DoneFor(i)' : /\ \A m \in DoneFor(i)' : m <= l
                                              /\ v1'[i] = v2'.writes[l].text
    BY DEF SetInv
  <2>1. CASE i = id
    <3>1. v1'[i] = v2'.writes[v4].text
      BY <1>1, <1>3, <2>1 DEF SelectInv
    <3>2. v4 \in DoneFor(i)' /\ \A m \in DoneFor(i)' : m <= v4
      BY <1>2, <1>3, <2>1 DEF DoneFor
    <3> QED BY <3>1, <3>2
  <2>2. CASE i # id
    <3>1. v1'[i] = v1[i] /\ DoneFor(i)' = DoneFor(i)
      BY <1>1, <1>2, <2>2 DEF SelectInv
    <3> QED BY <1>1, <1>2, <3>1 DEF SelectInv, SetInv
  <2> QED BY <2>1, <2>2
<1>8. v2'.kind = "set"
  BY <1>1, <1>2
<1> QED BY <1>2, <1>5, <1>6, <1>7, <1>8 DEF SelectInv, GetInv, EnvInv

LEMMA ReadKeeps ==
  ASSUME SelectInv, NEW id, Selecting!ReadSignal(id)
  PROVE  SelectInv'
<1>1. /\ Selecting!Take("get", id) /\ v1' = v1
      /\ v6' = Append(v6, <<id, v1[id]>>) /\ v2' = v2
  BY DEF Selecting!ReadSignal, Selecting!Take
<1>2. /\ v2.kind = "get" /\ v7 = "working" /\ v7' = "working"
      /\ v4 \in Places \ v3 /\ id \in Selecting!Found(v4) /\ RequestInv' /\ LoopInv'
      /\ v4 \notin DoneFor(id) /\ DoneFor(id)' = DoneFor(id) \cup {v4}
      /\ \A i : i # id => DoneFor(i)' = DoneFor(i)
  BY <1>1, TakeKeeps
<1>3. IsFiniteSet(Places) /\ id \in DOMAIN Signals
  BY <1>2, PlacesAre DEF SelectInv
<1>4. /\ v6 \in Seq(((DOMAIN Signals) \X Texts) \cup DOMAIN Signals \cup DOMAIN Catalog)
      /\ v1[id] \in Texts
  BY <1>3 DEF SelectInv
<1>5. /\ v6' \in Seq(((DOMAIN Signals) \X Texts) \cup DOMAIN Signals \cup DOMAIN Catalog)
      /\ Len(v6) \in Nat /\ DOMAIN v6 = 1 .. Len(v6) /\ DOMAIN v6' = 1 .. (Len(v6) + 1)
      /\ \A n \in DOMAIN v6 : v6'[n] = v6[n]
      /\ v6'[Len(v6) + 1] = <<id, v1[id]>>
  BY <1>1, <1>3, <1>4, AppendProperties, LenProperties
<1>6. GetInv'
  <2> SUFFICES ASSUME NEW i \in DOMAIN Signals
               PROVE  Cardinality({n \in DOMAIN v6' : v6'[n] = <<i, v1'[i]>>}) = Cardinality(DoneFor(i)')
    BY <1>2 DEF GetInv
  <2> DEFINE before == {n \in DOMAIN v6 : v6[n] = <<i, v1[i]>>}
             after == {n \in DOMAIN v6' : v6'[n] = <<i, v1'[i]>>}
  <2>1. Cardinality(before) = Cardinality(DoneFor(i))
    BY <1>2 DEF SelectInv, GetInv
  <2>2. CASE i # id
    <3>1. after = before
      BY <1>1, <1>5, <2>2
    <3> QED BY <1>2, <2>1, <2>2, <3>1
  <2>3. CASE i = id
    <3>1. after = before \cup {Len(v6) + 1} /\ Len(v6) + 1 \notin before
      BY <1>1, <1>5, <2>3
    <3>2. IsFiniteSet(before)
      <4>1. before \subseteq 1 .. Len(v6)
        BY <1>5
      <4>2. Len(v6) \in Nat
        BY <1>5
      <4>3. IsFiniteSet(1 .. Len(v6))
        BY <4>2, FS_Interval
      <4> QED BY <4>1, <4>3, FS_Subset
    <3>3. DoneFor(i) \subseteq Places
      BY DEF DoneFor
    <3>4. IsFiniteSet(DoneFor(i))
      BY <1>3, <3>3, FS_Subset
    <3>5. Cardinality(after) = Cardinality(before) + 1
      BY <3>1, <3>2, FS_AddElement
    <3>6. Cardinality(DoneFor(i)') = Cardinality(DoneFor(i)) + 1
      BY <1>2, <2>3, <3>4, FS_AddElement
    <3> QED BY <2>1, <3>5, <3>6
  <2> QED BY <2>2, <2>3
<1>7. v2'.kind = "get"
  BY <1>1, <1>2
<1> QED BY <1>1, <1>2, <1>5, <1>6, <1>7 DEF SelectInv, SetInv, EnvInv

(* A column that is new is one the selector at hand is the first to name.  *)
LEMMA ColumnKeeps ==
  ASSUME SelectInv, NEW n, Selecting!AddColumn(n)
  PROVE  SelectInv'
<1>1. /\ Selecting!Take("env", n) /\ v1' = v1 /\ v2' = v2 /\ v3' = v3 /\ v4' = v4
      /\ n \in v5 /\ v5' = v5 \ {n} /\ \A j \in v5 : n <= j
      /\ v6' = IF n \in Selecting!ToSet(v6) THEN v6 ELSE Append(v6, n)
  BY DEF Selecting!AddColumn, Selecting!Take
<1>2. /\ v2.kind = "env" /\ v2.kind # "none" /\ v7 = "working" /\ v7' = "working"
      /\ v4 \in Places \ v3 /\ n \in Selecting!Found(v4) /\ RequestInv' /\ LoopInv'
      /\ DoneFor(n)' = DoneFor(n) \cup {v4}
      /\ \A i : i # n => DoneFor(i)' = DoneFor(i)
  BY <1>1, TakeKeeps
<1>3. /\ Places \subseteq Nat /\ n \in DOMAIN Catalog /\ DOMAIN Catalog \subseteq Nat
      /\ \A k \in Places : Selecting!Found(k) \subseteq Nat
  BY <1>2, PlacesAre, SelectLimits DEF SelectInv
<1>4. /\ v6 \in Seq(((DOMAIN Signals) \X Texts) \cup DOMAIN Signals \cup DOMAIN Catalog)
      /\ v2.sels # <<>>
      /\ Selecting!ToSet(v6) = {x \in DOMAIN Catalog : DoneFor(x) # {}}
  BY <1>2 DEF SelectInv, EnvInv
<1>5. \A x : Selecting!FirstNaming(x)' = Selecting!FirstNaming(x)
  BY <1>1, SameRequest
<1>6. v2' = v2 /\ v2'.kind = "env"
  BY <1>1, <1>2
<1>7. {x \in DOMAIN Catalog : DoneFor(x)' # {}} = {x \in DOMAIN Catalog : DoneFor(x) # {}} \cup {n}
  <2>1. ASSUME NEW x \in DOMAIN Catalog
        PROVE  (DoneFor(x)' # {}) <=> (DoneFor(x) # {} \/ x = n)
    BY <1>2
  <2> QED BY <2>1, <1>3
<1>8. CASE n \in Selecting!ToSet(v6)
  <2>1. v6' = v6
    BY <1>1, <1>8
  <2>2. Selecting!ToSet(v6)' = {x \in DOMAIN Catalog : DoneFor(x)' # {}}
    <3>1. Selecting!ToSet(v6)' = Selecting!ToSet(v6)
      BY <2>1 DEF Selecting!ToSet
    <3> QED BY <3>1, <1>4, <1>7, <1>8
  <2>3. \A b \in DOMAIN v6' :
          /\ Selecting!FirstNaming(v6'[b]) \in Nat
          /\ Selecting!FirstNaming(v6'[b]) <= v4
          /\ Selecting!FirstNaming(v6'[b]) = v4 => \A j \in v5' : v6'[b] < j
    BY <2>1, <1>1, <1>2 DEF SelectInv, EnvInv
  <2>4. \A a, b \in DOMAIN v6' : a < b =>
          \/ Selecting!FirstNaming(v6'[a]) < Selecting!FirstNaming(v6'[b])
          \/ Selecting!FirstNaming(v6'[a]) = Selecting!FirstNaming(v6'[b]) /\ v6'[a] < v6'[b]
    BY <2>1, <1>2 DEF SelectInv, EnvInv
  <2>5. EnvInv'
    <3>1. v2'.sels # <<>> /\ v7' # "error"
      BY <1>1, <1>2, <1>4
    <3>2. \A b \in DOMAIN v6' :
            /\ Selecting!FirstNaming(v6[b])' \in Nat
            /\ Selecting!FirstNaming(v6[b])' <= v4'
            /\ Selecting!FirstNaming(v6[b])' = v4' => \A j \in v5' : v6'[b] < j
      BY <1>1, <1>5, <2>3
    <3>3. \A a, b \in DOMAIN v6' : a < b =>
            \/ Selecting!FirstNaming(v6[a])' < Selecting!FirstNaming(v6[b])'
            \/ Selecting!FirstNaming(v6[a])' = Selecting!FirstNaming(v6[b])' /\ v6'[a] < v6'[b]
      BY <1>1, <1>5, <2>4
    <3> QED BY <3>1, <3>2, <3>3, <2>2 DEF EnvInv
  <2> QED BY <1>1, <1>2, <1>4, <1>6, <2>1, <2>5 DEF SelectInv, SetInv, GetInv
<1>9. CASE n \notin Selecting!ToSet(v6)
  <2>1. /\ v6' \in Seq(((DOMAIN Signals) \X Texts) \cup DOMAIN Signals \cup DOMAIN Catalog)
        /\ Len(v6) \in Nat /\ DOMAIN v6 = 1 .. Len(v6) /\ DOMAIN v6' = 1 .. (Len(v6) + 1)
        /\ \A b \in DOMAIN v6 : v6'[b] = v6[b]
        /\ v6'[Len(v6) + 1] = n
    <3>1. v6' = Append(v6, n)
      BY <1>1, <1>9
    <3> QED BY <3>1, <1>3, <1>4, AppendProperties, LenProperties
  <2>2. DoneFor(n) = {}
    BY <1>3, <1>4, <1>9
  <2>3. Selecting!FirstNaming(n) = v4
    <3>1. v2.sels = v2.sels /\ Places = DOMAIN v2.sels
      BY <1>2 DEF Places
    <3>2. \A k \in Places : Selecting!Found(k) = Selecting!IndicesOf(v2.sels[k])
      BY <1>2 DEF Selecting!Found, Selecting!SelectorAt
    <3>3. ASSUME NEW k \in Places, n \in Selecting!Found(k) PROVE v4 <= k
      <4>1. k \in v3 \/ k = v4
        BY <2>2, <3>3 DEF DoneFor
      <4>2. \A l \in v3 : v4 < l
        BY <1>2 DEF SelectInv, LoopInv
      <4> QED BY <4>1, <4>2, <1>2, <1>3
    <3> DEFINE P(k) == /\ n \in Selecting!IndicesOf(v2.sels[k])
                       /\ \A l \in DOMAIN v2.sels : n \in Selecting!IndicesOf(v2.sels[l]) => k <= l
    <3>4. P(v4)
      BY <1>2, <3>1, <3>2, <3>3
    <3>5. ASSUME NEW k \in DOMAIN v2.sels, P(k) PROVE k = v4
      <4>1. k <= v4 /\ v4 <= k
        BY <3>4, <3>5, <3>1, <1>2
      <4> QED BY <4>1, <3>1, <1>2, <1>3
    <3>6. Selecting!FirstNaming(n) = CHOOSE k \in DOMAIN v2.sels : P(k)
      BY DEF Selecting!FirstNaming
    <3>7. v4 \in DOMAIN v2.sels
      BY <3>1, <1>2
    <3> HIDE DEF P
    <3> QED BY <3>4, <3>5, <3>6, <3>7
  <2>4. Selecting!ToSet(v6)' = {x \in DOMAIN Catalog : DoneFor(x)' # {}}
    <3>1. Selecting!ToSet(v6)' = Selecting!ToSet(v6) \cup {n}
      BY <2>1 DEF Selecting!ToSet
    <3> QED BY <3>1, <1>4, <1>7
  <2>5. ASSUME NEW b \in DOMAIN v6
        PROVE  /\ Selecting!FirstNaming(v6[b]) \in Nat
               /\ Selecting!FirstNaming(v6[b]) <= v4
               /\ Selecting!FirstNaming(v6[b]) = v4 => v6[b] < n /\ \A j \in v5' : v6[b] < j
    BY <1>1, <1>2 DEF SelectInv, EnvInv
  <2>6. \A j \in v5' : n < j
    <3>1. v5 \subseteq Nat
      <4>1. v4 \in Places /\ v4 # 0
        BY <1>2, PlacesAre DEF SelectInv
      <4>2. v5 \subseteq Selecting!Found(v4)
        BY <1>2, <4>1 DEF SelectInv, LoopInv
      <4> QED BY <4>1, <4>2, <1>3
    <3> QED BY <1>1, <3>1
  <2>7. ASSUME NEW b \in DOMAIN v6'
        PROVE  /\ Selecting!FirstNaming(v6'[b]) \in Nat
               /\ Selecting!FirstNaming(v6'[b]) <= v4
               /\ Selecting!FirstNaming(v6'[b]) = v4 => \A j \in v5' : v6'[b] < j
    <3>1. CASE b \in DOMAIN v6
      BY <3>1, <2>1, <2>5
    <3>2. CASE b = Len(v6) + 1
      BY <3>2, <2>1, <2>3, <2>6, <1>2, <1>3
    <3> QED BY <3>1, <3>2, <2>1
  <2>8. ASSUME NEW a \in DOMAIN v6', NEW b \in DOMAIN v6', a < b
        PROVE  \/ Selecting!FirstNaming(v6'[a]) < Selecting!FirstNaming(v6'[b])
               \/ Selecting!FirstNaming(v6'[a]) = Selecting!FirstNaming(v6'[b]) /\ v6'[a] < v6'[b]
    <3>1. a \in DOMAIN v6
      BY <2>1, <2>8
    <3>2. CASE b \in DOMAIN v6
      BY <3>1, <3>2, <2>1, <2>8, <1>2 DEF SelectInv, EnvInv
    <3>3. CASE b = Len(v6) + 1
      <4>1. v6'[b] = n /\ v6'[a] = v6[a] /\ Selecting!FirstNaming(v6'[b]) = v4
        BY <3>1, <3>3, <2>1, <2>3
      <4>2. v4 \in Nat
        BY <1>2, <1>3
      <4> QED BY <4>1, <4>2, <2>5, <3>1
    <3> QED BY <3>2, <3>3, <2>1
  <2>9. EnvInv'
    <3>1. v2'.sels # <<>> /\ v7' # "error"
      BY <1>1, <1>2, <1>4
    <3>2. \A b \in DOMAIN v6' :
            /\ Selecting!FirstNaming(v6[b])' \in Nat
            /\ Selecting!FirstNaming(v6[b])' <= v4'
            /\ Selecting!FirstNaming(v6[b])' = v4' => \A j \in v5' : v6'[b] < j
      BY <1>1, <1>5, <2>7
    <3>3. \A a, b \in DOMAIN v6' : a < b =>
            \/ Selecting!FirstNaming(v6[a])' < Selecting!FirstNaming(v6[b])'
            \/ Selecting!FirstNaming(v6[a])' = Selecting!FirstNaming(v6[b])' /\ v6'[a] < v6'[b]
      BY <1>1, <1>5, <2>8
    <3> QED BY <3>1, <3>2, <3>3, <2>4 DEF EnvInv
  <2> QED BY <1>1, <1>2, <1>6, <2>1, <2>9 DEF SelectInv, SetInv, GetInv
<1> QED BY <1>8, <1>9

(* A request that is refused leaves what it wrote.                         *)
LEMMA RefusalKeeps ==
  ASSUME SelectInv, Selecting!Fails, v7 = "working",
         \/ v2.kind = "set"
         \/ v2.kind = "get" /\ Refusable
         \/ \E k \in v3 : ~ Standing(k)
  PROVE  SelectInv'
<1>1. /\ v7' = "error" /\ v6' = <<>>
      /\ v1' = v1 /\ v2' = v2 /\ v3' = v3 /\ v4' = v4 /\ v5' = v5
  BY DEF Selecting!Fails
<1>2. v2.kind # "none" /\ v3 \subseteq Places
  BY DEF SelectInv, RequestInv, LoopInv
<1>3. /\ Places' = Places
      /\ \A l : Selecting!Found(l)' = Selecting!Found(l)
      /\ \A l : Standing(l)' = Standing(l)
  BY <1>1, SameRequest
<1>4. \A i : DoneFor(i)' = DoneFor(i)
  BY <1>1, <1>3 DEF DoneFor
<1>5. v6' \in Seq(((DOMAIN Signals) \X Texts) \cup DOMAIN Signals \cup DOMAIN Catalog)
  BY <1>1, EmptySeq
<1>6. RequestInv'
  BY <1>1 DEF SelectInv, RequestInv
<1>7. LoopInv'
  <2>1. Selecting!Found(v4)' = Selecting!Found(v4)
    BY <1>1 DEF Selecting!Found, Selecting!SelectorAt
  <2> QED BY <1>1, <1>3, <2>1 DEF SelectInv, LoopInv
<1>8. SetInv'
  BY <1>1, <1>4 DEF SelectInv, SetInv
<1>9. \/ v2.kind = "set"
      \/ v2.kind = "get" /\ Refusable'
      \/ \E k \in Places' : ~ Standing(k)'
  BY <1>2, <1>3 DEF Refusable
<1>10. GetInv'
  BY <1>1, <1>9 DEF GetInv
<1>11. EnvInv'
  BY <1>1, <1>9 DEF EnvInv
<1> QED BY <1>1, <1>5, <1>6, <1>7, <1>8, <1>10, <1>11 DEF SelectInv

(* What all requests begin with.                                           *)
LEMMA BeginKeeps ==
  ASSUME SelectInv, v7 = "idle", v7' \in {"working", "error"}, v2'.kind # "none",
         v3' = Places', UNCHANGED <<v1, v4, v5, v6>>, RequestInv'
  PROVE  /\ LoopInv' /\ v4' = 0 /\ v5' = {} /\ v6' = <<>>
         /\ \A i : DoneFor(i)' = {}
<1>1. v4' = 0 /\ v5' = {} /\ v6' = <<>>
  BY DEF SelectInv
<1>2. Places' \subseteq Nat \ {0}
  <2>1. RequestInv' /\ (v2.kind # "none")' => (Places \subseteq Nat \ {0})'
    BY PlacesAre, PTL
  <2> QED BY <2>1
<1>3. \A i : DoneFor(i)' = {}
  BY DEF DoneFor
<1> QED BY <1>1, <1>2, <1>3 DEF LoopInv

LEMMA GetKeeps ==
  ASSUME SelectInv, NEW sels \in Selecting!Lists(Selecting!ToSet(Selectors)), Selecting!Get(sels)
  PROVE  SelectInv'
<1>1. /\ v7 = "idle" /\ v7' = "working" /\ v2' = [kind |-> "get", sels |-> sels]
      /\ v2'.kind = "get" /\ v2'.sels = sels
      /\ v3' = DOMAIN sels /\ v1' = v1 /\ v4' = v4 /\ v5' = v5 /\ v6' = v6
  BY DEF Selecting!Get, Selecting!Begin
<1>2. \E n \in Nat : sels \in [1 .. n -> Selecting!ToSet(Selectors)]
  BY CommandsAssumption DEF Selecting!Lists, Selecting!SelectorAssumption
<1>3. RequestInv'
  BY <1>1, <1>2 DEF RequestInv
<1>4. v3' = Places'
  BY <1>1 DEF Places
<1>5. LoopInv' /\ v6' = <<>> /\ \A i : DoneFor(i)' = {}
  BY <1>1, <1>3, <1>4, BeginKeeps
<1>6. GetInv'
  <2>1. \A i : {n \in DOMAIN v6' : v6'[n] = <<i, v1'[i]>>} = {}
    BY <1>5
  <2>2. \A i : Cardinality({n \in DOMAIN v6' : v6'[n] = <<i, v1'[i]>>}) = Cardinality(DoneFor(i)')
    BY <1>5, <2>1, Zenon
  <2> QED BY <1>1, <2>2 DEF GetInv
<1> QED BY <1>1, <1>3, <1>5, <1>6 DEF SelectInv, SetInv, EnvInv

LEMMA SetKeeps ==
  ASSUME SelectInv, NEW w \in Selecting!Writes, Selecting!Set(w)
  PROVE  SelectInv'
<1>1. /\ v7 = "idle" /\ v7' = "working"
      /\ v2' = [kind |-> "set", writes |-> w, before |-> v1]
      /\ v2'.kind = "set" /\ v2'.writes = w /\ v2'.before = v1
      /\ v3' = DOMAIN w /\ v1' = v1 /\ v4' = v4 /\ v5' = v5 /\ v6' = v6
  BY DEF Selecting!Set, Selecting!Begin
<1>2. DOMAIN w \subseteq DOMAIN Selectors /\ \A k \in DOMAIN w : w[k] \in Raws
  BY DEF Selecting!Writes
<1>3. RequestInv'
  BY <1>1, <1>2 DEF RequestInv
<1>4. v3' = Places'
  BY <1>1 DEF Places
<1>5. LoopInv' /\ v6' = <<>> /\ \A i : DoneFor(i)' = {}
  BY <1>1, <1>3, <1>4, BeginKeeps
<1>6. SetInv'
  BY <1>1, <1>5 DEF SetInv
<1> QED BY <1>1, <1>3, <1>5, <1>6 DEF SelectInv, GetInv, EnvInv

LEMMA EnvGetKeeps ==
  ASSUME SelectInv, NEW sels \in Selecting!Lists(EnvSelectors), Selecting!EnvGet(sels)
  PROVE  SelectInv'
<1>1. /\ v7 = "idle" /\ v7' = (IF sels = <<>> THEN "error" ELSE "working")
      /\ v2' = [kind |-> "env", sels |-> sels]
      /\ v2'.kind = "env" /\ v2'.sels = sels
      /\ v3' = DOMAIN sels /\ v1' = v1 /\ v4' = v4 /\ v5' = v5 /\ v6' = v6
  BY DEF Selecting!EnvGet, Selecting!Begin
<1>2. \E n \in Nat : sels \in [1 .. n -> EnvSelectors]
  BY CommandsAssumption DEF Selecting!Lists, Selecting!SelectorAssumption
<1>3. RequestInv'
  BY <1>1, <1>2 DEF RequestInv
<1>4. v3' = Places'
  BY <1>1 DEF Places
<1>5. LoopInv' /\ v6' = <<>> /\ \A i : DoneFor(i)' = {}
  BY <1>1, <1>3, <1>4, BeginKeeps
<1>6. Selecting!ToSet(v6)' = {}
  BY <1>5 DEF Selecting!ToSet
<1>7. EnvInv'
  BY <1>1, <1>5, <1>6 DEF EnvInv
<1> QED BY <1>1, <1>3, <1>5, <1>7 DEF SelectInv, SetInv, GetInv

LEMMA FinishKeeps ==
  ASSUME SelectInv, Selecting!Finish
  PROVE  SelectInv'
<1>1. /\ v7 = "working" /\ v7' = "ok" /\ v3 = {} /\ v5 = {}
      /\ v1' = v1 /\ v2' = v2 /\ v3' = v3 /\ v4' = v4 /\ v5' = v5 /\ v6' = v6
  BY DEF Selecting!Finish
<1>2. /\ Places' = Places
      /\ \A l : Selecting!Found(l)' = Selecting!Found(l)
      /\ \A l : Standing(l)' = Standing(l)
      /\ \A n : Selecting!FirstNaming(n)' = Selecting!FirstNaming(n)
  BY <1>1, SameRequest
<1>3. \A i : DoneFor(i)' = DoneFor(i)
  BY <1>1, <1>2 DEF DoneFor
<1>4. LoopInv'
  <2>1. Selecting!Found(v4)' = Selecting!Found(v4)
    BY <1>1 DEF Selecting!Found, Selecting!SelectorAt
  <2> QED BY <1>1, <1>2, <2>1 DEF SelectInv, LoopInv
<1>5. SetInv'
  BY <1>1, <1>3 DEF SelectInv, SetInv
<1>6. GetInv'
  BY <1>1, <1>3 DEF SelectInv, GetInv
<1>7. EnvInv'
  BY <1>1, <1>2, <1>3 DEF SelectInv, EnvInv
<1> QED BY <1>1, <1>4, <1>5, <1>6, <1>7 DEF SelectInv, RequestInv

LEMMA AnsweredKeeps ==
  ASSUME SelectInv, Selecting!Answered
  PROVE  SelectInv'
<1>1. /\ v2' = [kind |-> "none"] /\ v2'.kind = "none" /\ v7' = "idle"
      /\ v3' = {} /\ v4' = 0 /\ v5' = {} /\ v6' = <<>> /\ v1' = v1
  BY DEF Selecting!Answered
<1>2. v6' \in Seq(((DOMAIN Signals) \X Texts) \cup DOMAIN Signals \cup DOMAIN Catalog)
  BY <1>1, EmptySeq
<1>3. RequestInv' /\ LoopInv' /\ SetInv' /\ GetInv' /\ EnvInv'
  BY <1>1 DEF RequestInv, LoopInv, SetInv, GetInv, EnvInv
<1> QED BY <1>1, <1>2, <1>3 DEF SelectInv

LEMMA SelectStep == SelectInv /\ [Selecting!Next]_(Selecting!vars) => SelectInv'
<1> SUFFICES ASSUME SelectInv, [Selecting!Next]_(Selecting!vars) PROVE SelectInv'
  OBVIOUS
<1>1. ASSUME NEW k \in v3, Selecting!Resolve(k) PROVE SelectInv'
  <2>1. v7 = "working" /\ v5 = {} /\ \A l \in v3 : k <= l
    BY <1>1 DEF Selecting!Resolve
  <2>2. CASE Standing(k)
    BY <1>1, <2>1, <2>2, ResolveKeeps DEF Selecting!Resolve, Standing
  <2>3. CASE ~ Standing(k)
    BY <1>1, <2>1, <2>3, RefusalKeeps DEF Selecting!Resolve, Standing
  <2> QED BY <2>2, <2>3
<1>2. ASSUME NEW id \in v5, Selecting!WriteSignal(id) PROVE SelectInv'
  <2>1. Selecting!Write(id) \/ (Selecting!Fails /\ v2.kind = "set" /\ v7 = "working")
    BY <1>2 DEF Selecting!WriteSignal
  <2> QED BY <2>1, WriteKeeps, RefusalKeeps
<1>3. ASSUME NEW id \in v5, Selecting!ReadRefused(id) PROVE SelectInv'
  <2>1. Selecting!Fails /\ v2.kind = "get" /\ v7 = "working" /\ Signals[id].failing
    BY <1>3 DEF Selecting!ReadRefused
  <2>2. v4 \in Places /\ id \in Selecting!Found(v4)
    BY <1>3, <2>1 DEF SelectInv, LoopInv
  <2> QED BY <2>1, <2>2, RefusalKeeps DEF Refusable
<1>4. ASSUME UNCHANGED Selecting!vars PROVE SelectInv'
  <2>1. /\ v1' = v1 /\ v2' = v2 /\ v3' = v3 /\ v4' = v4 /\ v5' = v5 /\ v6' = v6 /\ v7' = v7
    BY <1>4 DEF Selecting!vars
  <2>2. /\ Places' = Places
        /\ \A l : Selecting!Found(l)' = Selecting!Found(l)
        /\ \A l : Standing(l)' = Standing(l)
        /\ \A n : Selecting!FirstNaming(n)' = Selecting!FirstNaming(n)
    BY <2>1, SameRequest
  <2>3. \A i : DoneFor(i)' = DoneFor(i)
    BY <2>1, <2>2 DEF DoneFor
  <2>4. RequestInv' /\ LoopInv'
    <3>1. Selecting!Found(v4)' = Selecting!Found(v4)
      BY <2>1 DEF Selecting!Found, Selecting!SelectorAt
    <3> QED BY <2>1, <2>2, <3>1 DEF SelectInv, LoopInv, RequestInv
  <2>5. SetInv'
    BY <2>1, <2>3 DEF SelectInv, SetInv
  <2>7. GetInv'
    BY <2>1, <2>2, <2>3 DEF SelectInv, GetInv, Refusable
  <2>6. EnvInv'
    BY <2>1, <2>2, <2>3 DEF SelectInv, EnvInv
  <2> QED BY <2>1, <2>4, <2>5, <2>6, <2>7 DEF SelectInv
<1> QED
  BY <1>1, <1>2, <1>3, <1>4, GetKeeps, SetKeeps, EnvGetKeeps, ReadKeeps, ColumnKeeps,
     FinishKeeps, AnsweredKeeps DEF Selecting!Next

(* What a selector has done so far is what WrittenUpTo asks for.           *)
LEMMA DoneAsWritten ==
  ASSUME SelectInv, v2.kind = "set", NEW k \in Int, NEW c \in Int,
         \A i \in DOMAIN Signals :
           DoneFor(i) = {l \in DOMAIN v2.writes :
             i \in Selecting!IdsOf(Selectors[l]) /\ (l < k \/ (l = k /\ i <= c))}
  PROVE  Selecting!WrittenUpTo(k, c)
<1> SUFFICES ASSUME NEW i \in DOMAIN Signals
             PROVE  \/ DoneFor(i) = {} /\ v1[i] = v2.before[i]
                    \/ \E l \in DoneFor(i) :
                         (\A m \in DoneFor(i) : m <= l) /\ v1[i] = v2.writes[l].text
  BY Zenon DEF Selecting!WrittenUpTo
<1> QED BY DEF SelectInv, SetInv

LEMMA SetWrites ==
  ASSUME SelectInv
  PROVE  Selecting!RefusedSetIsAPrefix /\ Selecting!SetLeavesTheLast
<1> SUFFICES ASSUME v2.kind = "set" PROVE Selecting!RefusedSetIsAPrefix /\ Selecting!SetLeavesTheLast
  BY DEF Selecting!RefusedSetIsAPrefix, Selecting!SetLeavesTheLast
<1>1. /\ Places = DOMAIN v2.writes /\ Places \subseteq 1 .. Len(Selectors)
      /\ Len(Selectors) \in Nat /\ DOMAIN Signals \subseteq Nat
  BY SelectLimits DEF Places, SelectInv, RequestInv
<1>2. \A l \in Places : Selecting!Found(l) = Selecting!IdsOf(Selectors[l])
  BY DEF Selecting!Found, Selecting!SelectorAt
<1>3. \A l \in Places : Selecting!Found(l) \subseteq DOMAIN Signals
  BY PlacesAre DEF SelectInv
<1>4. /\ v3 \subseteq Places /\ v4 \in (Places \ v3) \cup {0}
      /\ \A l \in v3 : v4 < l
      /\ \A l \in Places \ v3 : l <= v4
      /\ v4 # 0 => \E c \in Selecting!Found(v4) \cup {-1} : v5 = {j \in Selecting!Found(v4) : c < j}
      /\ v7 = "ok" => v3 = {} /\ v5 = {}
  BY DEF SelectInv, LoopInv
<1>5. v4 \in 0 .. Len(Selectors)
  BY <1>1, <1>4
<1>6. \E c \in DOMAIN Signals \cup {-1} : Selecting!WrittenUpTo(v4, c)
  <2>1. CASE v4 = 0
    <3>1. \A i \in DOMAIN Signals :
            DoneFor(i) = {l \in DOMAIN v2.writes :
              i \in Selecting!IdsOf(Selectors[l]) /\ (l < v4 \/ (l = v4 /\ i <= -1))}
      BY <1>1, <1>4, <2>1 DEF DoneFor
    <3> QED BY <3>1, <2>1, DoneAsWritten
  <2>2. CASE v4 # 0
    <3>1. PICK c \in Selecting!Found(v4) \cup {-1} : v5 = {j \in Selecting!Found(v4) : c < j}
      BY <1>4, <2>2
    <3>2. v4 \in Places /\ c \in DOMAIN Signals \cup {-1}
      BY <1>3, <1>4, <2>2, <3>1
    <3>3. ASSUME NEW i \in DOMAIN Signals
          PROVE  DoneFor(i) = {l \in DOMAIN v2.writes :
                   i \in Selecting!IdsOf(Selectors[l]) /\ (l < v4 \/ (l = v4 /\ i <= c))}
      <4>1. ASSUME NEW l \in Places, i \in Selecting!Found(l)
            PROVE  (l \notin v3 /\ ~ (l = v4 /\ i \in v5)) <=> (l < v4 \/ (l = v4 /\ i <= c))
        <5>1. l \in v3 => v4 < l
          BY <1>4
        <5>2. l \notin v3 => l <= v4
          BY <1>4, <4>1
        <5>3. l = v4 => ((i \in v5) <=> (c < i))
          BY <3>1, <4>1
        <5>4. l \in Int /\ v4 \in Int /\ c \in Int /\ i \in Int
          BY <1>1, <1>5, <3>2
        <5> QED BY <5>1, <5>2, <5>3, <5>4
      <4> QED BY <4>1, <1>1, <1>2 DEF DoneFor
    <3>4. v4 \in Int /\ c \in Int
      BY <1>1, <1>5, <3>2
    <3> QED BY <3>2, <3>3, <3>4, DoneAsWritten
  <2> QED BY <2>1, <2>2
<1>7. Selecting!RefusedSetIsAPrefix
  BY <1>5, <1>6 DEF Selecting!RefusedSetIsAPrefix
<1>8. ASSUME v7 = "ok" PROVE Selecting!WrittenUpTo(Len(Selectors) + 1, -1)
  <2>1. \A i \in DOMAIN Signals :
          DoneFor(i) = {l \in DOMAIN v2.writes :
            i \in Selecting!IdsOf(Selectors[l])
              /\ (l < Len(Selectors) + 1 \/ (l = Len(Selectors) + 1 /\ i <= -1))}
    BY <1>1, <1>2, <1>4, <1>8 DEF DoneFor
  <2>2. Len(Selectors) + 1 \in Int /\ -1 \in Int
    BY <1>1
  <2> QED BY <2>1, <2>2, DoneAsWritten
<1> QED BY <1>7, <1>8 DEF Selecting!SetLeavesTheLast

(* The module's own Cardinality is the one the theorems are about.         *)
LEMMA SelectingCardinality == \A S : Selecting!Cardinality(S) = Cardinality(S)
BY Zenon DEF Selecting!Cardinality, Cardinality

LEMMA GetReads == ASSUME SelectInv PROVE Selecting!GetIsComplete
<1> SUFFICES ASSUME v2.kind = "get", v7 \in {"ok", "error"} PROVE Selecting!GetIsComplete
  BY DEF Selecting!GetIsComplete
<1>1. Places = DOMAIN v2.sels
  BY DEF Places
<1>2. \A k \in Places : /\ Selecting!Found(k) = Selecting!IdsOf(v2.sels[k])
                        /\ Standing(k) = Selecting!Stands(v2.sels[k], Selecting!IdsOf(v2.sels[k]))
  BY DEF Standing, Selecting!Found, Selecting!SelectorAt
<1>3. CASE v7 = "error"
  <2>1. v6 = <<>> /\ ((\E k \in Places : ~ Standing(k)) \/ Refusable)
    BY <1>3 DEF SelectInv, GetInv
  <2>2. \E k \in DOMAIN v2.sels :
          \/ Selecting!StandsForNone(k)
          \/ \E i \in Selecting!IdsOf(v2.sels[k]) : Signals[i].failing
    BY <1>1, <1>2, <2>1 DEF Refusable, Selecting!StandsForNone
  <2> QED BY <2>1, <2>2, <1>3 DEF Selecting!GetIsComplete
<1>4. CASE v7 = "ok"
  <2>1. v3 = {} /\ v5 = {} /\ \A k \in Places : Standing(k)
    BY <1>4 DEF SelectInv, LoopInv
  <2>2. \A k \in DOMAIN v2.sels : ~ Selecting!StandsForNone(k)
    BY <1>1, <1>2, <2>1 DEF Selecting!StandsForNone
  <2>3. \A i : DoneFor(i) = {k \in DOMAIN v2.sels : i \in Selecting!IdsOf(v2.sels[k])}
    BY <1>1, <1>2, <2>1 DEF DoneFor
  <2>4. \A i \in DOMAIN Signals :
          Cardinality({n \in DOMAIN v6 : v6[n] = <<i, v1[i]>>})
            = Cardinality({k \in DOMAIN v2.sels : i \in Selecting!IdsOf(v2.sels[k])})
    <3> SUFFICES ASSUME NEW i \in DOMAIN Signals
                 PROVE  Cardinality({n \in DOMAIN v6 : v6[n] = <<i, v1[i]>>})
                   = Cardinality({k \in DOMAIN v2.sels : i \in Selecting!IdsOf(v2.sels[k])})
      OBVIOUS
    <3>1. Cardinality({n \in DOMAIN v6 : v6[n] = <<i, v1[i]>>}) = Cardinality(DoneFor(i))
      BY <1>4 DEF SelectInv, GetInv
    <3> DEFINE K == {k \in DOMAIN v2.sels : i \in Selecting!IdsOf(v2.sels[k])}
    <3>2. DoneFor(i) = K
      BY <2>3
    <3> HIDE DEF K
    <3>3. Cardinality({n \in DOMAIN v6 : v6[n] = <<i, v1[i]>>}) = Cardinality(K)
      BY <3>1, <3>2, Zenon
    <3> QED BY <3>3, Zenon DEF K
  <2> QED BY <1>4, <2>2, <2>4, SelectingCardinality DEF Selecting!GetIsComplete
<1> QED BY <1>3, <1>4

LEMMA EnvFinds == ASSUME SelectInv PROVE Selecting!EnvColumnsOnce
<1> SUFFICES ASSUME v2.kind = "env", v7 \in {"ok", "error"} PROVE Selecting!EnvColumnsOnce
  BY DEF Selecting!EnvColumnsOnce, Selecting!Done
<1>1. Places = DOMAIN v2.sels
  BY DEF Places
<1>2. \A k \in Places : /\ Selecting!Found(k) = Selecting!IndicesOf(v2.sels[k])
                        /\ Standing(k) = Selecting!Stands(v2.sels[k], Selecting!IndicesOf(v2.sels[k]))
  BY DEF Standing, Selecting!Found, Selecting!SelectorAt
<1>3. CASE v7 = "error"
  <2>1. \/ v2.sels = <<>>
        \/ \E k \in DOMAIN v2.sels : ~ Selecting!Stands(v2.sels[k], Selecting!IndicesOf(v2.sels[k]))
    BY <1>1, <1>2, <1>3 DEF SelectInv, EnvInv
  <2> QED BY <2>1, <1>3 DEF Selecting!EnvColumnsOnce
<1>4. CASE v7 = "ok"
  <2>1. v3 = {} /\ v5 = {} /\ \A k \in Places : Standing(k)
    BY <1>4 DEF SelectInv, LoopInv
  <2>2. ~ \E k \in DOMAIN v2.sels : ~ Selecting!Stands(v2.sels[k], Selecting!IndicesOf(v2.sels[k]))
    BY <1>1, <1>2, <2>1
  <2>3. \A n : (DoneFor(n) # {}) <=> (\E k \in DOMAIN v2.sels : n \in Selecting!IndicesOf(v2.sels[k]))
    BY <1>1, <1>2, <2>1 DEF DoneFor
  <2>4. /\ v2.sels # <<>>
        /\ Selecting!ToSet(v6) = {n \in DOMAIN Catalog : DoneFor(n) # {}}
        /\ \A a, b \in DOMAIN v6 : a < b =>
              \/ Selecting!FirstNaming(v6[a]) < Selecting!FirstNaming(v6[b])
              \/ Selecting!FirstNaming(v6[a]) = Selecting!FirstNaming(v6[b]) /\ v6[a] < v6[b]
    BY <1>4 DEF SelectInv, EnvInv
  <2>5. Selecting!ToSet(v6) = {n \in DOMAIN Catalog :
          \E k \in DOMAIN v2.sels : n \in Selecting!IndicesOf(v2.sels[k])}
    BY <2>3, <2>4
  <2> QED BY <1>4, <2>2, <2>4, <2>5 DEF Selecting!EnvColumnsOnce
<1> QED BY <1>3, <1>4

LEMMA SelectPassed == SelectInv => SelectorsExact
<1> SUFFICES ASSUME SelectInv PROVE SelectorsExact
  OBVIOUS
<1>1. Selecting!TypeOK
  <2>1. v2.kind = "env" => Selecting!ToSet(v6) \subseteq DOMAIN Catalog
    <3>1. CASE v7 = "error"
      BY <3>1 DEF SelectInv, Selecting!ToSet
    <3>2. CASE v7 # "error"
      BY <3>2 DEF SelectInv, EnvInv
    <3> QED BY <3>1, <3>2
  <2> QED BY <2>1 DEF Selecting!TypeOK, SelectInv, RequestInv, Texts
<1> QED BY <1>1, SetWrites, GetReads, EnvFinds DEF SelectorsExact

(* Whatever signals an instance has, whatever selectors stand for and how- *)
(* ever many of them a request names: a Get reads each signal once for     *)
(* each selector that stands for it, or delivers nothing, and then one     *)
(* stands for none or the library refused to read a signal asked for; a    *)
(* Set that is refused has done its writes up to the refused one, and one  *)
(* that succeeds leaves the last of each; the columns of an env come once, *)
(* in the order of the selectors (the loops of the Get and Set handlers,   *)
(* select_instance_signal_ids, resolve_selectors).                         *)
THEOREM SelectorsAnswered == Spec => []SelectorsExact
<1> DEFINE Inv == part = "selectors" => SelectInv
<1>1. Init => Inv
  BY SelectInit DEF Init
<1>2. Inv /\ [Next]_vars => Inv'
  <2>1. ASSUME Inv, [Next]_vars PROVE Inv'
    BY <2>1, PartsMove, SelectStep
  <2> QED BY <2>1
<1>3. Inv => SelectorsExact
  BY SelectPassed DEF SelectorsExact
<1> QED BY <1>1, <1>2, <1>3, PTL DEF Spec

=============================================================================
