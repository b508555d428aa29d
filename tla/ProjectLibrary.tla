--------------------------- MODULE ProjectLibrary ---------------------------
(***************************************************************************)
(* How a daemon loads a device's shared library and then collects its      *)
(* frames (runtime/src/sim/project.rs, project_loader.rs, validation.rs).  *)
(* The library is chosen at the start, good or bad, by what it exports and *)
(* what its functions answer; include/sim_api.h says what a good one does. *)
(*                                                                         *)
(* A list is fetched into a buffer that is doubled while the library says  *)
(* that it is too small.  A list of signals, buses or channels is then     *)
(* fetched anew, frames that were handed over are gone from the library.   *)
(* Any other status is an error, and so is a number of entries larger than *)
(* the buffer (validate_written): lib.wrong names what the library answers *)
(* so, by the field of its record, "frames" for sim_can_tx.  A name "null" *)
(* is one that cannot be read, and a file that is no library exports       *)
(* nothing.                                                                *)
(***************************************************************************)
EXTENDS Naturals, Sequences, SequencesExt

CONSTANTS
  Libraries,    (* records [version, tickUs, count, signals, regions,      *)
                (* refused, exports, init, buses, channels, wrong]         *)
  MaxCapacity,  (* MAX_FFI_BUFFER_CAPACITY (65 536)                        *)
  BusCapacity,  (* the first buffer for buses and channels (4)             *)
  TxCapacity,   (* the first buffer for frames (32)                        *)
  MaxFrames     (* bound: frames a library sends in a tick                 *)

CanExports == {"can_get_buses", "can_rx", "can_tx"}
SharedExports == {"shared_get_channels", "shared_read", "shared_write"}
Required == {"init", "reset", "tick", "read_val", "write_val", "get_signal_count",
             "get_signals", "get_api_version", "get_tick_duration_us"}

LibraryAssumption ==
  /\ {MaxCapacity, BusCapacity, TxCapacity} \subseteq Nat \ {0}
  /\ MaxCapacity > 1 /\ TxCapacity <= MaxCapacity /\ BusCapacity <= MaxCapacity
  /\ MaxFrames \in Nat
  /\ \A l \in Libraries :
       /\ l.count \in Nat /\ l.tickUs \in Nat
       /\ l.signals \in Seq(Range(l.signals)) /\ l.regions \in Seq(Range(l.regions))
       /\ l.buses \in Seq(Range(l.buses)) /\ l.channels \in Seq(Range(l.channels))

VARIABLES
  phase,     (* the step of the load that comes next, or what came of it   *)
  lib,       (* the library                                                *)
  capacity,  (* of the buffer                                              *)
  project,   (* what has been read: signals, buses, channels               *)
  flash,     (* the library's flash, an address's last value               *)
  written,   (* the regions written into it                                *)
  seen,      (* history: the flash that sim_init found                     *)
  unsent,    (* frames the library still holds                             *)
  out,       (* frames handed over in this collection                      *)
  made       (* history: frames the library made for this collection       *)

loading == <<project, flash, written, seen>>
frames == <<unsent, out, made>>
vars == <<phase, lib, capacity, loading, frames>>

Greatest(a, b) == IF a >= b THEN a ELSE b
Least(a, b) == IF a <= b THEN a ELSE b
Nothing == [signals |-> <<>>, buses |-> <<>>, channels |-> <<>>]
Erased == [a \in {} |-> 0]

Init ==
  /\ phase = "symbols"
  /\ lib \in Libraries
  /\ capacity = 0
  /\ project = Nothing
  /\ flash = Erased /\ written = 0 /\ seen = Erased
  /\ unsent = <<>> /\ out = <<>> /\ made = <<>>

Fail == phase' = "failed" /\ UNCHANGED <<capacity, loading>>

-----------------------------------------------------------------------------
(* Mutant: the buffer of the next attempt is no larger.                    *)
NextCapacityStays(c) == Least(Greatest(c, 2), MaxCapacity)

(* next_capacity.                                                          *)
NextCapacity(c) == Least(Greatest(2 * c, 2), MaxCapacity)

(* Mutant: what fits into the buffer will do.                              *)
FetchPrefix(list, name, accepted, next, nextCapacity) ==
  /\ project' = [project EXCEPT ![name] = SubSeq(list, 1, Least(Len(list), capacity))]
  /\ phase' = next
  /\ capacity' = nextCapacity
  /\ UNCHANGED <<flash, written, seen>>

(* One call for a list, and what the loop around it does with the answer.  *)
Fetch(list, name, accepted, next, nextCapacity) ==
  \/ /\ name \in lib.wrong
     /\ Fail
  \/ /\ Len(list) <= capacity
     /\ accepted /\ name \notin lib.wrong
     /\ project' = [project EXCEPT ![name] = list]
     /\ phase' = next
     /\ capacity' = nextCapacity
     /\ UNCHANGED <<flash, written, seen>>
  \/ /\ Len(list) <= capacity
     /\ ~accepted
     /\ Fail
  \/ /\ Len(list) > capacity
     /\ capacity < MaxCapacity
     /\ capacity' = NextCapacity(capacity)
     /\ UNCHANGED <<phase, loading>>
  \/ /\ Len(list) > capacity
     /\ capacity >= MaxCapacity
     /\ Fail

Go(next) == phase' = next /\ UNCHANGED <<capacity, loading>>

Named(list) == \A k \in 1 .. Len(list) : list[k].name # "null"

-----------------------------------------------------------------------------
(* Project::load.                                                          *)

(* The library is opened and its functions are looked up.                  *)
LookUp ==
  /\ phase = "symbols"
  /\ IF Required \subseteq lib.exports THEN Go("version") ELSE Fail

CheckVersion ==
  /\ phase = "version"
  /\ IF lib.version = <<2, 0>> /\ "version" \notin lib.wrong THEN Go("duration") ELSE Fail

(* The tick's duration, and how many signals there are said to be.         *)
CheckTickDuration ==
  /\ phase = "duration"
  /\ IF lib.tickUs = 0 \/ {"tickUs", "count"} \cap lib.wrong # {}
     THEN Fail
     ELSE /\ phase' = "signals"
          /\ capacity' = Greatest(lib.count, 1)
          /\ UNCHANGED loading

FetchSignals ==
  /\ phase = "signals"
  /\ LET typed == \A k \in 1 .. Len(lib.signals) : lib.signals[k].type \in 0 .. 4
     IN  Fetch(lib.signals, "signals", Named(lib.signals) /\ typed, "flash", 0)

(* The regions are written in their order, before sim_init.                *)
Overwrite(old, new) ==
  [a \in DOMAIN old \cup DOMAIN new |-> IF a \in DOMAIN new THEN new[a] ELSE old[a]]

WriteFlash ==
  /\ phase = "flash" /\ written < Len(lib.regions)
  /\ IF "flash_write" \in lib.exports /\ written + 1 \notin lib.refused
     THEN /\ flash' = Overwrite(flash, lib.regions[written + 1])
          /\ written' = written + 1
          /\ UNCHANGED <<phase, capacity, project, seen>>
     ELSE Fail

FlashIsWritten ==
  /\ phase = "flash" /\ written = Len(lib.regions)
  /\ Go("init")

Initialize ==
  /\ phase = "init"
  /\ seen' = flash
  /\ IF lib.init = "ok" THEN phase' = "can" ELSE phase' = "failed"
  /\ capacity' = BusCapacity
  /\ UNCHANGED <<project, flash, written>>

(* A surface is exported whole or not at all.                              *)
FetchBuses ==
  /\ phase = "can"
  /\ \/ /\ CanExports \cap lib.exports = {}
        /\ phase' = "shared" /\ capacity' = BusCapacity /\ UNCHANGED loading
     \/ /\ CanExports \subseteq lib.exports
        /\ Fetch(lib.buses, "buses", Named(lib.buses), "shared", BusCapacity)
     \/ /\ CanExports \cap lib.exports \notin {{}, CanExports}
        /\ Fail

FetchChannels ==
  /\ phase = "shared"
  /\ \/ SharedExports \cap lib.exports = {} /\ Go("validate")
     \/ /\ SharedExports \subseteq lib.exports
        /\ Fetch(lib.channels, "channels", Named(lib.channels), "validate", capacity)
     \/ /\ SharedExports \cap lib.exports \notin {{}, SharedExports}
        /\ Fail

(* The loop of the validators: an entry is compared with those before it.  *)
Distinct(list) ==
  \A k \in 1 .. Len(list) :
    /\ list[k].name # "blank"
    /\ \A j \in 1 .. k - 1 : list[j].id # list[k].id /\ list[j].name # list[k].name

Valid ==
  /\ Distinct(project.signals) /\ Distinct(project.buses) /\ Distinct(project.channels)
  /\ \A k \in 1 .. Len(project.signals) : project.signals[k].name # "can.x"
  /\ \A k \in 1 .. Len(project.channels) : project.channels[k].slots > 0

Validate ==
  /\ phase = "validate"
  /\ IF Valid THEN Go("loaded") ELSE Fail

Load ==
  /\ \/ LookUp \/ CheckVersion \/ CheckTickDuration \/ FetchSignals
     \/ WriteFlash \/ FlashIsWritten \/ Initialize
     \/ FetchBuses \/ FetchChannels \/ Validate
  /\ UNCHANGED <<lib, frames>>

-----------------------------------------------------------------------------
(* The library makes frames, and Project::can_tx collects them.            *)

MakeFrames ==
  /\ phase = "loaded"
  /\ CanExports \subseteq lib.exports
  /\ \E n \in 0 .. MaxFrames : made' = [k \in 1 .. n |-> k]
  /\ unsent' = made'
  /\ out' = <<>>
  /\ capacity' = TxCapacity
  /\ phase' = "collect"
  /\ UNCHANGED <<lib, loading>>

Fitting == Least(Len(unsent), capacity)
Handed == out \o SubSeq(unsent, 1, Fitting)

CollectFrames ==
  /\ phase = "collect"
  /\ unsent' = SubSeq(unsent, Fitting + 1, Len(unsent))
  /\ \/ /\ unsent' = <<>>
        /\ out' = Handed /\ phase' = "collected" /\ UNCHANGED capacity
     \/ /\ unsent' # <<>> /\ capacity < MaxCapacity
        /\ out' = Handed /\ capacity' = NextCapacity(capacity) /\ UNCHANGED phase
     \/ /\ unsent' # <<>> /\ capacity >= MaxCapacity
        /\ out' = <<>> /\ phase' = "broken" /\ UNCHANGED capacity
  /\ UNCHANGED <<lib, loading, made>>

(* A wrong answer, to any of the calls: whatever the library handed over   *)
(* with it, and with the calls before it, is dropped.                      *)
CollectionFails ==
  /\ phase = "collect" /\ "frames" \in lib.wrong
  /\ \E n \in 0 .. Len(unsent) : unsent' = SubSeq(unsent, n + 1, Len(unsent))
  /\ out' = <<>> /\ phase' = "broken"
  /\ UNCHANGED <<lib, loading, capacity, made>>

Over == phase \in {"failed", "collected", "broken"} \cup
          (IF CanExports \subseteq lib.exports THEN {} ELSE {"loaded"})

Next == Load \/ MakeFrames \/ CollectFrames \/ CollectionFails \/ (Over /\ UNCHANGED vars)

(* The load is a loop of calls that nothing else delays.                   *)
Spec == Init /\ [][Next]_vars /\ WF_vars(Load)

-----------------------------------------------------------------------------
TypeOK ==
  /\ phase \in {"symbols", "version", "duration", "signals", "flash", "init", "can",
                "shared", "validate", "loaded", "failed", "collect", "collected", "broken"}
  /\ capacity \in 0 .. Greatest(MaxCapacity, lib.count)
  /\ project \in [signals : {<<>>, lib.signals}, buses : {<<>>, lib.buses},
                   channels : {<<>>, lib.channels}]
  /\ written \in 0 .. Len(lib.regions)
  /\ unsent \in Seq(1 .. MaxFrames) /\ out \in Seq(1 .. MaxFrames) /\ made \in Seq(1 .. MaxFrames)

LoadedPhases == {"loaded", "collect", "collected", "broken"}
Loaded == phase \in LoadedPhases

(* include/sim_api.h, as one condition on the library: what it must export *)
(* and answer.                                                             *)
OneToOne(list) ==
  \A j, k \in 1 .. Len(list) : list[j].id = list[k].id \/ list[j].name = list[k].name => j = k
Complete(surface, list, most) ==
  \/ surface \subseteq lib.exports /\ Len(list) <= most /\ OneToOne(list)
       /\ \A k \in 1 .. Len(list) : list[k].name \notin {"null", "blank"}
  \/ surface \cap lib.exports = {}
Good ==
  /\ Required \subseteq lib.exports
  /\ lib.version = <<2, 0>> /\ lib.tickUs > 0 /\ lib.init = "ok"
  /\ {"version", "tickUs", "count", "signals"} \cap lib.wrong = {}
  /\ Complete(Required, lib.signals, Greatest(MaxCapacity, lib.count))
  /\ \A k \in 1 .. Len(lib.signals) :
       lib.signals[k].name # "can.x" /\ lib.signals[k].type \in 0 .. 4
  /\ lib.regions # <<>> => "flash_write" \in lib.exports
  /\ \A k \in 1 .. Len(lib.regions) : k \notin lib.refused
  /\ Complete(CanExports, lib.buses, MaxCapacity)
  /\ Complete(SharedExports, lib.channels, MaxCapacity)
  /\ CanExports \subseteq lib.exports => "buses" \notin lib.wrong
  /\ SharedExports \subseteq lib.exports =>
       /\ "channels" \notin lib.wrong
       /\ \A k \in 1 .. Len(lib.channels) : lib.channels[k].slots > 0

(* The steps of the load, in their order, accept the good libraries and no *)
(* others.                                                                 *)
LoadsTheGood == (Loaded => Good) /\ (phase = "failed" => ~Good)

(* What was loaded is what the library has, however small the buffers, and *)
(* whatever it said the count of its signals is.                           *)
LoadedIsWhole ==
  Loaded =>
    /\ project.signals = lib.signals
    /\ project.buses = IF CanExports \subseteq lib.exports THEN lib.buses ELSE <<>>
    /\ project.channels = IF SharedExports \subseteq lib.exports THEN lib.channels ELSE <<>>

(* A flash into which the first n regions were written, each over those    *)
(* before it.                                                              *)
WrittenInto(memory, n) ==
  /\ DOMAIN memory = UNION {DOMAIN lib.regions[k] : k \in 1 .. n}
  /\ \A k \in 1 .. n : \A a \in DOMAIN lib.regions[k] :
       (\A j \in k + 1 .. n : a \notin DOMAIN lib.regions[j]) => memory[a] = lib.regions[k][a]

(* sim_init finds the flash written, the last region on top.               *)
InitFindsFlash ==
  phase \in {"can", "shared", "validate"} \/ Loaded => WrittenInto(seen, Len(lib.regions))

(* Every frame is collected once and in order, however many calls it took, *)
(* or none of them is: a collection that breaks delivers nothing of what   *)
(* it took out of the library (those frames are lost), and it breaks only  *)
(* on a wrong answer or when all the buffers up to the largest were filled.*)
FramesCollectedOnce ==
  /\ phase = "collected" => out = made
  /\ phase = "broken" =>
       out = <<>> /\ ("frames" \in lib.wrong \/ Len(made) > 2 * MaxCapacity - TxCapacity)

-----------------------------------------------------------------------------
(* What each step of the load vouches for from then on.  With TypeOK this  *)
(* is inductive.                                                           *)
PastChannels == {"validate"} \cup LoadedPhases
PastBuses == {"shared"} \cup PastChannels
PastInit == {"can"} \cup PastBuses
PastFlash == {"init"} \cup PastInit
PastSignals == {"flash"} \cup PastFlash
PastDuration == {"signals"} \cup PastSignals
PastVersion == {"duration"} \cup PastDuration
PastSymbols == {"version"} \cup PastVersion

HeaderPassed ==
  /\ phase \in PastSymbols => Required \subseteq lib.exports
  /\ phase \in PastVersion => lib.version = <<2, 0>> /\ "version" \notin lib.wrong
  /\ phase \in PastDuration => lib.tickUs > 0 /\ {"tickUs", "count"} \cap lib.wrong = {}

SignalsPassed ==
  /\ phase = "signals" => capacity >= lib.count
  /\ phase \in PastSignals =>
       /\ project.signals = lib.signals /\ Named(lib.signals) /\ "signals" \notin lib.wrong
       /\ Len(lib.signals) <= Greatest(MaxCapacity, lib.count)
       /\ \A k \in 1 .. Len(lib.signals) : lib.signals[k].type \in 0 .. 4

FlashPassed ==
  /\ phase \notin PastSignals \cup {"failed"} => flash = Erased /\ written = 0
  /\ phase = "flash" => WrittenInto(flash, written)
  /\ phase \in PastFlash => written = Len(lib.regions) /\ WrittenInto(flash, written)
  /\ \A k \in 1 .. written : k \notin lib.refused /\ "flash_write" \in lib.exports
  /\ phase \in PastInit => lib.init = "ok" /\ seen = flash

(* Nothing was read of a surface that is missing.                          *)
ReadAs(list, name, surface, read) ==
  \/ /\ surface \subseteq lib.exports /\ name \notin lib.wrong
     /\ read = list /\ Len(list) <= MaxCapacity /\ Named(list)
  \/ surface \cap lib.exports = {} /\ read = <<>>

ListsPassed ==
  /\ phase \in {"can", "shared", "collect"} => capacity <= MaxCapacity
  /\ phase \notin PastBuses \cup {"failed"} => project.buses = <<>>
  /\ phase \in PastBuses => ReadAs(lib.buses, "buses", CanExports, project.buses)
  /\ phase \notin PastChannels \cup {"failed"} => project.channels = <<>>
  /\ phase \in PastChannels => ReadAs(lib.channels, "channels", SharedExports, project.channels)

(* Of the frames made, some are handed over and the others still held; the *)
(* buffers filled so far sum up to more than the next one exceeds the first.*)
Collecting ==
  phase = "collect" =>
    /\ out \o unsent = made
    /\ capacity >= TxCapacity /\ Len(out) + TxCapacity >= capacity

LoadPassed ==
  /\ HeaderPassed /\ SignalsPassed /\ FlashPassed /\ ListsPassed /\ Collecting
  /\ phase \in LoadedPhases => Valid
  /\ phase = "failed" => ~ Good

(* A load ends, whatever the library answers about its sizes.              *)
LoadEnded == phase \notin {"symbols", "version", "duration", "signals", "flash", "init",
                       "can", "shared", "validate"}

=============================================================================
