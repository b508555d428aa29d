----------------------------- MODULE TimeEngine -----------------------------
(***************************************************************************)
(* The clock of both daemons while it runs (runtime/src/sim/time.rs), with *)
(* the loop that polls it: how much simulated time the wall clock owes,    *)
(* and how long the daemon sleeps until the next tick.                     *)
(*                                                                         *)
(* Time is counted in microseconds of the wall clock; the speed is a whole *)
(* number of SpeedUnits, and simulated time is kept in microseconds times  *)
(* SpeedUnit, so that it stays whole where the code rounds in f64.  The    *)
(* reading of the wall clock that the engine keeps is held as the time     *)
(* since then.                                                             *)
(***************************************************************************)
EXTENDS Naturals

CONSTANTS
  TickUs,       (* the library's tick                                      *)
  SpeedUnit,    (* a speed of 1.0                                          *)
  Speeds,       (* the speeds that are set                                 *)
  MinDelay,     (* MIN_POLL_DELAY_US                                       *)
  MaxDelay,     (* MAX_POLL_DELAY_US                                       *)
  PausedDelay,  (* the delay while the clock stands                        *)
  Late          (* bound: how long after its sleep the daemon polls        *)

TimeAssumption ==
  /\ {TickUs, SpeedUnit, MinDelay, PausedDelay} \subseteq Nat \ {0}
  /\ MaxDelay \in Nat /\ MinDelay <= MaxDelay
  /\ Speeds \subseteq Nat \ {0}
  /\ Late \in Nat

VARIABLES
  running, speed,
  remainder,  (* simulated time not yet a tick                             *)
  since,      (* wall time since last_wallclock                            *)
  delay,      (* the sleep of this turn, and what is left of it            *)
  left,
  late,       (* time since the end of the sleep                           *)
  due,        (* what the last poll gave                                   *)
  undisturbed,(* history: the sleep came to its end                        *)
  owed,       (* history: simulated time that passed and made no tick      *)
  steady      (* history: the speed was not set while the clock ran        *)

engine == <<running, speed, remainder, since>>
sleep == <<delay, left, late>>
history == <<due, undisturbed, owed, steady>>
vars == <<engine, sleep, history>>

Tick == TickUs * SpeedUnit
(* Mutant: rounded down.                                                   *)
FloorDiv(a, b) == a \div b

CeilDiv(a, b) == (a + b - 1) \div b
Clamp(x) == IF x < MinDelay THEN MinDelay ELSE IF x > MaxDelay THEN MaxDelay ELSE x

Init ==
  /\ running = FALSE /\ speed = SpeedUnit /\ remainder = 0 /\ since = 0
  /\ delay = PausedDelay /\ left = PausedDelay /\ late = 0
  /\ due = 0 /\ undisturbed = FALSE /\ owed = 0 /\ steady = TRUE

(* A microsecond of the wall clock.                                        *)
Pass ==
  /\ left > 0 \/ late < Late
  /\ IF left > 0
     THEN left' = left - 1 /\ undisturbed' = (left = 1) /\ UNCHANGED late
     ELSE late' = late + 1 /\ UNCHANGED <<left, undisturbed>>
  /\ since' = IF running THEN since + 1 ELSE since
  /\ owed' = IF running /\ steady THEN owed + speed ELSE owed
  /\ UNCHANGED <<running, speed, remainder, delay, due, steady>>

(* A request ends the sleep.                                               *)
Woken == left' = 0 /\ undisturbed' = FALSE /\ UNCHANGED <<delay, late, due>>

Start ==
  /\ ~running
  /\ running' = TRUE /\ since' = 0
  /\ owed' = 0 /\ steady' = TRUE
  /\ Woken
  /\ UNCHANGED <<speed, remainder>>

Pause ==
  /\ running
  /\ running' = FALSE /\ since' = 0 /\ remainder' = 0
  /\ Woken
  /\ UNCHANGED <<speed, owed, steady>>

(* The clock is not read: what passed since the last poll is charged at    *)
(* the new speed.                                                          *)
SetSpeed(s) ==
  /\ speed' = s
  /\ steady' = (steady /\ (~running \/ s = speed))
  /\ Woken
  /\ UNCHANGED <<running, remainder, since, owed>>

(* Everything is as it was at first: the clock stands, at normal speed.    *)
Reset ==
  /\ running' = FALSE /\ speed' = SpeedUnit /\ remainder' = 0 /\ since' = 0
  /\ Woken
  /\ UNCHANGED <<owed, steady>>

(* tick_realtime_due.                                                      *)
Charged == remainder + since * speed
Due == IF running THEN Charged \div Tick ELSE 0

(* realtime_poll_delay.                                                    *)
PollDelay(rem) ==
  IF ~running THEN PausedDelay ELSE Clamp(CeilDiv(Tick - rem, speed))

(* The daemon polls, makes the ticks, and sleeps again.                    *)
Poll ==
  /\ left = 0
  /\ due' = Due
  /\ remainder' = IF running THEN Charged - Due * Tick ELSE remainder
  /\ since' = 0
  /\ owed' = IF steady /\ running THEN owed - Due * Tick ELSE owed
  /\ delay' = PollDelay(remainder')
  /\ left' = delay'
  /\ late' = 0
  /\ undisturbed' = FALSE
  /\ UNCHANGED <<running, speed, steady>>

Request == Start \/ Pause \/ Reset \/ \E s \in Speeds : SetSpeed(s)

Next == Pass \/ Poll \/ Request

(* Time passes, and the daemon polls in the end.                           *)
Spec == Init /\ [][Next]_vars /\ WF_vars(Pass) /\ WF_vars(Poll)

-----------------------------------------------------------------------------
TypeOK ==
  /\ running \in BOOLEAN /\ undisturbed \in BOOLEAN /\ steady \in BOOLEAN
  /\ {remainder, since, delay, left, late, due, owed} \subseteq Nat
  /\ speed \in Speeds \cup {SpeedUnit}

(* As long as the speed is not changed the clock neither gains nor loses   *)
(* time, however late it is polled: what passed is in the ticks made, in   *)
(* the remainder, or still to be charged.                                  *)
NoTimeLost == running /\ steady => owed = remainder + since * speed

(* A poll leaves less than one tick of the time it has charged.            *)
NoTickHeldBack == remainder < Tick

(* A sleep that nothing disturbs ends with a tick due, unless it is cut at *)
(* the longest delay; it never ends too early.                             *)
SleepIsLongEnough ==
  running /\ undisturbed /\ delay < MaxDelay => Due >= 1

(* Nor does it end more than a poll's granularity after the tick is due.   *)
SleepIsShortEnough ==
  running /\ undisturbed /\ late = 0 /\ delay > MinDelay
    => Charged < Tick + speed

(* While the clock runs, ticks keep coming.                                *)
Ticking == ~running \/ due > 0

=============================================================================
