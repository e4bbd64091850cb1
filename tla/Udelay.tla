------------------------------- MODULE Udelay -------------------------------
(***************************************************************************)
(* The delay loop of udelay.c and its calibration: count is doubled until  *)
(* a loop takes a quarter of a second by the clock, and micro, the loops   *)
(* of a microsecond, follows from the last pass.                           *)
(*                                                                         *)
(* External: how fast the loop runs, how long the program is interrupted   *)
(* while a pass is timed, and a clock that is set back.                    *)
(***************************************************************************)
EXTENDS Integers

CONSTANTS
  COUNT0,          \* the count to begin with, 1000
  QUARTER,         \* microseconds of the shortest pass that counts, 250000
  ULONG,           \* 2^32: int and unsigned long have the same width
  Rates,           \* loops of a microsecond on the machines considered
  Interruptions,   \* microseconds, and the rounding of two clock readings
  SetBacks,        \* microseconds the clock may be set back during a pass
  Times            \* the delays the program asks for, 10 .. 2000000

ASSUME CountAssumption == COUNT0 \in Nat \ {0} /\ QUARTER \in Nat \ {0} /\ ULONG \in Nat \ {0}
ASSUME RatesAssumption == Rates \subseteq Nat \ {0}
ASSUME TimesAssumption == Interruptions \subseteq Nat /\ Times \subseteq Nat
                          /\ SetBacks \subseteq 0 .. ULONG - 1

VARIABLES
  rate,        \* external
  count, micro,
  phase,          \* "time": a pass is to be timed, "ready", "delayed"
  loops,       \* history: loops of the pass the calibration ended with
  timeusec,    \* its time by the clock
  interrupted, \* history: the part of it the program did not run
  setBack,     \* history: what the clock was set back by during it
  asked, ran   \* the last delay asked for, and the loops it ran

delayVars == <<rate, count, micro, phase, loops, timeusec, interrupted, setBack, asked, ran>>

DelayInit ==
  /\ rate \in Rates /\ count = COUNT0 /\ micro = 1 /\ phase = "time"
  /\ loops = 0 /\ timeusec = 0 /\ interrupted = 0 /\ setBack = 0
  /\ asked = 0 /\ ran = 0

\* The loops of myusec_delay: the product is an unsigned long.
DelayLoops(time) == (time * micro) % ULONG

\* The unsigned difference of the two readings of the clock
Elapsed(n, p, back) == (n \div rate + p + ULONG - back) % ULONG

\* (mutant) count is reset instead of doubled after a short pass.
PassRestarts ==
  /\ phase = "time"
  /\ \E p \in Interruptions, back \in SetBacks :
       LET n == DelayLoops(count) t == Elapsed(n, p, back) IN
       /\ loops' = n /\ timeusec' = t /\ interrupted' = p /\ setBack' = back
       /\ IF t < QUARTER THEN count' = COUNT0 /\ UNCHANGED <<micro, phase>>
          ELSE count' = (count * 2) % ULONG /\ micro' = count' \div t /\ phase' = "ready"
  /\ UNCHANGED <<rate, asked, ran>>

\* (mutant) micro is what the comment says: count / time of the pass.
PassAsCommented ==
  /\ phase = "time"
  /\ \E p \in Interruptions, back \in SetBacks :
       LET n == DelayLoops(count) t == Elapsed(n, p, back) IN
       /\ loops' = n /\ timeusec' = t /\ interrupted' = p /\ setBack' = back
       /\ count' = (count * 2) % ULONG
       /\ IF t < QUARTER THEN UNCHANGED <<micro, phase>>
          ELSE micro' = count \div t /\ phase' = "ready"
  /\ UNCHANGED <<rate, asked, ran>>

\* One round of the calibration.  count is doubled before the time is looked at,
\* so micro is computed from twice the loops that were timed.
Pass ==
  /\ phase = "time"
  /\ \E p \in Interruptions, back \in SetBacks :
       LET n == DelayLoops(count) t == Elapsed(n, p, back) IN
       /\ loops' = n /\ timeusec' = t /\ interrupted' = p /\ setBack' = back
       /\ count' = (count * 2) % ULONG
       /\ IF t < QUARTER THEN UNCHANGED <<micro, phase>>
          ELSE micro' = count' \div t /\ phase' = "ready"
  /\ UNCHANGED <<rate, asked, ran>>

\* myusec_delay, any time after the calibration
Delay ==
  /\ phase \in {"ready", "delayed"} /\ phase' = "delayed"
  /\ \E t \in Times : asked' = t /\ ran' = DelayLoops(t)
  /\ UNCHANGED <<rate, count, micro, loops, timeusec, interrupted, setBack>>

DelayNext == Pass \/ Delay

DelaySpec == DelayInit /\ [][DelayNext]_delayVars /\ WF_delayVars(Pass)
-----------------------------------------------------------------------------
\* Nothing overflowed: neither the doubled count nor the delay asked for.
InRange == 2 * loops < ULONG /\ asked * micro < ULONG

\* The time the last pass took by the clock is no unsigned long, so that the
\* difference of the two readings is something else.
Wrapped == loops \div rate + interrupted - setBack \notin 0 .. ULONG - 1

(***************************************************************************)
(* A delay lasts at least as long as it was asked for, unless the clock    *)
(* went back past the start of the last pass or the program was held up    *)
(* for longer in it than the loop itself took (or for 71 minutes): the     *)
(* chips get their waiting times.  Nor does it last much longer than twice *)
(* as long: micro is off by the factor of two of the doubling and by the   *)
(* rounding of a quarter of a second.                                      *)
(***************************************************************************)
LongEnough  == (~Wrapped /\ interrupted * rate <= loops) => ran >= asked * rate
WithinTwice == (~Wrapped /\ setBack = 0) => ran * QUARTER <= 2 * asked * rate * (QUARTER + 1)
DelayAsAsked == (phase = "delayed" /\ InRange) => LongEnough /\ WithinTwice

(***************************************************************************)
(* The calibration ends on a machine so slow that the count which takes it *)
(* a quarter of a second (and the largest set-back) is still in range.     *)
(***************************************************************************)
Counts == {COUNT0 * 2^k : k \in 0 .. 21}
SlowEnough == {r \in Rates : \E n \in Counts : n < ULONG /\ \A b \in SetBacks : n >= (QUARTER + b) * r}
CalibrationEnds == rate \in SlowEnough ~> phase # "time"
=============================================================================
