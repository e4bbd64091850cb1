-------------------------- MODULE WriteLoopsProofs --------------------------
(***************************************************************************)
(* Theorems about the loops every write routine rests on.                  *)
(*                                                                         *)
(* JedecProgram: for every page size, every number of retries, every page  *)
(* to write and every page written over, whatever the chip takes of each   *)
(* pass.  Udelay: for every speed of the machine, width of an unsigned     *)
(* long and length of the calibration, however the program is interrupted  *)
(* and the clock set back.                                                 *)
(***************************************************************************)
EXTENDS JedecProgram, Udelay, WellFoundedInduction, TLAPS

-----------------------------------------------------------------------------
(***************************************************************************)
(* The programming loops of jedec.c                                        *)
(***************************************************************************)

\* A comparison that failed has a first wrong byte.
LEMMA FirstWrongExists == Wrong # {} => FirstWrong \in Wrong
<1>. SUFFICES ASSUME Wrong # {} PROVE FirstWrong \in Wrong
  OBVIOUS
<1>. DEFINE Less == OpToRel(<, Nat)
<1>1. \A j, m \in Nat : j < m => <<j, m>> \in Less
  BY DEF OpToRel
<1>2. IsWellFoundedOn(Less, Nat)
  BY NatLessThanWellFounded
<1>. HIDE DEF Less
<1>3. Wrong \subseteq Nat
  BY SizesAssumption DEF Wrong, Checked, Offsets
<1>4. PICK k \in Wrong : \A j \in Wrong : <<j, k>> \notin Less
  BY <1>2, <1>3, WFMin
<1>5. ASSUME NEW j \in Wrong PROVE k <= j
  <2>1. j \in Nat /\ k \in Nat
    BY <1>3
  <2>2. ~(j < k)
    BY <1>1, <1>4, <2>1
  <2>. QED
    BY <2>1, <2>2
<1>. QED
  BY <1>5 DEF FirstWrong

(***************************************************************************)
(* The inductive invariant: which pass is running, what was returned, and  *)
(* what the result says of the page.                                       *)
(***************************************************************************)
Shape ==
  /\ routine \in {"page", "byte"} /\ pageMode \in BOOLEAN
  /\ ret # -2 <=> pc = "done"

Passes ==
  /\ pc = "load"    => passes = tried /\ tried <= MAX_REFLASH_TRIES
  /\ pc = "compare" => passes = tried + 1 /\ tried <= MAX_REFLASH_TRIES

Results == ZeroMeansWritten /\ Outcome /\ FailureIsReal
IInv == TypeOK /\ Shape /\ Passes /\ Results
-----------------------------------------------------------------------------

\* What a pass of the loop does to the page, whatever the chip took.
LEMMA ProgrammedEffect ==
  ASSUME TypeOK, Shape, NEW taken, dst' = Programmed(taken)
  PROVE  /\ dst' \in PageType
         /\ \A k \in Offsets : dst'[k] \in IF pageMode THEN {src[k], {}}
                                                      ELSE {dst[k], dst[k] \cup src[k]}
<1>1. src \in PageType /\ dst \in PageType
  BY SourcesAssumption DEF TypeOK
<1>. QED
  BY <1>1 DEF Programmed, PageType

LEMMA InitIInv == Init => IInv
<1>. SUFFICES ASSUME Init PROVE IInv
  OBVIOUS
<1>1. 0 \in Offsets
  BY SizesAssumption DEF Offsets
<1>2. TypeOK
  BY <1>1, SizesAssumption, SourcesAssumption DEF Init, TypeOK
<1>3. Shape
  <2>1. pageMode \in BOOLEAN
    BY Zenon DEF Init
  <2>2. ret # -2 <=> pc = "done"
    BY DEF Init
  <2>. QED
    BY <2>1, <2>2 DEF Init, Shape
<1>4. Passes
  BY SizesAssumption DEF Init, Passes
<1>5. Results
  BY DEF Init, Results, ZeroMeansWritten, Outcome, FailureIsReal
<1>. QED
  BY <1>2, <1>3, <1>4, <1>5 DEF IInv

LEMMA TypeStep == IInv /\ [Next]_vars => TypeOK' /\ Shape' /\ Passes'
<1>. SUFFICES ASSUME IInv, [Next]_vars PROVE TypeOK' /\ Shape' /\ Passes'
  OBVIOUS
<1>. USE SizesAssumption DEF IInv, TypeOK, Shape, Passes
<1>1. CASE Load
  <2>1. dst' \in PageType
    BY <1>1, ProgrammedEffect DEF Load
  <2>. QED
    BY <1>1, <2>1 DEF Load
<1>2. CASE Retry
  <2>1. start_index' \in Offsets
    BY <1>2, FirstWrongExists DEF Retry, Wrong, Checked, Offsets
  <2>. QED
    BY <1>2, <2>1 DEF Retry
<1>3. CASE Return
  BY <1>3 DEF Return
<1>4. CASE UNCHANGED vars
  BY <1>4 DEF vars
<1>. QED
  BY <1>1, <1>2, <1>3, <1>4 DEF Next

\* A step that leaves the page alone leaves its outcome.
LEMMA SameOutcome ==
  ASSUME Outcome, UNCHANGED <<pageMode, src, old, dst>>
  PROVE  Outcome'
  BY Zenon DEF Outcome

LEMMA ResultsStep == IInv /\ [Next]_vars => Results'
<1>. SUFFICES ASSUME IInv, [Next]_vars PROVE Results'
  OBVIOUS
<1>. USE SizesAssumption DEF IInv, Results
<1>1. CASE Load
  <2>1. ret' = -2
    BY <1>1 DEF Load, Shape
  <2>2. Outcome'
    <3>1. \/ dst' = dst
          \/ \A k \in Offsets : dst'[k] \in IF pageMode THEN {src[k], {}}
                                                    ELSE {dst[k], dst[k] \cup src[k]}
      BY <1>1, ProgrammedEffect DEF Load
    <3>2. src' = src /\ old' = old /\ pageMode' = pageMode
      BY <1>1 DEF Load
    <3>. QED
      BY <3>1, <3>2 DEF Outcome
  <2>. QED
    BY <2>1, <2>2 DEF ZeroMeansWritten, FailureIsReal
<1>2. CASE Retry
  <2>1. ret' = -2
    BY <1>2 DEF Retry, Shape
  <2>2. Outcome'
    BY <1>2, SameOutcome DEF Retry
  <2>. QED
    BY <1>2, <2>1, <2>2 DEF Retry, ZeroMeansWritten, FailureIsReal
<1>3. CASE Return
  <2>1. UNCHANGED <<dst, src, old, pageMode, routine, passes>> /\ Wrong' = Wrong
    BY <1>3 DEF Return, Wrong, Checked
  <2>2. 0 \in Offsets /\ dst \in PageType /\ src \in PageType
    BY SourcesAssumption DEF TypeOK, Offsets
  <2>3. ZeroMeansWritten'
    <3>1. SUFFICES ASSUME ret' = 0 PROVE dst[0] = src[0] /\ (routine = "page" => dst = src)
      BY <2>1 DEF ZeroMeansWritten
    <3>2. Wrong = {}
      BY <1>3, <3>1 DEF Return, TypeOK, Shape, Passes
    <3>3. \A k \in Checked : dst[k] = src[k]
      BY <3>2 DEF Wrong
    <3>4. ASSUME routine = "page" PROVE dst = src
      <4>1. \A k \in Offsets : dst[k] = src[k]
        BY <3>3, <3>4 DEF Checked
      <4>. QED
        BY <2>2, <4>1 DEF PageType
    <3>. QED
      BY <2>2, <3>3, <3>4 DEF Checked
  <2>4. Outcome'
    BY <2>1, SameOutcome
  <2>5. FailureIsReal'
    BY <1>3, <2>1 DEF FailureIsReal, Return, TypeOK, Shape, Passes
  <2>. QED
    BY <2>3, <2>4, <2>5
<1>4. CASE UNCHANGED vars
  <2>1. Outcome'
    BY <1>4, SameOutcome DEF vars
  <2>. QED
    BY <1>4, <2>1 DEF vars, ZeroMeansWritten, FailureIsReal, Wrong, Checked
<1>. QED
  BY <1>1, <1>2, <1>3, <1>4 DEF Next

LEMMA SpecIInv == Spec => []IInv
<1>1. IInv /\ [Next]_vars => IInv'
  BY TypeStep, ResultsStep DEF IInv
<1>. QED
  BY InitIInv, <1>1, PTL DEF Spec
-----------------------------------------------------------------------------

\* Every state has its type: no pass beyond the last try, and the byte a retry
\* starts from is a byte of the page.
THEOREM TypeCorrect == Spec => []TypeOK
<1>1. IInv => TypeOK
  BY DEF IInv
<1>. QED
  BY <1>1, SpecIInv, PTL

\* A 0 means that what was to be written is in the chip.
THEOREM ZeroIsWritten == Spec => []ZeroMeansWritten
<1>1. IInv => ZeroMeansWritten
  BY DEF IInv, Results
<1>. QED
  BY <1>1, SpecIInv, PTL

\* A byte ends as it was, programmed with its own byte of the source, or blank
\* where the chip erases; on an erased page that is what FlashWriter takes a
\* call of these routines to be.
THEOREM OutcomeIsAStep == Spec => []Outcome
<1>1. IInv => Outcome
  BY DEF IInv, Results
<1>. QED
  BY <1>1, SpecIInv, PTL

\* Only a byte that took on the last try is reported as failed although it took.
THEOREM FailuresAreReal == Spec => []FailureIsReal
<1>1. IInv => FailureIsReal
  BY DEF IInv, Results
<1>. QED
  BY <1>1, SpecIInv, PTL

-----------------------------------------------------------------------------
(***************************************************************************)
(* The delay loop and its calibration                                      *)
(***************************************************************************)

\* Quotients and remainders

LEMMA DivMod ==
  ASSUME NEW x \in Nat, NEW d \in Nat \ {0}
  PROVE  x \div d \in Nat /\ x % d \in 0 .. d - 1 /\ x = d * (x \div d) + (x % d)
  <1>1. x \div d \in Int /\ x % d \in 0 .. d - 1
    OBVIOUS
  <1>2. x = d * (x \div d) + (x % d)
    OBVIOUS
  <1>3. 0 <= x \div d
    BY <1>1, <1>2
  <1>. QED  BY <1>1, <1>2, <1>3

LEMMA QuotientBounds ==
  ASSUME NEW x \in Nat, NEW d \in Nat \ {0}
  PROVE  x \div d \in Nat /\ d * (x \div d) <= x /\ x < d * (x \div d) + d
  <1>. DEFINE k == x \div d
              l == x % d
  <1>1. k \in Nat /\ l \in 0 .. d - 1 /\ x = d * k + l
    BY DivMod
  <1>. HIDE DEF k, l
  <1>2. d * k <= x /\ x < d * k + d
    BY <1>1
  <1>. QED  BY <1>1, <1>2 DEF k

LEMMA ModUnique ==
  ASSUME NEW q \in Nat, NEW d \in Nat \ {0}, NEW r \in 0 .. d - 1
  PROVE  (d * q + r) % d = r
  OBVIOUS

LEMMA SmallMod ==
  ASSUME NEW d \in Nat \ {0}, NEW x \in 0 .. d - 1
  PROVE  x % d = x
  OBVIOUS

LEMMA Mono ==
  ASSUME NEW a \in Nat, NEW b \in Nat, NEW c \in Nat, a <= b
  PROVE  a * c <= b * c /\ c * a <= c * b
  OBVIOUS

LEMMA Cancel ==
  ASSUME NEW a \in Nat, NEW b \in Nat, NEW c \in Nat \ {0}, a * c <= b * c
  PROVE  a <= b
  OBVIOUS

LEMMA DivAtLeast ==
  ASSUME NEW x \in Nat, NEW d \in Nat \ {0}, NEW q \in Nat, q * d <= x
  PROVE  q <= x \div d
  OBVIOUS

\* The doubled count of an unsigned long
LEMMA Doubled ==
  ASSUME NEW c \in Nat, NEW d \in Nat \ {0}, 2 * (c % d) < d
  PROVE  (c * 2) % d = 2 * (c % d)
  <1>. DEFINE q == c \div d
              r == c % d
  <1>1. q \in Nat /\ r \in 0 .. d - 1 /\ c = d * q + r
    BY DivMod
  <1>2. 2 * q \in Nat /\ 2 * r \in 0 .. d - 1
    BY <1>1
  <1>. HIDE DEF q, r
  <1>3. c * 2 = d * (2 * q) + 2 * r
    BY <1>1
  <1>. QED  BY <1>2, <1>3, ModUnique DEF r

-----------------------------------------------------------------------------
(***************************************************************************)
(* What micro is worth: n loops were timed, and took t by the clock.       *)
(***************************************************************************)

\* Held up no longer than the loop took, the quotient is no less than the rate.
LEMMA MicroAtLeast ==
  ASSUME NEW n \in Nat, NEW r \in Nat \ {0}, NEW p \in Nat, NEW t \in Nat \ {0},
         p * r <= n, t <= n \div r + p
  PROVE  r <= (2 * n) \div t
  <1>. DEFINE k == n \div r
  <1>1. k \in Nat /\ r * k <= n
    BY QuotientBounds
  <1>. HIDE DEF k
  <1>2. r * t <= r * (k + p)
    BY <1>1, Mono DEF k
  <1>3. r * (k + p) = r * k + p * r
    BY <1>1
  <1>4. r * t <= 2 * n
    BY <1>1, <1>2, <1>3
  <1>. QED  BY <1>4, DivAtLeast

\* Timed for a while of at least q, it exceeds twice the rate by 1/q at most.
LEMMA MicroAtMost ==
  ASSUME NEW n \in Nat, NEW r \in Nat \ {0}, NEW t \in Nat \ {0}, NEW q \in Nat \ {0},
         q <= t, n \div r <= t
  PROVE  ((2 * n) \div t) * q <= 2 * r * (q + 1)
  <1>. DEFINE m == (2 * n) \div t
  <1>1. m \in Nat /\ t * m <= 2 * n
    <2>1. 2 * n \in Nat
      OBVIOUS
    <2>. QED  BY <2>1, QuotientBounds
  <1>2. n < r * (n \div r) + r /\ n \div r \in Nat
    BY QuotientBounds
  <1>3. r * (n \div r) <= r * t
    BY <1>2, Mono
  <1>. HIDE DEF m
  <1>4. t * m <= 2 * (r * t + r)
    BY <1>1, <1>2, <1>3
  <1>5. (t * m) * q <= (2 * (r * t + r)) * q
    BY <1>1, <1>4, Mono
  <1>6. r * q <= r * t
    BY Mono
  <1>7. (m * q) * t <= (2 * r * (q + 1)) * t
    <2>. DEFINE rt  == r * t
                rq  == r * q
                rqt == r * q * t
    <2>1. (m * q) * t = (t * m) * q
      BY <1>1
    <2>2. (2 * (rt + r)) * q = 2 * rqt + 2 * rq
      OBVIOUS
    <2>3. (2 * r * (q + 1)) * t = 2 * rqt + 2 * rt
      OBVIOUS
    <2>4. rq <= rt /\ rq \in Nat /\ rt \in Nat /\ rqt \in Nat
      BY <1>6
    <2>5. (m * q) * t <= 2 * rqt + 2 * rq
      BY <1>5, <2>1, <2>2
    <2>. HIDE DEF rt, rq, rqt
    <2>. QED  BY <1>1, <2>3, <2>4, <2>5
  <1>8. m * q \in Nat /\ 2 * r * (q + 1) \in Nat
    BY <1>1
  <1>9. m * q <= 2 * r * (q + 1)
    BY <1>7, <1>8, Cancel
  <1>. QED  BY <1>9 DEF m

-----------------------------------------------------------------------------
(***************************************************************************)
(* The inductive invariant: until the calibration ends micro is 1, so a    *)
(* pass runs count loops; then micro is the quotient of the doubled count  *)
(* and the time, and what a delay runs is the product.                     *)
(***************************************************************************)
DelayInv ==
  /\ rate \in Rates /\ count \in Nat /\ micro \in Nat /\ phase \in {"time", "ready", "delayed"}
  /\ loops \in Nat /\ timeusec \in Nat /\ interrupted \in Nat /\ setBack \in Nat
  /\ asked \in Nat /\ ran \in Nat
  /\ phase = "time" => micro = 1
  /\ phase # "time" =>
       /\ timeusec = Elapsed(loops, interrupted, setBack) /\ timeusec >= QUARTER
       /\ 2 * loops < ULONG => micro = (2 * loops) \div timeusec
  /\ phase = "delayed" => ran = DelayLoops(asked)

LEMMA PassKeeps ==
  ASSUME DelayInv, Pass
  PROVE  DelayInv'
  <1>1. PICK p \in Interruptions, back \in SetBacks :
          LET n == DelayLoops(count) t == Elapsed(n, p, back) IN
          /\ loops' = n /\ timeusec' = t /\ interrupted' = p /\ setBack' = back
          /\ count' = (count * 2) % ULONG
          /\ IF t < QUARTER THEN UNCHANGED <<micro, phase>>
             ELSE micro' = count' \div t /\ phase' = "ready"
    BY DEF Pass
  <1>. DEFINE n == DelayLoops(count)
              t == Elapsed(n, p, back)
  <1>2. UNCHANGED <<rate, asked, ran>> /\ phase = "time" /\ micro = 1
    BY DEF Pass, DelayInv
  <1>3. /\ rate \in Nat \ {0} /\ count \in Nat /\ asked \in Nat /\ ran \in Nat
        /\ ULONG \in Nat \ {0} /\ QUARTER \in Nat \ {0} /\ p \in Nat /\ back \in 0 .. ULONG - 1
    BY CountAssumption, RatesAssumption, TimesAssumption DEF DelayInv
  <1>4. n = count % ULONG /\ n \in 0 .. ULONG - 1
    BY <1>2, <1>3, DivMod DEF DelayLoops
  <1>5. t \in Nat
    <2>1. n \div rate \in Nat
      BY <1>3, <1>4, DivMod
    <2>. HIDE DEF n
    <2>. DEFINE x == n \div rate + p + ULONG - back
    <2>2. x \in Nat
      BY <1>3, <2>1
    <2>3. t = x % ULONG
      BY DEF Elapsed
    <2>. HIDE DEF x, t
    <2>4. x % ULONG \in 0 .. ULONG - 1
      BY <1>3, <2>2, DivMod
    <2>. QED  BY <1>3, <2>3, <2>4
  <1>6. (count * 2) % ULONG \in Nat
    BY <1>3, DivMod
  <1>7. timeusec' = Elapsed(loops, interrupted, setBack)'
    BY <1>1, <1>2 DEF Elapsed
  <1>. HIDE DEF n, t
  <1>8. /\ loops' = n /\ timeusec' = t /\ interrupted' = p /\ setBack' = back
        /\ count' = (count * 2) % ULONG
    BY <1>1 DEF n, t
  <1>9. CASE t < QUARTER
    <2>1. UNCHANGED <<micro, phase>>
      BY <1>1, <1>9 DEF n, t
    <2>. QED  BY <1>2, <1>3, <1>4, <1>5, <1>6, <1>8, <2>1 DEF DelayInv
  <1>10. CASE ~(t < QUARTER)
    <2>1. micro' = ((count * 2) % ULONG) \div t /\ phase' = "ready" /\ t >= QUARTER /\ t # 0
      BY <1>1, <1>3, <1>5, <1>8, <1>10 DEF n, t
    <2>2. micro' \in Nat
      BY <1>5, <1>6, <2>1, DivMod
    <2>3. 2 * n < ULONG => micro' = (2 * n) \div t
      BY <1>3, <1>4, <2>1, Doubled
    <2>. QED  BY <1>2, <1>3, <1>4, <1>5, <1>6, <1>7, <1>8, <2>1, <2>2, <2>3 DEF DelayInv
  <1>. QED  BY <1>9, <1>10

LEMMA DelayKeeps ==
  ASSUME DelayInv, Delay
  PROVE  DelayInv'
  <1>1. PICK t \in Times : asked' = t /\ ran' = DelayLoops(t)
    BY DEF Delay
  <1>2. t \in Nat /\ t * micro \in Nat /\ ULONG \in Nat \ {0}
    BY CountAssumption, TimesAssumption DEF DelayInv
  <1>3. DelayLoops(t) \in Nat
    BY <1>2, DivMod DEF DelayLoops
  <1>4. UNCHANGED <<rate, count, micro, loops, timeusec, interrupted, setBack>>
    BY DEF Delay
  <1>5. phase # "time" /\ phase' = "delayed"
    BY DEF Delay
  <1>. QED  BY <1>1, <1>2, <1>3, <1>4, <1>5 DEF DelayInv, Elapsed, DelayLoops

THEOREM DelayInvHolds == DelaySpec => []DelayInv
  <1>1. DelayInit => DelayInv
    BY CountAssumption DEF DelayInit, DelayInv
  <1>2. DelayInv /\ [DelayNext]_delayVars => DelayInv'
    <2>. SUFFICES ASSUME DelayInv, [DelayNext]_delayVars PROVE DelayInv'
      OBVIOUS
    <2>1. CASE UNCHANGED delayVars
      BY <2>1 DEF delayVars, DelayInv, Elapsed, DelayLoops
    <2>. QED  BY <2>1, PassKeeps, DelayKeeps DEF DelayNext
  <1>. QED  BY <1>1, <1>2, PTL DEF DelaySpec

\* A delay lasts as long as it was asked for, and at most a little more than
\* twice as long, on a machine of any speed.
THEOREM DelaysLast == DelaySpec => []DelayAsAsked
  <1>1. DelayInv => DelayAsAsked
    <2>. SUFFICES ASSUME DelayInv, phase = "delayed", InRange
                  PROVE  LongEnough /\ WithinTwice
      BY DEF DelayAsAsked
    <2>1. /\ rate \in Nat \ {0} /\ loops \in Nat /\ interrupted \in Nat /\ setBack \in Nat
          /\ timeusec \in Nat \ {0} /\ asked \in Nat /\ micro \in Nat
          /\ ULONG \in Nat \ {0} /\ QUARTER \in Nat \ {0} /\ QUARTER <= timeusec
      BY CountAssumption, RatesAssumption DEF DelayInv
    <2>2. micro = (2 * loops) \div timeusec
      BY DEF DelayInv, InRange
    <2>3. ran = asked * micro
      <3>1. asked * micro \in 0 .. ULONG - 1
        BY <2>1 DEF InRange
      <3>. QED  BY <2>1, <3>1, SmallMod DEF DelayInv, DelayLoops
    <2>. DEFINE k == loops \div rate
    <2>4. k \in Nat
      BY <2>1, DivMod
    <2>5. ~Wrapped => timeusec = k + interrupted - setBack
      <3>. HIDE DEF k
      <3>. SUFFICES ASSUME k + interrupted - setBack \in 0 .. ULONG - 1
                    PROVE  timeusec = k + interrupted - setBack
        BY DEF Wrapped, k
      <3>1. k + interrupted + ULONG - setBack = ULONG * 1 + (k + interrupted - setBack)
        BY <2>1, <2>4
      <3>2. timeusec = (k + interrupted + ULONG - setBack) % ULONG
        BY DEF DelayInv, Elapsed, k
      <3>. QED  BY <2>1, <3>1, <3>2, ModUnique
    <2>6. LongEnough
      <3>. SUFFICES ASSUME ~Wrapped, interrupted * rate <= loops PROVE ran >= asked * rate
        BY DEF LongEnough
      <3>1. timeusec <= k + interrupted
        BY <2>1, <2>4, <2>5
      <3>2. rate <= micro
        BY <2>1, <2>2, <3>1, MicroAtLeast
      <3>. QED  BY <2>1, <2>3, <3>2, Mono
    <2>7. WithinTwice
      <3>. SUFFICES ASSUME ~Wrapped, setBack = 0
                    PROVE  ran * QUARTER <= 2 * asked * rate * (QUARTER + 1)
        BY DEF WithinTwice
      <3>1. k <= timeusec
        BY <2>1, <2>4, <2>5
      <3>2. micro * QUARTER <= 2 * rate * (QUARTER + 1)
        BY <2>1, <2>2, <3>1, MicroAtMost
      <3>3. asked * (micro * QUARTER) <= asked * (2 * rate * (QUARTER + 1))
        BY <2>1, <3>2, Mono
      <3>. QED  BY <2>1, <2>3, <3>3
    <2>. QED  BY <2>6, <2>7
  <1>. QED  BY <1>1, DelayInvHolds, PTL
=============================================================================
