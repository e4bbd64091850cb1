-------------------------- MODULE DiscoveryProofs --------------------------
(***************************************************************************)
(* What the program finds out about the machine it runs on.                *)
(*                                                                         *)
(* PciScan: the list of devices and the searches, for any machine with any *)
(* number of buses, devices and functions.  LbTable: the LinuxBIOS table   *)
(* and the name of the mainboard in it, for any contents of the memory.    *)
(***************************************************************************)
EXTENDS PciScan, LbTable, SequenceTheorems, FiniteSetTheorems, WellFoundedInduction, TLAPS

-----------------------------------------------------------------------------
(***************************************************************************)
(* Part 1: the list of devices                                             *)
(***************************************************************************)

-----------------------------------------------------------------------------
(***************************************************************************)
(* The inductive invariant.  Each bus has at most one active call.  What a *)
(* call has passed on its bus is in the list if it is visible, and nothing *)
(* else is; a bus that a listed bridge names has been entered or is about  *)
(* to be; and no bus is entered that cannot be reached.                    *)
(***************************************************************************)
Calls == 1 .. Len(stack)

\* Function f lies before the place of the call t, on the same bus.
Before(f, t) == f[2] < t.dev \/ (f[2] = t.dev /\ f[3] < t.func)
Passed(f)    == f[1] \in busmap /\ \A c \in Calls : stack[c].bus = f[1] => Before(f, stack[c])

First(t) == <<t.bus, t.dev, 0>>
MultiRight(t) ==
  IF t.func = 0 THEN ~t.multi
  ELSE t.multi /\ t.dev < NDevs /\ hw[First(t)] # Absent /\ hw[First(t)].multi

CallsRight == \A c \in Calls : stack[c].bus \in busmap /\ MultiRight(stack[c])
OneCallEach == \A c, d \in Calls : stack[c].bus = stack[d].bus => c = d
Listed     == \A f \in Functions : f \in Linked <=> f \in Visible /\ Passed(f)
Followed   ==
  /\ 0 \in busmap \cup {calling}
  /\ \A f \in Linked : hw[f].type = "bridge" => hw[f].secondary \in busmap \cup {calling}
OnlyReached ==
  \A B \in SUBSET Buses : Closed(B) => busmap \subseteq B /\ (calling # None => calling \in B)
IdsCached  == \A i \in DOMAIN devices : devices[i].id = hw[devices[i].at].id

Inv ==
  /\ TypeOK /\ CallsRight /\ OneCallEach
  /\ pc # "exited" => Listed /\ Followed
  /\ pc # "scan" => stack = <<>> /\ calling = None
  /\ OnlyReached /\ IdsCached /\ Linked \subseteq Reachable /\ EachOnce /\ SearchIsRight

USE DEF vars

-----------------------------------------------------------------------------
\* The stack and the list, as the steps change them.

LEMMA Front ==
  ASSUME NEW S, NEW s \in Seq(S), NEW n \in Nat, n <= Len(s)
  PROVE  /\ SubSeq(s, 1, n) \in Seq(S) /\ Len(SubSeq(s, 1, n)) = n
         /\ \A c \in 1 .. n : SubSeq(s, 1, n)[c] = s[c]
<1>1. Len(s) \in Nat /\ \A c \in 1 .. n : s[c] \in S
  BY ElementOfSeq
<1>2. 1 \in Int /\ n \in Int /\ n - 1 + 1 = n /\ \A c \in 1 .. n : 1 + c - 1 = c
  OBVIOUS
<1>. QED
  BY <1>1, <1>2, SubSeqProperties

LEMMA TopOf ==
  ASSUME stack \in Seq(Frame), stack # <<>>
  PROVE  /\ Len(stack) \in Nat \ {0} /\ Len(stack) \in Calls /\ Top \in Frame
         /\ Below \in Seq(Frame) /\ Len(Below) = Len(stack) - 1
         /\ \A c \in 1 .. Len(Below) : Below[c] = stack[c] /\ c \in Calls /\ c # Len(stack)
         /\ \A c \in Calls : c # Len(stack) => c \in 1 .. Len(Below)
<1>1. Len(stack) \in Nat \ {0} /\ \A c \in 1 .. Len(stack) : stack[c] \in Frame
  BY EmptySeq, ElementOfSeq
<1>2. Len(stack) \in Calls /\ Top \in Frame
  BY <1>1 DEF Top, Calls
<1>3. /\ Below \in Seq(Frame) /\ Len(Below) = Len(stack) - 1
      /\ \A c \in 1 .. Len(stack) - 1 : Below[c] = stack[c]
  <2>1. PICK n \in Nat : n = Len(stack) - 1 /\ n <= Len(stack)
    <3>1. Len(stack) - 1 \in Nat /\ Len(stack) - 1 <= Len(stack)
      BY <1>1
    <3>. QED
      BY <3>1
  <2>2. /\ SubSeq(stack, 1, n) \in Seq(Frame) /\ Len(SubSeq(stack, 1, n)) = n
        /\ \A c \in 1 .. n : SubSeq(stack, 1, n)[c] = stack[c]
    BY <2>1, Front
  <2>3. Below = SubSeq(stack, 1, n)
    BY <2>1, Zenon DEF Below
  <2>. QED
    BY <2>1, <2>2, <2>3
<1>. QED
  BY <1>1, <1>2, <1>3 DEF Calls

LEMMA Replaced ==
  ASSUME stack \in Seq(Frame), stack # <<>>, NEW t \in Frame, stack' = Append(Below, t)
  PROVE  /\ stack' \in Seq(Frame) /\ Len(stack') = Len(stack)
         /\ stack'[Len(stack)] = t /\ \A c \in Calls : c # Len(stack) => stack'[c] = stack[c]
BY TopOf DEF Calls

LEMMA LinkedGrows ==
  ASSUME NEW Dev, devices \in Seq(Dev), NEW d \in Dev, devices' = <<d>> \o devices
  PROVE  /\ devices' \in Seq(Dev) /\ Linked' = Linked \cup {d.at}
         /\ IdsCached /\ hw' = hw /\ d.id = hw[d.at].id => IdsCached'
         /\ EachOnce /\ d.at \notin Linked => EachOnce'
<1>1. /\ devices' \in Seq(Dev) /\ Len(devices) \in Nat
      /\ DOMAIN devices = 1 .. Len(devices) /\ DOMAIN devices' = 1 .. Len(devices) + 1
      /\ devices'[1] = d /\ \A i \in 1 .. Len(devices) : devices'[i + 1] = devices[i]
  OBVIOUS
<1>2. \A i \in DOMAIN devices' : i = 1 \/ (i - 1 \in DOMAIN devices /\ devices'[i] = devices[i - 1])
  <2>. SUFFICES ASSUME NEW i \in DOMAIN devices', i # 1
                PROVE  i - 1 \in DOMAIN devices /\ devices'[i] = devices[i - 1]
    OBVIOUS
  <2>1. i - 1 \in 1 .. Len(devices) /\ (i - 1) + 1 = i
    BY <1>1
  <2>. QED
    BY <1>1, <2>1
<1>3. Linked' = Linked \cup {d.at}
  <2>1. ASSUME NEW f \in Linked' PROVE f \in Linked \cup {d.at}
    BY <1>1, <1>2 DEF Linked
  <2>2. ASSUME NEW f \in Linked PROVE f \in Linked'
    <3>1. PICK i \in 1 .. Len(devices) : f = devices[i].at
      BY <1>1 DEF Linked
    <3>2. i + 1 \in DOMAIN devices' /\ devices'[i + 1] = devices[i]
      BY <1>1
    <3>. QED
      BY <3>1, <3>2 DEF Linked
  <2>3. d.at \in Linked'
    <3>1. 1 \in DOMAIN devices' /\ devices'[1].at = d.at
      BY <1>1
    <3>. QED
      BY <3>1 DEF Linked
  <2>. QED
    BY <2>1, <2>2, <2>3
<1>4. IdsCached /\ hw' = hw /\ d.id = hw[d.at].id => IdsCached'
  BY <1>1, <1>2 DEF IdsCached
<1>5. EachOnce /\ d.at \notin Linked => EachOnce'
  <2>. SUFFICES ASSUME EachOnce, d.at \notin Linked, NEW i \in DOMAIN devices',
                       NEW j \in DOMAIN devices', i # j
                PROVE  devices'[i].at # devices'[j].at
    BY DEF EachOnce
  <2>1. CASE i = 1
    BY <1>1, <1>2, <2>1 DEF Linked
  <2>2. CASE j = 1
    BY <1>1, <1>2, <2>2 DEF Linked
  <2>3. CASE i # 1 /\ j # 1
    <3>1. i - 1 # j - 1
      BY <1>1
    <3>. QED
      BY <1>2, <2>3, <3>1 DEF EachOnce
  <2>. QED
    BY <2>1, <2>2, <2>3
<1>. QED
  BY <1>1, <1>3, <1>4, <1>5

\* The place a call goes on to.
LEMMA StepFields ==
  ASSUME NEW t \in Frame, t.dev < NDevs, NEW multi \in BOOLEAN
  PROVE  LET s == Step(t, multi) IN
         /\ s \in Frame /\ s.bus = t.bus
         /\ multi /\ t.func + 1 < NFuncs => s.dev = t.dev /\ s.func = t.func + 1 /\ s.multi = multi
         /\ ~(multi /\ t.func + 1 < NFuncs) => s.dev = t.dev + 1 /\ s.func = 0 /\ s.multi = FALSE
<1>1. t.dev \in Nat /\ t.func \in Nat /\ t.func < NFuncs /\ t.bus \in Buses /\ t.multi \in BOOLEAN
  BY SizesAssumption DEF Frame, Funcs
<1>2. CASE multi /\ t.func + 1 < NFuncs
  BY <1>1, <1>2, SizesAssumption DEF Step, Frame, Funcs
<1>3. CASE ~(multi /\ t.func + 1 < NFuncs)
  <2>1. Step(t, multi) = [bus |-> t.bus, dev |-> t.dev + 1, func |-> 0, multi |-> FALSE]
    BY <1>3 DEF Step
  <2>2. t.dev + 1 \in 0 .. NDevs /\ 0 \in Funcs
    BY <1>1, SizesAssumption DEF Funcs
  <2>3. Step(t, multi) \in Frame
    BY <1>1, <2>1, <2>2 DEF Frame
  <2>4. /\ Step(t, multi).bus = t.bus /\ Step(t, multi).dev = t.dev + 1
        /\ Step(t, multi).func = 0 /\ Step(t, multi).multi = FALSE
    BY <2>1
  <2>. QED
    BY <1>3, <2>3, <2>4
<1>. QED
  BY <1>2, <1>3

LEMMA HwFacts ==
  ASSUME TypeOK, NEW f \in Functions, hw[f] # Absent
  PROVE  hw[f] \in Header /\ hw[f].id \in Ids /\ hw[f].secondary \in Buses /\ hw[f].multi \in BOOLEAN
<1>1. hw[f] \in Header
  BY MachinesAssumption DEF TypeOK
<1>. QED
  BY <1>1 DEF Header

LEMMA PlaceFacts ==
  ASSUME NEW t \in Frame, t.dev < NDevs
  PROVE  /\ Place(t) \in Functions
         /\ Place(t)[1] = t.bus /\ Place(t)[2] = t.dev /\ Place(t)[3] = t.func
         /\ t.bus \in Buses /\ t.dev \in Nat /\ t.func \in Nat /\ t.multi \in BOOLEAN
<1>1. t.bus \in Buses /\ t.dev \in 0 .. NDevs /\ t.func \in Funcs /\ t.multi \in BOOLEAN
  BY DEF Frame
<1>2. t.dev \in Devs
  BY <1>1, SizesAssumption DEF Devs
<1>. QED
  BY <1>1, <1>2, SizesAssumption DEF Place, Functions, Funcs

\* The first of the matches is one of them.
LEMMA FirstMatch ==
  ASSUME NEW Dev, devices \in Seq(Dev), NEW hits \in SUBSET DOMAIN devices, hits # {}
  PROVE  LET first == CHOOSE i \in hits : \A j \in hits : i <= j IN first \in hits
<1>1. hits \subseteq Nat
  OBVIOUS
<1>2. \E i \in hits : \A j \in hits : ~(<<j, i>> \in OpToRel(<, Nat))
  BY <1>1, WFMin, NatLessThanWellFounded
<1>3. \A i, j \in Nat : j < i => <<j, i>> \in OpToRel(<, Nat)
  BY DEF OpToRel
<1>4. \A i, j \in Nat : ~(j < i) => i <= j
  OBVIOUS
<1>5. \E i \in hits : \A j \in hits : i <= j
  BY <1>1, <1>2, <1>3, <1>4, Zenon
<1>. QED
  BY <1>5

LEMMA FrameInit ==
  ASSUME NEW b \in Buses
  PROVE  [bus |-> b, dev |-> 0, func |-> 0, multi |-> FALSE] \in Frame
<1>1. 0 \in 0 .. NDevs /\ 0 \in Funcs
  BY SizesAssumption DEF Funcs
<1>. QED
  BY <1>1 DEF Frame

LEMMA FindTyped ==
  ASSUME TypeOK, NEW id \in Ids, NEW card \in Cards \cup {AnyCard}, Find(id, card) PROVE TypeOK'
<1> DEFINE hits  == Matches(id, card)
           first == CHOOSE i \in hits : \A j \in hits : i <= j
<1>1. devices \in Seq([at : Functions, id : Ids]) /\ hits \subseteq DOMAIN devices
  BY DEF TypeOK, Matches
<1>2. answer' = [id |-> id, card |-> card, dev |-> IF hits = {} THEN None ELSE devices[first].at]
      /\ UNCHANGED <<hw, busmap, stack, calling, devices, pc>>
  BY DEF Find
<1>3. hits # {} => first \in hits
  BY <1>1, FirstMatch
<1> HIDE DEF hits, first
<1>4. hits # {} => devices[first].at \in Functions
  <2>. SUFFICES ASSUME hits # {} PROVE devices[first].at \in Functions
    OBVIOUS
  <2>1. first \in DOMAIN devices
    BY <1>1, <1>3
  <2>2. \A n \in DOMAIN devices : devices[n].at \in Functions
    <3>1. DOMAIN devices = 1 .. Len(devices)
      BY <1>1, LenProperties
    <3>2. \A n \in 1 .. Len(devices) : devices[n] \in [at : Functions, id : Ids]
      BY <1>1, ElementOfSeq
    <3>. QED
      BY <3>1, <3>2
  <2>. QED
    BY <2>1, <2>2
<1>5. answer' \in [id : Ids, card : Cards \cup {AnyCard}, dev : Functions \cup {None}]
  BY <1>2, <1>4
<1>. QED
  BY <1>2, <1>5 DEF TypeOK

LEMMA TypesStep == ASSUME TypeOK, [Next]_vars PROVE TypeOK'
<1>1. stack \in Seq(Frame) /\ devices \in Seq([at : Functions, id : Ids])
  BY DEF TypeOK
<1>2. CASE ScanBus
  <2>1. calling \in Buses
    BY <1>2 DEF ScanBus, TypeOK
  <2>2. stack' \in Seq(Frame)
    BY <1>1, <1>2, <2>1, FrameInit DEF ScanBus, Enter
  <2>. QED
    BY <1>2, <2>1, <2>2 DEF ScanBus, Enter, TypeOK
<1>3. CASE SeenTwice
  BY <1>3 DEF SeenTwice, TypeOK
<1>4. CASE SkipAbsent
  <2>1. Top \in Frame /\ Top.multi \in BOOLEAN /\ Top.dev < NDevs
    BY <1>1, <1>4, TopOf, PlaceFacts DEF SkipAbsent
  <2>2. stack' \in Seq(Frame)
    BY <1>1, <1>4, <2>1, StepFields, Replaced DEF SkipAbsent
  <2>. QED
    BY <1>4, <2>2 DEF SkipAbsent, TypeOK
<1>5. CASE Link
  <2>1. Top \in Frame /\ Top.multi \in BOOLEAN /\ Top.dev < NDevs /\ Place(Top) \in Functions
    BY <1>1, <1>5, TopOf, PlaceFacts DEF Link
  <2>2. hw[Place(Top)].id \in Ids /\ hw[Place(Top)].secondary \in Buses /\ hw[Place(Top)].multi \in BOOLEAN
    BY <1>5, <2>1, HwFacts DEF Link
  <2>3. stack' \in Seq(Frame)
    <3>1. (IF Top.func = 0 THEN hw[Place(Top)].multi ELSE Top.multi) \in BOOLEAN
      BY <2>1, <2>2, Zenon
    <3>. QED
      BY <1>1, <1>5, <2>1, <3>1, StepFields, Replaced DEF Link
  <2>4. devices' \in Seq([at : Functions, id : Ids])
    <3>1. [at |-> Place(Top), id |-> hw[Place(Top)].id] \in [at : Functions, id : Ids]
      BY <2>1, <2>2
    <3>. QED
      BY <1>1, <1>5, <3>1 DEF Link
  <2>5. calling' \in Buses \cup {None}
    BY <1>5, <2>2 DEF Link
  <2>. QED
    BY <1>5, <2>3, <2>4, <2>5 DEF Link, TypeOK
<1>6. CASE Return
  BY <1>1, <1>6, TopOf DEF Return, TypeOK
<1>7. CASE OutOfMemory
  BY <1>7, EmptySeq DEF OutOfMemory, TypeOK
<1>8. CASE \E id \in Ids, card \in Cards \cup {AnyCard} : Find(id, card)
  BY <1>8, FindTyped
<1>9. CASE UNCHANGED vars
  BY <1>9 DEF TypeOK
<1>. QED
  BY <1>2, <1>3, <1>4, <1>5, <1>6, <1>7, <1>8, <1>9 DEF Next, Scan

-----------------------------------------------------------------------------
(***************************************************************************)
(* One call going on from its place.  On a bus no visible function lies    *)
(* between a place and the one the call goes on to: functions of a device  *)
(* are left out only when its function 0 says that there are none.         *)
(***************************************************************************)
MultiNow(t) ==
  IF hw[Place(t)] = Absent THEN t.multi
  ELSE IF t.func = 0 THEN hw[Place(t)].multi ELSE t.multi

LEMMA MultiNowTyped ==
  ASSUME TypeOK, NEW t \in Frame, t.dev < NDevs PROVE MultiNow(t) \in BOOLEAN
<1>1. Place(t) \in Functions /\ t.multi \in BOOLEAN
  BY PlaceFacts
<1>2. hw[Place(t)] # Absent => hw[Place(t)].multi \in BOOLEAN
  BY <1>1, HwFacts
<1>. QED
  BY <1>1, <1>2, Zenon DEF MultiNow

LEMMA VisibleFacts ==
  ASSUME NEW f \in Visible
  PROVE  /\ f \in Functions /\ f = <<f[1], f[2], f[3]>> /\ hw[f] # Absent
         /\ f[1] \in Buses /\ f[2] \in Nat /\ f[2] < NDevs /\ f[3] \in Nat /\ f[3] < NFuncs
         /\ f[3] > 0 => hw[<<f[1], f[2], 0>>] # Absent /\ hw[<<f[1], f[2], 0>>].multi
<1>1. f \in Functions /\ hw[f] # Absent
      /\ (f[3] > 0 => hw[<<f[1], f[2], 0>>] # Absent /\ hw[<<f[1], f[2], 0>>].multi)
  BY DEF Visible
<1>. QED
  BY <1>1, SizesAssumption DEF Functions, Devs, Funcs

LEMMA StepBefore ==
  ASSUME TypeOK, NEW t \in Frame, t.dev < NDevs, MultiRight(t),
         NEW f \in Visible, f[1] = t.bus
  PROVE  Before(f, Step(t, MultiNow(t))) <=> Before(f, t) \/ f = Place(t)
<1> DEFINE m == MultiNow(t)
           s == Step(t, m)
<1>1. m \in BOOLEAN
  BY MultiNowTyped
<1>2. /\ s.bus = t.bus
      /\ m /\ t.func + 1 < NFuncs => s.dev = t.dev /\ s.func = t.func + 1
      /\ ~(m /\ t.func + 1 < NFuncs) => s.dev = t.dev + 1 /\ s.func = 0
  BY <1>1, StepFields
<1>3. /\ t.dev \in Nat /\ t.func \in Nat
      /\ f = Place(t) <=> f[2] = t.dev /\ f[3] = t.func
  <2>1. /\ t.dev \in Nat /\ t.func \in Nat /\ Place(t)[2] = t.dev /\ Place(t)[3] = t.func
    BY PlaceFacts
  <2>2. f = <<f[1], f[2], f[3]>>
    BY VisibleFacts
  <2>3. ASSUME f[2] = t.dev, f[3] = t.func PROVE f = Place(t)
    BY <2>2, <2>3, Zenon DEF Place
  <2>. QED
    BY <2>1, <2>3
<1>4. /\ f[2] \in Nat /\ f[3] \in Nat /\ f[3] < NFuncs
      /\ f[3] > 0 => hw[<<f[1], f[2], 0>>] # Absent /\ hw[<<f[1], f[2], 0>>].multi
  BY VisibleFacts
<1>5. ASSUME ~(m /\ t.func + 1 < NFuncs), f[2] = t.dev, f[3] > t.func PROVE FALSE
  <2>1. f[3] > 0 /\ <<f[1], f[2], 0>> = First(t)
    BY <1>3, <1>4, <1>5 DEF First
  <2>2. hw[First(t)] # Absent /\ hw[First(t)].multi
    BY <1>4, <2>1
  <2>3. m
    <3>1. CASE t.func = 0
      <4>1. Place(t) = First(t)
        BY <3>1 DEF Place, First
      <4>. QED
        BY <2>2, <3>1, <4>1 DEF MultiNow
    <3>2. CASE t.func # 0
      BY <3>2 DEF MultiNow, MultiRight
    <3>. QED
      BY <3>1, <3>2
  <2>. QED
    BY <1>3, <1>4, <1>5, <2>3, SizesAssumption
<1> HIDE DEF m, s
<1>6. CASE m /\ t.func + 1 < NFuncs
  <2>1. s.dev = t.dev /\ s.func = t.func + 1
    BY <1>2, <1>6
  <2>2. Before(f, s) <=> Before(f, t) \/ (f[2] = t.dev /\ f[3] = t.func)
    BY <1>3, <1>4, <2>1 DEF Before
  <2>. QED
    BY <1>3, <2>2 DEF s, m
<1>7. CASE ~(m /\ t.func + 1 < NFuncs)
  <2>1. s.dev = t.dev + 1 /\ s.func = 0
    BY <1>2, <1>7
  <2>2. f[2] = t.dev => ~(f[3] > t.func)
    BY <1>5, <1>7
  <2>3. Before(f, s) <=> Before(f, t) \/ (f[2] = t.dev /\ f[3] = t.func)
    BY <1>3, <1>4, <2>1, <2>2 DEF Before
  <2>. QED
    BY <1>3, <2>3 DEF s, m
<1>. QED
  BY <1>6, <1>7

LEMMA StepMulti ==
  ASSUME TypeOK, NEW t \in Frame, t.dev < NDevs, MultiRight(t)
  PROVE  MultiRight(Step(t, MultiNow(t)))
<1> DEFINE m == MultiNow(t)
           s == Step(t, m)
<1>1. m \in BOOLEAN
  BY MultiNowTyped
<1>2. /\ s.bus = t.bus
      /\ m /\ t.func + 1 < NFuncs => s.dev = t.dev /\ s.func = t.func + 1 /\ s.multi = m
      /\ ~(m /\ t.func + 1 < NFuncs) => s.func = 0 /\ s.multi = FALSE
  BY <1>1, StepFields
<1>3. t.func \in Nat
  BY PlaceFacts
<1>4. m => hw[First(t)] # Absent /\ hw[First(t)].multi
  <2>1. CASE t.func = 0
    <3>1. Place(t) = First(t)
      BY <2>1 DEF Place, First
    <3>. QED
      BY <2>1, <3>1 DEF MultiNow, MultiRight
  <2>2. CASE t.func # 0
    BY <2>2 DEF MultiRight
  <2>. QED
    BY <2>1, <2>2
<1> HIDE DEF m, s
<1>5. CASE m /\ t.func + 1 < NFuncs
  <2>1. s.bus = t.bus /\ s.dev = t.dev /\ s.func = t.func + 1 /\ s.multi = m
    BY <1>2, <1>5
  <2>2. s.func # 0 /\ s.dev < NDevs
    BY <1>3, <2>1
  <2>3. First(s) = First(t)
    BY <2>1 DEF First
  <2>4. s.multi
    BY <1>5, <2>1, Zenon
  <2>5. MultiRight(s)
    BY <1>4, <1>5, <2>2, <2>3, <2>4, Zenon DEF MultiRight
  <2>. QED
    BY <2>5 DEF s, m
<1>6. CASE ~(m /\ t.func + 1 < NFuncs)
  <2>1. MultiRight(s)
    BY <1>2, <1>6 DEF MultiRight
  <2>. QED
    BY <2>1 DEF s, m
<1>. QED
  BY <1>5, <1>6

\* What SkipAbsent and Link do to the calls and to what they have passed.
LEMMA Advance ==
  ASSUME TypeOK, CallsRight, OneCallEach, stack # <<>>, Top.dev < NDevs,
         stack' = Append(Below, Step(Top, MultiNow(Top))), UNCHANGED <<hw, busmap>>
  PROVE  /\ CallsRight' /\ OneCallEach' /\ stack' # <<>>
         /\ ~Passed(Place(Top)) /\ Place(Top) \in Functions /\ Top.bus \in busmap
         /\ hw[Place(Top)] # Absent => Place(Top) \in Visible
         /\ \A f \in Visible : Passed(f)' <=> Passed(f) \/ f = Place(Top)
<1> DEFINE n == Len(stack)
           s == Step(Top, MultiNow(Top))
<1>1. /\ n \in Nat \ {0} /\ n \in Calls /\ Top \in Frame /\ stack \in Seq(Frame) /\ stack[n] = Top
      /\ Top.bus \in busmap /\ MultiRight(Top)
  BY TopOf DEF TypeOK, CallsRight, Top
<1>2. s \in Frame /\ s.bus = Top.bus /\ MultiRight(s)
  BY <1>1, MultiNowTyped, StepFields, StepMulti
<1>3. stack' \in Seq(Frame) /\ Calls' = Calls /\ stack'[n] = s
      /\ \A c \in Calls : c # n => stack'[c] = stack[c]
  BY <1>1, <1>2, Replaced DEF Calls
<1>4. stack' # <<>>
  BY <1>1, <1>3, EmptySeq DEF Calls
<1>5. \A t : MultiRight(t)' <=> MultiRight(t)
  BY DEF MultiRight, First
<1> HIDE DEF n, s
<1>6. \A c \in Calls : stack'[c].bus = stack[c].bus
  BY <1>1, <1>2, <1>3
<1>7. CallsRight'
  BY <1>1, <1>2, <1>3, <1>5, <1>6 DEF CallsRight
<1>8. OneCallEach'
  <2>. SUFFICES ASSUME NEW c \in Calls, NEW d \in Calls, stack'[c].bus = stack'[d].bus PROVE c = d
    BY <1>3, Zenon DEF OneCallEach
  <2>. QED
    BY <1>6, Zenon DEF OneCallEach
<1>9. /\ Place(Top) \in Functions /\ Place(Top)[1] = Top.bus /\ Place(Top)[2] = Top.dev
      /\ Place(Top)[3] = Top.func /\ Top.dev \in Nat /\ Top.func \in Nat
  BY <1>1, PlaceFacts
<1>10. ~Passed(Place(Top))
  BY <1>1, <1>9 DEF Passed, Before
<1>11. hw[Place(Top)] # Absent => Place(Top) \in Visible
  <2>1. <<Place(Top)[1], Place(Top)[2], 0>> = First(Top)
    BY <1>9 DEF First
  <2>2. Place(Top)[3] > 0 => hw[First(Top)] # Absent /\ hw[First(Top)].multi
    BY <1>1, <1>9 DEF MultiRight
  <2>. QED
    BY <1>9, <2>1, <2>2, Zenon DEF Visible
<1>12. ASSUME NEW f \in Visible PROVE Passed(f)' <=> Passed(f) \/ f = Place(Top)
  <2>1. CASE f[1] # Top.bus
    <3>1. f # Place(Top)
      BY <1>9, <2>1
    <3>2. \A c \in Calls : stack'[c].bus = f[1] => c # n
      BY <1>1, <1>6, <2>1
    <3>3. \A c \in Calls : stack[c].bus = f[1] => c # n
      BY <1>1, <2>1
    <3>4. \A c \in Calls : (stack'[c].bus = f[1] => Before(f, stack'[c]))
                            <=> (stack[c].bus = f[1] => Before(f, stack[c]))
      BY <1>3, <3>2, <3>3, Zenon
    <3>. QED
      BY <1>3, <3>1, <3>4, Zenon DEF Passed, Before
  <2>2. CASE f[1] = Top.bus
    <3>1. \A c \in Calls : stack[c].bus = f[1] <=> c = n
      BY <1>1, <2>2 DEF OneCallEach
    <3>2. Passed(f) <=> Before(f, Top)
      BY <1>1, <2>2, <3>1 DEF Passed
    <3>3. Passed(f)' <=> Before(f, s)
      BY <1>1, <1>3, <1>6, <2>2, <3>1 DEF Passed, Before
    <3>4. Before(f, s) <=> Before(f, Top) \/ f = Place(Top)
      BY <1>1, <2>2, StepBefore DEF s
    <3>. QED
      BY <3>2, <3>3, <3>4
  <2>. QED
    BY <2>1, <2>2
<1>. QED
  BY <1>1, <1>4, <1>7, <1>8, <1>9, <1>10, <1>11, <1>12

-----------------------------------------------------------------------------
\* What is said of the machine alone does not change, and the calls and the
\* list do not when their variables do not.
LEMMA MachineKept ==
  ASSUME hw' = hw
  PROVE  /\ Visible' = Visible /\ Reachable' = Reachable
         /\ \A B : Closed(B)' <=> Closed(B)
         /\ \A t : MultiRight(t)' <=> MultiRight(t)
<1>1. Visible' = Visible
  BY DEF Visible
<1>2. \A B : Behind(B)' = Behind(B)
  BY <1>1 DEF Behind
<1>3. \A B : Closed(B)' <=> Closed(B)
  BY <1>2, Zenon DEF Closed
<1>4. Reachable' = Reachable
  BY <1>1, <1>3 DEF Reachable
<1>5. \A t : MultiRight(t)' <=> MultiRight(t)
  BY DEF MultiRight, First
<1>. QED
  BY <1>1, <1>3, <1>4, <1>5

LEMMA ListKept ==
  ASSUME Inv, hw' = hw, devices' = devices
  PROVE  Linked' = Linked /\ (Linked \subseteq Reachable)' /\ IdsCached' /\ EachOnce'
<1>1. Linked' = Linked
  BY DEF Linked
<1>. QED
  BY <1>1, MachineKept DEF Inv, IdsCached, EachOnce

LEMMA SearchKept ==
  ASSUME Inv, hw' = hw, answer' = answer PROVE SearchIsRight'
BY MachineKept DEF Inv, SearchIsRight

LEMMA LinkedFunctions == ASSUME TypeOK PROVE Linked \subseteq Functions
<1>1. devices \in Seq([at : Functions, id : Ids])
  BY DEF TypeOK
<1>2. \A i \in DOMAIN devices : devices[i] \in [at : Functions, id : Ids]
  BY <1>1, ElementOfSeq, LenProperties
<1>. QED
  BY <1>2 DEF Linked

LEMMA Scanning ==
  ASSUME Inv, calling # None \/ stack # <<>> PROVE pc = "scan" /\ Listed /\ Followed
BY DEF Inv

LEMMA ScanBusKeeps == ASSUME Inv, ScanBus PROVE Inv'
<1> DEFINE n == Len(stack)
           t == [bus |-> calling, dev |-> 0, func |-> 0, multi |-> FALSE]
<1>1. /\ calling # None /\ calling \notin busmap /\ stack' = Append(stack, t)
      /\ busmap' = busmap \cup {calling} /\ calling' = None
      /\ UNCHANGED <<hw, devices, pc, answer>>
  BY DEF ScanBus, Enter
<1>2. TypeOK /\ TypeOK' /\ stack \in Seq(Frame) /\ calling \in Buses /\ None \notin Buses
  BY <1>1, TypesStep, MarksAssumption DEF Inv, Next, Scan, TypeOK
<1>3. pc = "scan" /\ Listed /\ Followed
  BY <1>1, Scanning
<1>4. t.bus = calling /\ t.dev = 0 /\ t.func = 0 /\ t.multi = FALSE
  OBVIOUS
<1>5. /\ n \in Nat /\ Calls' = Calls \cup {n + 1} /\ n + 1 \notin Calls /\ stack'[n + 1] = t
      /\ \A c \in Calls : stack'[c] = stack[c]
  BY <1>1, <1>2, FrameInit DEF Calls
<1> HIDE DEF n, t
<1>6. \A c \in Calls : stack[c].bus \in busmap /\ stack[c].bus # calling
  BY <1>1 DEF Inv, CallsRight
<1>7. CallsRight'
  <2>1. MultiRight(t)
    BY <1>4, Zenon DEF MultiRight
  <2>2. \A c \in Calls : stack[c].bus \in busmap /\ MultiRight(stack[c])
    BY DEF Inv, CallsRight
  <2>. QED
    BY <1>1, <1>4, <1>5, <2>1, <2>2, MachineKept DEF CallsRight
<1>8. OneCallEach'
  BY <1>4, <1>5, <1>6 DEF Inv, OneCallEach
<1>9. Listed'
  <2>1. ASSUME NEW f \in Visible PROVE Passed(f)' <=> Passed(f)
    <3>1. CASE f[1] = calling
      <4>1. ~Before(f, t)
        <5>1. f[2] \in Nat /\ f[3] \in Nat
          BY VisibleFacts
        <5>2. ~(f[2] < 0) /\ ~(f[3] < 0)
          BY <5>1
        <5>. QED
          BY <1>4, <5>2 DEF Before
      <4>2. ~Passed(f)
        BY <1>1, <3>1 DEF Passed
      <4>3. n + 1 \in Calls' /\ stack'[n + 1] = t /\ t.bus = f[1]
        BY <1>4, <1>5, <3>1
      <4>4. ~Before(f, stack'[n + 1])
        BY <4>1, <4>3
      <4>5. stack'[n + 1].bus = f[1]
        BY <4>3
      <4>. QED
        BY <4>2, <4>3, <4>4, <4>5, Zenon DEF Passed, Before
    <3>2. CASE f[1] # calling
      <4>1. \A c \in Calls : (stack'[c].bus = f[1] => Before(f, stack'[c]))
                              <=> (stack[c].bus = f[1] => Before(f, stack[c]))
        BY <1>5
      <4>2. stack'[n + 1].bus # f[1]
        BY <1>4, <1>5, <3>2
      <4>3. f[1] \in busmap' <=> f[1] \in busmap
        BY <1>1, <3>2
      <4>. QED
        BY <1>5, <4>1, <4>2, <4>3, Zenon DEF Passed, Before
    <3>. QED
      BY <3>1, <3>2
  <2>. QED
    BY <1>1, <1>3, <2>1, ListKept, MachineKept DEF Listed
<1>10. Followed'
  BY <1>1, <1>3, ListKept DEF Followed
<1>11. OnlyReached'
  BY <1>1, MachineKept DEF Inv, OnlyReached
<1>. QED
  BY <1>1, <1>2, <1>3, <1>7, <1>8, <1>9, <1>10, <1>11, ListKept, SearchKept DEF Inv

\* The steps that leave the calls, the buses entered and the list alone.
LEMMA CallsKept ==
  ASSUME Inv, UNCHANGED <<hw, busmap, stack, devices>>
  PROVE  CallsRight' /\ OneCallEach' /\ (Listed' <=> Listed)
<1>1. Calls' = Calls
  BY DEF Calls
<1>2. \A f : Passed(f)' <=> Passed(f)
  BY <1>1 DEF Passed, Before
<1>3. Listed' <=> Listed
  BY <1>2, ListKept, MachineKept DEF Listed
<1>4. CallsRight'
  BY <1>1, MachineKept DEF Inv, CallsRight
<1>5. OneCallEach'
  BY <1>1 DEF Inv, OneCallEach
<1>. QED
  BY <1>3, <1>4, <1>5

LEMMA SeenTwiceKeeps == ASSUME Inv, SeenTwice PROVE Inv'
<1>1. calling \in busmap /\ calling' = None /\ UNCHANGED <<hw, busmap, stack, devices, pc, answer>>
  BY DEF SeenTwice
<1>2. TypeOK' /\ busmap \subseteq Buses /\ None \notin Buses
  BY TypesStep, MarksAssumption DEF Inv, Next, Scan, TypeOK
<1>3. pc = "scan" /\ Listed /\ Followed
  BY <1>1, <1>2, Scanning
<1>4. Followed'
  BY <1>1, <1>3, ListKept DEF Followed
<1>5. OnlyReached'
  BY <1>1, MachineKept DEF Inv, OnlyReached
<1>. QED
  BY <1>1, <1>2, <1>3, <1>4, <1>5, CallsKept, ListKept, SearchKept DEF Inv

LEMMA SkipAbsentKeeps == ASSUME Inv, SkipAbsent PROVE Inv'
<1>1. /\ calling = None /\ stack # <<>> /\ Top.dev < NDevs /\ hw[Place(Top)] = Absent
      /\ stack' = Append(Below, Step(Top, Top.multi))
      /\ UNCHANGED <<hw, busmap, calling, devices, pc, answer>>
  BY DEF SkipAbsent
<1>2. TypeOK /\ TypeOK' /\ CallsRight /\ OneCallEach
  BY TypesStep DEF Inv, Next, Scan
<1>3. pc = "scan" /\ Listed /\ Followed
  BY <1>1, Scanning
<1>4. MultiNow(Top) = Top.multi
  BY <1>1 DEF MultiNow
<1>5. /\ CallsRight' /\ OneCallEach'
      /\ \A f \in Visible : Passed(f)' <=> Passed(f) \/ f = Place(Top)
  BY <1>1, <1>2, <1>4, Advance
<1>6. \A f \in Visible : Passed(f)' <=> Passed(f)
  BY <1>1, <1>5, VisibleFacts
<1>7. Listed'
  BY <1>1, <1>3, <1>6, ListKept, MachineKept DEF Listed
<1>8. Followed'
  BY <1>1, <1>3, ListKept DEF Followed
<1>9. OnlyReached'
  BY <1>1, MachineKept DEF Inv, OnlyReached
<1>. QED
  BY <1>1, <1>2, <1>3, <1>5, <1>7, <1>8, <1>9, ListKept, SearchKept DEF Inv

LEMMA LinkKeeps == ASSUME Inv, Link PROVE Inv'
<1> DEFINE p == Place(Top)
           d == [at |-> p, id |-> hw[p].id]
<1>1. /\ calling = None /\ stack # <<>> /\ Top.dev < NDevs /\ hw[p] # Absent
      /\ devices' = <<d>> \o devices
      /\ stack' = Append(Below, Step(Top, IF Top.func = 0 THEN hw[p].multi ELSE Top.multi))
      /\ calling' = IF hw[p].type = "bridge" THEN hw[p].secondary ELSE None
      /\ UNCHANGED <<hw, busmap, pc, answer>>
  BY DEF Link
<1>2. TypeOK /\ TypeOK' /\ CallsRight /\ OneCallEach
  BY TypesStep DEF Inv, Next, Scan
<1>3. pc = "scan" /\ Listed /\ Followed
  BY <1>1, Scanning
<1>4. MultiNow(Top) = IF Top.func = 0 THEN hw[p].multi ELSE Top.multi
  BY <1>1 DEF MultiNow
<1>5. /\ CallsRight' /\ OneCallEach' /\ stack' # <<>>
      /\ ~Passed(p) /\ p \in Visible /\ p \in Functions /\ Top.bus \in busmap
      /\ \A f \in Visible : Passed(f)' <=> Passed(f) \/ f = p
  BY <1>1, <1>2, <1>4, Advance
<1>6. hw[p].id \in Ids /\ hw[p].secondary \in Buses /\ p[1] = Top.bus
  BY <1>1, <1>2, <1>5, HwFacts DEF Place
<1>7. p \notin Linked
  BY <1>3, <1>5 DEF Listed
<1>8. d \in [at : Functions, id : Ids] /\ d.at = p /\ d.id = hw[p].id
  BY <1>5, <1>6
<1>9. devices \in Seq([at : Functions, id : Ids])
  BY <1>2 DEF TypeOK
<1> HIDE DEF p, d
<1>10. Linked' = Linked \cup {p} /\ IdsCached' /\ EachOnce'
  BY <1>1, <1>7, <1>8, <1>9, LinkedGrows DEF Inv
<1>11. Listed'
  <2>. SUFFICES ASSUME NEW f \in Functions
                PROVE  f \in Linked \cup {p} <=> f \in Visible /\ Passed(f)'
    BY <1>1, <1>10, MachineKept, Zenon DEF Listed
  <2>1. f \in Linked <=> f \in Visible /\ Passed(f)
    BY <1>3 DEF Listed
  <2>. QED
    BY <1>5, <2>1
<1>12. busmap \subseteq Buses /\ None \notin Buses /\ Linked \subseteq Functions
  BY <1>2, MarksAssumption, LinkedFunctions DEF TypeOK
<1>13. Followed'
  <2>1. 0 \in busmap'
    BY <1>1, <1>3, BusesAssumption, <1>12 DEF Followed
  <2>2. ASSUME NEW f \in Linked, hw[f].type = "bridge" PROVE hw[f].secondary \in busmap
    <3>1. hw[f].secondary \in busmap \cup {None}
      BY <1>1, <1>3, <2>2 DEF Followed
    <3>2. f \in Visible
      BY <1>3, <1>12 DEF Listed
    <3>3. hw[f].secondary \in Buses
      BY <1>2, <3>2, VisibleFacts, HwFacts
    <3>. QED
      BY <1>12, <3>1, <3>3
  <2>3. hw[p].type = "bridge" => hw[p].secondary = calling'
    BY <1>1
  <2>. QED
    BY <1>1, <1>10, <2>1, <2>2, <2>3 DEF Followed
<1>14. ASSUME NEW B \in SUBSET Buses, Closed(B)
       PROVE  busmap \subseteq B /\ p[1] \in B /\ (calling' # None => calling' \in B)
  <2>1. busmap \subseteq B /\ p[1] \in B
    BY <1>5, <1>6, <1>14 DEF Inv, OnlyReached
  <2>2. hw[p].type = "bridge" => hw[p].secondary \in Behind(B)
    BY <1>5, <2>1 DEF Behind
  <2>3. Behind(B) \subseteq B
    BY <1>14 DEF Closed
  <2>. QED
    BY <1>1, <2>1, <2>2, <2>3
<1>15. OnlyReached'
  BY <1>1, <1>14, MachineKept DEF OnlyReached
<1>16. (Linked \subseteq Reachable)'
  <2>1. p \in Reachable
    BY <1>5, <1>14 DEF Reachable
  <2>. QED
    BY <1>1, <1>10, <2>1, MachineKept DEF Inv
<1>. QED
  BY <1>1, <1>2, <1>3, <1>5, <1>10, <1>11, <1>13, <1>15, <1>16, SearchKept DEF Inv

LEMMA ReturnKeeps == ASSUME Inv, Return PROVE Inv'
<1> DEFINE n == Len(stack)
<1>1. /\ calling = None /\ stack # <<>> /\ Top.dev = NDevs /\ stack' = Below
      /\ pc' = IF Below = <<>> THEN "ready" ELSE pc
      /\ UNCHANGED <<hw, busmap, calling, devices, answer>>
  BY DEF Return
<1>2. TypeOK /\ TypeOK' /\ CallsRight /\ OneCallEach /\ stack \in Seq(Frame)
  BY TypesStep DEF Inv, Next, Scan, TypeOK
<1>3. pc = "scan" /\ Listed /\ Followed
  BY <1>1, Scanning
<1>4. /\ n \in Calls /\ stack[n] = Top
      /\ Calls' \subseteq Calls /\ \A c \in Calls : c # n => c \in Calls'
      /\ \A c \in Calls' : stack'[c] = stack[c]
  BY <1>1, <1>2, TopOf DEF Calls, Top
<1>5. CallsRight'
  <2>1. \A c \in Calls : stack[c].bus \in busmap /\ MultiRight(stack[c])
    BY <1>2 DEF CallsRight
  <2>. QED
    BY <1>1, <1>4, <2>1, MachineKept DEF CallsRight
<1>6. OneCallEach'
  BY <1>2, <1>4 DEF OneCallEach
<1> HIDE DEF n
<1>7. ASSUME NEW f \in Visible PROVE Passed(f)' <=> Passed(f)
  <2>1. Before(f, stack[n])
    BY <1>1, <1>4, VisibleFacts DEF Before
  <2>2. \A c \in Calls : c \notin Calls' => Before(f, stack[c])
    BY <1>4, <2>1
  <2>3. \A c \in Calls' : (stack'[c].bus = f[1] => Before(f, stack'[c]))
                          <=> (stack[c].bus = f[1] => Before(f, stack[c]))
    BY <1>4
  <2>. QED
    BY <1>1, <1>4, <2>2, <2>3, Zenon DEF Passed, Before
<1>8. Listed'
  BY <1>1, <1>3, <1>7, ListKept, MachineKept DEF Listed
<1>9. Followed'
  BY <1>1, <1>3, ListKept DEF Followed
<1>10. OnlyReached'
  BY <1>1, MachineKept DEF Inv, OnlyReached
<1>11. pc' # "scan" => stack' = <<>> /\ calling' = None
  BY <1>1, <1>3
<1>. QED
  BY <1>1, <1>2, <1>3, <1>5, <1>6, <1>8, <1>9, <1>10, <1>11, ListKept, SearchKept DEF Inv

LEMMA OutOfMemoryKeeps == ASSUME Inv, OutOfMemory PROVE Inv'
<1>1. /\ pc' = "exited" /\ stack' = <<>> /\ calling' = None
      /\ UNCHANGED <<hw, busmap, devices, answer>>
  BY DEF OutOfMemory
<1>2. TypeOK'
  BY TypesStep DEF Inv, Next
<1>3. Calls' = {}
  BY <1>1, EmptySeq DEF Calls
<1>4. CallsRight' /\ OneCallEach'
  BY <1>3 DEF CallsRight, OneCallEach
<1>5. OnlyReached'
  BY <1>1, MachineKept DEF Inv, OnlyReached
<1>. QED
  BY <1>1, <1>2, <1>4, <1>5, ListKept, SearchKept DEF Inv

\* Behind the scan the buses entered are closed under bridges, so the list is
\* complete.
LEMMA Complete == ASSUME Inv, pc = "ready" PROVE Linked = Reachable
<1>1. stack = <<>> /\ calling = None /\ Listed /\ Followed /\ Linked \subseteq Reachable /\ TypeOK
  BY DEF Inv
<1>2. busmap \subseteq Buses /\ None \notin Buses /\ 0 \in Buses
  BY <1>1, MarksAssumption, BusesAssumption DEF TypeOK
<1>3. \A f : f[1] \in busmap => Passed(f)
  BY <1>1, EmptySeq DEF Passed, Calls
<1>4. ASSUME NEW f \in Visible, f[1] \in busmap PROVE f \in Linked
  BY <1>1, <1>3, <1>4, VisibleFacts DEF Listed
<1>5. Behind(busmap) \subseteq busmap
  <2>. SUFFICES ASSUME NEW f \in Visible, f[1] \in busmap, hw[f].type = "bridge"
                PROVE  hw[f].secondary \in busmap
    BY DEF Behind
  <2>1. hw[f].secondary \in busmap \cup {None}
    BY <1>1, <1>4 DEF Followed
  <2>2. hw[f].secondary \in Buses
    BY <1>1, VisibleFacts, HwFacts
  <2>. QED
    BY <1>2, <2>1, <2>2
<1>6. Closed(busmap)
  BY <1>1, <1>2, <1>5 DEF Closed, Followed
<1>7. \A f \in Reachable : f \in Visible /\ f[1] \in busmap
  BY <1>2, <1>6 DEF Reachable
<1>. QED
  BY <1>1, <1>4, <1>7

LEMMA FindKeeps ==
  ASSUME Inv, NEW id \in Ids, NEW card \in Cards \cup {AnyCard}, Find(id, card) PROVE Inv'
<1> DEFINE hits  == Matches(id, card)
           first == CHOOSE i \in hits : \A j \in hits : i <= j
<1>1. /\ pc = "ready"
      /\ answer' = [id |-> id, card |-> card, dev |-> IF hits = {} THEN None ELSE devices[first].at]
      /\ UNCHANGED <<hw, busmap, stack, calling, devices, pc>>
  BY DEF Find
<1>2. TypeOK' /\ devices \in Seq([at : Functions, id : Ids]) /\ Linked \subseteq Functions
  BY TypesStep, LinkedFunctions DEF Inv, Next, TypeOK
<1>3. Linked = Reachable /\ None \notin Functions
  BY <1>1, Complete, MarksAssumption
<1>4. \A i \in DOMAIN devices : devices[i].at \in Linked /\ devices[i].id = hw[devices[i].at].id
  BY DEF Inv, IdsCached, Linked
<1>5. \A i \in DOMAIN devices :
        i \in hits <=> hw[devices[i].at].id = id /\ (card # AnyCard => hw[devices[i].at].card = card)
  BY <1>4 DEF Matches
<1>6. hits \subseteq DOMAIN devices /\ (hits # {} => first \in hits)
  BY <1>2, FirstMatch DEF Matches
<1> HIDE DEF hits, first
<1>7. answer'.id = id /\ answer'.card = card
      /\ answer'.dev = IF hits = {} THEN None ELSE devices[first].at
  BY <1>1
<1> DEFINE fits == {f \in Reachable : hw[f].id = id /\ (card # AnyCard => hw[f].card = card)}
<1>8. \A i \in DOMAIN devices : i \in hits <=> devices[i].at \in fits
  BY <1>3, <1>4, <1>5
<1>9. \A f \in fits : \E i \in hits : f = devices[i].at
  BY <1>3, <1>8 DEF Linked
<1>10. IF answer'.dev = None THEN fits = {} ELSE answer'.dev \in fits
  <2>1. CASE hits = {}
    BY <1>7, <1>9, <2>1
  <2>2. CASE hits # {}
    <3>1. devices[first].at \in fits /\ devices[first].at # None
      BY <1>2, <1>3, <1>4, <1>6, <1>8, <2>2
    <3>. QED
      BY <1>7, <2>2, <3>1
  <2>. QED
    BY <2>1, <2>2
<1>11. SearchIsRight'
  BY <1>1, <1>7, <1>10, MachineKept DEF SearchIsRight
<1>12. Followed' <=> Followed
  BY <1>1, ListKept DEF Followed
<1>13. OnlyReached'
  BY <1>1, MachineKept DEF Inv, OnlyReached
<1>. QED
  BY <1>1, <1>2, <1>11, <1>12, <1>13, CallsKept, ListKept DEF Inv

LEMMA Stutter == ASSUME Inv, UNCHANGED vars PROVE Inv'
<1>1. TypeOK' /\ (Followed' <=> Followed)
  BY TypesStep, ListKept DEF Inv, Followed
<1>2. OnlyReached'
  BY MachineKept DEF Inv, OnlyReached
<1>. QED
  BY <1>1, <1>2, CallsKept, ListKept, SearchKept DEF Inv

LEMMA InvInit == ASSUME Init PROVE Inv
<1>1. /\ hw \in Machines /\ busmap = {} /\ stack = <<>> /\ calling = 0 /\ devices = <<>>
      /\ pc = "scan" /\ answer = None
  BY DEF Init
<1>2. Calls = {} /\ Linked = {} /\ DOMAIN devices = {}
  BY <1>1, EmptySeq DEF Calls, Linked
<1>3. TypeOK
  BY <1>1, BusesAssumption, EmptySeq DEF TypeOK
<1>4. CallsRight /\ OneCallEach
  BY <1>2 DEF CallsRight, OneCallEach
<1>5. Listed /\ Followed
  BY <1>1, <1>2 DEF Listed, Followed, Passed
<1>6. OnlyReached
  BY <1>1 DEF OnlyReached, Closed
<1>7. IdsCached /\ EachOnce /\ SearchIsRight
  BY <1>1, <1>2 DEF IdsCached, EachOnce, SearchIsRight
<1>. QED
  BY <1>1, <1>2, <1>3, <1>4, <1>5, <1>6, <1>7 DEF Inv

LEMMA InvStep == ASSUME Inv, [Next]_vars PROVE Inv'
<1>1. CASE ScanBus
  BY <1>1, ScanBusKeeps
<1>2. CASE SeenTwice
  BY <1>2, SeenTwiceKeeps
<1>3. CASE SkipAbsent
  BY <1>3, SkipAbsentKeeps
<1>4. CASE Link
  BY <1>4, LinkKeeps
<1>5. CASE Return
  BY <1>5, ReturnKeeps
<1>6. CASE OutOfMemory
  BY <1>6, OutOfMemoryKeeps
<1>7. CASE \E id \in Ids, card \in Cards \cup {AnyCard} : Find(id, card)
  BY <1>7, FindKeeps
<1>8. CASE UNCHANGED vars
  BY <1>8, Stutter
<1>. QED
  BY <1>1, <1>2, <1>3, <1>4, <1>5, <1>6, <1>7, <1>8 DEF Next, Scan

LEMMA Invariant == Spec => []Inv
BY InvInit, InvStep, PTL DEF Spec

-----------------------------------------------------------------------------
\* The variables keep their types on any machine.
THEOREM Typed == Spec => []TypeOK
<1>1. Inv => TypeOK
  BY DEF Inv
<1>. QED
  BY <1>1, Invariant, PTL

(***************************************************************************)
(* The list never has a function twice or one that cannot be reached, and  *)
(* is complete behind the scan, however the bridges point at each other.   *)
(***************************************************************************)
THEOREM ListIsRight == Spec => []ListIsReachable
<1>1. Inv => ListIsReachable
  BY Complete DEF Inv, ListIsReachable, FindsReachable
<1>. QED
  BY <1>1, Invariant, PTL

(***************************************************************************)
(* pci_dev_find and pci_card_find return a device that is within reach and *)
(* has the ids, and NULL only when there is none.                          *)
(***************************************************************************)
THEOREM SearchesAreRight == Spec => []SearchIsRight
<1>1. Inv => SearchIsRight
  BY DEF Inv
<1>. QED
  BY <1>1, Invariant, PTL

(***************************************************************************)
(* pci_generic_scan_bus never calls itself more often than there are       *)
(* buses.                                                                  *)
(***************************************************************************)
THEOREM DepthIsBounded == Spec => []DepthBounded
<1>1. ASSUME Inv PROVE DepthBounded
  <2> DEFINE n == Len(stack)
             bus == [c \in 1 .. n |-> stack[c].bus]
  <2>1. n \in Nat /\ \A c \in 1 .. n : stack[c] \in Frame
    BY <1>1, ElementOfSeq DEF Inv, TypeOK
  <2>2. \A c \in 1 .. n : stack[c].bus \in Buses
    BY <2>1 DEF Frame
  <2>3. \A c, d \in 1 .. n : stack[c].bus = stack[d].bus => c = d
    BY <1>1 DEF Inv, OneCallEach, Calls
  <2> HIDE DEF n
  <2>4. bus \in Injection(1 .. n, Buses)
    BY <2>2, <2>3 DEF Injection, IsInjective
  <2> HIDE DEF bus
  <2>5. IsFiniteSet(Buses)
    BY BusesAssumption
  <2>6. Cardinality(1 .. n) = n
    BY <2>1, FS_Interval
  <2>7. Cardinality(1 .. n) <= Cardinality(Buses)
    BY <2>4, <2>5, FS_Injection
  <2>. QED
    BY <2>6, <2>7 DEF DepthBounded, n
<1>. QED
  BY <1>1, Invariant, PTL

-----------------------------------------------------------------------------
(***************************************************************************)
(* Part 2: the LinuxBIOS table.  What is computed by recursion over memory *)
(* (the sums, the records the count looks at) is followed by induction: a  *)
(* least or a greatest place where it went wrong cannot be.                *)
(***************************************************************************)

\* A set of numbers that has one has a least one.
LEMMA LeastExists ==
  ASSUME NEW S \in SUBSET Nat, S # {}
  PROVE  \E n \in S : \A m \in S : n <= m
  <1>1. \E n \in S : \A m \in S : ~(<<m, n>> \in OpToRel(<, Nat))
    BY NatLessThanWellFounded, WFMin
  <1>2. \A n, m \in Nat : m < n => <<m, n>> \in OpToRel(<, Nat)
    BY DEF OpToRel
  <1>3. \A n, m \in Nat : ~(m < n) => n <= m
    OBVIOUS
  <1>. QED  BY <1>1, <1>2, <1>3, Zenon

\* and, below a bound, a greatest one
LEMMA GreatestExists ==
  ASSUME NEW e \in Nat, NEW S \in SUBSET (0 .. e), S # {}
  PROVE  \E n \in S : \A m \in S : m <= n
  <1>. DEFINE D == {d \in Nat : e - d \in S}
  <1>1. PICK x \in S : TRUE
    OBVIOUS
  <1>2. e - x \in D
    OBVIOUS
  <1>. HIDE DEF D
  <1>3. D \in SUBSET Nat
    BY DEF D
  <1>4. PICK d \in D : \A c \in D : d <= c
    BY <1>2, <1>3, LeastExists
  <1>5. \A m \in S : e - m \in D
    BY DEF D
  <1>6. d \in Nat /\ e - d \in S
    BY <1>4 DEF D
  <1>7. \A m \in S : m <= e - d
    BY <1>4, <1>5, <1>6
  <1>. QED  BY <1>6, <1>7

-----------------------------------------------------------------------------
\* Part: the sums

Memory(m) == m \in [Mapped -> Words]

SumsTo(m, n, f) ==
  /\ f \in [0 .. n -> Nat] /\ f[0] = 0
  /\ \A k \in 1 .. n : f[k] = f[k - 1] + m[k - 1]

\* The recursion of Sum has a solution.
LEMMA SumsExist ==
  ASSUME NEW m, Memory(m)
  PROVE  \E f : SumsTo(m, MemSize, f)
  <1>. DEFINE Fails == {n \in 0 .. MemSize : \A f : ~SumsTo(m, n, f)}
  <1>1. SUFFICES ASSUME Fails # {} PROVE FALSE
    BY TableAssumption
  <1>2. PICK n \in Fails : \A k \in Fails : n <= k
    <2>1. Fails \in SUBSET Nat
      BY TableAssumption
    <2>. HIDE DEF Fails
    <2>. QED  BY <1>1, <2>1, LeastExists
  <1>3. n # 0
    <2>1. SumsTo(m, 0, [k \in 0 .. 0 |-> 0])
      BY DEF SumsTo
    <2>. QED  BY <1>2, <2>1
  <1>4. PICK f : SumsTo(m, n - 1, f)
    <2>1. n - 1 \in 0 .. MemSize /\ ~(n <= n - 1)
      BY <1>2, <1>3, TableAssumption
    <2>. QED  BY <1>2, <2>1
  <1>5. n \in 1 .. MemSize /\ m[n - 1] \in Nat
    BY <1>2, <1>3, TableAssumption DEF Memory, Mapped, Words
  <1>. DEFINE g == [k \in 0 .. n |-> IF k = n THEN f[n - 1] + m[n - 1] ELSE f[k]]
  <1>6. SumsTo(m, n, g)
    BY <1>4, <1>5 DEF SumsTo
  <1>. QED  BY <1>2, <1>6

\* Sum adds one word after the other.
LEMMA SumRule ==
  ASSUME NEW m, Memory(m)
  PROVE  /\ Sum(m, 0) = 0
         /\ \A n \in 0 .. MemSize : Sum(m, n) \in Nat
         /\ \A n \in 1 .. MemSize : Sum(m, n) = Sum(m, n - 1) + m[n - 1]
  <1>. DEFINE upTo[k \in 0 .. MemSize] == IF k = 0 THEN 0 ELSE upTo[k - 1] + m[k - 1]
  <1>1. PICK f : SumsTo(m, MemSize, f)
    BY SumsExist
  <1>2. f = [k \in 0 .. MemSize |-> IF k = 0 THEN 0 ELSE f[k - 1] + m[k - 1]]
    BY <1>1, TableAssumption DEF SumsTo
  <1>3. upTo = [k \in 0 .. MemSize |-> IF k = 0 THEN 0 ELSE upTo[k - 1] + m[k - 1]]
    BY <1>2
  <1>4. \A n : Sum(m, n) = upTo[n]
    BY DEF Sum
  <1>. HIDE DEF upTo
  <1>5. upTo[0] = 0 /\ \A n \in 1 .. MemSize : upTo[n] = upTo[n - 1] + m[n - 1]
    BY <1>3, TableAssumption
  <1>6. \A n \in 0 .. MemSize : upTo[n] \in Nat
    <2>. DEFINE Fails == {n \in 0 .. MemSize : upTo[n] \notin Nat}
    <2>1. SUFFICES ASSUME Fails # {} PROVE FALSE
      OBVIOUS
    <2>2. PICK n \in Fails : \A k \in Fails : n <= k
      <3>1. Fails \in SUBSET Nat
        BY TableAssumption
      <3>. HIDE DEF Fails
      <3>. QED  BY <2>1, <3>1, LeastExists
    <2>3. n # 0 /\ n \in 1 .. MemSize /\ n - 1 \in 0 .. MemSize /\ ~(n <= n - 1)
      BY <1>5, <2>2, TableAssumption
    <2>4. m[n - 1] \in Nat
      BY <2>3, TableAssumption DEF Memory, Mapped, Words
    <2>. QED  BY <1>5, <2>2, <2>3, <2>4
  <1>. QED  BY <1>4, <1>5, <1>6

LEMMA TotalRule ==
  ASSUME NEW from \in Nat, NEW to \in Nat, from <= to, to <= MemSize, Memory(mem)
  PROVE  /\ Total(from, from) = 0 /\ Total(from, to) \in Int
         /\ to < MemSize => Total(from, to + 1) = Total(from, to) + mem[to]
  <1>1. from \in 0 .. MemSize /\ to \in 0 .. MemSize /\ (to < MemSize => to + 1 \in 1 .. MemSize)
    BY TableAssumption
  <1>2. /\ \A n \in 0 .. MemSize : Sum(mem, n) \in Nat
        /\ \A n \in 1 .. MemSize : Sum(mem, n) = Sum(mem, n - 1) + mem[n - 1]
    BY SumRule
  <1>3. to < MemSize => Sum(mem, to + 1) = Sum(mem, to) + mem[to]
    <2>1. (to + 1) - 1 = to
      OBVIOUS
    <2>. QED  BY <1>1, <1>2, <2>1
  <1>4. Sum(mem, from) \in Nat /\ Sum(mem, to) \in Nat
    BY <1>1, <1>2
  <1>5. to < MemSize => mem[to] \in Nat
    BY TableAssumption DEF Memory, Mapped, Words
  <1>. QED  BY <1>3, <1>4, <1>5 DEF Total

-----------------------------------------------------------------------------
\* Part: multiples

LEMMA MultipleMod ==
  ASSUME NEW d \in Nat \ {0}, NEW k \in Nat
  PROVE  (k * d) % d = 0
  OBVIOUS

LEMMA ModMultiple ==
  ASSUME NEW d \in Nat \ {0}, NEW x \in Nat, x % d = 0
  PROVE  \E k \in Nat : x = k * d
  <1>1. x = ((x \div d) * d) + (x % d) /\ x \div d \in Nat
    OBVIOUS
  <1>2. x = (x \div d) * d
    BY <1>1
  <1>. QED  BY <1>1, <1>2, Zenon

\* A multiple of d from 0 to 2 * d
LEMMA SmallMultiple ==
  ASSUME NEW d \in Nat \ {0}, NEW x \in 0 .. 2 * d, NEW k \in Nat, NEW q \in Nat,
         x + k * d = q * d
  PROVE  x \in {0, d, 2 * d}
  <1>. DEFINE c == q - k
  <1>1. c \in Int /\ x = c * d
    OBVIOUS
  <1>2. c >= 0
    BY <1>1
  <1>3. c <= 2
    BY <1>1
  <1>4. c \in {0, 1, 2}
    BY <1>1, <1>2, <1>3
  <1>. QED  BY <1>1, <1>4

\* The wrap-around of the carry takes MaxWord off, or nothing.
LEMMA WrappedValue ==
  ASSUME NEW s \in Words, NEW w \in Words
  PROVE  /\ Wrapped(s + w) \in Words
         /\ Wrapped(s + w) = s + w \/ Wrapped(s + w) + MaxWord = s + w
         /\ Wrapped(s + w) = 0 <=> s = 0 /\ w = 0
  <1>1. MaxWord \in Nat \ {0} /\ s \in 0 .. MaxWord /\ w \in 0 .. MaxWord
    BY TableAssumption DEF Words
  <1>2. CASE s + w > MaxWord
    <2>1. (s + w) \div (MaxWord + 1) = 1
      BY <1>1, <1>2
    <2>2. (s + w + 1) % (MaxWord + 1) = s + w - MaxWord
      BY <1>1, <1>2
    <2>3. Wrapped(s + w) = s + w - MaxWord
      BY <1>2, <2>1, <2>2 DEF Wrapped
    <2>. QED  BY <1>1, <1>2, <2>3 DEF Words
  <1>3. CASE ~(s + w > MaxWord)
    BY <1>1, <1>3 DEF Wrapped, Words
  <1>. QED  BY <1>2, <1>3

-----------------------------------------------------------------------------
\* Part: the records

\* The loop that counts goes on from q to a record behind it.
Follows(h, q) == q + 1 \in Mapped /\ Size(q) >= 1 /\ q + Size(q) < Extent(h)

\* Sets that hold the record behind each of their own
GoesOn(h, S) == \A q \in S : Follows(h, q) => q + Size(q) \in S

LEMMA ReachedLeast ==
  ASSUME NEW h
  PROVE  /\ Reached(h) \subseteq Table(h)
         /\ \A S \in SUBSET Table(h) : h + HEADER \in S /\ GoesOn(h, S) => Reached(h) \subseteq S
  <1>1. Reached(h) \subseteq Table(h)
    BY DEF Reached
  <1>2. ASSUME NEW S \in SUBSET Table(h), h + HEADER \in S, GoesOn(h, S), NEW r \in Reached(h)
        PROVE  r \in S
    <2>. QED  BY <1>2, Zenon DEF Reached, GoesOn, Follows
  <1>. QED  BY <1>1, <1>2

LEMMA SizesAreNat ==
  ASSUME Memory(mem)
  PROVE  /\ \A a \in Mapped : mem[a] \in Nat
         /\ \A r \in Nat : r + 1 \in Mapped => Size(r) \in Nat
  BY TableAssumption DEF Memory, Mapped, Words, Size

\* The lowest record is in, and the ones behind those that are in.
LEMMA ReachedCloses ==
  ASSUME NEW h \in Nat, Extent(h) \in Nat, Memory(mem)
  PROVE  /\ h + HEADER < Extent(h) => h + HEADER \in Reached(h)
         /\ GoesOn(h, Reached(h))
  <1>1. h + HEADER < Extent(h) => h + HEADER \in Table(h)
    BY DEF Table, HEADER
  <1>2. h + HEADER \in Table(h) => h + HEADER \in Reached(h)
    BY DEF Reached
  <1>3. ASSUME NEW q \in Reached(h), Follows(h, q)
        PROVE  q + Size(q) \in Reached(h)
    <2>0. q \in Table(h)
      BY <1>3, ReachedLeast
    <2>1. q \in Nat /\ q >= h + HEADER /\ Size(q) \in Nat
      BY <1>3, <2>0, SizesAreNat DEF Table, Follows, HEADER
    <2>2. q + Size(q) \in Table(h)
      BY <1>3, <2>1 DEF Table, HEADER, Follows
    <2>. QED  BY <1>3, <2>2, Zenon DEF Reached, Follows
  <1>. QED  BY <1>1, <1>2, <1>3 DEF GoesOn

\* Sums of addresses that do not wrap around
LEMMA PlusPlain ==
  ASSUME NEW p \in Nat, NEW n \in Nat, Base + p + n <= MaxWord
  PROVE  Plus(p, n) = p + n
  <1>1. Base + p + n \in 0 .. (MaxWord + 1) - 1 /\ MaxWord + 1 \in Nat \ {0}
    BY TableAssumption
  <1>2. (Base + p + n) % (MaxWord + 1) = Base + p + n
    <2>1. \A d \in Nat \ {0} : \A x \in 0 .. d - 1 : x % d = x
      OBVIOUS
    <2>. QED  BY <1>1, <2>1
  <1>. QED  BY <1>2, TableAssumption DEF Plus

-----------------------------------------------------------------------------
(***************************************************************************)
(* The inductive invariant.  Counting: the records behind the count are    *)
(* the reached ones below rec, and they fit.  Counted right: the candidate *)
(* whose words are added has the signature, and the records its header     *)
(* says, all mapped; of a table with a size that wraps around only the     *)
(* signature is known.  Summed: sum is the total of the words so far, but  *)
(* for multiples of MaxWord, and 0 only of zeros.  PassedOver: no          *)
(* candidate that was gone over is usable.  WalkRight: the records behind  *)
(* the walk are the reached ones below rec, and none of them is a          *)
(* mainboard.                                                              *)
(***************************************************************************)
Ones(from, to, s) ==
  /\ s \in Words
  /\ \E k \in Nat : Total(from, to) = s + k * MaxWord
  /\ s = 0 <=> \A a \in from .. to - 1 : mem[a] = 0

Plain(h) == Extent(h) <= MemSize /\ ~Wraps(h)

FitBelow(h, r) ==
  \A q \in Reached(h) : q < r => q + 1 \in Mapped /\ Size(q) >= 1 /\ q + Size(q) <= r

Lower(h, r) == {q \in Records(h) : q < r}

CountedTo(h, r, n) ==
  Plain(h) => /\ r \in Nat /\ (r \in Reached(h) \/ r >= Extent(h))
              /\ FitBelow(h, r) /\ n = Cardinality(Lower(h, r))
Counting ==
  phase = "count" =>
    Candidate(addr) /\ addr + HEADER <= MemSize /\ CountedTo(addr, rec, count)

CountedRight(a) ==
  /\ Candidate(a) /\ a + HEADER <= MemSize
  /\ Plain(a) => RightCount(a) /\ \A r \in Reached(a) : r + 1 \in Mapped

LbTyped ==
  /\ mem \in Memories
  /\ phase \in {"find", "count", "header", "table", "walk", "done", "undefined"}
  /\ addr \in Nat /\ addr % STEP = 0 /\ (addr < LowEnd \/ addr >= HighStart)
  /\ ret \in {0, -1} /\ (ret = -1 => phase = "done")
  /\ phase = "walk" \/ (phase = "done" /\ ret = 0) => head # NoName
  /\ head # NoName => head = addr /\ phase \in {"walk", "done", "undefined"} /\ ret = 0
  /\ named \in Nat \cup {NoName, Option} /\ (phase # "done" => named \in {NoName, Option})

Summing == phase \in {"header", "table"}
FirstWord == IF phase = "header" THEN addr ELSE addr + HEADER
Summed ==
  /\ Summing \/ head # NoName => CountedRight(addr)
  /\ Summing => pos \in FirstWord .. End /\ pos <= MemSize /\ Ones(FirstWord, pos, sum)
  /\ phase = "table" => Total(addr, addr + HEADER) % MaxWord = 0
  /\ head # NoName => Adds(addr) /\ Extent(addr) <= MemSize

PassedOver ==
  /\ phase # "done" \/ ret = 0 => \A a \in Candidates : a < addr => ~Usable(a)
  /\ phase = "done" /\ ret = -1 => \A a \in Candidates : ~Usable(a)

Walked(h, r) == FitBelow(h, r) /\ \A q \in Reached(h) : q < r => Tag(q) # LB_TAG_MAINBOARD
WalkRight ==
  (phase = "walk" /\ ~Wraps(addr)) =>
    /\ rec \in Nat /\ (rec \in Reached(addr) \/ rec >= Extent(addr))
    /\ next = rec \/ (rec = addr + HEADER /\ next = EndOf(rec))
    /\ rec + 1 \in Mapped \/ next = rec
    /\ Walked(addr, rec)

LbInv == LbTyped /\ Counting /\ Summed /\ PassedOver /\ WalkRight /\ NamedByTheTable

\* What is said of the memory alone stays as it is.
LEMMA SameTable ==
  ASSUME mem' = mem
  PROVE  /\ \A h : Table(h)' = Table(h) /\ Extent(h)' = Extent(h) /\ TableEnd(h)' = TableEnd(h)
         /\ \A q : Size(q)' = Size(q) /\ Tag(q)' = Tag(q) /\ EndOf(q)' = EndOf(q)
         /\ \A h : Candidate(h)' = Candidate(h) /\ table_entries(h)' = table_entries(h)
         /\ \A h : table_checksum(h)' = table_checksum(h) /\ header_bytes(h)' = header_bytes(h)
         /\ \A m, n : Total(m, n)' = Total(m, n)
  BY DEF Table, Extent, TableEnd, Plus, EndOf, table_bytes, Size, Tag, Candidate, header_bytes, table_entries,
         table_checksum, Total

LEMMA SameReached ==
  ASSUME mem' = mem, NEW h
  PROVE  Reached(h)' = Reached(h)
  <1>1. Table(h)' = Table(h) /\ Extent(h)' = Extent(h) /\ \A q : Size(q)' = Size(q)
    BY SameTable
  <1>2. ASSUME NEW S, NEW r
        PROVE  ((h + HEADER \in S /\ \A q \in S : Follows(h, q) => q + Size(q) \in S) => r \in S)'
                 <=> ((h + HEADER \in S /\ \A q \in S : Follows(h, q) => q + Size(q) \in S) => r \in S)
    BY <1>1 DEF Follows
  <1>. QED  BY <1>1, <1>2 DEF Reached, Follows

LEMMA SameMemory ==
  ASSUME mem' = mem
  PROVE  /\ \A h : Reached(h)' = Reached(h) /\ Records(h)' = Records(h)
         /\ \A h : CountedRight(h)' = CountedRight(h) /\ Adds(h)' = Adds(h)
         /\ \A h : Usable(h)' = Usable(h) /\ Wraps(h)' = Wraps(h) /\ RightCount(h)' = RightCount(h)
         /\ \A h, r : Walked(h, r)' = Walked(h, r)
         /\ \A h, r, n : CountedTo(h, r, n)' = CountedTo(h, r, n)
         /\ \A m, n, s : Ones(m, n, s)' = Ones(m, n, s)
  <1>1. \A h : Reached(h)' = Reached(h)
    BY SameReached
  <1>2. \A h : Records(h)' = Records(h)
    BY <1>1, SameTable DEF Records
  <1>3. \A h : Wraps(h)' = Wraps(h) /\ Plain(h)' = Plain(h)
    BY <1>1, SameTable DEF Wraps, Plain
  <1>4. \A h : Adds(h)' = Adds(h) /\ RightCount(h)' = RightCount(h)
    BY <1>2, SameTable DEF Adds, RightCount
  <1>5. \A h : (\A r \in Reached(h) : r + 1 \in Mapped)' <=> \A r \in Reached(h) : r + 1 \in Mapped
    BY <1>1
  <1>6. \A h : CountedRight(h)' = CountedRight(h)
    BY <1>3, <1>4, <1>5, SameTable DEF CountedRight
  <1>7. \A h : WithinMapping(h)' <=> WithinMapping(h)
    BY <1>5, SameTable DEF WithinMapping
  <1>8. \A h : OtherZero(h)' <=> OtherZero(h)
    BY SameTable DEF OtherZero
  <1>9. \A h : Usable(h)' = Usable(h)
    BY <1>3, <1>4, <1>7, <1>8, SameTable DEF Usable
  <1>10. \A h, r : FitBelow(h, r)' = FitBelow(h, r)
    BY <1>1, SameTable DEF FitBelow
  <1>11. \A h, r : Walked(h, r)' = Walked(h, r)
    BY <1>1, <1>10, SameTable DEF Walked
  <1>12. \A h, r : Lower(h, r)' = Lower(h, r)
    BY <1>2 DEF Lower
  <1>13. \A h, r, n : CountedTo(h, r, n)' = CountedTo(h, r, n)
    BY <1>1, <1>3, <1>10, <1>12, SameTable DEF CountedTo
  <1>14. \A m, n, s : Ones(m, n, s)' = Ones(m, n, s)
    BY SameTable DEF Ones
  <1>. QED  BY <1>1, <1>2, <1>3, <1>4, <1>6, <1>9, <1>11, <1>13, <1>14

-----------------------------------------------------------------------------
\* Part: what the tests of a candidate find

LEMMA MemoriesAreMemory ==
  ASSUME LbTyped
  PROVE  Memory(mem)
  BY MemoriesAssumption DEF LbTyped, Memory

\* The fields of a header that is mapped
LEMMA Fields ==
  ASSUME Memory(mem), NEW a \in Nat, a + HEADER <= MemSize
  PROVE  /\ a \in Mapped
         /\ table_bytes(a) \in Nat /\ table_checksum(a) \in Words /\ table_entries(a) \in Words
         /\ Extent(a) \in Nat /\ a + HEADER <= Extent(a)
  <1>1. /\ a \in Mapped /\ a + 1 \in Mapped /\ a + 3 \in Mapped /\ a + 4 \in Mapped /\ a + 5 \in Mapped
    BY TableAssumption DEF Mapped, HEADER
  <1>2. mem[a + 3] \in Words /\ mem[a + 4] \in Words /\ mem[a + 5] \in Words
    BY <1>1 DEF Memory
  <1>3. table_bytes(a) \in Nat
    BY <1>2, TableAssumption DEF table_bytes, Words
  <1>. QED  BY <1>1, <1>2, <1>3 DEF table_checksum, table_entries, Extent, HEADER

\* No machine sum of a plain table wraps around.
LEMMA PlainTable ==
  ASSUME Memory(mem), NEW a \in Nat, a + HEADER <= MemSize
  PROVE  /\ Extent(a) <= MemSize => TableEnd(a) = Extent(a)
         /\ \A r \in Reached(a) : r \in Nat /\ r < Extent(a)
         /\ \A r \in Reached(a) : ~Wraps(a) /\ r + 1 \in Mapped =>
              Size(r) \in Nat /\ EndOf(r) = r + Size(r)
  <1>1. table_bytes(a) \in Nat /\ a + HEADER \in Nat /\ Extent(a) \in Nat
    BY Fields DEF HEADER
  <1>2. Extent(a) <= MemSize => TableEnd(a) = Extent(a)
    <2>. SUFFICES ASSUME Extent(a) <= MemSize PROVE TableEnd(a) = Extent(a)
      OBVIOUS
    <2>1. Base + (a + HEADER) + table_bytes(a) <= MaxWord
      BY <1>1, TableAssumption DEF Extent
    <2>. QED  BY <1>1, <2>1, PlusPlain DEF TableEnd, Extent
  <1>3. \A r \in Reached(a) : r \in Nat /\ r < Extent(a)
    BY <1>1, ReachedLeast DEF Table
  <1>4. ASSUME NEW r \in Reached(a), ~Wraps(a), r + 1 \in Mapped
        PROVE  Size(r) \in Nat /\ EndOf(r) = r + Size(r)
    <2>1. r \in Nat /\ Size(r) \in Nat
      BY <1>3, <1>4, SizesAreNat
    <2>2. Base + r + Size(r) <= MaxWord
      BY <1>4, <2>1, TableAssumption DEF Wraps
    <2>. QED  BY <2>1, <2>2, PlusPlain DEF EndOf
  <1>. QED  BY <1>2, <1>3, <1>4

\* No record is reached inside of the one count or walk is at.
LEMMA NoneInside ==
  ASSUME Memory(mem), NEW h \in Nat, Extent(h) \in Nat, Reached(h) \subseteq Nat,
         NEW r \in Reached(h), FitBelow(h, r), r + 1 \in Mapped
  PROVE  /\ \A q \in Reached(h) : q <= r \/ q >= r + Size(r)
         /\ ~Follows(h, r) => \A q \in Reached(h) : q <= r
  <1>. DEFINE S == {q \in Reached(h) : q <= r \/ (Follows(h, r) /\ q >= r + Size(r))}
  <1>1. h + HEADER \in S
    <2>1. h + HEADER \in Reached(h) /\ h + HEADER <= r
      BY ReachedLeast, ReachedCloses DEF Table, HEADER
    <2>. QED  BY <2>1
  <1>2. GoesOn(h, S)
    <2>. SUFFICES ASSUME NEW q \in S, Follows(h, q) PROVE q + Size(q) \in S
      BY DEF GoesOn
    <2>1. q + Size(q) \in Reached(h)
      BY ReachedCloses DEF GoesOn
    <2>2. CASE q < r
      <3>1. q + Size(q) <= r
        BY <2>2 DEF FitBelow
      <3>. QED  BY <2>1, <3>1
    <2>3. CASE q = r
      <3>1. r + Size(r) >= r + Size(r)
        BY SizesAreNat
      <3>. QED  BY <2>1, <2>3, <3>1
    <2>4. CASE q > r
      <3>1. q + Size(q) >= r + Size(r) /\ Follows(h, r)
        BY <2>4, SizesAreNat DEF Follows
      <3>. QED  BY <2>1, <3>1
    <2>. QED  BY <2>2, <2>3, <2>4
  <1>3. S \in SUBSET Table(h)
    BY ReachedLeast
  <1>4. Reached(h) \subseteq S
    BY <1>1, <1>2, <1>3, ReachedLeast
  <1>. QED  BY <1>4

\* A table has no more records than the memory has words.
LEMMA FewRecords ==
  ASSUME NEW h, Reached(h) \subseteq 0 .. MemSize - 1, NEW S, S \subseteq Records(h)
  PROVE  IsFiniteSet(S) /\ Cardinality(S) \in 0 .. MemSize
  <1>1. S \subseteq 0 .. MemSize - 1
    BY DEF Records
  <1>2. IsFiniteSet(0 .. MemSize - 1) /\ Cardinality(0 .. MemSize - 1) = MemSize
    <2>1. MemSize \in Nat /\ 0 \in Int /\ MemSize - 1 \in Int
      BY TableAssumption
    <2>2. /\ IsFiniteSet(0 .. MemSize - 1)
          /\ Cardinality(0 .. MemSize - 1) = IF 0 > MemSize - 1 THEN 0 ELSE (MemSize - 1) - 0 + 1
      BY <2>1, FS_Interval
    <2>. QED  BY <2>1, <2>2
  <1>3. IsFiniteSet(S) /\ Cardinality(S) <= MemSize
    BY <1>1, <1>2, FS_Subset
  <1>. QED  BY <1>3, FS_CardinalityType, TableAssumption

\* At the first record nothing is counted yet.
LEMMA NothingCounted ==
  ASSUME Memory(mem), NEW a \in Nat, a + HEADER <= MemSize
  PROVE  CountedTo(a, a + HEADER, 0)
  <1>1. /\ Extent(a) \in Nat /\ a + HEADER \in Nat
        /\ a + HEADER \in Reached(a) \/ a + HEADER >= Extent(a)
    BY Fields, ReachedCloses DEF HEADER
  <1>2. \A q \in Reached(a) : ~(q < a + HEADER)
    BY <1>1, ReachedLeast DEF Table
  <1>3. Lower(a, a + HEADER) = {}
    BY <1>2 DEF Lower, Records
  <1>4. Cardinality({}) = 0
    BY FS_EmptySet
  <1>. QED  BY <1>1, <1>2, <1>3, <1>4 DEF CountedTo, FitBelow

\* A record that fits is counted, once.
LEMMA OneCounted ==
  ASSUME Memory(mem), NEW a \in Nat, a + HEADER <= MemSize, NEW r, NEW n, CountedTo(a, r, n),
         r < TableEnd(a), r + 1 \in Mapped, Fits(a, r)
  PROVE  CountedTo(a, EndOf(r), (n + 1) % (MaxWord + 1))
  <1>. SUFFICES ASSUME Plain(a)
                PROVE  /\ EndOf(r) \in Nat /\ (EndOf(r) \in Reached(a) \/ EndOf(r) >= Extent(a))
                       /\ FitBelow(a, EndOf(r))
                       /\ (n + 1) % (MaxWord + 1) = Cardinality(Lower(a, EndOf(r)))
    BY DEF CountedTo
  <1>1. /\ r \in Nat /\ r \in Reached(a) /\ FitBelow(a, r) /\ n = Cardinality(Lower(a, r))
        /\ Extent(a) \in Nat /\ TableEnd(a) = Extent(a) /\ Extent(a) <= MemSize
    BY Fields, PlainTable DEF CountedTo, Plain
  <1>2. Size(r) \in Nat /\ EndOf(r) = r + Size(r) /\ Size(r) >= 1 /\ r + Size(r) <= Extent(a)
    BY <1>1, PlainTable DEF Plain, Fits
  <1>3. Reached(a) \subseteq Nat /\ Reached(a) \subseteq 0 .. MemSize - 1
    <2>1. \A q \in Reached(a) : q \in Nat /\ q < Extent(a)
      BY PlainTable
    <2>2. MemSize \in Nat
      BY TableAssumption
    <2>3. \A q \in Reached(a) : q \in 0 .. MemSize - 1
      BY <1>1, <2>1, <2>2
    <2>. QED  BY <2>1, <2>3
  <1>4. \A q \in Reached(a) : q <= r \/ q >= r + Size(r)
    BY <1>1, <1>3, NoneInside
  <1>5. EndOf(r) \in Reached(a) \/ EndOf(r) >= Extent(a)
    <2>1. CASE Follows(a, r)
      BY <1>1, <1>2, <2>1, ReachedCloses DEF GoesOn
    <2>2. CASE ~Follows(a, r)
      BY <1>1, <1>2, <2>2 DEF Follows
    <2>. QED  BY <2>1, <2>2
  <1>6. FitBelow(a, r + Size(r))
    <2>. SUFFICES ASSUME NEW q \in Reached(a), q < r + Size(r)
                  PROVE  q + 1 \in Mapped /\ Size(q) >= 1 /\ q + Size(q) <= r + Size(r)
      BY DEF FitBelow
    <2>1. q \in Nat /\ (q < r \/ q = r)
      BY <1>1, <1>2, <1>3, <1>4
    <2>2. CASE q < r
      <3>1. q + 1 \in Mapped /\ Size(q) >= 1 /\ q + Size(q) <= r /\ Size(q) \in Nat
        BY <1>1, <2>1, <2>2, SizesAreNat DEF FitBelow
      <3>. QED  BY <1>1, <1>2, <2>1, <3>1
    <2>3. CASE q = r
      BY <1>1, <1>2, <2>3
    <2>. QED  BY <2>1, <2>2, <2>3
  <1>7. Lower(a, r + Size(r)) = Lower(a, r) \cup {r} /\ r \notin Lower(a, r)
    <2>1. Records(a) \subseteq Reached(a) /\ r \in Records(a)
      BY <1>1, <1>2 DEF Records
    <2>2. \A q \in Reached(a) : q < r + Size(r) <=> q < r \/ q = r
      BY <1>1, <1>2, <1>3, <1>4
    <2>3. ~(r < r)
      BY <1>1
    <2>. QED  BY <2>1, <2>2, <2>3 DEF Lower
  <1>8. /\ IsFiniteSet(Lower(a, r)) /\ n \in 0 .. MemSize
        /\ Cardinality(Lower(a, r + Size(r))) \in 0 .. MemSize
    <2>1. Lower(a, r) \subseteq Records(a) /\ Lower(a, r + Size(r)) \subseteq Records(a)
      BY DEF Lower
    <2>. QED  BY <1>1, <1>3, <2>1, FewRecords
  <1>9. Cardinality(Lower(a, r + Size(r))) = n + 1
    BY <1>1, <1>7, <1>8, FS_AddElement
  <1>10. (n + 1) % (MaxWord + 1) = n + 1
    <2>1. \A d \in Nat \ {0} : \A x \in 0 .. d - 1 : x % d = x
      OBVIOUS
    <2>2. MaxWord + 1 \in Nat \ {0} /\ n + 1 \in 0 .. (MaxWord + 1) - 1
      BY <1>8, <1>9, TableAssumption
    <2>. QED  BY <2>1, <2>2
  <1>. QED  BY <1>1, <1>2, <1>5, <1>6, <1>9, <1>10

\* Where the count ends, it has counted the records of a plain table.
LEMMA AllCounted ==
  ASSUME Memory(mem), NEW a \in Nat, a + HEADER <= MemSize, NEW r, NEW n, CountedTo(a, r, n),
         r >= TableEnd(a) \/ (r + 1 \in Mapped /\ ~Fits(a, r)), Plain(a)
  PROVE  n = Cardinality(Records(a)) /\ \A q \in Reached(a) : q + 1 \in Mapped
  <1>1. /\ r \in Nat /\ (r \in Reached(a) \/ r >= Extent(a)) /\ FitBelow(a, r)
        /\ n = Cardinality(Lower(a, r))
        /\ Extent(a) \in Nat /\ TableEnd(a) = Extent(a)
    BY Fields, PlainTable DEF CountedTo, Plain
  <1>2. \A q \in Reached(a) : q \in Nat /\ q < Extent(a)
    BY PlainTable
  <1>3. Records(a) \subseteq Reached(a)
    BY DEF Records
  <1>4. CASE r >= Extent(a)
    <2>1. \A q \in Reached(a) : q < r
      BY <1>1, <1>2, <1>4
    <2>2. Lower(a, r) = Records(a)
      BY <1>3, <2>1 DEF Lower
    <2>. QED  BY <1>1, <2>1, <2>2 DEF FitBelow
  <1>5. CASE ~(r >= Extent(a))
    <2>1. r \in Reached(a) /\ r + 1 \in Mapped /\ ~Fits(a, r)
      BY <1>1, <1>5
    <2>2. Size(r) \in Nat /\ ~(Size(r) >= 1 /\ r + Size(r) <= Extent(a))
      BY <1>1, <2>1, PlainTable DEF Plain, Fits
    <2>3. ~Follows(a, r) /\ r \notin Records(a)
      BY <1>1, <2>2 DEF Follows, Records
    <2>4. \A q \in Reached(a) : q <= r
      <3>1. Reached(a) \subseteq Nat
        BY <1>2
      <3>. QED  BY <1>1, <2>1, <2>3, <3>1, NoneInside
    <2>5. \A q \in Reached(a) : q < r \/ q = r
      BY <1>1, <1>2, <2>4
    <2>6. Lower(a, r) = Records(a)
      BY <1>3, <2>3, <2>5 DEF Lower
    <2>. QED  BY <1>1, <2>1, <2>5, <2>6 DEF FitBelow
  <1>. QED  BY <1>4, <1>5

LEMMA NothingSummed ==
  ASSUME Memory(mem), NEW a \in Nat, a <= MemSize
  PROVE  Ones(a, a, 0)
  <1>1. Total(a, a) = 0
    <2>1. a <= a
      OBVIOUS
    <2>2. a <= MemSize /\ Memory(mem)
      OBVIOUS
    <2>. QED  BY <2>1, <2>2, TotalRule, Zenon
  <1>2. 0 \in Words /\ 0 = 0 + 0 * MaxWord
    BY TableAssumption DEF Words
  <1>3. a .. a - 1 = {}
    OBVIOUS
  <1>. QED  BY <1>1, <1>2, <1>3 DEF Ones

\* One word more
LEMMA OneSummed ==
  ASSUME Memory(mem), NEW a \in Nat, NEW b \in Nat, a <= b, b < MemSize, NEW s,
         Ones(a, b, s)
  PROVE  Ones(a, b + 1, Wrapped(s + mem[b]))
  <1>1. s \in Words /\ mem[b] \in Words /\ MaxWord \in Nat \ {0}
    BY TableAssumption DEF Ones, Memory, Mapped
  <1>. DEFINE t == Wrapped(s + mem[b])
  <1>2. t \in Words /\ (t = s + mem[b] \/ t + MaxWord = s + mem[b]) /\ (t = 0 <=> s = 0 /\ mem[b] = 0)
    BY <1>1, WrappedValue
  <1>. HIDE DEF t
  <1>3. Total(a, b + 1) = Total(a, b) + mem[b]
    <2>1. b <= MemSize
      BY TableAssumption
    <2>. QED  BY <2>1, TotalRule
  <1>4. PICK k \in Nat : Total(a, b) = s + k * MaxWord
    BY DEF Ones
  <1>5. s \in Nat /\ t \in Nat /\ mem[b] \in Nat
    BY <1>1, <1>2, TableAssumption DEF Words
  <1>6. Total(a, b + 1) = t + k * MaxWord \/ Total(a, b + 1) = t + (k + 1) * MaxWord
    BY <1>1, <1>2, <1>3, <1>4, <1>5
  <1>7. \E j \in Nat : Total(a, b + 1) = t + j * MaxWord
    BY <1>4, <1>6
  <1>8. t = 0 <=> \A x \in a .. (b + 1) - 1 : mem[x] = 0
    <2>1. \A x : x \in a .. (b + 1) - 1 <=> x \in a .. b - 1 \/ x = b
      OBVIOUS
    <2>2. s = 0 <=> \A x \in a .. b - 1 : mem[x] = 0
      BY DEF Ones
    <2>. QED  BY <1>2, <2>1, <2>2
  <1>. QED  BY <1>2, <1>7, <1>8 DEF Ones, t

LEMMA TotalOfOnes ==
  ASSUME NEW a, NEW b, NEW s, Ones(a, b, s)
  PROVE  /\ s \in 0 .. MaxWord /\ MaxWord \in Nat \ {0}
         /\ \E k \in Nat : Total(a, b) = s + k * MaxWord
         /\ Total(a, b) \in Nat
  BY TableAssumption DEF Ones, Words

\* compute_checksum of the header is 0: its words are a multiple of MaxWord.
LEMMA HeaderAddsUp ==
  ASSUME NEW a \in Nat, NEW s, Ones(a, a + HEADER, s), MaxWord - s = 0
  PROVE  Total(a, a + HEADER) % MaxWord = 0
  <1>1. PICK k \in Nat : Total(a, a + HEADER) = s + k * MaxWord
    BY TotalOfOnes
  <1>2. s = MaxWord /\ MaxWord \in Nat \ {0}
    BY TotalOfOnes
  <1>3. Total(a, a + HEADER) = (k + 1) * MaxWord
    BY <1>1, <1>2
  <1>. QED  BY <1>2, <1>3, MultipleMod

LEMMA HeaderUnusable ==
  ASSUME NEW a \in Nat, NEW s, Ones(a, a + HEADER, s), MaxWord - s # 0
  PROVE  ~Usable(a)
  <1>. SUFFICES ASSUME Usable(a) PROVE FALSE
    OBVIOUS
  <1>1. header_bytes(a) = HEADER /\ Total(a, a + HEADER) % MaxWord = 0
    BY DEF Usable, Adds
  <1>2. s # 0
    <2>1. a + 1 \in a .. (a + HEADER) - 1 /\ mem[a + 1] # 0
      BY <1>1 DEF header_bytes, HEADER
    <2>. QED  BY <2>1 DEF Ones
  <1>3. PICK k \in Nat : Total(a, a + HEADER) = s + k * MaxWord
    BY TotalOfOnes
  <1>4. PICK q \in Nat : Total(a, a + HEADER) = q * MaxWord
    BY <1>1, TotalOfOnes, ModMultiple
  <1>5. s \in 0 .. 2 * MaxWord /\ s < MaxWord
    BY TotalOfOnes
  <1>6. s \in {0, MaxWord, 2 * MaxWord}
    BY <1>3, <1>4, <1>5, TotalOfOnes, SmallMultiple
  <1>. QED  BY <1>2, <1>5, <1>6, TotalOfOnes

\* compute_checksum of the table is its checksum: with it, the words are a
\* multiple of MaxWord; and what it takes for wrong is not usable.
LEMMA TableAddsUp ==
  ASSUME NEW a, NEW b, NEW s, Ones(a, b, s), NEW c, MaxWord - s = c
  PROVE  (Total(a, b) + c) % MaxWord = 0
  <1>1. PICK k \in Nat : Total(a, b) = s + k * MaxWord
    BY TotalOfOnes
  <1>2. s \in Nat /\ MaxWord \in Nat \ {0}
    BY TotalOfOnes
  <1>3. Total(a, b) + c = (k + 1) * MaxWord
    BY <1>1, <1>2
  <1>. QED  BY <1>2, <1>3, MultipleMod

LEMMA TableUnusable ==
  ASSUME Memory(mem), NEW a \in Nat, a + HEADER <= MemSize, NEW s,
         Ones(a + HEADER, Extent(a), s), MaxWord - s # table_checksum(a)
  PROVE  ~Usable(a)
  <1>. DEFINE c == table_checksum(a)
              T == Total(a + HEADER, Extent(a))
  <1>. SUFFICES ASSUME Usable(a) PROVE FALSE
    OBVIOUS
  <1>1. (T + c) % MaxWord = 0 /\ ~OtherZero(a)
    BY DEF Usable, Adds
  <1>2. PICK k \in Nat : T = s + k * MaxWord
    BY TotalOfOnes
  <1>3. /\ MaxWord \in Nat \ {0} /\ s \in 0 .. MaxWord /\ c \in 0 .. MaxWord /\ T \in Nat
        /\ MaxWord - s # c
    BY Fields, TotalOfOnes DEF Words
  <1>4. s = 0 <=> \A x \in Table(a) : mem[x] = 0
    BY DEF Ones, Table
  <1>5. ~(c = IF \A x \in Table(a) : mem[x] = 0 THEN 0 ELSE MaxWord)
    BY <1>1 DEF OtherZero
  <1>. HIDE DEF T, c
  <1>6. PICK q \in Nat : T + c = q * MaxWord
    <2>1. T + c \in Nat
      BY <1>3
    <2>. QED  BY <1>1, <1>3, <2>1, ModMultiple
  <1>7. (s + c) + k * MaxWord = q * MaxWord
    BY <1>2, <1>3, <1>6
  <1>8. s + c \in 0 .. 2 * MaxWord
    BY <1>3
  <1>9. s + c \in {0, MaxWord, 2 * MaxWord}
    BY <1>3, <1>7, <1>8, SmallMultiple
  <1>10. CASE s + c = 0
    BY <1>3, <1>4, <1>5, <1>10
  <1>11. CASE s + c = MaxWord
    BY <1>3, <1>11
  <1>12. CASE s + c = 2 * MaxWord
    <2>1. s = MaxWord /\ c = MaxWord /\ s # 0
      BY <1>3, <1>12
    <2>. QED  BY <1>4, <1>5, <2>1
  <1>. QED  BY <1>9, <1>10, <1>11, <1>12

-----------------------------------------------------------------------------
\* Part: each step keeps the invariant

\* The next candidate is the next one: nothing between them is a candidate.
LEMMA NextCandidate ==
  ASSUME LbTyped, phase \in {"find", "count", "header", "table"}, GoToNext,
         PassedOver, ~Usable(addr)
  PROVE  LbTyped' /\ PassedOver'
  <1>1. /\ mem' = mem /\ head' = head /\ named' = named /\ ret' = ret /\ phase' = "find"
        /\ addr' = IF addr < LowEnd /\ addr + STEP >= LowEnd THEN HighStart ELSE addr + STEP
    BY DEF GoToNext
  <1>2. /\ addr \in Nat /\ addr % 4 = 0 /\ (addr < LowEnd \/ addr >= HighStart)
        /\ ret = 0 /\ head = NoName
    BY DEF LbTyped, STEP
  <1>3. LowEnd \in Nat /\ HighStart \in Nat /\ HighStart % 4 = 0 /\ LowEnd <= HighStart
    BY TableAssumption DEF STEP
  <1>4. addr' \in Nat /\ addr' % STEP = 0 /\ (addr' < LowEnd \/ addr' >= HighStart)
    BY <1>1, <1>2, <1>3 DEF STEP
  <1>5. LbTyped'
    BY <1>1, <1>2, <1>4 DEF LbTyped
  <1>6. ASSUME NEW a \in Candidates, a < addr' PROVE a <= addr
    <2>1. a \in Nat /\ a % 4 = 0 /\ (a < LowEnd \/ a >= HighStart)
      BY TableAssumption DEF Candidates, Mapped, STEP
    <2>2. CASE addr < LowEnd /\ addr + 4 >= LowEnd
      BY <1>1, <1>2, <1>3, <1>6, <2>1, <2>2 DEF STEP
    <2>3. CASE ~(addr < LowEnd /\ addr + 4 >= LowEnd)
      BY <1>1, <1>2, <1>3, <1>6, <2>1, <2>3 DEF STEP
    <2>. QED  BY <2>2, <2>3
  <1>7. ASSUME NEW a \in Candidates, a < addr' PROVE ~Usable(a)'
    <2>1. a < addr \/ a = addr
      BY <1>2, <1>6, <1>7, TableAssumption DEF Candidates, Mapped
    <2>2. ~Usable(a)
      BY <1>2, <2>1 DEF PassedOver
    <2>. QED  BY <1>1, <2>2, SameMemory
  <1>. QED  BY <1>1, <1>5, <1>7 DEF PassedOver

\* A candidate is gone over only when it is not usable.
LEMMA GoesToNext ==
  ASSUME LbInv, phase \in {"find", "count", "header", "table"}, GoToNext, ~Usable(addr)
  PROVE  LbInv'
  <1>1. phase' = "find" /\ head' = head
    BY DEF GoToNext
  <1>2. LbTyped' /\ PassedOver'
    BY NextCandidate DEF LbInv
  <1>3. head' = NoName
    BY <1>1 DEF LbInv, LbTyped
  <1>. QED  BY <1>1, <1>2, <1>3 DEF LbInv, Counting, Summed, Summing, WalkRight, NamedByTheTable

LEMMA SkipKeeps ==
  ASSUME LbInv, Skip
  PROVE  LbInv'
  <1>1. ~Usable(addr)
    BY DEF Skip, Usable, Candidate
  <1>. QED  BY <1>1, GoesToNext DEF Skip

LEMMA MiscountedKeeps ==
  ASSUME LbInv, Miscounted
  PROVE  LbInv'
  <1>1. phase = "count" /\ count # table_entries(addr) /\ GoToNext
        /\ (rec >= TableEnd(addr) \/ (rec + 1 \in Mapped /\ ~Fits(addr, rec)))
    BY DEF Miscounted, CountEnds
  <1>2. Memory(mem) /\ addr \in Nat /\ addr + HEADER <= MemSize /\ CountedTo(addr, rec, count)
    BY <1>1, MemoriesAreMemory DEF LbInv, LbTyped, Counting
  <1>3. ~Usable(addr)
    <2>1. Usable(addr) => Plain(addr) /\ Cardinality(Records(addr)) = table_entries(addr)
      BY DEF Usable, WithinMapping, Plain, RightCount
    <2>. QED  BY <1>1, <1>2, <2>1, AllCounted
  <1>. QED  BY <1>1, <1>3, GoesToNext

LEMMA CountKeeps ==
  ASSUME LbInv, BeginCount \/ CountOne
  PROVE  LbInv'
  <1>1. /\ phase \in {"find", "count"} /\ phase' = "count"
        /\ UNCHANGED <<mem, addr, head, named, ret>>
    BY DEF BeginCount, CountOne
  <1>2. Memory(mem) /\ addr \in Nat /\ head = NoName /\ head' = NoName
    BY <1>1, MemoriesAreMemory DEF LbInv, LbTyped
  <1>3. /\ Candidate(addr) /\ addr + HEADER <= MemSize /\ CountedTo(addr, rec', count')
    <2>1. CASE BeginCount
      BY <1>2, <2>1, NothingCounted DEF BeginCount
    <2>2. CASE CountOne
      <3>1. /\ Candidate(addr) /\ addr + HEADER <= MemSize /\ CountedTo(addr, rec, count)
        BY <2>2 DEF CountOne, LbInv, Counting
      <3>2. /\ rec < TableEnd(addr) /\ rec + 1 \in Mapped /\ Fits(addr, rec)
            /\ rec' = EndOf(rec) /\ count' = (count + 1) % (MaxWord + 1)
        BY <2>2 DEF CountOne
      <3>. QED  BY <1>2, <3>1, <3>2, OneCounted
    <2>. QED  BY <2>1, <2>2
  <1>4. Counting'
    <2>1. \A h, q, n : h = addr' /\ q = rec' /\ n = count' /\ CountedTo(h, q, n)
                        => CountedTo(addr, rec, count)'
      BY <1>1, SameMemory
    <2>. QED  BY <1>1, <1>3, <2>1, SameTable DEF Counting
  <1>5. LbTyped'
    BY <1>1, <1>2 DEF LbInv, LbTyped
  <1>6. PassedOver'
    BY <1>1, SameMemory DEF LbInv, PassedOver
  <1>. QED  BY <1>1, <1>2, <1>4, <1>5, <1>6 DEF LbInv, Summed, Summing, WalkRight, NamedByTheTable

LEMMA CountedKeeps ==
  ASSUME LbInv, Counted
  PROVE  LbInv'
  <1>1. /\ phase = "count" /\ phase' = "header" /\ pos' = addr /\ sum' = 0
        /\ UNCHANGED <<mem, addr, head, named, ret>>
        /\ count = table_entries(addr)
        /\ rec >= TableEnd(addr) \/ (rec + 1 \in Mapped /\ ~Fits(addr, rec))
    BY DEF Counted, CountEnds, BeginSum
  <1>2. Memory(mem) /\ addr \in Nat /\ Candidate(addr) /\ addr + HEADER <= MemSize
        /\ CountedTo(addr, rec, count)
    BY <1>1, MemoriesAreMemory DEF LbInv, LbTyped, Counting
  <1>3. CountedRight(addr) /\ addr + HEADER <= MemSize
    BY <1>1, <1>2, AllCounted DEF CountedRight, RightCount
  <1>4. head = NoName /\ head' = NoName
    BY <1>1 DEF LbInv, LbTyped
  <1>5. LbTyped'
    BY <1>1, <1>4 DEF LbInv, LbTyped
  <1>6. addr <= MemSize /\ addr \in addr .. addr + HEADER
    BY <1>2, <1>3, TableAssumption DEF HEADER
  <1>7. Ones(addr, addr, 0)
    BY <1>2, <1>6, NothingSummed
  <1>8. Summed'
    <2>1. CountedRight(addr)'
      BY <1>1, <1>3, SameMemory
    <2>2. Ones(addr, addr, 0)'
      BY <1>1, <1>7, SameMemory
    <2>. QED  BY <1>1, <1>4, <1>6, <2>1, <2>2 DEF Summed, Summing, FirstWord, End
  <1>9. PassedOver'
    BY <1>1, SameMemory DEF LbInv, PassedOver
  <1>. QED  BY <1>1, <1>4, <1>5, <1>8, <1>9 DEF LbInv, Counting, WalkRight, NamedByTheTable

LEMMA AddKeeps ==
  ASSUME LbInv, Add
  PROVE  LbInv'
  <1>1. /\ Summing /\ pos < End /\ pos \in Mapped /\ sum' = Wrapped(sum + mem[pos]) /\ pos' = pos + 1
        /\ UNCHANGED <<mem, phase, addr, head, named, ret>>
    BY DEF Add, Summing
  <1>2. /\ Memory(mem) /\ addr \in Nat /\ head = NoName /\ CountedRight(addr)
        /\ pos \in FirstWord .. End /\ Ones(FirstWord, pos, sum)
        /\ phase = "table" => Total(addr, addr + HEADER) % MaxWord = 0
    BY <1>1, MemoriesAreMemory DEF LbInv, LbTyped, Summed, Summing
  <1>3. LbTyped'
    BY <1>1 DEF LbInv, LbTyped
  <1>4. /\ FirstWord \in Nat /\ End \in Int /\ pos \in Nat /\ pos < MemSize /\ FirstWord <= pos
        /\ pos + 1 \in FirstWord .. End /\ pos + 1 <= MemSize
    <2>1. Extent(addr) \in Nat
      BY <1>2, Fields DEF CountedRight
    <2>2. FirstWord \in Nat /\ End \in Int
      BY <1>2, <2>1 DEF FirstWord, End, HEADER
    <2>3. pos \in Nat /\ pos < MemSize /\ MemSize \in Nat
      BY <1>1, TableAssumption DEF Mapped
    <2>. QED  BY <1>1, <1>2, <2>2, <2>3
  <1>5. Ones(FirstWord, pos + 1, Wrapped(sum + mem[pos]))
    BY <1>2, <1>4, OneSummed
  <1>6. FirstWord' = FirstWord /\ End' = End
    BY <1>1, SameTable DEF FirstWord, End
  <1>7. Ones(FirstWord, pos, sum)'
    <2>1. \A m, n, t : Ones(m, n, t)' = Ones(m, n, t)
      BY <1>1, SameMemory
    <2>2. \A m, n, t : m = FirstWord' /\ n = pos' /\ t = sum' /\ Ones(m, n, t) => Ones(FirstWord, pos, sum)'
      BY <2>1
    <2>. QED  BY <1>1, <1>5, <1>6, <2>2
  <1>8. Summed'
    BY <1>1, <1>2, <1>4, <1>6, <1>7, SameMemory, SameTable DEF Summed, Summing
  <1>9. PassedOver' /\ Counting' /\ WalkRight' /\ NamedByTheTable'
    BY <1>1, <1>2, SameMemory DEF LbInv, PassedOver, Counting, WalkRight, NamedByTheTable, Summing
  <1>. QED  BY <1>3, <1>8, <1>9 DEF LbInv

LEMMA HeaderRightKeeps ==
  ASSUME LbInv, HeaderRight
  PROVE  LbInv'
  <1>1. /\ phase = "header" /\ phase' = "table" /\ pos = End /\ MaxWord - sum = 0
        /\ pos' = addr + HEADER /\ sum' = 0
        /\ UNCHANGED <<mem, addr, head, named, ret>>
    BY DEF HeaderRight, BeginSum, Result
  <1>2. /\ Memory(mem) /\ addr \in Nat /\ head = NoName /\ CountedRight(addr)
        /\ addr + HEADER <= MemSize /\ Ones(addr, addr + HEADER, sum)
    BY <1>1, MemoriesAreMemory DEF LbInv, LbTyped, Summed, Summing, FirstWord, End, CountedRight
  <1>3. LbTyped'
    BY <1>1, <1>2 DEF LbInv, LbTyped
  <1>4. Total(addr, addr + HEADER) % MaxWord = 0
    BY <1>1, <1>2, HeaderAddsUp
  <1>5. addr + HEADER \in Nat /\ addr + HEADER <= Extent(addr) /\ Extent(addr) \in Nat
    BY <1>2, Fields DEF HEADER
  <1>6. Ones(addr + HEADER, addr + HEADER, 0)
    BY <1>2, <1>5, NothingSummed
  <1>7. Summed'
    <2>1. FirstWord' = addr + HEADER /\ End' = Extent(addr)
      BY <1>1, SameTable DEF FirstWord, End
    <2>2. Ones(FirstWord, pos, sum)'
      <3>1. \A m, n, t : Ones(m, n, t)' = Ones(m, n, t)
        BY <1>1, SameMemory
      <3>2. \A m, n, t : m = FirstWord' /\ n = pos' /\ t = sum' /\ Ones(m, n, t) => Ones(FirstWord, pos, sum)'
        BY <3>1
      <3>. QED  BY <1>1, <1>6, <2>1, <3>2
    <2>3. CountedRight(addr)'
      BY <1>1, <1>2, SameMemory
    <2>4. (Total(addr, addr + HEADER) % MaxWord = 0)'
      BY <1>1, <1>4, SameTable
    <2>5. pos' \in FirstWord' .. End' /\ pos' <= MemSize
      BY <1>1, <1>2, <1>5, <2>1
    <2>. QED  BY <1>1, <1>2, <2>2, <2>3, <2>4, <2>5 DEF Summed, Summing
  <1>8. PassedOver' /\ Counting' /\ WalkRight' /\ NamedByTheTable'
    BY <1>1, <1>2, SameMemory DEF LbInv, PassedOver, Counting, WalkRight, NamedByTheTable
  <1>. QED  BY <1>3, <1>7, <1>8 DEF LbInv

LEMMA WrongKeeps ==
  ASSUME LbInv, HeaderWrong \/ TableWrong
  PROVE  LbInv'
  <1>1. Summing /\ pos = End /\ GoToNext /\ phase' = "find" /\ head' = head
        /\ (phase = "header" => MaxWord - sum # 0)
        /\ (phase = "table" => MaxWord - sum # table_checksum(addr))
    BY DEF HeaderWrong, TableWrong, GoToNext, Result, Summing
  <1>2. /\ Memory(mem) /\ addr \in Nat /\ head = NoName /\ CountedRight(addr)
        /\ addr + HEADER <= MemSize /\ Ones(FirstWord, End, sum)
    BY <1>1, MemoriesAreMemory DEF LbInv, LbTyped, Summed, Summing, CountedRight
  <1>3. ~Usable(addr)
    <2>1. CASE phase = "header"
      BY <1>1, <1>2, <2>1, HeaderUnusable DEF FirstWord, End
    <2>2. CASE phase = "table"
      BY <1>1, <1>2, <2>2, TableUnusable DEF FirstWord, End
    <2>. QED  BY <1>1, <2>1, <2>2 DEF Summing
  <1>. QED  BY <1>1, <1>3, GoesToNext DEF Summing

LEMMA AcceptKeeps ==
  ASSUME LbInv, Accept
  PROVE  LbInv'
  <1>1. /\ phase = "table" /\ phase' = "walk" /\ pos = End /\ MaxWord - sum = table_checksum(addr)
        /\ addr + HEADER + 1 \in Mapped
        /\ head' = addr /\ rec' = addr + HEADER /\ next' = EndOf(rec')
        /\ UNCHANGED <<mem, addr, named, ret>>
    BY DEF Accept, Result
  <1>2. /\ Memory(mem) /\ addr \in Nat /\ CountedRight(addr) /\ addr + HEADER <= MemSize
        /\ Ones(addr + HEADER, Extent(addr), sum) /\ Total(addr, addr + HEADER) % MaxWord = 0
        /\ ret = 0 /\ named \in {NoName, Option} /\ Extent(addr) <= MemSize
    BY <1>1, MemoriesAreMemory DEF LbInv, LbTyped, Summed, Summing, FirstWord, End, CountedRight
  <1>3. addr # NoName
    BY <1>2, TableAssumption
  <1>4. LbTyped'
    BY <1>1, <1>2, <1>3 DEF LbInv, LbTyped
  <1>5. Adds(addr)
    <2>1. (Total(addr + HEADER, Extent(addr)) + table_checksum(addr)) % MaxWord = 0
      BY <1>1, <1>2, TableAddsUp
    <2>. QED  BY <1>2, <2>1 DEF Adds, CountedRight, Candidate
  <1>6. Summed'
    BY <1>1, <1>2, <1>5, SameMemory, SameTable DEF Summed, Summing
  <1>7. PassedOver'
    BY <1>1, <1>2, SameMemory DEF LbInv, PassedOver
  <1>8. /\ Extent(addr) \in Nat /\ addr + HEADER \in Nat
        /\ addr + HEADER \in Reached(addr) \/ addr + HEADER >= Extent(addr)
    <2>1. Extent(addr) \in Nat /\ addr + HEADER \in Nat
      BY <1>2, Fields DEF HEADER
    <2>. QED  BY <1>2, <2>1, ReachedCloses
  <1>9. Walked(addr, addr + HEADER)
    <2>1. \A q \in Reached(addr) : ~(q < addr + HEADER)
      BY <1>8, ReachedLeast DEF Table
    <2>. QED  BY <2>1 DEF Walked, FitBelow
  <1>10. WalkRight'
    <2>1. Walked(addr, rec)'
      <3>1. \A h, r : h = addr' /\ r = rec' /\ Walked(h, r) => Walked(addr, rec)'
        BY <1>1, SameMemory
      <3>. QED  BY <1>1, <1>9, <3>1
    <2>2. Reached(addr)' = Reached(addr) /\ Extent(addr)' = Extent(addr)
      BY <1>1, SameMemory, SameTable
    <2>3. rec' + 1 \in Mapped
      BY <1>1, <1>8
    <2>4. next' = EndOf(rec)'
      BY <1>1 DEF EndOf, Plus, Size
    <2>. QED  BY <1>1, <1>8, <2>1, <2>2, <2>3, <2>4 DEF WalkRight
  <1>11. NamedByTheTable' /\ Counting'
    BY <1>1 DEF NamedByTheTable, Counting
  <1>. QED  BY <1>4, <1>6, <1>7, <1>10, <1>11 DEF LbInv

LEMMA NoTableKeeps ==
  ASSUME LbInv, NoTable
  PROVE  LbInv'
  <1>1. /\ phase = "find" /\ UNCHANGED <<mem, addr, head, named>>
        /\ phase' = "done" /\ ret' = -1 /\ ~InWindow
    BY DEF NoTable
  <1>2. head = NoName /\ ret = 0
    BY <1>1 DEF LbInv, LbTyped
  <1>3. LbTyped'
    BY <1>1, <1>2 DEF LbInv, LbTyped
  <1>4. \A a \in Candidates : a < addr => ~Usable(a)
    BY <1>1, <1>2 DEF LbInv, PassedOver
  <1>5. \A a \in Candidates : a < addr
    BY <1>1, TableAssumption DEF LbInv, LbTyped, InWindow, Candidates, Mapped
  <1>6. PassedOver'
    BY <1>1, <1>4, <1>5, SameMemory DEF PassedOver
  <1>. QED  BY <1>1, <1>2, <1>3, <1>6
            DEF LbInv, Counting, Summed, Summing, WalkRight, NamedByTheTable

LEMMA OverrunKeeps ==
  ASSUME LbInv, Overrun
  PROVE  LbInv'
  <1>1. /\ phase \in {"find", "count", "table", "walk"} /\ phase' = "undefined"
        /\ UNCHANGED <<mem, addr, head, named, ret>>
    BY DEF Overrun, Walking
  <1>2. ret = 0
    BY <1>1 DEF LbInv, LbTyped
  <1>3. LbTyped'
    BY <1>1, <1>2 DEF LbInv, LbTyped
  <1>4. PassedOver'
    BY <1>1, <1>2, SameMemory DEF LbInv, PassedOver
  <1>5. Summed'
    BY <1>1, SameMemory, SameTable DEF LbInv, Summed, Summing
  <1>. QED  BY <1>1, <1>3, <1>4, <1>5 DEF LbInv, Counting, WalkRight, NamedByTheTable

-----------------------------------------------------------------------------
\* Part: the walk

LEMMA WalkFacts ==
  ASSUME LbInv, phase = "walk", ~Wraps(addr)
  PROVE  /\ Memory(mem) /\ addr \in Nat /\ head = addr /\ head # NoName /\ ret = 0
         /\ Extent(addr) \in Nat /\ Reached(addr) \subseteq Nat
         /\ TableEnd(addr) = Extent(addr)
         /\ \A r \in Reached(addr) : /\ r + 1 \in Mapped /\ Size(r) \in Nat /\ r < Extent(addr)
                                     /\ EndOf(r) = r + Size(r)
  <1>1. /\ Memory(mem) /\ addr \in Nat /\ head = addr /\ head # NoName /\ ret = 0
        /\ CountedRight(addr) /\ addr + HEADER <= MemSize /\ Plain(addr)
    BY MemoriesAreMemory DEF LbInv, LbTyped, Summed, CountedRight, Plain
  <1>2. Extent(addr) \in Nat /\ TableEnd(addr) = Extent(addr)
    BY <1>1, Fields, PlainTable DEF Plain
  <1>3. \A r \in Reached(addr) : r \in Nat /\ r < Extent(addr)
    BY <1>1, PlainTable
  <1>4. \A r \in Reached(addr) : r + 1 \in Mapped
    BY <1>1 DEF CountedRight
  <1>5. \A r \in Reached(addr) : Size(r) \in Nat /\ EndOf(r) = r + Size(r)
    BY <1>1, <1>4, PlainTable
  <1>. QED  BY <1>1, <1>2, <1>3, <1>4, <1>5

LEMMA WalkOnRight ==
  ASSUME LbInv, WalkOn, ~Wraps(addr)
  PROVE  WalkRight'
  <1>1. /\ phase = "walk" /\ rec < TableEnd(head) /\ Tag(rec) # LB_TAG_MAINBOARD
        /\ rec' = EndOf(rec) /\ next' = rec'
        /\ UNCHANGED <<mem, phase, addr, head, named, ret>>
    BY DEF WalkOn, Walking, EndOfTable
  <1>2. /\ Memory(mem) /\ addr \in Nat /\ head = addr /\ Extent(addr) \in Nat
        /\ Reached(addr) \subseteq Nat /\ TableEnd(addr) = Extent(addr)
        /\ \A r \in Reached(addr) : r + 1 \in Mapped /\ Size(r) \in Nat /\ EndOf(r) = r + Size(r)
    BY <1>1, WalkFacts
  <1>3. rec \in Nat /\ rec \in Reached(addr) /\ Walked(addr, rec) /\ FitBelow(addr, rec)
    BY <1>1, <1>2 DEF LbInv, WalkRight, Walked
  <1>4. Size(rec) \in Nat /\ rec + 1 \in Mapped /\ rec' \in Nat /\ rec' = rec + Size(rec)
    BY <1>1, <1>2, <1>3
  <1>5. rec' \in Reached(addr) \/ rec' >= Extent(addr)
    <2>1. CASE Follows(addr, rec)
      BY <1>1, <1>2, <1>3, <2>1, ReachedCloses DEF GoesOn
    <2>2. CASE ~Follows(addr, rec)
      BY <1>1, <1>2, <1>3, <1>4, <2>2 DEF Follows
    <2>. QED  BY <2>1, <2>2
  <1>6. \A q \in Reached(addr) :
          q < rec + Size(rec) =>
            /\ q + 1 \in Mapped /\ Size(q) >= 1 /\ q + Size(q) <= rec + Size(rec)
            /\ Tag(q) # LB_TAG_MAINBOARD
    <2>. SUFFICES ASSUME NEW q \in Reached(addr), q < rec + Size(rec)
                  PROVE  /\ q + 1 \in Mapped /\ Size(q) >= 1 /\ q + Size(q) <= rec + Size(rec)
                         /\ Tag(q) # LB_TAG_MAINBOARD
      OBVIOUS
    <2>1. q \in Nat /\ Size(q) \in Nat /\ q + 1 \in Mapped
      BY <1>2
    <2>2. q <= rec
      BY <1>2, <1>3, <1>4, <2>1, NoneInside
    <2>3. CASE q < rec
      BY <1>3, <1>4, <2>1, <2>3 DEF Walked, FitBelow
    <2>4. CASE q = rec
      BY <1>1, <1>3, <1>4, <2>4
    <2>. QED  BY <1>3, <2>1, <2>2, <2>3, <2>4
  <1>7. Walked(addr, rec)'
    <2>1. Walked(addr, rec + Size(rec))
      BY <1>6 DEF Walked, FitBelow
    <2>2. \A h, r : Walked(h, r)' = Walked(h, r)
      BY <1>1, SameMemory
    <2>3. \A h, r : h = addr' /\ r = rec' /\ Walked(h, r) => Walked(addr, rec)'
      BY <2>2
    <2>. QED  BY <1>1, <1>4, <2>1, <2>3
  <1>8. Reached(addr)' = Reached(addr) /\ Extent(addr)' = Extent(addr)
    BY <1>1, SameMemory, SameTable
  <1>. QED  BY <1>1, <1>4, <1>5, <1>7, <1>8 DEF WalkRight

LEMMA WalkOnKeeps ==
  ASSUME LbInv, WalkOn
  PROVE  LbInv'
  <1>1. phase = "walk" /\ UNCHANGED <<mem, phase, addr, head, named, ret>>
    BY DEF WalkOn, Walking
  <1>2. WalkRight'
    <2>1. CASE Wraps(addr)
      BY <1>1, <2>1, SameMemory DEF WalkRight
    <2>. QED  BY <2>1, WalkOnRight
  <1>3. LbTyped' /\ Counting'
    BY <1>1 DEF LbInv, LbTyped, Counting
  <1>4. Summed'
    BY <1>1, SameMemory, SameTable DEF LbInv, Summed, Summing
  <1>5. PassedOver' /\ NamedByTheTable'
    BY <1>1, SameMemory DEF LbInv, PassedOver, NamedByTheTable
  <1>. QED  BY <1>2, <1>3, <1>4, <1>5 DEF LbInv

\* What NamedByTheTable says, of any name
NameRight(h, nm) ==
  LET boards == {r \in Records(h) : Tag(r) = LB_TAG_MAINBOARD} IN
  IF boards = {} THEN nm = NoName \/ (nm \in Reached(h) \ Records(h) /\ Tag(nm) = LB_TAG_MAINBOARD)
                 ELSE nm \in boards /\ \A r \in boards : nm <= r

\* The name found is that of the first mainboard.
LEMMA FindsName ==
  ASSUME LbInv, WalkFinds, ~Wraps(addr)
  PROVE  NameRight(addr, rec)
  <1>1. phase = "walk" /\ rec < TableEnd(head) /\ Tag(rec) = LB_TAG_MAINBOARD
    BY DEF WalkFinds, Walking, EndOfTable
  <1>2. /\ Memory(mem) /\ addr \in Nat /\ head = addr /\ Extent(addr) \in Nat
        /\ Reached(addr) \subseteq Nat /\ TableEnd(addr) = Extent(addr)
        /\ \A r \in Reached(addr) : /\ r + 1 \in Mapped /\ Size(r) \in Nat /\ r < Extent(addr)
                                    /\ EndOf(r) = r + Size(r)
    BY <1>1, WalkFacts
  <1>3. rec \in Nat /\ rec \in Reached(addr) /\ Walked(addr, rec) /\ FitBelow(addr, rec)
    BY <1>1, <1>2 DEF LbInv, WalkRight, Walked
  <1>4. \A r \in Reached(addr) : Tag(r) = LB_TAG_MAINBOARD => rec <= r
    BY <1>2, <1>3 DEF Walked
  <1>5. Records(addr) \subseteq Reached(addr)
    BY DEF Records
  <1>6. CASE rec \in Records(addr)
    <2>. DEFINE boards == {r \in Records(addr) : Tag(r) = LB_TAG_MAINBOARD}
    <2>1. rec \in boards /\ \A r \in boards : rec <= r
      BY <1>1, <1>4, <1>5, <1>6
    <2>. QED  BY <1>3, <2>1 DEF NameRight
  <1>7. CASE rec \notin Records(addr)
    <2>1. ~Follows(addr, rec)
      BY <1>2, <1>3, <1>7 DEF Records, Follows
    <2>2. \A r \in Reached(addr) : r <= rec
      BY <1>2, <1>3, <2>1, NoneInside
    <2>3. \A r \in Records(addr) : Tag(r) # LB_TAG_MAINBOARD
      BY <1>2, <1>3, <1>4, <1>5, <1>7, <2>2
    <2>4. {r \in Records(addr) : Tag(r) = LB_TAG_MAINBOARD} = {}
      BY <2>3
    <2>. QED  BY <1>1, <1>3, <1>7, <2>4 DEF NameRight
  <1>. QED  BY <1>6, <1>7

\* Where the walk ends without a name, no record is a mainboard.
LEMMA FindsNone ==
  ASSUME LbInv, WalkEnds, ~Wraps(addr)
  PROVE  NameRight(addr, NoName)
  <1>1. phase = "walk" /\ ~(rec < TableEnd(head) /\ next <= TableEnd(head))
    BY DEF WalkEnds, Walking, EndOfTable
  <1>2. /\ Memory(mem) /\ addr \in Nat /\ head = addr /\ Extent(addr) \in Nat
        /\ Reached(addr) \subseteq Nat /\ TableEnd(addr) = Extent(addr)
        /\ \A r \in Reached(addr) : /\ r + 1 \in Mapped /\ Size(r) \in Nat /\ r < Extent(addr)
                                    /\ EndOf(r) = r + Size(r)
    BY <1>1, WalkFacts
  <1>3. /\ rec \in Nat /\ (rec \in Reached(addr) \/ rec >= Extent(addr)) /\ Walked(addr, rec)
        /\ next = rec \/ (rec = addr + HEADER /\ next = EndOf(rec))
        /\ FitBelow(addr, rec)
    BY <1>1 DEF LbInv, WalkRight, Walked
  <1>4. Records(addr) \subseteq Reached(addr)
    BY DEF Records
  <1>5. \A r \in Records(addr) : Tag(r) # LB_TAG_MAINBOARD
    <2>1. CASE rec >= Extent(addr)
      <3>1. \A r \in Reached(addr) : r < rec
        BY <1>2, <1>3, <2>1
      <3>. QED  BY <1>3, <1>4, <3>1 DEF Walked
    <2>2. CASE ~(rec >= Extent(addr))
      <3>1. /\ rec \in Reached(addr) /\ rec < Extent(addr)
            /\ rec = addr + HEADER /\ Size(rec) \in Nat /\ rec + Size(rec) > Extent(addr)
        BY <1>1, <1>2, <1>3, <2>2
      <3>2. \A r \in Reached(addr) : r <= rec
        <4>1. ~Follows(addr, rec)
          BY <1>2, <1>3, <3>1 DEF Follows
        <4>. QED  BY <1>2, <1>3, <3>1, <4>1, NoneInside
      <3>3. \A r \in Reached(addr) : r >= rec
        BY <1>2, <3>1, ReachedLeast DEF Table, HEADER
      <3>4. \A r \in Records(addr) : r = rec /\ r + Size(r) <= Extent(addr)
        BY <1>2, <1>3, <1>4, <3>2, <3>3 DEF Records
      <3>. QED  BY <1>2, <1>3, <3>1, <3>4
    <2>. QED  BY <2>1, <2>2
  <1>6. {r \in Records(addr) : Tag(r) = LB_TAG_MAINBOARD} = {}
    BY <1>5
  <1>. QED  BY <1>6 DEF NameRight

LEMMA WalkStops ==
  ASSUME LbInv, WalkFinds \/ WalkEnds
  PROVE  LbInv'
  <1>1. /\ phase = "walk" /\ phase' = "done" /\ UNCHANGED <<mem, addr, head, ret>>
        /\ \/ named' = named /\ (Wraps(addr) \/ NameRight(addr, NoName))
           \/ /\ named' = (IF named = NoName THEN rec ELSE named) /\ rec \in Nat
              /\ Wraps(addr) \/ NameRight(addr, rec)
    <2>1. CASE WalkFinds
      <3>1. rec \in Nat
        BY <2>1, TableAssumption DEF WalkFinds, Mapped
      <3>. QED  BY <2>1, <3>1, FindsName DEF WalkFinds, Walking
    <2>2. CASE WalkEnds
      BY <2>2, FindsNone DEF WalkEnds, Walking
    <2>. QED  BY <2>1, <2>2
  <1>2. head = addr /\ head # NoName /\ ret = 0 /\ named \in {NoName, Option}
    BY <1>1 DEF LbInv, LbTyped
  <1>3. LbTyped'
    BY <1>1, <1>2 DEF LbInv, LbTyped
  <1>4. Summed'
    BY <1>1, <1>2, SameMemory, SameTable DEF LbInv, Summed, Summing
  <1>5. PassedOver' /\ WalkRight' /\ Counting'
    BY <1>1, <1>2, SameMemory DEF LbInv, PassedOver, WalkRight, Counting
  <1>6. named' = Option \/ Wraps(addr) \/ NameRight(addr, named')
    BY <1>1, <1>2
  <1>7. NamedByTheTable'
    <2>1. \A h : Records(h)' = Records(h) /\ Reached(h)' = Reached(h) /\ Wraps(h)' = Wraps(h)
      BY <1>1, SameMemory
    <2>2. \A r : Tag(r)' = Tag(r)
      BY <1>1, SameTable
    <2>. QED  BY <1>1, <1>2, <1>6, <2>1, <2>2 DEF NamedByTheTable, NameRight
  <1>. QED  BY <1>3, <1>4, <1>5, <1>7 DEF LbInv

-----------------------------------------------------------------------------
\* The inductive invariant of linuxbios_init holds.
THEOREM LbInvHolds == TableSpec => []LbInv
  <1>1. TableInit => LbInv
    <2>. SUFFICES ASSUME TableInit PROVE LbInv
      OBVIOUS
    <2>1. LbTyped
      BY TableAssumption DEF TableInit, LbTyped, STEP
    <2>2. PassedOver
      BY TableAssumption DEF TableInit, PassedOver, Candidates, Mapped
    <2>. QED  BY <2>1, <2>2 DEF TableInit, LbInv, Counting, Summed, Summing, WalkRight, NamedByTheTable
  <1>2. LbInv /\ [TableNext]_tableVars => LbInv'
    <2>. SUFFICES ASSUME LbInv, [TableNext]_tableVars PROVE LbInv'
      OBVIOUS
    <2>1. CASE Skip
      BY <2>1, SkipKeeps
    <2>2. CASE BeginCount \/ CountOne
      BY <2>2, CountKeeps
    <2>3. CASE Counted
      BY <2>3, CountedKeeps
    <2>4. CASE Miscounted
      BY <2>4, MiscountedKeeps
    <2>5. CASE Add
      BY <2>5, AddKeeps
    <2>6. CASE HeaderRight
      BY <2>6, HeaderRightKeeps
    <2>7. CASE HeaderWrong \/ TableWrong
      BY <2>7, WrongKeeps
    <2>8. CASE Accept
      BY <2>8, AcceptKeeps
    <2>9. CASE NoTable
      BY <2>9, NoTableKeeps
    <2>10. CASE Overrun
      BY <2>10, OverrunKeeps
    <2>11. CASE WalkOn
      BY <2>11, WalkOnKeeps
    <2>12. CASE WalkFinds \/ WalkEnds
      BY <2>12, WalkStops
    <2>13. CASE UNCHANGED tableVars
      <3>1. UNCHANGED <<mem, phase, addr, head, pos, sum, rec, next, named, ret>> /\ UNCHANGED count
        BY <2>13 DEF tableVars, adding
      <3>2. LbTyped'
        BY <3>1 DEF LbInv, LbTyped
      <3>3. Summed'
        <4>1. FirstWord' = FirstWord /\ End' = End
          BY <3>1, SameTable DEF FirstWord, End
        <4>2. Ones(FirstWord, pos, sum) => Ones(FirstWord, pos, sum)'
          <5>1. \A m, n, t : Ones(m, n, t)' = Ones(m, n, t)
            BY <3>1, SameMemory
          <5>. QED  BY <3>1, <4>1, <5>1
        <4>. QED  BY <3>1, <4>1, <4>2, SameMemory, SameTable DEF LbInv, Summed, Summing
      <3>4. PassedOver' /\ NamedByTheTable'
        BY <3>1, SameMemory, SameTable DEF LbInv, PassedOver, NamedByTheTable
      <3>5. WalkRight'
        BY <3>1, SameMemory, SameTable DEF LbInv, WalkRight
      <3>6. Counting'
        <4>1. CountedTo(addr, rec, count)' = CountedTo(addr, rec, count)
          BY <3>1, SameMemory
        <4>. QED  BY <3>1, <4>1, SameTable DEF LbInv, Counting
      <3>. QED  BY <3>2, <3>3, <3>4, <3>5, <3>6 DEF LbInv
    <2>. QED  BY <2>1, <2>2, <2>3, <2>4, <2>5, <2>6, <2>7,
                 <2>8, <2>9, <2>10, <2>11, <2>12, <2>13 DEF TableNext
  <1>. QED  BY <1>1, <1>2, PTL DEF TableSpec

\* FirstGoodTable for every memory, whatever its size and however the
\* candidates lie: the table taken adds up, no earlier one would do, and it is
\* complete unless a record of it wraps around.
THEOREM FirstIsTaken == TableSpec => []FirstGoodTable
  <1>1. LbInv => FirstGoodTable
    <2>. SUFFICES ASSUME LbInv PROVE FirstGoodTable
      OBVIOUS
    <2>1. \A a \in Candidates : a \in Nat
      BY TableAssumption DEF Candidates, Mapped
    <2>2. addr \in Nat
      BY DEF LbInv, LbTyped
    <2>3. head # NoName => /\ head = addr /\ Adds(addr) /\ (Wraps(addr) \/ RightCount(addr))
                           /\ \A a \in Candidates : a < addr => ~Usable(a)
      BY DEF LbInv, LbTyped, Summed, CountedRight, Plain, PassedOver
    <2>4. phase = "done" /\ ret = -1 => \A a \in Candidates : ~Usable(a)
      BY DEF LbInv, PassedOver
    <2>. QED  BY <2>1, <2>2, <2>3, <2>4 DEF FirstGoodTable
  <1>. QED  BY <1>1, LbInvHolds, PTL

\* NamedByTheTable for every memory: the name is the first mainboard's among
\* the records of the table, none of which wraps around.
THEOREM NameIsTheTables == TableSpec => []NamedByTheTable
  <1>1. LbInv => NamedByTheTable
    BY DEF LbInv
  <1>. QED  BY <1>1, LbInvHolds, PTL
=============================================================================
