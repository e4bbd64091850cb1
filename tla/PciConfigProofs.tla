--------------------------- MODULE PciConfigProofs ---------------------------
(***************************************************************************)
(* Theorems about PciConfig, for any devices, requests and sizes of the    *)
(* space, and any number of disturbances and failures.                     *)
(***************************************************************************)
EXTENDS PciConfig, SequenceTheorems, TLAPS

-----------------------------------------------------------------------------
(***************************************************************************)
(* pci_generic_block_op cuts the positions lo .. hi - 1 into pieces: each  *)
(* of a length that a port access has and within a dword, one behind the   *)
(* other, and none left out.                                               *)
(***************************************************************************)
Piece       == Nat \X Nat
PortSize(p) == p[2] \in {1, 2, 4} /\ (p[1] % 4) + p[2] <= 4
Behind(p, q) == p[1] + p[2] <= q[1]
Within(s, lo, hi) == \A i \in 1 .. Len(s) : lo <= s[i][1] /\ s[i][1] + s[i][2] <= hi
Ordered(s)  == \A i, j \in 1 .. Len(s) : i < j => Behind(s[i], s[j])
Covers(s, lo, hi) ==
  \A x \in lo .. hi - 1 : \E i \in 1 .. Len(s) : s[i][1] <= x /\ x < s[i][1] + s[i][2]
Cut(s, lo, hi) ==
  /\ s \in Seq(Piece) /\ Within(s, lo, hi) /\ Ordered(s) /\ Covers(s, lo, hi)
  /\ \A i \in 1 .. Len(s) : PortSize(s[i])

LEMMA CutTogether ==
  ASSUME NEW lo \in Nat, NEW mid \in Nat, NEW hi \in Nat, lo <= mid, mid <= hi,
         NEW s, NEW t, Cut(s, lo, mid), Cut(t, mid, hi)
  PROVE  Cut(s \o t, lo, hi)
<1> DEFINE u == s \o t
<1>1. /\ s \in Seq(Piece) /\ t \in Seq(Piece) /\ u \in Seq(Piece)
      /\ Len(s) \in Nat /\ Len(t) \in Nat /\ Len(u) = Len(s) + Len(t)
      /\ \A i \in 1 .. Len(s) : u[i] = s[i]
      /\ \A i \in 1 .. Len(t) : u[Len(s) + i] = t[i]
  BY ConcatProperties DEF Cut
<1>2. \A i \in 1 .. Len(u) : \/ i \in 1 .. Len(s) /\ u[i] = s[i]
                             \/ i - Len(s) \in 1 .. Len(t) /\ u[i] = t[i - Len(s)]
  <2>. SUFFICES ASSUME NEW i \in 1 .. Len(u), i \notin 1 .. Len(s)
                PROVE  i - Len(s) \in 1 .. Len(t) /\ u[i] = t[i - Len(s)]
    BY <1>1
  <2>1. i - Len(s) \in 1 .. Len(t) /\ Len(s) + (i - Len(s)) = i
    BY <1>1
  <2>. QED
    BY <1>1, <2>1
<1>3. /\ \A i \in 1 .. Len(s) : /\ s[i] \in Piece /\ lo <= s[i][1] /\ s[i][1] + s[i][2] <= mid
                                /\ PortSize(s[i])
      /\ \A i \in 1 .. Len(t) : /\ t[i] \in Piece /\ mid <= t[i][1] /\ t[i][1] + t[i][2] <= hi
                                /\ PortSize(t[i])
  BY <1>1, ElementOfSeq DEF Cut, Within
<1>4. \A i \in 1 .. Len(u) : PortSize(u[i])
  BY <1>2, <1>3
<1>5. Within(u, lo, hi)
  <2>. SUFFICES ASSUME NEW i \in 1 .. Len(u)
                PROVE  lo <= u[i][1] /\ u[i][1] + u[i][2] <= hi
    BY DEF Within
  <2>1. CASE i \in 1 .. Len(s) /\ u[i] = s[i]
    BY <1>3, <2>1 DEF Piece
  <2>2. CASE i - Len(s) \in 1 .. Len(t) /\ u[i] = t[i - Len(s)]
    BY <1>3, <2>2 DEF Piece
  <2>. QED
    BY <1>2, <2>1, <2>2
<1>6. Ordered(u)
  <2>. SUFFICES ASSUME NEW i \in 1 .. Len(u), NEW j \in 1 .. Len(u), i < j
                PROVE  Behind(u[i], u[j])
    BY DEF Ordered
  <2>1. CASE j \in 1 .. Len(s)
    <3>1. i \in 1 .. Len(s)
      BY <1>1, <2>1
    <3>. QED
      BY <1>1, <2>1, <3>1 DEF Cut, Ordered
  <2>2. CASE i \in 1 .. Len(s) /\ j \notin 1 .. Len(s)
    <3>1. u[i] = s[i] /\ j - Len(s) \in 1 .. Len(t) /\ u[j] = t[j - Len(s)]
      BY <1>1, <1>2, <2>2
    <3>2. /\ s[i] \in Piece /\ s[i][1] + s[i][2] <= mid
          /\ t[j - Len(s)] \in Piece /\ mid <= t[j - Len(s)][1]
      BY <1>3, <2>2, <3>1
    <3>3. s[i][1] \in Int /\ s[i][2] \in Int /\ t[j - Len(s)][1] \in Int /\ mid \in Int
      BY <3>2 DEF Piece
    <3>4. s[i][1] + s[i][2] <= t[j - Len(s)][1]
      BY <3>2, <3>3
    <3>. QED
      BY <3>1, <3>4 DEF Behind
  <2>3. CASE i \notin 1 .. Len(s) /\ j \notin 1 .. Len(s)
    <3>1. /\ i - Len(s) \in 1 .. Len(t) /\ u[i] = t[i - Len(s)]
          /\ j - Len(s) \in 1 .. Len(t) /\ u[j] = t[j - Len(s)]
      BY <1>2, <2>3
    <3>2. i - Len(s) < j - Len(s)
      BY <1>1
    <3>. QED
      BY <3>1, <3>2 DEF Cut, Ordered
  <2>. QED
    BY <1>1, <2>1, <2>2, <2>3
<1>7. Covers(u, lo, hi)
  <2>. SUFFICES ASSUME NEW x \in lo .. hi - 1
                PROVE  \E i \in 1 .. Len(u) : u[i][1] <= x /\ x < u[i][1] + u[i][2]
    BY DEF Covers
  <2>1. CASE x < mid
    <3>1. PICK i \in 1 .. Len(s) : s[i][1] <= x /\ x < s[i][1] + s[i][2]
      BY <2>1 DEF Cut, Covers
    <3>. QED
      BY <1>1, <3>1
  <2>2. CASE x >= mid
    <3>1. PICK i \in 1 .. Len(t) : t[i][1] <= x /\ x < t[i][1] + t[i][2]
      BY <2>2 DEF Cut, Covers
    <3>2. Len(s) + i \in 1 .. Len(u)
      BY <1>1
    <3>. QED
      BY <1>1, <3>1, <3>2
  <2>. QED
    BY <2>1, <2>2
<1>. QED
  BY <1>1, <1>4, <1>5, <1>6, <1>7 DEF Cut

LEMMA OneCut ==
  ASSUME NEW p \in Nat, NEW n \in {1, 2, 4}, (p % 4) + n <= 4
  PROVE  Cut(<< <<p, n>> >>, p, p + n)
<1> DEFINE s == << <<p, n>> >>
<1>1. s \in Seq(Piece) /\ Len(s) = 1 /\ s[1] = <<p, n>>
  BY DEF Piece
<1>. QED
  BY <1>1 DEF Cut, Within, Ordered, Covers, PortSize

LEMMA NoneCut == ASSUME NEW p \in Nat PROVE Cut(<<>>, p, p)
<1>1. <<>> \in Seq(Piece) /\ Len(<<>>) = 0
  OBVIOUS
<1>. QED
  BY <1>1 DEF Cut, Within, Ordered, Covers

LEMMA DwordsCut ==
  ASSUME NEW pos \in Nat, NEW q \in Nat, pos % 4 = 0 \/ q = 0
  PROVE  Cut([i \in 1 .. q |-> <<pos + 4 * (i - 1), 4>>], pos, pos + 4 * q)
<1> DEFINE s == [i \in 1 .. q |-> <<pos + 4 * (i - 1), 4>>]
<1>1. s \in Seq(Piece) /\ Len(s) = q
  BY DEF Piece
<1>2. \A i \in 1 .. q : s[i][1] = pos + 4 * (i - 1) /\ s[i][2] = 4
  OBVIOUS
<1> HIDE DEF s
<1>3. Covers(s, pos, pos + 4 * q)
  <2>. SUFFICES ASSUME NEW x \in pos .. pos + 4 * q - 1
                PROVE  \E i \in 1 .. q : s[i][1] <= x /\ x < s[i][1] + s[i][2]
    BY <1>1 DEF Covers
  <2>1. PICK d \in Nat : x = pos + d /\ d < 4 * q
    <3>1. x - pos \in Nat /\ x = pos + (x - pos) /\ x - pos < 4 * q
      OBVIOUS
    <3>. QED
      BY <3>1
  <2>2. d \div 4 + 1 \in 1 .. q /\ 4 * (d \div 4) <= d /\ d < 4 * (d \div 4) + 4
    BY <2>1
  <2>3. s[d \div 4 + 1][1] = pos + 4 * (d \div 4) /\ s[d \div 4 + 1][2] = 4
    BY <1>2, <2>2
  <2>. QED
    BY <2>1, <2>2, <2>3
<1>4. Within(s, pos, pos + 4 * q)
  <2>. SUFFICES ASSUME NEW i \in 1 .. q PROVE pos <= s[i][1] /\ s[i][1] + s[i][2] <= pos + 4 * q
    BY <1>1 DEF Within
  <2>. QED
    BY <1>2
<1>5. Ordered(s)
  BY <1>1, <1>2 DEF Ordered, Behind
<1>6. \A i \in 1 .. q : PortSize(s[i])
  BY <1>2 DEF PortSize
<1>7. Cut(s, pos, pos + 4 * q)
  BY <1>1, <1>3, <1>4, <1>5, <1>6 DEF Cut
<1>. QED
  BY <1>7 DEF s

LEMMA Pieces4Cut ==
  ASSUME NEW pos \in Nat, NEW len \in Nat, pos % 4 = 0 \/ len < 2
  PROVE  Cut(Pieces4(pos, len), pos, pos + len)
<1> DEFINE q   == len \div 4
           s   == [i \in 1 .. q |-> <<pos + 4 * (i - 1), 4>>]
           two == IF len % 4 >= 2 THEN << <<pos + 4 * q, 2>> >> ELSE <<>>
           one == IF len % 2 = 1 THEN << <<pos + len - 1, 1>> >> ELSE <<>>
           mid == IF len % 4 >= 2 THEN pos + 4 * q + 2 ELSE pos + 4 * q
<1>1. q \in Nat /\ mid \in Nat /\ pos + 4 * q \in Nat /\ pos + 4 * q <= mid /\ mid <= pos + len
      /\ (len % 2 = 1 => mid = pos + len - 1) /\ (len % 2 # 1 => mid = pos + len)
      /\ (pos % 4 = 0 \/ q = 0) /\ pos <= mid
  OBVIOUS
<1>2. Cut(s, pos, pos + 4 * q)
  BY <1>1, DwordsCut
<1>3. Cut(two, pos + 4 * q, mid)
  <2>1. CASE len % 4 >= 2
    <3>1. ((pos + 4 * q) % 4) + 2 <= 4
      BY <1>1, <2>1
    <3>2. Cut(<< <<pos + 4 * q, 2>> >>, pos + 4 * q, pos + 4 * q + 2)
      BY <1>1, <3>1, OneCut
    <3>. QED
      BY <2>1, <3>2
  <2>2. CASE ~(len % 4 >= 2)
    BY <1>1, <2>2, NoneCut
  <2>. QED
    BY <2>1, <2>2
<1>4. Cut(one, mid, pos + len)
  <2>1. CASE len % 2 = 1
    <3>1. mid \in Nat /\ (mid % 4) + 1 <= 4
      BY <1>1
    <3>2. Cut(<< <<mid, 1>> >>, mid, mid + 1)
      BY <3>1, OneCut
    <3>. QED
      BY <1>1, <2>1, <3>2
  <2>2. CASE len % 2 # 1
    BY <1>1, <2>2, NoneCut
  <2>. QED
    BY <2>1, <2>2
<1> HIDE DEF q, s, two, one, mid
<1>5. Cut(s \o two, pos, mid)
  BY <1>1, <1>2, <1>3, CutTogether
<1>6. Cut((s \o two) \o one, pos, pos + len)
  BY <1>1, <1>4, <1>5, CutTogether
<1>. QED
  BY <1>6 DEF Pieces4, q, s, two, one

LEMMA Pieces2Cut ==
  ASSUME NEW pos \in Nat, NEW len \in Nat, pos % 2 = 0 \/ len = 0
  PROVE  Cut(Pieces2(pos, len), pos, pos + len)
<1>1. CASE pos % 4 # 0 /\ len >= 2
  <2>1. Cut(Pieces4(pos + 2, len - 2), pos + 2, pos + 2 + (len - 2))
    <3>1. pos + 2 \in Nat /\ len - 2 \in Nat /\ (pos + 2) % 4 = 0
      BY <1>1
    <3>. QED
      BY <3>1, Pieces4Cut
  <2>2. Cut(<< <<pos, 2>> >>, pos, pos + 2)
    <3>1. (pos % 4) + 2 <= 4
      BY <1>1
    <3>. QED
      BY <3>1, OneCut
  <2>. QED
    BY <1>1, <2>1, <2>2, CutTogether, pos + 2 + (len - 2) = pos + len DEF Pieces2
<1>2. CASE ~(pos % 4 # 0 /\ len >= 2)
  BY <1>2, Pieces4Cut DEF Pieces2
<1>. QED
  BY <1>1, <1>2

\* pci_generic_block_op leaves no byte out, does none twice and goes beyond
\* no end, from any position and for any length.
THEOREM BlockIsCut ==
  ASSUME NEW pos \in Nat, NEW len \in Nat
  PROVE  Cut(pci_generic_block_op(pos, len), pos, pos + len)
<1>1. CASE pos % 2 = 1 /\ len >= 1
  <2>1. Cut(Pieces2(pos + 1, len - 1), pos + 1, pos + 1 + (len - 1))
    <3>1. pos + 1 \in Nat /\ len - 1 \in Nat /\ (pos + 1) % 2 = 0
      BY <1>1
    <3>. QED
      BY <3>1, Pieces2Cut
  <2>2. Cut(<< <<pos, 1>> >>, pos, pos + 1)
    <3>1. (pos % 4) + 1 <= 4
      OBVIOUS
    <3>. QED
      BY <3>1, OneCut
  <2>. QED
    BY <1>1, <2>1, <2>2, CutTogether, pos + 1 + (len - 1) = pos + len DEF pci_generic_block_op
<1>2. CASE ~(pos % 2 = 1 /\ len >= 1)
  BY <1>2, Pieces2Cut DEF pci_generic_block_op
<1>. QED
  BY <1>1, <1>2

-----------------------------------------------------------------------------
(***************************************************************************)
(* The inductive invariant.  What is still to do is the whole request, or  *)
(* pieces of it in their order; a request that cannot be made never gets   *)
(* beyond its first step; and there is a stray access, or one about to     *)
(* stray, for every disturbance or failure at most.                        *)
(***************************************************************************)
Whole == << <<request.pos, request.len>> >>
End   == request.pos + request.len
Types ==
  /\ method \in Methods /\ request \in Requests
  /\ pc \in {"idle", "addr", "bus", "data", "close", "exited"}
  /\ strays \in Nat /\ others \in 0 .. MaxOthers /\ lost \in 0 .. MaxLost
  /\ DOMAIN space = Devices \X (0 .. MaxPos - 1) /\ space = [a \in DOMAIN space |-> space[a]]
  /\ DOMAIN buf = Positions(request) /\ buf = [p \in DOMAIN buf |-> buf[p]]

Pending ==
  /\ todo \in Seq(Piece) /\ Within(todo, request.pos, End) /\ Ordered(todo)
  /\ pc \in {"addr", "bus", "data"} => todo # <<>>
  /\ pc \in {"idle", "exited"} => todo = <<>>
  /\ todo = Whole \/ \A i \in 1 .. Len(todo) : PortSize(todo[i])

Possible ==
  /\ pc \in {"bus", "data", "close"} => ~Unaligned /\ ~Beyond
  /\ pc = "addr" => todo = Whole \/ (~Unaligned /\ ~Beyond)
  /\ pc \in {"bus", "close"} => method = "conf2"

Aimed == IF method = "conf1" THEN cf8 = Address(request.dev, Pos)
                             ELSE cf8 = request.dev.func /\ (pc = "data" => cfa = request.dev.bus)
Misaimed == pc \in {"bus", "data"} /\ ~Aimed

Accounted == strays + (IF Misaimed THEN 1 ELSE 0) <= others + lost

Inv == Types /\ Pending /\ Possible /\ Accounted /\ ClosedBetweenRequests

USE DEF vars, asking

LEMMA RequestFacts ==
  ASSUME request \in Requests
  PROVE  /\ request.op \in {"read", "write"} /\ request.block \in BOOLEAN
         /\ request.dev \in Devices /\ request.pos \in Nat /\ request.len \in Nat
         /\ End \in Nat /\ request.pos <= End /\ End <= MaxPos
         /\ ~request.block => request.len \in {1, 2, 4}
         /\ request.block /\ request.len \in {2, 4} => request.pos % request.len = 0
         /\ Positions(request) = request.pos .. End - 1
  BY RequestsAssumption, PciAssumption DEF End, Positions

LEMMA TailOf ==
  ASSUME NEW s \in Seq(Piece), s # <<>>, NEW lo \in Nat, NEW hi \in Nat,
         Within(s, lo, hi), Ordered(s)
  PROVE  /\ Head(s) = s[1] /\ s[1] \in Piece /\ 1 \in 1 .. Len(s)
         /\ lo <= s[1][1] /\ s[1][1] + s[1][2] <= hi
         /\ Tail(s) \in Seq(Piece) /\ Within(Tail(s), lo, hi) /\ Ordered(Tail(s))
         /\ \A i \in 1 .. Len(Tail(s)) : /\ Tail(s)[i] = s[i + 1] /\ i + 1 \in 1 .. Len(s)
                                         /\ Behind(s[1], Tail(s)[i])
         /\ Len(s) = 1 => Tail(s) = <<>>
<1>1. /\ Len(s) \in Nat /\ Len(s) >= 1 /\ Head(s) = s[1] /\ s[1] \in Piece
      /\ Tail(s) \in Seq(Piece) /\ Len(Tail(s)) = Len(s) - 1
      /\ \A i \in 1 .. Len(Tail(s)) : Tail(s)[i] = s[i + 1]
  BY HeadTailProperties, EmptySeq, ElementOfSeq
<1>2. \A i \in 1 .. Len(Tail(s)) : i + 1 \in 1 .. Len(s) /\ 1 < i + 1
  BY <1>1
<1>3. Within(Tail(s), lo, hi)
  BY <1>1, <1>2 DEF Within
<1>4. Ordered(Tail(s))
  BY <1>1, <1>2 DEF Ordered
<1>5. \A i \in 1 .. Len(Tail(s)) : Behind(s[1], Tail(s)[i])
  <2>. SUFFICES ASSUME NEW i \in 1 .. Len(Tail(s)) PROVE Behind(s[1], s[i + 1])
    BY <1>1
  <2>1. 1 \in 1 .. Len(s) /\ i + 1 \in 1 .. Len(s) /\ 1 < i + 1
    BY <1>1, <1>2
  <2>2. \A j \in 1 .. Len(s) : 1 < j => Behind(s[1], s[j])
    BY <2>1 DEF Ordered
  <2>. QED
    BY <2>1, <2>2
<1>6. ASSUME Len(s) = 1 PROVE Tail(s) = <<>>
  <2>1. Tail(s) \in Seq(Piece) /\ Len(Tail(s)) = 0
    BY <1>1, <1>6
  <2>. QED
    BY <2>1, EmptySeq
<1>. QED
  BY <1>1, <1>2, <1>3, <1>4, <1>5, <1>6 DEF Within

\* What is known of the piece at the front, and of the ones behind it.
LEMMA FrontPiece ==
  ASSUME Types, Pending, todo # <<>>
  PROVE  /\ Head(todo) = todo[1] /\ Head(todo) = <<Pos, Size>> /\ Pos \in Nat /\ Size \in Nat
         /\ 1 \in 1 .. Len(todo) /\ request.pos <= Pos /\ Pos + Size <= End
         /\ Tail(todo) \in Seq(Piece) /\ Within(Tail(todo), request.pos, End) /\ Ordered(Tail(todo))
         /\ \A i \in 1 .. Len(Tail(todo)) : /\ PortSize(Tail(todo)[i])
                                            /\ Behind(Head(todo), Tail(todo)[i])
         /\ todo = Whole => Pos = request.pos /\ Size = request.len /\ Tail(todo) = <<>>
         /\ Size \notin {1, 2, 4} => todo = Whole
<1>1. request.pos \in Nat /\ End \in Nat /\ request.len \in Nat
  BY RequestFacts DEF Types
<1>2. /\ Head(todo) = todo[1] /\ todo[1] \in Piece /\ 1 \in 1 .. Len(todo)
      /\ request.pos <= todo[1][1] /\ todo[1][1] + todo[1][2] <= End
      /\ Tail(todo) \in Seq(Piece) /\ Within(Tail(todo), request.pos, End) /\ Ordered(Tail(todo))
      /\ \A i \in 1 .. Len(Tail(todo)) : /\ Tail(todo)[i] = todo[i + 1] /\ i + 1 \in 1 .. Len(todo)
                                         /\ Behind(todo[1], Tail(todo)[i])
      /\ Len(todo) = 1 => Tail(todo) = <<>>
  BY <1>1, TailOf DEF Pending
<1>3. Pos \in Nat /\ Size \in Nat /\ Head(todo) = <<Pos, Size>>
  BY <1>2 DEF Pos, Size, Piece
<1>4. todo = Whole => Pos = request.pos /\ Size = request.len /\ Tail(todo) = <<>>
  <2>. SUFFICES ASSUME todo = Whole PROVE Pos = request.pos /\ Size = request.len /\ Len(todo) = 1
    BY <1>2
  <2>1. todo = << <<request.pos, request.len>> >>
    BY DEF Whole
  <2>2. Len(todo) = 1 /\ todo[1] = <<request.pos, request.len>>
    BY <2>1
  <2>. QED
    BY <1>2, <2>2 DEF Pos, Size
<1>5. \A i \in 1 .. Len(Tail(todo)) : PortSize(Tail(todo)[i])
  <2>1. CASE todo = Whole
    <3>1. Tail(todo) = <<>> /\ Len(<<>>) = 0
      BY <1>4, <2>1, EmptySeq
    <3>2. 1 .. Len(Tail(todo)) = 1 .. Len(<<>>)
      BY <3>1, Zenon
    <3>3. \A i \in 1 .. Len(<<>>) : FALSE
      BY <3>1
    <3>. QED
      BY <3>2, <3>3, Zenon
  <2>2. CASE \A i \in 1 .. Len(todo) : PortSize(todo[i])
    BY <1>2, <2>2
  <2>. QED
    BY <2>1, <2>2 DEF Pending
<1>6. Size \notin {1, 2, 4} => todo = Whole
  BY <1>2, <1>3 DEF Pending, PortSize, Size
<1>. QED
  BY <1>2, <1>3, <1>4, <1>5, <1>6 DEF Pos, Size

\* An access that is made lies within a dword.
LEMMA AccessInDword ==
  ASSUME Types, Pending, Possible, pc = "data", Size \in {1, 2, 4}
  PROVE  (Pos % 4) + Size <= 4
<1>1. todo # <<>> /\ ~Unaligned
  BY DEF Pending, Possible
<1>2. CASE todo = Whole
  <2>1. Pos = request.pos /\ Size = request.len
    BY <1>1, <1>2, FrontPiece
  <2>2. Size = 1 \/ Pos % Size = 0
    BY <1>1, <2>1, RequestFacts DEF Types, Unaligned
  <2>3. Pos \in Nat
    BY <1>1, FrontPiece
  <2>4. CASE Size = 1
    BY <2>3, <2>4
  <2>5. CASE Size = 2
    BY <2>2, <2>3, <2>5
  <2>6. CASE Size = 4
    BY <2>2, <2>3, <2>6
  <2>. QED
    BY <2>4, <2>5, <2>6
<1>3. CASE \A i \in 1 .. Len(todo) : PortSize(todo[i])
  BY <1>1, <1>3, FrontPiece DEF PortSize, Pos, Size
<1>. QED
  BY <1>2, <1>3 DEF Pending

\* An access that is aimed right goes where it should.
LEMMA AimedReaches ==
  ASSUME Types, Pending, Possible, pc = "data", Size \in {1, 2, 4}, Aimed
  PROVE  \A k \in 0 .. Size - 1 : Reached(k) = Asked(k) /\ There(k)
<1>1. todo # <<>>
  BY DEF Pending
<1>2. /\ Pos \in Nat /\ Pos + Size <= End /\ request.dev \in Devices /\ End <= MaxPos /\ MaxPos \in Nat
      /\ DOMAIN space = Devices \X (0 .. MaxPos - 1) /\ End \in Nat
  BY <1>1, FrontPiece, RequestFacts, PciAssumption DEF Types
<1>3. (Pos % 4) + Size <= 4
  BY AccessInDword
<1>. SUFFICES ASSUME NEW k \in 0 .. Size - 1
              PROVE  Reached(k) = Asked(k) /\ There(k)
  OBVIOUS
<1>4. Asked(k) \in DOMAIN space
  BY <1>2 DEF Asked
<1>5. CASE method = "conf1"
  <2>1. cf8.dev = request.dev /\ cf8.dword = Pos \div 4
    BY <1>5 DEF Aimed, Address
  <2>2. 4 * (Pos \div 4) + (Pos % 4) + k = Pos + k /\ (Pos % 4) + k < 4
    BY <1>2, <1>3
  <2>. QED
    BY <1>4, <1>5, <2>1, <2>2 DEF Reached, Asked, There
<1>6. CASE method # "conf1"
  <2>1. cf8 = request.dev.func /\ cfa = request.dev.bus
    BY <1>6 DEF Aimed
  <2>2. request.dev = [bus |-> request.dev.bus, dev |-> request.dev.dev, func |-> request.dev.func]
    BY <1>2, PciAssumption
  <2>. QED
    BY <1>4, <1>6, <2>1, <2>2 DEF Reached, Asked, There
<1>. QED
  BY <1>5, <1>6

-----------------------------------------------------------------------------
LEMMA InitInv == ASSUME Init PROVE Inv
<1>1. request \in Requests /\ method \in Methods
  BY DEF Init
<1>2. Types
  BY <1>1, PciAssumption DEF Init, Types, InitialSpace, Blank
<1>3. Pending
  BY <1>1, RequestFacts, EmptySeq DEF Init, Pending, Within, Ordered
<1>4. Possible /\ Accounted /\ ClosedBetweenRequests
  BY <1>1 DEF Init, Possible, Accounted, Misaimed, ClosedBetweenRequests
<1>. QED
  BY <1>2, <1>3, <1>4 DEF Inv

LEMMA TypesStep == ASSUME Inv, [Next]_vars PROVE Types'
<1>. USE DEF Inv, Types, Happens
<1>1. CASE Call
  <2>1. PICK r \in Requests : /\ request' = r
                              /\ buf' = IF r.op = "write" THEN Given(r) ELSE Blank(r)
    BY <1>1 DEF Call
  <2>. QED
    BY <1>1, <2>1 DEF Call, Given, Blank, Positions
<1>2. CASE Exit \/ conf2_read_Beyond \/ Split
  BY <1>2 DEF Exit, conf2_read_Beyond, Split, After
<1>3. CASE SetAddress \/ SetFunc \/ SetBus \/ Close
  <2>1. PICK done \in BOOLEAN : Happens(done)
    BY <1>3 DEF SetAddress, SetFunc, SetBus, Close
  <2>2. lost' \in 0 .. MaxLost
    BY <2>1, PciAssumption
  <2>. QED
    BY <1>3, <2>2 DEF SetAddress, SetFunc, SetBus, Close
<1>4. CASE ReadData
  <2>1. PICK done \in BOOLEAN : Happens(done) /\ strays' = strays + IF done /\ IsStray THEN 1 ELSE 0
    BY <1>4 DEF ReadData
  <2>2. lost' \in 0 .. MaxLost /\ strays' \in Nat
    BY <2>1, PciAssumption
  <2>3. DOMAIN buf' = DOMAIN buf /\ buf' = [p \in DOMAIN buf' |-> buf'[p]]
    BY <1>4 DEF ReadData
  <2>. QED
    BY <1>4, <2>2, <2>3 DEF ReadData, After
<1>5. CASE WriteData
  <2>1. PICK done \in BOOLEAN : Happens(done) /\ strays' = strays + IF done /\ IsStray THEN 1 ELSE 0
    BY <1>5 DEF WriteData
  <2>2. lost' \in 0 .. MaxLost /\ strays' \in Nat
    BY <2>1, PciAssumption
  <2>3. DOMAIN space' = DOMAIN space /\ space' = [a \in DOMAIN space' |-> space'[a]]
    BY <1>5 DEF WriteData
  <2>. QED
    BY <1>5, <2>2, <2>3 DEF WriteData, After
<1>6. CASE OthersUse
  BY <1>6, PciAssumption DEF OthersUse
<1>7. CASE UNCHANGED vars
  BY <1>7
<1>. QED
  BY <1>1, <1>2, <1>3, <1>4, <1>5, <1>6, <1>7 DEF Next

LEMMA PendingStep == ASSUME Inv, [Next]_vars PROVE Pending'
<1>. USE DEF Inv
<1>1. request \in Requests /\ request' \in Requests
  BY TypesStep DEF Types
<1>0. <<>> \in Seq(Piece) /\ Len(<<>>) = 0
  OBVIOUS
<1>2. CASE Call
  <2>1. PICK r \in Requests : request' = r /\ todo' = << <<r.pos, r.len>> >>
    BY <1>2 DEF Call
  <2>2. r.pos \in Nat /\ r.len \in Nat
    BY RequestsAssumption
  <2>3. todo' \in Seq(Piece) /\ Len(todo') = 1 /\ todo'[1] = <<r.pos, r.len>> /\ todo' # <<>>
    BY <2>1, <2>2 DEF Piece
  <2>4. Within(todo', request'.pos, End') /\ Ordered(todo') /\ todo' = Whole'
    BY <2>1, <2>2, <2>3 DEF Within, Ordered, End, Whole
  <2>. QED
    BY <1>2, <2>3, <2>4 DEF Call, Pending
<1>3. CASE Exit \/ conf2_read_Beyond
  <2>1. todo' = <<>> /\ pc' \in {"idle", "exited"} /\ request' = request
    BY <1>3 DEF Exit, conf2_read_Beyond
  <2>2. Len(todo') = 0 /\ todo' \in Seq(Piece)
    BY <1>0, <2>1
  <2>3. \A i \in 1 .. Len(todo') : FALSE
    BY <2>2
  <2>. QED
    BY <2>1, <2>2, <2>3 DEF Pending, Within, Ordered
<1>4. CASE SetAddress \/ SetFunc \/ SetBus \/ Close
  BY <1>4 DEF SetAddress, SetFunc, SetBus, Close, Pending, Whole, End
<1>5. CASE ReadData \/ WriteData
  <2>1. todo # <<>> /\ todo' = Tail(todo) /\ request' = request
        /\ pc' \in {"close", "idle", "addr"} /\ (pc' = "idle" => todo' = <<>>)
        /\ (pc' = "addr" => todo' # <<>>)
    BY <1>5 DEF ReadData, WriteData, After, Pending
  <2>. QED
    BY <2>1, FrontPiece DEF Pending, End
<1>6. CASE Split
  <2>1. /\ todo # <<>> /\ request' = request /\ Size \notin {1, 2, 4}
        /\ todo' = pci_generic_block_op(Pos, Size) \o Tail(todo)
        /\ pc' \in {"close", "idle", "addr"} /\ (pc' = "idle" => todo' = <<>>)
        /\ (pc' = "addr" => todo' # <<>>)
    BY <1>6 DEF Split, After, Pending
  <2>2. Pos = request.pos /\ Size = request.len /\ Tail(todo) = <<>> /\ Pos \in Nat /\ Size \in Nat
    BY <2>1, FrontPiece
  <2>3. Cut(pci_generic_block_op(Pos, Size), request.pos, End)
    BY <2>2, BlockIsCut DEF End
  <2>4. todo' = pci_generic_block_op(Pos, Size)
    BY <2>1, <2>2, <2>3, ConcatEmptySeq DEF Cut
  <2>. QED
    BY <2>1, <2>3, <2>4 DEF Pending, Cut, End
<1>7. CASE OthersUse \/ UNCHANGED vars
  BY <1>7 DEF OthersUse, Pending, Whole, End
<1>. QED
  BY <1>2, <1>3, <1>4, <1>5, <1>6, <1>7 DEF Next

LEMMA PossibleStep == ASSUME Inv, [Next]_vars PROVE Possible'
<1>. USE DEF Inv, Possible, Unaligned, Beyond
<1>1. CASE Call
  BY <1>1 DEF Call, Whole
<1>2. CASE Exit \/ conf2_read_Beyond
  BY <1>2 DEF Exit, conf2_read_Beyond
<1>3. CASE SetAddress \/ SetFunc \/ SetBus
  BY <1>3 DEF SetAddress, SetFunc, SetBus
<1>4. CASE ReadData \/ WriteData \/ Split \/ Close
  BY <1>4 DEF ReadData, WriteData, Split, Close, After
<1>5. CASE OthersUse \/ UNCHANGED vars
  BY <1>5 DEF OthersUse, Whole
<1>. QED
  BY <1>1, <1>2, <1>3, <1>4, <1>5 DEF Next

LEMMA AccountedStep == ASSUME Inv, [Next]_vars PROVE Accounted'
<1>. USE DEF Inv, Accounted, Misaimed, Happens
<1>1. /\ strays \in Nat /\ others \in Nat /\ lost \in Nat
      /\ strays' \in Nat /\ others' \in Nat /\ lost' \in Nat
  BY TypesStep, PciAssumption DEF Types
<1>2. CASE Call \/ Exit \/ conf2_read_Beyond \/ Split
  <2>1. pc' \notin {"bus", "data"} /\ strays' = strays /\ others' = others /\ lost' = lost
    BY <1>2 DEF Call, Exit, conf2_read_Beyond, Split, After
  <2>. QED
    BY <1>1, <2>1
<1>3. CASE SetAddress
  <2>1. PICK done \in BOOLEAN : /\ lost' = lost + (IF done THEN 0 ELSE 1)
                                /\ cf8' = IF done THEN Address(request.dev, Pos) ELSE cf8
    BY <1>3 DEF SetAddress
  <2>2. done => Aimed'
    BY <1>3, <2>1 DEF SetAddress, Aimed, Pos
  <2>. QED
    BY <1>1, <1>3, <2>1, <2>2 DEF SetAddress
<1>4. CASE SetFunc
  <2>1. PICK done \in BOOLEAN : /\ lost' = lost + (IF done THEN 0 ELSE 1)
                                /\ cf8' = IF done THEN request.dev.func ELSE cf8
    BY <1>4 DEF SetFunc
  <2>2. done => Aimed'
    BY <1>4, <2>1 DEF SetFunc, Aimed
  <2>. QED
    BY <1>1, <1>4, <2>1, <2>2 DEF SetFunc
<1>5. CASE SetBus
  <2>1. PICK done \in BOOLEAN : /\ lost' = lost + (IF done THEN 0 ELSE 1)
                                /\ cfa' = IF done THEN request.dev.bus ELSE cfa
    BY <1>5 DEF SetBus
  <2>2. done /\ ~Aimed' => ~Aimed
    BY <1>5, <2>1 DEF SetBus, Aimed, Possible
  <2>. QED
    BY <1>1, <1>5, <2>1, <2>2 DEF SetBus
<1>6. CASE ReadData \/ WriteData
  <2>1. PICK done \in BOOLEAN : /\ lost' = lost + (IF done THEN 0 ELSE 1)
                                /\ strays' = strays + IF done /\ IsStray THEN 1 ELSE 0
    BY <1>6 DEF ReadData, WriteData
  <2>2. IsStray => ~Aimed
    BY <1>6, AimedReaches DEF ReadData, WriteData, IsStray
  <2>3. pc = "data" /\ pc' \notin {"bus", "data"} /\ others' = others
    BY <1>6 DEF ReadData, WriteData, After
  <2>. QED
    BY <1>1, <2>1, <2>2, <2>3
<1>7. CASE Close
  <2>1. PICK done \in BOOLEAN : lost' = lost + (IF done THEN 0 ELSE 1)
    BY <1>7 DEF Close
  <2>. QED
    BY <1>1, <1>7, <2>1 DEF Close
<1>8. CASE OthersUse
  BY <1>1, <1>8 DEF OthersUse
<1>9. CASE UNCHANGED vars
  <2>1. Misaimed' = Misaimed
    BY <1>9 DEF Aimed, Pos
  <2>. QED
    BY <1>9, <2>1
<1>. QED
  BY <1>2, <1>3, <1>4, <1>5, <1>6, <1>7, <1>8, <1>9 DEF Next

LEMMA ClosedStep == ASSUME Inv, [Next]_vars PROVE ClosedBetweenRequests'
<1>. USE DEF Inv, ClosedBetweenRequests, Happens
<1>1. lost \in Nat
  BY PciAssumption DEF Types
<1>2. CASE Call \/ Exit \/ conf2_read_Beyond
  BY <1>2 DEF Call, Exit, conf2_read_Beyond
<1>3. CASE SetAddress \/ SetFunc \/ SetBus
  BY <1>3 DEF SetAddress, SetFunc, SetBus
<1>4. CASE ReadData \/ WriteData \/ Split
  BY <1>4 DEF ReadData, WriteData, Split, After
<1>5. CASE Close
  <2>1. PICK done \in BOOLEAN : /\ lost' = lost + (IF done THEN 0 ELSE 1)
                                /\ cf8' = IF done THEN Closed ELSE cf8
    BY <1>5 DEF Close
  <2>. QED
    BY <1>1, <2>1
<1>6. CASE OthersUse \/ UNCHANGED vars
  BY <1>6 DEF OthersUse
<1>. QED
  BY <1>2, <1>3, <1>4, <1>5, <1>6 DEF Next

LEMMA InvStep == Inv /\ [Next]_vars => Inv'
BY TypesStep, PendingStep, PossibleStep, AccountedStep, ClosedStep DEF Inv

LEMMA InvHolds == Spec => []Inv
BY InitInv, InvStep, PTL DEF Spec

\* The accesses still to be made are within the request, and every port holds
\* what it can hold.
THEOREM Typed == Spec => []TypeOK
<1>1. Inv => TypeOK
  <2>. SUFFICES ASSUME Inv, NEW i \in DOMAIN todo
                PROVE  todo[i][1] .. todo[i][1] + todo[i][2] - 1 \subseteq Positions(request)
    BY DEF Inv, Types, TypeOK
  <2>1. todo \in Seq(Piece) /\ Within(todo, request.pos, End) /\ i \in 1 .. Len(todo)
    BY DEF Inv, Pending
  <2>2. todo[i] \in Piece /\ request.pos <= todo[i][1] /\ todo[i][1] + todo[i][2] <= End
    BY <2>1, ElementOfSeq DEF Within
  <2>3. Positions(request) = request.pos .. End - 1 /\ request.pos \in Nat /\ End \in Nat
    BY RequestFacts DEF Inv, Types
  <2>. QED
    BY <2>2, <2>3 DEF Piece
<1>. QED
  BY <1>1, InvHolds, PTL

\* Every stray data access is accounted for by a disturbance of its own.
THEOREM DamageIsBounded == Spec => []DamageBounded
<1>1. Inv => DamageBounded
  <2>. SUFFICES ASSUME Inv PROVE strays <= others + lost
    BY DEF DamageBounded
  <2>1. strays \in Nat /\ others \in Nat /\ lost \in Nat
    BY PciAssumption DEF Inv, Types
  <2>. QED
    BY <2>1 DEF Inv, Accounted
<1>. QED
  BY <1>1, InvHolds, PTL

\* Port 0xCF8 is 0 again behind every access of conf2.
THEOREM ClosedAgain == Spec => []ClosedBetweenRequests
<1>1. Inv => ClosedBetweenRequests
  BY DEF Inv
<1>. QED
  BY <1>1, InvHolds, PTL

-----------------------------------------------------------------------------
(***************************************************************************)
(* The refinement.  While nothing has disturbed the ports every data       *)
(* access is aimed right (Accounted with both counters at 0) and so is one *)
(* Move of ConfigSpace; the address accesses are stutters.                 *)
(***************************************************************************)
LEMMA BytesOf ==
  ASSUME NEW s, NEW x
  PROVE  x \in Bytes(s) <=> \E i \in 1 .. Len(s) : x \in s[i][1] .. s[i][1] + s[i][2] - 1
BY DEF Bytes

LEMMA BytesOfNone == Bytes(<<>>) = {}
<1>1. Len(<<>>) = 0
  BY EmptySeq
<1>2. \A i \in 1 .. Len(<<>>) : FALSE
  BY <1>1
<1>. QED
  BY <1>2 DEF Bytes

\* A piece that is done leaves the bytes of the others to do.
LEMMA BytesOfTail ==
  ASSUME NEW s \in Seq(Piece), s # <<>>, NEW lo \in Nat, NEW hi \in Nat,
         Within(s, lo, hi), Ordered(s)
  PROVE  LET S == Head(s)[1] .. Head(s)[1] + Head(s)[2] - 1
         IN  S \subseteq Bytes(s) /\ Bytes(Tail(s)) = Bytes(s) \ S
<1> DEFINE S == Head(s)[1] .. Head(s)[1] + Head(s)[2] - 1
<1>1. /\ Head(s) = s[1] /\ s[1] \in Piece /\ 1 \in 1 .. Len(s) /\ Tail(s) \in Seq(Piece)
      /\ \A i \in 1 .. Len(Tail(s)) : /\ Tail(s)[i] = s[i + 1] /\ i + 1 \in 1 .. Len(s)
                                      /\ Behind(s[1], Tail(s)[i])
  BY TailOf
<1>2. \A i \in 1 .. Len(s) : i = 1 \/ i - 1 \in 1 .. Len(Tail(s))
  BY <1>1, HeadTailProperties
<1>3. S \subseteq Bytes(s)
  BY <1>1, BytesOf
<1>4. ASSUME NEW x \in Bytes(Tail(s)) PROVE x \in Bytes(s) /\ x \notin S
  <2>1. PICK i \in 1 .. Len(Tail(s)) : x \in Tail(s)[i][1] .. Tail(s)[i][1] + Tail(s)[i][2] - 1
    BY <1>4, BytesOf
  <2>2. x \in Bytes(s)
    <3>1. i + 1 \in 1 .. Len(s) /\ x \in s[i + 1][1] .. s[i + 1][1] + s[i + 1][2] - 1
      BY <1>1, <2>1
    <3>. QED
      BY <3>1, BytesOf
  <2>3. Tail(s)[i] \in Piece /\ s[1][1] + s[1][2] <= Tail(s)[i][1]
    BY <1>1, ElementOfSeq DEF Behind
  <2>4. x \notin S
    <3>1. /\ Tail(s)[i][1] \in Nat /\ Tail(s)[i][2] \in Nat
          /\ s[1][1] \in Nat /\ s[1][2] \in Nat /\ S = s[1][1] .. s[1][1] + s[1][2] - 1
      BY <1>1, <2>3 DEF Piece
    <3>. QED
      BY <2>1, <2>3, <3>1
  <2>. QED
    BY <2>2, <2>4
<1>5. ASSUME NEW x \in Bytes(s), x \notin S PROVE x \in Bytes(Tail(s))
  <2>1. PICK i \in 1 .. Len(s) : x \in s[i][1] .. s[i][1] + s[i][2] - 1
    BY <1>5, BytesOf
  <2>2. i # 1
    BY <1>1, <1>5, <2>1
  <2>3. i - 1 \in 1 .. Len(Tail(s)) /\ Tail(s)[i - 1] = s[(i - 1) + 1] /\ (i - 1) + 1 = i
    BY <1>1, <1>2, <2>2
  <2>. QED
    BY <2>1, <2>3, BytesOf
<1>. QED
  BY <1>3, <1>4, <1>5

LEMMA BytesOfCut ==
  ASSUME NEW s, NEW lo \in Nat, NEW hi \in Nat, Cut(s, lo, hi)
  PROVE  Bytes(s) = lo .. hi - 1
<1>1. ASSUME NEW x \in Bytes(s) PROVE x \in lo .. hi - 1
  <2>1. PICK i \in 1 .. Len(s) : x \in s[i][1] .. s[i][1] + s[i][2] - 1
    BY <1>1, BytesOf
  <2>2. s[i] \in Piece /\ lo <= s[i][1] /\ s[i][1] + s[i][2] <= hi
    BY ElementOfSeq DEF Cut, Within
  <2>. QED
    BY <2>1, <2>2 DEF Piece
<1>2. ASSUME NEW x \in lo .. hi - 1 PROVE x \in Bytes(s)
  <2>1. PICK i \in 1 .. Len(s) : s[i][1] <= x /\ x < s[i][1] + s[i][2]
    BY <1>2 DEF Cut, Covers
  <2>2. s[i] \in Piece
    BY ElementOfSeq DEF Cut
  <2>3. x \in s[i][1] .. s[i][1] + s[i][2] - 1
    BY <1>2, <2>1, <2>2 DEF Piece
  <2>. QED
    BY <2>3, BytesOf
<1>. QED
  BY <1>1, <1>2

LEMMA BytesOfOne ==
  ASSUME NEW p, NEW n PROVE Bytes(<< <<p, n>> >>) = p .. p + n - 1
<1> DEFINE s == << <<p, n>> >>
<1>1. Len(s) = 1 /\ s[1] = <<p, n>>
  OBVIOUS
<1> HIDE DEF s
<1>2. \A i \in 1 .. Len(s) : s[i][1] = p /\ s[i][2] = n
  BY <1>1
<1>3. 1 \in 1 .. Len(s)
  BY <1>1
<1>4. Bytes(s) = p .. p + n - 1
  BY <1>2, <1>3 DEF Bytes
<1>. QED
  BY <1>4 DEF s

LEMMA BytesOfWhole == todo = Whole => Bytes(todo) = Positions(request)
BY BytesOfOne DEF Whole, Positions

LEMMA NothingAdded ==
  ASSUME NEW a \in Nat, NEW b \in Nat, NEW c \in Nat, NEW d \in Nat,
         c \in {a, a + 1}, d \in {b, b + 1}, ~(c + d > 0)
  PROVE  a = 0 /\ b = 0 /\ c = 0 /\ d = 0
OBVIOUS

\* What an undisturbed step leaves as it is.
LEMMA UndisturbedStep ==
  ASSUME Inv, Next, ~(others' + lost' > 0)
  PROVE  /\ ~OthersUse /\ ~Misaimed /\ others = 0 /\ lost = 0 /\ others' = 0 /\ lost' = 0
<1>1. /\ strays \in Nat /\ others \in Nat /\ lost \in Nat /\ others' \in Nat /\ lost' \in Nat
  BY TypesStep, PciAssumption DEF Inv, Types
<1>2. others' \in {others, others + 1} /\ lost' \in {lost, lost + 1}
  <2>1. CASE Call \/ Exit \/ conf2_read_Beyond \/ Split \/ OthersUse
    BY <2>1 DEF Call, Exit, conf2_read_Beyond, Split, OthersUse
  <2>2. CASE SetAddress \/ SetFunc \/ SetBus \/ ReadData \/ WriteData \/ Close
    <3>1. PICK done \in BOOLEAN : Happens(done)
      BY <2>2 DEF SetAddress, SetFunc, SetBus, ReadData, WriteData, Close
    <3>2. others' = others
      BY <2>2 DEF SetAddress, SetFunc, SetBus, ReadData, WriteData, Close
    <3>. QED
      BY <1>1, <3>1, <3>2 DEF Happens
  <2>. QED
    BY <2>1, <2>2 DEF Next
<1>3. others = 0 /\ lost = 0 /\ others' = 0 /\ lost' = 0
  BY <1>1, <1>2, NothingAdded
<1>4. ~OthersUse
  BY <1>3 DEF OthersUse
<1>5. ~Misaimed
  <2>. SUFFICES ASSUME Misaimed PROVE FALSE
    OBVIOUS
  <2>1. strays + 1 <= others + lost
    BY DEF Inv, Accounted
  <2>. QED
    BY <1>1, <1>3, <2>1
<1>. QED
  BY <1>3, <1>4, <1>5

\* The access that ReadData and WriteData make, undisturbed.
LEMMA UndisturbedAccess ==
  ASSUME Inv, Next, ~(others' + lost' > 0), ReadData \/ WriteData
  PROVE  LET S == Pos .. Pos + Size - 1
         IN  /\ S \subseteq Bytes(todo) /\ Bytes(todo)' = Bytes(todo) \ S
             /\ \A k \in 0 .. Size - 1 : Reached(k) = <<request.dev, Pos + k>> /\ There(k)
             /\ \A p \in S : p - Pos \in 0 .. Size - 1 /\ Pos + (p - Pos) = p
             /\ pc' \in {"close", "addr"} \/ (pc' = "idle" /\ Bytes(todo)' = {})
             /\ Pos \in Nat /\ Size \in Nat
<1>1. pc = "data" /\ Size \in {1, 2, 4} /\ todo # <<>> /\ todo' = Tail(todo)
      /\ (pc' \in {"close", "addr"} \/ (pc' = "idle" /\ todo' = <<>>))
  BY DEF Inv, Pending, ReadData, WriteData, After
<1>2. Aimed
  BY <1>1, UndisturbedStep DEF Misaimed
<1>3. \A k \in 0 .. Size - 1 : Reached(k) = <<request.dev, Pos + k>> /\ There(k)
  BY <1>1, <1>2, AimedReaches DEF Inv, Asked
<1>4. Head(todo)[1] = Pos /\ Head(todo)[2] = Size /\ Pos \in Nat /\ Size \in Nat
  BY <1>1, FrontPiece DEF Inv, Pos, Size
<1>5. request.pos \in Nat /\ End \in Nat
  BY RequestFacts DEF Inv, Types
<1>6. /\ Pos .. Pos + Size - 1 \subseteq Bytes(todo)
      /\ Bytes(Tail(todo)) = Bytes(todo) \ (Pos .. Pos + Size - 1)
  BY <1>1, <1>4, <1>5, BytesOfTail DEF Inv, Pending
<1>7. Bytes(todo)' = Bytes(Tail(todo))
  BY <1>1 DEF Bytes
<1>8. \A p \in Pos .. Pos + Size - 1 : p - Pos \in 0 .. Size - 1 /\ Pos + (p - Pos) = p
  BY <1>4
<1>9. todo' = <<>> => Bytes(todo)' = {}
  BY <1>1, <1>7, BytesOfNone
<1>. QED
  BY <1>1, <1>3, <1>4, <1>6, <1>7, <1>8, <1>9

LEMMA InitRefines == Init => Space!Init
<1>. SUFFICES ASSUME Init PROVE Space!Init
  OBVIOUS
<1>1. ~(others + lost > 0)
  BY DEF Init
<1>2. Bytes(todo) = {}
  BY BytesOfNone DEF Init
<1>. QED
  BY <1>1, <1>2 DEF Init, Space!Init, Blank, Space!Blank, Positions, Space!Positions

\* The lemmas below are for a step that nothing has disturbed.
LEMMA CallRefines == Inv /\ Call => Space!Call
<1>. SUFFICES ASSUME Inv, Call PROVE Space!Call
  OBVIOUS
<1>1. PICK r \in Requests : /\ request' = r /\ todo' = << <<r.pos, r.len>> >>
                            /\ buf' = IF r.op = "write" THEN Given(r) ELSE Blank(r)
  BY DEF Call
<1>2. Bytes(todo)' = Positions(r)
  <2>1. Bytes(todo)' = Bytes(<< <<r.pos, r.len>> >>)
    BY <1>1 DEF Bytes
  <2>. QED
    BY <2>1, BytesOfOne DEF Positions
<1>. QED
  BY <1>1, <1>2 DEF Call, Space!Call, Given, Space!Given, Blank, Space!Blank, Positions, Space!Positions

LEMMA NothingRefines == Inv /\ (Exit \/ conf2_read_Beyond) => Space!Exit \/ Space!NoSuchDevice
<1>. SUFFICES ASSUME Inv, Exit \/ conf2_read_Beyond PROVE Space!Exit \/ Space!NoSuchDevice
  OBVIOUS
<1>1. pc = "addr" /\ (Unaligned \/ Beyond)
  BY DEF Exit, conf2_read_Beyond
<1>2. Bytes(todo) = Positions(request)
  BY <1>1, BytesOfWhole DEF Inv, Possible
<1>3. Bytes(todo)' = {}
  <2>1. todo' = <<>>
    BY DEF Exit, conf2_read_Beyond
  <2>2. Bytes(todo)' = Bytes(<<>>)
    BY <2>1 DEF Bytes
  <2>. QED
    BY <2>2, BytesOfNone
<1>. QED
  BY <1>1, <1>2, <1>3 DEF Exit, conf2_read_Beyond, Space!Exit, Space!NoSuchDevice, Positions, Space!Positions

LEMMA ReadRefines ==
  ASSUME Inv, Next, ~(others' + lost' > 0), ReadData PROVE Space!Move
<1> DEFINE S == Pos .. Pos + Size - 1
<1>1. /\ S \in SUBSET Bytes(todo) /\ Bytes(todo)' = Bytes(todo) \ S
      /\ \A k \in 0 .. Size - 1 : Reached(k) = <<request.dev, Pos + k>> /\ There(k)
      /\ \A p \in S : p - Pos \in 0 .. Size - 1 /\ Pos + (p - Pos) = p
      /\ pc' \in {"close", "addr"} \/ (pc' = "idle" /\ Bytes(todo)' = {})
  BY UndisturbedAccess
<1>2. pc = "data" /\ request.op = "read" /\ UNCHANGED <<request, space>>
  BY DEF ReadData
<1>3. PICK done \in BOOLEAN :
        /\ Happens(done)
        /\ buf' = [p \in DOMAIN buf |->
                     IF p \notin S THEN buf[p]
                     ELSE IF done /\ There(p - Pos) THEN space[Reached(p - Pos)] ELSE Ones]
  BY DEF ReadData
<1>4. done
  BY <1>3, UndisturbedStep DEF Happens
<1>5. \A p \in S : There(p - Pos) /\ space[Reached(p - Pos)] = space[<<request.dev, p>>]
  BY <1>1
<1>6. buf' = [p \in DOMAIN buf |-> IF p \in S THEN space[<<request.dev, p>>] ELSE buf[p]]
  BY <1>3, <1>4, <1>5
<1>7. pc' = "idle" => Bytes(todo) = S
  BY <1>1
<1> HIDE DEF S
<1>. QED
  BY <1>1, <1>2, <1>6, <1>7 DEF Space!Move

LEMMA WriteRefines ==
  ASSUME Inv, Next, ~(others' + lost' > 0), WriteData PROVE Space!Move
<1> DEFINE S == Pos .. Pos + Size - 1
           K == 0 .. Size - 1
<1>1. /\ S \in SUBSET Bytes(todo) /\ Bytes(todo)' = Bytes(todo) \ S
      /\ \A k \in K : Reached(k) = <<request.dev, Pos + k>> /\ There(k)
      /\ \A p \in S : p - Pos \in K /\ Pos + (p - Pos) = p
      /\ pc' \in {"close", "addr"} \/ (pc' = "idle" /\ Bytes(todo)' = {})
      /\ Pos \in Nat /\ Size \in Nat
  BY UndisturbedAccess
<1>2. pc = "data" /\ request.op = "write" /\ request.op # "read" /\ UNCHANGED <<request, buf>>
  BY DEF WriteData
<1>3. PICK done \in BOOLEAN :
        /\ Happens(done)
        /\ space' = [a \in DOMAIN space |->
                       IF \E k \in K : done /\ There(k) /\ Reached(k) = a
                         THEN buf[Pos + (CHOOSE k \in K : Reached(k) = a)] ELSE space[a]]
  BY DEF WriteData
<1>4. done
  BY <1>3, UndisturbedStep DEF Happens
<1>5. ASSUME NEW a \in DOMAIN space
      PROVE  (IF \E k \in K : done /\ There(k) /\ Reached(k) = a
                THEN buf[Pos + (CHOOSE k \in K : Reached(k) = a)] ELSE space[a])
             = (IF a[1] = request.dev /\ a[2] \in S THEN buf[a[2]] ELSE space[a])
  <2>1. a = <<a[1], a[2]>>
    BY DEF Inv, Types
  <2>2. CASE a[1] = request.dev /\ a[2] \in S
    <3>1. a[2] - Pos \in K /\ Pos + (a[2] - Pos) = a[2]
      BY <1>1, <2>2
    <3>2. Reached(a[2] - Pos) = a /\ There(a[2] - Pos)
      BY <1>1, <2>1, <2>2, <3>1
    <3>3. \A k \in K : Reached(k) = a => Pos + k = a[2]
      BY <1>1
    <3>4. Pos + (CHOOSE k \in K : Reached(k) = a) = a[2]
      BY <3>1, <3>2, <3>3
    <3>. QED
      BY <1>4, <2>2, <3>1, <3>2, <3>4
  <2>3. CASE ~(a[1] = request.dev /\ a[2] \in S)
    <3>1. \A k \in K : Pos + k \in S
      BY <1>1
    <3>2. ~\E k \in K : Reached(k) = a
      BY <1>1, <2>3, <3>1
    <3>. QED
      BY <2>3, <3>2
  <2>. QED
    BY <2>2, <2>3
<1>6. space' = [a \in DOMAIN space |-> IF a[1] = request.dev /\ a[2] \in S THEN buf[a[2]] ELSE space[a]]
  BY <1>3, <1>5
<1>7. pc' = "idle" => Bytes(todo) = S
  BY <1>1
<1> HIDE DEF S
<1>. QED
  BY <1>1, <1>2, <1>6, <1>7 DEF Space!Move

\* A split, or a closed bracket, moves nothing.
LEMMA SplitRefines == Inv /\ (Split \/ Close) => Space!Move
<1>. SUFFICES ASSUME Inv, Split \/ Close PROVE Space!Move
  OBVIOUS
<1>1. pc \in {"data", "close"} /\ UNCHANGED <<space, request, buf>>
      /\ (pc' \in {"close", "addr"} \/ (pc' = "idle" /\ todo' = <<>>))
  BY DEF Split, Close, After
<1>2. Bytes(todo)' = Bytes(todo)
  <2>1. CASE Close
    BY <2>1 DEF Close, Bytes
  <2>2. CASE Split
    <3>1. /\ Size \notin {1, 2, 4} /\ todo # <<>>
          /\ todo' = pci_generic_block_op(Pos, Size) \o Tail(todo)
      BY <2>2 DEF Split, Inv, Pending
    <3>2. /\ todo = Whole /\ Pos = request.pos /\ Size = request.len /\ Tail(todo) = <<>>
          /\ Pos \in Nat /\ Size \in Nat
      BY <3>1, FrontPiece DEF Inv
    <3>3. Cut(pci_generic_block_op(Pos, Size), Pos, Pos + Size)
      BY <3>2, BlockIsCut
    <3>4. todo' = pci_generic_block_op(Pos, Size)
      BY <3>1, <3>2, <3>3, ConcatEmptySeq DEF Cut
    <3>5. Bytes(todo') = Pos .. Pos + Size - 1
      BY <3>2, <3>3, <3>4, BytesOfCut
    <3>6. Bytes(todo) = Pos .. Pos + Size - 1
      BY <3>2, BytesOfWhole DEF Positions
    <3>. QED
      BY <3>5, <3>6 DEF Bytes
  <2>. QED
    BY <2>1, <2>2
<1>3. pc' = "idle" => Bytes(todo) = {}
  <2>1. todo' = <<>> => Bytes(todo)' = Bytes(<<>>)
    BY DEF Bytes
  <2>. QED
    BY <1>1, <1>2, <2>1, BytesOfNone
<1>4. /\ {} \in SUBSET Bytes(todo) /\ Bytes(todo)' = Bytes(todo) \ {}
      /\ buf' = [p \in DOMAIN buf |-> IF p \in {} THEN space[<<request.dev, p>>] ELSE buf[p]]
      /\ space' = [a \in DOMAIN space |-> IF a[1] = request.dev /\ a[2] \in {} THEN buf[a[2]] ELSE space[a]]
  BY <1>1, <1>2 DEF Inv, Types
<1>. QED
  BY <1>1, <1>3, <1>4 DEF Space!Move

LEMMA StepRefines == Inv /\ [Next]_vars => [Space!Next]_(Space!vars)
<1>. SUFFICES ASSUME Inv, [Next]_vars PROVE [Space!Next]_(Space!vars)
  OBVIOUS
<1>1. CASE UNCHANGED vars
  BY <1>1 DEF Space!vars, Bytes
<1>2. CASE Next /\ others' + lost' > 0
  BY <1>2 DEF Space!Next
<1>3. CASE Next /\ ~(others' + lost' > 0)
  <2>1. ~OthersUse /\ (others + lost > 0)' = (others + lost > 0)
    BY <1>3, UndisturbedStep
  <2>2. CASE SetAddress \/ SetFunc \/ SetBus
    <3>1. UNCHANGED <<space, request, buf, todo>> /\ pc \in {"addr", "bus"} /\ pc' \in {"bus", "data"}
      BY <2>2 DEF SetAddress, SetFunc, SetBus
    <3>. QED
      BY <2>1, <3>1 DEF Space!vars, Bytes
  <2>3. CASE Call \/ Exit \/ conf2_read_Beyond \/ ReadData \/ WriteData \/ Split \/ Close
    BY <1>3, <2>1, <2>3, CallRefines, NothingRefines, ReadRefines, WriteRefines, SplitRefines
       DEF Space!Next, Space!Promised
  <2>. QED
    BY <1>3, <2>1, <2>2, <2>3 DEF Next
<1>. QED
  BY <1>1, <1>2, <1>3

\* Until its ports are disturbed, and while its IOCTLs happen, the program has
\* the configuration space it believes to have.
THEOREM SpaceImplemented == Spec => ImplementsConfigSpace
BY InvHolds, InitRefines, StepRefines, PTL DEF Spec, ImplementsConfigSpace, Space!Spec
=============================================================================
