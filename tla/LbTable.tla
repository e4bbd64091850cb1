------------------------------- MODULE LbTable -------------------------------
(***************************************************************************)
(* linuxbios_init: the search for the LinuxBIOS table in low memory, and   *)
(* the walk over its records to the one that names the mainboard.          *)
(*                                                                         *)
(* Memory is what happens to be there.  Its unit is the word: a header has *)
(* HEADER of them, candidates are STEP apart, sizes count words, and the   *)
(* checksum adds one word a step.  The code adds its two bytes one after   *)
(* the other, which comes to the same: either way the sum is taken modulo  *)
(* MaxWord, and is 0 only when nothing but zeros was added.  An address is *)
(* a word too, and counts from where the memory is mapped: the sizes found *)
(* are added to it without a test, and may take it around.  What a read    *)
(* outside the mapped memory does is not defined.                          *)
(***************************************************************************)
EXTENDS Integers, FiniteSets

CONSTANTS
  MaxWord,            \* words are 0 .. MaxWord, one less than a power of two
  LBIO,               \* the signature
  LB_TAG_MAINBOARD,
  LowEnd, HighStart,  \* the windows searched: from 0, and to the end of what is mapped
  MemSize, Base,      \* the words mapped, and the address of the first
  Memories,           \* what the memory may hold
  NoName, Option      \* no name; the name given with -m

HEADER == 6
STEP   == 4
Words  == 0 .. MaxWord
Mapped == 0 .. MemSize - 1

ASSUME TableAssumption == /\ MaxWord \in Nat \ {0} /\ MemSize \in Nat
                          /\ Base \in Nat /\ Base + MemSize <= MaxWord
                          /\ LowEnd \in Nat \ {0} /\ HighStart \in Nat /\ LowEnd <= HighStart
                          /\ HighStart % STEP = 0
                          /\ NoName # Option /\ {NoName, Option} \cap Nat = {}
ASSUME MemoriesAssumption == Memories \subseteq [Mapped -> Words]

VARIABLES
  mem,          \* external
  phase,        \* "find", "count", "header" and "table" while their words are added, "walk",
                \* "done"; "undefined" behind a read outside the mapping
  addr, head,   \* the candidate; the table found
  pos, sum,     \* compute_checksum: the word it is at, the sum so far
  rec, next,    \* the record count or walk is at; the end the walk tests
  count,        \* of count_lb_records
  named,        \* lb_part: set by -m (Option), by a record (its address), or NoName
  ret

adding    == <<pos, sum>>
tableVars == <<mem, phase, addr, head, adding, rec, next, count, named, ret>>

TableInit ==
  /\ mem \in Memories /\ phase = "find" /\ addr = 0
  /\ pos = 0 /\ sum = 0
  /\ head = NoName /\ rec = NoName /\ next = NoName /\ count = 0
  /\ named \in {NoName, Option} /\ ret = 0

header_bytes(h)    == mem[h + 1]
table_bytes(h)     == mem[h + 3]
table_checksum(h)  == mem[h + 4]
table_entries(h)   == mem[h + 5]
Tag(r)             == mem[r]
Size(r)            == mem[r + 1]

\* n words behind p, as the sum of two machine words
Plus(p, n)  == ((Base + p + n) % (MaxWord + 1)) - Base
EndOf(r)   == Plus(r, Size(r))
TableEnd(h) == Plus(h + HEADER, table_bytes(h))

\* where the words end that table_bytes counts
Extent(h) == h + HEADER + table_bytes(h)

\* (mutant) A record that reaches over the end is counted.
FitsOver(h, r) == Size(r) >= 1

\* the second and third test of for_each_lbrec
Fits(h, r) == Size(r) >= 1 /\ EndOf(r) <= TableEnd(h)

InWindow     == addr < LowEnd \/ (addr >= HighStart /\ addr < MemSize)
Candidate(a) == mem[a] = LBIO /\ header_bytes(a) = HEADER

\* the next candidate: of this window, or the first of the high one
GoToNext ==
  /\ addr' = IF addr < LowEnd /\ addr + STEP >= LowEnd THEN HighStart ELSE addr + STEP
  /\ phase' = "find"
  /\ UNCHANGED <<mem, head, adding, rec, next, count, named, ret>>

\* another signature or header size
Skip == phase = "find" /\ InWindow /\ ~Candidate(addr) /\ GoToNext

BeginCount ==
  /\ phase = "find" /\ InWindow /\ Candidate(addr) /\ addr + HEADER <= MemSize
  /\ phase' = "count" /\ rec' = addr + HEADER /\ count' = 0
  /\ UNCHANGED <<mem, addr, head, adding, next, named, ret>>

CountOne ==
  /\ phase = "count" /\ rec < TableEnd(addr) /\ rec + 1 \in Mapped /\ Fits(addr, rec)
  /\ rec' = EndOf(rec) /\ count' = (count + 1) % (MaxWord + 1)
  /\ UNCHANGED <<mem, phase, addr, head, adding, next, named, ret>>

CountEnds ==
  phase = "count" /\ (rec >= TableEnd(addr) \/ (rec + 1 \in Mapped /\ ~Fits(addr, rec)))

\* compute_checksum is called for the words from `first' on.
BeginSum(first) == pos' = first /\ sum' = 0

Counted ==
  /\ CountEnds /\ count = table_entries(addr)
  /\ phase' = "header" /\ BeginSum(addr)
  /\ UNCHANGED <<mem, addr, head, rec, next, count, named, ret>>

Miscounted == CountEnds /\ count # table_entries(addr) /\ GoToNext

End == IF phase = "header" THEN addr + HEADER ELSE Extent(addr)

\* (mutant) The carry is lost.
WrappedLost(s) == s % (MaxWord + 1)

\* the carry wrapped around: sum + (sum >> 16), and its lower half
Wrapped(s) == IF s > MaxWord THEN (s + s \div (MaxWord + 1)) % (MaxWord + 1) ELSE s

Add ==
  /\ phase \in {"header", "table"} /\ pos < End /\ pos \in Mapped
  /\ sum' = Wrapped(sum + mem[pos])
  /\ pos' = pos + 1
  /\ UNCHANGED <<mem, phase, addr, head, rec, next, count, named, ret>>

Result == MaxWord - sum

HeaderRight ==
  /\ phase = "header" /\ pos = End /\ Result = 0
  /\ phase' = "table" /\ BeginSum(addr + HEADER)
  /\ UNCHANGED <<mem, addr, head, rec, next, count, named, ret>>

HeaderWrong ==
  phase = "header" /\ pos = End /\ Result # 0 /\ GoToNext

\* The table is found; search_lb_records begins with the size of its first record.
Accept ==
  /\ phase = "table" /\ pos = End /\ Result = table_checksum(addr) /\ addr + HEADER + 1 \in Mapped
  /\ head' = addr /\ rec' = addr + HEADER /\ next' = EndOf(rec')
  /\ phase' = "walk"
  /\ UNCHANGED <<mem, addr, adding, count, named, ret>>

TableWrong ==
  phase = "table" /\ pos = End /\ Result # table_checksum(addr) /\ GoToNext

NoTable ==
  /\ phase = "find" /\ ~InWindow
  /\ phase' = "done" /\ ret' = -1
  /\ UNCHANGED <<mem, addr, head, adding, rec, next, count, named>>

EndOfTable == TableEnd(head)

Walking == phase = "walk" /\ rec < EndOfTable /\ next <= EndOfTable

\* find_mainboard: the name of the option stays.  Where the strings are in the
\* record, and what is read with indexes that lead out of it, is left out.
WalkFinds ==
  /\ Walking /\ {rec, rec + 1} \subseteq Mapped /\ Tag(rec) = LB_TAG_MAINBOARD
  /\ named' = IF named = NoName THEN rec ELSE named
  /\ phase' = "done"
  /\ UNCHANGED <<mem, addr, head, adding, rec, next, count, ret>>

\* (mutant) The walk goes from word to word.
WalkOnByWord ==
  /\ Walking /\ {rec, rec + 1} \subseteq Mapped /\ Tag(rec) # LB_TAG_MAINBOARD
  /\ rec' = rec + 1 /\ next' = rec + 1
  /\ UNCHANGED <<mem, phase, addr, head, adding, count, named, ret>>

\* `next' is tested before it is computed: the second test sees the start of a
\* record, not its end.
WalkOn ==
  /\ Walking /\ {rec, rec + 1} \subseteq Mapped /\ Tag(rec) # LB_TAG_MAINBOARD
  /\ rec' = EndOf(rec) /\ next' = EndOf(rec)
  /\ UNCHANGED <<mem, phase, addr, head, adding, count, named, ret>>

WalkEnds ==
  /\ phase = "walk" /\ ~Walking
  /\ phase' = "done"
  /\ UNCHANGED <<mem, addr, head, adding, rec, next, count, named, ret>>

\* A read outside what is mapped: nothing compares a record's size, or the
\* table's own, with it.  Behind each record of the walk the size of the next
\* one is read, though nothing comes of it: WalkOn is what a compiler leaves
\* that drops this read.
Overrun ==
  /\ \/ phase = "find" /\ InWindow /\ Candidate(addr) /\ addr + HEADER > MemSize
     \/ phase = "count" /\ rec < TableEnd(addr) /\ rec + 1 \notin Mapped
     \/ phase = "table" /\ pos < End /\ pos \notin Mapped
     \/ /\ phase = "table" /\ pos = End /\ Result = table_checksum(addr)
        /\ addr + HEADER + 1 \notin Mapped
     \/ Walking /\ ~({rec, rec + 1} \subseteq Mapped)
     \/ Walking /\ Tag(rec) # LB_TAG_MAINBOARD /\ EndOf(rec) + 1 \notin Mapped
  /\ phase' = "undefined"
  /\ UNCHANGED <<mem, addr, head, adding, rec, next, count, named, ret>>

TableNext ==
  \/ Skip \/ BeginCount \/ CountOne \/ Counted \/ Miscounted \/ Add \/ HeaderRight \/ HeaderWrong \/ Accept \/ TableWrong
  \/ Overrun \/ NoTable \/ WalkFinds \/ WalkOn \/ WalkEnds

TableSpec == TableInit /\ [][TableNext]_tableVars

-----------------------------------------------------------------------------
(***************************************************************************)
(* A good table, said of the memory alone: the words of the header, and of *)
(* the table with its checksum, add up to a multiple of MaxWord, and there *)
(* are as many records as the header says.  Nothing wraps around here.     *)
(***************************************************************************)
Table(h)     == h + HEADER .. Extent(h) - 1
Reached(h)   == {r \in Table(h) : \A S \in SUBSET Table(h) :
                   (/\ h + HEADER \in S
                    /\ \A q \in S : (q + 1 \in Mapped /\ Size(q) >= 1 /\ q + Size(q) < Extent(h))
                                    => q + Size(q) \in S)
                     => r \in S}
Records(h)   == {r \in Reached(h) : Size(r) >= 1 /\ r + Size(r) <= Extent(h)}
\* the first n words of m, added up
Sum(m, n) ==
  LET upTo[k \in 0 .. MemSize] == IF k = 0 THEN 0 ELSE upTo[k - 1] + m[k - 1] IN upTo[n]
Total(from, to) == Sum(mem, to) - Sum(mem, from)
Adds(h) ==
  /\ mem[h] = LBIO /\ header_bytes(h) = HEADER
  /\ Total(h, h + HEADER) % MaxWord = 0
  /\ (Total(h + HEADER, Extent(h)) + table_checksum(h)) % MaxWord = 0
RightCount(h) == Cardinality(Records(h)) = table_entries(h)

Candidates == {a \in Mapped : a % STEP = 0 /\ (a < LowEnd \/ a >= HighStart)}

WithinMapping(h) ==
  h + HEADER + 1 \in Mapped /\ Extent(h) <= MemSize /\ \A r \in Reached(h) : r + 1 \in Mapped

\* A record has a size that takes its end around the end of the addresses.
Wraps(h) == \E r \in Reached(h) : r + 1 \in Mapped /\ Base + r + Size(r) > MaxWord

\* Sums modulo MaxWord have two forms of zero, and compute_checksum never makes
\* this one of the words of the table.
OtherZero(h) == table_checksum(h) = IF \A a \in Table(h) : mem[a] = 0 THEN 0 ELSE MaxWord

(***************************************************************************)
(* The table used adds up and is complete, and is the first such of the    *)
(* candidates; -1 is returned only when there is none.  Left out are       *)
(* tables whose checksum is the other zero, which add up and are not       *)
(* taken, and the count of one with a record that wraps around: the code   *)
(* takes that record to end before its start, and counts what is there.    *)
(***************************************************************************)
Usable(a) ==
  /\ mem[a] = LBIO /\ header_bytes(a) = HEADER /\ WithinMapping(a)
  /\ Adds(a) /\ RightCount(a) /\ ~OtherZero(a) /\ ~Wraps(a)
FirstGoodTable ==
  /\ head # NoName => /\ Adds(head) /\ (Wraps(head) \/ RightCount(head))
                      /\ \A a \in Candidates : Usable(a) => a >= head
  /\ phase = "done" /\ ret = -1 => \A a \in Candidates : ~Usable(a)

(***************************************************************************)
(* The name comes from the first of the counted records that is a          *)
(* mainboard.  When none is, it can still come from what follows them in   *)
(* the table, which was not counted.  Of a table with a record that wraps  *)
(* around nothing is said.                                                 *)
(***************************************************************************)
NamedByTheTable ==
  (phase = "done" /\ head # NoName /\ named # Option /\ ~Wraps(head)) =>
    LET boards == {r \in Records(head) : Tag(r) = LB_TAG_MAINBOARD} IN
    IF boards = {} THEN named = NoName \/ (named \in Reached(head) \ Records(head)
                                         /\ Tag(named) = LB_TAG_MAINBOARD)
                   ELSE named \in boards /\ \A r \in boards : named <= r
=============================================================================
