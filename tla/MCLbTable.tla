------------------------------ MODULE MCLbTable ------------------------------
(***************************************************************************)
(* Memories of 20 words with candidates at 0, 4, 12 and 16.  The table in  *)
(* the low window has up to five words, right or wrong checksums and       *)
(* counts, and any sizes, two of which lead from the start of a table      *)
(* back before it; or it ends behind the last address.  The one in         *)
(* the high window is good and ends with the memory, or claims more than   *)
(* is mapped, or is a signature at the end of the memory.                  *)
(***************************************************************************)
EXTENDS LbTable, SequencesExt

OnesSum(ws) == LET all == FoldSeq(LAMBDA w, s : w + s, 0, ws)
               IN IF all = 0 THEN 0 ELSE 1 + ((all - 1) % MaxWord)

\* a table with its checksums, the one that `spoil' names off by one
TableOf(body, size, entries, spoil) ==
  LET off(which) == IF spoil = which THEN 1 ELSE 0
      made   == MaxWord - OnesSum(SubSeq(body, 1, size % (Len(body) + 1)))
      tcheck == IF spoil = "zero" /\ made = 0 THEN MaxWord ELSE (made + off("table")) % (MaxWord + 1)
      hcheck == (MaxWord - OnesSum(<<LBIO, HEADER, size, tcheck, entries>>) + off("header"))
                  % (MaxWord + 1)
  IN <<LBIO, HEADER, hcheck, size, tcheck, entries>> \o body

Put(at, words, m) ==
  [a \in Mapped |-> IF a >= at /\ a < at + Len(words) THEN words[a - at + 1] ELSE m[a]]

Bodies == {<<t1, s1, t2, s2, t3>> : t1, t2, t3 \in {1, LB_TAG_MAINBOARD},
                                    s1 \in {0, 2, 3, 4, 23, 30}, s2 \in {0, 2, 3, 4}}
Blank  == [a \in Mapped |-> 0]
Highs  == {Put(12, TableOf(<<LB_TAG_MAINBOARD, 2>>, 2, 1, "none"), Blank),
           Put(12, TableOf(<<LB_TAG_MAINBOARD, 2, 0>>, 3, 1, "none"), Blank),
           Put(12, TableOf(<<1, 2>>, 2, 1, "none"), Blank),
           Put(16, <<LBIO, HEADER>>, Blank)}
Lows   == {TableOf(b, size, n, "none") : b \in Bodies, size \in {0, 2, 4, 5}, n \in 0 .. 2}
            \cup {TableOf(b, size, n, "zero") : b \in Bodies, size \in {4, 5}, n \in {1, 2}}
            \cup {TableOf(b, size, n, spoil) :
                    b \in {<<1, 2, LB_TAG_MAINBOARD, 2, 1>>, <<LB_TAG_MAINBOARD, 4, 1, 2, 1>>},
                    size \in {4, 5}, n \in {1, 2}, spoil \in {"header", "table"}}
            \cup {TableOf(<<1, 2, 1, 2, 1>>, 30, n, "none") : n \in {0, 2}}

Sample == {Put(at, w, h) : at \in {0}, w \in Lows, h \in Highs}
            \cup {Put(4, w, Blank) : w \in Lows}
=============================================================================
