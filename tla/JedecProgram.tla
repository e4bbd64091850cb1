---------------------------- MODULE JedecProgram ----------------------------
(***************************************************************************)
(* The two programming loops of jedec.c with their retries:                *)
(* write_page_write_jedec (a page loaded and programmed at once, read      *)
(* back, and tried again from the byte that came out wrong) and            *)
(* write_byte_program_jedec.  FlashWriter takes each call as one step      *)
(* (ProgramPage, and a byte of ProgramByte); the invariant Outcome shows   *)
(* that these loops end in no state but those.                             *)
(*                                                                         *)
(* A byte is the set of its zero bits, as in FlashWriter.  The chip is     *)
(* external: of the bytes loaded, any may fail to take.                    *)
(***************************************************************************)
EXTENDS Integers

CONSTANTS
  PageSize, Bits,
  MAX_REFLASH_TRIES,
  Sources, Before     \* pages to write, pages the chip may hold before

Offsets == 0 .. PageSize - 1
PageType == [Offsets -> SUBSET Bits]

ASSUME SizesAssumption == PageSize \in Nat \ {0} /\ MAX_REFLASH_TRIES \in Nat
ASSUME SourcesAssumption == Sources \subseteq PageType /\ Before \subseteq PageType

VARIABLES
  routine,      \* "page": write_page_write_jedec, "byte": write_byte_program_jedec
  pageMode,     \* external: does the chip erase the page it is to program
  src, old,     \* the page to write; history: the page before
  dst,          \* external: the page of the chip
  pc,           \* "load", "compare", "done"
  start_index,
  tried,
  passes,       \* history: how often the page or the byte was programmed
  ret           \* the value returned, -2 before

vars == <<routine, pageMode, src, old, dst, pc, start_index, tried, passes, ret>>

\* write_byte_program_jedec works on byte 0 of the page, and at once returns -1
\* when there is nothing to program.
Init ==
  /\ routine \in {"page", "byte"}
  /\ pageMode \in IF routine = "page" THEN BOOLEAN ELSE {FALSE}
  /\ src \in Sources /\ old \in Before /\ dst = old
  /\ start_index = 0 /\ tried = 0 /\ passes = 0
  /\ IF routine = "byte" /\ src[0] = {} THEN pc = "done" /\ ret = -1
                                       ELSE pc = "load" /\ ret = -2

\* The bytes the loop loads: dst and src are back at the start of the page,
\* while i runs from start_index, so a retry loads the first of them only.
\* Bytes of 0xFF are stepped over.
Loaded == IF routine = "byte" THEN {0}
          ELSE {k \in 0 .. PageSize - 1 - start_index : src[k] # {}}

\* (mutant) A retry takes src from start_index on, and dst from the start.
ProgrammedShifted(taken) ==
  [k \in Offsets |-> IF k \in taken THEN IF pageMode THEN src[k + start_index]
                                                     ELSE dst[k] \cup src[k + start_index]
                                    ELSE IF pageMode THEN {} ELSE dst[k]]

\* external: the page after a program command of which the bytes `taken` took
Programmed(taken) ==
  [k \in Offsets |-> IF k \in taken THEN IF pageMode THEN src[k] ELSE dst[k] \cup src[k]
                                    ELSE IF pageMode THEN {} ELSE dst[k]]

Load ==
  /\ pc = "load"
  /\ \/ UNCHANGED dst
     \/ Loaded # {} /\ \E taken \in SUBSET Loaded : dst' = Programmed(taken)
  /\ passes' = passes + 1
  /\ pc' = "compare"
  /\ UNCHANGED <<routine, pageMode, src, old, start_index, tried, ret>>

\* (mutant) The comparison starts at start_index too.
CheckedFromWrong == IF routine = "byte" THEN {0} ELSE start_index .. PageSize - 1

Checked == IF routine = "byte" THEN {0} ELSE Offsets
Wrong   == {k \in Checked : dst[k] # src[k]}
FirstWrong == CHOOSE k \in Wrong : \A j \in Wrong : k <= j

Retry ==
  /\ pc = "compare" /\ Wrong # {} /\ tried < MAX_REFLASH_TRIES
  /\ tried' = tried + 1
  /\ start_index' = IF routine = "page" THEN FirstWrong ELSE 0
  /\ pc' = "load"
  /\ UNCHANGED <<routine, pageMode, src, old, dst, passes, ret>>

\* (mutant) Any retry counts as a failure.
ReturnAnyRetry ==
  /\ pc = "compare" /\ (Wrong = {} \/ tried >= MAX_REFLASH_TRIES)
  /\ tried' = IF Wrong = {} THEN tried ELSE tried + 1
  /\ ret' = IF tried' > 0 THEN 1 ELSE 0
  /\ pc' = "done"
  /\ UNCHANGED <<routine, pageMode, src, old, dst, start_index, passes>>

\* tried++ has counted once more when the byte is given up.
Return ==
  /\ pc = "compare" /\ (Wrong = {} \/ tried >= MAX_REFLASH_TRIES)
  /\ tried' = IF Wrong = {} THEN tried ELSE tried + 1
  /\ ret' = IF routine = "page" THEN IF Wrong = {} THEN 0 ELSE 1
                                ELSE IF tried' >= MAX_REFLASH_TRIES THEN 1 ELSE 0
  /\ pc' = "done"
  /\ UNCHANGED <<routine, pageMode, src, old, dst, start_index, passes>>

Next == Load \/ Retry \/ Return

Spec == Init /\ [][Next]_vars
-----------------------------------------------------------------------------
TypeOK ==
  /\ src \in Sources /\ old \in Before /\ dst \in PageType
  /\ pc \in {"load", "compare", "done"} /\ ret \in -2 .. 1
  /\ start_index \in Offsets
  /\ tried \in 0 .. MAX_REFLASH_TRIES + 1 /\ passes \in 0 .. MAX_REFLASH_TRIES + 1

(***************************************************************************)
(* A 0 from either routine means that what it wrote is in the chip.        *)
(***************************************************************************)
ZeroMeansWritten ==
  ret = 0 => dst[0] = src[0] /\ (routine = "page" => dst = src)

(***************************************************************************)
(* However often the loops retried, and on whichever part of the page,     *)
(* each byte holds what it held before, programmed with its own byte of    *)
(* the source or not: a retry carries no byte to another place.  A chip    *)
(* with page mode erases the page in every pass, and a retry of part of    *)
(* the page may leave a byte blank that was right before.                  *)
(***************************************************************************)
Outcome ==
  \A k \in Offsets :
    dst[k] \in IF pageMode THEN {old[k], {}, src[k]} ELSE {old[k], old[k] \cup src[k]}

(***************************************************************************)
(* A byte that reads back right is never given up as failed before the     *)
(* last try; on the last one write_byte_program_jedec reports a failure    *)
(* although the byte took.                                                 *)
(***************************************************************************)
FailureIsReal ==
  (ret = 1 /\ Wrong = {}) => (routine = "byte" /\ passes = MAX_REFLASH_TRIES + 1)
=============================================================================
