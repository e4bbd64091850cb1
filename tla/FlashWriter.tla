---------------------------- MODULE FlashWriter ----------------------------
(***************************************************************************)
(* One run of a chip driver's write routine (flash->write in flashrom.c)   *)
(* against the flash chip: unlock, erase, check the erase, program, lock.  *)
(* `routine` says which routine runs; FlashChips describes each.           *)
(*                                                                         *)
(* A byte is the set of its zero bits: 0xFF is {}, erasing empties the     *)
(* set, programming can only add to it.  The chip is external: an erase or *)
(* a program operation may take on part of its bytes only, a locked page   *)
(* ignores it, and the routine learns of that only where the code looks.   *)
(* The program may be killed, or the power fail, between any two steps.    *)
(***************************************************************************)
EXTENDS FlashChips, Integers

CONSTANTS
  PageCount, PageSize,   \* pages of the chip, bytes of a page
  Bits,                  \* the bits of a byte
  Writers,               \* the routines to run
  OldImages, Images,     \* what the chip may hold before, what is to be written
  Exclusions             \* {i : exclude_start_page <= i < exclude_end_page}

Pages   == 0 .. PageCount - 1
Offsets == 0 .. PageSize - 1
Contents == [Pages -> [Offsets -> SUBSET Bits]]

ASSUME PagesAssumption   == PageCount \in Nat \ {0} /\ PageSize \in Nat \ {0}
ASSUME WritersAssumption == Writers \subseteq flashchips
ASSUME ImagesAssumption  == OldImages \subseteq Contents /\ Images \subseteq Contents
ASSUME ExclusionsAssumption == Exclusions \subseteq SUBSET Pages

VARIABLES
  routine,     \* the write routine of the chip that was probed
  buf,         \* the image to write
  old,         \* history: what the chip held before
  excluded,    \* exclude_start_page .. exclude_end_page - 1
  pc,          \* where the routine is
  page, byte,  \* its loop counters
  ret,         \* what it returned: 0, -1, or 1 while it has not
  regsMapped,  \* is reg_base of write_39v040fa not NULL
  cells,       \* external: what the chip holds
  locked,      \* external: the pages that ignore erase and program
  wasLocked,   \* history: was the chip locked at the start
  busy,        \* external: the chip is at work and says so in its status
  hurt         \* history: the pages where an operation did not take in full

request == <<routine, buf, old, excluded, wasLocked>>
vars == <<request, pc, page, byte, ret, regsMapped, cells, locked, busy, hurt>>

Blank == [b \in Offsets |-> {}]

\* (mutant) the page loop tests i > exclude_start_page.
SpanAfterStart ==
  CASE routine.span = "kept" -> {p \in Pages : p \in excluded => p - 1 \notin excluded}
    [] OTHER -> Pages

Span == CASE routine.span = "all"  -> Pages
          [] routine.span = "kept" -> Pages \ excluded
          [] routine.span = "half" -> 0 .. (PageCount \div 2) - 1

Locks == routine.unlock # "none"
Busies == routine.wait # "toggle"     \* the routine waits without a limit

Init ==
  /\ routine \in Writers
  /\ buf \in Images
  /\ old \in OldImages
  /\ excluded \in (IF routine.span = "kept" THEN Exclusions ELSE {{}})
  /\ wasLocked \in (IF Locks THEN BOOLEAN ELSE {FALSE})
  /\ pc = IF routine.unlock \in {"none", "block"} THEN "erase" ELSE "unlock"
  /\ page = 0 /\ byte = 0 /\ ret = 1
  /\ regsMapped = FALSE
  /\ cells = old
  /\ locked = IF wasLocked THEN Pages ELSE {}
  /\ busy = FALSE /\ hurt = {}

-----------------------------------------------------------------------------
\* Unlocking.  A lock register that is locked down keeps its page locked.

UnlockChip ==
  /\ pc = "unlock" /\ routine.unlock = "chip"
  /\ locked' = {}
  /\ pc' = "erase"
  /\ UNCHANGED <<request, page, byte, ret, regsMapped, cells, busy, hurt>>

UnlockBits ==
  /\ pc = "unlock" /\ routine.unlock = "bits"
  /\ locked' \in SUBSET locked
  /\ pc' = "erase"
  /\ UNCHANGED <<request, page, byte, ret, regsMapped, cells, busy, hurt>>

\* Without the registers the routine goes on all the same.
UnlockRegs ==
  /\ pc = "unlock" /\ routine.unlock = "regs"
  /\ regsMapped' \in BOOLEAN
  /\ locked' \in IF regsMapped' THEN SUBSET locked ELSE {locked}
  /\ pc' = "erase"
  /\ UNCHANGED <<request, page, byte, ret, cells, busy, hurt>>

-----------------------------------------------------------------------------
\* Erasing.  The bytes in `kept` do not get erased.

Erase(ps, lockedPages, kept) ==
  LET erased(p) == [b \in Offsets |-> IF <<p, b>> \in kept THEN cells[p][b] ELSE {}]
  IN  /\ kept \in SUBSET (ps \X Offsets)
      /\ (ps \cap lockedPages) \X Offsets \subseteq kept
      /\ cells' = [p \in Pages |-> IF p \in ps THEN erased(p) ELSE cells[p]]
      /\ hurt' = hurt \cup {p \in ps : erased(p) # Blank}

AfterErase == IF routine.check = "none" THEN "program" ELSE "check"

\* erase_chip_jedec, erase_29f002
EraseChip ==
  /\ pc = "erase" /\ routine.erase = "chip"
  /\ \E kept \in SUBSET (Pages \X Offsets) : Erase(Pages, locked, kept)
  /\ pc' = AfterErase
  /\ UNCHANGED <<request, page, byte, ret, regsMapped, locked, busy>>

\* erase_82802ab, erase_sst_fwhub: each block unlocked, erased and waited for
EraseBlock ==
  /\ pc = "erase" /\ routine.erase = "blocks" /\ ~busy /\ page < PageCount
  /\ locked' \in {locked, locked \ {page}}
  /\ \E kept \in SUBSET ({page} \X Offsets) : Erase({page}, locked', kept)
  /\ page' = page + 1
  /\ busy' = Busies
  /\ UNCHANGED <<request, pc, byte, ret, regsMapped>>

BlocksErased ==
  /\ pc = "erase" /\ routine.erase = "blocks" /\ ~busy /\ page = PageCount
  /\ page' = 0
  /\ pc' = AfterErase
  /\ UNCHANGED <<request, byte, ret, regsMapped, cells, locked, busy, hurt>>

\* What the status register says of an operation: of a failed one it may show
\* an error (ESS or BPS), or nothing at all; the other chips have no such bits.
Errors(failed) == IF routine.wait = "status" /\ failed THEN BOOLEAN ELSE {FALSE}

\* (mutant) the page loop sends the chip-erase command.
ErasePageChipwide ==
  /\ pc = "erase" /\ routine.erase = "page" /\ ~busy /\ page \in Span
  /\ \E kept \in SUBSET (Pages \X Offsets) : Erase(Pages, locked, kept)
  /\ \E error \in Errors(page \in hurt') : busy' = (Busies /\ ~error)
  /\ pc' = "program"
  /\ UNCHANGED <<request, page, byte, ret, regsMapped, locked>>

\* The sector erase in the page loop; its result is not looked at.
ErasePage ==
  /\ pc = "erase" /\ routine.erase = "page" /\ ~busy /\ page \in Span
  /\ \E kept \in SUBSET ({page} \X Offsets) : Erase({page}, locked, kept)
  /\ \E error \in Errors(page \in hurt') : busy' = (Busies /\ ~error)
  /\ pc' = "program"
  /\ UNCHANGED <<request, page, byte, ret, regsMapped, locked>>

\* (mutant) the loop counter is stepped at the end of the body only.
SkipPageStays ==
  /\ pc = "erase" /\ routine.erase = "page" /\ page \in Pages \ Span
  /\ UNCHANGED <<request, pc, page, byte, ret, regsMapped, cells, locked, busy, hurt>>

SkipPage ==
  /\ pc = "erase" /\ routine.erase = "page" /\ page \in Pages \ Span
  /\ page' = page + 1
  /\ UNCHANGED <<request, pc, byte, ret, regsMapped, cells, locked, busy, hurt>>

-----------------------------------------------------------------------------
\* The check of the erase.

\* (mutant) every driver looks at the first byte only.
LooksErasedFirst == cells[0][0] = {}

LooksErased ==
  CASE routine.check = "all"   -> \A p \in Pages : cells[p] = Blank
    [] routine.check = "first" -> cells[0][0] = {}

CheckPasses ==
  /\ pc = "check" /\ LooksErased
  /\ pc' = "program"
  /\ UNCHANGED <<request, page, byte, ret, regsMapped, cells, locked, busy, hurt>>

\* (mutant) "ERASE FAILED" is printed and the return is missing.
CheckFailsGoesOn ==
  /\ pc = "check" /\ ~LooksErased
  /\ ret' = -1
  /\ pc' = "program"
  /\ UNCHANGED <<request, page, byte, regsMapped, cells, locked, busy, hurt>>

CheckFails ==
  /\ pc = "check" /\ ~LooksErased
  /\ ret' = -1
  /\ pc' = "done"
  /\ UNCHANGED <<request, page, byte, regsMapped, cells, locked, busy, hurt>>

-----------------------------------------------------------------------------
\* Programming.

NextInLoop == IF routine.erase = "page" THEN "erase" ELSE "program"

\* write_page_write_jedec: what each byte has become is the chip's choice.
ProgramPage ==
  /\ pc = "program" /\ routine.unit = "page" /\ page < PageCount
  /\ \E taken \in SUBSET Offsets :
       /\ page \in locked => taken = {}
       /\ cells' = [cells EXCEPT ![page] =
                      [b \in Offsets |-> IF b \in taken THEN @[b] \cup buf[page][b] ELSE @[b]]]
       /\ hurt' = IF cells'[page] = buf[page] THEN hurt ELSE hurt \cup {page}
  /\ page' = page + 1
  /\ UNCHANGED <<request, pc, byte, ret, regsMapped, locked, busy>>

\* (mutant) The byte loop ends one byte early.
LastOfPageEarly(error) == byte = PageSize - 2 \/ error

\* The byte loop ends; write_sector_49lfxxxc leaves the page when the status
\* register shows an error, and goes on after a byte that failed without one.
LastOfPage(error) == byte = PageSize - 1 \/ error

\* write_sector_* and write_page_*: one byte; write_sector_49lfxxxc waits for
\* the bytes that are not 0xFF only.
ProgramByte ==
  /\ pc = "program" /\ routine.unit = "byte" /\ ~busy /\ page < PageCount
  /\ \E added \in SUBSET buf[page][byte] :
       LET took == added = buf[page][byte] IN
       /\ page \in locked => added = {}
       /\ cells' = [cells EXCEPT ![page][byte] = @ \cup added]
       /\ hurt' = IF took THEN hurt ELSE hurt \cup {page}
       /\ \E error \in Errors(~took) :
            /\ byte' = IF LastOfPage(error) THEN 0 ELSE byte + 1
            /\ page' = IF LastOfPage(error) THEN page + 1 ELSE page
            /\ pc' = IF LastOfPage(error) THEN NextInLoop ELSE pc
            /\ busy' = (Busies /\ ~error /\ (routine.wait = "status" => buf[page][byte] # {}))
  /\ UNCHANGED <<request, ret, regsMapped, locked>>

LoopEnds ==
  /\ pc = NextInLoop /\ ~busy /\ page = PageCount
  /\ IF routine.relock THEN pc' = "relock" /\ UNCHANGED ret
                       ELSE pc' = "done"   /\ ret' = 0
  /\ UNCHANGED <<request, page, byte, regsMapped, cells, locked, busy, hurt>>

\* (mutant) protect_39v040fa called when the registers were NOT mapped.
RelockInverted ==
  /\ pc = "relock"
  /\ locked' = IF routine.unlock = "regs" /\ regsMapped THEN locked ELSE Pages
  /\ regsMapped' = FALSE
  /\ ret' = 0
  /\ pc' = "done"
  /\ UNCHANGED <<request, page, byte, cells, busy, hurt>>

\* protect_28sf040; protect_39v040fa, only when the registers were mapped
Relock ==
  /\ pc = "relock"
  /\ locked' = IF routine.unlock = "regs" /\ ~regsMapped THEN locked ELSE Pages
  /\ regsMapped' = FALSE
  /\ ret' = 0
  /\ pc' = "done"
  /\ UNCHANGED <<request, page, byte, cells, busy, hurt>>

-----------------------------------------------------------------------------
ChipReady ==
  /\ busy
  /\ busy' = FALSE
  /\ UNCHANGED <<request, pc, page, byte, ret, regsMapped, cells, locked, hurt>>

Killed ==
  /\ pc \notin {"done", "killed"}
  /\ pc' = "killed"
  /\ UNCHANGED <<request, page, byte, ret, regsMapped, cells, locked, busy, hurt>>

Step == \/ UnlockChip \/ UnlockBits \/ UnlockRegs
        \/ EraseChip \/ EraseBlock \/ BlocksErased \/ ErasePage \/ SkipPage
        \/ CheckPasses \/ CheckFails
        \/ ProgramPage \/ ProgramByte \/ LoopEnds \/ Relock

Next == Step \/ ChipReady \/ Killed

Spec == Init /\ [][Next]_vars /\ WF_vars(Step)

-----------------------------------------------------------------------------
TypeOK ==
  /\ routine \in Writers /\ buf \in Images /\ old \in OldImages
  /\ excluded \in SUBSET Pages
  /\ pc \in {"unlock", "erase", "check", "program", "relock", "done", "killed"}
  /\ page \in 0 .. PageCount /\ byte \in Offsets
  /\ ret \in {-1, 0, 1}
  /\ cells \in Contents
  /\ locked \in SUBSET Pages /\ hurt \in SUBSET Pages
  /\ regsMapped \in BOOLEAN /\ busy \in BOOLEAN /\ wasLocked \in BOOLEAN

(***************************************************************************)
(* When the routine returns 0, every page of its span on which all         *)
(* operations took holds the image: nothing in the loops (skips, early     *)
(* exits of a page, the order of erase and program) loses a byte.          *)
(***************************************************************************)
CompletePages ==
  ret = 0 => \A p \in Span \ hurt : cells[p] = buf[p]

(***************************************************************************)
(* write_jedec and write_sst_fwhub look at every byte after the erase, so  *)
(* when they return 0 no zero bit of the old contents is left in the chip  *)
(* unless the image has it, whatever failed.                               *)
(***************************************************************************)
NoStaleBits ==
  (routine.check = "all" /\ ret = 0) =>
    \A p \in Pages, b \in Offsets : cells[p][b] \subseteq buf[p][b]

(***************************************************************************)
(* A routine that returns -1 has programmed nothing: the chip holds what   *)
(* is left of its old contents.                                            *)
(***************************************************************************)
FailureProgramsNothing ==
  ret = -1 => \A p \in Pages, b \in Offsets : cells[p][b] \subseteq old[p][b]

(***************************************************************************)
(* Pages outside the span - those -s and -e exclude on a PMC chip, the     *)
(* upper half of an M29F400BT - are never touched, wherever the routine is *)
(* killed and whatever fails.                                              *)
(***************************************************************************)
OutOfBounds == CASE routine.span = "kept" -> excluded
                 [] routine.span = "half" -> PageCount \div 2 .. PageCount - 1
                 [] OTHER -> {}
SpanOnly == \A p \in OutOfBounds : cells'[p] = cells[p]
UntouchedOutsideSpan == [][SpanOnly]_vars

(***************************************************************************)
(* A page-wise routine puts one page at a time at risk: killed anywhere,   *)
(* it leaves every other page on which nothing failed with its old         *)
(* contents or with the image's.                                           *)
(***************************************************************************)
OnePageAtRisk ==
  (routine.erase = "page") =>
    \A p \in Pages \ ({page} \cup hurt) : cells[p] = old[p] \/ cells[p] = buf[p]

(***************************************************************************)
(* A chip that was protected when one of the routines with a protect step  *)
(* started is protected when it has returned, also when the blocking       *)
(* registers of the W39V040FA could not be mapped.                         *)
(***************************************************************************)
ProtectedAgain ==
  (routine.relock /\ wasLocked /\ pc = "done") => locked = Pages

(***************************************************************************)
(* The routine ends.  The toggle-bit loops are bounded, so those routines  *)
(* need nothing of the chip; the loops of 82802ab.c, sharplhf00l04.c and   *)
(* sst49lfxxxc.c wait until the chip is ready and end if it always is at   *)
(* last.                                                                   *)
(***************************************************************************)
ChipFinishes == []<>~busy
Terminates == ChipFinishes => <>(pc \in {"done", "killed"})
=============================================================================
