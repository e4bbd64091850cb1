------------------------- MODULE FlashWriterProofs -------------------------
(***************************************************************************)
(* Theorems about FlashWriter: for every routine of the chip table, every  *)
(* size of chip and page, every image and every excluded range, whatever   *)
(* operations fail and wherever the routine is killed.                     *)
(***************************************************************************)
EXTENDS FlashWriter, TLAPS

\* What the routines of the table have in common: only page-wise ones leave
\* pages out, the ones that check the erase do not erase page by page, and
\* whole pages are programmed only after the whole chip was erased.
LEMMA ChipTable ==
  ASSUME NEW w \in flashchips
  PROVE  /\ w \in Routines
         /\ w.span # "all" => w.erase = "page"
         /\ w.erase = "page" => w.check = "none" /\ w.unit = "byte"
         /\ w.unit = "page" => w.erase = "chip"
         /\ w.relock => w.unlock \in {"chip", "regs"} /\ w.erase # "blocks" /\ w.check = "none"
<1>. USE DEF Routines, UnlockKinds, WholeChip, PageByPage
<1>1. CASE w = write_jedec
  BY <1>1 DEF write_jedec
<1>2. CASE w = write_sst_fwhub
  BY <1>2 DEF write_sst_fwhub
<1>3. CASE w = write_39sf020
  BY <1>3 DEF write_39sf020
<1>4. CASE w = write_39v040fa
  BY <1>4 DEF write_39v040fa
<1>5. CASE w = write_82802ab
  BY <1>5 DEF write_82802ab
<1>6. CASE w = write_29f040b
  BY <1>6 DEF write_29f040b
<1>7. CASE w = write_49fl004
  BY <1>7 DEF write_49fl004
<1>8. CASE w = write_28sf040
  BY <1>8 DEF write_28sf040
<1>9. CASE w = write_49lfxxxc
  BY <1>9 DEF write_49lfxxxc
<1>10. CASE w = write_linuxbios_m29f400bt
  BY <1>10 DEF write_linuxbios_m29f400bt
<1>. HIDE DEF Routines, UnlockKinds, WholeChip, PageByPage
<1>. QED
  BY <1>1, <1>2, <1>3, <1>4, <1>5, <1>6, <1>7, <1>8, <1>9, <1>10
     DEF flashchips, WholeChipRoutines, PageRoutines, write_49f002, write_29f002, write_lhf00l04,
         write_49lf040

-----------------------------------------------------------------------------
\* What an erase operation does, however much of it took.
LEMMA EraseEffect ==
  ASSUME TypeOK, NEW ps \in SUBSET Pages, NEW lockedPages, NEW kept, Erase(ps, lockedPages, kept)
  PROVE  /\ cells' \in Contents
         /\ hurt' \in SUBSET Pages /\ hurt \subseteq hurt'
         /\ \A p \in Pages, b \in Offsets : cells'[p][b] \subseteq cells[p][b]
         /\ \A p \in Pages \ ps : cells'[p] = cells[p]
         /\ \A p \in ps \ hurt' : cells'[p] = Blank
<1>. DEFINE left(p) == [b \in Offsets |-> IF <<p, b>> \in kept THEN cells[p][b] ELSE {}]
<1>1. /\ cells' = [p \in Pages |-> IF p \in ps THEN left(p) ELSE cells[p]]
      /\ hurt' = hurt \cup {p \in ps : left(p) # Blank}
  BY DEF Erase
<1>2. \A p \in Pages : left(p) \in [Offsets -> SUBSET Bits]
  BY DEF TypeOK, Contents
<1>3. \A p \in Pages, b \in Offsets : left(p)[b] \subseteq cells[p][b]
  OBVIOUS
<1>. HIDE DEF left
<1>. QED
  BY <1>1, <1>2, <1>3 DEF TypeOK, Contents

-----------------------------------------------------------------------------
(***************************************************************************)
(* Types and places.                                                       *)
(***************************************************************************)

LEMMA SpanInPages == TypeOK => Span \subseteq Pages
<1>. SUFFICES ASSUME TypeOK PROVE Span \subseteq Pages
  OBVIOUS
<1>1. routine.span \in {"all", "kept", "half"}
  BY ChipTable, WritersAssumption DEF TypeOK, Routines
<1>2. 0 .. (PageCount \div 2) - 1 \subseteq Pages
  BY PagesAssumption DEF Pages
<1>. QED
  BY <1>1, <1>2 DEF Span

\* Where the loop counters stand at each place of a routine.
Places ==
  /\ pc \notin {"program", "killed"} => byte = 0
  /\ routine.unit = "page" \/ page = PageCount => byte = 0
  /\ pc \in {"unlock", "check"} => page = 0
  /\ pc = "erase" /\ routine.erase = "chip" => page = 0
  /\ pc = "program" /\ routine.erase = "page" => page \in Span
  /\ pc = "check" \/ ret = -1 => routine.check # "none"
  /\ pc = "done" <=> ret # 1

LEMMA InitTypes == Init => TypeOK /\ Places
<1>. SUFFICES ASSUME Init PROVE TypeOK /\ Places
  OBVIOUS
<1>1. routine \in Writers /\ old \in Contents /\ excluded \in SUBSET Pages
  BY ImagesAssumption, ExclusionsAssumption DEF Init
<1>2. TypeOK
  <2>1. page \in 0 .. PageCount /\ byte \in Offsets /\ ret \in {-1, 0, 1}
    BY PagesAssumption DEF Init, Offsets
  <2>2. locked \in SUBSET Pages /\ wasLocked \in BOOLEAN
    BY DEF Init
  <2>. QED
    BY <1>1, <2>1, <2>2 DEF Init, TypeOK
<1>3. Places
  BY DEF Init, Places
<1>. QED
  BY <1>2, <1>3

LEMMA TypeStep == TypeOK /\ Places /\ [Next]_vars => TypeOK'
<1>. SUFFICES ASSUME TypeOK, Places, [Next]_vars PROVE TypeOK'
  OBVIOUS
<1>. USE PagesAssumption, ImagesAssumption DEF TypeOK, Places, Contents, Pages, Offsets, request
<1>1. CASE UnlockChip \/ UnlockBits \/ UnlockRegs
  BY <1>1 DEF UnlockChip, UnlockBits, UnlockRegs
<1>2. CASE EraseChip
  BY <1>2, EraseEffect DEF EraseChip, AfterErase
<1>3. CASE EraseBlock
  <2>1. page \in Pages /\ \E kept : Erase({page}, locked', kept)
    BY <1>3 DEF EraseBlock
  <2>2. cells' \in Contents /\ hurt' \in SUBSET Pages
    BY <2>1, EraseEffect
  <2>. QED
    BY <1>3, <2>2 DEF EraseBlock, Busies
<1>4. CASE ErasePage
  <2>1. page \in Pages /\ \E kept : Erase({page}, locked, kept)
    BY <1>4, SpanInPages DEF ErasePage
  <2>2. cells' \in Contents /\ hurt' \in SUBSET Pages
    BY <2>1, EraseEffect
  <2>. QED
    BY <1>4, <2>2 DEF ErasePage, Busies
<1>5. CASE BlocksErased \/ SkipPage
  BY <1>5 DEF BlocksErased, SkipPage, AfterErase, Span
<1>6. CASE CheckPasses \/ CheckFails
  BY <1>6 DEF CheckPasses, CheckFails
<1>7. CASE ProgramPage
  BY <1>7 DEF ProgramPage
<1>8. CASE ProgramByte
  BY <1>8 DEF ProgramByte, LastOfPage, Errors, NextInLoop, Busies
<1>9. CASE LoopEnds \/ Relock
  BY <1>9 DEF LoopEnds, Relock
<1>10. CASE ChipReady \/ Killed
  BY <1>10 DEF ChipReady, Killed
<1>11. CASE UNCHANGED vars
  BY <1>11 DEF vars
<1>. QED
  BY <1>1, <1>2, <1>3, <1>4, <1>5, <1>6, <1>7, <1>8, <1>9, <1>10, <1>11 DEF Next, Step

LEMMA PlacesStep == TypeOK /\ Places /\ [Next]_vars => Places'
<1>. SUFFICES ASSUME TypeOK, Places, [Next]_vars PROVE Places'
  OBVIOUS
<1>1. routine \in flashchips
  BY WritersAssumption DEF TypeOK
<1>2. UNCHANGED request => Span' = Span
  BY DEF request, Span
<1>. USE ChipTable, <1>1, <1>2 DEF Places, request
<1>3. CASE UnlockChip \/ UnlockBits \/ UnlockRegs
  BY <1>3 DEF UnlockChip, UnlockBits, UnlockRegs, Places
<1>4. CASE EraseChip
  BY <1>4 DEF EraseChip, AfterErase
<1>5. CASE EraseBlock
  BY <1>5 DEF EraseBlock
<1>6. CASE ErasePage
  BY <1>6 DEF ErasePage
<1>7. CASE BlocksErased \/ SkipPage
  BY <1>7 DEF BlocksErased, SkipPage, AfterErase
<1>8. CASE CheckPasses \/ CheckFails
  BY <1>8 DEF CheckPasses, CheckFails
<1>9. CASE ProgramPage
  BY <1>9 DEF ProgramPage
<1>10. CASE ProgramByte
  <2>1. page # PageCount /\ routine.unit = "byte" /\ pc = "program"
    BY <1>10, PagesAssumption DEF ProgramByte, TypeOK
  <2>2. \/ byte' = 0 /\ pc' = NextInLoop
        \/ page' = page /\ pc' = pc
    BY <1>10 DEF ProgramByte
  <2>. QED
    BY <1>10, <2>1, <2>2 DEF ProgramByte, NextInLoop
<1>11. CASE LoopEnds \/ Relock
  BY <1>11 DEF LoopEnds, Relock, NextInLoop
<1>12. CASE ChipReady \/ Killed
  BY <1>12 DEF ChipReady, Killed
<1>13. CASE UNCHANGED vars
  BY <1>13 DEF vars
<1>. QED
  BY <1>3, <1>4, <1>5, <1>6, <1>7, <1>8, <1>9, <1>10, <1>11, <1>12, <1>13 DEF Next, Step

-----------------------------------------------------------------------------
(***************************************************************************)
(* What the chip holds at each place.                                      *)
(***************************************************************************)

\* Before it programs, a routine that does not erase page by page has only
\* erased; so has one that returned -1.
OnlyErased ==
  (routine.erase # "page" /\ pc \in {"unlock", "erase", "check"}) \/ ret = -1 =>
    \A p \in Pages, b \in Offsets : cells[p][b] \subseteq old[p][b]

\* After a check of every byte no zero bit but the image's is in the chip.
OnlyImageBits ==
  routine.check = "all" /\ (pc \in {"program", "relock"} \/ ret = 0) =>
    \A p \in Pages, b \in Offsets : cells[p][b] \subseteq buf[p][b]

LEMMA BitsStep ==
  ASSUME TypeOK, Places, OnlyErased, OnlyImageBits, [Next]_vars
  PROVE  OnlyErased' /\ OnlyImageBits'
<1>1. routine \in flashchips /\ buf \in Contents /\ old \in Contents
  BY WritersAssumption, ImagesAssumption DEF TypeOK
<1>. USE ChipTable, <1>1 DEF Places, OnlyErased, OnlyImageBits, request
<1>2. CASE UnlockChip \/ UnlockBits \/ UnlockRegs
  BY <1>2 DEF UnlockChip, UnlockBits, UnlockRegs
<1>3. CASE EraseChip
  <2>1. \A p \in Pages, b \in Offsets : cells'[p][b] \subseteq cells[p][b]
    BY <1>3, EraseEffect DEF EraseChip
  <2>. QED
    BY <1>3, <2>1 DEF EraseChip, AfterErase
<1>4. CASE EraseBlock
  <2>1. page \in Pages /\ \E kept : Erase({page}, locked', kept)
    BY <1>4, PagesAssumption DEF EraseBlock, Pages, TypeOK
  <2>2. \A p \in Pages, b \in Offsets : cells'[p][b] \subseteq cells[p][b]
    BY <2>1, EraseEffect
  <2>. QED
    BY <1>4, <2>2 DEF EraseBlock
<1>5. CASE ErasePage
  BY <1>5 DEF ErasePage
<1>6. CASE BlocksErased \/ SkipPage
  BY <1>6 DEF BlocksErased, SkipPage, AfterErase
<1>7. CASE CheckPasses
  <2>1. routine.check = "all" => \A p \in Pages, b \in Offsets : cells[p][b] = {}
    BY <1>7 DEF CheckPasses, LooksErased, Blank
  <2>. QED
    BY <1>7, <2>1 DEF CheckPasses
<1>8. CASE CheckFails
  BY <1>8 DEF CheckFails
<1>9. CASE ProgramPage
  <2>1. routine.erase # "page" /\ pc = "program" /\ pc' = "program" /\ ret' # -1
    BY <1>9 DEF ProgramPage
  <2>2. \A p \in Pages, b \in Offsets : cells'[p][b] \subseteq cells[p][b] \cup buf[p][b]
    BY <1>9, PagesAssumption DEF ProgramPage, TypeOK, Contents, Pages
  <2>. QED
    BY <1>9, <2>1, <2>2 DEF ProgramPage
<1>10. CASE ProgramByte
  <2>1. pc = "program" /\ pc' \in {"program", "erase"} /\ ret' = ret /\ ret' # -1
    BY <1>10 DEF ProgramByte, NextInLoop
  <2>2. \A p \in Pages, b \in Offsets : cells'[p][b] \subseteq cells[p][b] \cup buf[p][b]
    BY <1>10, PagesAssumption DEF ProgramByte, TypeOK, Contents, Pages
  <2>. QED
    BY <1>10, <2>1, <2>2 DEF ProgramByte, NextInLoop
<1>11. CASE LoopEnds \/ Relock
  BY <1>11 DEF LoopEnds, Relock, NextInLoop
<1>12. CASE ChipReady \/ Killed
  BY <1>12 DEF ChipReady, Killed
<1>13. CASE UNCHANGED vars
  BY <1>13 DEF vars
<1>. QED
  BY <1>2, <1>3, <1>4, <1>5, <1>6, <1>7, <1>8, <1>9, <1>10, <1>11, <1>12, <1>13 DEF Next, Step

-----------------------------------------------------------------------------
\* Of a page of the span that is not hurt: behind the loop it holds the image,
\* at the loop what was programmed so far, and before it it is erased or not yet
\* touched.
Programming == pc \in {"program", "relock"} \/ ret = 0 \/ (pc = "erase" /\ routine.erase = "page")
Behind(p) == Programming /\ p < page => cells[p] = buf[p]
AtPage(p) ==
  pc = "program" /\ p = page =>
    \A b \in Offsets : cells[p][b] = IF b < byte THEN buf[p][b] ELSE {}
Erased(p) ==
  /\ pc = "program" /\ routine.erase # "page" /\ p > page => cells[p] = Blank
  /\ pc = "erase" /\ routine.erase = "blocks" /\ p < page => cells[p] = Blank
  /\ pc = "check" => cells[p] = Blank
PageProgress(p) == Behind(p) /\ AtPage(p) /\ Erased(p)

Progress == \A p \in Span \ hurt : PageProgress(p)
LoopDone == pc = "relock" \/ ret = 0 => page = PageCount

LEMMA LoopDoneStep == Places /\ LoopDone /\ [Next]_vars => LoopDone'
BY DEF LoopDone, Places, Next, Step, UnlockChip, UnlockBits, UnlockRegs, EraseChip, EraseBlock,
       BlocksErased, ErasePage, SkipPage, CheckPasses, CheckFails, ProgramPage, ProgramByte,
       LoopEnds, Relock, ChipReady, Killed, AfterErase, NextInLoop, vars

LEMMA HurtStays == TypeOK /\ [Next]_vars => hurt \subseteq hurt' /\ UNCHANGED request
BY DEF TypeOK, Next, Step, UnlockChip, UnlockBits, UnlockRegs, EraseChip, EraseBlock, Erase,
       BlocksErased, ErasePage, SkipPage, CheckPasses, CheckFails, ProgramPage, ProgramByte,
       LoopEnds, Relock, ChipReady, Killed, vars

LEMMA OnePageErase ==
  ASSUME TypeOK, page \in Pages, NEW lockedPages, \E kept : Erase({page}, lockedPages, kept)
  PROVE  /\ \A p \in Pages : p # page => cells'[p] = cells[p]
         /\ page \notin hurt' => cells'[page] = Blank
<1>1. PICK kept : Erase({page}, lockedPages, kept)
  OBVIOUS
<1>2. {page} \in SUBSET Pages
  OBVIOUS
<1>3. /\ \A p \in Pages \ {page} : cells'[p] = cells[p]
      /\ \A p \in {page} \ hurt' : cells'[p] = Blank
  BY <1>1, <1>2, EraseEffect
<1>. QED
  BY <1>3

LEMMA ProgressStep ==
  ASSUME TypeOK, Places, LoopDone, Progress, [Next]_vars
  PROVE  Progress'
<1>1. /\ buf \in Contents
      /\ UNCHANGED request /\ Span' = Span /\ hurt \subseteq hurt'
  BY ImagesAssumption, HurtStays DEF TypeOK, request, Span
<1>0. /\ routine.erase = "page" => routine.check = "none" /\ routine.unit = "byte"
      /\ routine.unit = "page" => routine.erase = "chip"
  BY ChipTable, WritersAssumption DEF TypeOK
<1>. SUFFICES ASSUME NEW p \in Span \ hurt' PROVE PageProgress(p)'
  BY <1>1 DEF Progress
<1>2. /\ p \in Pages /\ p \in Int /\ p >= 0 /\ p < PageCount /\ page \in Int /\ byte \in Int
      /\ PageProgress(p) /\ p \notin hurt /\ p \notin hurt'
  BY <1>1, SpanInPages, PagesAssumption DEF Progress, TypeOK, Pages, Offsets
<1>3. \A b \in Offsets : b \in Int /\ b >= 0 /\ b < PageSize /\ Blank[b] = {}
  BY PagesAssumption DEF Offsets, Blank
<1>. USE PagesAssumption, <1>0, <1>1, <1>2, <1>3
     DEF Places, PageProgress, Programming, Behind, AtPage, Erased, LoopDone, request
<1>4. CASE UnlockChip \/ UnlockBits \/ UnlockRegs
  BY <1>4 DEF UnlockChip, UnlockBits, UnlockRegs
<1>5. CASE EraseChip
  <2>1. cells'[p] = Blank
    BY <1>5, EraseEffect DEF EraseChip
  <2>. QED
    BY <1>5, <2>1 DEF EraseChip, AfterErase
<1>6. CASE EraseBlock
  <2>1. page \in Pages /\ \E kept : Erase({page}, locked', kept)
    BY <1>6 DEF EraseBlock, Pages, TypeOK
  <2>2. (p # page => cells'[p] = cells[p]) /\ (p = page => cells'[p] = Blank)
    BY <2>1, OnePageErase
  <2>. QED
    BY <1>6, <2>1, <2>2 DEF EraseBlock, Pages
<1>7. CASE ErasePage
  <2>1. page \in Pages /\ \E kept : Erase({page}, locked, kept)
    BY <1>7, SpanInPages DEF ErasePage
  <2>2. (p # page => cells'[p] = cells[p]) /\ (p = page => cells'[p] = Blank)
    BY <2>1, OnePageErase
  <2>. QED
    BY <1>7, <2>1, <2>2 DEF ErasePage
<1>8. CASE BlocksErased
  <2>1. cells[p] = Blank /\ cells' = cells
    BY <1>8 DEF BlocksErased
  <2>2. page' = 0 /\ byte' = 0 /\ ret' = ret /\ pc' \in {"program", "check"}
    BY <1>8 DEF BlocksErased, AfterErase
  <2>. QED
    BY <1>8, <2>1, <2>2 DEF BlocksErased
<1>9. CASE SkipPage
  BY <1>9 DEF SkipPage, Pages
<1>10. CASE CheckPasses \/ CheckFails
  <2>1. CASE CheckPasses
    BY <2>1 DEF CheckPasses
  <2>2. CASE CheckFails
    BY <2>2 DEF CheckFails
  <2>. QED
    BY <1>10, <2>1, <2>2
<1>11. CASE ProgramPage
  <2>1. /\ page' = page + 1 /\ pc = "program" /\ pc' = "program"
        /\ byte' = 0 /\ routine.erase = "chip" /\ ret' = ret
        /\ p # page => cells'[p] = cells[p]
        /\ p = page => cells'[p] = buf[p]
    BY <1>11 DEF ProgramPage, TypeOK, Contents
  <2>2. Behind(p)'
    BY <2>1
  <2>3. p > page => cells[p] = Blank
    BY <2>1
  <2>4. AtPage(p)'
    BY <2>1, <2>3
  <2>5. Erased(p)'
    BY <2>1, <2>3
  <2>. QED
    BY <2>2, <2>4, <2>5
<1>12. CASE ProgramByte
  <2>1. PICK added \in SUBSET buf[page][byte], error \in BOOLEAN :
          /\ cells' = [cells EXCEPT ![page][byte] = @ \cup added]
          /\ hurt' = IF added = buf[page][byte] THEN hurt ELSE hurt \cup {page}
          /\ error => added # buf[page][byte]
          /\ byte' = IF LastOfPage(error) THEN 0 ELSE byte + 1
          /\ page' = IF LastOfPage(error) THEN page + 1 ELSE page
          /\ pc' = IF LastOfPage(error) THEN NextInLoop ELSE pc
    BY <1>12 DEF ProgramByte, Errors
  <2>2. page \in Pages /\ byte \in Offsets /\ pc = "program" /\ ret' = ret /\ ret = 1
    BY <1>12 DEF ProgramByte, TypeOK, Pages
  <2>3. /\ p # page => cells'[p] = cells[p]
        /\ p = page => /\ \A b \in Offsets \ {byte} : cells'[p][b] = cells[p][b]
                       /\ cells'[p][byte] = buf[p][byte]
    <3>1. p = page => added = buf[p][byte]
      BY <2>1
    <3>2. p = page => cells[p][byte] = {}
      BY <2>2
    <3>3. /\ p # page => cells'[p] = cells[p]
          /\ p = page => /\ \A b \in Offsets \ {byte} : cells'[p][b] = cells[p][b]
                         /\ cells'[p][byte] = cells[p][byte] \cup added
      BY <2>1, <2>2 DEF TypeOK, Contents
    <3>. QED
      BY <3>1, <3>2, <3>3
  <2>4. NextInLoop = IF routine.erase = "page" THEN "erase" ELSE "program"
    BY DEF NextInLoop
  <2>5. CASE p # page
    <3>1. \/ page' = page /\ pc' = pc
          \/ page' = page + 1 /\ byte' = 0 /\ pc' = NextInLoop
      BY <2>1
    <3>2. cells'[p] = cells[p] /\ p # page
      BY <2>3, <2>5
    <3>3. Behind(p)'
      BY <2>2, <2>4, <3>1, <3>2
    <3>4. AtPage(p)'
      <4>. SUFFICES ASSUME pc' = "program", p = page'
           PROVE  \A b \in Offsets : cells'[p][b] = IF b < byte' THEN buf[p][b] ELSE {}
        BY DEF AtPage
      <4>1. p > page /\ byte' = 0 /\ routine.erase # "page"
        BY <2>2, <2>4, <3>1, <3>2
      <4>2. cells'[p] = Blank
        BY <2>2, <3>2, <4>1
      <4>. QED
        BY <4>1, <4>2
    <3>5. Erased(p)'
      BY <2>2, <2>4, <3>1, <3>2
    <3>. QED
      BY <3>3, <3>4, <3>5
  <2>6. CASE p = page /\ byte = PageSize - 1
    <3>1. cells'[p] = buf[p]
      <4>1. cells'[p] \in [Offsets -> SUBSET Bits]
        BY TypeStep DEF TypeOK, Contents
      <4>2. \A b \in Offsets : cells'[p][b] = buf[p][b]
        BY <2>2, <2>3, <2>6 DEF Offsets
      <4>. QED
        BY <4>1, <4>2 DEF Contents
    <3>2. page' = page + 1 /\ pc' = NextInLoop
      BY <2>1, <2>6 DEF LastOfPage
    <3>. QED
      BY <2>2, <2>4, <2>6, <3>1, <3>2
  <2>7. CASE p = page /\ byte # PageSize - 1
    <3>1. page' = page /\ pc' = pc /\ byte' = byte + 1
      BY <2>1, <2>7 DEF LastOfPage
    <3>. QED
      BY <2>2, <2>3, <2>7, <3>1
  <2>. QED
    BY <2>5, <2>6, <2>7
<1>13. CASE LoopEnds \/ Relock
  BY <1>13 DEF LoopEnds, Relock, NextInLoop
<1>14. CASE ChipReady \/ Killed
  BY <1>14 DEF ChipReady, Killed
<1>15. CASE UNCHANGED vars
  BY <1>15 DEF vars
<1>. QED
  BY <1>4, <1>5, <1>6, <1>7, <1>8, <1>9, <1>10, <1>11, <1>12, <1>13, <1>14, <1>15 DEF Next, Step

-----------------------------------------------------------------------------
\* A page-wise routine has not touched the pages its loop has not reached.
Untouched ==
  routine.erase = "page" =>
    \A p \in Pages : p > page \/ (p = page /\ pc \in {"unlock", "erase"}) => cells[p] = old[p]

\* A step of a page-wise routine changes the page of its loop at most.
LEMMA OnlyThisPage ==
  ASSUME TypeOK, Places, routine.erase = "page", [Next]_vars
  PROVE  /\ \A p \in Pages : p # page => cells'[p] = cells[p]
         /\ cells' # cells => page \in Span
<1>1. routine.unit = "byte"
  BY ChipTable, WritersAssumption DEF TypeOK
<1>2. CASE ErasePage
  <2>1. page \in Pages /\ page \in Span /\ \E kept : Erase({page}, locked, kept)
    BY <1>2, SpanInPages DEF ErasePage
  <2>. QED
    BY <1>2, <2>1, OnePageErase DEF ErasePage
<1>3. CASE ProgramByte
  <2>1. \A p \in Pages : p # page => cells'[p] = cells[p]
    BY <1>3 DEF ProgramByte, TypeOK, Contents
  <2>2. page \in Span
    BY <1>3 DEF ProgramByte, Places
  <2>. QED
    BY <2>1, <2>2
<1>4. CASE cells' = cells
  BY <1>4
<1>5. ~EraseChip /\ ~EraseBlock /\ ~ProgramPage
  BY <1>1 DEF EraseChip, EraseBlock, ProgramPage
<1>6. ErasePage \/ ProgramByte \/ cells' = cells
  BY <1>5 DEF Next, Step, UnlockChip, UnlockBits, UnlockRegs, BlocksErased, SkipPage, CheckPasses,
              CheckFails, LoopEnds, Relock, ChipReady, Killed, vars
<1>. QED
  BY <1>2, <1>3, <1>4, <1>6

\* How the loop of a page-wise routine moves.
LEMMA LoopMoves ==
  ASSUME TypeOK, Places, routine.erase = "page", [Next]_vars
  PROVE  \/ /\ page' = page
            /\ pc' \in {"unlock", "erase"} => pc \in {"unlock", "erase"} /\ cells' = cells
         \/ page' = page /\ pc = "program" /\ pc' = "program"
         \/ page' = page + 1 /\ page \in Pages \ Span /\ pc = "erase" /\ cells' = cells
         \/ page' = page + 1 /\ page \in Span /\ pc' = "erase"
<1>1. routine.unit = "byte"
  BY ChipTable, WritersAssumption DEF TypeOK
<1>2. CASE ProgramByte
  <2>1. page \in Span /\ pc = "program"
    BY <1>2 DEF ProgramByte, Places
  <2>2. \/ page' = page /\ pc' = pc
        \/ page' = page + 1 /\ pc' = "erase"
    BY <1>2 DEF ProgramByte, NextInLoop
  <2>. QED
    BY <2>1, <2>2
<1>3. CASE ~ProgramByte
  BY <1>1, <1>3
     DEF Next, Step, UnlockChip, UnlockBits, UnlockRegs, EraseChip, EraseBlock, BlocksErased,
         ErasePage, SkipPage, CheckPasses, CheckFails, ProgramPage, LoopEnds, Relock, ChipReady,
         Killed, vars
<1>. QED
  BY <1>2, <1>3

LEMMA RiskStep ==
  ASSUME TypeOK, Places, Progress', Untouched, OnePageAtRisk, [Next]_vars
  PROVE  Untouched' /\ OnePageAtRisk'
<1>1. routine' = routine /\ buf' = buf /\ old' = old /\ hurt \subseteq hurt' /\ Span' = Span
  BY HurtStays DEF request, Span
<1>. SUFFICES ASSUME routine.erase = "page", NEW p \in Pages
     PROVE  /\ p > page' \/ (p = page' /\ pc' \in {"unlock", "erase"}) => cells'[p] = old[p]
            /\ p \notin {page'} \cup hurt' => cells'[p] = old[p] \/ cells'[p] = buf[p]
  BY <1>1 DEF Untouched, OnePageAtRisk
<1>2. /\ p \in Int /\ page \in Int
      /\ p > page \/ (p = page /\ pc \in {"unlock", "erase"}) => cells[p] = old[p]
      /\ p \notin {page} \cup hurt => cells[p] = old[p] \/ cells[p] = buf[p]
      /\ p # page => cells'[p] = cells[p]
  BY OnlyThisPage DEF Untouched, OnePageAtRisk, TypeOK, Pages
<1>3. CASE /\ page' = page
           /\ pc' \in {"unlock", "erase"} => pc \in {"unlock", "erase"} /\ cells' = cells
  BY <1>1, <1>2, <1>3
<1>4. CASE page' = page /\ pc = "program" /\ pc' = "program"
  BY <1>1, <1>2, <1>4
<1>5. CASE page' = page + 1 /\ page \in Pages \ Span /\ pc = "erase" /\ cells' = cells
  BY <1>1, <1>2, <1>5
<1>6. CASE page' = page + 1 /\ page \in Span /\ pc' = "erase"
  <2>1. p = page /\ p \notin hurt' => cells'[p] = buf[p]
    BY <1>1, <1>2, <1>6 DEF Progress, PageProgress, Behind, Programming
  <2>. QED
    BY <1>1, <1>2, <1>6, <2>1
<1>. QED
  BY <1>3, <1>4, <1>5, <1>6, LoopMoves

-----------------------------------------------------------------------------
\* A routine that protects the chip again leaves it protected where it could not
\* unlock it.
StillLocked ==
  routine.relock /\ wasLocked =>
    /\ pc \in {"unlock", "done"} => locked = Pages
    /\ routine.unlock = "regs" /\ ~regsMapped => locked = Pages

LEMMA LockStep ==
  ASSUME TypeOK, Places, StillLocked, [Next]_vars
  PROVE  StillLocked'
<1>1. routine.relock =>
        routine.unlock \in {"chip", "regs"} /\ routine.erase # "blocks" /\ routine.check = "none"
  BY ChipTable, WritersAssumption DEF TypeOK
<1>. SUFFICES ASSUME routine.relock, wasLocked, routine' = routine, wasLocked' = wasLocked
     PROVE  StillLocked'
  BY HurtStays DEF request, StillLocked
<1>2. CASE UnlockChip \/ UnlockBits \/ UnlockRegs
  BY <1>1, <1>2 DEF UnlockChip, UnlockBits, UnlockRegs, StillLocked
<1>3. CASE LoopEnds \/ Relock
  BY <1>1, <1>3 DEF LoopEnds, Relock, StillLocked
<1>4. ~EraseBlock /\ ~CheckFails
  BY <1>1 DEF EraseBlock, CheckFails, Places
<1>5. CASE UNCHANGED <<locked, regsMapped>> /\ pc' \notin {"unlock", "done"}
  BY <1>5 DEF StillLocked
<1>6. CASE UNCHANGED <<locked, regsMapped, pc>>
  BY <1>6 DEF StillLocked
<1>7. \/ UNCHANGED <<locked, regsMapped>> /\ pc' \notin {"unlock", "done"}
      \/ UNCHANGED <<locked, regsMapped, pc>>
      \/ UnlockChip \/ UnlockBits \/ UnlockRegs \/ LoopEnds \/ Relock
  BY <1>4 DEF Next, Step, EraseChip, BlocksErased, ErasePage, SkipPage, CheckPasses, ProgramPage,
              ProgramByte, ChipReady, Killed, AfterErase, NextInLoop, vars
<1>. QED
  BY <1>2, <1>3, <1>5, <1>6, <1>7

-----------------------------------------------------------------------------
(***************************************************************************)
(* The inductive invariant, and the theorems.                              *)
(***************************************************************************)
IInv == /\ TypeOK /\ Places
        /\ OnlyErased /\ OnlyImageBits
        /\ LoopDone /\ Progress
        /\ Untouched /\ OnePageAtRisk
        /\ StillLocked

LEMMA InitIInv == Init => IInv
<1>. SUFFICES ASSUME Init PROVE IInv
  OBVIOUS
<1>1. TypeOK /\ Places
  BY InitTypes
<1>2. OnlyErased /\ OnlyImageBits
  BY DEF Init, OnlyErased, OnlyImageBits
<1>3. LoopDone /\ Progress
  <2>1. \A p \in Pages : ~(p < 0)
    BY PagesAssumption DEF Pages
  <2>. QED
    BY <1>1, <2>1, SpanInPages
       DEF Init, LoopDone, Progress, PageProgress, Behind, AtPage, Erased, Programming
<1>4. Untouched /\ OnePageAtRisk
  BY DEF Init, Untouched, OnePageAtRisk
<1>5. StillLocked
  BY DEF Init, StillLocked
<1>. QED
  BY <1>1, <1>2, <1>3, <1>4, <1>5 DEF IInv

LEMMA SpecIInv == Spec => []IInv
<1>1. IInv /\ [Next]_vars => IInv'
  BY TypeStep, PlacesStep, BitsStep, LoopDoneStep, ProgressStep, RiskStep, LockStep DEF IInv
<1>. QED
  BY InitIInv, <1>1, PTL DEF Spec

\* Every state has its type; the loop counters never leave the chip.
THEOREM TypeCorrect == Spec => []TypeOK
<1>1. IInv => TypeOK
  BY DEF IInv
<1>. QED
  BY <1>1, SpecIInv, PTL

\* A page on which every operation took holds the image when 0 is returned, for
\* every routine, page count and image.
THEOREM LosesNoByte == Spec => []CompletePages
<1>1. IInv => CompletePages
  <2>. SUFFICES ASSUME IInv, ret = 0, NEW p \in Span \ hurt PROVE cells[p] = buf[p]
    BY DEF CompletePages
  <2>1. p < page
    BY SpanInPages, PagesAssumption DEF IInv, LoopDone, Pages
  <2>. QED
    BY <2>1 DEF IInv, Progress, PageProgress, Behind, Programming
<1>. QED
  BY <1>1, SpecIInv, PTL

\* The routines that check every byte leave no zero bit of the old contents.
THEOREM LeavesNoStaleBit == Spec => []NoStaleBits
<1>1. IInv => NoStaleBits
  BY DEF IInv, OnlyImageBits, NoStaleBits
<1>. QED
  BY <1>1, SpecIInv, PTL

\* A routine that failed has programmed nothing.
THEOREM FailedBeforeProgramming == Spec => []FailureProgramsNothing
<1>1. IInv => FailureProgramsNothing
  BY DEF IInv, OnlyErased, FailureProgramsNothing
<1>. QED
  BY <1>1, SpecIInv, PTL

\* A page-wise routine killed anywhere spoils the page of its loop only.
THEOREM RisksOnePage == Spec => []OnePageAtRisk
<1>1. IInv => OnePageAtRisk
  BY DEF IInv
<1>. QED
  BY <1>1, SpecIInv, PTL

\* A protected chip is protected again when the routine has returned.
THEOREM ProtectsAgain == Spec => []ProtectedAgain
<1>1. IInv => ProtectedAgain
  BY DEF IInv, StillLocked, ProtectedAgain
<1>. QED
  BY <1>1, SpecIInv, PTL

\* No page outside the span is ever touched.
THEOREM StaysInSpan == Spec => UntouchedOutsideSpan
<1>1. IInv /\ [Next]_vars => [SpanOnly]_vars
  <2>. SUFFICES ASSUME IInv, [Next]_vars, NEW p \in OutOfBounds PROVE cells'[p] = cells[p]
    BY DEF SpanOnly
  <2>1. routine.span # "all" /\ routine.erase = "page"
    BY ChipTable, WritersAssumption DEF IInv, TypeOK, Routines, OutOfBounds
  <2>2. p \in Pages /\ p \notin Span
    BY <2>1, PagesAssumption DEF IInv, TypeOK, OutOfBounds, Span, Pages
  <2>. QED
    BY <2>1, <2>2, OnlyThisPage DEF IInv
<1>. QED
  BY <1>1, SpecIInv, PTL DEF Spec, UntouchedOutsideSpan
=============================================================================
