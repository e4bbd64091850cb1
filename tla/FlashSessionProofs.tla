------------------------- MODULE FlashSessionProofs -------------------------
(***************************************************************************)
(* Theorems about FlashSession, for any command lines, images and chips.   *)
(***************************************************************************)
EXTENDS FlashSession, SequenceTheorems, TLAPS

-----------------------------------------------------------------------------
(***************************************************************************)
(* The inductive invariant follows main: which options lead where, what is *)
(* done at which place, and what the buffer holds between the steps that   *)
(* fill it.                                                                *)
(***************************************************************************)
BeforeProbe == {"options", "init", "pci", "tables", "chipset", "probe"}
BeforeWrite == BeforeProbe \cup {"erase", "read", "open", "exclude", "romentries", "write"}
WithBuffer  == {"exclude", "romentries", "write", "verify"}
Fields      == Flags \cup {"start", "end"}

Parsed == args \in Seq(Options) /\ DOMAIN opts = Fields /\ opts = [f \in Fields |-> opts[f]]

Right == command.file /\ image.sizeOk /\ ForThisBoard

Places ==
  /\ pc \notin {"options", "exited"} => ~(opts.read /\ opts.write)
  /\ pc = "erase" => opts.erase
  /\ pc = "read" => opts.read /\ ~opts.erase
  /\ pc = "open" => command.file
  /\ pc \in WithBuffer => opts.read \/ Right
  /\ pc # "exited" => cleanups = 0 /\ status = Running
  /\ pc \in {"options", "init"} => ~driver
  /\ pc \in BeforeProbe => span = "none"
  /\ pc \in {"options", "init", "pci", "tables", "chipset"} => ret = 0
  /\ pc \in BeforeWrite => flash = before

Buffer ==
  opts.write =>
    /\ pc = "exclude" => buf = ReadOf(got)
    /\ pc = "romentries" =>
         buf = [i \in Positions |-> IF InExclude(i) THEN before[i] ELSE ReadOf(got)[i]]
    /\ pc \in {"write", "verify"} => buf = [i \in Positions |-> Asked(i)]

Inv == TypeOK /\ Parsed /\ Places /\ Buffer
         /\ VerifiedIsAsked /\ ChangedOnlyAsAsked /\ CleanedUpOnce

USE DEF vars, given, rest

LEMMA OptionFacts ==
  ASSUME Parsed, args # <<>>
  PROVE  /\ option \in Options /\ Tail(args) \in Seq(Options)
         /\ option.opt \in {"start", "end"} => option.value \in Nat
<1>1. option \in Options /\ Tail(args) \in Seq(Options)
  BY HeadTailProperties DEF Parsed, option
<1>. QED
  BY <1>1, CommandsAssumption

LEMMA ParsedStep == ASSUME Inv, [Next]_vars PROVE Parsed'
<1>. USE DEF Inv, Parsed
<1>1. CASE ParseOption
  <2>1. args' \in Seq(Options)
    BY <1>1, OptionFacts DEF ParseOption
  <2>2. CASE SetFlag
    BY <2>1, <2>2 DEF SetFlag, Fields
  <2>3. CASE SetPosition
    BY <2>1, <2>3 DEF SetPosition, Fields
  <2>4. CASE ReadLayout \/ IncludeImage
    BY <2>1, <2>4 DEF ReadLayout, IncludeImage
  <2>. QED
    BY <1>1, <2>2, <2>3, <2>4 DEF ParseOption
<1>2. CASE UNCHANGED <<args, opts>>
  BY <1>2
<1>3. ~ParseOption => UNCHANGED <<args, opts>>
  BY DEF Next, LayoutUnreadable, ParseEnds, InitDriver, PciInit, LinuxbiosInit, ChipsetFlashEnable,
         ProbeFlash, EraseIt, ReadIt, OpenImage, ExcludeRange, HandleRomentries, WriteIt, SkipWrite,
         VerifyAndReturn
<1>. QED
  BY <1>1, <1>2, <1>3

\* An option changes one field.
LEMMA OptionsTyped ==
  ASSUME Inv, [Next]_vars
  PROVE  /\ \A f \in Flags : opts'[f] \in BOOLEAN
         /\ opts'["start"] \in Nat /\ opts'["end"] \in Nat
<1>. USE DEF Inv, TypeOK, Parsed, Flags, Fields
<1>1. CASE ParseOption /\ SetFlag
  BY <1>1 DEF SetFlag
<1>2. CASE ParseOption /\ SetPosition
  <2>1. option.opt \in {"start", "end"} /\ option.value \in Nat
    BY <1>2, OptionFacts DEF ParseOption, SetPosition
  <2>. QED
    BY <1>2, <2>1 DEF SetPosition
<1>3. CASE UNCHANGED opts
  BY <1>3
<1>4. UNCHANGED opts \/ (ParseOption /\ (SetFlag \/ SetPosition))
  BY DEF Next, ParseOption, ReadLayout, IncludeImage,
         LayoutUnreadable, ParseEnds, InitDriver, PciInit, LinuxbiosInit, ChipsetFlashEnable,
         ProbeFlash, EraseIt, ReadIt, OpenImage, ExcludeRange, HandleRomentries, WriteIt, SkipWrite,
         VerifyAndReturn
<1>. QED
  BY <1>1, <1>2, <1>3, <1>4

LEMMA ContentsStep == ASSUME TypeOK, [Next]_vars PROVE buf' \in Contents /\ flash' \in Contents
<1>1. buf \in Contents /\ flash \in Contents /\ FF \in Values /\ Zero \in Values
      /\ image.bytes \in Contents
  BY ValuesAssumption, ContentsAssumption DEF TypeOK
<1>2. CASE EraseIt
  BY <1>1, <1>2 DEF EraseIt, Contents
<1>3. CASE ReadIt
  BY <1>1, <1>3 DEF ReadIt, Contents
<1>4. CASE OpenImage
  BY <1>1, <1>4 DEF OpenImage, ReadOf, Contents
<1>5. CASE ExcludeRange \/ HandleRomentries
  BY <1>1, <1>5 DEF ExcludeRange, HandleRomentries, Contents
<1>6. CASE WriteIt
  <2>1. PICK r \in {0, -1}, left \in [Written -> Values] :
          flash' = [i \in Positions |-> IF i \in Written THEN left[i] ELSE flash[i]]
    BY <1>6 DEF WriteIt
  <2>2. flash' \in Contents
    BY <1>1, <2>1 DEF Contents
  <2>. QED
    BY <1>1, <1>6, <2>2 DEF WriteIt
<1>7. CASE UNCHANGED <<buf, flash>>
  BY <1>1, <1>7
<1>8. UNCHANGED <<buf, flash>> \/ EraseIt \/ ReadIt \/ OpenImage \/ ExcludeRange \/ HandleRomentries \/ WriteIt
  BY DEF Next, ParseOption, LayoutUnreadable, ParseEnds, InitDriver, PciInit,
         LinuxbiosInit, ChipsetFlashEnable, ProbeFlash, SkipWrite, VerifyAndReturn
<1>. QED
  BY <1>2, <1>3, <1>4, <1>5, <1>6, <1>7, <1>8

\* The places, the results and what is counted, without the options.
Control ==
  /\ pc \in {"options", "init", "pci", "tables", "chipset", "probe", "erase", "read", "open",
            "exclude", "romentries", "write", "verify", "exited", "crashed"}
  /\ span \in Spans \cup {"none"}
  /\ driver \in BOOLEAN /\ cleanups \in Nat /\ got \in NotRead .. Size
  /\ ret \in {-2, -1, 0, 1} /\ status \in {-2, -1, 0, 1, Running}

LEMMA ControlStep == ASSUME Control, [Next]_vars PROVE Control'
<1>. USE DEF Continue, CleanupAndExit, Exit, Crash, FillThen
<1>. USE DEF ParseOption, LayoutUnreadable, ParseEnds, InitDriver, PciInit, LinuxbiosInit,
             ChipsetFlashEnable, ProbeFlash, EraseIt, ReadIt, OpenImage, ExcludeRange,
             HandleRomentries, WriteIt, SkipWrite, VerifyAndReturn
<1>1. pc' \in {"options", "init", "pci", "tables", "chipset", "probe", "erase", "read", "open",
               "exclude", "romentries", "write", "verify", "exited", "crashed"}
  BY DEF Control, Next
<1>2. span' \in Spans \cup {"none"}
  BY DEF Control, Next
<1>3. cleanups' \in Nat
  BY DEF Control, Next
<1>4. driver' \in BOOLEAN
  BY DEF Control, Next
<1>5. ret' \in {-2, -1, 0, 1}
  <2>1. CASE UNCHANGED ret
    BY <2>1 DEF Control
  <2>2. CASE ChipsetFlashEnable
    BY <2>2 DEF Control
  <2>3. CASE WriteIt
    <3>1. PICK r \in {0, -1} : ret' = Or(ret, r)
      BY <2>3
    <3>. QED
      BY <3>1 DEF Control, Or
  <2>4. CASE VerifyAndReturn
    <3>1. ret' = ret \/ ret' = Or(ret, verify_flash)
      BY <2>4
    <3>2. verify_flash \in {0, 1}
      BY DEF verify_flash
    <3>. QED
      BY <3>1, <3>2 DEF Control, Or
  <2>. QED
    BY <2>1, <2>2, <2>3, <2>4 DEF Next
<1>6. status' \in {-2, -1, 0, 1, Running}
  <2>1. CASE VerifyAndReturn
    <3>1. status' = ret'
      BY <2>1
    <3>. QED
      BY <1>5, <3>1
  <2>2. CASE ~VerifyAndReturn
    <3>1. status' \in {status, 1, -2, 0}
      BY <2>2 DEF Next
    <3>. QED
      BY <3>1 DEF Control
  <2>. QED
    BY <2>1, <2>2
<1>7. got' \in NotRead .. Size
  BY SizesAssumption DEF Control, Next, NotRead
<1>. QED
  BY <1>1, <1>2, <1>3, <1>4, <1>5, <1>6, <1>7 DEF Control

LEMMA GivenStep == [Next]_vars => UNCHANGED given
BY DEF Next, ParseOption, LayoutUnreadable, ParseEnds, InitDriver, PciInit, LinuxbiosInit,
       ChipsetFlashEnable, ProbeFlash, EraseIt, ReadIt, OpenImage, ExcludeRange, HandleRomentries,
       WriteIt, SkipWrite, VerifyAndReturn

LEMMA TypesStep == ASSUME Inv, [Next]_vars PROVE TypeOK'
<1>1. TypeOK
  BY DEF Inv
<1>2. Control'
  BY <1>1, ControlStep DEF TypeOK, Control
<1>3. UNCHANGED given
  BY GivenStep
<1>. QED
  BY <1>1, <1>2, <1>3, OptionsTyped, ContentsStep DEF TypeOK, Control

\* Main passes its places in order, and takes at each what its options say.
LEMMA PlacesStep == ASSUME Inv, [Next]_vars PROVE Places'
<1>. USE DEF Inv, Places, BeforeProbe, BeforeWrite, WithBuffer, Right,
             Continue, CleanupAndExit, Exit, Crash, FillThen, ForThisBoard, ReadShort
<1>1. CASE ParseOption
  BY <1>1 DEF ParseOption
<1>2. CASE LayoutUnreadable \/ InitDriver \/ PciInit \/ LinuxbiosInit
  BY <1>2 DEF LayoutUnreadable, InitDriver, PciInit, LinuxbiosInit
<1>3. CASE ParseEnds
  BY <1>3 DEF ParseEnds
<1>4. CASE ChipsetFlashEnable
  BY <1>4 DEF ChipsetFlashEnable
<1>5. CASE ProbeFlash
  BY <1>5 DEF ProbeFlash
<1>6. CASE EraseIt \/ ReadIt
  BY <1>6 DEF EraseIt, ReadIt
<1>7. CASE OpenImage
  <2>1. pc = "open" /\ UNCHANGED <<given, opts, span, flash, ret>>
    BY <1>7 DEF OpenImage
  <2>2. pc' = "exclude" => image.sizeOk /\ ForThisBoard'
    BY <1>7, SizesAssumption DEF OpenImage, NotRead
  <2>3. CASE UNCHANGED <<driver, cleanups, status>> /\ pc' = "exclude"
    BY <2>1, <2>2, <2>3
  <2>4. CASE CleanupAndExit(1)
    BY <2>1, <2>4
  <2>. QED
    BY <1>7, <2>3, <2>4 DEF OpenImage
<1>8. CASE ExcludeRange \/ HandleRomentries
  BY <1>8 DEF ExcludeRange, HandleRomentries
<1>9. CASE WriteIt \/ SkipWrite \/ VerifyAndReturn
  BY <1>9 DEF WriteIt, SkipWrite, VerifyAndReturn
<1>10. CASE UNCHANGED vars
  BY <1>10
<1>. QED
  BY <1>1, <1>2, <1>3, <1>4, <1>5, <1>6, <1>7, <1>8, <1>9, <1>10 DEF Next

LEMMA KeptIs == ASSUME NEW i PROVE Kept(i) <=> InExclude(i) \/ CopiedBack(i)
BY DEF Kept, InExclude, CopiedBack

\* The buffer is filled in the order of main: the image, what the exclude
\* range keeps, what the sections keep.
LEMMA BufferStep == ASSUME Inv, [Next]_vars PROVE Buffer'
<1>. USE DEF Inv, Buffer, Continue, CleanupAndExit, Exit, Crash, FillThen
<1>1. CASE ParseOption
  BY <1>1 DEF ParseOption
<1>2. CASE LayoutUnreadable \/ ParseEnds \/ InitDriver \/ PciInit \/ LinuxbiosInit
             \/ ChipsetFlashEnable \/ ProbeFlash \/ EraseIt
  BY <1>2 DEF LayoutUnreadable, ParseEnds, InitDriver, PciInit, LinuxbiosInit,
              ChipsetFlashEnable, ProbeFlash, EraseIt
<1>3. CASE ReadIt
  <2>1. ~opts'.write
    BY <1>3 DEF ReadIt, Places
  <2>. QED
    BY <2>1
<1>4. CASE OpenImage
  <2>1. UNCHANGED <<image, opts>> /\ (pc' = "exclude" => buf' = ReadOf(got'))
        /\ pc' \in {"exclude", "exited"}
    BY <1>4 DEF OpenImage
  <2>2. ReadOf(got)' = ReadOf(got')
    BY <2>1 DEF ReadOf
  <2>. QED
    BY <2>1, <2>2
<1>5. CASE ExcludeRange
  <2>1. pc' \in {"romentries", "crashed"} /\ flash = before
        /\ UNCHANGED <<before, image, opts, got>> /\ (opts.write => buf = ReadOf(got))
        /\ buf' = [i \in Positions |-> IF InExclude(i) THEN flash[i] ELSE buf[i]]
    BY <1>5 DEF ExcludeRange, Places, BeforeWrite
  <2>2. \A i : ReadOf(got)[i]' = ReadOf(got)[i]
    BY <2>1 DEF ReadOf
  <2>3. pc' = "romentries" /\ opts'.write =>
          buf' = [i \in Positions |-> IF InExclude(i) THEN before[i] ELSE ReadOf(got)[i]]
    BY <2>1
  <2>. QED
    BY <2>1, <2>2, <2>3 DEF InExclude
<1>6. CASE HandleRomentries
  <2>1. /\ pc' \in {"write", "crashed"} /\ flash = before
        /\ UNCHANGED <<before, image, opts, rom_entries, got>>
        /\ opts.write =>
             buf = [i \in Positions |-> IF InExclude(i) THEN before[i] ELSE ReadOf(got)[i]]
        /\ buf' = [i \in Positions |-> IF CopiedBack(i) THEN flash[i] ELSE buf[i]]
    BY <1>6 DEF HandleRomentries, Places, BeforeWrite
  <2>2. opts.write => buf' = [i \in Positions |-> Asked(i)]
    BY <2>1, KeptIs DEF Asked, ReadOf
  <2>3. \A i : Asked(i)' = Asked(i)
    BY <2>1 DEF Asked, Kept
  <2>. QED
    BY <2>1, <2>2, <2>3
<1>7. CASE WriteIt \/ SkipWrite
  <2>1. pc = "write" /\ pc' = "verify" /\ UNCHANGED <<before, image, opts, rom_entries, got, buf>>
    BY <1>7 DEF WriteIt, SkipWrite
  <2>2. \A i : Asked(i)' = Asked(i)
    BY <2>1 DEF Asked, Kept
  <2>. QED
    BY <2>1, <2>2
<1>8. CASE VerifyAndReturn
  BY <1>8 DEF VerifyAndReturn
<1>9. CASE UNCHANGED vars
  BY <1>9 DEF Asked, Kept, InExclude, ReadOf
<1>. QED
  BY <1>1, <1>2, <1>3, <1>4, <1>5, <1>6, <1>7, <1>8, <1>9 DEF Next

\* Main does not come back from its exit.
LEMMA ExitedIsLast == ASSUME Next PROVE pc \notin {"exited", "crashed"}
BY DEF Next, ParseOption, LayoutUnreadable, ParseEnds, InitDriver, PciInit, LinuxbiosInit,
       ChipsetFlashEnable, ProbeFlash, EraseIt, ReadIt, OpenImage, ExcludeRange, HandleRomentries,
       WriteIt, SkipWrite, VerifyAndReturn

LEMMA VerifiedStep == ASSUME Inv, [Next]_vars PROVE VerifiedIsAsked'
<1>. USE DEF Inv
<1>1. CASE UNCHANGED vars
  BY <1>1 DEF VerifiedIsAsked, Asked, Kept
<1>2. CASE VerifyAndReturn
  <2>. SUFFICES ASSUME status' = 0, opts.write, opts.verify, NEW i \in Positions
                PROVE  flash'[i] = Asked(i)'
    BY <1>2 DEF VerifiedIsAsked, VerifyAndReturn
  <2>1. ret' = Or(ret, verify_flash) /\ ret' = 0 /\ pc = "verify"
        /\ UNCHANGED <<before, image, opts, rom_entries, got, flash>>
    BY <1>2 DEF VerifyAndReturn, CleanupAndExit
  <2>2. flash = buf
    BY <2>1 DEF Or, verify_flash
  <2>3. flash[i] = Asked(i)
    BY <2>1, <2>2 DEF Buffer
  <2>. QED
    BY <2>1, <2>3 DEF Asked, Kept
<1>3. CASE ProbeFlash \/ EraseIt
  <2>1. status = Running /\ (status' = 0 => opts.erase' \/ ~command.file')
    BY <1>3 DEF ProbeFlash, EraseIt, CleanupAndExit, Continue, Places, Running
  <2>. QED
    BY <2>1 DEF VerifiedIsAsked
<1>4. CASE Next /\ ~(VerifyAndReturn \/ ProbeFlash \/ EraseIt)
  <2>1. status = Running
    BY <1>4, ExitedIsLast DEF Places
  <2>2. status' \in {status, 1, -2}
    BY <1>4 DEF Next, ParseOption, LayoutUnreadable, ParseEnds, InitDriver, PciInit, LinuxbiosInit,
         ChipsetFlashEnable, ReadIt, OpenImage, ExcludeRange, HandleRomentries,
         WriteIt, SkipWrite, CleanupAndExit, Continue, Exit, Crash, FillThen
  <2>3. status' # 0
    BY <2>1, <2>2 DEF Running
  <2>. QED
    BY <2>3 DEF VerifiedIsAsked
<1>. QED
  BY <1>1, <1>2, <1>3, <1>4

LEMMA ChangedStep == ASSUME Inv, [Next]_vars PROVE ChangedOnlyAsAsked'
<1>. USE DEF Inv, ChangedOnlyAsAsked
<1>1. CASE ParseOption
  BY <1>1 DEF ParseOption, Places, BeforeWrite, BeforeProbe
<1>2. CASE EraseIt
  BY <1>2 DEF EraseIt, Places
<1>3. CASE WriteIt
  BY <1>3 DEF WriteIt, Places, WithBuffer, Right, ForThisBoard, ReadShort
<1>4. CASE UNCHANGED <<given, opts, got, flash>>
  BY <1>4 DEF ForThisBoard, ReadShort
<1>5. CASE OpenImage
  BY <1>5 DEF OpenImage, Places, BeforeWrite
<1>6. UNCHANGED <<given, opts, got, flash>> \/ ParseOption \/ EraseIt \/ WriteIt \/ OpenImage
  BY DEF Next, LayoutUnreadable, ParseEnds, InitDriver, PciInit, LinuxbiosInit,
       ChipsetFlashEnable, ProbeFlash, ReadIt, ExcludeRange, HandleRomentries,
       SkipWrite, VerifyAndReturn
<1>. QED
  BY <1>1, <1>2, <1>3, <1>4, <1>5, <1>6

LEMMA CleanedStep == ASSUME Inv, [Next]_vars PROVE CleanedUpOnce'
<1>. USE DEF Inv, CleanedUpOnce, Places, BeforeProbe, BeforeWrite, Continue, CleanupAndExit, Exit, Crash, FillThen
<1>1. CASE UNCHANGED vars
  BY <1>1
<1>2. CASE Next
  <2>1. cleanups = 0 /\ pc # "exited"
    BY <1>2, ExitedIsLast
  <2>2. CASE ParseOption \/ LayoutUnreadable \/ ParseEnds \/ InitDriver \/ PciInit \/ LinuxbiosInit
    BY <2>1, <2>2 DEF ParseOption, LayoutUnreadable, ParseEnds, InitDriver, PciInit, LinuxbiosInit
  <2>3. CASE ChipsetFlashEnable \/ ProbeFlash \/ EraseIt \/ ReadIt \/ OpenImage
    BY <2>1, <2>3 DEF ChipsetFlashEnable, ProbeFlash, EraseIt, ReadIt, OpenImage
  <2>4. CASE ExcludeRange \/ HandleRomentries \/ WriteIt \/ SkipWrite \/ VerifyAndReturn
    BY <2>1, <2>4 DEF ExcludeRange, HandleRomentries, WriteIt, SkipWrite, VerifyAndReturn
  <2>. QED
    BY <1>2, <2>2, <2>3, <2>4 DEF Next
<1>. QED
  BY <1>1, <1>2

LEMMA InitInv == ASSUME Init PROVE Inv
<1>1. command \in Commands /\ image \in [bytes : FileImages, sizeOk : BOOLEAN, idOk : BOOLEAN]
      /\ before \in FlashImages /\ flash = before
  BY DEF Init
<1>2. buf \in Contents /\ flash \in Contents
  BY <1>1, ValuesAssumption, ContentsAssumption DEF Init, Contents
<1>3. /\ \A f \in Flags : opts[f] \in BOOLEAN
      /\ opts.start \in Nat /\ opts.end \in Nat
  BY SizesAssumption DEF Init, NoOptions, Flags
<1>4. TypeOK
  <2>1. got \in NotRead .. Size
    BY SizesAssumption DEF Init, NotRead
  <2>. QED
    BY <1>1, <1>2, <1>3, <2>1 DEF Init, TypeOK
<1>5. Parsed
  <2>1. args \in Seq(Options)
    BY <1>1, CommandsAssumption DEF Init
  <2>2. DOMAIN opts = Fields /\ opts = [f \in Fields |-> opts[f]]
    BY DEF Init, NoOptions, Fields, Flags
  <2>. QED
    BY <2>1, <2>2 DEF Parsed
<1>6. Places /\ Buffer
  BY DEF Init, NoOptions, Places, Buffer, BeforeProbe, BeforeWrite, WithBuffer
<1>7. VerifiedIsAsked /\ ChangedOnlyAsAsked /\ CleanedUpOnce
  BY DEF Init, VerifiedIsAsked, ChangedOnlyAsAsked, CleanedUpOnce, Running
<1>. QED
  BY <1>4, <1>5, <1>6, <1>7 DEF Inv

LEMMA InvStep == Inv /\ [Next]_vars => Inv'
BY TypesStep, ParsedStep, PlacesStep, BufferStep, VerifiedStep, ChangedStep, CleanedStep DEF Inv

LEMMA InvHolds == Spec => []Inv
BY InitInv, InvStep, PTL DEF Spec

-----------------------------------------------------------------------------
\* Every state of a session has its type.
THEOREM Typed == Spec => []TypeOK
<1>1. Inv => TypeOK
  BY DEF Inv
<1>. QED
  BY <1>1, InvHolds, PTL

\* Exit status 0 after -w -v means that the chip holds what was asked, for
\* every image, layout and exclude range, however much of the image fread
\* delivered (zeros stand for the rest) and whatever the write routine left.
THEOREM StatusZeroIsAsked == Spec => []VerifiedIsAsked
<1>1. Inv => VerifiedIsAsked
  BY DEF Inv
<1>. QED
  BY <1>1, InvHolds, PTL

\* Refusals and failures before the write leave the chip as it was.
THEOREM UnaskedUnchanged == Spec => []ChangedOnlyAsAsked
<1>1. Inv => ChangedOnlyAsAsked
  BY DEF Inv
<1>. QED
  BY <1>1, InvHolds, PTL

\* Every exit behind init_driver calls cleanup_driver once, but for the two
\* ways out that call nothing.
THEOREM CleansUpOnce == Spec => []CleanedUpOnce
<1>1. Inv => CleanedUpOnce
  BY DEF Inv
<1>. QED
  BY <1>1, InvHolds, PTL

\* The pages that a routine skips lie inside the exclude range.
THEOREM SkipsOnlyExcluded == Spec => []SkippedPagesExcluded
<1>1. TypeOK => SkippedPagesExcluded
  <2>. SUFFICES ASSUME TypeOK, span = "kept", NEW i \in Positions, i \notin Written PROVE Kept(i)
    BY DEF SkippedPagesExcluded
  <2>1. exclude_start_page <= i \div PageSize /\ i \div PageSize < exclude_end_page
    BY DEF Written
  <2>2. i \in Nat /\ opts.start \in Nat /\ opts.end \in Nat /\ PageSize \in Nat \ {0}
    BY SizesAssumption DEF TypeOK, Positions
  <2>3. opts.start <= i
    BY <2>1, <2>2 DEF exclude_start_page
  <2>4. i < opts.end
    BY <2>1, <2>2 DEF exclude_end_page
  <2>. QED
    BY <2>3, <2>4 DEF Kept
<1>. QED
  BY <1>1, Typed, PTL

\* No failure of chipset, write or verification is lost before main returns
\* its ret.
THEOREM FailuresStay == Spec => StatusKeepsFailures
<1>1. Inv /\ [Next]_vars => [(ret # 0 => ret' # 0) /\ (pc = "verify" => status' = ret')]_vars
  <2>. SUFFICES ASSUME Inv, Next PROVE (ret # 0 => ret' # 0) /\ (pc = "verify" => status' = ret')
    OBVIOUS
  <2>. USE DEF Inv, Places, Continue, CleanupAndExit, Exit, Crash, FillThen, Or
  <2>1. CASE ChipsetFlashEnable
    BY <2>1 DEF ChipsetFlashEnable
  <2>2. CASE WriteIt
    BY <2>2 DEF WriteIt
  <2>3. CASE VerifyAndReturn
    BY <2>3 DEF VerifyAndReturn, verify_flash
  <2>4. CASE Next /\ ~(ChipsetFlashEnable \/ WriteIt \/ VerifyAndReturn)
    BY <2>4 DEF Next, ParseOption, LayoutUnreadable, ParseEnds, InitDriver, PciInit, LinuxbiosInit,
         ProbeFlash, EraseIt, ReadIt, OpenImage, ExcludeRange, HandleRomentries, SkipWrite
  <2>. QED
    BY <2>1, <2>2, <2>3, <2>4
<1>. QED
  BY <1>1, InvHolds, PTL DEF Spec, StatusKeepsFailures
=============================================================================
