---------------------------- MODULE FlashSession ----------------------------
(***************************************************************************)
(* One run of winflashrom: main of flashrom.c, with the rom layout and the *)
(* image check of layout.c, from the options to the exit status.           *)
(*                                                                         *)
(* The write routine is one step here: what it can leave behind is what    *)
(* FlashWriter shows.  Loading the driver is init_driver, module           *)
(* DriverService.  What the hardware, the kernel and the files answer is   *)
(* external and may be a failure at every call.                            *)
(***************************************************************************)
EXTENDS Integers, Sequences

CONSTANTS
  Size, PageSize,     \* bytes of the chip, bytes of a page
  Values, FF, Zero,   \* contents of a byte; an erased byte; the byte 0
  Commands,           \* command lines: sequences of options, and the file
  FlashImages, FileImages,   \* what chip and file may hold
  Spans               \* what write routines write: FlashChips, span

Positions == 0 .. Size - 1
Contents  == [Positions -> Values]

ASSUME SizesAssumption == Size \in Nat \ {0} /\ PageSize \in Nat \ {0}
ASSUME ValuesAssumption == FF \in Values /\ Zero \in Values
ASSUME ContentsAssumption == FlashImages \subseteq Contents /\ FileImages \subseteq Contents
ASSUME SpansAssumption == Spans \subseteq {"all", "kept", "half"}

Flags   == {"read", "write", "erase", "verify", "force"}
Options == UNION {{c.options[n] : n \in 1 .. Len(c.options)} : c \in Commands}
ASSUME CommandsAssumption ==
  /\ \A c \in Commands : c.options \in Seq(Options) /\ c.file \in BOOLEAN
  /\ \A o \in Options : o.opt \in {"start", "end"} => o.value \in Nat

VARIABLES
  command,     \* the command line
  image,       \* external: the image file: bytes, right size, id of this board
  before,      \* history: what the chip held at the start
  pc,          \* the place in main
  args,        \* options not yet parsed
  opts,        \* read_it, write_it, erase_it, verify_it, force, the exclude range
  rom_entries, \* the rom layout
  driver,      \* is the driver loaded (init_driver returned 1, no cleanup yet)
  cleanups,    \* history: calls of cleanup_driver
  span,        \* what the routine of the chip found writes, "none" before
  buf,         \* the buffer
  got,         \* history: how many bytes of the image fread delivered, or NotRead
  flash,       \* external: what the chip holds
  ret,         \* ret of main
  status       \* the exit status, or Running

given == <<command, image, before>>
vars == <<given, pc, args, opts, rom_entries, driver, cleanups, span, buf, got, flash, ret, status>>

Running == 2     \* main returns no such status
NotRead == -1

NoOptions == [read |-> FALSE, write |-> FALSE, erase |-> FALSE, verify |-> FALSE,
              force |-> FALSE, start |-> 0, end |-> 0]

Init ==
  /\ command \in Commands
  /\ image \in [bytes : FileImages, sizeOk : BOOLEAN, idOk : BOOLEAN]
  /\ before \in FlashImages /\ flash = before
  /\ pc = "options" /\ args = command.options
  /\ opts = NoOptions /\ rom_entries = <<>>
  /\ driver = FALSE /\ cleanups = 0 /\ span = "none"
  /\ buf = [i \in Positions |-> Zero] /\ got = NotRead     \* calloc
  /\ ret = 0 /\ status = Running

-----------------------------------------------------------------------------
\* The ways out of main.

Exit(code) ==
  /\ pc' = "exited" /\ status' = code
  /\ UNCHANGED <<driver, cleanups>>

\* cleanup_driver(); exit(code)
CleanupAndExit(code) ==
  /\ pc' = "exited" /\ status' = code
  /\ driver' = FALSE /\ cleanups' = cleanups + 1

Continue(next) == pc' = next /\ UNCHANGED <<driver, cleanups, status>>

-----------------------------------------------------------------------------
\* getopt_long, one option per step

option == Head(args)

\* find_romentry includes the first entry of that name
Included(name) ==
  LET found == {i \in DOMAIN rom_entries : rom_entries[i].name = name}
  IN  [i \in DOMAIN rom_entries |->
         IF i \in found /\ \A j \in found : i <= j
         THEN [rom_entries[i] EXCEPT !.included = TRUE] ELSE rom_entries[i]]

SetFlag ==
  /\ option.opt \in Flags
  /\ opts' = [opts EXCEPT ![option.opt] = TRUE]
  /\ UNCHANGED rom_entries

SetPosition ==
  /\ option.opt \in {"start", "end"}
  /\ opts' = [opts EXCEPT ![option.opt] = option.value]
  /\ UNCHANGED rom_entries

\* read_romlayout appends to the entries.
ReadLayout ==
  /\ option.opt = "layout"
  /\ rom_entries' = rom_entries \o option.entries
  /\ UNCHANGED opts

\* The result of find_romentry is not looked at.
IncludeImage ==
  /\ option.opt = "image"
  /\ rom_entries' = Included(option.name)
  /\ UNCHANGED opts

ParseOption ==
  /\ pc = "options" /\ args # <<>>
  /\ SetFlag \/ SetPosition \/ ReadLayout \/ IncludeImage
  /\ args' = Tail(args)
  /\ UNCHANGED <<given, pc, driver, cleanups, span, buf, got, flash, ret, status>>

LayoutUnreadable ==
  /\ pc = "options" /\ args # <<>> /\ option.opt = "layout"
  /\ Exit(1)
  /\ UNCHANGED <<given, args, opts, rom_entries, span, buf, got, flash, ret>>

rest == <<given, args, opts, rom_entries>>

\* -r with -w: usage()
ParseEnds ==
  /\ pc = "options" /\ args = <<>>
  /\ IF opts.read /\ opts.write THEN Exit(1) ELSE Continue("init")
  /\ UNCHANGED <<rest, span, buf, got, flash, ret>>

-----------------------------------------------------------------------------
\* The driver, the PCI library, the tables, the chipset and the chip.

InitDriver ==
  /\ pc = "init"
  /\ \/ driver' = TRUE /\ pc' = "pci" /\ UNCHANGED <<cleanups, status>>
     \/ Exit(1)
  /\ UNCHANGED <<rest, span, buf, got, flash, ret>>

\* pci_init without an access method ends in pci_generic_error.
PciInit ==
  /\ pc = "pci"
  /\ Continue("tables") \/ Exit(1)
  /\ UNCHANGED <<rest, span, buf, got, flash, ret>>

LinuxbiosInit ==
  /\ pc = "tables"
  /\ Continue("chipset") \/ CleanupAndExit(-2)
  /\ UNCHANGED <<rest, span, buf, got, flash, ret>>

\* No chipset: -2; enabled: 0; not enabled: -1.  enable_flash_sb400 may give up.
ChipsetFlashEnable ==
  /\ pc = "chipset"
  /\ \/ ret' \in {-2, -1, 0} /\ Continue("probe")
     \/ ret' = ret /\ CleanupAndExit(1)
  /\ UNCHANGED <<rest, span, buf, got, flash>>

\* probe_flash and the switch on what is asked; without a file or -E the chip
\* is left enabled.
ProbeFlash ==
  /\ pc = "probe"
  /\ \/ /\ span' \in Spans
        /\ IF ~command.file /\ ~opts.erase THEN CleanupAndExit(0)
           ELSE Continue(IF opts.erase THEN "erase" ELSE IF opts.read THEN "read" ELSE "open")
     \/ span' = span /\ CleanupAndExit(1)      \* no chip, or a map failed
  /\ UNCHANGED <<rest, buf, got, flash, ret>>

-----------------------------------------------------------------------------
\* The three modes of operation

\* flash->erase; whether it worked is not looked at.
EraseIt ==
  /\ pc = "erase"
  /\ \E left \in SUBSET Positions :
       flash' = [i \in Positions |-> IF i \in left THEN flash[i] ELSE FF]
  /\ CleanupAndExit(0)
  /\ UNCHANGED <<rest, span, buf, got, ret>>

InExclude(i) == opts.start <= i /\ i < opts.end
Excluded     == [start |-> opts.start, end |-> opts.end]

\* An access violation: nothing is cleaned up by the program.
Crash == pc' = "crashed" /\ UNCHANGED <<driver, cleanups, status>>

\* memset or memcpy of each of the ranges in buf.  Where the end comes before
\* the start, the unsigned difference wraps around, and no buffer is that long.
\* What a range that ends behind buf does is not defined: it may go unnoticed.
FillThen(ranges, next) ==
  \/ (\A a \in ranges : a.start <= a.end) /\ Continue(next)
  \/ (\E a \in ranges : a.start > a.end \/ (a.start < a.end /\ a.end > Size)) /\ Crash

\* -r: the chip is read, the excluded range is cleared in the file written.
\* (mutant) The error path of fopen forgets cleanup_driver.
ReadItForgets ==
  /\ pc = "read"
  /\ \/ /\ buf' = [i \in Positions |-> IF InExclude(i) THEN Zero ELSE flash[i]]
        /\ FillThen({Excluded}, "exclude")
     \/ buf' = buf /\ Exit(1)
  /\ UNCHANGED <<rest, span, got, flash, ret>>

ReadIt ==
  /\ pc = "read"
  /\ \/ /\ buf' = [i \in Positions |-> IF InExclude(i) THEN Zero ELSE flash[i]]
        /\ FillThen({Excluded}, "exclude")
     \/ buf' = buf /\ CleanupAndExit(1)
  /\ UNCHANGED <<rest, span, got, flash, ret>>

\* What fread leaves in buf when it delivers n bytes
ReadOf(n) == [i \in Positions |-> IF i < n THEN image.bytes[i] ELSE Zero]

\* (mutant) A failed check is reported and the program goes on.
OpenImageGoesOn ==
  /\ pc = "open"
  /\ \/ \E n \in 0 .. Size : got' = n /\ buf' = ReadOf(n) /\ Continue("exclude")
     \/ UNCHANGED <<buf, got>> /\ CleanupAndExit(1)
  /\ UNCHANGED <<rest, span, flash, ret>>

\* fopen, fstat, the size, fread, and show_id.  What fread returns is not looked
\* at.  show_id finds no id in an image that is a legacy one or was not read as
\* far as that; then, or without lb_vendor and lb_part, nothing is compared.
OpenImage ==
  /\ pc = "open"
  /\ \/ /\ image.sizeOk
        /\ \E n \in 0 .. Size :
             /\ got' = n /\ buf' = ReadOf(n)
             /\ \/ (image.idOk \/ opts.force \/ n < Size) /\ Continue("exclude")
                \/ ((~image.idOk \/ n < Size) /\ ~opts.force) /\ CleanupAndExit(1)
     \/ UNCHANGED <<buf, got>> /\ CleanupAndExit(1)     \* fopen, fstat or the size
  /\ UNCHANGED <<rest, span, flash, ret>>

-----------------------------------------------------------------------------
\* What is kept of the chip's contents

ExcludeRange ==
  /\ pc = "exclude"
  /\ buf' = [i \in Positions |-> IF InExclude(i) THEN flash[i] ELSE buf[i]]
  /\ FillThen({Excluded}, "romentries")
  /\ UNCHANGED <<rest, span, got, flash, ret>>

\* (mutant) The included sections are the ones copied back.
CopiedBackIncluded(i) ==
  \E n \in DOMAIN rom_entries :
    rom_entries[n].included /\ rom_entries[n].start <= i /\ i < rom_entries[n].end

CopiedBack(i) ==
  \E n \in DOMAIN rom_entries :
    ~rom_entries[n].included /\ rom_entries[n].start <= i /\ i < rom_entries[n].end

HandleRomentries ==
  /\ pc = "romentries"
  /\ buf' = [i \in Positions |-> IF CopiedBack(i) THEN flash[i] ELSE buf[i]]
  /\ FillThen({rom_entries[n] : n \in {m \in DOMAIN rom_entries : ~rom_entries[m].included}}, "write")
  /\ UNCHANGED <<rest, span, got, flash, ret>>

-----------------------------------------------------------------------------
\* Writing and verifying

\* The pages wholly inside the excluded range.
\* (mutant) The start is rounded down.
exclude_start_page_down == opts.start \div PageSize

exclude_start_page == (opts.start + PageSize - 1) \div PageSize
exclude_end_page   == opts.end \div PageSize

Written == CASE span = "all"  -> Positions
             [] span = "kept" -> {i \in Positions : ~(exclude_start_page <= i \div PageSize
                                                     /\ i \div PageSize < exclude_end_page)}
             [] span = "half" -> {i \in Positions : 2 * i < Size}

\* (mutant) The result of flash->write is assigned, not added, and lost.
OrLast(a, b) == b

\* ret |= result, on the values the calls return
Or(a, b) == IF a = 0 THEN b ELSE IF b = 0 THEN a ELSE -1

\* What a write routine may leave in its span: anything when it returns 0 (the
\* page and byte routines ignore what does not take), and bytes left or erased
\* when it returns -1.
WriteIt ==
  /\ pc = "write" /\ opts.write
  /\ \E r \in {0, -1}, left \in [Written -> Values] :
       /\ r = -1 => \A i \in Written : left[i] \in {flash[i], FF}
       /\ flash' = [i \in Positions |-> IF i \in Written THEN left[i] ELSE flash[i]]
       /\ ret' = Or(ret, r)
  /\ Continue("verify")
  /\ UNCHANGED <<rest, span, buf, got>>

SkipWrite ==
  /\ pc = "write" /\ ~opts.write
  /\ Continue("verify")
  /\ UNCHANGED <<rest, span, buf, got, flash, ret>>

verify_flash == IF flash = buf THEN 0 ELSE 1

VerifyAndReturn ==
  /\ pc = "verify"
  /\ ret' = IF opts.verify THEN Or(ret, verify_flash) ELSE ret
  /\ CleanupAndExit(ret')
  /\ UNCHANGED <<rest, span, buf, got, flash>>

-----------------------------------------------------------------------------
Next == \/ ParseOption \/ LayoutUnreadable \/ ParseEnds
        \/ InitDriver \/ PciInit \/ LinuxbiosInit \/ ChipsetFlashEnable \/ ProbeFlash
        \/ EraseIt \/ ReadIt \/ OpenImage
        \/ ExcludeRange \/ HandleRomentries
        \/ WriteIt \/ SkipWrite \/ VerifyAndReturn

Spec == Init /\ [][Next]_vars

-----------------------------------------------------------------------------
TypeOK ==
  /\ command \in Commands /\ before \in FlashImages
  /\ image \in [bytes : FileImages, sizeOk : BOOLEAN, idOk : BOOLEAN]
  /\ pc \in {"options", "init", "pci", "tables", "chipset", "probe", "erase", "read", "open",
            "exclude", "romentries", "write", "verify", "exited", "crashed"}
  /\ \A f \in Flags : opts[f] \in BOOLEAN
  /\ opts.start \in Nat /\ opts.end \in Nat
  /\ span \in Spans \cup {"none"}
  /\ driver \in BOOLEAN /\ cleanups \in Nat
  /\ buf \in Contents /\ flash \in Contents /\ got \in NotRead .. Size
  /\ ret \in {-2, -1, 0, 1} /\ status \in {-2, -1, 0, 1, Running}

(***************************************************************************)
(* What exit status 0 after -w -v vouches for, whichever routine wrote the *)
(* chip and whatever failed: the chip holds its old contents where the     *)
(* exclude range or a section that is not included keeps them, and         *)
(* elsewhere the image as far as fread delivered it.  An image read short  *)
(* is written with zeros behind what was read, compared with the same      *)
(* zeros, and 0 is returned: main never learns how much it got.            *)
(***************************************************************************)
Kept(i) == (opts.start <= i /\ i < opts.end)
             \/ \E n \in DOMAIN rom_entries :
                  ~rom_entries[n].included /\ rom_entries[n].start <= i /\ i < rom_entries[n].end
Asked(i) == IF Kept(i) THEN before[i] ELSE IF i < got THEN image.bytes[i] ELSE Zero
VerifiedIsAsked ==
  (status = 0 /\ opts.write /\ opts.verify /\ ~opts.erase /\ command.file)
    => \A i \in Positions : flash[i] = Asked(i)

(***************************************************************************)
(* A failure is never lost: once chipset_flash_enable, flash->write or the *)
(* verification has failed, ret stays different from 0 up to the return of *)
(* main, whose exit status it is.                                          *)
(***************************************************************************)
StatusKeepsFailures ==
  [][(ret # 0 => ret' # 0) /\ (pc = "verify" => status' = ret')]_vars

(***************************************************************************)
(* The chip changes only in a session that was asked to erase, or to write *)
(* an image of the right size made for this board (or forced); every       *)
(* refusal and every failure before that leaves it alone.  The one way     *)
(* around the check of the board is an image that was read short, whose id *)
(* was not there to be compared.                                           *)
(***************************************************************************)
ReadShort    == got # NotRead /\ got < Size
ForThisBoard == image.idOk \/ opts.force \/ ReadShort
ChangedOnlyAsAsked ==
  flash # before => opts.erase \/ (opts.write /\ command.file /\ image.sizeOk /\ ForThisBoard)

(***************************************************************************)
(* A page wholly or partly outside the excluded range is written, a byte   *)
(* of the range is not lost on a chip that skips pages: pages skipped lie  *)
(* inside the range, whatever the alignment of its ends.                   *)
(***************************************************************************)
SkippedPagesExcluded ==
  span = "kept" => \A i \in Positions \ Written : Kept(i)

(***************************************************************************)
(* cleanup_driver is called exactly once on every way out of main after    *)
(* init_driver succeeded, except the one through pci_generic_error and a   *)
(* crash.                                                                  *)
(***************************************************************************)
CleanedUpOnce ==
  /\ cleanups <= 1
  /\ (pc = "exited" /\ driver) => (span = "none" /\ status = 1 /\ flash = before)
  /\ cleanups = 1 => ~driver /\ pc = "exited"

(***************************************************************************)
(* README.md: a layout line "startaddr:endaddr name" names a section up to *)
(* and with endaddr, and a section that is not included is left alone:     *)
(* here in a session that wrote all of an image and returned 0.            *)
(***************************************************************************)
SectionsLeftAlone ==
  (status = 0 /\ opts.write /\ ~opts.erase /\ command.file /\ got = Size) =>
    \A n \in DOMAIN rom_entries : ~rom_entries[n].included =>
      \A i \in Positions \cap rom_entries[n].start .. rom_entries[n].end : flash[i] = before[i]
=============================================================================
