# winflashrom in TLA+

winflashrom reads, erases, writes and verifies the BIOS flash chip of a PC from
Windows.  It is flashrom with two additions: a small kernel driver that gives a
user program port I/O and memory-mapped physical ranges, and the code that
installs that driver for the length of one run.  This directory holds TLA+
models of its parts, TLC configurations that check them on small instances, and
proofs for TLAPS.

Nothing here is about the text the program prints.  The questions are: what is
in the chip after each way a run can end, what is left in the kernel, in the
service database and in the machine's registers, and what a result of 0 is worth.

## 1. Inventory

| component | source | state it keeps | operations | status |
|---|---|---|---|---|
| kernel driver, MMIO | `driver/winflashrom.c` | device, open handle, `MAX_MAPPED_MMIO` zones (system address, MDL, user address, physical start, size) | `DriverEntry`, `DispatchCreate`, `DispatchClose`, `DispatchUnload`, `MapMmio`, `UnmapMmio`, `CleanupMmioMapping` | modelled |
| kernel driver, ports | `driver/winflashrom.c`, `direct_io.c` | none of its own; the ports of the machine | `IOCTL_READ_PORT_*`, `IOCTL_WRITE_PORT_*`, `inb` .. `outl` | modelled |
| driver service | `direct_io.c` | `winflashrom.sys` on disk, the registered service, the loaded driver, the device handle | `init_driver`, `cleanup_driver`, `activate_driver`, `extract_driver` | modelled |
| chip write routines | `jedec.c`, `82802ab.c`, `sst*.c`, ... (`flashchips.c` names them) | loop counters; the chip's cells and locks | `write` of each chip, with the erases it makes | partly |
| session | `flashrom.c`, `layout.c` | options, rom layout, buffer, `ret` | `main`, `probe_flash`, `verify_flash`, `read_romlayout`, `find_romentry`, `handle_romentries`, `show_id` | partly |
| PCI library | `libpci/*.c` | method, list of devices, buses seen | `pci_read_*`, `pci_write_*`, `conf1_*`, `conf2_*`, `pci_generic_block_op`, `pci_generic_scan_bus`, `pci_dev_find`, `pci_card_find` | partly |
| chipset enable | `chipset_enable.c` | configuration registers, SiS 950 registers | `chipset_flash_enable`, one `enable_flash_*` per chipset | modelled |
| board enable | `board_enable.c` | Super-IO, GPIO and chipset registers | `board_flash_enable`, both ways to match, one routine per board | modelled |
| LinuxBIOS table | `lbtable.c` | `lb_vendor`, `lb_part` | `find_lb_table`, `count_lb_records`, `compute_checksum`, `search_lb_records` | modelled |
| delay calibration | `udelay.c` | `micro` | `myusec_calibrate_delay`, `myusec_delay` | modelled |
| DiskOnChip | `msys_doc.c` | - | compiled out (`DISABLE_DOC`) | not modelled |
| error messages, PCI constants | `error_msg.c`, `libpci/header.h` | - | - | not modelled |

**Interaction.**  `main` calls `init_driver`; every later access to the machine
(ports, configuration space, physical memory) is an IOCTL on the one device
handle.  `pci_init` with the bus scan, `linuxbios_init`, the delay calibration,
`chipset_flash_enable`, `board_flash_enable` and `probe_flash` follow; most of them can end
the program.  `probe_flash` maps the chip at the top of 4 GB and calls the
`probe` of each chip in the table.  The routine found erases and writes through
that pointer.  `cleanup_driver` closes the handle, which makes the kernel driver
release its zones, and then stops and deletes the service.  The program is
single-threaded.  What is concurrent is another run of it on the same machine
(the same service name, the same device, maybe the same directory), the
operating system and other drivers, which use the same ports and registers, and
the end of the process or of the power at any step.

**What is hard, and what makes each part correct.**

- *MMIO driver.*  `MapMmio` takes three kernel resources one after the other and
  each may fail; addresses are reused; a zone is found by a user pointer; the
  process may die with ranges mapped.  Correct: no resource is leaked or released
  twice, every pointer the program holds reaches its range, and a close leaves
  nothing.
- *Driver service.*  Several runs race through file, service, driver and device,
  each step of each may fail, and any may be killed in between.  Correct: at most
  one program has the device, no program stops a driver that another uses, and
  what a program registered it removes.
- *Write routines.*  An erase or program operation can take in part or not at
  all, and most results are not looked at.  Correct: the loops lose no byte, the
  excluded range is left alone, and a routine that reports failure has not
  programmed.
- *Retry loops of `jedec.c`.*  A retry starts in the middle of the page.
  Correct: 0 means written, a failure is a real one, and no byte lands in another's place.
- *Session.*  Options are applied in order; the exclude range and the layout
  change the buffer; nine error exits each have to clean up; three results are
  or-ed into one.  Correct: status 0 after `-w -v` means that the chip holds what
  was asked, and the chip changes only when it was asked to.
- *PCI accesses.*  Address and data go through two ports in two IOCTLs, the operating
  system uses the same pair, either IOCTL can fail unnoticed, and blocks are cut
  into pieces.  Correct: undisturbed, the bytes asked for and no others;
  disturbed, no more harm than one access per disturbance.
- *PCI scan.*  Recursion over bridges whose bus numbers firmware may not have set.
  Correct: it ends, lists nothing twice and misses nothing within reach.
- *Chipset.*  Read-modify-write of registers that others write too and whose bits
  may resist; some results are looked at and some are not.  Correct: the result is
  true, and a change of somebody else is lost only in the one window there is.
- *Board.*  A Super-IO behind an index and a data port, listened to only inside a
  bracket.  Correct: every exit leaves the bracket, no other bit changes,
  and 0 means that the line was raised.
- *LinuxBIOS table.*  Sizes and counts come from memory that may hold anything.
  Correct: the first good table is used, and the name is a record's of it.
- *Calibration.*  It times itself by a clock that may jump, on a machine that may
  be busy, in 32-bit numbers.  Correct: delays are long enough.

PROJECT.json lists every hazard with its line and the properties against it.

## 2. Modules

| module | models | kind |
|---|---|---|
| `MmioDriver` | zones of the kernel driver and the wrappers of `direct_io.c` | detailed |
| `LeaseTable` | what `MmioDriver` promises to the program | abstract |
| `DriverService` | `init_driver` .. `cleanup_driver` of several programs | detailed |
| `OwnedService` | what those programs promise each other | abstract |
| `FlashChips` | each write routine as a record of the choices in which they differ | data |
| `FlashWriter` | one call of `flash->write` | detailed |
| `JedecProgram` | `write_page_write_jedec` and `write_byte_program_jedec` with their retries | detailed |
| `FlashSession` | `main` with layouts, exclude range and exit status | detailed |
| `PciConfig` | `pci_read_*`, `pci_write_*`, blocks, both methods, IOCTL by IOCTL | detailed |
| `ConfigSpace` | what `PciConfig` promises | abstract |
| `PciScan` | `pci_generic_scan_bus` and the searches | detailed |
| `RegisterBits` | the bits of a register's value | data |
| `Chipsets` | each `enable_flash_*` as its register updates | data |
| `ChipsetEnable` | `chipset_flash_enable` | detailed |
| `Boards` | the table of boards, each routine as its accesses | data |
| `BoardEnable` | `board_flash_enable` | detailed |
| `LbTable` | `linuxbios_init` | detailed |
| `Udelay` | calibration and delays | detailed |
| `MmioDriverProofs`, `DriverServiceProofs`, `FlashWriterProofs`, `FlashSessionProofs`, `PciConfigProofs` | theorems about the module they are named after | proofs |
| `WriteLoopsProofs` | theorems about `JedecProgram` and `Udelay` | proofs |
| `EnableProofs` | theorems about `ChipsetEnable` and `BoardEnable` | proofs |
| `DiscoveryProofs` | theorems about `PciScan` and `LbTable` | proofs |
| `MC...` | instances for TLC | |

Definitions carry the names of the code.  A definition whose comment starts with
`(mutant)` is not part of a specification: it is a plausible bug in the
definition that follows it, and PROJECT.json names the property it breaks.

**MmioDriver.**  `mapZone` is `DEVICE_EXTENSION.mapZone`; `ioSpace`, `mdl` and
`userView` are the kernel's objects, each naming what it maps, so that "this
pointer shows that range" is a path of three steps.  The kernel's allocators are
external and return any address not in use - a freed one included - or fail.
`MapMmio` is four actions, one per outcome of its three allocations, next to its
early returns (`MapMmioRefused`).  On the way out `UnmapMmio` does not look at what
`MmGetSystemAddressForMdlSafe` returns and reads through it:
`UnmapMmioCrashes` is the machine that goes down there and comes up with nothing
loaded.  An IOCTL is one step: the program is
single-threaded and only one has the device (`OneProgramOpens` below).  The field
`pMdl` of a zone that failed at the third allocation keeps the address of the
freed MDL, as in the code; that this is harmless is one of the things proved.

**DriverService.**  `pc[p]` is the place of program `p` between `extract_driver`
and the last `DeleteFile`; each call to the service control manager or the file
system is a step.  `service`, `driver`, `svcHandle`, `device`, `file` are the
system's: a deleted service lingers until it is stopped and unreferenced, a
stopped driver unloads when its last handle closes, the image of a loaded driver
can be neither written nor deleted.  `Dies` is what the system does for a
dead process.  `abandoned` is a history variable: it is set when a program
goes away without having stopped the driver and removed the service.

**FlashWriter.**  A byte is the set of its zero bits: erasing empties it and
programming can only add.  One specification stands for all the write routines,
because they differ in seven choices (the fields of the records in
`FlashChips`) and not in control.  Every erase or program operation may take on
any part of its bytes; `hurt` records the pages where that happened, and
`locked` pages ignore operations.  Where the code leaves a page or a block early it goes by the
error bits of the status register (`Errors`): an operation that did not take shows them
or fails silently, and one that took shows none.  `Killed` may happen between any two steps.

**JedecProgram.**  After a failed comparison the code sets `dst` and `src` back
to the start of the page while its counter starts at the wrong byte.  So a retry
loads the first `page_size - start_index` bytes, which `Loaded` says.

**FlashSession.**  One action per stage of `main`.  What files, kernel, chipset
and chip answer is nondeterministic at every call.  `WriteIt` is one step whose
outcomes are the ones FlashWriter allows (anything in the span with 0; only
erased or old bytes with -1).  `Exit` and `CleanupAndExit` tell the exits with
and without `cleanup_driver` apart.  A start of the exclude range behind its end
makes the unsigned difference wrap around and the copy run off the buffers:
`Crash`.  A section of the layout that ends before it starts does the same; a range
that ends behind the chip may go unnoticed or crash (`FillThen`, the one place for all
three copies).  `fread` may deliver any part of the image (`got`): the rest of
the buffer stays zero, and since the result is not looked at, the session goes on with it.

**PciConfig.**  `cf8` and `cfa` are the address ports; what an access reaches
(`Reached`) depends on what they hold when the data port is used, not on what
was asked.  Each IOCTL is a step and may fail (`lost`); the operating system may
make an access of its own between any two (`others`).  `todo` is the rest of the
loop of `pci_generic_block_op`, so `Split` only says which pieces follow.
`strays` is a history variable: the data accesses that went elsewhere.  The
refinement to `ConfigSpace` maps `todo` to the bytes still to do, and what is
promised ends with the first disturbance.

**PciScan.**  The recursion is explicit: `stack` holds the place of every active
call, `calling` the bus of the call about to be made.  What the machine answers is
any function from places to headers: bridges may point at their own bus, at bus
0, or at each other.

**ChipsetEnable and BoardEnable.**  The routines are tables (`Chipsets`,
`Boards`), the modules the machine that runs them.  In `Chipsets` an update is a
register, the bits set and cleared, and what is done behind it (nothing, a
warning, a failure that is returned, ...).  `config` of `ChipsetEnable` holds the
addresses at which a Super-IO was sent the keys of the SiS 950 and not the exit.  In `Boards` a routine is its port
accesses one by one, the bracket's two keys included.  Others write the same
registers between any two steps.  The Super-IO's side (it counts keys while it is
closed, and reads as ones) is external.  Left out of `Boards` are the ports that only
pass time (0xEB, 0xE1, 0xFF) and of `board_asus_p5a` the SMBus controller's own registers,
0xE800-0xE803 and 0xE807, with which it makes up each transaction:
`OnlyWantedBits` speaks of the registers in `BoardRegisters` and not of these.

**LbTable.**  The unit is the word, so a header has six of them and the carry of
the checksum appears at small numbers.  An address is a word too (`Base` is where
the memory is mapped), and `Plus` is the addition of a size found in memory to a 32-bit pointer,
which may wrap around: a record's end may lie before its start, and pass the test
against the table's end.  `Overrun` is a read outside what is
mapped: the sizes are not compared with the mapping.  The two
loops over records differ, as in the code: the count tests a record's end, the
walk computes the next record before it tests, and reads the size of the record behind
the last one.  Count and walk are a step per record, so that both may go in a circle.  Sums modulo `MaxWord` have two forms of zero:
`OtherZero` names the tables that add up and are not taken, because their
checksum is the form that `compute_checksum` does not make of their words.

**Udelay.**  The speed of the machine, interruptions of a pass and a clock that is
set back are external; `count` and the products are taken modulo `ULONG`.

## 3. Runs

| run | instance | states | shows |
|---|---|---|---|
| `mmio` | 3 zones, 3 addresses of each kind, 4 ranges | 958 (symmetry) | no leak, no double release, pointers reach their ranges, implements `LeaseTable` |
| `service` | 3 programs in 2 directories, kills, restarts | 4545 | one opener, no unload in use, nothing left behind, implements `OwnedService`, the service is removed in the end |
| `writer` | all routines, 3 pages of 2 bytes of one bit, every exclude range | 80353 | complete pages, no stale bits, failure programs nothing, one page at risk, excluded pages untouched, protected again, terminates |
| `jedec` | a page of 4 bytes of two bits, 2 retries | 21126 | 0 means written, which failures are real, a retry carries no byte to another place |
| `session` | 21 command lines, chip of 2 pages of 2 bytes, images read as far as any byte | 294534 | verified is asked, changed only as asked, skipped pages are excluded ones, one cleanup per run, failures reach the status |
| `pci_config` | both methods, 3 devices, 2 dwords, single accesses and blocks, one use by others, one lost IOCTL | 435386 | implements `ConfigSpace` while undisturbed, harm is bounded, conf2 closes the space |
| `pci_scan` | 3 buses of 2 devices of 2 functions, 216 machines | 4548 | nothing twice, nothing missed, searches are right, the scan ends |
| `chipset` | every chipset, alone and with SMBus, or two of them, or none; a bit that resists; one write of others | 371668 | the result is true, other bits are kept, no Super-IO that answers is left in its configuration mode |
| `board` | every board, boards with other cards, two boards at once, registers all 0 or all 1, one use by others | 35010 | the bracket is closed, only the wanted bits change, 0 means raised |
| `lbtable` | memories of 20 words with tables right and wrong in each respect, sizes that wrap around | 344948 | the first good table is used, the name is its record's |
| `udelay` | 10-bit numbers, 5 speeds, 6 interruptions, 3 set-backs | 1838 | delays are long enough and at most about twice too long, the calibration ends |
| `session_SectionsLeftAlone` | as `session` | violated | the last byte of a section that is not included is overwritten (finding in PROJECT.json, with the quoted line) |

`TypeOK` of a module, and the other properties of the table in section 4 that no
run lists, are proved and not checked a second time.

**Bounds.**

- *mmio:* three zones give a first, a middle and a last one; three addresses of
  each kind let all zones be full while a freed address can be given out again.
  The ranges are the ones the program maps (the low megabyte, two chip sizes that
  both end at 4 GB, the registers 4 MB below), in units of 128 KB.  Addresses of
  one kind are interchangeable, hence the symmetry; the properties checked under
  it compare them only for equality.  No bound is needed on lengths of runs.
- *service:* three programs cover two in one directory and one elsewhere, and one
  that has the service registered, one that peeks at it and one that waits for
  it to go, at the same time.  A fourth adds no new role.
- *writer:* with three pages there is one before, in and after an excluded range;
  two bytes tell the first byte (the only one some routines look at) from another;
  one bit tells old from new, since all operations work bit by bit.
- *jedec:* four bytes have two in the upper half of the page, two bits let two
  bytes differ when neither is blank, and two retries
  (instead of `MAX_REFLASH_TRIES` = 0x10) distinguish the first, a middle and the
  last try.
- *session:* two pages of two bytes give aligned and unaligned ends of the
  exclude range; the command lines are every mode, the refused combinations, and
  both orders of `-l` and `-i`.  The layout has two sections that meet, written
  with inclusive ends as in README.md.  Ranges and sections that end before they start or
  behind the chip are among the command lines.
- *pci_config:* a device on bus 0, one on bus 1 and one that conf2 does not reach
  (`Conf2Devices` = 2 for 16); two dwords are enough for a block that starts
  inside one, crosses into the next and leaves an odd byte.  One disturbance and
  one failed IOCTL (`MaxOthers`, `MaxLost`) meet in every order.
- *pci_scan:* three buses have bridges to themselves, to bus 0, to each other and
  to a bus that two bridges name; function 0 absent, single and multi-function.
- *chipset:* the registers start blank, full or as wanted; one bit of an update may
  resist, one write of somebody else (`MaxPokes`) may fall between any two steps.
- *board:* `MaxOthers` = 1: a second use repeats the first, since each leaves the
  Super-IO as any other does.  The bracket may be open from a killed run.
- *lbtable:* `MaxWord` = 31 is a little more than the memory is long, so that sizes of 23
  and 30 lead from the first record back into the header or before it, and sums wrap
  around within a header; two windows, candidates at both ends of each, records of size 0,
  too small and too large, a table whose own size wraps around, and checksums off by one or
  in the other form of zero.
- *udelay:* `ULONG` = 1024 overflows within the calibration at the largest speed;
  interruptions and set-backs lie below, at and above a quarter of a second, and
  one interruption (1100 for 71 minutes) is too long for an unsigned long.

`CHECK_DEADLOCK FALSE` stands in the configurations of programs that end, or
that may exit (`writer`, `jedec`, `session`, `pci_config`, `pci_scan`, `chipset`,
`board`, `lbtable`).  The driver, the service and the delays never stop, and there
deadlock is checked.

**Fairness.**

- `FlashWriter`: `WF(Step)` - the routine runs on - but not of the chip.
  `Terminates` assumes of the chip that it is ready again and again
  (`ChipFinishes`), because `wait_82802ab` and its copies poll without a limit.
  The routines with bounded polling never set `busy` and need nothing.  A kill
  is never required.
- `DriverService`: `WF(Steps(p))` for each program: one that started runs on.
  Starting a run, being killed and a restart are not fair.
- `PciScan`: `WF(Scan)`, `Udelay`: `WF(Pass)`: the program is
  single-threaded and does not wait for anything there.  Searches and delays are
  calls somebody may or may not make, and running out of memory is not fair.
- `ScanEnds` holds of every machine; `CalibrationEnds` excepts one too fast for the width
  of `count`.  That `linuxbios_init` ends is not stated, for it need not (section 5).

## 4. Proofs

Each proof module has one inductive invariant (`IInv`, or `Inv`), the conjunction of named
parts: `Init` implies it, one lemma per part or per action that the next
state has it, and the theorems from it.  The proofs are about `Spec`; no
theorem uses fairness.  Every invariant was first checked by TLC.

### MmioDriver

`MmioDriverProofs` proves, for every number of zones, every set of addresses and
every set of ranges that satisfy the assumptions of `MmioDriver` (zones at
least 1, limits and ranges natural numbers, every range starting below 4 GB, `NULL` not an address):

| theorem | property |
|---|---|
| `TypeCorrect` | `TypeOK` |
| `NeverReleasesDead` | `NoBadRelease` |
| `NeverLeaks` | `NothingLeaks` |
| `PointersAreGood` | `PointersReachTheirRange` |
| `CloseReleasesAll` | `ClosedHoldsNothing` |
| `CapacityKept` | `ZonesMatchViews` |
| `PointersUndisturbed` | `OnlyItsOwnPointer` |
| `ImplementsLeaseTable` | `ImplementsLeases` |

None of these is inductive alone.  That no dead MDL is released, for one, depends
on a zone in use naming live resources, on no two zones naming the same one, and
on a free zone naming none except, in `pMdl`, a possibly dead MDL that no path
releases because the close skips free zones.  The inductive invariant `IInv` says
that:

- `FreeZonesBlank`: a free zone has no user address;
- `ChainsLive`: a zone in use names a live view, whose MDL is the zone's, whose
  system address is the zone's, whose range is the zone's;
- `SysOwned`, `MdlOwned`, `UserOwned`: every live resource is named by a zone in use;
- `SysDistinct`: two zones in use have different system addresses - the chain
  makes their MDLs and views differ too (`ChainsDistinct`);
- `ViewsAreZones`: the pointers the program holds are the zones in use;
- `~bugcheck`, and nothing in use while the handle is closed.

`NextIInv` has one step per action.  The failing maps leave every resource as it
was and edit one free zone (`FreeZoneEdit`); unmap and close are both
`CleanupMmioMapping` of a set of zones (`CleanupKeepsIInv`).  The capacity theorem
is a bijection between zones in use and pointers, and the refinement theorem maps
each step to `Grant`, `Return`, `Open`, `Close` or a stutter.

### DriverService

`DriverServiceProofs` proves, for every set of programs and every way they share
directories (`DirsAssumption`; the markers `NoOne`, `Free`, `Leaving` and `Abandoned` are
not programs):

| theorem | property |
|---|---|
| `TypeCorrect` | `TypeOK` |
| `OnlyOneOpens` | `OneProgramOpens` |
| `NeverUnloadedInUse` | `NotUnloadedInUse` |
| `NothingStays` | `NothingLeftBehind` |
| `FileIsWhole` | `OwnFileWhole` |
| `ImplementsOwned` | `ImplementsOwnedService` |

The device object is not exclusive, so that one program opens it follows from
the service alone: a program opens the device only after its own `CreateService`
succeeded, and no other can until that service is gone.  `Ownership` is this
argument: one owner, an owner implies a registered service from its own directory,
an open device is an owner's in its session, a session implies a loaded driver, a
loaded driver implies a service.  `LeftByAbandoning` says what no owner means unless
a program went away without removing its service.  `WritersWrite` and
`OwnFiles` are about the file and serve `FileIsWhole` only; they need that a
program alone in its directory is the only writer of its file.

### FlashWriter

`FlashWriterProofs` proves, for every size of chip and page, every image, every
excluded range and every subset of the routines of `FlashChips`
(`WritersAssumption`: the routines run are the ones of the table):

| theorem | property |
|---|---|
| `TypeCorrect` | `TypeOK` |
| `LosesNoByte` | `CompletePages` |
| `LeavesNoStaleBit` | `NoStaleBits` |
| `FailedBeforeProgramming` | `FailureProgramsNothing` |
| `RisksOnePage` | `OnePageAtRisk` |
| `ProtectsAgain` | `ProtectedAgain` |
| `StaysInSpan` | `UntouchedOutsideSpan` |

The properties do not hold of arbitrary records of choices: a routine that erases
each page and then checks the whole chip, say, would fail.  `ChipTable` lists what
the routines of the table have in common, checked record by record, and is all
that the rest of the proof knows of them.  The heart of `IInv` is `Progress`: a page
of the span on which every operation took holds the image behind the loop, the
bytes programmed so far at the loop, and is erased before it.  `OnlyErased` and
`OnlyImageBits` bound the zero bits of all pages, hurt ones included.  `Untouched`
(the pages the loop has not reached are the old ones) makes `OnePageAtRisk` inductive, and
`StillLocked` does so for `ProtectedAgain`.

### JedecProgram

The first part of `WriteLoopsProofs` proves, for every page size, number of retries, page to write
and page written over:

| theorem | property |
|---|---|
| `TypeCorrect` | `TypeOK` |
| `ZeroIsWritten` | `ZeroMeansWritten` |
| `OutcomeIsAStep` | `Outcome` |
| `FailuresAreReal` | `FailureIsReal` |

`OutcomeIsAStep` is what lets FlashWriter take a call of these routines as one
step.  `Passes` relates the history variable `passes` to `tried` at each place of the
loop, which `FailureIsReal` needs, and bounds both.  `FirstWrongExists` gives the
type of `start_index`: a nonempty set of natural numbers has a least element, by
the well-foundedness of `<`.

### Udelay

The second part of `WriteLoopsProofs` proves, for every speed of the machine, width of a
number, first `count`, shortest pass, interruption and set-back of the clock that is less than
`ULONG`:

| theorem | property |
|---|---|
| `DelayInvHolds` | types; `micro` is what the last pass gave |
| `DelaysLast` | `DelayAsAsked` |

What is left out is named in `DelayAsAsked`: `InRange`, nothing overflowed, and `Wrapped`, the time
of the last pass was no unsigned long (the clock went back past its start, or
71 minutes passed).  The proof is arithmetic on two divisions that round down, and `QUARTER`
in the bound from above is what the rounding of `micro` can cost.

### FlashSession

`FlashSessionProofs` proves, for every size of chip and page, every contents of
chip and file and every set of command lines (`CommandsAssumption`: options that
`getopt_long` can return, positions natural numbers):

| theorem | property |
|---|---|
| `Typed` | `TypeOK` |
| `StatusZeroIsAsked` | `VerifiedIsAsked` |
| `UnaskedUnchanged` | `ChangedOnlyAsAsked` |
| `CleansUpOnce` | `CleanedUpOnce` |
| `SkipsOnlyExcluded` | `SkippedPagesExcluded` |
| `FailuresStay` | `StatusKeepsFailures` |

The invariant follows `main`: `Parsed` relates the options read so far to the
command line, `Places` says what each stage can rely on (which mode was chosen,
whether the driver is there), and `Buffer` what is in `buf` behind each of the two
changes of it, in terms of the old chip and the image.  `VerifiedIsAsked` needs
`Buffer`, because the verification compares the chip with `buf` and not with the file:
what the theorem gives a user is therefore `Asked`, the image only as far as `fread` delivered it and zeros
behind that.

### PciConfig

`PciConfigProofs` proves, for any devices, size of the configuration space,
requests (`RequestsAssumption`), numbers of disturbances and of failures:

| theorem | property |
|---|---|
| `Typed` | `TypeOK` |
| `BlockIsCut` | - : `pci_generic_block_op` cuts any block into aligned accesses of 1, 2 or 4 bytes that meet and never pass its end |
| `DamageIsBounded` | `DamageBounded` |
| `ClosedAgain` | `ClosedBetweenRequests` |
| `SpaceImplemented` | `ImplementsConfigSpace` |

`Pending` says that what is still to do is the whole request or an ordered
sequence of its pieces, `Possible` that a request which cannot be made does not get
beyond its first step.  `Accounted` strengthens `DamageBounded`: a stray access that is
about to happen (the address port is not where it should be) has been paid for
already.  The refinement uses `Accounted` too: while undisturbed no access is
misaimed, so it reaches what was asked (`AimedReaches`), and each piece becomes one
`Move` of `ConfigSpace`.

### PciScan

The first part of `DiscoveryProofs` proves, for any finite set of buses, any number of devices and
functions and every machine:

| theorem | property |
|---|---|
| `Typed` | `TypeOK` |
| `ListIsRight` | `ListIsReachable` |
| `SearchesAreRight` | `SearchIsRight` |
| `DepthIsBounded` | `DepthBounded` |

`Listed` is the heart of `Inv`: in the list are exactly the visible functions that
lie before the place of their bus's call, or whose bus's call has returned.
`Advance` shows that a call which goes on passes its place and nothing else that is visible -
the functions it leaves out are those of a device whose function 0 says there are none
(`MultiRight`).  `Followed` (the bus of a listed bridge has been entered or is about
to be) makes the set of buses entered closed at the end, so that the list is complete
(`Complete`); `OnlyReached` (any closed set contains them) gives the other
direction.  `OneCallEach` bounds the depth: the calls inject into the buses.

### ChipsetEnable

The first part of `EnableProofs` proves, for every chipset of the table, any contents of the
registers, any bits that resist and any number of writes by others:

| theorem | property |
|---|---|
| `InvHolds` | the invariant `Inv` |
| `ForeignBitsAreKept` | `ForeignBitsKept` |
| `ResultHolds` | `ResultIsTrue` |
| `ConfigurationIsLeft` | `ConfigurationLeft` |

`WellFormed` is what the routines of the table have in common - no register is updated
twice, no bit both set and cleared - and all that the proof knows of them.  It is checked routine
by routine, with the bits of their constants.  `Kept` says that behind an update, and in the value
about to be written, the bits not named are as others left them, unless the write
was raced.  `Right` says of every update that is over that it is `Done`: its bits
are there, or resisted and nobody looked, or the routine unlocked another way.
`Exits` says of the table that behind the update that sends the keys comes a blind one at 0x2e, and
`Owing` that no more Super-IOs were sent the keys than the updates left will send the exit (`Owed`).

### BoardEnable

The second part of `EnableProofs` proves, for every board, machine, contents of the registers,
bracket open or closed at the start, and any number of uses of the ports by others:

| theorem | property |
|---|---|
| `BoardInvHolds` | the invariant `BoardInv` |
| `BracketIsClosed` | `BracketClosed` |
| `OnlyWantedBitsChange` | `OnlyWantedBits` |
| `ZeroIsRaised` | `ZeroMeansRaised` |

`WellMade` is the condition on a routine that makes it right, checked access by
access for each of the six: the keys come first and the leave last, an input
follows the index that aims it and an output the input of the same
register, registers above 0x30 are used behind the selection of the logical device,
and no register is changed twice or changed before it is tested.  The parts of the
invariant:

- `Aimed`: the index port points where the next access means, while the bracket is open
  (or, for the GPIO pair without one, while nobody else came);
- `Fresh`: `tmp` is what its register holds, or all ones, as a closed Super-IO reads;
- `Bracket`: open between the keys and the leave when undisturbed, closed at the end always;
- `Reasoned`: an access is reached only if the tests in front of it let it be;
- `Justified`: what differs from the first contents was changed by an access that
  was reached, as it says;
- `Raised`: when undisturbed, every change that was come past is done.

`OnlyWantedBits` needs that a use by others cannot make an output go astray: others
leave the Super-IO closed, so it ignores the output, and a value of all ones never passes
an ID test.  `Promised` shows that `Promise`, which says what the comments
of the routines say, is what the accesses change.

### LbTable

The second part of `DiscoveryProofs` proves, for any size and contents of the memory, any width of a
word and any two windows (the second begins at a multiple of `STEP`, behind the first):

| theorem | property |
|---|---|
| `LbInvHolds` | the invariant `LbInv` |
| `FirstIsTaken` | `FirstGoodTable` |
| `NameIsTheTables` | `NamedByTheTable` |

The property adds up words by a recursion over memory (`Sum`).  That the recursion has a
solution, and what it is, is shown by least and greatest counterexamples
(`LeastExists`, `GreatestExists`): `SumRule` gives the sum word by word.  `Reached` is the least
set that holds the first record and, with a record that fits, the one behind it; `Counting`
says that while nothing wraps around, the records behind the count are those of this set below
`rec`, so that `AllCounted` makes the count their number.

`Summed` relates `sum` to the total of the words so far: equal but for multiples of
`MaxWord`, and 0 only if all were zeros.  With it, a candidate that fails a test is not usable
(`SkipKeeps`, `MiscountedKeeps`, `HeaderUnusable`, `TableUnusable`), so that `PassedOver` is kept.
`Walked` says that the walk skips nothing unless a size wraps around: every record reached below `rec` ends at or before
`rec`, and none of them is a mainboard (`NoneInside`).

The proof of `TableUnusable` fails for a table whose words add up to zero and whose
checksum is 0xFFFF; TLC confirms it with such a table.  `FirstGoodTable` therefore excepts
both forms of zero (`OtherZero`), and not only tables of zeros.

### Checked by TLC only

- All liveness (`Terminates`, `ServiceRemoved`, `ScanEnds`,
  `CalibrationEnds`), which is out of reach of TLAPS.

Every safety property and every action property of a passing run is stated by a theorem.

## 5. What is not modelled

- How `pci_init` chooses a method (`conf1_detect`, `conf2_detect`,
  `intel_sanity_check`): `PciConfig` starts with either.  `pci_read_block` of
  length 2 or 4 at a position that is not aligned: nothing in the program asks for it.
  The base addresses that `pci_generic_fill_info` computes, which nothing reads, and the
  `pci_fill_info` flags beyond the ids.
- Probing, and the `erase` entry points called by `-E`, are one step of
  `FlashSession`.  What identification sequences do to a chip of another make is
  not said by this code but by data sheets.
- Timing of the polls: a toggle-bit poll is "the chip finished, or the limit passed".
- The text of names: `find_mainboard` and `-m` give a name or none, and
  boards are matched by equality.  `-V`, `-h` and `-c` only choose what is printed or tried; what they
  choose is nondeterministic (`ProbeFlash`, `image.idOk`).
- A layout longer than `MAX_ROMLAYOUT` writes outside its array: a hazard
  without a property, since what the build does then is not defined.
- `msys_doc.c` is compiled out (`DISABLE_DOC`); `error_msg.c` prints;
  `libpci/header.h` is constants.

Where the code and its documents disagree, or where it does less than one would
think, and no run is spent on it:

- `VerifyMmioAddressRange` compares strictly, so ranges that share a start or an end
  are both admitted (`driver/winflashrom.c:437`).  Probing chips of several sizes
  does not need that: each range is unmapped before the next.
- `pci_generic_error` exits without `cleanup_driver`, so the service stays
  registered; `CleanedUpOnce` and `NothingLeftBehind` exempt it by name.
- README.md calls writing the default; a file name alone writes nothing.
- `-i` in front of `-l` includes no section, and the session still ends with 0.
- An unknown chipset leaves -2 in the exit status of a session that did all it was asked.
- `micro` is twice what the comment in `udelay.c:35` says, since `count` is doubled
  before it is used.  `DelayAsAsked` shows that the factor hides interruptions of a pass
  as long as the pass itself; with the commented formula the property fails (mutant).
- `search_lb_records` never leaves a record of size 0 (`lbtable.c:167`), whose size
  `for_each_lbrec` tests.  And a size of nearly 2^32 passes the tests of `for_each_lbrec`, since the
  sum with the pointer wraps around (`lbtable.c:71-76`): the count can go back into the header
  and round for ever, before any checksum was looked at.  No property says that the search ends; it would
  have to leave out just these memories.
- The result of `fread` is not looked at (`flashrom.c:495`): an image read short is written
  and verified with zeros behind what was read, and the session ends with 0.
- A status of 0 is worth what the routine looks at.  `write_39v040fa` returns 0 on a chip whose
  blocking registers could not be mapped and which took nothing; `ProtectedAgain` does not
  see that, only `-v` does.  `82802ab.c` polls without a limit, and `Terminates` assumes a chip that
  becomes ready.  No routine of `board_enable.c` reads back what it wrote; `ZeroMeansRaised` is about
  accesses that took.
- `NothingLeftBehind` is about the service and the driver.  `winflashrom.sys` itself may stay in the directory:
  the result of its `DeleteFile` is not looked at.
- `enable_flash_sis630` sends the keys of the SiS 950 to both of its addresses and, when neither answers,
  returns -1 without an exit; `ConfigurationLeft` excepts this.
- Rounding of the exclude range is in `SkippedPagesExcluded` only: the excluded pages of
  `UntouchedOutsideSpan` are arbitrary.
- A retry of `write_page_write_jedec` takes its pointers from the start of the page and its count from
  the failed byte `i` (`jedec.c:152, 175`): it programs the first `page_size - i` bytes, which hold that
  byte only in the lower half of the page.  A byte that failed in the upper half is therefore not tried
  again, and 1 is returned.  `Outcome` says what is certain in spite of this.
- README.md:90-96 asks for `-m` on boards that the code finds by their card ids
  alone (Agami Aruma, IBM x3455).

## 6. Plan

Done: every component that keeps state has a module, a run and proofs of all the safety
properties its run checks.  What is left, in this order:

1. `DriverService` with `MmioDriver`: several programs and one zone table, replacing
   the assumption that one program opens the device by its proof.
2. `PciConfig` under `PciScan`: the scan over accesses that may go astray, instead of
   one that reads whole headers.
3. `linuxbios_init` within the mapping: which memories lead to `Overrun`, stated and proved.
