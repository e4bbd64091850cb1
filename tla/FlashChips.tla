----------------------------- MODULE FlashChips -----------------------------
(***************************************************************************)
(* The write and erase routines of the chip drivers, each as the record of *)
(* the choices in which the routines differ:                               *)
(*                                                                         *)
(*   unlock  "none"   nothing to unlock                                    *)
(*           "chip"   a read sequence unprotects the whole chip            *)
(*           "regs"   blocking registers, mapped first; the map may fail   *)
(*           "bits"   one lock register per block, all before the loop     *)
(*           "block"  the block's register, right before it is erased      *)
(*   erase   "chip"   one chip-erase command before the loop               *)
(*           "blocks" every block before the loop                          *)
(*           "page"   each page just before it is programmed               *)
(*   check   "all"    every byte must read 0xFF after the erase            *)
(*           "first"  only the first byte must                             *)
(*           "none"   not looked at                                        *)
(*   unit    "page"   a page is loaded and programmed at once              *)
(*           "byte"   byte by byte                                         *)
(*   wait    "toggle" polls a bounded number of times and goes on          *)
(*           "ready"  polls until the chip says it is ready                *)
(*           "status" like ready, and leaves when the block is protected   *)
(*   span    "all"    every page                                           *)
(*           "kept"   not the excluded pages                               *)
(*           "half"   the lower half of the pages                          *)
(*   relock  does its end undo the unlocking (protect_jedec and            *)
(*           protect_82802ab write no lock register: FALSE for them)       *)
(***************************************************************************)

UnlockKinds == {"none", "chip", "regs", "bits", "block"}
Routines ==
  [unlock : UnlockKinds,
   erase  : {"chip", "blocks", "page"},
   check  : {"all", "first", "none"},
   unit   : {"page", "byte"},
   wait   : {"toggle", "ready", "status"},
   span   : {"all", "kept", "half"},
   relock : BOOLEAN]

\* A routine that erases the chip and then programs it.
WholeChip(unlock, erase, check, unit, wait, relock) ==
  [unlock |-> unlock, erase |-> erase, check |-> check, unit |-> unit,
   wait |-> wait, span |-> "all", relock |-> relock]

\* A routine that erases each page just before it programs it, byte by byte.
PageByPage(unlock, wait, span, relock) ==
  [unlock |-> unlock, erase |-> "page", check |-> "none", unit |-> "byte",
   wait |-> wait, span |-> span, relock |-> relock]

write_jedec == WholeChip("none", "chip", "all", "page", "toggle", FALSE)

\* sst39sf020.c; write_49f002 of w49f002u.c is the same routine.
write_39sf020 == WholeChip("none", "chip", "none", "byte", "toggle", FALSE)
write_49f002  == write_39sf020

\* mx29f002.c programs byte by byte without a page loop.
write_29f002 == write_39sf020

write_39v040fa  == WholeChip("regs", "chip", "none", "byte", "toggle", TRUE)
write_sst_fwhub == WholeChip("block", "blocks", "all", "byte", "toggle", FALSE)
write_82802ab   == WholeChip("block", "blocks", "first", "byte", "ready", FALSE)

\* sharplhf00l04.c differs from 82802ab.c in what it prints.
write_lhf00l04 == write_82802ab

write_29f040b  == PageByPage("none", "toggle", "all", FALSE)
write_49lf040  == write_29f040b
write_49fl004  == PageByPage("none", "toggle", "kept", FALSE)
write_28sf040  == PageByPage("chip", "toggle", "all", TRUE)
write_49lfxxxc == PageByPage("bits", "status", "all", FALSE)
write_linuxbios_m29f400bt == PageByPage("none", "toggle", "half", FALSE)

\* The routines the flashchips table uses, by how they put the chip at risk.
WholeChipRoutines == {write_jedec, write_39sf020, write_49f002, write_29f002, write_39v040fa,
                      write_sst_fwhub, write_82802ab, write_lhf00l04}
PageRoutines == {write_29f040b, write_49lf040, write_49fl004, write_28sf040, write_49lfxxxc,
                 write_linuxbios_m29f400bt}
flashchips == WholeChipRoutines \cup PageRoutines
=============================================================================
