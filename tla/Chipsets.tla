------------------------------ MODULE Chipsets ------------------------------
(***************************************************************************)
(* The enable_flash_* routines of chipset_enable.c, each as the sequence   *)
(* of the register updates it makes.  An update reads a register, clears   *)
(* and sets bits, writes it, and then                                      *)
(*                                                                         *)
(*   "blind"   goes on                                                     *)
(*   "check"   reads it back; what differs from the value written ends the *)
(*             routine with -1                                             *)
(*   "result"  like check, but nothing is written when nothing changes     *)
(*   "warn"    like result, but a difference is only printed               *)
(*   "unlock"  the keys are sent to the SiS 950 at 0x2e, and to the one at *)
(*             0x4e when it does not answer; then blind, at 0x4e: left out *)
(*             when the one at 0x2e answered, -1 when neither did          *)
(*                                                                         *)
(* Behind the update of a Super-IO its configuration mode is left.         *)
(*                                                                         *)
(* A register is the place it is in and its number: the device found       *)
(* ("dev"), the SMBus device, device 0:1.0 ("isa"), an I/O port, or a      *)
(* Super-IO.  Its value is the set of its bits that are 1.                 *)
(***************************************************************************)
EXTENDS Sequences, RegisterBits

Update(place, reg, set, after) ==
  [reg |-> <<place, reg>>, width |-> Byte, clear |-> {}, set |-> BitsOf(set), after |-> after]
Wide(u) == [u EXCEPT !.width = Word]
Cleared(u, bits) == [u EXCEPT !.clear = BitsOf(bits)]

enable_flash_ali_m1533 == <<Update("dev", \h47, \h46, "blind")>>
enable_flash_sis630 ==
  <<Update("isa", \h40, \h0b, "blind"), Update("isa", \h45, \h40, "blind"),
    Update("sio4e", \h24, \hfc, "unlock"), Update("sio2e", \h24, \hfc, "blind")>>
enable_flash_piix4   == <<Wide(Update("dev", \h4e, \h2c4, "result"))>>
enable_flash_ich(bios_cntl) == <<Update("dev", bios_cntl, 1, "result")>>
enable_flash_vt823x  == <<Update("dev", \h40, \h10, "check")>>
enable_flash_cs5530  == <<Update("dev", \h52, \h07, "blind"), Update("dev", \h5b, \h20, "blind")>>
\* written without being read: every bit is given
enable_flash_sc1100  == <<Cleared(Update("dev", \h52, \hee, "check"), \h11)>>
enable_flash_sis5595 == <<Cleared(Update("dev", \h45, \h04, "check"), \h20)>>
enable_flash_amd8111 == <<Update("dev", \h43, \hc0, "warn"), Update("dev", \h40, \h01, "result")>>
enable_flash_ck804   == <<Update("dev", \h88, \hc0, "warn"), Update("dev", \h6d, \h01, "result")>>
enable_flash_sb400 ==
  <<Update("smbus", \h79, \h01, "blind"), Update("dev", \h48, \h21, "blind"),
    Update("port", \hc6f, \h40, "blind")>>
enable_flash_mcp55 ==
  <<Update("dev", \h88, \hff, "blind"), Update("dev", \h8c, \hff, "blind"),
    Wide(Update("dev", \h90, \h7fff, "blind")), Update("dev", \h6d, \h01, "result")>>
enable_flash_ht1000  == <<Update("dev", \h41, \h0e, "blind"), Update("dev", \h43, \h10, "blind")>>

\* The table in its order.  Neighbours with the same routine are one entry.
enables ==
  <<[name |-> "SIS630",   doit |-> enable_flash_sis630],
    [name |-> "PIIX4",    doit |-> enable_flash_piix4],
    [name |-> "ICH0-5",   doit |-> enable_flash_ich(\h4e)],
    [name |-> "ICH6-8",   doit |-> enable_flash_ich(\hdc)],
    [name |-> "VT823x",   doit |-> enable_flash_vt823x],
    [name |-> "VT82C686", doit |-> enable_flash_amd8111],
    [name |-> "CS5530",   doit |-> enable_flash_cs5530],
    [name |-> "SC1100",   doit |-> enable_flash_sc1100],
    [name |-> "SIS5595",  doit |-> enable_flash_sis5595],
    [name |-> "AMD8111",  doit |-> enable_flash_amd8111],
    [name |-> "M1533",    doit |-> enable_flash_ali_m1533],
    [name |-> "CK804",    doit |-> enable_flash_ck804],
    [name |-> "MCP55",    doit |-> enable_flash_mcp55],
    [name |-> "SB400",    doit |-> enable_flash_sb400],
    [name |-> "HT1000",   doit |-> enable_flash_ht1000]>>
=============================================================================
