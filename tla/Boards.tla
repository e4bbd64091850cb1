------------------------------- MODULE Boards -------------------------------
(***************************************************************************)
(* The table of board_enable.c and its routines, each as the sequence of   *)
(* its port and configuration accesses:                                    *)
(*                                                                         *)
(*   "key"    0x87 to the index port of the Super-IO                       *)
(*   "leave"  0xAA to it                                                   *)
(*   "index"  the number of a register to an index port                    *)
(*   "in"     a value is read                                              *)
(*   "out"    the value is written with bits cleared and set               *)
(*   "is"     the value read must be the one given, or -1 is returned      *)
(*   "skip"   the routine goes to its last step when a bit is set          *)
(*   "poll"   a device answers within ASUSP5A_LOOP polls, or -1 is returned*)
(*                                                                         *)
(* A register is where it is ("sio" and "gpio" are behind an index port)   *)
(* and its number; values are the sets of the bits that are 1.             *)
(*                                                                         *)
(* Left out: writes to ports 0xEB, 0xE1 and 0xFF, which only pass time, and*)
(* of board_asus_p5a the SMBus controller's own registers, 0xE800-0xE803   *)
(* and 0xE807 - status, command, start, address, index - in which it puts  *)
(* each transaction together and which it leaves as the last one set them. *)
(* "smbus" is the device's register behind them: an "in" or "out" of it is *)
(* the data port 0xE804 of one transaction.                                *)
(***************************************************************************)
EXTENDS Sequences, RegisterBits

Access(do, place, reg) ==
  [do |-> do, place |-> place, reg |-> reg, clear |-> {}, set |-> {}]
Index(place, reg) == <<Access("index", place, reg)>>
In(place, reg)    == <<Access("in", place, reg)>>
Out(place, reg, clear, set) ==
  <<[do |-> "out", place |-> place, reg |-> reg, clear |-> clear, set |-> set]>>
Poll == <<Access("poll", "smbus", 0)>>

w836xx_ext_enter == <<Access("key", "sio", 0), Access("key", "sio", 0)>>
w836xx_ext_leave == <<Access("leave", "sio", 0)>>
wbsio_read(index) == Index("sio", index) \o In("sio", index)
wbsio_write(index, data) == Index("sio", index) \o Out("sio", index, Byte, BitsOf(data))
wbsio_mask(index, data, mask) ==
  wbsio_read(index) \o Out("sio", index, BitsOf(mask), BitsOf(data) \cap BitsOf(mask))
SetBits(place, reg, set) == In(place, reg) \o Out(place, reg, {}, BitsOf(set))

w83627hf_gpio24_raise ==
  w836xx_ext_enter
    \o wbsio_read(\h20) \o <<[Access("is", "sio", \h20) EXCEPT !.set = BitsOf(\h52)]>>
    \o wbsio_mask(\h2b, \h10, \h10)
    \o wbsio_write(\h07, \h08)
    \o wbsio_mask(\h30, \h01, \h01)
    \o wbsio_mask(\hf0, \h00, \h10)
    \o wbsio_mask(\hf2, \h00, \h10)
    \o wbsio_mask(\hf1, \h10, \h10)
    \o w836xx_ext_leave

board_via_epia_m == SetBits("pci", \he4, \h10) \o SetBits("port", \h4d, \h80)

board_asus_a7v8x_mx ==
  In("pci", \h59) \o Out("pci", \h59, BitsOf(\h80), {})
    \o w836xx_ext_enter
    \o wbsio_read(\h24) \o <<[Access("skip", "sio", \h24) EXCEPT !.set = BitsOf(\h02)]>>
    \o wbsio_mask(\h24, \h08, \h08)
    \o w836xx_ext_leave

board_asus_p5a ==
  Poll \o Poll \o In("smbus", 0) \o Out("smbus", 0, BitsOf(\h02), {}) \o Poll

board_ibm_x3455   == Index("gpio", \h45) \o SetBits("gpio", \h45, \h20)
board_epox_ep_bx3 == SetBits("port", \h36, \h40)

VT8235 == <<\h1106, \h3177>>
VT8237 == <<\h1106, \h3227>>
Zero   == <<0, 0>>

\* needs: the devices of which the routine wants one (none: nothing is looked for)
Board(first, card, second, card2, lb, needs, enable) ==
  [first |-> first, card |-> card, second |-> second, card2 |-> card2,
   lb |-> lb, needs |-> needs, enable |-> enable]

board_pciid_enables ==
  <<Board(<<\h1022, \h7468>>, Zero, Zero, Zero,
          "iwill:dk8_htx", {}, w83627hf_gpio24_raise),
    Board(<<\h1022, \h746b>>, <<\h1022, \h36c0>>, Zero, Zero,
          "AGAMI:ARUMA", {}, w83627hf_gpio24_raise),
    Board(VT8235, <<\h1106, \haa01>>, <<\h1106, \h3123>>, <<\h1106, \haa01>>,
          "", {VT8235}, board_via_epia_m),
    Board(VT8235, <<\h1043, \h80a1>>, <<\h1106, \h3205>>, <<\h1043, \h8118>>,
          "", {VT8235, VT8237}, board_asus_a7v8x_mx),
    Board(<<\h8086, \h1076>>, <<\h8086, \h1176>>, <<\h1106, \h3059>>, <<\h10f1, \h2498>>,
          "", {VT8235, VT8237}, board_asus_a7v8x_mx),
    Board(<<\h10b9, \h1541>>, Zero, <<\h10b9, \h1533>>, Zero,
          "asus:p5a", {}, board_asus_p5a),
    Board(<<\h1166, \h0205>>, <<\h1014, \h0347>>, Zero, Zero,
          "ibm:x3455", {}, board_ibm_x3455),
    Board(<<\h8086, \h7110>>, Zero, <<\h8086, \h7190>>, Zero,
          "epox:ep-bx3", {}, board_epox_ep_bx3)>>
=============================================================================
