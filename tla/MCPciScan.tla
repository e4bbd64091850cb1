------------------------------ MODULE MCPciScan ------------------------------
(***************************************************************************)
(* Machines of three buses with two devices of two functions: bridges to   *)
(* any bus as function 0 or 1, bus 0 included, and equal ids on different  *)
(* buses.                                                                  *)
(***************************************************************************)
EXTENDS PciScan

CONSTANTS ethernet, isa, ours, other

Dev(id, card, multi) ==
  [id |-> id, card |-> card, type |-> "normal", multi |-> multi, secondary |-> 0]
Bridge(multi, bus) ==
  [id |-> isa, card |-> other, type |-> "bridge", multi |-> multi, secondary |-> bus]
Odd == [id |-> isa, card |-> other, type |-> "other", multi |-> FALSE, secondary |-> 1]

\* bus 0: a device or bridge of one or two functions, and a bridge behind it;
\* bus 1: a device or a bridge to any bus; bus 2: a device of two functions
Machine(f00, f01, f10, b1, f20, f21) ==
  [f \in Functions |-> CASE f = <<0, 0, 0>> -> f00 [] f = <<0, 0, 1>> -> f01
                         [] f = <<0, 1, 0>> -> f10 [] f = <<1, 0, 0>> -> b1
                         [] f = <<2, 0, 0>> -> f20 [] f = <<2, 0, 1>> -> f21
                         [] OTHER -> Absent]

Sample ==
  {Machine(f00, f01, f10, b1, f20, f21) :
     f00 \in {Absent, Dev(ethernet, other, FALSE), Bridge(TRUE, 1)},
     f01 \in {Dev(ethernet, ours, FALSE), Bridge(FALSE, 0), Bridge(FALSE, 2)},
     f10 \in {Absent, Bridge(FALSE, 1)},
     b1  \in {Dev(ethernet, ours, FALSE), Bridge(FALSE, 1), Bridge(FALSE, 2)},
     f20 \in {Odd, Bridge(TRUE, 1)},
     f21 \in {Dev(ethernet, other, TRUE), Bridge(FALSE, 0)}}
=============================================================================
