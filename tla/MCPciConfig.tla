----------------------------- MODULE MCPciConfig -----------------------------
(***************************************************************************)
(* Instances of PciConfig: two buses, a device conf2 does not reach, two   *)
(* dwords of space; single accesses with and without alignment, and blocks *)
(* of the lengths and positions that pci_generic_block_op tells apart.     *)
(***************************************************************************)
EXTENDS PciConfig

Device(bus, dev, func) == [bus |-> bus, dev |-> dev, func |-> func]
SampleDevices == {Device(0, 1, 0), Device(1, 1, 1), Device(0, 2, 0)}

Single(op, d, pos, len) == [op |-> op, block |-> FALSE, dev |-> d, pos |-> pos, len |-> len]
Block(op, d, pos, len)  == [op |-> op, block |-> TRUE, dev |-> d, pos |-> pos, len |-> len]

Reads ==
  {Single("read", d, 4, 4) : d \in SampleDevices}
    \cup {Single("read", Device(1, 1, 1), 3, 1), Single("read", Device(0, 2, 0), 1, 2)}
    \cup {Block("read", Device(0, 1, 0), pl[1], pl[2]) : pl \in {<<0, 8>>, <<0, 3>>, <<5, 3>>, <<2, 0>>}}
    \cup {Block("read", d, 1, 7) : d \in SampleDevices}
Writes ==
  {Single("write", Device(0, 2, 0), 4, 4), Single("write", Device(1, 1, 1), 2, 2),
   Single("write", Device(1, 1, 1), 2, 4), Block("write", Device(0, 1, 0), 1, 7)}
SampleRequests == Reads \cup Writes
=============================================================================
