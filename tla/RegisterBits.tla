---------------------------- MODULE RegisterBits ----------------------------
(***************************************************************************)
(* The value of a register or a port as the set of its bits that are 1.    *)
(***************************************************************************)
EXTENDS Integers

BitsOf(n) == {b \in 0 .. 15 : (n \div 2^b) % 2 = 1}
Byte      == 0 .. 7
Word      == 0 .. 15
=============================================================================
