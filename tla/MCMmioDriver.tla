---------------------------- MODULE MCMmioDriver ----------------------------
(***************************************************************************)
(* Instances of MmioDriver.  One unit is 128 KB, so 1 MB is 8 units, 4 GB  *)
(* is 32768 and 4 GB - 20 MB is 32608.                                     *)
(***************************************************************************)
EXTENDS MmioDriver, TLC

CONSTANTS s1, s2, s3, m1, m2, m3, u1, u2, u3

Low1MB   == [start |-> 0, size |-> 8]        \* lbtable.c: the coreboot table
Chip512K == [start |-> 32764, size |-> 4]    \* flashrom.c: a chip ends at 4 GB
Chip256K == [start |-> 32766, size |-> 2]
Regs512K == [start |-> 32732, size |-> 4]    \* flashrom.c: registers, 4 MB below

ProbeRanges == {Low1MB, Chip512K, Chip256K, Regs512K}
ChipRanges  == {Chip512K, Chip256K}

Interchangeable == Permutations({s1, s2, s3}) \cup Permutations({m1, m2, m3})
                     \cup Permutations({u1, u2, u3})
=============================================================================
