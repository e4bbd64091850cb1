----------------------------- MODULE LeaseTable -----------------------------
(***************************************************************************)
(* What the kernel driver promises to the program that opened it, free of  *)
(* zones, MDLs and kernel addresses: while the device is open the program  *)
(* holds a set of leases, each a user-mode pointer through which one       *)
(* physical range is visible.  A granted pointer is fresh, a lease ends    *)
(* only when the program returns it or closes the device, and closing the  *)
(* device ends them all.                                                   *)
(***************************************************************************)
EXTENDS FiniteSets, Naturals

CONSTANTS
  Pointers,   \* user-mode addresses
  Ranges,     \* physical ranges a program may ask for
  Capacity    \* leases the driver can keep at the same time

VARIABLES
  open,       \* is the device open
  leases      \* set of [ptr, range] records

leaseVars == <<open, leases>>

Init == /\ open = FALSE
        /\ leases = {}

Open == /\ ~open
        /\ open' = TRUE
        /\ UNCHANGED leases

Grant(p, r) == /\ open
               /\ Cardinality(leases) < Capacity
               /\ \A l \in leases : l.ptr # p
               /\ leases' = leases \cup {[ptr |-> p, range |-> r]}
               /\ UNCHANGED open

Return(l) == /\ open
             /\ leases' = leases \ {l}
             /\ UNCHANGED open

Close == /\ open
         /\ open' = FALSE
         /\ leases' = {}

Next == \/ Open
        \/ \E p \in Pointers, r \in Ranges : Grant(p, r)
        \/ \E l \in leases : Return(l)
        \/ Close

Spec == Init /\ [][Next]_leaseVars
=============================================================================
