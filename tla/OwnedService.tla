---------------------------- MODULE OwnedService ----------------------------
(***************************************************************************)
(* What the programs that share one kernel-driver service promise each     *)
(* other: the service belongs to the program that registered it, only that *)
(* program removes it, and a service whose program went away without       *)
(* removing it is left alone by all others.                                *)
(***************************************************************************)
CONSTANTS Programs, Free, Leaving, Abandoned

VARIABLE owner   \* the owning program, or what the service is without one

Init == owner = Free

Register(p) == owner = Free /\ owner' = p

\* The service goes at once, or as soon as nobody refers to it any more.
Remove(p) == owner = p /\ owner' \in {Free, Leaving}

Abandon(p) == owner = p /\ owner' = Abandoned

Gone == owner = Leaving /\ owner' = Free

Next == Gone \/ \E p \in Programs : Register(p) \/ Remove(p) \/ Abandon(p)

Spec == Init /\ [][Next]_owner
=============================================================================
