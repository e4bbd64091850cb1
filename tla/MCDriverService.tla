-------------------------- MODULE MCDriverService --------------------------
(***************************************************************************)
(* Instances of DriverService: three programs, two of them in the same     *)
(* directory.                                                              *)
(***************************************************************************)
EXTENDS DriverService, TLC

CONSTANTS p1, p2, p3, here, there

WorkIn == p1 :> here @@ p2 :> here @@ p3 :> there
=============================================================================
