--------------------------- MODULE MCJedecProgram ---------------------------
(***************************************************************************)
(* Instances of JedecProgram: a page of four bytes of two bits and up to   *)
(* two retries.                                                            *)
(***************************************************************************)
EXTENDS JedecProgram

CONSTANTS low, high

ToWrite == [Offsets -> {{}, {low}, {high}}]
Held    == {[k \in Offsets |-> {}], [k \in Offsets |-> IF k = 1 THEN {low} ELSE {}]}
=============================================================================
