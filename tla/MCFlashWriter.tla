--------------------------- MODULE MCFlashWriter ---------------------------
(***************************************************************************)
(* Instances of FlashWriter: three pages of two bytes, a byte of one bit.  *)
(***************************************************************************)
EXTENDS FlashWriter

CONSTANT bit

Zeros == {bit}
Ones  == {}

Uniform(v)  == [p \in Pages |-> [b \in Offsets |-> v]]
Checkered   == [p \in Pages |-> [b \in Offsets |-> IF (p + b) % 2 = 0 THEN Zeros ELSE Ones]]
FirstOnes   == [p \in Pages |-> [b \in Offsets |-> IF b = 0 THEN Ones ELSE Zeros]]

ChipBefore == {Uniform(Zeros), FirstOnes}
ToWrite    == {Uniform(Zeros), Checkered}
PageRanges == {{p \in Pages : s <= p /\ p < e} : s \in Pages, e \in Pages}
=============================================================================
