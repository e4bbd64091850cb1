--------------------------- MODULE MCChipsetEnable ---------------------------
(***************************************************************************)
(* Instances of ChipsetEnable: every routine of the table, registers that  *)
(* are blank, full or as wanted, one bit that resists, one write of others.*)
(***************************************************************************)
EXTENDS ChipsetEnable

OneOf(S)   == IF S = {} THEN {} ELSE {CHOOSE x \in S : TRUE}
Others(u)  == u.width \ (u.set \cup u.clear)

Machines   == {{enables[i].name, "smbus"} : i \in DOMAIN enables}
                \cup {{}, {"SB400"}, {"HT1000", "PIIX4"}}
Values(u)  == {{}, u.width, u.set \cup u.clear}
Resistant(u) == {{}, OneOf(u.set)}
Flips(u)   == OneOf(Others(u)) \cup OneOf(u.set)
=============================================================================
