--------------------------- MODULE MCFlashSession ---------------------------
(***************************************************************************)
(* Instances of FlashSession: a chip of two pages of two bytes, and a      *)
(* layout of two sections written as in rom.layout, ends included; a       *)
(* section and a range that end behind the chip or before they start.      *)
(***************************************************************************)
EXTENDS FlashSession

CONSTANTS code, gfxrom, normal

Flag(f)     == [opt |-> f]
At(f, v)    == [opt |-> f, value |-> v]
Only(name)  == [opt |-> "image", name |-> name]
RomLayout   == [opt |-> "layout", entries |-> <<
  [name |-> gfxrom, start |-> 0, end |-> 1, included |-> FALSE],
  [name |-> normal, start |-> 2, end |-> 3, included |-> FALSE] >>]

Section(s, e) == [opt |-> "layout", entries |-> <<
  [name |-> gfxrom, start |-> s, end |-> e, included |-> FALSE] >>]

WithFile(options) == [options |-> options, file |-> TRUE]
w == Flag("write")
v == Flag("verify")
r == Flag("read")

CommandLines ==
  {[options |-> o, file |-> FALSE] : o \in {<<>>, <<w>>, <<Flag("erase")>>}} \cup
  {WithFile(o) : o \in {
     <<>>, <<Flag("erase")>>, <<r>>, <<r, w>>, <<v>>, <<w>>, <<w, v>>, <<w, v, Flag("force")>>,
     <<r, v, At("start", 2), At("end", 4)>>,
     <<w, v, At("start", 1), At("end", 4)>>, <<w, v, At("start", 0), At("end", 3)>>,
     <<w, At("start", 2)>>, <<r, At("start", 2)>>, <<w, v, At("start", 3), At("end", 6)>>,
     <<w, Section(3, 1)>>, <<w, v, Section(2, 5)>>,
     <<w, v, RomLayout, Only(normal)>>, <<w, v, Only(normal), RomLayout>> }}

ChipBefore == {[i \in Positions |-> Zero], [i \in Positions |-> IF i % 2 = 0 THEN code ELSE FF]}
FileBytes  == {[i \in Positions |-> code], [i \in Positions |-> IF i < 2 THEN FF ELSE code]}
=============================================================================
