---------------------------- MODULE MCBoardEnable ----------------------------
(***************************************************************************)
(* Instances of BoardEnable: for every entry of the table a machine with   *)
(* its devices and one whose cards are others, and machines that lack one; *)
(* all registers 0 or all ones, with and without the right ID.             *)
(***************************************************************************)
EXTENDS BoardEnable

Device(id, card) == [id |-> id, card |-> card]
DevicesOf(b) == {Device(b.first, b.card)}
                  \cup (IF b.second = Zero THEN {} ELSE {Device(b.second, b.card2)})
Boards     == {board_pciid_enables[i] : i \in Entries}
SampleMachines ==
  {{}} \cup {DevicesOf(b) : b \in Boards}
       \cup {DevicesOf(board_pciid_enables[5]) \cup {Device(VT8237, Zero)}}
       \cup {{Device(b.first, Zero)} : b \in Boards}
       \cup {DevicesOf(board_pciid_enables[2]) \cup DevicesOf(board_pciid_enables[7])}

SampleNames == {board_pciid_enables[i].lb : i \in {1, 2, 6, 7, 8}} \cup {"other:board"}
Filled(bits, id) ==
  [r \in BoardRegisters |-> IF r = <<"sio", -1, \h20>> THEN BitsOf(id) ELSE BitsOf(bits)]
SampleContents == {Filled(bits, id) : bits \in {0, \hff}, id \in {\h52, \h60}}
=============================================================================
