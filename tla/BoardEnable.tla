----------------------------- MODULE BoardEnable -----------------------------
(***************************************************************************)
(* board_flash_enable: which board it takes the machine for, and the       *)
(* accesses of that board's routine, one by one, through the index and     *)
(* data ports of a Super-IO that is only listened to inside a bracket.     *)
(*                                                                         *)
(* Between any two accesses somebody else (firmware in an SMI, a driver    *)
(* that holds the ports) may use the same Super-IO: it enters, selects     *)
(* what it wants and leaves.  An earlier run that was killed may have left *)
(* the bracket open.                                                       *)
(***************************************************************************)
EXTENDS Boards

CONSTANTS
  Machines,     \* the sets of devices [id, card] that may be there
  Names,        \* lb_vendor and lb_part, from the table or from -m
  NoName,
  Contents,     \* what the registers may hold at first
  MaxOthers     \* bound: uses of the ports by others

ASSUME OthersAssumption == MaxOthers \in Nat /\ NoName \notin Names

VARIABLES
  devices, name,   \* external: the machine; the name, or NoName
  board,           \* the entry of the table, 0 for none
  stage,           \* "match", "run", "done"
  step, tmp, result,
  open, keys,      \* external: is the bracket of the Super-IO open; 0x87s seen
  index, ldn, gpio,\* external: selected register, logical device, register of the GPIO block
  held,            \* external: what the registers hold
  old,             \* history: the registers at first
  others           \* history: how often others used the ports during the routine

boardVars ==
  <<devices, name, board, stage, step, tmp, result, open, keys, index, ldn, gpio, held, old, others>>
setup == <<devices, name, old>>
ports == <<open, keys, index, ldn, gpio>>

\* Registers below 0x30 are the same for all logical devices.
SioReg(l, i) == IF i < \h30 THEN <<"sio", -1, i>> ELSE <<"sio", l, i>>
BoardRegisters ==
  {<<"sio", -1, i>> : i \in {\h20, \h24, \h2b}}
    \cup {<<"sio", l, i>> : l \in {0, 8}, i \in {\h30, \hf0, \hf1, \hf2}}
    \cup {<<"gpio", 0, i>> : i \in {\h45, \h46}}
    \cup {<<"pci", 0, \h59>>, <<"pci", 0, \he4>>, <<"port", 0, \h4d>>, <<"port", 0, \h36>>,
          <<"smbus", 0, 0>>}

ASSUME ContentsAssumption == Contents \subseteq [BoardRegisters -> SUBSET Byte]

BoardInit ==
  /\ devices \in Machines /\ name \in Names \cup {NoName}
  /\ board = 0 /\ stage = "match" /\ step = 1 /\ tmp = {} /\ result = 0
  /\ open \in BOOLEAN /\ keys = 0 /\ index = \h20 /\ ldn = 0 /\ gpio = \h46
  /\ held \in Contents /\ old = held /\ others = 0

pci_dev_find(id)        == \E d \in devices : d.id = id
pci_card_find(id, card) == \E d \in devices : d.id = id /\ d.card = card

board_match_linuxbios_name(b) ==
  /\ name # NoName /\ b.lb = name
  /\ pci_dev_find(b.first)
  /\ b.second # Zero => pci_dev_find(b.second)

board_match_pci_card_ids(b) ==
  /\ b.card # Zero /\ pci_card_find(b.first, b.card)
  /\ b.second # Zero => IF b.card2 # Zero THEN pci_card_find(b.second, b.card2)
                                          ELSE pci_dev_find(b.second)

Entries == DOMAIN board_pciid_enables
ByName  == {i \in Entries : board_match_linuxbios_name(board_pciid_enables[i])}
ByCard  == {i \in Entries : board_match_pci_card_ids(board_pciid_enables[i])}
Matched == LET S == IF ByName # {} THEN ByName ELSE ByCard IN CHOOSE i \in S : \A j \in S : i <= j

NoBoard ==
  /\ stage = "match" /\ ByName \cup ByCard = {}
  /\ stage' = "done"
  /\ UNCHANGED <<setup, board, step, tmp, result, ports, held, others>>

\* A routine that does not find the bridge it works on returns -1.
Match ==
  /\ stage = "match" /\ ByName \cup ByCard # {}
  /\ board' = Matched
  /\ LET needs == board_pciid_enables[Matched].needs IN
       IF needs # {} /\ ~\E id \in needs : pci_dev_find(id)
         THEN stage' = "done" /\ result' = -1
         ELSE stage' = "run" /\ UNCHANGED result
  /\ UNCHANGED <<setup, step, tmp, ports, held, others>>

Routine == board_pciid_enables[board].enable
Step    == Routine[step]

GoTo(n) == IF n > Len(Routine) THEN stage' = "done" /\ UNCHANGED step ELSE step' = n /\ UNCHANGED stage
Fail    == stage' = "done" /\ result' = -1 /\ UNCHANGED step

\* external: what an access reaches.  A closed Super-IO reads as ones.
Reached == CASE Step.place = "sio"  -> SioReg(ldn, index)
             [] Step.place = "gpio" -> <<"gpio", 0, gpio>>
             [] OTHER               -> <<Step.place, 0, Step.reg>>
Listens == Step.place = "sio" => open

\* external: a Super-IO counts keys while it is closed, and takes 0x87 for an
\* index while it is open
Key ==
  /\ stage = "run" /\ Step.do = "key" /\ GoTo(step + 1)
  /\ IF open THEN index' = \h87 /\ UNCHANGED <<open, keys>>
             ELSE keys' = (keys + 1) % 2 /\ open' = (keys = 1) /\ UNCHANGED index
  /\ UNCHANGED <<setup, board, tmp, result, ldn, gpio, held, others>>

Leave ==
  /\ stage = "run" /\ Step.do = "leave" /\ GoTo(step + 1)
  /\ open' = FALSE /\ keys' = 0
  /\ UNCHANGED <<setup, board, tmp, result, index, ldn, gpio, held, others>>

SetIndex ==
  /\ stage = "run" /\ Step.do = "index" /\ GoTo(step + 1)
  /\ IF Step.place = "gpio" THEN gpio' = Step.reg /\ UNCHANGED <<index, keys>>
     ELSE IF open THEN index' = Step.reg /\ UNCHANGED <<gpio, keys>>
                  ELSE keys' = 0 /\ UNCHANGED <<index, gpio>>
  /\ UNCHANGED <<setup, board, tmp, result, open, ldn, held, others>>

Input ==
  /\ stage = "run" /\ Step.do = "in" /\ GoTo(step + 1)
  /\ tmp' = IF ~Listens THEN Byte ELSE IF Reached \in BoardRegisters THEN held[Reached] ELSE {}
  /\ UNCHANGED <<setup, board, result, ports, held, others>>

\* (mutant) The mask is not applied to what was read.
WrittenUnmasked == tmp \cup Step.set

Written == (tmp \ Step.clear) \cup Step.set

\* Register 7 of the Super-IO selects the logical device.
Selected == CHOOSE n \in {0, 8} : BitsOf(n) = Step.set

Output ==
  /\ stage = "run" /\ Step.do = "out" /\ GoTo(step + 1)
  /\ IF ~Listens THEN UNCHANGED <<held, ldn>>
     ELSE IF Step.place = "sio" /\ index = 7 THEN ldn' = Selected /\ UNCHANGED held
     ELSE /\ held' = IF Reached \in BoardRegisters THEN [held EXCEPT ![Reached] = Written] ELSE held
          /\ UNCHANGED ldn
  /\ UNCHANGED <<setup, board, tmp, result, open, keys, index, gpio, others>>

\* (mutant) A wrong ID returns at once.
TestIdReturns ==
  /\ stage = "run" /\ Step.do = "is"
  /\ IF tmp = Step.set THEN GoTo(step + 1) /\ UNCHANGED result ELSE Fail
  /\ UNCHANGED <<setup, board, tmp, ports, held, others>>

\* (mutant) A wrong ID is printed, and the routine goes on.
TestIdGoesOn ==
  /\ stage = "run" /\ Step.do = "is" /\ GoTo(step + 1)
  /\ UNCHANGED <<setup, board, tmp, result, ports, held, others>>

\* A wrong ID is read once more, to be printed; the last step leaves the bracket.
TestId ==
  /\ stage = "run" /\ Step.do = "is"
  /\ IF tmp = Step.set THEN GoTo(step + 1) /\ UNCHANGED result
                       ELSE GoTo(Len(Routine)) /\ result' = -1
  /\ UNCHANGED <<setup, board, tmp, ports, held, others>>

SkipIfSet ==
  /\ stage = "run" /\ Step.do = "skip"
  /\ GoTo(IF Step.set \cap tmp # {} THEN Len(Routine) ELSE step + 1)
  /\ UNCHANGED <<setup, board, tmp, result, ports, held, others>>

\* At most ASUSP5A_LOOP polls, then -1.
PollDevice ==
  /\ stage = "run" /\ Step.do = "poll"
  /\ (GoTo(step + 1) /\ UNCHANGED result) \/ Fail
  /\ UNCHANGED <<setup, board, tmp, ports, held, others>>

\* external: somebody else enters, selects what it wants, and leaves
OthersUse ==
  /\ stage = "run" /\ others < MaxOthers
  /\ open' = FALSE /\ keys' = 0
  /\ index' \in {\hf0, 7} /\ ldn' \in {0, 8} /\ gpio' \in {\h45, \h46}
  /\ others' = others + 1
  /\ UNCHANGED <<setup, board, stage, step, tmp, result, held>>

BoardNext ==
  \/ NoBoard \/ Match
  \/ Key \/ Leave \/ SetIndex \/ Input \/ Output \/ TestId \/ SkipIfSet \/ PollDevice
  \/ OthersUse

BoardSpec == BoardInit /\ [][BoardNext]_boardVars
-----------------------------------------------------------------------------
\* What the comments of a routine say it does, as <<register, bit, raised?>>.
Promise(b) ==
  CASE b \in {1, 2} -> IF old[<<"sio", -1, \h20>>] # BitsOf(\h52) THEN {} ELSE
                       {<<<<"sio", -1, \h2b>>, 4, TRUE>>, <<<<"sio", 8, \h30>>, 0, TRUE>>,
                        <<<<"sio", 8, \hf0>>, 4, FALSE>>, <<<<"sio", 8, \hf2>>, 4, FALSE>>,
                        <<<<"sio", 8, \hf1>>, 4, TRUE>>}
    [] b = 3 -> {<<<<"pci", 0, \he4>>, 4, TRUE>>, <<<<"port", 0, \h4d>>, 7, TRUE>>}
    [] b \in {4, 5} -> {<<<<"pci", 0, \h59>>, 7, FALSE>>}
                        \cup (IF 1 \in old[<<"sio", -1, \h24>>] THEN {}
                              ELSE {<<<<"sio", -1, \h24>>, 3, TRUE>>})
    [] b = 6 -> {<<<<"smbus", 0, 0>>, 1, FALSE>>}
    [] b = 7 -> {<<<<"gpio", 0, \h45>>, 5, TRUE>>}
    [] OTHER -> {<<<<"port", 0, \h36>>, 6, TRUE>>}

UsesSuperIO(b) ==
  \E i \in DOMAIN board_pciid_enables[b].enable : board_pciid_enables[b].enable[i].do = "key"

\* A routine that entered the Super-IO's bracket has left it when it
\* returns, by whichever exit, with others in between, and even when a killed
\* run had left the bracket open: nobody finds the Super-IO listening.
BracketClosed == stage = "done" /\ board # 0 /\ step > 1 /\ UsesSuperIO(board) => ~open

\* Whatever the chip is and however often others use the Super-IO between two
\* of its accesses, a routine changes no bit but those its comments name, and
\* those only as they say; a Winbond chip with another ID is left as it was.
\* IBM x3455's pair at 0xCD6 has no bracket to protect it: for it this holds
\* only while others keep away.  It speaks of BoardRegisters: the transaction
\* registers of the P5A's SMBus controller are not among them.
OnlyWantedBits ==
  board # 7 \/ others = 0 =>
    \A r \in BoardRegisters : held[r] # old[r] =>
      \A b \in (held[r] \ old[r]) \cup (old[r] \ held[r]) :
        board # 0 /\ <<r, b, b \in held[r]>> \in Promise(board)

\* "OK." is the truth when others kept away: with 0 returned, all that the
\* comments name is done, from any contents and from an open bracket too.
ZeroMeansRaised ==
  stage = "done" /\ board # 0 /\ result = 0 /\ others = 0 =>
    \A p \in Promise(board) : (p[2] \in held[p[1]]) = p[3]
=============================================================================
