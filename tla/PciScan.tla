------------------------------- MODULE PciScan -------------------------------
(***************************************************************************)
(* The list of PCI devices: pci_generic_scan_bus, which follows bridges    *)
(* recursively, and pci_dev_find and pci_card_find, which search what it   *)
(* found.  What the machine answers (hw) is arbitrary: bridges that point  *)
(* at each other or at bus 0, functions without a function 0.              *)
(***************************************************************************)
EXTENDS Naturals, Sequences, FiniteSets

CONSTANTS
  Buses,             \* bus numbers; the code has 256
  NDevs, NFuncs,     \* devices of a bus, functions of a device: 32 and 8
  Ids, Cards,        \* vendor and device; subsystem vendor and device
  AnyCard,           \* pci_dev_find does not look at the subsystem
  Absent, None,      \* a function that does not answer; no bus, no device
  Machines           \* the machines to scan

Devs      == 0 .. NDevs - 1
Funcs     == 0 .. NFuncs - 1
Functions == Buses \X Devs \X Funcs
Header    == [id : Ids, card : Cards, type : {"normal", "bridge", "other"},
              multi : BOOLEAN, secondary : Buses]

ASSUME BusesAssumption == 0 \in Buses /\ IsFiniteSet(Buses)
ASSUME SizesAssumption == NDevs \in Nat \ {0} /\ NFuncs \in Nat \ {0}
ASSUME MarksAssumption == None \notin Buses \cup Functions /\ Absent \notin Header
                          /\ AnyCard \notin Cards
ASSUME MachinesAssumption == Machines \subseteq [Functions -> Header \cup {Absent}]

VARIABLES
  hw,        \* external: what configuration reads return
  busmap,    \* the buses entered
  stack,     \* the active calls of pci_generic_scan_bus: place and multi of each
  calling,   \* the bus it is about to be called for, None between calls
  devices,   \* the list, pci_access.devices at index 1
  pc,        \* "scan", "ready" behind it, "exited" by pci_generic_error
  answer     \* the last search and the device it returned, None for NULL and before

vars == <<hw, busmap, stack, calling, devices, pc, answer>>

Frame == [bus : Buses, dev : 0 .. NDevs, func : Funcs, multi : BOOLEAN]

Init ==
  /\ hw \in Machines
  /\ busmap = {} /\ stack = <<>> /\ calling = 0
  /\ devices = <<>> /\ pc = "scan"
  /\ answer = None

Top      == stack[Len(stack)]
Below    == SubSeq(stack, 1, Len(stack) - 1)
Place(t) == <<t.bus, t.dev, t.func>>

\* t->func++, and the next device when the device has no more functions
Step(t, multi) ==
  IF multi /\ t.func + 1 < NFuncs
    THEN [bus |-> t.bus, dev |-> t.dev, func |-> t.func + 1, multi |-> multi]
    ELSE [bus |-> t.bus, dev |-> t.dev + 1, func |-> 0, multi |-> FALSE]

Enter ==
  /\ stack' = Append(stack, [bus |-> calling, dev |-> 0, func |-> 0, multi |-> FALSE])
  /\ busmap' = busmap \cup {calling}
  /\ calling' = None
  /\ UNCHANGED <<hw, devices, pc, answer>>

\* (mutant) Buses are not marked, only the ones being scanned are refused.
EnterIfNotActive ==
  /\ calling # None /\ \A i \in DOMAIN stack : stack[i].bus # calling
  /\ Enter

ScanBus == calling # None /\ calling \notin busmap /\ Enter

\* "Bus %02x seen twice (firmware bug). Ignored."
SeenTwice ==
  /\ calling \in busmap
  /\ calling' = None
  /\ UNCHANGED <<hw, busmap, stack, devices, pc, answer>>

\* (mutant) `continue' goes round without t->func++.
SkipAbsentStays ==
  /\ calling = None /\ stack # <<>> /\ Top.dev < NDevs
  /\ hw[Place(Top)] = Absent
  /\ UNCHANGED vars

\* The vendor id reads as 0 or as all ones.
SkipAbsent ==
  /\ calling = None /\ stack # <<>> /\ Top.dev < NDevs
  /\ hw[Place(Top)] = Absent
  /\ stack' = Append(Below, Step(Top, Top.multi))
  /\ UNCHANGED <<hw, busmap, calling, devices, pc, answer>>

\* (mutant) Only bridges that are function 0 are followed.
LinkFollowsFirst ==
  /\ calling = None /\ stack # <<>> /\ Top.dev < NDevs
  /\ hw[Place(Top)] # Absent
  /\ LET h == hw[Place(Top)] IN
     /\ devices' = <<[at |-> Place(Top), id |-> h.id]>> \o devices
     /\ stack' = Append(Below, Step(Top, IF Top.func = 0 THEN h.multi ELSE Top.multi))
     /\ calling' = IF h.type = "bridge" /\ Top.func = 0 THEN h.secondary ELSE None
  /\ UNCHANGED <<hw, busmap, pc, answer>>

\* The function joins the front of the list.  Behind a bridge the function
\* calls itself; the loop of this bus goes on when that call returns.
Link ==
  /\ calling = None /\ stack # <<>> /\ Top.dev < NDevs
  /\ hw[Place(Top)] # Absent
  /\ LET h == hw[Place(Top)] IN
     /\ devices' = <<[at |-> Place(Top), id |-> h.id]>> \o devices
     /\ stack' = Append(Below, Step(Top, IF Top.func = 0 THEN h.multi ELSE Top.multi))
     /\ calling' = IF h.type = "bridge" THEN h.secondary ELSE None
  /\ UNCHANGED <<hw, busmap, pc, answer>>

Return ==
  /\ calling = None /\ stack # <<>> /\ Top.dev = NDevs
  /\ stack' = Below
  /\ pc' = IF Below = <<>> THEN "ready" ELSE pc
  /\ UNCHANGED <<hw, busmap, calling, devices, answer>>

\* pci_alloc_dev: for the scratch device of a call, or for the device to link
OutOfMemory ==
  /\ pc = "scan"
  /\ calling # None \/ (stack # <<>> /\ Top.dev < NDevs /\ hw[Place(Top)] # Absent)
  /\ pc' = "exited" /\ stack' = <<>> /\ calling' = None
  /\ UNCHANGED <<hw, busmap, devices, answer>>

\* The ids are the ones cached by the scan (known_fields), the subsystem is read.
Matches(id, card) ==
  {i \in DOMAIN devices : /\ devices[i].id = id
                          /\ card # AnyCard => hw[devices[i].at].card = card}

\* (mutant) pci_card_find looks at the first device with the ids only.
FindStopsEarly(id, card) ==
  /\ pc = "ready"
  /\ LET same == Matches(id, AnyCard)
         hits == {i \in Matches(id, card) : \A j \in same : i <= j}
     IN answer' = [id |-> id, card |-> card,
                   dev |-> IF hits = {} THEN None ELSE devices[CHOOSE i \in hits : TRUE].at]
  /\ UNCHANGED <<hw, busmap, stack, calling, devices, pc>>

\* pci_dev_find (AnyCard) and pci_card_find: the first of the list that matches
Find(id, card) ==
  /\ pc = "ready"
  /\ LET hits  == Matches(id, card)
         first == CHOOSE i \in hits : \A j \in hits : i <= j
     IN answer' = [id |-> id, card |-> card,
                   dev |-> IF hits = {} THEN None ELSE devices[first].at]
  /\ UNCHANGED <<hw, busmap, stack, calling, devices, pc>>

Scan == ScanBus \/ SeenTwice \/ SkipAbsent \/ Link \/ Return
Next == Scan \/ OutOfMemory \/ \E id \in Ids, card \in Cards \cup {AnyCard} : Find(id, card)

Spec == Init /\ [][Next]_vars /\ WF_vars(Scan)
-----------------------------------------------------------------------------
(***************************************************************************)
(* What a scan should find, said of the machine alone: the functions that  *)
(* answer on buses reachable from bus 0, function 0 first.                 *)
(***************************************************************************)
Visible == {f \in Functions : /\ hw[f] # Absent
                              /\ f[3] > 0 => LET z == <<f[1], f[2], 0>> IN
                                               hw[z] # Absent /\ hw[z].multi}
Behind(B)  == {hw[f].secondary : f \in {g \in Visible : g[1] \in B /\ hw[g].type = "bridge"}}
Closed(B)  == 0 \in B /\ Behind(B) \subseteq B
Reachable  == {f \in Visible : \A B \in SUBSET Buses : Closed(B) => f[1] \in B}
Linked     == {devices[i].at : i \in DOMAIN devices}

TypeOK ==
  /\ hw \in Machines
  /\ busmap \in SUBSET Buses /\ stack \in Seq(Frame) /\ calling \in Buses \cup {None}
  /\ devices \in Seq([at : Functions, id : Ids])
  /\ pc \in {"scan", "ready", "exited"}
  /\ answer \in {None} \cup [id : Ids, card : Cards \cup {AnyCard}, dev : Functions \cup {None}]

(***************************************************************************)
(* No function is in the list twice, however the bridges point at each     *)
(* other (chipset and board code work on the one device they are given),   *)
(* nothing is in it that cannot be reached, and at the end of the scan     *)
(* nothing that can is missing.                                            *)
(***************************************************************************)
EachOnce       == \A i, j \in DOMAIN devices : i # j => devices[i].at # devices[j].at
FindsReachable == Linked \subseteq Reachable /\ (pc = "ready" => Linked = Reachable)
ListIsReachable == EachOnce /\ FindsReachable

(***************************************************************************)
(* The recursion is never deeper than there are buses: a loop of bridges   *)
(* does not run the stack over.                                            *)
(***************************************************************************)
DepthBounded == Len(stack) <= Cardinality(Buses)

(***************************************************************************)
(* A search returns NULL only when the machine has no such device within   *)
(* reach, and otherwise one that has the ids asked for.                    *)
(***************************************************************************)
SearchIsRight ==
  answer # None =>
    LET fits == {f \in Reachable : /\ hw[f].id = answer.id
                                   /\ answer.card # AnyCard => hw[f].card = answer.card}
    IN IF answer.dev = None THEN fits = {} ELSE answer.dev \in fits

(***************************************************************************)
(* The scan of any machine comes to an end.                                *)
(***************************************************************************)
ScanEnds == <>(pc # "scan")
=============================================================================
