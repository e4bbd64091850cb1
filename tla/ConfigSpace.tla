----------------------------- MODULE ConfigSpace -----------------------------
(***************************************************************************)
(* What pci_read_* and pci_write_* promise the rest of the program: the    *)
(* bytes asked for, of the device asked for and of no other, are read or   *)
(* written, each once; or, when the device cannot be addressed, a read     *)
(* gives ones, and a write or an unaligned access ends the program.  It    *)
(* holds while nothing disturbs the ports; behind the first disturbance    *)
(* nothing is promised here.                                               *)
(***************************************************************************)
EXTENDS Integers

CONSTANTS Requests, Ones, Data, InitialSpace

VARIABLES
  space,    \* <<device, position>> -> byte
  request,  \* the request served now, or the last one
  left,     \* the positions still to do
  buf,      \* position -> byte
  phase,    \* "idle", "busy", "exited"
  disturbed

vars == <<space, request, left, buf, phase, disturbed>>

Positions(r) == r.pos .. r.pos + r.len - 1
Given(r)     == [p \in Positions(r) |-> <<Data, p>>]
Blank(r)     == [p \in Positions(r) |-> Ones]

Init ==
  /\ space = InitialSpace /\ request \in Requests /\ buf = Blank(request)
  /\ left = {} /\ phase = "idle" /\ disturbed = FALSE

Call ==
  /\ phase = "idle" /\ phase' = "busy"
  /\ \E r \in Requests :
       /\ request' = r /\ left' = Positions(r)
       /\ buf' = IF r.op = "write" THEN Given(r) ELSE Blank(r)
  /\ UNCHANGED space

Move ==
  /\ phase = "busy"
  /\ \E S \in SUBSET left :
       /\ left' = left \ S /\ phase' \in {"busy"} \cup (IF left = S THEN {"idle"} ELSE {})
       /\ IF request.op = "read"
            THEN /\ buf' = [p \in DOMAIN buf |-> IF p \in S THEN space[<<request.dev, p>>] ELSE buf[p]]
                 /\ UNCHANGED space
            ELSE /\ space' = [a \in DOMAIN space |->
                                IF a[1] = request.dev /\ a[2] \in S THEN buf[a[2]] ELSE space[a]]
                 /\ UNCHANGED buf
  /\ UNCHANGED request

\* The device cannot be addressed: nothing is read.
NoSuchDevice ==
  /\ phase = "busy" /\ left = Positions(request) /\ request.op = "read"
  /\ phase' = "idle" /\ left' = {}
  /\ UNCHANGED <<space, request, buf>>

Exit ==
  /\ phase = "busy" /\ left = Positions(request)
  /\ phase' = "exited" /\ left' = {}
  /\ UNCHANGED <<space, request, buf>>

Promised == (Call \/ Move \/ NoSuchDevice \/ Exit) /\ UNCHANGED disturbed
Next     == Promised \/ disturbed'
Spec == Init /\ [][Next]_vars
=============================================================================
