------------------------------ MODULE PciConfig ------------------------------
(***************************************************************************)
(* Configuration accesses of libpci, port access by port access: the       *)
(* address goes to one port and the data through another, each in an IOCTL *)
(* of its own.  Between two of them the operating system may use the same  *)
(* ports, and any of them may fail: the driver finds no system address for *)
(* the buffer, the read gives ones and the failed write is only printed.   *)
(***************************************************************************)
EXTENDS Integers, Sequences

CONSTANTS
  Devices,        \* [bus, dev, func]
  MaxPos,         \* the configuration space has positions 0 .. MaxPos - 1
  Conf2Devices,   \* 16 in the code: how many devices of a bus conf2 reaches
  Methods,        \* of "conf1", "conf2": what pci_init may have decided to use
  Requests,       \* [op, block, dev, pos, len]; block: through pci_read_block
  Ones, Data,     \* a byte of ones; the bytes given to a write
  Closed,         \* 0 in port 0xCF8 of conf2: the space is not mapped
  MaxOthers, MaxLost   \* bounds: disturbances and failures of IOCTLs

ASSUME PciAssumption ==
  /\ MaxOthers \in Nat /\ MaxLost \in Nat /\ Conf2Devices \in Nat /\ MaxPos \in Nat
  /\ Methods \subseteq {"conf1", "conf2"}
  /\ \A d \in Devices : d = [bus |-> d.bus, dev |-> d.dev, func |-> d.func]

\* Only the single accesses refuse a position that is not aligned.  A block of
\* 2 or 4 bytes goes to the ports as one access: it must be asked for where it
\* stays within a dword.
ASSUME RequestsAssumption ==
  \A r \in Requests :
    /\ r.op \in {"read", "write"} /\ r.block \in BOOLEAN
    /\ r.dev \in Devices /\ r.pos \in Nat /\ r.len \in Nat /\ r.pos + r.len <= MaxPos
    /\ ~r.block => r.len \in {1, 2, 4}
    /\ r.block /\ r.len \in {2, 4} => r.pos % r.len = 0

VARIABLES
  method, space, request, buf, pc,
  todo,           \* the accesses <<pos, len>> still to be made, the first one now
  cf8, cfa,       \* external: the address ports
  strays,         \* history: data accesses that went elsewhere than asked
  others, lost    \* history: uses of the ports by others; IOCTLs that failed

vars   == <<method, space, request, buf, pc, todo, cf8, cfa, strays, others, lost>>
asking == <<method, request>>

InitialSpace == [a \in Devices \X (0 .. MaxPos - 1) |-> a]
Positions(r) == r.pos .. r.pos + r.len - 1
Blank(r)     == [p \in Positions(r) |-> Ones]
Given(r)     == [p \in Positions(r) |-> <<Data, p>>]

\* what the address port of conf1 selects
Address(d, pos) == [dev |-> d, dword |-> pos \div 4]

Init ==
  /\ method \in Methods /\ space = InitialSpace
  /\ request \in Requests /\ buf = Blank(request)
  /\ pc = "idle" /\ todo = <<>>
  /\ cf8 = IF method = "conf1" THEN Address(request.dev, 0) ELSE Closed
  /\ cfa = request.dev.bus
  /\ strays = 0 /\ others = 0 /\ lost = 0

Call ==
  /\ pc = "idle" /\ pc' = "addr"
  /\ \E r \in Requests :
       /\ request' = r /\ todo' = << <<r.pos, r.len>> >>
       /\ buf' = IF r.op = "write" THEN Given(r) ELSE Blank(r)
  /\ UNCHANGED <<method, space, cf8, cfa, strays, others, lost>>

\* "Unaligned read", "Unaligned write", and conf2_write beyond its devices:
\* pci_generic_error, which is exit(1)
Unaligned == ~request.block /\ request.len > 0 /\ request.pos % request.len # 0
Beyond    == method = "conf2" /\ request.dev.dev >= Conf2Devices

Exit ==
  /\ pc = "addr" /\ Len(todo) = 1
  /\ Unaligned \/ (Beyond /\ request.op = "write")
  /\ pc' = "exited" /\ todo' = <<>>
  /\ UNCHANGED <<asking, space, buf, cf8, cfa, strays, others, lost>>

\* conf2_read returns 0 there, and pci_read_data fills the buffer with ones.
conf2_read_Beyond ==
  /\ pc = "addr" /\ ~Unaligned /\ Beyond /\ request.op = "read"
  /\ pc' = "idle" /\ todo' = <<>>
  /\ UNCHANGED <<asking, space, buf, cf8, cfa, strays, others, lost>>

\* An IOCTL happens, or fails while failures are left.
Happens(done) == (done \/ lost < MaxLost) /\ lost' = lost + (IF done THEN 0 ELSE 1)

Pos  == Head(todo)[1]
Size == Head(todo)[2]

SetAddress ==
  /\ pc = "addr" /\ method = "conf1" /\ ~Unaligned
  /\ \E done \in BOOLEAN :
       Happens(done) /\ cf8' = IF done THEN Address(request.dev, Pos) ELSE cf8
  /\ pc' = "data"
  /\ UNCHANGED <<asking, space, buf, todo, cfa, strays, others>>

SetFunc ==
  /\ pc = "addr" /\ method = "conf2" /\ ~Unaligned /\ ~Beyond
  /\ \E done \in BOOLEAN : Happens(done) /\ cf8' = IF done THEN request.dev.func ELSE cf8
  /\ pc' = "bus"
  /\ UNCHANGED <<asking, space, buf, todo, cfa, strays, others>>

SetBus ==
  /\ pc = "bus"
  /\ \E done \in BOOLEAN : Happens(done) /\ cfa' = IF done THEN request.dev.bus ELSE cfa
  /\ pc' = "data"
  /\ UNCHANGED <<asking, space, buf, todo, cf8, strays, others>>

\* external: what lies k bytes behind the data port; ports that are not
\* mapped to the space, and devices that are not there, give ones
Reached(k) ==
  IF method = "conf1" THEN <<cf8.dev, 4 * cf8.dword + (Pos % 4) + k>>
                      ELSE <<[bus |-> cfa, dev |-> request.dev.dev, func |-> cf8], Pos + k>>
There(k)   == (method = "conf1" => (Pos % 4) + k < 4) /\ Reached(k) \in DOMAIN space
Asked(k)   == <<request.dev, Pos + k>>
IsStray    == \E k \in 0 .. Size - 1 : Reached(k) # Asked(k)

\* (mutant) A closed bracket costs an IOCTL: it is left for the next request.
AfterOpen(rest) == IF rest = <<>> THEN "idle" ELSE "addr"

\* (mutant) The pieces of a block go on behind the first one's address.
AfterAddressKept(rest) ==
  IF method = "conf2" THEN "close" ELSE IF rest = <<>> THEN "idle" ELSE "data"

After(rest) == IF method = "conf2" THEN "close" ELSE IF rest = <<>> THEN "idle" ELSE "addr"

ReadData ==
  /\ pc = "data" /\ Size \in {1, 2, 4} /\ request.op = "read"
  /\ \E done \in BOOLEAN :
       /\ Happens(done)
       /\ strays' = strays + IF done /\ IsStray THEN 1 ELSE 0
       /\ buf' = [p \in DOMAIN buf |->
                    IF p \notin Pos .. Pos + Size - 1 THEN buf[p]
                    ELSE IF done /\ There(p - Pos) THEN space[Reached(p - Pos)] ELSE Ones]
  /\ todo' = Tail(todo) /\ pc' = After(Tail(todo))
  /\ UNCHANGED <<asking, space, cf8, cfa, others>>

WriteData ==
  /\ pc = "data" /\ Size \in {1, 2, 4} /\ request.op = "write"
  /\ \E done \in BOOLEAN :
       /\ Happens(done)
       /\ strays' = strays + IF done /\ IsStray THEN 1 ELSE 0
       /\ space' = [a \in DOMAIN space |->
                      IF \E k \in 0 .. Size - 1 : done /\ There(k) /\ Reached(k) = a
                        THEN buf[Pos + (CHOOSE k \in 0 .. Size - 1 : Reached(k) = a)]
                        ELSE space[a]]
  /\ todo' = Tail(todo) /\ pc' = After(Tail(todo))
  /\ UNCHANGED <<asking, buf, cf8, cfa, others>>

\* (mutant) The last odd byte is forgotten.
Pieces4Even(pos, len) ==
  [i \in 1 .. len \div 4 |-> <<pos + 4 * (i - 1), 4>>]
    \o (IF len % 4 >= 2 THEN << <<pos + 4 * (len \div 4), 2>> >> ELSE <<>>)

\* from a position that 4 divides
Pieces4(pos, len) ==
  [i \in 1 .. len \div 4 |-> <<pos + 4 * (i - 1), 4>>]
    \o (IF len % 4 >= 2 THEN << <<pos + 4 * (len \div 4), 2>> >> ELSE <<>>)
    \o (IF len % 2 = 1 THEN << <<pos + len - 1, 1>> >> ELSE <<>>)

Pieces2(pos, len) ==
  IF pos % 4 # 0 /\ len >= 2 THEN << <<pos, 2>> >> \o Pieces4(pos + 2, len - 2) ELSE Pieces4(pos, len)

pci_generic_block_op(pos, len) ==
  IF pos % 2 = 1 /\ len >= 1 THEN << <<pos, 1>> >> \o Pieces2(pos + 1, len - 1) ELSE Pieces2(pos, len)

\* A length that no port access has is done in pieces, each with its address.
Split ==
  /\ pc = "data" /\ Size \notin {1, 2, 4}
  /\ todo' = pci_generic_block_op(Pos, Size) \o Tail(todo)
  /\ pc' = After(todo')
  /\ UNCHANGED <<asking, space, buf, cf8, cfa, strays, others, lost>>

Close ==
  /\ pc = "close"
  /\ \E done \in BOOLEAN : Happens(done) /\ cf8' = IF done THEN Closed ELSE cf8
  /\ pc' = IF todo = <<>> THEN "idle" ELSE "addr"
  /\ UNCHANGED <<asking, space, buf, todo, cfa, strays, others>>

\* external: the operating system makes an access of its own, whole
OthersUse ==
  /\ others < MaxOthers /\ others' = others + 1
  /\ \E d \in Devices : IF method = "conf1" THEN cf8' = Address(d, 0) /\ UNCHANGED cfa
                                           ELSE cf8' = Closed /\ cfa' = d.bus
  /\ UNCHANGED <<asking, space, buf, pc, todo, strays, lost>>

Next ==
  \/ Call \/ Exit \/ conf2_read_Beyond
  \/ SetAddress \/ SetFunc \/ SetBus \/ ReadData \/ WriteData \/ Split \/ Close
  \/ OthersUse

Spec == Init /\ [][Next]_vars
-----------------------------------------------------------------------------
\* Accesses stay within the request, and every port holds what it can hold.
TypeOK ==
  /\ pc \in {"idle", "addr", "bus", "data", "close", "exited"}
  /\ request \in Requests
  /\ \A i \in DOMAIN todo : todo[i][1] .. todo[i][1] + todo[i][2] - 1 \subseteq Positions(request)
  /\ DOMAIN space = Devices \X (0 .. MaxPos - 1) /\ DOMAIN buf = Positions(request)
  /\ strays \in Nat /\ others \in 0 .. MaxOthers /\ lost \in 0 .. MaxLost

\* A use of the ports by others, or an address that failed to be written,
\* misleads at most one data access: each access of at most four bytes sets
\* the address anew, those of a block too.
DamageBounded == strays <= others + lost

\* With conf2 the configuration space lies over ports 0xC000-0xCFFF only while
\* an access is made: between requests, and after every exit, 0xCF8 is 0
\* again, unless the IOCTL that closes it failed.
ClosedBetweenRequests ==
  method = "conf2" /\ lost = 0 /\ pc \in {"idle", "addr", "exited"} => cf8 = Closed

Bytes(s) == UNION {s[i][1] .. s[i][1] + s[i][2] - 1 : i \in 1 .. Len(s)}

\* With the ports for itself, and while its IOCTLs happen, the program has the
\* configuration space it believes to have.
Space == INSTANCE ConfigSpace WITH
  left  <- Bytes(todo),
  phase <- IF pc \in {"idle", "exited"} THEN pc ELSE "busy",
  disturbed <- others + lost > 0
ImplementsConfigSpace == Space!Spec
=============================================================================
