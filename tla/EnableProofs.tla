---------------------------- MODULE EnableProofs ----------------------------
(***************************************************************************)
(* What opens the flash chip to writes: the routine of the chipset and the *)
(* routine of the board.                                                   *)
(*                                                                         *)
(* Of the chipset's: ForeignBitsKept, ResultIsTrue and ConfigurationLeft,  *)
(* whatever the registers hold, whichever of their bits resist, and        *)
(* however often others write them.  Of the board's: BracketClosed,        *)
(* OnlyWantedBits and ZeroMeansRaised, whatever machine and contents, and  *)
(* however often others use the ports of the Super-IO.                     *)
(***************************************************************************)
EXTENDS ChipsetEnable, BoardEnable, TLAPS, NaturalsInduction, WellFoundedInduction

\* A set of numbers has a least one.
LEMMA LeastExists ==
  ASSUME NEW S \in SUBSET Nat, S # {}
  PROVE  \E i \in S : \A j \in S : i <= j
  <1>1. \E i \in S : \A j \in S : ~(<<j, i>> \in OpToRel(<, Nat))
    BY NatLessThanWellFounded, WFMin
  <1>2. \A i, j \in Nat : j < i => <<j, i>> \in OpToRel(<, Nat)
    BY DEF OpToRel
  <1>3. \A i, j \in Nat : ~(j < i) => i <= j
    OBVIOUS
  <1>. QED  BY <1>1, <1>2, <1>3, Zenon

-----------------------------------------------------------------------------
\* Part 1: the routine of the chipset

\* What the proofs need to know of the table: a routine has an update, updates
\* no register twice, and clears no bit that it sets.
Afters == {"blind", "check", "result", "warn", "unlock"}
WellFormed(D) ==
  /\ Len(D) \in Nat \ {0} /\ DOMAIN D = 1 .. Len(D)
  /\ \A j \in DOMAIN D : D[j].after \in Afters /\ D[j].set \cap D[j].clear = {}
  /\ \A j, k \in DOMAIN D : D[j].reg = D[k].reg => j = k

LEMMA UpdateFields ==
  ASSUME NEW place, NEW reg, NEW set, NEW after
  PROVE  LET u == Update(place, reg, set, after) IN
         /\ u.reg = <<place, reg>> /\ u.set = BitsOf(set) /\ u.clear = {} /\ u.after = after
         /\ Wide(u).reg = <<place, reg>> /\ Wide(u).set = BitsOf(set)
         /\ Wide(u).clear = {} /\ Wide(u).after = after
  BY DEF Update, Wide

\* The two routines that clear bits
LEMMA ClearedApart ==
  /\ BitsOf(\hee) \cap BitsOf(\h11) = {}
  /\ BitsOf(\h04) \cap BitsOf(\h20) = {}
  <1>. SUFFICES ASSUME NEW b \in 0 .. 15
                PROVE  /\ ~((\hee \div 2^b) % 2 = 1 /\ (\h11 \div 2^b) % 2 = 1)
                       /\ ~((\h04 \div 2^b) % 2 = 1 /\ (\h20 \div 2^b) % 2 = 1)
    BY DEF BitsOf
  <1>0. CASE b = 0
    BY <1>0
  <1>1. CASE b = 1
    BY <1>1
  <1>2. CASE b = 2
    BY <1>2
  <1>3. CASE b = 3
    BY <1>3
  <1>4. CASE b = 4
    BY <1>4
  <1>5. CASE b = 5
    BY <1>5
  <1>6. CASE b = 6
    BY <1>6
  <1>7. CASE b = 7
    BY <1>7
  <1>8. CASE b = 8
    BY <1>8
  <1>9. CASE b = 9
    BY <1>9
  <1>10. CASE b = 10
    BY <1>10
  <1>11. CASE b = 11
    BY <1>11
  <1>12. CASE b = 12
    BY <1>12
  <1>13. CASE b = 13
    BY <1>13
  <1>14. CASE b = 14
    BY <1>14
  <1>15. CASE b = 15
    BY <1>15
  <1>. QED
    BY <1>0, <1>1, <1>2, <1>3, <1>4, <1>5, <1>6, <1>7, <1>8, <1>9, <1>10, <1>11, <1>12, <1>13, <1>14, <1>15

LEMMA One ==
  ASSUME NEW u, u.after \in Afters, u.set \cap u.clear = {}
  PROVE  WellFormed(<<u>>)
  BY DEF WellFormed

LEMMA Two ==
  ASSUME NEW u, NEW v, \A w \in {u, v} : w.after \in Afters /\ w.clear = {},
         u.reg # v.reg
  PROVE  WellFormed(<<u, v>>)
  BY DEF WellFormed

LEMMA Three ==
  ASSUME NEW u, NEW v, NEW w, \A x \in {u, v, w} : x.after \in Afters /\ x.clear = {},
         u.reg # v.reg, u.reg # w.reg, v.reg # w.reg
  PROVE  WellFormed(<<u, v, w>>)
  BY DEF WellFormed

LEMMA Four ==
  ASSUME NEW u, NEW v, NEW w, NEW x, \A y \in {u, v, w, x} : y.after \in Afters /\ y.clear = {},
         u.reg # v.reg, u.reg # w.reg, u.reg # x.reg, v.reg # w.reg, v.reg # x.reg, w.reg # x.reg
  PROVE  WellFormed(<<u, v, w, x>>)
  BY DEF WellFormed

LEMMA RoutinesOfOne ==
  /\ WellFormed(enable_flash_ali_m1533) /\ WellFormed(enable_flash_piix4)
  /\ WellFormed(enable_flash_ich(\h4e)) /\ WellFormed(enable_flash_ich(\hdc))
  /\ WellFormed(enable_flash_vt823x)
  <1>1. WellFormed(enable_flash_ali_m1533)
    BY UpdateFields, One DEF enable_flash_ali_m1533, Afters
  <1>2. WellFormed(enable_flash_piix4)
    BY UpdateFields, One DEF enable_flash_piix4, Afters
  <1>3. WellFormed(enable_flash_ich(\h4e)) /\ WellFormed(enable_flash_ich(\hdc))
    BY UpdateFields, One DEF enable_flash_ich, Afters
  <1>4. WellFormed(enable_flash_vt823x)
    BY UpdateFields, One DEF enable_flash_vt823x, Afters
  <1>. QED  BY <1>1, <1>2, <1>3, <1>4

LEMMA RoutinesThatClear == WellFormed(enable_flash_sc1100) /\ WellFormed(enable_flash_sis5595)
  <1>1. WellFormed(enable_flash_sc1100)
    BY ClearedApart, One DEF enable_flash_sc1100, Cleared, Update, Afters
  <1>2. WellFormed(enable_flash_sis5595)
    BY ClearedApart, One DEF enable_flash_sis5595, Cleared, Update, Afters
  <1>. QED  BY <1>1, <1>2

LEMMA RoutinesOfMore ==
  /\ WellFormed(enable_flash_cs5530) /\ WellFormed(enable_flash_amd8111) /\ WellFormed(enable_flash_ck804)
  /\ WellFormed(enable_flash_ht1000) /\ WellFormed(enable_flash_sb400)
  /\ WellFormed(enable_flash_sis630) /\ WellFormed(enable_flash_mcp55)
  <1>1. WellFormed(enable_flash_cs5530)
    BY UpdateFields, Two DEF enable_flash_cs5530, Afters
  <1>2. WellFormed(enable_flash_amd8111)
    BY UpdateFields, Two DEF enable_flash_amd8111, Afters
  <1>3. WellFormed(enable_flash_ck804)
    BY UpdateFields, Two DEF enable_flash_ck804, Afters
  <1>4. WellFormed(enable_flash_ht1000)
    BY UpdateFields, Two DEF enable_flash_ht1000, Afters
  <1>5. WellFormed(enable_flash_sb400)
    BY UpdateFields, Three DEF enable_flash_sb400, Afters
  <1>6. WellFormed(enable_flash_sis630)
    BY UpdateFields, Four DEF enable_flash_sis630, Afters
  <1>7. WellFormed(enable_flash_mcp55)
    BY UpdateFields, Four DEF enable_flash_mcp55, Afters
  <1>. QED  BY <1>1, <1>2, <1>3, <1>4, <1>5, <1>6, <1>7

\* Every entry of the table has such a routine.
LEMMA Table == \A i \in DOMAIN enables : WellFormed(enables[i].doit)
  BY RoutinesOfOne, RoutinesThatClear, RoutinesOfMore DEF enables

-----------------------------------------------------------------------------
\* The entry found is one of the table.
LEMMA FoundIsCandidate ==
  ASSUME Candidates # {}
  PROVE  Found \in Candidates /\ Found \in DOMAIN enables
  <1>1. Candidates \subseteq Nat
    BY DEF Candidates, enables
  <1>2. \E i \in Candidates : \A j \in Candidates : ~(<<j, i>> \in OpToRel(<, Nat))
    BY <1>1, NatLessThanWellFounded, WFMin
  <1>3. \A i, j \in Nat : j < i => <<j, i>> \in OpToRel(<, Nat)
    BY DEF OpToRel
  <1>4. \A i, j \in Nat : ~(j < i) => i <= j
    OBVIOUS
  <1>5. \E i \in Candidates : \A j \in Candidates : i <= j
    BY <1>1, <1>2, <1>3, <1>4, Zenon
  <1>6. Found \in Candidates
    BY <1>5, Zenon DEF Found
  <1>. QED  BY <1>6 DEF Candidates

-----------------------------------------------------------------------------
(***************************************************************************)
(* The inductive invariant.  Kept: the bits an update does not name are as *)
(* the others left them, in its register and, between its read and its     *)
(* write, in the value to write.  Right: while nobody interferes, every    *)
(* update that is over is Done, and what the current one will find when it *)
(* reads back follows from the bits that resist.                           *)
(***************************************************************************)
OwnRegs     == {ops[j].reg : j \in DOMAIN ops}
Unnamed(u) == u.width \ (u.set \cup u.clear)

Bound ==
  /\ WellFormed(ops) /\ at \in DOMAIN ops
  /\ DOMAIN regs = OwnRegs /\ DOMAIN stuck = OwnRegs /\ DOMAIN foreign = OwnRegs

Typed ==
  /\ pc \in {"find", "read", "write", "back", "done"}
  /\ sio \in SUBSET {"sio2e", "sio4e"} /\ pokes \in Nat /\ ret \in {-3, -2, -1, 0}
  /\ ops = <<>> \/ Bound
  /\ pc = "find" => ops = <<>> /\ at = 1 /\ ret = -2
  /\ pc \in {"read", "write", "back"} => Bound
  /\ pc = "back" => Op.after \in {"check", "result", "warn"}
  /\ pc = "done" /\ ret \in {0, -1} => Bound

SameBits(v, w, bits) == \A b \in bits : b \in v <=> b \in w

Kept ==
  /\ \A j \in DOMAIN ops : ops[j].reg \notin raced =>
       SameBits(regs[ops[j].reg], foreign[ops[j].reg], Unnamed(ops[j]))
  /\ pc = "write" /\ Op.reg \notin raced => SameBits(new, foreign[Op.reg], Unnamed(Op))

Done(u) ==
  \/ Missing(u) \subseteq IF Checked(u) THEN {} ELSE stuck[u.reg]
  \/ u.after = "unlock" /\ "sio2e" \in sio

Right ==
  /\ pc \in {"read", "write", "back"} => \A j \in 1 .. at - 1 : Done(ops[j])
  /\ pc = "write" => new = Changed(Op, regs[Op.reg])
  /\ pc = "back" =>
       /\ Op.set \subseteq new /\ Op.clear \cap new = {}
       /\ SameBits(regs[Op.reg], new,
                   (regs[Op.reg] \cup new) \ (stuck[Op.reg] \cap (Op.set \cup Op.clear)))
  /\ pc = "done" /\ ret = 0 => \A j \in DOMAIN ops : Done(ops[j])
  /\ pc = "done" /\ ret = -1 =>
       (Checked(Op) /\ Missing(Op) # {}) \/ (Op.after = "unlock" /\ sio = {})

Inv == Typed /\ Kept /\ (pokes = 0 => Right)

-----------------------------------------------------------------------------
\* Types and domains

LEMMA InitTyped == Init => Typed
  BY DEF Init, Typed

LEMMA FindTyped ==
  ASSUME Typed, FindNothing \/ FindNoSmbus \/ FindChipset
  PROVE  Typed'
  <1>1. CASE FindNothing
    BY <1>1 DEF FindNothing, Typed, machine, history
  <1>2. CASE FindNoSmbus
    BY <1>2 DEF FindNoSmbus, Typed, machine, history
  <1>3. CASE FindChipset
    <2>1. ops' = enables[Found].doit /\ WellFormed(ops')
      BY <1>3, FoundIsCandidate, Table DEF FindChipset
    <2>2. DOMAIN regs' = OwnRegs' /\ DOMAIN stuck' = OwnRegs' /\ DOMAIN foreign' = OwnRegs'
      <3>1. Powered(ops')
        BY <1>3 DEF FindChipset
      <3>. QED  BY <3>1, Zenon DEF Powered, OwnRegs
    <2>3. pc = "find" /\ at = 1 /\ at' = 1 /\ 1 \in DOMAIN ops'
      BY <1>3, <2>1 DEF FindChipset, Typed, WellFormed
    <2>4. Bound'
      BY <2>1, <2>2, <2>3 DEF Bound
    <2>5. pc' = "read" /\ UNCHANGED <<sio, ret, pokes>>
      BY <1>3 DEF FindChipset
    <2>. QED  BY <2>3, <2>4, <2>5 DEF Typed
  <1>. QED  BY <1>1, <1>2, <1>3

\* The end of an update keeps the place within the routine.
LEMMA GoOnTyped ==
  ASSUME Bound, NEW res \in {0, -1}, GoOn(res), UNCHANGED <<ops, stuck, foreign>>,
         DOMAIN regs' = DOMAIN regs
  PROVE  /\ Bound' /\ pc' \in {"read", "done"}
         /\ pc' = "done" => ret' = res
         /\ ret' \in {ret, 0, -1}
  <1>1. at \in 1 .. Len(ops) /\ Len(ops) \in Nat
    BY DEF Bound, WellFormed
  <1>2. at' \in 1 .. Len(ops)
    BY <1>1 DEF GoOn
  <1>. QED  BY <1>1, <1>2 DEF GoOn, Bound, WellFormed, OwnRegs

\* A step that leaves the update where it is, at another of its accesses
LEMMA StaysTyped ==
  ASSUME Typed, Bound, UNCHANGED <<sio, pokes, ops, at, ret, stuck, foreign>>,
         DOMAIN regs' = DOMAIN regs, pc' \in {"read", "write", "back"},
         pc' = "back" => Op.after \in {"check", "result", "warn"}
  PROVE  Typed'
  BY DEF Typed, Bound, OwnRegs, Op

LEMMA EndsTyped ==
  ASSUME Typed, Bound, NEW res \in {0, -1}, GoOn(res),
         UNCHANGED <<sio, pokes, ops, stuck, foreign>>, DOMAIN regs' = DOMAIN regs
  PROVE  Typed'
  <1>1. Bound' /\ pc' \in {"read", "done"} /\ ret' \in {ret, 0, -1}
    BY GoOnTyped
  <1>. QED  BY <1>1 DEF Typed

LEMMA UpdateTyped ==
  ASSUME Typed, Read \/ Unlock \/ Write \/ ReadBack
  PROVE  Typed'
  <1>0. Bound /\ Op.after \in Afters
    BY DEF Typed, Read, Unlock, Write, ReadBack, Bound, WellFormed, Op
  <1>1. CASE Read
    <2>1. UNCHANGED <<sio, pokes, ops, regs, stuck, foreign>>
      BY <1>1 DEF Read, machine, history
    <2>2. GoOn(0) \/ (pc' = "write" /\ UNCHANGED <<at, ret>>)
      BY <1>1 DEF Read
    <2>. QED  BY <1>0, <2>1, <2>2, EndsTyped, StaysTyped
  <1>2. CASE Unlock
    <2>1. UNCHANGED <<sio, pokes, ops, regs, stuck, foreign>>
      BY <1>2 DEF Unlock, machine, history
    <2>2. GoOn(0) \/ GoOn(-1) \/ (pc' = "write" /\ UNCHANGED <<at, ret>>)
      BY <1>2 DEF Unlock
    <2>. QED  BY <1>0, <2>1, <2>2, EndsTyped, StaysTyped
  <1>3. CASE Write
    <2>1. UNCHANGED <<sio, pokes, ops, stuck, foreign>> /\ DOMAIN regs' = DOMAIN regs
      BY <1>3 DEF Write, machine, history
    <2>2. GoOn(0) \/ (/\ pc' = "back" /\ UNCHANGED <<at, ret>>
                     /\ Op.after \in {"check", "result", "warn"})
      BY <1>0, <1>3 DEF Write, Afters
    <2>. QED  BY <1>0, <2>1, <2>2, EndsTyped, StaysTyped
  <1>4. CASE ReadBack
    <2>1. UNCHANGED <<sio, pokes, ops, regs, stuck, foreign>>
      BY <1>4 DEF ReadBack, machine, history
    <2>2. GoOn(0) \/ GoOn(-1)
      BY <1>4 DEF ReadBack
    <2>. QED  BY <1>0, <2>1, <2>2, EndsTyped
  <1>. QED  BY <1>1, <1>2, <1>3, <1>4

LEMMA PokeTyped ==
  ASSUME Typed, Poke
  PROVE  Typed'
  <1>1. Bound /\ pc \in {"read", "write", "back"}
    BY DEF Poke, Typed
  <1>2. /\ UNCHANGED <<present, stuck, sio, ops, at, pc, new, ret>> /\ pokes' = pokes + 1
        /\ DOMAIN regs' = DOMAIN regs /\ DOMAIN foreign' = DOMAIN foreign
    BY DEF Poke, machine
  <1>3. Bound'
    BY <1>1, <1>2 DEF Bound, OwnRegs
  <1>. QED  BY <1>1, <1>2, <1>3 DEF Typed, Op

-----------------------------------------------------------------------------
\* The bits no update names

LEMMA ChangedKeeps ==
  ASSUME NEW u, NEW was
  PROVE  SameBits(Changed(u, was), was, Unnamed(u))
  BY DEF SameBits, Changed, Unnamed

LEMMA FindKept ==
  ASSUME Typed, Kept, FindNothing \/ FindNoSmbus \/ FindChipset
  PROVE  Kept'
  <1>1. CASE FindNothing \/ FindNoSmbus
    BY <1>1 DEF FindNothing, FindNoSmbus, Kept, Op, history
  <1>2. CASE FindChipset
    <2>1. foreign' = regs' /\ pc' = "read"
      BY <1>2, Zenon DEF FindChipset, Powered
    <2>. QED  BY <2>1 DEF Kept, SameBits
  <1>. QED  BY <1>1, <1>2

LEMMA ReadKept ==
  ASSUME Typed, Kept, Read \/ Unlock \/ ReadBack
  PROVE  Kept'
  <1>0. Bound
    BY DEF Typed, Read, Unlock, ReadBack
  <1>1. UNCHANGED <<ops, regs, foreign, raced>>
    BY DEF Read, Unlock, ReadBack, machine, history
  <1>2. pc' = "write" => UNCHANGED at /\ new' = Changed(Op, regs[Op.reg])
    BY DEF Read, Unlock, ReadBack, GoOn
  <1>3. ASSUME pc' = "write", Op.reg \notin raced
        PROVE  SameBits(new', foreign[Op.reg], Unnamed(Op))
    <2>1. SameBits(new', regs[Op.reg], Unnamed(Op))
      BY <1>2, <1>3, ChangedKeeps
    <2>2. SameBits(regs[Op.reg], foreign[Op.reg], Unnamed(Op))
      BY <1>0, <1>3 DEF Kept, Bound, Op
    <2>. QED  BY <2>1, <2>2 DEF SameBits
  <1>4. pc' = "write" => Op' = Op
    BY <1>1, <1>2 DEF Op
  <1>. QED  BY <1>1, <1>3, <1>4 DEF Kept

\* A write gives the register the bits of its value and those that resist.
LEMMA WriteKept ==
  ASSUME Typed, Kept, Write
  PROVE  Kept'
  <1>1. Bound /\ at \in DOMAIN ops /\ Op = ops[at]
    BY DEF Typed, Write, Bound, Op
  <1>2. UNCHANGED <<ops, stuck, foreign, raced>> /\ pc' # "write"
    BY DEF Write, machine, history, GoOn
  <1>3. ASSUME NEW j \in DOMAIN ops, ops[j].reg \notin raced
        PROVE  SameBits(regs'[ops[j].reg], foreign[ops[j].reg], Unnamed(ops[j]))
    <2>1. CASE j = at
      <3>1. regs'[Op.reg] = Taken(Op)
        BY <1>1 DEF Write, Bound, OwnRegs
      <3>2. /\ SameBits(regs[Op.reg], foreign[Op.reg], Unnamed(Op))
            /\ SameBits(new, foreign[Op.reg], Unnamed(Op))
        BY <1>1, <1>3, <2>1 DEF Kept, Write
      <3>3. SameBits(Taken(Op), foreign[Op.reg], Unnamed(Op))
        BY <3>2 DEF Taken, SameBits
      <3>. QED  BY <1>1, <2>1, <3>1, <3>3
    <2>2. CASE j # at
      <3>1. ops[j].reg # Op.reg
        BY <1>1, <2>2 DEF Bound, WellFormed
      <3>2. regs'[ops[j].reg] = regs[ops[j].reg]
        BY <1>1, <3>1 DEF Write, Bound, OwnRegs
      <3>. QED  BY <1>3, <3>2 DEF Kept
    <2>. QED  BY <2>1, <2>2
  <1>. QED  BY <1>2, <1>3 DEF Kept

\* A bit inverted by others is inverted in both views of its register.
LEMMA PokeKept ==
  ASSUME Typed, Kept, Poke
  PROVE  Kept'
  <1>1. Bound /\ UNCHANGED <<ops, pc, at, new>>
    BY DEF Typed, Poke, machine
  <1>. DEFINE flip(b, v) == IF b \in v THEN v \ {b} ELSE v \cup {b}
  <1>. DEFINE inverted(k, b) ==
                /\ regs' = [regs EXCEPT ![ops[k].reg] = flip(b, @)]
                /\ foreign' = [foreign EXCEPT ![ops[k].reg] = flip(b, @)]
                /\ raced' = IF pc = "write" /\ Op.reg = ops[k].reg
                              THEN raced \cup {ops[k].reg} ELSE raced
  <1>2. PICK k \in DOMAIN ops : \E b \in Pokes(ops[k]) : inverted(k, b)
    BY DEF Poke
  <1>. PICK b \in Pokes(ops[k]) : inverted(k, b)
    BY <1>2
  <1>3. ASSUME NEW v, NEW w, NEW bits, SameBits(v, w, bits)
        PROVE  SameBits(flip(b, v), flip(b, w), bits)
    BY <1>3 DEF SameBits
  <1>4. ops[k].reg \in OwnRegs
    BY DEF OwnRegs
  <1>5. /\ regs'[ops[k].reg] = flip(b, regs[ops[k].reg])
        /\ foreign'[ops[k].reg] = flip(b, foreign[ops[k].reg])
        /\ \A r \in OwnRegs : r # ops[k].reg => regs'[r] = regs[r] /\ foreign'[r] = foreign[r]
    BY <1>1, <1>4 DEF Bound
  <1>. HIDE DEF flip
  <1>6. raced \subseteq raced'
    OBVIOUS
  <1>7. ASSUME NEW j \in DOMAIN ops, ops[j].reg \notin raced'
        PROVE  SameBits(regs'[ops[j].reg], foreign'[ops[j].reg], Unnamed(ops[j]))
    <2>1. SameBits(regs[ops[j].reg], foreign[ops[j].reg], Unnamed(ops[j]))
      BY <1>6, <1>7 DEF Kept
    <2>2. ops[j].reg \in OwnRegs
      BY DEF OwnRegs
    <2>3. CASE ops[j].reg = ops[k].reg
      BY <1>3, <1>5, <2>1, <2>3
    <2>4. CASE ops[j].reg # ops[k].reg
      BY <1>5, <2>1, <2>2, <2>4
    <2>. QED  BY <2>3, <2>4
  <1>8. ASSUME pc = "write", Op.reg \notin raced'
        PROVE  SameBits(new, foreign'[Op.reg], Unnamed(Op))
    <2>1. Op.reg # ops[k].reg /\ Op.reg \notin raced
      BY <1>6, <1>8
    <2>2. Op.reg \in OwnRegs
      BY <1>1 DEF OwnRegs, Op, Bound
    <2>. QED  BY <1>5, <1>8, <2>1, <2>2 DEF Kept
  <1>9. Op' = Op
    BY <1>1 DEF Op
  <1>. QED  BY <1>1, <1>7, <1>8, <1>9 DEF Kept

-----------------------------------------------------------------------------
\* What is worth what while nobody interferes

\* What was done stays done: another update writes another register.
LEMMA DoneStays ==
  ASSUME Bound, NEW j \in DOMAIN ops, Done(ops[j]), UNCHANGED <<ops, stuck, sio>>,
         regs'[ops[j].reg] = regs[ops[j].reg]
  PROVE  Done(ops[j])'
  BY DEF Done, Missing, Checked

\* An update is over, and done if its result is 0.
LEMMA Ends ==
  ASSUME Typed, Right, pc \in {"read", "write", "back"}, NEW res \in {0, -1}, GoOn(res),
         UNCHANGED <<ops, stuck, sio>>,
         \A j \in DOMAIN ops : j # at => regs'[ops[j].reg] = regs[ops[j].reg],
         res = 0 => \A j \in DOMAIN ops : j = at => Done(ops[j])',
         res = -1 => ((Checked(Op) /\ Missing(Op) # {}) \/ (Op.after = "unlock" /\ sio = {}))'
  PROVE  Right'
  <1>1. Bound /\ at \in 1 .. Len(ops) /\ Len(ops) \in Nat /\ DOMAIN ops = 1 .. Len(ops)
    BY DEF Typed, Bound, WellFormed
  <1>2. \A j \in 1 .. at - 1 : j \in DOMAIN ops /\ j # at /\ Done(ops[j])
    BY <1>1 DEF Right
  <1>3. \A j \in 1 .. at - 1 : Done(ops[j])'
    BY <1>1, <1>2, DoneStays
  <1>4. res = 0 => \A j \in 1 .. at : Done(ops[j])'
    BY <1>1, <1>3
  <1>5. CASE res = 0 /\ at = Len(ops)
    <2>1. pc' = "done" /\ ret' = 0 /\ \A j \in DOMAIN ops' : Done(ops[j])'
      BY <1>1, <1>4, <1>5 DEF GoOn
    <2>. QED  BY <2>1 DEF Right
  <1>6. CASE res = 0 /\ at # Len(ops)
    <2>1. pc' = "read" /\ at' = at + 1
      BY <1>6 DEF GoOn
    <2>2. at' - 1 = at
      BY <1>1, <2>1
    <2>3. \A j \in 1 .. at' - 1 : Done(ops[j])'
      BY <1>4, <1>6, <2>2
    <2>. QED  BY <2>1, <2>3 DEF Right
  <1>7. CASE res = -1
    <2>1. pc' = "done" /\ ret' = -1
      BY <1>7 DEF GoOn
    <2>. QED  BY <1>7, <2>1 DEF Right
  <1>. QED  BY <1>5, <1>6, <1>7

\* The same of a value to write: nothing named is missing from it.
LEMMA ChangedIsRight ==
  ASSUME NEW u, NEW was, u.set \cap u.clear = {}
  PROVE  /\ u.set \subseteq Changed(u, was) /\ u.clear \cap Changed(u, was) = {}
         /\ \A b : b \notin u.set \cup u.clear => (b \in Changed(u, was) <=> b \in was)
  BY DEF Changed

LEMMA FindRight ==
  ASSUME Typed, Right, FindNothing \/ FindNoSmbus \/ FindChipset
  PROVE  Right'
  <1>1. CASE FindNothing \/ FindNoSmbus
    BY <1>1 DEF FindNothing, FindNoSmbus, Right, Typed
  <1>2. CASE FindChipset
    <2>1. pc' = "read" /\ at' = 1
      BY <1>2 DEF FindChipset, Typed
    <2>. QED  BY <2>1 DEF Right
  <1>. QED  BY <1>1, <1>2

LEMMA ReadRight ==
  ASSUME Typed, Right, Read \/ Unlock
  PROVE  Right'
  <1>1. Bound /\ at \in DOMAIN ops /\ Op = ops[at] /\ Op.set \cap Op.clear = {}
    BY DEF Typed, Read, Unlock, Bound, WellFormed, Op
  <1>2. UNCHANGED <<ops, regs, stuck, sio>> /\ pc = "read"
    BY DEF Read, Unlock, machine, history
  <1>3. CASE pc' = "write" /\ UNCHANGED <<at, ret>> /\ new' = Changed(Op, regs[Op.reg])
    <2>1. \A j \in 1 .. at - 1 : Done(ops[j])'
      BY <1>2 DEF Right, Done, Missing, Checked
    <2>. QED  BY <1>2, <1>3, <2>1 DEF Right, Op, Changed
  <1>4. CASE Read /\ Changed(Op, regs[Op.reg]) = regs[Op.reg] /\ GoOn(0)
    <2>1. Missing(Op) = {}
      BY <1>1, <1>4, ChangedIsRight DEF Missing
    <2>2. Done(Op)
      BY <2>1 DEF Done
    <2>3. \A j \in DOMAIN ops : j = at => Done(ops[j])'
      BY <1>1, <1>2, <2>2 DEF Done, Missing, Checked
    <2>. QED  BY <1>1, <1>2, <1>4, <2>3, Ends
  <1>5. CASE Unlock /\ "sio2e" \in sio /\ GoOn(0)
    <2>1. \A j \in DOMAIN ops : j = at => Done(ops[j])'
      BY <1>1, <1>2, <1>5 DEF Done, Unlock
    <2>. QED  BY <1>1, <1>2, <1>5, <2>1, Ends
  <1>6. CASE Unlock /\ "sio2e" \notin sio /\ "sio4e" \notin sio /\ GoOn(-1)
    <2>1. sio = {} /\ UNCHANGED at
      BY <1>6 DEF Typed, GoOn
    <2>2. (Op.after = "unlock" /\ sio = {})'
      BY <1>2, <1>6, <2>1 DEF Unlock, Op
    <2>. QED  BY <1>1, <1>2, <1>6, <2>2, Ends
  <1>. QED  BY <1>3, <1>4, <1>5, <1>6 DEF Read, Unlock

LEMMA WriteRight ==
  ASSUME Typed, Right, Write
  PROVE  Right'
  <1>1. Bound /\ at \in DOMAIN ops /\ Op = ops[at] /\ Op.set \cap Op.clear = {} /\ Op.after \in Afters
    BY DEF Typed, Write, Bound, WellFormed, Op
  <1>2. UNCHANGED <<ops, stuck, sio, new>> /\ pc = "write"
    BY DEF Write, machine
  <1>3. \A j \in DOMAIN ops : j # at => regs'[ops[j].reg] = regs[ops[j].reg]
    <2>1. \A j \in DOMAIN ops : j # at => ops[j].reg # Op.reg /\ ops[j].reg \in OwnRegs
      BY <1>1 DEF Bound, WellFormed, OwnRegs
    <2>. QED  BY <1>1, <2>1 DEF Write, Bound
  <1>4. regs'[Op.reg] = Taken(Op) /\ new = Changed(Op, regs[Op.reg])
    BY <1>1 DEF Write, Bound, OwnRegs, Right
  <1>5. /\ Op.set \subseteq new /\ Op.clear \cap new = {}
        /\ \A b : b \notin stuck[Op.reg] => (b \in regs'[Op.reg] <=> b \in new)
        /\ \A b : b \notin Op.set \cup Op.clear => (b \in regs'[Op.reg] <=> b \in new)
    BY <1>1, <1>4, ChangedIsRight DEF Taken
  <1>6. CASE Op.after \in {"blind", "unlock"} /\ GoOn(0)
    <2>1. (Op.set \ regs'[Op.reg]) \cup (Op.clear \cap regs'[Op.reg]) \subseteq stuck[Op.reg]
      BY <1>5
    <2>2. \A j \in DOMAIN ops : j = at => Done(ops[j])'
      BY <1>1, <1>2, <1>6, <2>1 DEF Done, Missing, Checked
    <2>. QED  BY <1>2, <1>3, <1>6, <2>2, Ends
  <1>7. CASE pc' = "back" /\ UNCHANGED <<at, ret>>
    <2>1. \A j \in 1 .. at - 1 : Done(ops[j])'
      <3>1. \A j \in 1 .. at - 1 : j \in DOMAIN ops /\ j # at /\ Done(ops[j])
        BY <1>1, <1>2 DEF Right, Bound, WellFormed
      <3>. QED  BY <1>1, <1>2, <1>3, <3>1, DoneStays
    <2>2. Op' = Op
      BY <1>2, <1>7 DEF Op
    <2>3. SameBits(regs'[Op.reg], new,
                   (regs'[Op.reg] \cup new) \ (stuck[Op.reg] \cap (Op.set \cup Op.clear)))
      BY <1>5 DEF SameBits
    <2>. QED  BY <1>2, <1>5, <1>7, <2>1, <2>2, <2>3 DEF Right
  <1>. QED  BY <1>6, <1>7 DEF Write

LEMMA ReadBackRight ==
  ASSUME Typed, Right, ReadBack
  PROVE  Right'
  <1>1. Bound /\ at \in DOMAIN ops /\ Op = ops[at] /\ Op.after \in {"check", "result", "warn"}
    BY DEF Typed, ReadBack, Bound, Op
  <1>2. UNCHANGED <<ops, regs, stuck, sio>> /\ pc = "back"
    BY DEF ReadBack, machine
  <1>3. /\ Op.set \subseteq new /\ Op.clear \cap new = {}
        /\ SameBits(regs[Op.reg], new,
                    (regs[Op.reg] \cup new) \ (stuck[Op.reg] \cap (Op.set \cup Op.clear)))
    BY <1>2 DEF Right
  <1>4. CASE regs[Op.reg] = new
    <2>1. Missing(Op) = {} /\ GoOn(0)
      BY <1>3, <1>4 DEF Missing, ReadBack
    <2>2. \A j \in DOMAIN ops : j = at => Done(ops[j])'
      BY <1>1, <1>2, <2>1 DEF Done, Missing, Checked
    <2>. QED  BY <1>2, <2>1, <2>2, Ends
  <1>5. CASE regs[Op.reg] # new /\ Op.after = "warn"
    <2>1. Missing(Op) \subseteq stuck[Op.reg] /\ GoOn(0) /\ ~Checked(Op)
      BY <1>3, <1>5 DEF Missing, ReadBack, SameBits, Checked
    <2>2. \A j \in DOMAIN ops : j = at => Done(ops[j])'
      BY <1>1, <1>2, <2>1 DEF Done, Missing, Checked
    <2>. QED  BY <1>2, <2>1, <2>2, Ends
  <1>6. CASE regs[Op.reg] # new /\ Op.after # "warn"
    <2>1. GoOn(-1) /\ UNCHANGED at
      BY <1>6 DEF ReadBack, GoOn
    <2>2. PICK b : b \in regs[Op.reg] <=> b \notin new
      BY <1>6
    <2>3. b \in Missing(Op)
      BY <1>3, <2>2 DEF Missing, SameBits
    <2>4. (Checked(Op) /\ Missing(Op) # {})'
      BY <1>1, <1>2, <1>6, <2>1, <2>3 DEF Missing, Checked, Op
    <2>. QED  BY <1>2, <2>1, <2>4, Ends
  <1>. QED  BY <1>4, <1>5, <1>6

-----------------------------------------------------------------------------
\* The inductive invariant of the chipset's routine holds.
THEOREM InvHolds == Spec => []Inv
  <1>1. Init => Inv
    BY InitTyped DEF Init, Inv, Kept, Right
  <1>2. Inv /\ [Next]_vars => Inv'
    <2>. SUFFICES ASSUME Inv, [Next]_vars PROVE Inv'
      OBVIOUS
    <2>. USE DEF Inv
    <2>1. CASE FindNothing \/ FindNoSmbus \/ FindChipset
      <3>1. pokes' = pokes
        BY <2>1 DEF FindNothing, FindNoSmbus, FindChipset, history
      <3>. QED  BY <2>1, <3>1, FindTyped, FindKept, FindRight
    <2>2. CASE Read \/ Unlock \/ Write \/ ReadBack
      <3>1. pokes' = pokes
        BY <2>2 DEF Read, Unlock, Write, ReadBack, history
      <3>. QED  BY <2>2, <3>1, UpdateTyped, ReadKept, WriteKept, ReadRight, WriteRight, ReadBackRight
    <2>3. CASE Poke
      <3>1. pokes' # 0
        BY <2>3 DEF Poke, Typed
      <3>. QED  BY <2>3, <3>1, PokeTyped, PokeKept
    <2>4. CASE UNCHANGED vars
      <3>1. Typed'
        BY <2>4 DEF vars, Typed, Bound, OwnRegs, Op
      <3>2. Kept'
        BY <2>4 DEF vars, Kept, Op
      <3>3. pokes' = 0 => Right'
        BY <2>4 DEF vars, Right, Op, Done, Missing, Checked
      <3>. QED  BY <3>1, <3>2, <3>3
    <2>. QED  BY <2>1, <2>2, <2>3, <2>4 DEF Next
  <1>. QED  BY <1>1, <1>2, PTL DEF Spec

\* What the rest of the system put into a register stays there, unless it did
\* so between the read and the write of that register.
THEOREM ForeignBitsAreKept == Spec => []ForeignBitsKept
  <1>1. Inv => ForeignBitsKept
    BY DEF Inv, Kept, ForeignBitsKept, SameBits, Unnamed
  <1>. QED  BY <1>1, InvHolds, PTL

\* The result of a routine nobody interfered with is worth what it says.
THEOREM ResultHolds == Spec => []ResultIsTrue
  <1>1. Inv => ResultIsTrue
    BY DEF Inv, Right, Done, ResultIsTrue
  <1>. QED  BY <1>1, InvHolds, PTL

-----------------------------------------------------------------------------
(***************************************************************************)
(* The configuration mode of the SiS 950.  Exits: behind the update that   *)
(* sends the keys, at 0x4e, comes the one at 0x2e, blindly.  Owed: the     *)
(* Super-IOs the routine still has to send the exit.                       *)
(***************************************************************************)
Exits(D) ==
  \A j \in DOMAIN D : D[j].after = "unlock" =>
    /\ D[j].reg[1] = "sio4e" /\ j + 1 \in DOMAIN D
    /\ D[j + 1].reg[1] = "sio2e" /\ D[j + 1].after = "blind"

Unlocked == at - 1 \in DOMAIN ops /\ ops[at - 1].after = "unlock"
Owed   == IF pc = "write" /\ Op.after = "unlock" THEN {"sio2e", "sio4e"}
          ELSE IF pc \in {"read", "write"} /\ Unlocked THEN {"sio2e"} ELSE {}

Owing ==
  /\ pc \in {"read", "write", "back"} => Exits(ops)
  /\ pc # "done" => config \subseteq Owed
  /\ ConfigurationLeft

LEMMA OthersExit ==
  /\ Exits(enable_flash_ali_m1533) /\ Exits(enable_flash_piix4)
  /\ Exits(enable_flash_ich(\h4e)) /\ Exits(enable_flash_ich(\hdc))
  /\ Exits(enable_flash_vt823x) /\ Exits(enable_flash_sc1100) /\ Exits(enable_flash_sis5595)
  /\ Exits(enable_flash_cs5530) /\ Exits(enable_flash_amd8111) /\ Exits(enable_flash_ck804)
  /\ Exits(enable_flash_ht1000) /\ Exits(enable_flash_sb400) /\ Exits(enable_flash_mcp55)
  <1>1. /\ Exits(enable_flash_ali_m1533) /\ Exits(enable_flash_piix4)
        /\ Exits(enable_flash_ich(\h4e)) /\ Exits(enable_flash_ich(\hdc))
    BY UpdateFields DEF Exits, enable_flash_ali_m1533, enable_flash_piix4, enable_flash_ich
  <1>2. Exits(enable_flash_vt823x) /\ Exits(enable_flash_sc1100) /\ Exits(enable_flash_sis5595)
    BY DEF Exits, enable_flash_vt823x, enable_flash_sc1100, enable_flash_sis5595, Cleared, Update
  <1>3. Exits(enable_flash_cs5530) /\ Exits(enable_flash_amd8111) /\ Exits(enable_flash_ck804)
    BY UpdateFields DEF Exits, enable_flash_cs5530, enable_flash_amd8111, enable_flash_ck804
  <1>4. Exits(enable_flash_ht1000) /\ Exits(enable_flash_sb400)
    BY UpdateFields DEF Exits, enable_flash_ht1000, enable_flash_sb400
  <1>5. Exits(enable_flash_mcp55)
    BY UpdateFields DEF Exits, enable_flash_mcp55
  <1>. QED  BY <1>1, <1>2, <1>3, <1>4, <1>5

LEMMA Sis630Exits == Exits(enable_flash_sis630)
  BY UpdateFields DEF Exits, enable_flash_sis630

LEMMA AllExit == \A i \in DOMAIN enables : Exits(enables[i].doit)
  BY OthersExit, Sis630Exits DEF enables

\* The update behind the keys sends none itself.
LEMMA BehindIsBlind ==
  ASSUME Exits(ops), Bound, Unlocked
  PROVE  Op.reg[1] = "sio2e" /\ Op.after = "blind"
  <1>1. at \in Nat /\ (at - 1) + 1 = at
    BY DEF Bound, WellFormed
  <1>. QED  BY <1>1 DEF Exits, Unlocked, Op

LEMMA GoOnOwes ==
  ASSUME Exits(ops), Bound, GoOn(0), UNCHANGED ops,
         config' \subseteq IF Op.after = "unlock" THEN {"sio2e"} ELSE {}
  PROVE  Owing'
  <1>1. at \in 1 .. Len(ops) /\ Len(ops) \in Nat /\ DOMAIN ops = 1 .. Len(ops)
    BY DEF Bound, WellFormed
  <1>2. CASE at = Len(ops)
    <2>1. at \in DOMAIN ops /\ at + 1 \notin DOMAIN ops
      BY <1>1, <1>2
    <2>2. Op.after # "unlock"
      BY <2>1, Zenon DEF Exits, Op
    <2>3. pc' = "done" /\ config' = {}
      BY <1>2, <2>2 DEF GoOn
    <2>. QED  BY <2>3 DEF Owing, ConfigurationLeft
  <1>3. CASE at # Len(ops)
    <2>1. pc' = "read" /\ at' = at + 1
      BY <1>3 DEF GoOn
    <2>2. (at' - 1) = at
      BY <1>1, <2>1
    <2>3. Op.after = "unlock" => Unlocked'
      BY <1>1, <2>2 DEF Unlocked, Op
    <2>. QED  BY <2>1, <2>3 DEF Owing, Owed, ConfigurationLeft
  <1>. QED  BY <1>2, <1>3

LEMMA FindOwes ==
  ASSUME Typed, Owing, FindNothing \/ FindNoSmbus \/ FindChipset
  PROVE  Owing'
  <1>1. pc = "find" /\ config = {} /\ config' = {}
    BY DEF FindNothing, FindNoSmbus, FindChipset, Owing, Owed
  <1>2. CASE FindNothing \/ FindNoSmbus
    BY <1>1, <1>2 DEF FindNothing, FindNoSmbus, Owing, ConfigurationLeft
  <1>3. CASE FindChipset
    <2>1. Exits(ops') /\ pc' = "read"
      BY <1>3, FoundIsCandidate, AllExit DEF FindChipset
    <2>. QED  BY <1>1, <2>1 DEF Owing, ConfigurationLeft
  <1>. QED  BY <1>2, <1>3

LEMMA ReadOwes ==
  ASSUME Typed, Owing, Read \/ ReadBack
  PROVE  Owing'
  <1>1. Bound /\ Exits(ops) /\ UNCHANGED <<ops, config, sio>> /\ pc \in {"read", "back"}
    BY DEF Typed, Owing, Read, ReadBack, machine
  <1>2. config \subseteq Owed /\ Op.after # "unlock"
    BY <1>1 DEF Owing, Typed, Read, ReadBack
  <1>3. CASE Read /\ GoOn(0)
    <2>1. config = {}
      <3>1. CASE Unlocked
        <4>1. Op.after = "blind"
          BY <1>1, <3>1, BehindIsBlind
        <4>2. FALSE
          <5>1. at \in 1 .. Len(ops) /\ Len(ops) \in Nat
            BY <1>1 DEF Bound, WellFormed
          <5>2. pc' = "write" /\ pc' \in {"read", "done"}
            BY <1>3, <4>1 DEF Read, GoOn
          <5>. QED  BY <5>2
        <4>. QED  BY <4>2
      <3>2. CASE ~Unlocked
        BY <1>2, <3>2 DEF Owed
      <3>. QED  BY <3>1, <3>2
    <2>. QED  BY <1>1, <1>2, <1>3, <2>1, GoOnOwes
  <1>4. CASE Read /\ pc' = "write" /\ UNCHANGED at
    <2>1. Op' = Op /\ Unlocked' = Unlocked
      BY <1>1, <1>4 DEF Op, Unlocked
    <2>2. config' \subseteq Owed'
      BY <1>1, <1>2, <1>4, <2>1 DEF Owed
    <2>. QED  BY <1>1, <1>4, <2>2 DEF Owing, ConfigurationLeft
  <1>5. CASE ReadBack
    <2>1. config = {}
      BY <1>2, <1>5 DEF Owed, ReadBack
    <2>2. CASE GoOn(0)
      BY <1>1, <1>2, <2>1, <2>2, GoOnOwes
    <2>3. CASE GoOn(-1)
      BY <1>1, <2>1, <2>3 DEF GoOn, Owing, ConfigurationLeft
    <2>. QED  BY <1>5, <2>2, <2>3 DEF ReadBack
  <1>. QED  BY <1>3, <1>4, <1>5 DEF Read

LEMMA UnlockOwes ==
  ASSUME Typed, Owing, Unlock
  PROVE  Owing'
  <1>1. /\ Bound /\ Exits(ops) /\ UNCHANGED <<ops, sio>> /\ pc = "read" /\ Op.after = "unlock"
        /\ sio \subseteq {"sio2e", "sio4e"}
    BY DEF Typed, Owing, Unlock, machine
  <1>2. config = {}
    BY <1>1, BehindIsBlind DEF Owing, Owed
  <1>3. CASE "sio2e" \in sio
    <2>1. config' = {"sio2e"} /\ GoOn(0)
      BY <1>2, <1>3 DEF Unlock
    <2>. QED  BY <1>1, <2>1, GoOnOwes
  <1>4. CASE "sio2e" \notin sio /\ "sio4e" \in sio
    <2>1. config' = {"sio2e", "sio4e"} /\ pc' = "write" /\ at' = at
      BY <1>2, <1>4 DEF Unlock
    <2>. QED  BY <1>1, <2>1 DEF Owing, Owed, ConfigurationLeft, Op
  <1>5. CASE sio = {}
    <2>1. GoOn(-1)
      BY <1>5 DEF Unlock
    <2>. QED  BY <1>1, <1>5, <2>1 DEF GoOn, Owing, ConfigurationLeft
  <1>. QED  BY <1>1, <1>3, <1>4, <1>5

LEMMA WriteOwes ==
  ASSUME Typed, Owing, Write
  PROVE  Owing'
  <1>1. /\ Bound /\ Exits(ops) /\ UNCHANGED <<ops, sio>> /\ pc = "write"
        /\ config \subseteq Owed /\ config' = config \ {Op.reg[1]}
    BY DEF Typed, Owing, Write, Left, machine
  <1>2. CASE Op.after = "unlock"
    <2>1. Op.reg[1] = "sio4e"
      BY <1>1, <1>2 DEF Exits, Bound, Op
    <2>2. config' \subseteq {"sio2e"} /\ GoOn(0)
      BY <1>1, <1>2, <2>1 DEF Owed, Write
    <2>. QED  BY <1>1, <1>2, <2>2, GoOnOwes
  <1>3. CASE Op.after # "unlock"
    <2>1. config' = {}
      BY <1>1, <1>3, BehindIsBlind DEF Owed
    <2>2. CASE GoOn(0)
      BY <1>1, <1>3, <2>1, <2>2, GoOnOwes
    <2>3. CASE pc' = "back"
      BY <1>1, <2>1, <2>3 DEF Owing, ConfigurationLeft
    <2>. QED  BY <2>2, <2>3 DEF Write
  <1>. QED  BY <1>2, <1>3

LEMMA OwingStep == ASSUME Typed, Owing, [Next]_vars PROVE Owing'
  <1>1. CASE Poke \/ UNCHANGED vars
    <2>1. UNCHANGED <<ops, sio, config, at, pc, ret>>
      BY <1>1 DEF Poke, machine, vars
    <2>. QED  BY <2>1 DEF Owing, Owed, Unlocked, Op, ConfigurationLeft
  <1>. QED  BY <1>1, FindOwes, ReadOwes, UnlockOwes, WriteOwes DEF Next

\* Whatever the registers hold and however often others write them, no Super-IO
\* that answers is left in its configuration mode, and a result of 0 leaves none.
THEOREM ConfigurationIsLeft == Spec => []ConfigurationLeft
  <1>1. Init => Owing
    BY DEF Init, Owing, Owed, ConfigurationLeft
  <1>2. Inv /\ Owing /\ [Next]_vars => Owing'
    BY OwingStep DEF Inv
  <1>3. Owing => ConfigurationLeft
    BY DEF Owing
  <1>. QED  BY <1>1, <1>2, <1>3, InvHolds, PTL DEF Spec

-----------------------------------------------------------------------------
\* Part 2: the routine of the board

\* The values the boards' routines write
LEMMA BitValues ==
  /\ BitsOf(0) = {} /\ BitsOf(1) = {0} /\ BitsOf(2) = {1} /\ BitsOf(8) = {3} /\ BitsOf(16) = {4}
  /\ BitsOf(32) = {5} /\ BitsOf(64) = {6} /\ BitsOf(128) = {7} /\ BitsOf(82) = {1, 4, 6}
  <1>. DEFINE bit(n, b) == (n \div 2^b) % 2 = 1
  <1>1. ASSUME NEW b \in 0 .. 15
        PROVE  /\ ~bit(0, b) /\ (bit(1, b) <=> b = 0) /\ (bit(2, b) <=> b = 1) /\ (bit(8, b) <=> b = 3)
               /\ (bit(16, b) <=> b = 4) /\ (bit(32, b) <=> b = 5) /\ (bit(64, b) <=> b = 6)
               /\ (bit(128, b) <=> b = 7) /\ (bit(82, b) <=> b \in {1, 4, 6})
    <2>0. CASE b = 0
      BY <2>0
    <2>1. CASE b = 1
      BY <2>1
    <2>2. CASE b = 2
      BY <2>2
    <2>3. CASE b = 3
      BY <2>3
    <2>4. CASE b = 4
      BY <2>4
    <2>5. CASE b = 5
      BY <2>5
    <2>6. CASE b = 6
      BY <2>6
    <2>7. CASE b = 7
      BY <2>7
    <2>8. CASE b = 8
      BY <2>8
    <2>9. CASE b = 9
      BY <2>9
    <2>10. CASE b = 10
      BY <2>10
    <2>11. CASE b = 11
      BY <2>11
    <2>12. CASE b = 12
      BY <2>12
    <2>13. CASE b = 13
      BY <2>13
    <2>14. CASE b = 14
      BY <2>14
    <2>15. CASE b = 15
      BY <2>15
    <2>. QED
      BY <2>0, <2>1, <2>2, <2>3, <2>4, <2>5, <2>6, <2>7, <2>8, <2>9, <2>10, <2>11, <2>12, <2>13, <2>14, <2>15
  <1>2. \A n : BitsOf(n) = {b \in 0 .. 15 : bit(n, b)}
    BY DEF BitsOf
  <1>. HIDE DEF bit
  <1>3. BitsOf(0) = {}
    BY <1>1, <1>2
  <1>4. BitsOf(1) = {0}
    BY <1>1, <1>2
  <1>5. BitsOf(2) = {1}
    BY <1>1, <1>2
  <1>6. BitsOf(8) = {3}
    BY <1>1, <1>2
  <1>7. BitsOf(16) = {4}
    BY <1>1, <1>2
  <1>8. BitsOf(32) = {5}
    BY <1>1, <1>2
  <1>9. BitsOf(64) = {6}
    BY <1>1, <1>2
  <1>10. BitsOf(128) = {7}
    BY <1>1, <1>2
  <1>11. BitsOf(82) = {1, 4, 6}
    BY <1>1, <1>2
  <1>. QED
    BY <1>3, <1>4, <1>5, <1>6, <1>7, <1>8, <1>9, <1>10, <1>11

Dos        == {"key", "leave", "index", "in", "out", "is", "skip", "poll"}
Places     == {"sio", "gpio", "pci", "port", "smbus"}
AccessType == [do : Dos, place : Places, reg : Nat, clear : SUBSET Byte, set : SUBSET Byte]

LEMMA Joined ==
  ASSUME NEW S, NEW s \in Seq(S), NEW t \in Seq(S)
  PROVE  /\ s \o t \in Seq(S) /\ Len(s \o t) = Len(s) + Len(t)
         /\ \A i \in 1 .. Len(s) : (s \o t)[i] = s[i]
         /\ \A i \in 1 .. Len(t) : (s \o t)[Len(s) + i] = t[i]
  OBVIOUS

\* A routine's accesses as records with all fields
A(do, place, reg, clear, set) ==
  [do |-> do, place |-> place, reg |-> reg, clear |-> clear, set |-> set]

LEMMA AccessTyped ==
  ASSUME NEW do \in Dos, NEW place \in Places, NEW reg \in Nat,
         NEW clear \in SUBSET Byte, NEW set \in SUBSET Byte
  PROVE  A(do, place, reg, clear, set) \in AccessType
  BY DEF A, AccessType

\* n is a value of eight bits.
OfByte(n) == BitsOf(n) \subseteq Byte

Masked(d, m) == BitsOf(d) \cap BitsOf(m)

LEMMA MaskSteps ==
  ASSUME NEW i \in Nat, NEW d \in Nat, NEW m \in Nat, OfByte(m)
  PROVE  LET s == wbsio_mask(i, d, m) IN
         /\ s \in Seq(AccessType) /\ Len(s) = 3
         /\ s[1] = A("index", "sio", i, {}, {}) /\ s[2] = A("in", "sio", i, {}, {})
         /\ s[3] = A("out", "sio", i, BitsOf(m), Masked(d, m))
  <1>. DEFINE a == A("index", "sio", i, {}, {})
              b == A("in", "sio", i, {}, {})
              c == A("out", "sio", i, BitsOf(m), Masked(d, m))
  <1>1. a \in AccessType /\ b \in AccessType /\ c \in AccessType
    BY AccessTyped DEF Dos, Places, OfByte, Masked
  <1>2. wbsio_mask(i, d, m) = (<<a>> \o <<b>>) \o <<c>>
    BY DEF wbsio_mask, wbsio_read, Index, In, Out, Access, A, Masked
  <1>. HIDE DEF a, b, c
  <1>3. <<a>> \in Seq(AccessType) /\ <<b>> \in Seq(AccessType) /\ <<c>> \in Seq(AccessType)
    BY <1>1
  <1>4. /\ <<a>> \o <<b>> \in Seq(AccessType) /\ Len(<<a>> \o <<b>>) = 2
        /\ (<<a>> \o <<b>>)[1] = a /\ (<<a>> \o <<b>>)[2] = b
    BY <1>3, Joined
  <1>5. LET s == (<<a>> \o <<b>>) \o <<c>> IN
        s \in Seq(AccessType) /\ Len(s) = 3 /\ s[1] = a /\ s[2] = b /\ s[3] = c
    BY <1>3, <1>4, Joined
  <1>. QED  BY <1>2, <1>5 DEF a, b, c

\* the same of reading, and of a register that is written whole
LEMMA ReadSteps ==
  ASSUME NEW i \in Nat
  PROVE  LET s == wbsio_read(i) IN
         /\ s \in Seq(AccessType) /\ Len(s) = 2
         /\ s[1] = A("index", "sio", i, {}, {}) /\ s[2] = A("in", "sio", i, {}, {})
  <1>. DEFINE a == A("index", "sio", i, {}, {})
              b == A("in", "sio", i, {}, {})
  <1>1. a \in AccessType /\ b \in AccessType
    BY AccessTyped DEF Dos, Places
  <1>2. wbsio_read(i) = <<a>> \o <<b>>
    BY DEF wbsio_read, Index, In, Access, A
  <1>. HIDE DEF a, b
  <1>3. <<a>> \in Seq(AccessType) /\ <<b>> \in Seq(AccessType)
    BY <1>1
  <1>. QED  BY <1>2, <1>3, Joined DEF a, b

LEMMA WriteSteps ==
  ASSUME NEW i \in Nat, NEW d \in Nat, OfByte(d)
  PROVE  LET s == wbsio_write(i, d) IN
         /\ s \in Seq(AccessType) /\ Len(s) = 2
         /\ s[1] = A("index", "sio", i, {}, {}) /\ s[2] = A("out", "sio", i, Byte, BitsOf(d))
  <1>. DEFINE a == A("index", "sio", i, {}, {})
              b == A("out", "sio", i, Byte, BitsOf(d))
  <1>1. a \in AccessType /\ b \in AccessType
    BY AccessTyped DEF Dos, Places, OfByte
  <1>2. wbsio_write(i, d) = <<a>> \o <<b>>
    BY DEF wbsio_write, Index, Out, Access, A
  <1>. HIDE DEF a, b
  <1>3. <<a>> \in Seq(AccessType) /\ <<b>> \in Seq(AccessType)
    BY <1>1
  <1>. QED  BY <1>2, <1>3, Joined DEF a, b

LEMMA EnterSteps ==
  /\ w836xx_ext_enter \in Seq(AccessType) /\ Len(w836xx_ext_enter) = 2
  /\ w836xx_ext_enter[1] = A("key", "sio", 0, {}, {}) /\ w836xx_ext_enter[2] = A("key", "sio", 0, {}, {})
  /\ w836xx_ext_leave \in Seq(AccessType) /\ Len(w836xx_ext_leave) = 1
  /\ w836xx_ext_leave[1] = A("leave", "sio", 0, {}, {})
  <1>1. A("key", "sio", 0, {}, {}) \in AccessType /\ A("leave", "sio", 0, {}, {}) \in AccessType
    BY AccessTyped DEF Dos, Places
  <1>. QED  BY <1>1 DEF w836xx_ext_enter, w836xx_ext_leave, Access, A

\* u is s with what t does behind it.
Appends(u, s, t) ==
  /\ u \in Seq(AccessType) /\ Len(u) = Len(s) + Len(t)
  /\ \A k \in 1 .. Len(s) : u[k] = s[k]
  /\ Len(t) >= 1 => u[Len(s) + 1] = t[1]
  /\ Len(t) >= 2 => u[Len(s) + 2] = t[2]
  /\ Len(t) >= 3 => u[Len(s) + 3] = t[3]

LEMMA Appended ==
  ASSUME NEW s \in Seq(AccessType), NEW t \in Seq(AccessType)
  PROVE  Appends(s \o t, s, t)
  <1>1. Len(t) \in Nat
    OBVIOUS
  <1>2. \A i \in 1 .. Len(t) : (s \o t)[Len(s) + i] = t[i]
    BY Joined
  <1>3. Len(t) >= 1 => (s \o t)[Len(s) + 1] = t[1]
    BY <1>1, <1>2
  <1>4. Len(t) >= 2 => (s \o t)[Len(s) + 2] = t[2]
    BY <1>1, <1>2
  <1>5. Len(t) >= 3 => (s \o t)[Len(s) + 3] = t[3]
    BY <1>1, <1>2
  <1>. QED  BY <1>3, <1>4, <1>5, Joined DEF Appends

\* The masks of the gpio24 routine
LEMMA MaskBits ==
  /\ Masked(0, 16) = {} /\ Masked(1, 1) = {0} /\ Masked(16, 16) = {4} /\ Masked(8, 8) = {3}
  /\ OfByte(1) /\ OfByte(16) /\ OfByte(8)
  BY BitValues DEF Byte, OfByte, Masked

\* The accesses of the routines
LEMMA GpioSteps ==
  LET D == w83627hf_gpio24_raise IN
  /\ D \in Seq(AccessType) /\ Len(D) = 23
  /\ D[1] = A("key", "sio", 0, {}, {}) /\ D[2] = A("key", "sio", 0, {}, {})
  /\ D[3] = A("index", "sio", \h20, {}, {}) /\ D[4] = A("in", "sio", \h20, {}, {})
  /\ D[5] = A("is", "sio", \h20, {}, {1, 4, 6})
  /\ D[6] = A("index", "sio", \h2b, {}, {}) /\ D[7] = A("in", "sio", \h2b, {}, {})
  /\ D[8] = A("out", "sio", \h2b, {4}, {4})
  /\ D[9] = A("index", "sio", \h07, {}, {}) /\ D[10] = A("out", "sio", \h07, Byte, {3})
  /\ D[11] = A("index", "sio", \h30, {}, {}) /\ D[12] = A("in", "sio", \h30, {}, {})
  /\ D[13] = A("out", "sio", \h30, {0}, {0})
  /\ D[14] = A("index", "sio", \hf0, {}, {}) /\ D[15] = A("in", "sio", \hf0, {}, {})
  /\ D[16] = A("out", "sio", \hf0, {4}, {})
  /\ D[17] = A("index", "sio", \hf2, {}, {}) /\ D[18] = A("in", "sio", \hf2, {}, {})
  /\ D[19] = A("out", "sio", \hf2, {4}, {})
  /\ D[20] = A("index", "sio", \hf1, {}, {}) /\ D[21] = A("in", "sio", \hf1, {}, {})
  /\ D[22] = A("out", "sio", \hf1, {4}, {4})
  /\ D[23] = A("leave", "sio", 0, {}, {})
  <1>. DEFINE test == A("is", "sio", \h20, {}, {1, 4, 6})
              F1 == w836xx_ext_enter
              F2 == wbsio_read(\h20)
              F3 == <<test>>
              F4 == wbsio_mask(\h2b, \h10, \h10)
              F5 == wbsio_write(\h07, \h08)
              F6 == wbsio_mask(\h30, \h01, \h01)
              F7 == wbsio_mask(\hf0, \h00, \h10)
              F8 == wbsio_mask(\hf2, \h00, \h10)
              F9 == wbsio_mask(\hf1, \h10, \h10)
              F10 == w836xx_ext_leave
              P2 == F1 \o F2
              P3 == P2 \o F3
              P4 == P3 \o F4
              P5 == P4 \o F5
              P6 == P5 \o F6
              P7 == P6 \o F7
              P8 == P7 \o F8
              P9 == P8 \o F9
              P10 == P9 \o F10
  <1>1. [Access("is", "sio", \h20) EXCEPT !.set = BitsOf(\h52)] = test
    BY BitValues DEF Access, A
  <1>2. w83627hf_gpio24_raise = P10
    BY <1>1 DEF w83627hf_gpio24_raise
  <1>3. OfByte(1) /\ OfByte(16) /\ OfByte(8)
    BY MaskBits
  <1>11. F1 \in Seq(AccessType) /\ Len(F1) = 2
         /\ F1[1] = A("key", "sio", 0, {}, {})
         /\ F1[2] = A("key", "sio", 0, {}, {})
    BY EnterSteps
  <1>12. F2 \in Seq(AccessType) /\ Len(F2) = 2
         /\ F2[1] = A("index", "sio", \h20, {}, {})
         /\ F2[2] = A("in", "sio", \h20, {}, {})
    BY ReadSteps
  <1>13. F3 \in Seq(AccessType) /\ Len(F3) = 1
         /\ F3[1] = test
    BY AccessTyped DEF Dos, Places, Byte
  <1>14. F4 \in Seq(AccessType) /\ Len(F4) = 3
         /\ F4[1] = A("index", "sio", \h2b, {}, {})
         /\ F4[2] = A("in", "sio", \h2b, {}, {})
         /\ F4[3] = A("out", "sio", \h2b, {4}, {4})
    <2>1. F4 \in Seq(AccessType) /\ Len(F4) = 3
          /\ F4[1] = A("index", "sio", \h2b, {}, {}) /\ F4[2] = A("in", "sio", \h2b, {}, {})
          /\ F4[3] = A("out", "sio", \h2b, BitsOf(16), Masked(16, 16))
      BY <1>3, MaskSteps
    <2>. QED  BY <2>1, BitValues, MaskBits
  <1>15. F5 \in Seq(AccessType) /\ Len(F5) = 2
         /\ F5[1] = A("index", "sio", \h07, {}, {})
         /\ F5[2] = A("out", "sio", \h07, Byte, {3})
    <2>1. F5 \in Seq(AccessType) /\ Len(F5) = 2
          /\ F5[1] = A("index", "sio", \h07, {}, {}) /\ F5[2] = A("out", "sio", \h07, Byte, BitsOf(8))
      BY <1>3, WriteSteps
    <2>. QED  BY <2>1, BitValues
  <1>16. F6 \in Seq(AccessType) /\ Len(F6) = 3
         /\ F6[1] = A("index", "sio", \h30, {}, {})
         /\ F6[2] = A("in", "sio", \h30, {}, {})
         /\ F6[3] = A("out", "sio", \h30, {0}, {0})
    <2>1. F6 \in Seq(AccessType) /\ Len(F6) = 3
          /\ F6[1] = A("index", "sio", \h30, {}, {}) /\ F6[2] = A("in", "sio", \h30, {}, {})
          /\ F6[3] = A("out", "sio", \h30, BitsOf(1), Masked(1, 1))
      BY <1>3, MaskSteps
    <2>. QED  BY <2>1, BitValues, MaskBits
  <1>17. F7 \in Seq(AccessType) /\ Len(F7) = 3
         /\ F7[1] = A("index", "sio", \hf0, {}, {})
         /\ F7[2] = A("in", "sio", \hf0, {}, {})
         /\ F7[3] = A("out", "sio", \hf0, {4}, {})
    <2>1. F7 \in Seq(AccessType) /\ Len(F7) = 3
          /\ F7[1] = A("index", "sio", \hf0, {}, {}) /\ F7[2] = A("in", "sio", \hf0, {}, {})
          /\ F7[3] = A("out", "sio", \hf0, BitsOf(16), Masked(0, 16))
      BY <1>3, MaskSteps
    <2>. QED  BY <2>1, BitValues, MaskBits
  <1>18. F8 \in Seq(AccessType) /\ Len(F8) = 3
         /\ F8[1] = A("index", "sio", \hf2, {}, {})
         /\ F8[2] = A("in", "sio", \hf2, {}, {})
         /\ F8[3] = A("out", "sio", \hf2, {4}, {})
    <2>1. F8 \in Seq(AccessType) /\ Len(F8) = 3
          /\ F8[1] = A("index", "sio", \hf2, {}, {}) /\ F8[2] = A("in", "sio", \hf2, {}, {})
          /\ F8[3] = A("out", "sio", \hf2, BitsOf(16), Masked(0, 16))
      BY <1>3, MaskSteps
    <2>. QED  BY <2>1, BitValues, MaskBits
  <1>19. F9 \in Seq(AccessType) /\ Len(F9) = 3
         /\ F9[1] = A("index", "sio", \hf1, {}, {})
         /\ F9[2] = A("in", "sio", \hf1, {}, {})
         /\ F9[3] = A("out", "sio", \hf1, {4}, {4})
    <2>1. F9 \in Seq(AccessType) /\ Len(F9) = 3
          /\ F9[1] = A("index", "sio", \hf1, {}, {}) /\ F9[2] = A("in", "sio", \hf1, {}, {})
          /\ F9[3] = A("out", "sio", \hf1, BitsOf(16), Masked(16, 16))
      BY <1>3, MaskSteps
    <2>. QED  BY <2>1, BitValues, MaskBits
  <1>20. F10 \in Seq(AccessType) /\ Len(F10) = 1
         /\ F10[1] = A("leave", "sio", 0, {}, {})
    BY EnterSteps
  <1>. HIDE DEF test, F1, F2, F3, F4, F5, F6, F7, F8, F9, F10
  <1>21. P2 \in Seq(AccessType) /\ Len(P2) = 4 /\ \A k \in 1 .. 2 : P2[k] = F1[k]
         /\ P2[3] = F2[1] /\ P2[4] = F2[2]
    <2>1. Appends(P2, F1, F2)
      BY <1>12, <1>11, Appended
    <2>. HIDE DEF P2
    <2>. QED  BY <1>12, <1>11, <2>1 DEF Appends
  <1>. HIDE DEF P2
  <1>22. P3 \in Seq(AccessType) /\ Len(P3) = 5 /\ \A k \in 1 .. 4 : P3[k] = P2[k]
         /\ P3[5] = F3[1]
    <2>1. Appends(P3, P2, F3)
      BY <1>13, <1>21, Appended
    <2>. HIDE DEF P3
    <2>. QED  BY <1>13, <1>21, <2>1 DEF Appends
  <1>. HIDE DEF P3
  <1>23. P4 \in Seq(AccessType) /\ Len(P4) = 8 /\ \A k \in 1 .. 5 : P4[k] = P3[k]
         /\ P4[6] = F4[1] /\ P4[7] = F4[2] /\ P4[8] = F4[3]
    <2>1. Appends(P4, P3, F4)
      BY <1>14, <1>22, Appended
    <2>. HIDE DEF P4
    <2>. QED  BY <1>14, <1>22, <2>1 DEF Appends
  <1>. HIDE DEF P4
  <1>24. P5 \in Seq(AccessType) /\ Len(P5) = 10 /\ \A k \in 1 .. 8 : P5[k] = P4[k]
         /\ P5[9] = F5[1] /\ P5[10] = F5[2]
    <2>1. Appends(P5, P4, F5)
      BY <1>15, <1>23, Appended
    <2>. HIDE DEF P5
    <2>. QED  BY <1>15, <1>23, <2>1 DEF Appends
  <1>. HIDE DEF P5
  <1>25. P6 \in Seq(AccessType) /\ Len(P6) = 13 /\ \A k \in 1 .. 10 : P6[k] = P5[k]
         /\ P6[11] = F6[1] /\ P6[12] = F6[2] /\ P6[13] = F6[3]
    <2>1. Appends(P6, P5, F6)
      BY <1>16, <1>24, Appended
    <2>. HIDE DEF P6
    <2>. QED  BY <1>16, <1>24, <2>1 DEF Appends
  <1>. HIDE DEF P6
  <1>26. P7 \in Seq(AccessType) /\ Len(P7) = 16 /\ \A k \in 1 .. 13 : P7[k] = P6[k]
         /\ P7[14] = F7[1] /\ P7[15] = F7[2] /\ P7[16] = F7[3]
    <2>1. Appends(P7, P6, F7)
      BY <1>17, <1>25, Appended
    <2>. HIDE DEF P7
    <2>. QED  BY <1>17, <1>25, <2>1 DEF Appends
  <1>. HIDE DEF P7
  <1>27. P8 \in Seq(AccessType) /\ Len(P8) = 19 /\ \A k \in 1 .. 16 : P8[k] = P7[k]
         /\ P8[17] = F8[1] /\ P8[18] = F8[2] /\ P8[19] = F8[3]
    <2>1. Appends(P8, P7, F8)
      BY <1>18, <1>26, Appended
    <2>. HIDE DEF P8
    <2>. QED  BY <1>18, <1>26, <2>1 DEF Appends
  <1>. HIDE DEF P8
  <1>28. P9 \in Seq(AccessType) /\ Len(P9) = 22 /\ \A k \in 1 .. 19 : P9[k] = P8[k]
         /\ P9[20] = F9[1] /\ P9[21] = F9[2] /\ P9[22] = F9[3]
    <2>1. Appends(P9, P8, F9)
      BY <1>19, <1>27, Appended
    <2>. HIDE DEF P9
    <2>. QED  BY <1>19, <1>27, <2>1 DEF Appends
  <1>. HIDE DEF P9
  <1>29. P10 \in Seq(AccessType) /\ Len(P10) = 23 /\ \A k \in 1 .. 22 : P10[k] = P9[k]
         /\ P10[23] = F10[1]
    <2>1. Appends(P10, P9, F10)
      BY <1>20, <1>28, Appended
    <2>. HIDE DEF P10
    <2>. QED  BY <1>20, <1>28, <2>1 DEF Appends
  <1>. HIDE DEF P10
  <1>. QED
    BY <1>2, <1>11, <1>12, <1>13, <1>14, <1>15, <1>16, <1>17, <1>18, <1>19, <1>20, <1>21, <1>22, <1>23, <1>24, <1>25, <1>26, <1>27, <1>28, <1>29 DEF test

LEMMA EpiaSteps ==
  LET D == board_via_epia_m IN
  /\ D \in Seq(AccessType) /\ Len(D) = 4
  /\ D[1] = A("in", "pci", \he4, {}, {})
  /\ D[2] = A("out", "pci", \he4, {}, {4})
  /\ D[3] = A("in", "port", \h4d, {}, {})
  /\ D[4] = A("out", "port", \h4d, {}, {7})
  <1>. DEFINE a == A("in", "pci", \he4, {}, {})
              b == A("out", "pci", \he4, {}, {4})
              c == A("in", "port", \h4d, {}, {})
              d == A("out", "port", \h4d, {}, {7})
  <1>1. a \in AccessType /\ b \in AccessType /\ c \in AccessType /\ d \in AccessType
    BY AccessTyped DEF Dos, Places, Byte
  <1>2. board_via_epia_m = (<<a>> \o <<b>>) \o (<<c>> \o <<d>>)
    BY BitValues DEF board_via_epia_m, SetBits, In, Out, Access, A
  <1>. HIDE DEF a, b, c, d
  <1>3. /\ <<a>> \in Seq(AccessType) /\ <<b>> \in Seq(AccessType)
        /\ <<c>> \in Seq(AccessType) /\ <<d>> \in Seq(AccessType)
    BY <1>1
  <1>. DEFINE s == <<a>> \o <<b>>
              t == <<c>> \o <<d>>
  <1>4. s \in Seq(AccessType) /\ Len(s) = 2 /\ s[1] = a /\ s[2] = b
    BY <1>3, Joined
  <1>5. t \in Seq(AccessType) /\ Len(t) = 2 /\ t[1] = c /\ t[2] = d
    BY <1>3, Joined
  <1>. HIDE DEF s, t
  <1>6. Appends(s \o t, s, t)
    BY <1>4, <1>5, Appended
  <1>7. board_via_epia_m = s \o t
    BY <1>2 DEF s, t
  <1>8. /\ board_via_epia_m \in Seq(AccessType) /\ Len(board_via_epia_m) = 4
        /\ board_via_epia_m[1] = a /\ board_via_epia_m[2] = b
        /\ board_via_epia_m[3] = c /\ board_via_epia_m[4] = d
    BY <1>4, <1>5, <1>6, <1>7 DEF Appends
  <1>. QED  BY <1>8 DEF a, b, c, d

LEMMA EpoxSteps ==
  LET D == board_epox_ep_bx3 IN
  /\ D \in Seq(AccessType) /\ Len(D) = 2
  /\ D[1] = A("in", "port", \h36, {}, {})
  /\ D[2] = A("out", "port", \h36, {}, {6})
  <1>. DEFINE a == A("in", "port", \h36, {}, {})
              b == A("out", "port", \h36, {}, {6})
  <1>1. a \in AccessType /\ b \in AccessType
    BY AccessTyped DEF Dos, Places, Byte
  <1>2. board_epox_ep_bx3 = <<a>> \o <<b>>
    BY BitValues DEF board_epox_ep_bx3, SetBits, In, Out, Access, A
  <1>. HIDE DEF a, b
  <1>3. <<a>> \in Seq(AccessType) /\ <<b>> \in Seq(AccessType)
    BY <1>1
  <1>. QED  BY <1>2, <1>3, Joined DEF a, b

LEMMA IbmSteps ==
  LET D == board_ibm_x3455 IN
  /\ D \in Seq(AccessType) /\ Len(D) = 3
  /\ D[1] = A("index", "gpio", \h45, {}, {})
  /\ D[2] = A("in", "gpio", \h45, {}, {})
  /\ D[3] = A("out", "gpio", \h45, {}, {5})
  <1>. DEFINE a == A("index", "gpio", \h45, {}, {})
              b == A("in", "gpio", \h45, {}, {})
              c == A("out", "gpio", \h45, {}, {5})
  <1>1. a \in AccessType /\ b \in AccessType /\ c \in AccessType
    BY AccessTyped DEF Dos, Places, Byte
  <1>2. board_ibm_x3455 = <<a>> \o (<<b>> \o <<c>>)
    BY BitValues DEF board_ibm_x3455, SetBits, Index, In, Out, Access, A
  <1>. HIDE DEF a, b, c
  <1>3. <<a>> \in Seq(AccessType) /\ <<b>> \in Seq(AccessType) /\ <<c>> \in Seq(AccessType)
    BY <1>1
  <1>. DEFINE t == <<b>> \o <<c>>
  <1>4. t \in Seq(AccessType) /\ Len(t) = 2 /\ t[1] = b /\ t[2] = c
    BY <1>3, Joined
  <1>. HIDE DEF t
  <1>5. Appends(<<a>> \o t, <<a>>, t)
    BY <1>3, <1>4, Appended
  <1>6. board_ibm_x3455 = <<a>> \o t
    BY <1>2 DEF t
  <1>7. /\ board_ibm_x3455 \in Seq(AccessType) /\ Len(board_ibm_x3455) = 3
        /\ board_ibm_x3455[1] = a /\ board_ibm_x3455[2] = b /\ board_ibm_x3455[3] = c
    BY <1>4, <1>5, <1>6 DEF Appends
  <1>. QED  BY <1>7 DEF a, b, c

LEMMA AsusSteps ==
  LET D == board_asus_a7v8x_mx IN
  /\ D \in Seq(AccessType) /\ Len(D) = 11
  /\ D[1] = A("in", "pci", \h59, {}, {})
  /\ D[2] = A("out", "pci", \h59, {7}, {})
  /\ D[3] = A("key", "sio", 0, {}, {})
  /\ D[4] = A("key", "sio", 0, {}, {})
  /\ D[5] = A("index", "sio", \h24, {}, {})
  /\ D[6] = A("in", "sio", \h24, {}, {})
  /\ D[7] = A("skip", "sio", \h24, {}, {1})
  /\ D[8] = A("index", "sio", \h24, {}, {})
  /\ D[9] = A("in", "sio", \h24, {}, {})
  /\ D[10] = A("out", "sio", \h24, {3}, {3})
  /\ D[11] = A("leave", "sio", 0, {}, {})
  <1>. DEFINE F1 == <<A("in", "pci", \h59, {}, {})>>
              F2 == <<A("out", "pci", \h59, {7}, {})>>
              F3 == w836xx_ext_enter
              F4 == wbsio_read(\h24)
              F5 == <<A("skip", "sio", \h24, {}, {1})>>
              F6 == wbsio_mask(\h24, \h08, \h08)
              F7 == w836xx_ext_leave
              P2 == F1 \o F2
              P3 == P2 \o F3
              P4 == P3 \o F4
              P5 == P4 \o F5
              P6 == P5 \o F6
              P7 == P6 \o F7
  <1>3. [Access("skip", "sio", \h24) EXCEPT !.set = BitsOf(\h02)] = A("skip", "sio", \h24, {}, {1})
    BY BitValues DEF Access, A
  <1>4. In("pci", \h59) = F1 /\ Out("pci", \h59, BitsOf(\h80), {}) = F2
    BY BitValues DEF In, Out, Access, A
  <1>1. board_asus_a7v8x_mx = P7
    BY <1>3, <1>4 DEF board_asus_a7v8x_mx
  <1>2. OfByte(8)
    BY MaskBits
  <1>11. F1 \in Seq(AccessType) /\ Len(F1) = 1
         /\ F1[1] = A("in", "pci", \h59, {}, {})
    BY AccessTyped DEF Dos, Places, Byte
  <1>12. F2 \in Seq(AccessType) /\ Len(F2) = 1
         /\ F2[1] = A("out", "pci", \h59, {7}, {})
    BY AccessTyped DEF Dos, Places, Byte
  <1>13. F3 \in Seq(AccessType) /\ Len(F3) = 2
         /\ F3[1] = A("key", "sio", 0, {}, {})
         /\ F3[2] = A("key", "sio", 0, {}, {})
    BY EnterSteps
  <1>14. F4 \in Seq(AccessType) /\ Len(F4) = 2
         /\ F4[1] = A("index", "sio", \h24, {}, {})
         /\ F4[2] = A("in", "sio", \h24, {}, {})
    BY ReadSteps
  <1>15. F5 \in Seq(AccessType) /\ Len(F5) = 1
         /\ F5[1] = A("skip", "sio", \h24, {}, {1})
    BY AccessTyped DEF Dos, Places, Byte
  <1>16. F6 \in Seq(AccessType) /\ Len(F6) = 3
         /\ F6[1] = A("index", "sio", \h24, {}, {})
         /\ F6[2] = A("in", "sio", \h24, {}, {})
         /\ F6[3] = A("out", "sio", \h24, {3}, {3})
    <2>1. F6 \in Seq(AccessType) /\ Len(F6) = 3
          /\ F6[1] = A("index", "sio", \h24, {}, {}) /\ F6[2] = A("in", "sio", \h24, {}, {})
          /\ F6[3] = A("out", "sio", \h24, BitsOf(8), Masked(8, 8))
      BY <1>2, MaskSteps
    <2>. QED  BY <2>1, BitValues, MaskBits
  <1>17. F7 \in Seq(AccessType) /\ Len(F7) = 1
         /\ F7[1] = A("leave", "sio", 0, {}, {})
    BY EnterSteps
  <1>. HIDE DEF F1, F2, F3, F4, F5, F6, F7
  <1>21. P2 \in Seq(AccessType) /\ Len(P2) = 2 /\ (\A k \in 1 .. 1 : P2[k] = F1[k])
         /\ P2[2] = F2[1]
    <2>1. Appends(P2, F1, F2)
      BY <1>12, <1>11, Appended
    <2>. HIDE DEF P2
    <2>. QED  BY <1>12, <1>11, <2>1 DEF Appends
  <1>. HIDE DEF P2
  <1>22. P3 \in Seq(AccessType) /\ Len(P3) = 4 /\ (\A k \in 1 .. 2 : P3[k] = P2[k])
         /\ P3[3] = F3[1] /\ P3[4] = F3[2]
    <2>1. Appends(P3, P2, F3)
      BY <1>13, <1>21, Appended
    <2>. HIDE DEF P3
    <2>. QED  BY <1>13, <1>21, <2>1 DEF Appends
  <1>. HIDE DEF P3
  <1>23. P4 \in Seq(AccessType) /\ Len(P4) = 6 /\ (\A k \in 1 .. 4 : P4[k] = P3[k])
         /\ P4[5] = F4[1] /\ P4[6] = F4[2]
    <2>1. Appends(P4, P3, F4)
      BY <1>14, <1>22, Appended
    <2>. HIDE DEF P4
    <2>. QED  BY <1>14, <1>22, <2>1 DEF Appends
  <1>. HIDE DEF P4
  <1>24. P5 \in Seq(AccessType) /\ Len(P5) = 7 /\ (\A k \in 1 .. 6 : P5[k] = P4[k])
         /\ P5[7] = F5[1]
    <2>1. Appends(P5, P4, F5)
      BY <1>15, <1>23, Appended
    <2>. HIDE DEF P5
    <2>. QED  BY <1>15, <1>23, <2>1 DEF Appends
  <1>. HIDE DEF P5
  <1>25. P6 \in Seq(AccessType) /\ Len(P6) = 10 /\ (\A k \in 1 .. 7 : P6[k] = P5[k])
         /\ P6[8] = F6[1] /\ P6[9] = F6[2] /\ P6[10] = F6[3]
    <2>1. Appends(P6, P5, F6)
      BY <1>16, <1>24, Appended
    <2>. HIDE DEF P6
    <2>. QED  BY <1>16, <1>24, <2>1 DEF Appends
  <1>. HIDE DEF P6
  <1>26. P7 \in Seq(AccessType) /\ Len(P7) = 11 /\ (\A k \in 1 .. 10 : P7[k] = P6[k])
         /\ P7[11] = F7[1]
    <2>1. Appends(P7, P6, F7)
      BY <1>17, <1>25, Appended
    <2>. HIDE DEF P7
    <2>. QED  BY <1>17, <1>25, <2>1 DEF Appends
  <1>. HIDE DEF P7
  <1>. QED
    BY <1>1, <1>11, <1>12, <1>13, <1>14, <1>15, <1>16, <1>17, <1>21, <1>22, <1>23, <1>24, <1>25, <1>26

LEMMA P5aSteps ==
  LET D == board_asus_p5a IN
  /\ D \in Seq(AccessType) /\ Len(D) = 5
  /\ D[1] = A("poll", "smbus", 0, {}, {})
  /\ D[2] = A("poll", "smbus", 0, {}, {})
  /\ D[3] = A("in", "smbus", 0, {}, {})
  /\ D[4] = A("out", "smbus", 0, {1}, {})
  /\ D[5] = A("poll", "smbus", 0, {}, {})
  <1>. DEFINE F1 == <<A("poll", "smbus", 0, {}, {})>>
              F2 == <<A("poll", "smbus", 0, {}, {})>>
              F3 == <<A("in", "smbus", 0, {}, {})>>
              F4 == <<A("out", "smbus", 0, {1}, {})>>
              F5 == <<A("poll", "smbus", 0, {}, {})>>
              P2 == F1 \o F2
              P3 == P2 \o F3
              P4 == P3 \o F4
              P5 == P4 \o F5
  <1>1. board_asus_p5a = P5
    BY BitValues DEF board_asus_p5a, Poll, In, Out, Access, A
  <1>11. F1 \in Seq(AccessType) /\ Len(F1) = 1
         /\ F1[1] = A("poll", "smbus", 0, {}, {})
    BY AccessTyped DEF Dos, Places, Byte
  <1>12. F2 \in Seq(AccessType) /\ Len(F2) = 1
         /\ F2[1] = A("poll", "smbus", 0, {}, {})
    BY AccessTyped DEF Dos, Places, Byte
  <1>13. F3 \in Seq(AccessType) /\ Len(F3) = 1
         /\ F3[1] = A("in", "smbus", 0, {}, {})
    BY AccessTyped DEF Dos, Places, Byte
  <1>14. F4 \in Seq(AccessType) /\ Len(F4) = 1
         /\ F4[1] = A("out", "smbus", 0, {1}, {})
    BY AccessTyped DEF Dos, Places, Byte
  <1>15. F5 \in Seq(AccessType) /\ Len(F5) = 1
         /\ F5[1] = A("poll", "smbus", 0, {}, {})
    BY AccessTyped DEF Dos, Places, Byte
  <1>. HIDE DEF F1, F2, F3, F4, F5
  <1>21. P2 \in Seq(AccessType) /\ Len(P2) = 2 /\ (\A k \in 1 .. 1 : P2[k] = F1[k])
         /\ P2[2] = F2[1]
    <2>1. Appends(P2, F1, F2)
      BY <1>12, <1>11, Appended
    <2>. HIDE DEF P2
    <2>. QED  BY <1>12, <1>11, <2>1 DEF Appends
  <1>. HIDE DEF P2
  <1>22. P3 \in Seq(AccessType) /\ Len(P3) = 3 /\ (\A k \in 1 .. 2 : P3[k] = P2[k])
         /\ P3[3] = F3[1]
    <2>1. Appends(P3, P2, F3)
      BY <1>13, <1>21, Appended
    <2>. HIDE DEF P3
    <2>. QED  BY <1>13, <1>21, <2>1 DEF Appends
  <1>. HIDE DEF P3
  <1>23. P4 \in Seq(AccessType) /\ Len(P4) = 4 /\ (\A k \in 1 .. 3 : P4[k] = P3[k])
         /\ P4[4] = F4[1]
    <2>1. Appends(P4, P3, F4)
      BY <1>14, <1>22, Appended
    <2>. HIDE DEF P4
    <2>. QED  BY <1>14, <1>22, <2>1 DEF Appends
  <1>. HIDE DEF P4
  <1>24. P5 \in Seq(AccessType) /\ Len(P5) = 5 /\ (\A k \in 1 .. 4 : P5[k] = P4[k])
         /\ P5[5] = F5[1]
    <2>1. Appends(P5, P4, F5)
      BY <1>15, <1>23, Appended
    <2>. HIDE DEF P5
    <2>. QED  BY <1>15, <1>23, <2>1 DEF Appends
  <1>. HIDE DEF P5
  <1>. QED
    BY <1>1, <1>11, <1>12, <1>13, <1>14, <1>15, <1>21, <1>22, <1>23, <1>24

-----------------------------------------------------------------------------
(***************************************************************************)
(* What the proofs need to know of a routine D whose second key, if it has *)
(* one, is access K: every access finds what it relies on right in front.  *)
(***************************************************************************)
Selects(a) == a.do = "out" /\ a.place = "sio" /\ a.reg = 7
Changes(a) == a.do = "out" /\ ~Selects(a)
Target(a)  == IF a.place = "sio" THEN SioReg(8, a.reg) ELSE <<a.place, 0, a.reg>>

\* An access that raises bit b of what it writes, or lowers it, and no other
RaisesBit(a, b) == (a.clear = {} \/ a.clear = {b}) /\ a.set = {b}
LowersBit(a, b) == a.clear = {b} /\ a.set = {}

Behind(D, k, do) ==
  /\ k > 1 /\ D[k-1].do = do
  /\ D[k-1].place = D[k].place /\ D[k-1].reg = D[k].reg

BracketedAt(D, K, k) ==
  /\ D[k].do = "key" <=> k \in {K - 1, K}
  /\ D[k].place = "sio" /\ D[k].do # "key" => K > 0 /\ k > K
  /\ D[k].do = "leave" => k = Len(D)
  /\ K > 0 => D[k].do # "poll" /\ D[k].place # "gpio"

FollowsAt(D, k) ==
  /\ D[k].do = "index" => D[k].place \in {"sio", "gpio"}
  /\ D[k].do = "in" /\ D[k].place \in {"sio", "gpio"} => Behind(D, k, "index")
  /\ D[k].do = "in" => /\ Target(D[k]) \in BoardRegisters
                       /\ ~(D[k].place = "sio" /\ D[k].reg = 7)
  /\ Selects(D[k]) => Behind(D, k, "index") /\ D[k].set = BitsOf(8)
  /\ Changes(D[k]) => Behind(D, k, "in")
  /\ D[k].do \in {"is", "skip"} => Behind(D, k, "in") /\ D[k].place = "sio"
  /\ D[k].do = "is" => D[k].set # Byte

SelectedAt(D, k) ==
  D[k].do = "in" /\ D[k].place = "sio" /\ D[k].reg >= \h30 => \E j \in 1 .. k - 1 : Selects(D[j])

Distinct(D) ==
  \A j, k \in 1 .. Len(D) :
    /\ Changes(D[j]) /\ Changes(D[k]) /\ Target(D[j]) = Target(D[k]) => j = k
    /\ Changes(D[j]) /\ D[k].do \in {"is", "skip"} /\ j < k => Target(D[j]) # Target(D[k])

WellMade(D, K) ==
  /\ D \in Seq(AccessType) /\ Len(D) \in Nat /\ Len(D) > 1
  /\ K \in Nat /\ K # 1 /\ K < Len(D)
  /\ K > 0 => D[Len(D)].do = "leave" /\ D[Len(D)-1].do = "out"
  /\ \A k \in 1 .. Len(D) : BracketedAt(D, K, k) /\ FollowsAt(D, k) /\ SelectedAt(D, k)
  /\ Distinct(D)

\* The registers of the table
LEMMA RegistersOfBoards ==
  /\ \A i \in {\h20, \h24, \h2b} : SioReg(8, i) = <<"sio", -1, i>> /\ SioReg(8, i) \in BoardRegisters
  /\ \A i \in {\h30, \hf0, \hf1, \hf2} : SioReg(8, i) = <<"sio", 8, i>> /\ SioReg(8, i) \in BoardRegisters
  /\ <<"gpio", 0, \h45>> \in BoardRegisters
  /\ <<"pci", 0, \h59>> \in BoardRegisters /\ <<"pci", 0, \he4>> \in BoardRegisters
  /\ <<"port", 0, \h4d>> \in BoardRegisters /\ <<"port", 0, \h36>> \in BoardRegisters
  /\ <<"smbus", 0, 0>> \in BoardRegisters
  BY DEF SioReg, BoardRegisters

\* Every routine is well made; what its accesses change, and what it tests.
LEMMA GpioWellMade ==
  LET D == w83627hf_gpio24_raise IN
  /\ WellMade(D, 2) /\ Len(D) = 23
  /\ \A j \in 1 .. 23 : Changes(D[j]) <=> j \in {8, 13, 16, 19, 22}
  /\ Target(D[8]) = <<"sio", -1, \h2b>> /\ RaisesBit(D[8], 4)
  /\ Target(D[13]) = <<"sio", 8, \h30>> /\ RaisesBit(D[13], 0)
  /\ Target(D[16]) = <<"sio", 8, \hf0>> /\ LowersBit(D[16], 4)
  /\ Target(D[19]) = <<"sio", 8, \hf2>> /\ LowersBit(D[19], 4)
  /\ Target(D[22]) = <<"sio", 8, \hf1>> /\ RaisesBit(D[22], 4)
  /\ \A k \in 1 .. 23 : D[k].do \in {"is", "skip"} => k = 5
  /\ D[5].do = "is" /\ Target(D[5]) = <<"sio", -1, \h20>> /\ D[5].set = {1, 4, 6}
  <1>. DEFINE D == w83627hf_gpio24_raise
  <1>1. D \in Seq(AccessType) /\ Len(D) = 23
    BY GpioSteps
  <1>2. /\ D[1].do = "key" /\ D[1].place = "sio" /\ D[1].reg = 0
        /\ D[2].do = "key" /\ D[2].place = "sio" /\ D[2].reg = 0
        /\ D[3].do = "index" /\ D[3].place = "sio" /\ D[3].reg = \h20
        /\ D[4].do = "in" /\ D[4].place = "sio" /\ D[4].reg = \h20
        /\ D[5].do = "is" /\ D[5].place = "sio" /\ D[5].reg = \h20 /\ D[5].set = {1, 4, 6}
        /\ D[6].do = "index" /\ D[6].place = "sio" /\ D[6].reg = \h2b
        /\ D[7].do = "in" /\ D[7].place = "sio" /\ D[7].reg = \h2b
        /\ D[8].do = "out" /\ D[8].place = "sio" /\ D[8].reg = \h2b
        /\ D[9].do = "index" /\ D[9].place = "sio" /\ D[9].reg = \h07
        /\ D[10].do = "out" /\ D[10].place = "sio" /\ D[10].reg = \h07 /\ D[10].set = {3}
        /\ D[11].do = "index" /\ D[11].place = "sio" /\ D[11].reg = \h30
        /\ D[12].do = "in" /\ D[12].place = "sio" /\ D[12].reg = \h30
        /\ D[13].do = "out" /\ D[13].place = "sio" /\ D[13].reg = \h30
        /\ D[14].do = "index" /\ D[14].place = "sio" /\ D[14].reg = \hf0
        /\ D[15].do = "in" /\ D[15].place = "sio" /\ D[15].reg = \hf0
        /\ D[16].do = "out" /\ D[16].place = "sio" /\ D[16].reg = \hf0
        /\ D[17].do = "index" /\ D[17].place = "sio" /\ D[17].reg = \hf2
        /\ D[18].do = "in" /\ D[18].place = "sio" /\ D[18].reg = \hf2
        /\ D[19].do = "out" /\ D[19].place = "sio" /\ D[19].reg = \hf2
        /\ D[20].do = "index" /\ D[20].place = "sio" /\ D[20].reg = \hf1
        /\ D[21].do = "in" /\ D[21].place = "sio" /\ D[21].reg = \hf1
        /\ D[22].do = "out" /\ D[22].place = "sio" /\ D[22].reg = \hf1
        /\ D[23].do = "leave" /\ D[23].place = "sio" /\ D[23].reg = 0
    BY GpioSteps DEF A
  <1>20. /\ D[8].clear = {4} /\ D[8].set = {4}
         /\ D[13].clear = {0} /\ D[13].set = {0}
         /\ D[16].clear = {4} /\ D[16].set = {}
         /\ D[19].clear = {4} /\ D[19].set = {}
         /\ D[22].clear = {4} /\ D[22].set = {4}
    BY GpioSteps DEF A
  <1>. HIDE DEF D
  <1>3. \A k \in 1 .. 23 : k \in {1, 2, 3, 4, 5, 6, 7, 8, 9, 10, 11, 12, 13, 14, 15, 16, 17, 18, 19, 20, 21, 22, 23}
    OBVIOUS
  <1>4. /\ Target(D[4]) = <<"sio", -1, \h20>>
        /\ Target(D[5]) = <<"sio", -1, \h20>>
        /\ Target(D[7]) = <<"sio", -1, \h2b>>
        /\ Target(D[8]) = <<"sio", -1, \h2b>>
        /\ Target(D[12]) = <<"sio", 8, \h30>>
        /\ Target(D[13]) = <<"sio", 8, \h30>>
        /\ Target(D[15]) = <<"sio", 8, \hf0>>
        /\ Target(D[16]) = <<"sio", 8, \hf0>>
        /\ Target(D[18]) = <<"sio", 8, \hf2>>
        /\ Target(D[19]) = <<"sio", 8, \hf2>>
        /\ Target(D[21]) = <<"sio", 8, \hf1>>
        /\ Target(D[22]) = <<"sio", 8, \hf1>>
    BY <1>2, RegistersOfBoards DEF Target
  <1>5. \A k \in 1 .. 23 : BracketedAt(D, 2, k)
    <2>1. \A k \in 1 .. 23 : D[k].do = "key" <=> k \in {1, 2}
      BY <1>2, <1>3
    <2>2. \A k \in 1 .. 23 : D[k].do = "leave" => k = 23
      BY <1>2, <1>3
    <2>3. \A k \in 1 .. 23 : D[k].do # "poll" /\ D[k].place = "sio"
      BY <1>2, <1>3
    <2>4. 2 - 1 = 1 /\ 2 > 0 /\ \A k \in 1 .. 23 : k \notin {1, 2} => k > 2
      OBVIOUS
    <2>. QED  BY <1>1, <2>1, <2>2, <2>3, <2>4 DEF BracketedAt
  <1>6. /\ Target(D[4]) \in BoardRegisters /\ Target(D[7]) \in BoardRegisters
        /\ Target(D[12]) \in BoardRegisters /\ Target(D[15]) \in BoardRegisters
        /\ Target(D[18]) \in BoardRegisters /\ Target(D[21]) \in BoardRegisters
    <2>1. Target(D[4]) \in BoardRegisters /\ Target(D[7]) \in BoardRegisters
      BY <1>4, RegistersOfBoards
    <2>2. Target(D[12]) \in BoardRegisters /\ Target(D[15]) \in BoardRegisters
      BY <1>4, RegistersOfBoards
    <2>3. Target(D[18]) \in BoardRegisters /\ Target(D[21]) \in BoardRegisters
      BY <1>4, RegistersOfBoards
    <2>. QED  BY <2>1, <2>2, <2>3
  <1>7. \A k \in 1 .. 23 : FollowsAt(D, k)
    <2>1. D[5].set # Byte /\ D[10].set = BitsOf(8)
      BY <1>2, BitValues DEF Byte
    <2>2. \A k \in {1, 2, 3, 4, 5, 6, 7, 8} : FollowsAt(D, k)
      BY <1>2, <1>6, <2>1 DEF FollowsAt, Behind, Selects, Changes
    <2>3. \A k \in {9, 10, 11, 12, 13, 14, 15, 16} : FollowsAt(D, k)
      BY <1>2, <1>6, <2>1 DEF FollowsAt, Behind, Selects, Changes
    <2>4. \A k \in {17, 18, 19, 20, 21, 22, 23} : FollowsAt(D, k)
      BY <1>2, <1>6 DEF FollowsAt, Behind, Selects, Changes
    <2>. QED  BY <1>3, <2>2, <2>3, <2>4
  <1>8. \A k \in 1 .. 23 : SelectedAt(D, k)
    <2>1. Selects(D[10])
      BY <1>2 DEF Selects
    <2>2. \A k \in 1 .. 23 : D[k].do = "in" /\ D[k].place = "sio" /\ D[k].reg >= \h30 => k > 10
      BY <1>2, <1>3
    <2>. QED  BY <2>1, <2>2 DEF SelectedAt
  <1>9. \A j \in 1 .. 23 : Changes(D[j]) <=> j \in {8, 13, 16, 19, 22}
    BY <1>2, <1>3 DEF Changes, Selects
  <1>10. \A k \in 1 .. 23 : D[k].do \in {"is", "skip"} => k = 5
    BY <1>2, <1>3
  <1>11. Distinct(D)
    <2>1. \A j, k \in {8, 13, 16, 19, 22} : Target(D[j]) = Target(D[k]) => j = k
      BY <1>4
    <2>2. \A j \in {8, 13, 16, 19, 22} : ~(j < 5)
      OBVIOUS
    <2>3. \A j, k \in 1 .. 23 : Changes(D[j]) /\ Changes(D[k]) /\ Target(D[j]) = Target(D[k]) => j = k
      BY <1>9, <2>1
    <2>4. \A j, k \in 1 .. 23 : ~(Changes(D[j]) /\ D[k].do \in {"is", "skip"} /\ j < k)
      BY <1>9, <1>10, <2>2
    <2>. QED  BY <1>1, <2>3, <2>4, Zenon DEF Distinct
  <1>12. WellMade(D, 2)
    BY <1>1, <1>2, <1>5, <1>7, <1>8, <1>11 DEF WellMade
  <1>. QED  BY <1>1, <1>2, <1>4, <1>9, <1>10, <1>12, <1>20 DEF D, RaisesBit, LowersBit

LEMMA AsusWellMade ==
  LET D == board_asus_a7v8x_mx IN
  /\ WellMade(D, 4) /\ Len(D) = 11
  /\ \A j \in 1 .. 11 : Changes(D[j]) <=> j \in {2, 10}
  /\ Target(D[2]) = <<"pci", 0, \h59>> /\ LowersBit(D[2], 7)
  /\ Target(D[10]) = <<"sio", -1, \h24>> /\ RaisesBit(D[10], 3)
  /\ \A k \in 1 .. 11 : D[k].do \in {"is", "skip"} => k = 7
  /\ D[7].do = "skip" /\ Target(D[7]) = <<"sio", -1, \h24>> /\ D[7].set = {1}
  <1>. DEFINE D == board_asus_a7v8x_mx
  <1>1. D \in Seq(AccessType) /\ Len(D) = 11
    BY AsusSteps
  <1>2. /\ D[1].do = "in" /\ D[1].place = "pci" /\ D[1].reg = \h59
        /\ D[2].do = "out" /\ D[2].place = "pci" /\ D[2].reg = \h59
        /\ D[3].do = "key" /\ D[3].place = "sio" /\ D[3].reg = 0
        /\ D[4].do = "key" /\ D[4].place = "sio" /\ D[4].reg = 0
        /\ D[5].do = "index" /\ D[5].place = "sio" /\ D[5].reg = \h24
        /\ D[6].do = "in" /\ D[6].place = "sio" /\ D[6].reg = \h24
        /\ D[7].do = "skip" /\ D[7].place = "sio" /\ D[7].reg = \h24
        /\ D[8].do = "index" /\ D[8].place = "sio" /\ D[8].reg = \h24
        /\ D[9].do = "in" /\ D[9].place = "sio" /\ D[9].reg = \h24
        /\ D[10].do = "out" /\ D[10].place = "sio" /\ D[10].reg = \h24
        /\ D[11].do = "leave" /\ D[11].place = "sio" /\ D[11].reg = 0
    BY AsusSteps DEF A
  <1>20. /\ D[2].clear = {7} /\ D[2].set = {}
         /\ D[10].clear = {3} /\ D[10].set = {3}
         /\ D[7].set = {1}
    BY AsusSteps DEF A
  <1>. HIDE DEF D
  <1>3. \A k \in 1 .. 11 : k \in {1, 2, 3, 4, 5, 6, 7, 8, 9, 10, 11}
    OBVIOUS
  <1>4. /\ Target(D[1]) = <<"pci", 0, \h59>>
        /\ Target(D[2]) = <<"pci", 0, \h59>>
        /\ Target(D[6]) = <<"sio", -1, \h24>>
        /\ Target(D[7]) = <<"sio", -1, \h24>>
        /\ Target(D[9]) = <<"sio", -1, \h24>>
        /\ Target(D[10]) = <<"sio", -1, \h24>>
    BY <1>2, RegistersOfBoards DEF Target
  <1>5. \A k \in 1 .. 11 : BracketedAt(D, 4, k)
    BY <1>1, <1>2, <1>3 DEF BracketedAt
  <1>6. /\ Target(D[1]) \in BoardRegisters
        /\ Target(D[6]) \in BoardRegisters
        /\ Target(D[9]) \in BoardRegisters
    BY <1>4, RegistersOfBoards
  <1>7. \A k \in 1 .. 11 : FollowsAt(D, k)
    BY <1>2, <1>3, <1>6, BitValues DEF FollowsAt, Behind, Selects, Changes, Byte
  <1>8. \A k \in 1 .. 11 : SelectedAt(D, k)
    BY <1>2, <1>3 DEF SelectedAt, Selects
  <1>9. \A j \in 1 .. 11 : Changes(D[j]) <=> j \in {2, 10}
    BY <1>2, <1>3 DEF Changes, Selects
  <1>10. \A k \in 1 .. 11 : D[k].do \in {"is", "skip"} => k = 7
    BY <1>2, <1>3
  <1>11. Distinct(D)
    BY <1>1, <1>4, <1>9, <1>10 DEF Distinct
  <1>12. WellMade(D, 4)
    BY <1>1, <1>2, <1>5, <1>7, <1>8, <1>11 DEF WellMade
  <1>. QED  BY <1>1, <1>2, <1>4, <1>9, <1>10, <1>12, <1>20 DEF D, RaisesBit, LowersBit

LEMMA EpiaWellMade ==
  LET D == board_via_epia_m IN
  /\ WellMade(D, 0) /\ Len(D) = 4
  /\ \A j \in 1 .. 4 : Changes(D[j]) <=> j \in {2, 4}
  /\ Target(D[2]) = <<"pci", 0, \he4>> /\ RaisesBit(D[2], 4)
  /\ Target(D[4]) = <<"port", 0, \h4d>> /\ RaisesBit(D[4], 7)
  /\ \A k \in 1 .. 4 : D[k].do \in {"is", "skip"} => FALSE
  /\ \A k \in 1 .. 4 : D[k].place # "gpio"
  <1>. DEFINE D == board_via_epia_m
  <1>1. D \in Seq(AccessType) /\ Len(D) = 4
    BY EpiaSteps
  <1>2. /\ D[1].do = "in" /\ D[1].place = "pci" /\ D[1].reg = \he4
        /\ D[2].do = "out" /\ D[2].place = "pci" /\ D[2].reg = \he4
        /\ D[3].do = "in" /\ D[3].place = "port" /\ D[3].reg = \h4d
        /\ D[4].do = "out" /\ D[4].place = "port" /\ D[4].reg = \h4d
    BY EpiaSteps DEF A
  <1>20. /\ D[2].clear = {} /\ D[2].set = {4}
         /\ D[4].clear = {} /\ D[4].set = {7}
    BY EpiaSteps DEF A
  <1>. HIDE DEF D
  <1>3. \A k \in 1 .. 4 : k \in {1, 2, 3, 4}
    OBVIOUS
  <1>4. /\ Target(D[1]) = <<"pci", 0, \he4>>
        /\ Target(D[2]) = <<"pci", 0, \he4>>
        /\ Target(D[3]) = <<"port", 0, \h4d>>
        /\ Target(D[4]) = <<"port", 0, \h4d>>
    BY <1>2, RegistersOfBoards DEF Target
  <1>5. \A k \in 1 .. 4 : BracketedAt(D, 0, k)
    BY <1>1, <1>2, <1>3 DEF BracketedAt
  <1>6. /\ Target(D[1]) \in BoardRegisters
        /\ Target(D[3]) \in BoardRegisters
    BY <1>4, RegistersOfBoards
  <1>7. \A k \in 1 .. 4 : FollowsAt(D, k)
    BY <1>2, <1>3, <1>6, BitValues DEF FollowsAt, Behind, Selects, Changes, Byte
  <1>8. \A k \in 1 .. 4 : SelectedAt(D, k)
    BY <1>2, <1>3 DEF SelectedAt, Selects
  <1>9. \A j \in 1 .. 4 : Changes(D[j]) <=> j \in {2, 4}
    BY <1>2, <1>3 DEF Changes, Selects
  <1>10. \A k \in 1 .. 4 : D[k].do \in {"is", "skip"} => FALSE
    BY <1>2, <1>3
  <1>21. \A k \in 1 .. 4 : D[k].place # "gpio"
    BY <1>2, <1>3
  <1>11. Distinct(D)
    BY <1>1, <1>4, <1>9, <1>10 DEF Distinct
  <1>12. WellMade(D, 0)
    BY <1>1, <1>2, <1>5, <1>7, <1>8, <1>11 DEF WellMade
  <1>. QED  BY <1>1, <1>2, <1>4, <1>9, <1>10, <1>12, <1>20, <1>21 DEF D, RaisesBit, LowersBit

LEMMA P5aWellMade ==
  LET D == board_asus_p5a IN
  /\ WellMade(D, 0) /\ Len(D) = 5
  /\ \A j \in 1 .. 5 : Changes(D[j]) <=> j \in {4}
  /\ Target(D[4]) = <<"smbus", 0, 0>> /\ LowersBit(D[4], 1)
  /\ \A k \in 1 .. 5 : D[k].do \in {"is", "skip"} => FALSE
  /\ \A k \in 1 .. 5 : D[k].place # "gpio"
  <1>. DEFINE D == board_asus_p5a
  <1>1. D \in Seq(AccessType) /\ Len(D) = 5
    BY P5aSteps
  <1>2. /\ D[1].do = "poll" /\ D[1].place = "smbus" /\ D[1].reg = 0
        /\ D[2].do = "poll" /\ D[2].place = "smbus" /\ D[2].reg = 0
        /\ D[3].do = "in" /\ D[3].place = "smbus" /\ D[3].reg = 0
        /\ D[4].do = "out" /\ D[4].place = "smbus" /\ D[4].reg = 0
        /\ D[5].do = "poll" /\ D[5].place = "smbus" /\ D[5].reg = 0
    BY P5aSteps DEF A
  <1>20. /\ D[4].clear = {1} /\ D[4].set = {}
    BY P5aSteps DEF A
  <1>. HIDE DEF D
  <1>3. \A k \in 1 .. 5 : k \in {1, 2, 3, 4, 5}
    OBVIOUS
  <1>4. /\ Target(D[3]) = <<"smbus", 0, 0>>
        /\ Target(D[4]) = <<"smbus", 0, 0>>
    BY <1>2, RegistersOfBoards DEF Target
  <1>5. \A k \in 1 .. 5 : BracketedAt(D, 0, k)
    BY <1>1, <1>2, <1>3 DEF BracketedAt
  <1>6. /\ Target(D[3]) \in BoardRegisters
    BY <1>4, RegistersOfBoards
  <1>7. \A k \in 1 .. 5 : FollowsAt(D, k)
    BY <1>2, <1>3, <1>6, BitValues DEF FollowsAt, Behind, Selects, Changes, Byte
  <1>8. \A k \in 1 .. 5 : SelectedAt(D, k)
    BY <1>2, <1>3 DEF SelectedAt, Selects
  <1>9. \A j \in 1 .. 5 : Changes(D[j]) <=> j \in {4}
    BY <1>2, <1>3 DEF Changes, Selects
  <1>10. \A k \in 1 .. 5 : D[k].do \in {"is", "skip"} => FALSE
    BY <1>2, <1>3
  <1>21. \A k \in 1 .. 5 : D[k].place # "gpio"
    BY <1>2, <1>3
  <1>11. Distinct(D)
    BY <1>1, <1>4, <1>9, <1>10 DEF Distinct
  <1>12. WellMade(D, 0)
    BY <1>1, <1>2, <1>5, <1>7, <1>8, <1>11 DEF WellMade
  <1>. QED  BY <1>1, <1>2, <1>4, <1>9, <1>10, <1>12, <1>20, <1>21 DEF D, RaisesBit, LowersBit

LEMMA IbmWellMade ==
  LET D == board_ibm_x3455 IN
  /\ WellMade(D, 0) /\ Len(D) = 3
  /\ \A j \in 1 .. 3 : Changes(D[j]) <=> j \in {3}
  /\ Target(D[3]) = <<"gpio", 0, \h45>> /\ RaisesBit(D[3], 5)
  /\ \A k \in 1 .. 3 : D[k].do \in {"is", "skip"} => FALSE
  <1>. DEFINE D == board_ibm_x3455
  <1>1. D \in Seq(AccessType) /\ Len(D) = 3
    BY IbmSteps
  <1>2. /\ D[1].do = "index" /\ D[1].place = "gpio" /\ D[1].reg = \h45
        /\ D[2].do = "in" /\ D[2].place = "gpio" /\ D[2].reg = \h45
        /\ D[3].do = "out" /\ D[3].place = "gpio" /\ D[3].reg = \h45
    BY IbmSteps DEF A
  <1>20. /\ D[3].clear = {} /\ D[3].set = {5}
    BY IbmSteps DEF A
  <1>. HIDE DEF D
  <1>3. \A k \in 1 .. 3 : k \in {1, 2, 3}
    OBVIOUS
  <1>4. /\ Target(D[2]) = <<"gpio", 0, \h45>>
        /\ Target(D[3]) = <<"gpio", 0, \h45>>
    BY <1>2, RegistersOfBoards DEF Target
  <1>5. \A k \in 1 .. 3 : BracketedAt(D, 0, k)
    BY <1>1, <1>2, <1>3 DEF BracketedAt
  <1>6. /\ Target(D[2]) \in BoardRegisters
    BY <1>4, RegistersOfBoards
  <1>7. \A k \in 1 .. 3 : FollowsAt(D, k)
    BY <1>2, <1>3, <1>6, BitValues DEF FollowsAt, Behind, Selects, Changes, Byte
  <1>8. \A k \in 1 .. 3 : SelectedAt(D, k)
    BY <1>2, <1>3 DEF SelectedAt, Selects
  <1>9. \A j \in 1 .. 3 : Changes(D[j]) <=> j \in {3}
    BY <1>2, <1>3 DEF Changes, Selects
  <1>10. \A k \in 1 .. 3 : D[k].do \in {"is", "skip"} => FALSE
    BY <1>2, <1>3
  <1>11. Distinct(D)
    BY <1>1, <1>4, <1>9, <1>10 DEF Distinct
  <1>12. WellMade(D, 0)
    BY <1>1, <1>2, <1>5, <1>7, <1>8, <1>11 DEF WellMade
  <1>. QED  BY <1>1, <1>2, <1>4, <1>9, <1>10, <1>12, <1>20 DEF D, RaisesBit, LowersBit

LEMMA EpoxWellMade ==
  LET D == board_epox_ep_bx3 IN
  /\ WellMade(D, 0) /\ Len(D) = 2
  /\ \A j \in 1 .. 2 : Changes(D[j]) <=> j \in {2}
  /\ Target(D[2]) = <<"port", 0, \h36>> /\ RaisesBit(D[2], 6)
  /\ \A k \in 1 .. 2 : D[k].do \in {"is", "skip"} => FALSE
  /\ \A k \in 1 .. 2 : D[k].place # "gpio"
  <1>. DEFINE D == board_epox_ep_bx3
  <1>1. D \in Seq(AccessType) /\ Len(D) = 2
    BY EpoxSteps
  <1>2. /\ D[1].do = "in" /\ D[1].place = "port" /\ D[1].reg = \h36
        /\ D[2].do = "out" /\ D[2].place = "port" /\ D[2].reg = \h36
    BY EpoxSteps DEF A
  <1>20. /\ D[2].clear = {} /\ D[2].set = {6}
    BY EpoxSteps DEF A
  <1>. HIDE DEF D
  <1>3. \A k \in 1 .. 2 : k \in {1, 2}
    OBVIOUS
  <1>4. /\ Target(D[1]) = <<"port", 0, \h36>>
        /\ Target(D[2]) = <<"port", 0, \h36>>
    BY <1>2, RegistersOfBoards DEF Target
  <1>5. \A k \in 1 .. 2 : BracketedAt(D, 0, k)
    BY <1>1, <1>2, <1>3 DEF BracketedAt
  <1>6. /\ Target(D[1]) \in BoardRegisters
    BY <1>4, RegistersOfBoards
  <1>7. \A k \in 1 .. 2 : FollowsAt(D, k)
    BY <1>2, <1>3, <1>6, BitValues DEF FollowsAt, Behind, Selects, Changes, Byte
  <1>8. \A k \in 1 .. 2 : SelectedAt(D, k)
    BY <1>2, <1>3 DEF SelectedAt, Selects
  <1>9. \A j \in 1 .. 2 : Changes(D[j]) <=> j \in {2}
    BY <1>2, <1>3 DEF Changes, Selects
  <1>10. \A k \in 1 .. 2 : D[k].do \in {"is", "skip"} => FALSE
    BY <1>2, <1>3
  <1>21. \A k \in 1 .. 2 : D[k].place # "gpio"
    BY <1>2, <1>3
  <1>11. Distinct(D)
    BY <1>1, <1>4, <1>9, <1>10 DEF Distinct
  <1>12. WellMade(D, 0)
    BY <1>1, <1>2, <1>5, <1>7, <1>8, <1>11 DEF WellMade
  <1>. QED  BY <1>1, <1>2, <1>4, <1>9, <1>10, <1>12, <1>20, <1>21 DEF D, RaisesBit, LowersBit

-----------------------------------------------------------------------------
(***************************************************************************)
(* The inductive invariant.  Aimed: index and logical device are as the    *)
(* routine set them, unless others came in between.  Fresh: what was read  *)
(* is the register it was meant for, or the ones of a closed Super-IO.     *)
(* Bracket: the Super-IO is open behind the second key, unless others left *)
(* it.  Reasoned: no access is reached that a test should have kept it     *)
(* from.  Justified: what differs from the registers at first was changed  *)
(* by an access that was reached, as it says.  Raised: undisturbed, what   *)
(* was come past is done.                                                  *)
(***************************************************************************)
\* Where the second key of a board's routine is
SecondKey(b) == CASE b \in {1, 2} -> 2 [] b \in {4, 5} -> 4 [] OTHER -> 0
K == SecondKey(board)

\* Access j was passed, or jumped over.
Over(j) == j < step \/ stage = "done"

\* The tests in front of access j let it be reached.
Passed(j) ==
  \A i \in 1 .. j - 1 :
    /\ Routine[i].do = "is" => old[Target(Routine[i])] = Routine[i].set
    /\ Routine[i].do = "skip" => Routine[i].set \cap old[Target(Routine[i])] = {}

\* Only a GPIO block, which no bracket protects, lets others disturb an access.
Protected == others = 0 \/ \A k \in 1 .. Len(Routine) : Routine[k].place # "gpio"

BoardTyped ==
  /\ stage \in {"match", "run", "done"} /\ board \in 0 .. 8
  /\ tmp \in SUBSET Byte /\ result \in {0, -1} /\ open \in BOOLEAN /\ keys \in {0, 1}
  /\ ldn \in {0, 8} /\ others \in Nat
  /\ held \in [BoardRegisters -> SUBSET Byte] /\ old \in [BoardRegisters -> SUBSET Byte]
  /\ stage = "match" => board = 0
  /\ board = 0 => keys = 0 /\ held = old /\ step = 1 /\ result = 0 /\ others = 0
  /\ stage = "run" => board # 0
  /\ board # 0 => step \in 1 .. Len(Routine)

Last(do, place) ==
  stage = "run" /\ step > 1 /\ Routine[step-1].do \in do /\ Routine[step-1].place = place

Aimed ==
  /\ Last({"index", "in"}, "sio") /\ open => index = Routine[step-1].reg
  /\ Last({"index", "in"}, "gpio") /\ others = 0 => gpio = Routine[step-1].reg
  /\ (/\ stage = "run" /\ open /\ Step.do # "leave"
      /\ \E j \in 1 .. step - 1 : Selects(Routine[j])) => ldn = 8

Fresh ==
  (stage = "run" /\ step > 1 /\ Routine[step-1].do = "in") =>
    LET a == Routine[step-1] IN
    /\ (a.place = "sio" => open) /\ (a.place = "gpio" => others = 0) => tmp = held[Target(a)]
    /\ a.place = "sio" => tmp = Byte \/ tmp = held[Target(a)]

Bracket ==
  /\ stage = "done" /\ board # 0 /\ step > 1 /\ K > 0 => ~open
  /\ stage = "run" /\ others = 0 /\ K > 0 =>
       /\ step < K => open \/ keys = 0
       /\ step = K => open \/ keys = 1
       /\ step > K => open

Reasoned == stage = "run" /\ Step.do # "leave" => Passed(step)

Differs(r) == (held[r] \ old[r]) \cup (old[r] \ held[r])
Justified ==
  board # 0 /\ Protected =>
    \A r \in BoardRegisters : \A b \in Differs(r) :
      \E j \in 1 .. Len(Routine) :
        LET a == Routine[j] IN
        /\ Changes(a) /\ Over(j) /\ Passed(j) /\ Target(a) = r
        /\ b \in a.clear \cup a.set /\ (b \in held[r] <=> b \in a.set)

Wrought(a) == \A b \in a.clear \cup a.set : b \in held[Target(a)] <=> b \in a.set
Raised ==
  board # 0 /\ others = 0 /\ result = 0 =>
    \A j \in 1 .. Len(Routine) :
      Changes(Routine[j]) /\ Over(j) /\ Passed(j) => Wrought(Routine[j])

BoardInv == BoardTyped /\ Aimed /\ Fresh /\ Bracket /\ Reasoned /\ Justified /\ Raised
-----------------------------------------------------------------------------
LEMMA TheRoutines ==
  /\ DOMAIN board_pciid_enables = 1 .. 8
  /\ board_pciid_enables[1].enable = w83627hf_gpio24_raise
  /\ board_pciid_enables[2].enable = w83627hf_gpio24_raise
  /\ board_pciid_enables[3].enable = board_via_epia_m
  /\ board_pciid_enables[4].enable = board_asus_a7v8x_mx
  /\ board_pciid_enables[5].enable = board_asus_a7v8x_mx
  /\ board_pciid_enables[6].enable = board_asus_p5a
  /\ board_pciid_enables[7].enable = board_ibm_x3455
  /\ board_pciid_enables[8].enable = board_epox_ep_bx3
  <1>0. DOMAIN board_pciid_enables = 1 .. 8
    BY DEF board_pciid_enables
  <1>1. board_pciid_enables[1].enable = w83627hf_gpio24_raise
    BY DEF board_pciid_enables, Board
  <1>2. board_pciid_enables[2].enable = w83627hf_gpio24_raise
    BY DEF board_pciid_enables, Board
  <1>3. board_pciid_enables[3].enable = board_via_epia_m
    <2>. DEFINE f == VT8235
                c == <<\h1106, \haa01>>
                g == <<\h1106, \h3123>>
                d == <<\h1106, \haa01>>
                l == ""
                n == {VT8235}
    <2>1. board_pciid_enables[3] = Board(f, c, g, d, l, n, board_via_epia_m)
      BY DEF board_pciid_enables
    <2>. HIDE DEF f, c, g, d, l, n
    <2>2. Board(f, c, g, d, l, n, board_via_epia_m).enable = board_via_epia_m
      BY DEF Board
    <2>. QED  BY <2>1, <2>2
  <1>4. board_pciid_enables[4].enable = board_asus_a7v8x_mx
    <2>. DEFINE f == VT8235
                c == <<\h1043, \h80a1>>
                g == <<\h1106, \h3205>>
                d == <<\h1043, \h8118>>
                l == ""
                n == {VT8235, VT8237}
    <2>1. board_pciid_enables[4] = Board(f, c, g, d, l, n, board_asus_a7v8x_mx)
      BY DEF board_pciid_enables
    <2>. HIDE DEF f, c, g, d, l, n
    <2>2. Board(f, c, g, d, l, n, board_asus_a7v8x_mx).enable = board_asus_a7v8x_mx
      BY DEF Board
    <2>. QED  BY <2>1, <2>2
  <1>5. board_pciid_enables[5].enable = board_asus_a7v8x_mx
    <2>. DEFINE f == <<\h8086, \h1076>>
                c == <<\h8086, \h1176>>
                g == <<\h1106, \h3059>>
                d == <<\h10f1, \h2498>>
                l == ""
                n == {VT8235, VT8237}
    <2>1. board_pciid_enables[5] = Board(f, c, g, d, l, n, board_asus_a7v8x_mx)
      BY DEF board_pciid_enables
    <2>. HIDE DEF f, c, g, d, l, n
    <2>2. Board(f, c, g, d, l, n, board_asus_a7v8x_mx).enable = board_asus_a7v8x_mx
      BY DEF Board
    <2>. QED  BY <2>1, <2>2
  <1>6. board_pciid_enables[6].enable = board_asus_p5a
    BY DEF board_pciid_enables, Board
  <1>7. board_pciid_enables[7].enable = board_ibm_x3455
    BY DEF board_pciid_enables, Board
  <1>8. board_pciid_enables[8].enable = board_epox_ep_bx3
    BY DEF board_pciid_enables, Board
  <1>. QED  BY <1>0, <1>1, <1>2, <1>3, <1>4, <1>5, <1>6, <1>7, <1>8

LEMMA TheBoards == \A b \in 1 .. 8 : b \in {1, 2} \/ b \in {4, 5} \/ b = 3 \/ b = 6 \/ b = 7 \/ b = 8
  OBVIOUS

\* Every routine of the table is well made.
LEMMA RoutinesWellMade ==
  ASSUME NEW b \in 1 .. 8
  PROVE  WellMade(board_pciid_enables[b].enable, SecondKey(b))
  <1>1. CASE b \in {1, 2}
    <2>1. board_pciid_enables[b].enable = w83627hf_gpio24_raise /\ SecondKey(b) = 2
      BY <1>1, TheRoutines DEF SecondKey
    <2>. QED  BY <2>1, GpioWellMade
  <1>2. CASE b \in {4, 5}
    <2>1. board_pciid_enables[b].enable = board_asus_a7v8x_mx /\ SecondKey(b) = 4
      BY <1>2, TheRoutines DEF SecondKey
    <2>. QED  BY <2>1, AsusWellMade
  <1>3. CASE b \notin {1, 2, 4, 5}
    <2>1. SecondKey(b) = 0 /\ b \in {3, 6, 7, 8}
      BY <1>3, TheBoards DEF SecondKey
    <2>2. board_pciid_enables[b].enable \in
            {board_via_epia_m, board_asus_p5a, board_ibm_x3455, board_epox_ep_bx3}
      BY <2>1, TheRoutines
    <2>. QED  BY <2>1, <2>2, EpiaWellMade, P5aWellMade, IbmWellMade, EpoxWellMade
  <1>. QED  BY <1>1, <1>2, <1>3

-----------------------------------------------------------------------------
\* Where the routine is, and what that access finds in front of it
LEMMA InRoutine ==
  ASSUME BoardTyped, stage = "run"
  PROVE  /\ WellMade(Routine, K) /\ board \in 1 .. 8
         /\ step \in 1 .. Len(Routine) /\ Len(Routine) \in Nat
         /\ Step \in AccessType /\ Step = Routine[step]
         /\ BracketedAt(Routine, K, step) /\ FollowsAt(Routine, step) /\ SelectedAt(Routine, step)
  <1>1. board \in 1 .. 8 /\ step \in 1 .. Len(Routine)
    BY DEF BoardTyped
  <1>2. WellMade(Routine, K)
    BY <1>1, RoutinesWellMade DEF Routine, K
  <1>3. Routine[step] \in AccessType
    BY <1>1, <1>2 DEF WellMade
  <1>. QED  BY <1>1, <1>2, <1>3 DEF WellMade, Step

\* Going on stays within the routine, or ends it at its last access.
LEMMA Going ==
  ASSUME BoardTyped, stage = "run", NEW n \in 1 .. Len(Routine) + 1, GoTo(n)
  PROVE  \/ stage' = "run" /\ step' = n /\ n \in 1 .. Len(Routine)
         \/ stage' = "done" /\ step' = step /\ n = Len(Routine) + 1
  <1>1. Len(Routine) \in Nat
    BY InRoutine
  <1>. QED  BY <1>1 DEF GoTo

\* Every access but a wrong test goes on to the next or to the last one.
Goes(n) ==
  \/ stage' = "run" /\ step' = n /\ n \in 1 .. Len(Routine)
  \/ stage' = "done" /\ step' = step /\ n = Len(Routine) + 1

LEMMA GoesOn ==
  ASSUME BoardTyped, stage = "run", GoTo(step + 1)
  PROVE  Goes(step + 1)
  <1>1. step + 1 \in 1 .. Len(Routine) + 1
    BY InRoutine
  <1>. QED  BY <1>1, Going DEF Goes

LEMMA GoesToLast ==
  ASSUME BoardTyped, stage = "run", GoTo(Len(Routine))
  PROVE  stage' = "run" /\ step' = Len(Routine)
  <1>1. Len(Routine) \in 1 .. Len(Routine) + 1 /\ Len(Routine) # Len(Routine) + 1
    BY InRoutine
  <1>. QED  BY <1>1, Going

\* The access reaches the register that it is meant for.
LEMMA ReachesTarget ==
  ASSUME BoardTyped, Aimed, stage = "run", Listens,
         Step.do = "in" \/ Changes(Step),
         Step.place = "gpio" => others = 0
  PROVE  Reached = Target(Step) /\ Target(Step) \in BoardRegisters
  <1>. DEFINE D == Routine
  <1>1. /\ WellMade(D, K) /\ step \in 1 .. Len(D) /\ Len(D) \in Nat /\ Step = D[step]
        /\ FollowsAt(D, step) /\ SelectedAt(D, step) /\ Step \in AccessType
    BY InRoutine
  <1>. HIDE DEF D
  <1>2. Step.do # "leave"
    BY DEF Changes
  <1>3. CASE Step.do = "in"
    <2>1. Target(Step) \in BoardRegisters
      BY <1>1, <1>3 DEF FollowsAt
    <2>2. CASE Step.place = "sio"
      <3>1. open /\ Behind(D, step, "index")
        BY <1>1, <1>3, <2>2 DEF Listens, FollowsAt
      <3>2. index = Step.reg
        BY <1>1, <2>2, <3>1 DEF D, Aimed, Last, Behind
      <3>3. Step.reg >= \h30 => ldn = 8
        BY <1>1, <1>2, <1>3, <2>2, <3>1 DEF D, Aimed, SelectedAt
      <3>4. Step.reg \in Nat
        BY <1>1 DEF AccessType
      <3>. QED  BY <2>1, <2>2, <3>2, <3>3, <3>4 DEF Reached, Target, SioReg
    <2>3. CASE Step.place = "gpio"
      <3>1. Behind(D, step, "index")
        BY <1>1, <1>3, <2>3 DEF FollowsAt
      <3>2. gpio = Step.reg
        BY <1>1, <2>3, <3>1 DEF D, Aimed, Last, Behind
      <3>. QED  BY <2>1, <2>3, <3>2 DEF Reached, Target
    <2>4. CASE Step.place \notin {"sio", "gpio"}
      BY <2>1, <2>4 DEF Reached, Target
    <2>. QED  BY <2>2, <2>3, <2>4
  <1>4. CASE Changes(Step)
    <2>1. Behind(D, step, "in")
      BY <1>1, <1>4 DEF FollowsAt
    <2>2. step - 1 \in 1 .. Len(D) /\ Target(D[step-1]) = Target(Step)
      BY <1>1, <2>1 DEF Behind, Target
    <2>3. FollowsAt(D, step - 1) /\ SelectedAt(D, step - 1)
      BY <1>1, <2>2 DEF WellMade
    <2>4. Target(Step) \in BoardRegisters
      BY <2>1, <2>2, <2>3 DEF FollowsAt, Behind
    <2>5. CASE Step.place = "sio"
      <3>1. open
        BY <2>5 DEF Listens
      <3>2. index = Step.reg
        BY <1>1, <2>1, <2>5, <3>1 DEF D, Aimed, Last, Behind
      <3>3. Step.reg >= \h30 => \E j \in 1 .. step - 2 : Selects(D[j])
        BY <1>1, <2>1, <2>3, <2>5 DEF SelectedAt, Behind
      <3>4. \A j \in 1 .. step - 2 : j \in 1 .. step - 1
        BY <1>1
      <3>5. Step.reg >= \h30 => ldn = 8
        BY <1>2, <3>1, <3>3, <3>4 DEF D, Aimed
      <3>6. Step.reg \in Nat
        BY <1>1 DEF AccessType
      <3>. QED  BY <2>4, <2>5, <3>2, <3>5, <3>6 DEF Reached, Target, SioReg
    <2>6. CASE Step.place = "gpio"
      <3>1. gpio = Step.reg
        BY <1>1, <2>1, <2>6 DEF D, Aimed, Last, Behind
      <3>. QED  BY <2>4, <2>6, <3>1 DEF Reached, Target
    <2>7. CASE Step.place \notin {"sio", "gpio"}
      BY <2>4, <2>7 DEF Reached, Target
    <2>. QED  BY <2>5, <2>6, <2>7
  <1>. QED  BY <1>3, <1>4
\* What was read is the register, or the ones of a Super-IO that is closed.
LEMMA InputGets ==
  ASSUME BoardTyped, Aimed, Input
  PROVE  /\ tmp' \in SUBSET Byte
         /\ ~Listens => tmp' = Byte
         /\ Listens /\ (Step.place = "gpio" => others = 0) => tmp' = held[Target(Step)]
  <1>1. stage = "run" /\ Step.do = "in"
    BY DEF Input
  <1>2. CASE ~Listens
    BY <1>2 DEF Input
  <1>3. CASE Listens
    <2>1. tmp' = IF Reached \in BoardRegisters THEN held[Reached] ELSE {}
      BY <1>3 DEF Input
    <2>2. tmp' \in SUBSET Byte
      BY <2>1 DEF BoardTyped
    <2>3. ASSUME Step.place = "gpio" => others = 0
          PROVE  tmp' = held[Target(Step)]
      BY <1>1, <1>3, <2>1, <2>3, ReachesTarget
    <2>. QED  BY <1>3, <2>2, <2>3
  <1>. QED  BY <1>2, <1>3

LEMMA SelectedIs8 ==
  ASSUME Step.set = BitsOf(8)
  PROVE  Selected = 8
  <1>1. BitsOf(0) # BitsOf(8)
    BY BitValues
  <1>2. \A n \in {0, 8} : BitsOf(n) = Step.set <=> n = 8
    BY <1>1
  <1>. QED  BY <1>2 DEF Selected

\* A write that is heard selects the logical device 8, or goes to its register.
LEMMA OutputDoes ==
  ASSUME BoardTyped, Aimed, Output
  PROVE  /\ Selects(Step) \/ Changes(Step)
         /\ ~Listens => UNCHANGED <<held, ldn>>
         /\ Listens /\ Selects(Step) => ldn' = 8 /\ UNCHANGED held
         /\ Listens /\ Changes(Step) =>
              /\ UNCHANGED ldn
              /\ held' = IF Reached \in BoardRegisters THEN [held EXCEPT ![Reached] = Written] ELSE held
  <1>1. stage = "run" /\ Step.do = "out"
    BY DEF Output
  <1>2. Selects(Step) \/ Changes(Step)
    BY <1>1 DEF Changes
  <1>3. FollowsAt(Routine, step) /\ Step = Routine[step] /\ step \in 1 .. Len(Routine)
    BY <1>1, InRoutine
  <1>4. ASSUME Listens, Step.place = "sio"
        PROVE  index = Step.reg
    <2>1. Behind(Routine, step, "index") \/ Behind(Routine, step, "in")
      BY <1>2, <1>3 DEF FollowsAt
    <2>. QED  BY <1>1, <1>3, <1>4, <2>1 DEF Aimed, Last, Behind, Listens
  <1>5. CASE ~Listens
    BY <1>2, <1>5 DEF Output
  <1>6. CASE Listens /\ Selects(Step)
    <2>1. Step.set = BitsOf(8)
      BY <1>3, <1>6 DEF FollowsAt
    <2>2. Step.place = "sio" /\ index = 7
      BY <1>4, <1>6 DEF Selects
    <2>. QED  BY <1>6, <2>1, <2>2, SelectedIs8 DEF Output, Changes
  <1>7. CASE Listens /\ Changes(Step)
    <2>1. ~(Step.place = "sio" /\ index = 7)
      BY <1>1, <1>4, <1>7 DEF Changes, Selects
    <2>. QED  BY <1>7, <2>1 DEF Output, Changes
  <1>. QED  BY <1>2, <1>5, <1>6, <1>7

LEMMA WrittenTyped ==
  ASSUME BoardTyped, stage = "run"
  PROVE  Written \in SUBSET Byte
  <1>1. Step.set \in SUBSET Byte
    BY InRoutine DEF AccessType
  <1>. QED  BY <1>1 DEF Written, BoardTyped

-----------------------------------------------------------------------------
\* Types

LEMMA MatchTyped ==
  ASSUME BoardTyped, NoBoard \/ Match
  PROVE  BoardTyped'
  <1>1. CASE NoBoard
    BY <1>1 DEF NoBoard, BoardTyped, setup, ports, Routine
  <1>2. CASE Match
    <2>1. /\ board' = Matched /\ Matched \in 1 .. 8
          /\ stage = "match" /\ stage' \in {"run", "done"} /\ result' \in {0, -1}
      <3>1. ByName \cup ByCard # {} /\ ByName \cup ByCard \subseteq 1 .. 8
        BY <1>2, TheRoutines DEF Match, ByName, ByCard, Entries
      <3>. DEFINE S == IF ByName # {} THEN ByName ELSE ByCard
      <3>2. S # {} /\ S \subseteq 1 .. 8
        BY <3>1
      <3>. HIDE DEF S
      <3>3. \E i \in S : \A j \in S : i <= j
        BY <3>2, LeastExists
      <3>4. Matched = CHOOSE i \in S : \A j \in S : i <= j
        BY DEF Matched, S
      <3>5. Matched \in S
        BY <3>3, <3>4
      <3>6. result \in {0, -1}
        BY DEF BoardTyped
      <3>. QED  BY <1>2, <3>2, <3>5, <3>6 DEF Match
    <2>2. UNCHANGED <<old, step, tmp, ports, held, others>>
      BY <1>2 DEF Match, setup
    <2>3. WellMade(Routine, K)'
      BY <2>1, RoutinesWellMade, Zenon DEF Routine, K
    <2>4. board = 0 /\ step = 1 /\ 1 \in 1 .. Len(Routine')
      BY <2>1, <2>3 DEF BoardTyped, WellMade
    <2>. QED  BY <2>1, <2>2, <2>4 DEF BoardTyped, ports
  <1>. QED  BY <1>1, <1>2
\* A step of the routine itself
OwnStep == Key \/ Leave \/ SetIndex \/ Input \/ Output \/ TestId \/ SkipIfSet \/ PollDevice

\* What an access leaves alone, and where it goes
LEMMA RunStep ==
  ASSUME BoardTyped, OwnStep
  PROVE  /\ stage = "run" /\ UNCHANGED <<board, old, others, devices, name>>
         /\ Routine' = Routine /\ K' = K
         /\ step' \in 1 .. Len(Routine) /\ stage' \in {"run", "done"}
  <1>1. stage = "run" /\ UNCHANGED <<board, old, others, devices, name>>
    BY DEF Key, Leave, SetIndex, Input, Output, TestId, SkipIfSet, PollDevice, OwnStep, setup
  <1>2. Routine' = Routine /\ K' = K
    BY <1>1 DEF Routine, K
  <1>3. step \in 1 .. Len(Routine) /\ Len(Routine) \in Nat
    BY <1>1, InRoutine
  <1>4. GoTo(step + 1) \/ GoTo(Len(Routine)) \/ Fail
    BY DEF Key, Leave, SetIndex, Input, Output, TestId, SkipIfSet, PollDevice, OwnStep
  <1>5. CASE GoTo(step + 1)
    BY <1>1, <1>2, <1>3, <1>5, GoesOn DEF Goes
  <1>6. CASE GoTo(Len(Routine))
    BY <1>1, <1>2, <1>3, <1>6, GoesToLast
  <1>7. CASE Fail
    BY <1>1, <1>2, <1>3, <1>7 DEF Fail
  <1>. QED  BY <1>1, <1>2, <1>4, <1>5, <1>6, <1>7

LEMMA StepTyped ==
  ASSUME BoardTyped, Aimed,
         OwnStep
  PROVE  BoardTyped'
  <1>1. /\ stage = "run" /\ UNCHANGED <<board, old, others>> /\ Routine' = Routine
        /\ step' \in 1 .. Len(Routine) /\ stage' \in {"run", "done"} /\ board # 0
    BY RunStep DEF BoardTyped
  <1>2. tmp' \in SUBSET Byte
    <2>1. Input \/ UNCHANGED tmp
      BY DEF Key, Leave, SetIndex, Output, TestId, SkipIfSet, PollDevice, OwnStep
    <2>. QED  BY <2>1, InputGets DEF BoardTyped
  <1>3. result' \in {0, -1}
    BY DEF BoardTyped, Key, Leave, SetIndex, Input, Output, TestId, SkipIfSet, PollDevice, OwnStep, Fail
  <1>4. open' \in BOOLEAN /\ keys' \in {0, 1}
    <2>1. CASE Key
      <3>1. (keys + 1) % 2 \in {0, 1}
        BY DEF BoardTyped
      <3>2. keys' \in {0, 1}
        BY <2>1, <3>1 DEF Key, BoardTyped
      <3>3. open' = open \/ open' = (keys = 1)
        BY <2>1 DEF Key
      <3>. QED  BY <3>2, <3>3 DEF BoardTyped
    <2>2. CASE ~Key
      <3>1. (UNCHANGED open \/ open' = FALSE) /\ (UNCHANGED keys \/ keys' = 0)
        BY <2>2 DEF Leave, SetIndex, Input, Output, TestId, SkipIfSet, PollDevice, OwnStep, ports
      <3>. QED  BY <3>1 DEF BoardTyped
    <2>. QED  BY <2>1, <2>2
  <1>5. ldn' \in {0, 8} /\ held' \in [BoardRegisters -> SUBSET Byte]
    <2>1. CASE Output
      BY <1>1, <2>1, OutputDoes, WrittenTyped DEF BoardTyped
    <2>2. CASE ~Output
      BY <2>2 DEF BoardTyped, Key, Leave, SetIndex, Input, TestId, SkipIfSet, PollDevice, OwnStep, ports
    <2>. QED  BY <2>1, <2>2
  <1>. QED  BY <1>1, <1>2, <1>3, <1>4, <1>5 DEF BoardTyped

LEMMA OthersTyped ==
  ASSUME BoardTyped, OthersUse
  PROVE  BoardTyped'
  <1>1. UNCHANGED <<board, stage, step, tmp, result, held, old>> /\ stage = "run"
    BY DEF OthersUse, setup
  <1>2. open' = FALSE /\ keys' = 0 /\ ldn' \in {0, 8} /\ others' \in Nat
    BY DEF OthersUse, BoardTyped
  <1>3. Routine' = Routine /\ board # 0
    BY <1>1 DEF Routine, BoardTyped
  <1>. QED  BY <1>1, <1>2, <1>3 DEF BoardTyped

-----------------------------------------------------------------------------
\* The accesses find index and logical device as they were set.

\* A test jumps to the leave, behind a write.
LEMMA Jumps ==
  ASSUME BoardTyped, TestId \/ SkipIfSet
  PROVE  /\ K > 0 /\ Behind(Routine, step, "in") /\ Step.place = "sio" /\ Step.do \in {"is", "skip"}
         /\ Len(Routine) \in Nat /\ Len(Routine) - 1 \in 1 .. Len(Routine)
         /\ Routine[Len(Routine)].do = "leave" /\ Routine[Len(Routine)-1].do = "out"
  <1>1. stage = "run" /\ Step.do \in {"is", "skip"}
    BY DEF TestId, SkipIfSet
  <1>2. FollowsAt(Routine, step) /\ BracketedAt(Routine, K, step) /\ WellMade(Routine, K) /\ Step = Routine[step]
    BY <1>1, InRoutine
  <1>3. Behind(Routine, step, "in") /\ Step.place = "sio" /\ K > 0
    BY <1>1, <1>2 DEF FollowsAt, BracketedAt
  <1>. QED  BY <1>1, <1>2, <1>3 DEF WellMade

LEMMA LastAimed ==
  ASSUME BoardTyped, Routine' = Routine, stage' = "run", step' = Len(Routine), Len(Routine) \in Nat,
         Routine[Len(Routine)].do = "leave", Routine[Len(Routine)-1].do = "out"
  PROVE  Aimed'
  BY DEF Aimed, Last, Step

LEMMA StepAimed ==
  ASSUME BoardTyped, Aimed,
         OwnStep
  PROVE  Aimed'
  <1>. DEFINE D == Routine
  <1>1. /\ stage = "run" /\ UNCHANGED <<board, others>> /\ D' = D
        /\ step' \in 1 .. Len(D) /\ stage' \in {"run", "done"}
    BY RunStep
  <1>2. /\ WellMade(D, K) /\ step \in 1 .. Len(D) /\ Len(D) \in Nat /\ Step = D[step]
        /\ BracketedAt(D, K, step) /\ FollowsAt(D, step)
    BY <1>1, InRoutine
  <1>3. CASE (TestId \/ SkipIfSet) /\ step' = Len(D) /\ stage' = "run"
    BY <1>1, <1>3, Jumps, LastAimed
  <1>4. CASE stage' = "done"
    BY <1>4 DEF Aimed, Last
  <1>5. ASSUME step' = step + 1, stage' = "run"
        PROVE  Aimed'
    <2>0. D'[step'-1] = Step
      BY <1>1, <1>2, <1>5
    <2>1. /\ Last({"index", "in"}, "sio")' => Step.do \in {"index", "in"} /\ Step.place = "sio"
          /\ Last({"index", "in"}, "gpio")' => Step.do \in {"index", "in"} /\ Step.place = "gpio"
      BY <2>0 DEF Last, D
    <2>2. Step.do = "in" /\ Step.place \in {"sio", "gpio"} =>
            Last({"index", "in"}, Step.place) /\ Routine[step-1].reg = Step.reg
      BY <1>1, <1>2 DEF D, FollowsAt, Behind, Last
    <2>3. \A j \in 1 .. step' - 1 : Selects(D[j]) => j \in 1 .. step - 1 \/ Selects(Step)
      BY <1>2, <1>5
    <2>. HIDE DEF D
    <2>4. ASSUME Last({"index", "in"}, "sio")', open'
          PROVE  index' = Step.reg
      <3>1. SetIndex \/ Input
        BY <2>1, <2>4 DEF Key, Leave, Output, TestId, SkipIfSet, PollDevice, OwnStep
      <3>2. Step.place = "sio" /\ open
        BY <2>1, <2>4, <3>1 DEF SetIndex, Input, ports
      <3>3. CASE SetIndex
        BY <3>2, <3>3 DEF SetIndex
      <3>4. CASE Input
        BY <2>2, <3>2, <3>4 DEF Input, Aimed, ports
      <3>. QED  BY <3>1, <3>3, <3>4
    <2>5. ASSUME Last({"index", "in"}, "gpio")', others = 0
          PROVE  gpio' = Step.reg
      <3>1. SetIndex \/ Input
        BY <2>1, <2>5 DEF Key, Leave, Output, TestId, SkipIfSet, PollDevice, OwnStep
      <3>2. Step.place = "gpio"
        BY <2>1, <2>5
      <3>3. CASE SetIndex
        BY <3>2, <3>3 DEF SetIndex
      <3>4. CASE Input
        BY <2>2, <2>5, <3>2, <3>4 DEF Input, Aimed, ports
      <3>. QED  BY <3>1, <3>3, <3>4
    <2>6. ASSUME open', NEW j \in 1 .. step' - 1, Selects(D[j])
          PROVE  ldn' = 8
      <3>1. CASE Output /\ Selects(Step)
        <4>1. Listens
          BY <2>6, <3>1 DEF Output, Listens
        <4>. QED  BY <3>1, <4>1, OutputDoes
      <3>2. CASE Output /\ ~Selects(Step)
        <4>1. UNCHANGED ldn
          BY <3>2, OutputDoes
        <4>2. open /\ j \in 1 .. step - 1 /\ Step.do # "leave"
          BY <2>3, <2>6, <3>2 DEF Output
        <4>. QED  BY <1>1, <2>6, <4>1, <4>2 DEF D, Aimed
      <3>3. CASE SetIndex \/ Input \/ TestId \/ SkipIfSet \/ PollDevice
        <4>1. UNCHANGED <<ldn, open>> /\ Step.do \notin {"leave", "out"}
          BY <3>3 DEF SetIndex, Input, TestId, SkipIfSet, PollDevice, OwnStep, ports
        <4>2. j \in 1 .. step - 1
          BY <2>3, <2>6, <4>1 DEF Selects
        <4>. QED  BY <1>1, <2>6, <4>1, <4>2 DEF D, Aimed
      <3>4. CASE Key
        <4>1. step \in {K - 1, K} /\ Step.do = "key" /\ K \in Nat
          BY <1>2, <3>4 DEF Key, BracketedAt, WellMade
        <4>2. j \in 1 .. step - 1
          BY <2>3, <2>6, <4>1 DEF Selects
        <4>3. BracketedAt(D, K, j)
          BY <1>2, <4>2 DEF WellMade
        <4>4. j > K
          BY <2>6, <4>3 DEF BracketedAt, Selects
        <4>. QED  BY <1>2, <4>1, <4>2, <4>4
      <3>5. CASE Leave
        BY <2>6, <3>5 DEF Leave
      <3>. QED  BY <3>1, <3>2, <3>3, <3>4, <3>5 DEF OwnStep
    <2>. QED  BY <1>1, <2>0, <2>4, <2>5, <2>6 DEF Aimed, D
  <1>6. stage' = "run" => step' = step + 1 \/ ((TestId \/ SkipIfSet) /\ step' = Len(D))
    <2>1. CASE GoTo(step + 1)
      BY <1>1, <2>1, GoesOn DEF Goes
    <2>2. CASE (TestId \/ SkipIfSet) /\ GoTo(Len(D))
      BY <1>1, <2>2, GoesToLast
    <2>3. CASE Fail
      BY <2>3 DEF Fail
    <2>. QED
      BY <2>1, <2>2, <2>3 DEF Key, Leave, SetIndex, Input, Output, TestId, SkipIfSet, PollDevice, OwnStep
  <1>. QED  BY <1>1, <1>3, <1>4, <1>5, <1>6

LEMMA OthersAimed ==
  ASSUME BoardTyped, Aimed, OthersUse
  PROVE  Aimed'
  <1>1. open' = FALSE /\ others' # 0
    BY DEF OthersUse, BoardTyped
  <1>. QED  BY <1>1 DEF Aimed

-----------------------------------------------------------------------------
\* An access goes on to the next, a test to the last; the routine ends behind
\* its last access, or where a poll gave up.
LEMMA StepGoes ==
  ASSUME BoardTyped, OwnStep
  PROVE  \/ stage' = "run" /\ step' = step + 1 /\ step + 1 \in 1 .. Len(Routine)
         \/ stage' = "run" /\ step' = Len(Routine) /\ (TestId \/ SkipIfSet)
         \/ stage' = "done" /\ step' = step /\ step = Len(Routine)
         \/ stage' = "done" /\ step' = step /\ PollDevice /\ result' = -1
  <1>1. stage = "run"
    BY RunStep
  <1>2. step \in 1 .. Len(Routine) /\ Len(Routine) \in Nat
    BY <1>1, InRoutine
  <1>3. CASE GoTo(step + 1)
    <2>1. step + 1 = Len(Routine) + 1 => step = Len(Routine)
      BY <1>2
    <2>. QED  BY <1>1, <1>3, <2>1, GoesOn DEF Goes
  <1>4. CASE (TestId \/ SkipIfSet) /\ GoTo(Len(Routine))
    BY <1>1, <1>4, GoesToLast
  <1>5. CASE PollDevice /\ Fail
    BY <1>5 DEF Fail
  <1>. QED
    BY <1>3, <1>4, <1>5 DEF Key, Leave, SetIndex, Input, Output, TestId, SkipIfSet, PollDevice, OwnStep

LEMMA StepFresh ==
  ASSUME BoardTyped, Aimed, Fresh,
         OwnStep
  PROVE  Fresh'
  <1>. DEFINE D == Routine
  <1>1. stage = "run" /\ D' = D /\ UNCHANGED others
    BY RunStep
  <1>2. /\ step \in 1 .. Len(D) /\ Len(D) \in Nat /\ Step = D[step]
    BY <1>1, InRoutine
  <1>3. SUFFICES ASSUME stage' = "run", step' > 1, D'[step'-1].do = "in"
                 PROVE  LET a == D[step'-1] IN
                        /\ (a.place = "sio" => open') /\ (a.place = "gpio" => others' = 0)
                             => tmp' = held'[Target(a)]
                        /\ a.place = "sio" => tmp' = Byte \/ tmp' = held'[Target(a)]
    BY <1>1, Zenon DEF Fresh, D
  <1>4. CASE step' = step + 1
    <2>1. D[step'-1] = Step
      BY <1>2, <1>4
    <2>2. Input
      BY <1>1, <1>3, <2>1 DEF Key, Leave, SetIndex, Output, TestId, SkipIfSet, PollDevice, OwnStep
    <2>3. UNCHANGED <<open, held>>
      BY <2>2 DEF Input, ports
    <2>4. Step.place = "gpio" => Listens
      BY DEF Listens
    <2>. HIDE DEF D
    <2>. QED  BY <1>1, <2>1, <2>2, <2>3, InputGets DEF Listens
  <1>5. CASE step' = Len(D) /\ (TestId \/ SkipIfSet)
    BY <1>1, <1>3, <1>5, Jumps
  <1>. QED  BY <1>3, <1>4, <1>5, StepGoes

LEMMA OthersFresh ==
  ASSUME BoardTyped, Fresh, OthersUse
  PROVE  Fresh'
  <1>1. open' = FALSE /\ others' # 0 /\ UNCHANGED <<board, stage, step, tmp, held>>
    BY DEF OthersUse, BoardTyped, setup
  <1>2. Routine' = Routine
    BY <1>1 DEF Routine
  <1>. QED  BY <1>1, <1>2 DEF Fresh

-----------------------------------------------------------------------------
\* The bracket is open for the accesses behind the second key, unless others
\* closed it, and closed when the routine has ended.
LEMMA StepBracket ==
  ASSUME BoardTyped, Bracket,
         OwnStep
  PROVE  Bracket'
  <1>. DEFINE D == Routine
  <1>1. stage = "run" /\ D' = D /\ K' = K /\ UNCHANGED <<board, others>>
    BY RunStep
  <1>2. /\ WellMade(D, K) /\ step \in 1 .. Len(D) /\ Len(D) \in Nat /\ Step = D[step]
        /\ BracketedAt(D, K, step) /\ FollowsAt(D, step)
    BY <1>1, InRoutine
  <1>3. K \in Nat /\ K < Len(D)
    BY <1>2 DEF WellMade
  <1>4. CASE K = 0
    BY <1>1, <1>4 DEF Bracket
  <1>5. CASE K > 0
    <2>1. Step.do # "poll" /\ Step.place # "gpio" /\ (Step.do = "leave" => step = Len(D))
      BY <1>2, <1>5 DEF BracketedAt
    <2>2. Step.do = "key" <=> step \in {K - 1, K}
      BY <1>2 DEF BracketedAt
    <2>3. Step.place = "sio" /\ Step.do # "key" => step > K
      BY <1>2 DEF BracketedAt
    <2>4. ASSUME stage' = "done"
          PROVE  open' = FALSE
      <3>1. step = Len(D)
        BY <2>1, <2>4, StepGoes DEF PollDevice
      <3>2. Step.do = "leave"
        BY <1>2, <1>5, <3>1 DEF WellMade
      <3>. QED
        BY <3>2 DEF Key, Leave, SetIndex, Input, Output, TestId, SkipIfSet, PollDevice, OwnStep
    <2>5. ASSUME stage' = "run", others = 0
          PROVE  /\ step' < K => open' \/ keys' = 0
                 /\ step' = K => open' \/ keys' = 1
                 /\ step' > K => open'
      <3>1. CASE Key
        <4>1. step \in {K - 1, K} /\ step' = step + 1
          BY <1>2, <2>2, <2>5, <3>1, StepGoes DEF Key, TestId, SkipIfSet
        <4>2. IF open THEN UNCHANGED <<open, keys>>
                      ELSE keys' = (keys + 1) % 2 /\ open' = (keys = 1)
          BY <3>1 DEF Key
        <4>3. CASE step = K - 1
          <5>1. step < K /\ step' = K
            BY <1>3, <4>1, <4>3
          <5>2. open \/ keys = 0
            BY <1>1, <1>5, <2>5, <5>1 DEF Bracket
          <5>3. open' \/ keys' = 1
            BY <4>2, <5>2
          <5>. QED  BY <1>3, <5>1, <5>3
        <4>4. CASE step = K
          <5>1. step' = K + 1
            BY <4>1, <4>4
          <5>2. open \/ keys = 1
            BY <1>1, <1>5, <2>5, <4>4 DEF Bracket
          <5>3. open'
            BY <4>2, <5>2
          <5>. QED  BY <1>3, <5>1, <5>3
        <4>. QED  BY <4>1, <4>3, <4>4
      <3>2. CASE ~Key
        <4>1. Step.do # "key" /\ Step.do # "leave"
          <5>1. Step.do # "key"
            BY <3>2 DEF Key, Leave, SetIndex, Input, Output, TestId, SkipIfSet, PollDevice, OwnStep
          <5>2. Step.do = "leave" => ~(TestId \/ SkipIfSet) /\ step = Len(D)
            BY <2>1 DEF TestId, SkipIfSet
          <5>3. step + 1 \notin 1 .. Len(D) \/ step # Len(D)
            BY <1>2
          <5>. QED  BY <2>5, <5>1, <5>2, <5>3, StepGoes
        <4>2. UNCHANGED open /\ (UNCHANGED keys \/ Step.place = "sio")
          <5>1. Step.do = "index" => Step.place \in {"sio", "gpio"}
            BY <1>2 DEF FollowsAt
          <5>2. SetIndex => Step.do = "index"
            BY DEF SetIndex
          <5>. QED
            BY <3>2, <4>1, <5>1, <5>2 DEF Leave, SetIndex, Input, Output, TestId, SkipIfSet, PollDevice, OwnStep, ports
        <4>3. CASE step > K
          <5>1. step' > K
            BY <1>2, <1>3, <2>5, <4>3, StepGoes
          <5>2. open
            BY <1>1, <1>5, <2>5, <4>3 DEF Bracket
          <5>3. ~(step' < K) /\ ~(step' = K)
            BY <1>2, <1>3, <2>5, <4>3, StepGoes
          <5>. QED  BY <4>2, <5>2, <5>3
        <4>4. CASE ~(step > K)
          <5>1. Step.place # "sio" /\ step < K - 1
            BY <1>2, <1>3, <2>2, <2>3, <4>1, <4>4
          <5>2. step' = step + 1
            BY <2>5, <5>1, StepGoes, Jumps
          <5>3. open \/ keys = 0
            BY <1>1, <1>2, <1>3, <1>5, <2>5, <5>1 DEF Bracket
          <5>4. step' < K
            BY <1>2, <1>3, <5>1, <5>2
          <5>. QED  BY <1>2, <1>3, <4>2, <5>1, <5>2, <5>3, <5>4
        <4>. QED  BY <4>3, <4>4
      <3>. QED  BY <3>1, <3>2
    <2>6. stage' \in {"run", "done"}
      BY RunStep
    <2>. QED  BY <1>1, <2>4, <2>5, <2>6 DEF Bracket
  <1>. QED  BY <1>3, <1>4, <1>5

LEMMA OthersBracket ==
  ASSUME BoardTyped, OthersUse
  PROVE  Bracket'
  <1>1. others' # 0 /\ stage' = "run"
    BY DEF OthersUse, BoardTyped
  <1>. QED  BY <1>1 DEF Bracket

-----------------------------------------------------------------------------
\* What a test sees
LEMMA BracketedPlaces ==
  ASSUME BoardTyped, stage = "run", K > 0
  PROVE  Protected
  <1>1. WellMade(Routine, K)
    BY InRoutine
  <1>. QED  BY <1>1 DEF WellMade, BracketedAt, Protected

\* A register is as it was until its access was passed.
LEMMA AsItWas ==
  ASSUME Justified, board # 0, Protected, BoardTyped, NEW r \in BoardRegisters,
         \A j \in 1 .. Len(Routine) : Changes(Routine[j]) /\ Over(j) => Target(Routine[j]) # r
  PROVE  held[r] = old[r]
  <1>1. \A b \in Differs(r) : FALSE
    BY DEF Justified
  <1>. QED  BY <1>1 DEF Differs

\* A test sees the register as it was, or the ones of a closed Super-IO.
LEMMA TestSees ==
  ASSUME BoardTyped, Fresh, Justified, TestId \/ SkipIfSet
  PROVE  /\ tmp = Byte \/ tmp = old[Target(Step)]
         /\ open => tmp = old[Target(Step)]
         /\ step > K
  <1>. DEFINE D == Routine
  <1>1. stage = "run" /\ board # 0
    BY RunStep DEF BoardTyped, OwnStep
  <1>2. /\ WellMade(D, K) /\ step \in 1 .. Len(D) /\ Len(D) \in Nat /\ Step = D[step]
        /\ BracketedAt(D, K, step)
    BY <1>1, InRoutine
  <1>3. K > 0 /\ Behind(D, step, "in") /\ Step.place = "sio" /\ Step.do \in {"is", "skip"}
    BY Jumps
  <1>4. step > K
    BY <1>2, <1>3 DEF BracketedAt
  <1>5. Protected
    BY <1>1, <1>3, BracketedPlaces
  <1>6. /\ step > 1 /\ D[step-1].do = "in" /\ D[step-1].place = "sio"
        /\ Target(D[step-1]) = Target(Step) /\ step - 1 \in 1 .. Len(D)
    BY <1>2, <1>3 DEF Behind, Target
  <1>7. Target(Step) \in BoardRegisters
    <2>1. FollowsAt(D, step - 1)
      BY <1>2, <1>6 DEF WellMade
    <2>. QED  BY <1>6, <2>1 DEF FollowsAt
  <1>8. (open => tmp = held[Target(Step)]) /\ (tmp = Byte \/ tmp = held[Target(Step)])
    BY <1>1, <1>6 DEF Fresh, D
  <1>9. \A j \in 1 .. Len(D) : Changes(D[j]) /\ Over(j) => Target(D[j]) # Target(Step)
    BY <1>1, <1>2, <1>3 DEF Over, WellMade, Distinct
  <1>10. held[Target(Step)] = old[Target(Step)]
    BY <1>1, <1>5, <1>7, <1>9, AsItWas DEF D
  <1>. QED  BY <1>4, <1>8, <1>10

\* An access behind a test is reached only when the test let it through.
LEMMA StepReasoned ==
  ASSUME BoardTyped, Fresh, Justified, Reasoned,
         OwnStep
  PROVE  Reasoned'
  <1>. DEFINE D == Routine
  <1>1. stage = "run" /\ D' = D /\ K' = K /\ UNCHANGED old
    BY RunStep
  <1>2. /\ WellMade(D, K) /\ step \in 1 .. Len(D) /\ Len(D) \in Nat /\ Step = D[step]
        /\ BracketedAt(D, K, step) /\ FollowsAt(D, step) /\ Step \in AccessType
    BY <1>1, InRoutine
  <1>3. SUFFICES ASSUME stage' = "run", D[step'].do # "leave"
                 PROVE  Passed(step)'
    BY <1>1 DEF Reasoned, Step
  <1>4. step' = step + 1 /\ step + 1 \in 1 .. Len(D) /\ (K > 0 => step + 1 # Len(D))
    <2>1. K > 0 => D[Len(D)].do = "leave"
      BY <1>2 DEF WellMade
    <2>2. K \in Nat
      BY <1>2 DEF WellMade
    <2>3. step' # Len(D) \/ K = 0
      BY <1>2, <1>3, <2>1, <2>2
    <2>. QED  BY <1>3, <2>3, StepGoes, Jumps
  <1>5. Step.do # "leave"
    BY <1>2, <1>4 DEF BracketedAt
  <1>6. Passed(step)
    BY <1>1, <1>5 DEF Reasoned
  <1>7. /\ Step.do = "is" => old[Target(Step)] = Step.set
        /\ Step.do = "skip" => Step.set \cap old[Target(Step)] = {}
    <2>1. CASE TestId
      <3>1. Step.do = "is" /\ Step.set # Byte
        BY <1>2, <2>1 DEF TestId, FollowsAt
      <3>2. tmp = Step.set
        <4>1. ASSUME tmp # Step.set  PROVE step' = Len(D)
          BY <1>1, <2>1, <4>1, GoesToLast DEF TestId
        <4>2. K > 0
          BY <2>1, Jumps
        <4>. QED  BY <1>2, <1>4, <4>1, <4>2
      <3>. QED  BY <2>1, <3>1, <3>2, TestSees
    <2>2. CASE SkipIfSet
      <3>1. Step.do = "skip" /\ Step.set \in SUBSET Byte
        BY <1>2, <2>2 DEF SkipIfSet, AccessType
      <3>2. Step.set \cap tmp = {}
        <4>1. ASSUME Step.set \cap tmp # {}  PROVE step' = Len(D)
          BY <1>1, <2>2, <4>1, GoesToLast DEF SkipIfSet
        <4>2. K > 0
          BY <2>2, Jumps
        <4>. QED  BY <1>2, <1>4, <4>1, <4>2
      <3>3. tmp = Byte => Step.set = {}
        BY <3>1, <3>2
      <3>. QED  BY <2>2, <3>1, <3>2, <3>3, TestSees
    <2>3. CASE ~(TestId \/ SkipIfSet)
      BY <2>3 DEF Key, Leave, SetIndex, Input, Output, PollDevice, OwnStep
    <2>. QED  BY <2>1, <2>2, <2>3
  <1>8. \A i \in 1 .. step' - 1 : i = step \/ i \in 1 .. step - 1
    BY <1>2, <1>4
  <1>9. \A i \in 1 .. step' - 1 :
          /\ D[i].do = "is" => old[Target(D[i])] = D[i].set
          /\ D[i].do = "skip" => D[i].set \cap old[Target(D[i])] = {}
    BY <1>2, <1>6, <1>7, <1>8 DEF Passed
  <1>. HIDE DEF D
  <1>. QED  BY <1>1, <1>9 DEF Passed, D

LEMMA OthersReasoned ==
  ASSUME Reasoned, OthersUse
  PROVE  Reasoned'
  BY DEF Reasoned, OthersUse, Passed, Step, Routine, setup

-----------------------------------------------------------------------------
\* What differs from the old registers was changed by an access that was let
\* through, and as that access says.
Accounts(r, b) ==
  \E j \in 1 .. Len(Routine) :
    LET a == Routine[j] IN
    /\ Changes(a) /\ Over(j) /\ Passed(j) /\ Target(a) = r
    /\ b \in a.clear \cup a.set /\ (b \in held[r] <=> b \in a.set)

LEMMA OverStays ==
  ASSUME BoardTyped, OwnStep,
         NEW j \in 1 .. Len(Routine), Over(j)
  PROVE  Over(j)'
  <1>1. stage = "run" /\ step \in 1 .. Len(Routine) /\ Len(Routine) \in Nat
    BY RunStep, InRoutine
  <1>. QED  BY <1>1, StepGoes DEF Over

LEMMA StepJustified ==
  ASSUME BoardTyped, Aimed, Fresh, Reasoned, Justified,
         OwnStep
  PROVE  Justified'
  <1>. DEFINE D == Routine
  <1>1. /\ stage = "run" /\ D' = D /\ K' = K /\ UNCHANGED <<board, old, others>> /\ board # 0
    BY RunStep DEF BoardTyped
  <1>2. /\ WellMade(D, K) /\ step \in 1 .. Len(D) /\ Len(D) \in Nat /\ Step = D[step]
        /\ FollowsAt(D, step) /\ Step \in AccessType
    BY <1>1, InRoutine
  <1>3. SUFFICES ASSUME Protected, NEW r \in BoardRegisters, NEW b \in Differs(r)'
                 PROVE  Accounts(r, b)'
    <2>1. Protected' <=> Protected
      BY <1>1 DEF Protected
    <2>. QED  BY <1>1, <2>1 DEF Justified, Accounts
  <1>4. \A j \in 1 .. Len(D) : (Over(j) => Over(j)') /\ (Passed(j) <=> Passed(j)')
    <2>1. \A j : Passed(j) <=> Passed(j)'
      BY <1>1 DEF Passed
    <2>. QED  BY <2>1, OverStays
  <1>5. ASSUME b \in Differs(r), b \in held'[r] <=> b \in held[r]
        PROVE  Accounts(r, b)'
    <2>1. Accounts(r, b)
      BY <1>1, <1>3, <1>5 DEF Justified, Accounts
    <2>. QED  BY <1>1, <1>4, <1>5, <2>1 DEF Accounts
  <1>6. CASE held'[r] = held[r]
    <2>1. b \in Differs(r)
      BY <1>1, <1>6 DEF Differs
    <2>. QED  BY <1>5, <1>6, <2>1
  <1>7. CASE held'[r] # held[r]
    <2>1. Output /\ Listens /\ Changes(Step)
      <3>1. Output
        BY <1>7 DEF Key, Leave, SetIndex, Input, TestId, SkipIfSet, PollDevice, OwnStep
      <3>. QED  BY <1>7, <3>1, OutputDoes
    <2>2. Reached = Target(Step) /\ Target(Step) \in BoardRegisters
      <3>1. Step.place = "gpio" => others = 0
        BY <1>2, <1>3 DEF Protected
      <3>. QED  BY <1>1, <2>1, <3>1, ReachesTarget
    <2>3. held' = [held EXCEPT ![Target(Step)] = Written]
      BY <2>1, <2>2, OutputDoes
    <2>4. r = Target(Step) /\ held'[r] = (tmp \ Step.clear) \cup Step.set
      BY <1>7, <2>2, <2>3 DEF BoardTyped, Written
    <2>5. tmp = held[r]
      <3>1. Behind(D, step, "in")
        BY <1>2, <2>1 DEF FollowsAt
      <3>2. Target(D[step-1]) = Target(Step) /\ D[step-1].place = Step.place
        BY <1>2, <3>1 DEF Behind, Target
      <3>3. (Step.place = "sio" => open) /\ (Step.place = "gpio" => others = 0)
        BY <1>2, <1>3, <2>1 DEF Protected, Listens
      <3>. QED  BY <1>1, <2>4, <3>1, <3>2, <3>3 DEF Fresh, Behind, D
    <2>6. CASE b \in Step.clear \cup Step.set
      <3>1. b \in held'[r] <=> b \in Step.set
        BY <2>4, <2>6
      <3>2. step < step' \/ stage' = "done"
        BY <1>2, <2>1, StepGoes DEF Output, TestId, SkipIfSet
      <3>3. Passed(step)
        BY <1>1, <2>1 DEF Reasoned, Output
      <3>4. \E k \in 1 .. Len(D) : k = step
        BY <1>2
      <3>5. PICK k \in 1 .. Len(D) : k = step
        BY <3>4
      <3>6. Over(k)' /\ Passed(k)' /\ D[k] = Step
        BY <1>2, <1>4, <3>2, <3>3, <3>5 DEF Over
      <3>. HIDE DEF D
      <3>. QED  BY <1>1, <2>1, <2>4, <2>6, <3>1, <3>6 DEF Accounts, D
    <2>7. CASE b \notin Step.clear \cup Step.set
      <3>1. b \in held'[r] <=> b \in held[r]
        BY <2>4, <2>5, <2>7
      <3>2. b \in Differs(r)
        BY <1>1, <3>1 DEF Differs
      <3>. QED  BY <1>5, <3>1, <3>2
    <2>. QED  BY <2>6, <2>7
  <1>. QED  BY <1>6, <1>7

LEMMA OthersJustified ==
  ASSUME BoardTyped, Justified, OthersUse
  PROVE  Justified'
  <1>1. UNCHANGED <<board, stage, step, held, old>> /\ others' # 0
    BY DEF OthersUse, setup, BoardTyped
  <1>2. Routine' = Routine
    BY <1>1 DEF Routine
  <1>3. Protected' => Protected
    BY <1>1, <1>2 DEF Protected
  <1>4. \A j : (Over(j) => Over(j)') /\ (Passed(j) => Passed(j)')
    BY <1>1, <1>2 DEF Over, Passed
  <1>5. \A r : Differs(r)' = Differs(r)
    BY <1>1 DEF Differs
  <1>. QED  BY <1>1, <1>2, <1>3, <1>4, <1>5 DEF Justified

-----------------------------------------------------------------------------
\* What a routine came past, undisturbed, is as its accesses say.
LEMMA StepRaised ==
  ASSUME BoardTyped, Aimed, Fresh, Bracket, Reasoned, Justified, Raised,
         OwnStep
  PROVE  Raised'
  <1>. DEFINE D == Routine
  <1>1. /\ stage = "run" /\ D' = D /\ K' = K /\ UNCHANGED <<board, old, others>> /\ board # 0
    BY RunStep DEF BoardTyped
  <1>2. /\ WellMade(D, K) /\ step \in 1 .. Len(D) /\ Len(D) \in Nat /\ Step = D[step]
        /\ FollowsAt(D, step) /\ BracketedAt(D, K, step) /\ K \in Nat
    BY <1>1, InRoutine DEF WellMade
  <1>3. SUFFICES ASSUME others = 0, result' = 0, NEW j \in 1 .. Len(D),
                        Changes(D[j]), Over(j)', Passed(j)'
                 PROVE  Wrought(D[j])'
    BY <1>1 DEF Raised
  <1>4. Passed(j)
    BY <1>1, <1>3 DEF Passed
  <1>5. result = 0
    BY <1>3 DEF Key, Leave, SetIndex, Input, Output, TestId, SkipIfSet, PollDevice, OwnStep, Fail, BoardTyped
  <1>6. Step.place = "sio" /\ Step.do # "key" => open
    BY <1>1, <1>2, <1>3 DEF Bracket, BracketedAt
  <1>7. ASSUME Over(j)
        PROVE  Wrought(D[j])
    BY <1>1, <1>3, <1>4, <1>5, <1>7 DEF Raised
  <1>8. Over(j) <=> j < step
    BY <1>1 DEF Over
  <1>9. CASE Output
    <2>1. j < step \/ j = step
      BY <1>2, <1>3, <1>8, <1>9, StepGoes DEF Over, Output, TestId, SkipIfSet
    <2>2. Listens
      BY <1>6, <1>9 DEF Output, Listens
    <2>3. CASE Changes(Step)
      <3>1. Reached = Target(Step) /\ Target(Step) \in BoardRegisters
        BY <1>1, <1>3, <2>2, <2>3, ReachesTarget
      <3>2. held' = [held EXCEPT ![Target(Step)] = Written]
        BY <1>9, <2>2, <2>3, <3>1, OutputDoes
      <3>3. CASE j = step
        <4>1. held'[Target(Step)] = (tmp \ Step.clear) \cup Step.set
          BY <3>1, <3>2 DEF BoardTyped, Written
        <4>. QED  BY <1>1, <1>2, <3>3, <4>1 DEF Wrought
      <3>4. CASE j < step
        <4>1. Target(D[j]) # Target(Step)
          BY <1>2, <1>3, <2>3, <3>4 DEF WellMade, Distinct
        <4>2. held'[Target(D[j])] = held[Target(D[j])]
          BY <3>2, <4>1 DEF BoardTyped
        <4>. QED  BY <1>1, <1>7, <1>8, <3>4, <4>2 DEF Wrought
      <3>. QED  BY <2>1, <3>3, <3>4
    <2>4. CASE ~Changes(Step)
      <3>1. UNCHANGED held
        BY <1>9, <2>4, OutputDoes
      <3>2. j < step
        BY <1>2, <1>3, <2>1, <2>4
      <3>. QED  BY <1>1, <1>7, <1>8, <3>1, <3>2 DEF Wrought
    <2>. QED  BY <2>3, <2>4
  <1>10. CASE ~Output
    <2>1. UNCHANGED held /\ ~Changes(Step)
      <3>1. UNCHANGED held
        BY <1>10 DEF Key, Leave, SetIndex, Input, TestId, SkipIfSet, PollDevice, OwnStep
      <3>2. Step.do # "out"
        BY <1>10 DEF Key, Leave, SetIndex, Input, TestId, SkipIfSet, PollDevice, OwnStep
      <3>. QED  BY <3>1, <3>2 DEF Changes
    <2>2. j # step
      BY <1>2, <1>3, <2>1
    <2>3. CASE j < step
      BY <1>1, <1>7, <1>8, <2>1, <2>3 DEF Wrought
    <2>4. CASE j > step
      <3>1. (TestId \/ SkipIfSet) /\ ~GoTo(step + 1)
        <4>1. ~(stage' = "run" /\ step' = step + 1)
          BY <1>2, <1>3, <2>4 DEF Over
        <4>2. ~(stage' = "done" /\ step = Len(D))
          BY <1>2, <2>4
        <4>3. ~(PollDevice /\ result' = -1)
          BY <1>3
        <4>. QED  BY <1>1, <4>1, <4>2, <4>3, GoesOn, StepGoes DEF Goes
      <3>2. SkipIfSet /\ Step.set \cap tmp # {} /\ Step.do = "skip"
        BY <1>3, <3>1 DEF TestId, SkipIfSet
      <3>3. tmp = old[Target(Step)]
        BY <1>6, <3>2, Jumps, TestSees
      <3>4. Step.set \cap old[Target(Step)] = {}
        BY <1>2, <1>4, <2>4, <3>2 DEF Passed
      <3>. QED  BY <3>2, <3>3, <3>4
    <2>. QED  BY <1>2, <2>2, <2>3, <2>4
  <1>. QED  BY <1>9, <1>10

LEMMA OthersRaised ==
  ASSUME BoardTyped, OthersUse
  PROVE  Raised'
  <1>1. others' # 0
    BY DEF OthersUse, BoardTyped
  <1>. QED  BY <1>1 DEF Raised

-----------------------------------------------------------------------------
\* Before the routine runs, all is as it was.
LEMMA AtFirst ==
  ASSUME BoardTyped, held = old, step = 1, keys = 0, stage \in {"match", "run", "done"},
         stage = "done" => board = 0 \/ result = -1, stage = "match" => board = 0
  PROVE  BoardInv
  <1>1. board = 0 \/ (board \in 1 .. 8 /\ WellMade(Routine, K))
    BY RoutinesWellMade DEF BoardTyped, Routine, K
  <1>2. Aimed /\ Fresh
    BY DEF Aimed, Fresh, Last
  <1>3. Bracket
    BY <1>1 DEF Bracket, BoardTyped, WellMade
  <1>4. Reasoned
    BY DEF Reasoned, Passed
  <1>5. Justified
    BY DEF Justified, Differs
  <1>6. Raised
    BY <1>1 DEF Raised, Over, WellMade
  <1>. QED  BY <1>2, <1>3, <1>4, <1>5, <1>6 DEF BoardInv

LEMMA MatchInv ==
  ASSUME BoardInv, NoBoard \/ Match
  PROVE  BoardInv'
  <1>1. BoardTyped /\ stage = "match" /\ board = 0 /\ held = old /\ step = 1 /\ keys = 0
    BY DEF BoardInv, BoardTyped, NoBoard, Match
  <1>2. BoardTyped'
    BY <1>1, MatchTyped
  <1>3. /\ held' = old' /\ step' = 1 /\ keys' = 0 /\ stage' \in {"run", "done"}
        /\ stage' = "done" => board' = 0 \/ result' = -1
    BY <1>1 DEF NoBoard, Match, setup, ports
  <1>4. board' = 0 \/ WellMade(Routine, K)'
    <2>1. board' \in 1 .. 8 => WellMade(Routine, K)'
      BY RoutinesWellMade, Zenon DEF Routine, K
    <2>. QED  BY <1>2, <2>1 DEF BoardTyped
  <1>5. (Aimed /\ Fresh)'
    BY <1>3 DEF Aimed, Fresh, Last
  <1>6. Bracket'
    BY <1>2, <1>3, <1>4 DEF Bracket, BoardTyped, WellMade
  <1>7. (Reasoned /\ Justified)'
    BY <1>3 DEF Reasoned, Passed, Justified, Differs
  <1>8. Raised'
    BY <1>3, <1>4 DEF Raised, Over, WellMade
  <1>. QED  BY <1>2, <1>5, <1>6, <1>7, <1>8 DEF BoardInv

\* The inductive invariant of the board's routine holds.
THEOREM BoardInvHolds == BoardSpec => []BoardInv
  <1>1. BoardInit => BoardInv
    <2>1. SUFFICES ASSUME BoardInit  PROVE BoardInv
      OBVIOUS
    <2>2. BoardTyped
      BY <2>1, ContentsAssumption DEF BoardInit, BoardTyped
    <2>. QED  BY <2>1, <2>2, AtFirst DEF BoardInit
  <1>2. BoardInv /\ [BoardNext]_boardVars => BoardInv'
    <2>1. SUFFICES ASSUME BoardInv, [BoardNext]_boardVars  PROVE BoardInv'
      OBVIOUS
    <2>2. CASE NoBoard \/ Match
      BY <2>1, <2>2, MatchInv
    <2>3. CASE OwnStep
      BY <2>1, <2>3, StepTyped, StepAimed, StepFresh, StepBracket, StepReasoned, StepJustified, StepRaised
         DEF BoardInv
    <2>4. CASE OthersUse
      BY <2>1, <2>4, OthersTyped, OthersAimed, OthersFresh, OthersBracket, OthersReasoned,
         OthersJustified, OthersRaised DEF BoardInv
    <2>5. CASE UNCHANGED boardVars
      <3>1. BoardTyped'
        BY <2>1, <2>5 DEF boardVars, setup, ports, BoardInv, BoardTyped, Routine
      <3>2. Aimed'
        BY <2>1, <2>5 DEF boardVars, setup, ports, BoardInv, Aimed, Last, Step, Routine
      <3>3. Fresh'
        BY <2>1, <2>5 DEF boardVars, setup, ports, BoardInv, Fresh, Step, Routine
      <3>4. Bracket'
        BY <2>1, <2>5 DEF boardVars, setup, ports, BoardInv, Bracket, K
      <3>5. Reasoned'
        BY <2>1, <2>5 DEF boardVars, setup, ports, BoardInv, Reasoned, Passed, Step, Routine
      <3>6. Justified'
        BY <2>1, <2>5 DEF boardVars, setup, ports, BoardInv, Justified, Protected, Differs, Passed, Over, Routine
      <3>7. Raised'
        BY <2>1, <2>5 DEF boardVars, setup, ports, BoardInv, Raised, Passed, Over, Wrought, Routine
      <3>. QED  BY <3>1, <3>2, <3>3, <3>4, <3>5, <3>6, <3>7 DEF BoardInv
    <2>. QED  BY <2>1, <2>2, <2>3, <2>4, <2>5 DEF BoardNext, OwnStep
  <1>. QED  BY <1>1, <1>2, PTL DEF BoardSpec

\* BracketClosed for every machine and every use of the ports by others: behind
\* a routine that entered the Super-IO, nobody finds it listening.
THEOREM BracketIsClosed == BoardSpec => []BracketClosed
  <1>1. BoardInv => BracketClosed
    <2>1. SUFFICES ASSUME BoardInv, stage = "done", board # 0, step > 1, UsesSuperIO(board)
                   PROVE  ~open
      BY DEF BracketClosed
    <2>2. board \in 1 .. 8
      BY <2>1 DEF BoardInv, BoardTyped
    <2>3. WellMade(Routine, K)
      BY <2>2, RoutinesWellMade DEF Routine, K
    <2>4. PICK i \in DOMAIN Routine : Routine[i].do = "key"
      BY <2>1 DEF UsesSuperIO, Routine
    <2>5. K > 0
      BY <2>3, <2>4 DEF WellMade, BracketedAt
    <2>. QED  BY <2>1, <2>5 DEF BoardInv, Bracket
  <1>. QED  BY <1>1, BoardInvHolds, PTL

-----------------------------------------------------------------------------
\* What the comments of a routine say is what its accesses do.
Wanted(a) == {<<Target(a), b, b \in a.set>> : b \in a.clear \cup a.set}

Promised ==
  \A p : p \in Promise(board) <=>
    \E j \in 1 .. Len(Routine) : Changes(Routine[j]) /\ Passed(j) /\ p \in Wanted(Routine[j])

Only(a, p) == \A q : q \in Wanted(a) <=> q = p

LEMMA Raises ==
  ASSUME NEW a, NEW r, NEW b, Target(a) = r, RaisesBit(a, b)
  PROVE  Only(a, <<r, b, TRUE>>)
  <1>1. \A c : c \in a.clear \cup a.set <=> c = b
    BY DEF RaisesBit
  <1>2. \A c : c = b => (c \in a.set) = TRUE
    BY DEF RaisesBit
  <1>3. \A q : q \in Wanted(a) <=> q = <<r, b, TRUE>>
    BY <1>1, <1>2 DEF Wanted
  <1>. QED  BY <1>3 DEF Only

LEMMA Lowers ==
  ASSUME NEW a, NEW r, NEW b, Target(a) = r, LowersBit(a, b)
  PROVE  Only(a, <<r, b, FALSE>>)
  <1>1. \A c : c \in a.clear \cup a.set <=> c = b
    BY DEF LowersBit
  <1>2. \A c : (c \in a.set) = FALSE
    BY DEF LowersBit
  <1>3. ASSUME NEW q \in Wanted(a)
        PROVE  q = <<r, b, FALSE>>
    <2>1. PICK c \in a.clear \cup a.set : q = <<Target(a), c, c \in a.set>>
      BY DEF Wanted
    <2>2. c = b /\ (c \in a.set) = FALSE
      BY <1>1, <1>2
    <2>. QED  BY <2>1, <2>2
  <1>4. <<r, b, FALSE>> \in Wanted(a)
    <2>1. <<Target(a), b, b \in a.set>> \in Wanted(a)
      BY <1>1 DEF Wanted
    <2>2. (b \in a.set) = FALSE
      BY <1>2
    <2>. QED  BY <2>1, <2>2
  <1>. QED  BY <1>3, <1>4 DEF Only

\* routine by routine
LEMMA EpiaPromised ==
  ASSUME board = 3
  PROVE  Promised
  <1>. DEFINE D == Routine
  <1>. DEFINE p1 == <<<<"pci", 0, \he4>>, 4, TRUE>>
              p2 == <<<<"port", 0, \h4d>>, 7, TRUE>>
  <1>1. D = board_via_epia_m
    BY TheRoutines DEF Routine
  <1>2. /\ Len(D) = 4 /\ \A j \in 1 .. 4 : Changes(D[j]) <=> j \in {2, 4}
        /\ Target(D[2]) = <<"pci", 0, \he4>> /\ RaisesBit(D[2], 4)
        /\ Target(D[4]) = <<"port", 0, \h4d>> /\ RaisesBit(D[4], 7)
        /\ \A k \in 1 .. 4 : D[k].do \in {"is", "skip"} => FALSE
    BY <1>1, EpiaWellMade
  <1>3. /\ Only(D[2], p1)
        /\ Only(D[4], p2)
    <2>1. Only(D[2], p1)
      <3>1. Target(D[2]) = <<"pci", 0, \he4>> /\ RaisesBit(D[2], 4)
        BY <1>2
      <3>. QED  BY <3>1, Raises, Zenon
    <2>2. Only(D[4], p2)
      <3>1. Target(D[4]) = <<"port", 0, \h4d>> /\ RaisesBit(D[4], 7)
        BY <1>2
      <3>. QED  BY <3>1, Raises, Zenon
    <2>. QED  BY <2>1, <2>2
  <1>4. \A p : (\E j \in 1 .. Len(D) : Changes(D[j]) /\ Passed(j) /\ p \in Wanted(D[j])) <=>
          \/ Passed(2) /\ p = p1
          \/ Passed(4) /\ p = p2
    <2>. HIDE DEF D, p1, p2
    <2>. QED  BY <1>2, <1>3 DEF Only
  <1>5. \A p : p \in Promise(board) <=> p = p1 \/ p = p2
    BY DEF Promise
  <1>6. Passed(2) /\ Passed(4)
    BY <1>2 DEF Passed, D
  <1>. HIDE DEF D, p1, p2
  <1>. QED  BY <1>4, <1>5, <1>6 DEF Promised, D

LEMMA P5aPromised ==
  ASSUME board = 6
  PROVE  Promised
  <1>. DEFINE D == Routine
  <1>. DEFINE p1 == <<<<"smbus", 0, 0>>, 1, FALSE>>
  <1>1. D = board_asus_p5a
    BY TheRoutines DEF Routine
  <1>2. /\ Len(D) = 5 /\ \A j \in 1 .. 5 : Changes(D[j]) <=> j \in {4}
        /\ Target(D[4]) = <<"smbus", 0, 0>> /\ LowersBit(D[4], 1)
        /\ \A k \in 1 .. 5 : D[k].do \in {"is", "skip"} => FALSE
    BY <1>1, P5aWellMade
  <1>3. /\ Only(D[4], p1)
    BY <1>2, Raises, Lowers, Zenon
  <1>4. \A p : (\E j \in 1 .. Len(D) : Changes(D[j]) /\ Passed(j) /\ p \in Wanted(D[j])) <=>
          \/ Passed(4) /\ p = p1
    <2>. HIDE DEF D, p1
    <2>. QED  BY <1>2, <1>3 DEF Only
  <1>5. \A p : p \in Promise(board) <=> p = p1
    BY DEF Promise
  <1>6. Passed(4)
    BY <1>2 DEF Passed, D
  <1>. HIDE DEF D, p1
  <1>. QED  BY <1>4, <1>5, <1>6 DEF Promised, D

LEMMA IbmPromised ==
  ASSUME board = 7
  PROVE  Promised
  <1>. DEFINE D == Routine
  <1>. DEFINE p1 == <<<<"gpio", 0, \h45>>, 5, TRUE>>
  <1>1. D = board_ibm_x3455
    BY TheRoutines DEF Routine
  <1>2. /\ Len(D) = 3 /\ \A j \in 1 .. 3 : Changes(D[j]) <=> j \in {3}
        /\ Target(D[3]) = <<"gpio", 0, \h45>> /\ RaisesBit(D[3], 5)
        /\ \A k \in 1 .. 3 : D[k].do \in {"is", "skip"} => FALSE
    BY <1>1, IbmWellMade
  <1>3. /\ Only(D[3], p1)
    BY <1>2, Raises, Lowers, Zenon
  <1>4. \A p : (\E j \in 1 .. Len(D) : Changes(D[j]) /\ Passed(j) /\ p \in Wanted(D[j])) <=>
          \/ Passed(3) /\ p = p1
    <2>. HIDE DEF D, p1
    <2>. QED  BY <1>2, <1>3 DEF Only
  <1>5. \A p : p \in Promise(board) <=> p = p1
    BY DEF Promise
  <1>6. Passed(3)
    BY <1>2 DEF Passed, D
  <1>. HIDE DEF D, p1
  <1>. QED  BY <1>4, <1>5, <1>6 DEF Promised, D

LEMMA EpoxPromised ==
  ASSUME board = 8
  PROVE  Promised
  <1>. DEFINE D == Routine
  <1>. DEFINE p1 == <<<<"port", 0, \h36>>, 6, TRUE>>
  <1>1. D = board_epox_ep_bx3
    BY TheRoutines DEF Routine
  <1>2. /\ Len(D) = 2 /\ \A j \in 1 .. 2 : Changes(D[j]) <=> j \in {2}
        /\ Target(D[2]) = <<"port", 0, \h36>> /\ RaisesBit(D[2], 6)
        /\ \A k \in 1 .. 2 : D[k].do \in {"is", "skip"} => FALSE
    BY <1>1, EpoxWellMade
  <1>3. /\ Only(D[2], p1)
    BY <1>2, Raises, Lowers, Zenon
  <1>4. \A p : (\E j \in 1 .. Len(D) : Changes(D[j]) /\ Passed(j) /\ p \in Wanted(D[j])) <=>
          \/ Passed(2) /\ p = p1
    <2>. HIDE DEF D, p1
    <2>. QED  BY <1>2, <1>3 DEF Only
  <1>5. \A p : p \in Promise(board) <=> p = p1
    BY DEF Promise
  <1>6. Passed(2)
    BY <1>2 DEF Passed, D
  <1>. HIDE DEF D, p1
  <1>. QED  BY <1>4, <1>5, <1>6 DEF Promised, D

LEMMA GpioPromised ==
  ASSUME board \in {1, 2}
  PROVE  Promised
  <1>. DEFINE D == Routine
  <1>. DEFINE p1 == <<<<"sio", -1, \h2b>>, 4, TRUE>>
              p2 == <<<<"sio", 8, \h30>>, 0, TRUE>>
              p3 == <<<<"sio", 8, \hf0>>, 4, FALSE>>
              p4 == <<<<"sio", 8, \hf2>>, 4, FALSE>>
              p5 == <<<<"sio", 8, \hf1>>, 4, TRUE>>
  <1>1. D = w83627hf_gpio24_raise
    BY TheRoutines DEF Routine
  <1>2. /\ Len(D) = 23 /\ \A j \in 1 .. 23 : Changes(D[j]) <=> j \in {8, 13, 16, 19, 22}
        /\ Target(D[8]) = <<"sio", -1, \h2b>> /\ RaisesBit(D[8], 4)
        /\ Target(D[13]) = <<"sio", 8, \h30>> /\ RaisesBit(D[13], 0)
        /\ Target(D[16]) = <<"sio", 8, \hf0>> /\ LowersBit(D[16], 4)
        /\ Target(D[19]) = <<"sio", 8, \hf2>> /\ LowersBit(D[19], 4)
        /\ Target(D[22]) = <<"sio", 8, \hf1>> /\ RaisesBit(D[22], 4)
        /\ \A k \in 1 .. 23 : D[k].do \in {"is", "skip"} => k = 5
        /\ D[5].do = "is" /\ Target(D[5]) = <<"sio", -1, \h20>> /\ D[5].set = {1, 4, 6}
    BY <1>1, GpioWellMade
  <1>3. /\ Only(D[8], p1)
        /\ Only(D[13], p2)
        /\ Only(D[16], p3)
        /\ Only(D[19], p4)
        /\ Only(D[22], p5)
    <2>1. Only(D[8], p1)
      <3>1. Target(D[8]) = <<"sio", -1, \h2b>> /\ RaisesBit(D[8], 4)
        BY <1>2
      <3>. QED  BY <3>1, Raises, Zenon
    <2>2. Only(D[13], p2)
      <3>1. Target(D[13]) = <<"sio", 8, \h30>> /\ RaisesBit(D[13], 0)
        BY <1>2
      <3>. QED  BY <3>1, Raises, Zenon
    <2>3. Only(D[16], p3)
      <3>1. Target(D[16]) = <<"sio", 8, \hf0>> /\ LowersBit(D[16], 4)
        BY <1>2
      <3>. QED  BY <3>1, Lowers, Zenon
    <2>4. Only(D[19], p4)
      <3>1. Target(D[19]) = <<"sio", 8, \hf2>> /\ LowersBit(D[19], 4)
        BY <1>2
      <3>. QED  BY <3>1, Lowers, Zenon
    <2>5. Only(D[22], p5)
      <3>1. Target(D[22]) = <<"sio", 8, \hf1>> /\ RaisesBit(D[22], 4)
        BY <1>2
      <3>. QED  BY <3>1, Raises, Zenon
    <2>. QED  BY <2>1, <2>2, <2>3, <2>4, <2>5
  <1>4. \A p : (\E j \in 1 .. Len(D) : Changes(D[j]) /\ Passed(j) /\ p \in Wanted(D[j])) <=>
          \/ Passed(8) /\ p = p1
          \/ Passed(13) /\ p = p2
          \/ Passed(16) /\ p = p3
          \/ Passed(19) /\ p = p4
          \/ Passed(22) /\ p = p5
    <2>. HIDE DEF D, p1, p2, p3, p4, p5
    <2>. QED  BY <1>2, <1>3 DEF Only
  <1>5. \A p : p \in Promise(board) <=>
          old[<<"sio", -1, \h20>>] = {1, 4, 6} /\ (p = p1 \/ p = p2 \/ p = p3 \/ p = p4 \/ p = p5)
    <2>1. BitsOf(\h52) = {1, 4, 6}
      BY BitValues
    <2>2. board # 3 /\ board \notin {4, 5} /\ board # 6 /\ board # 7
      OBVIOUS
    <2>3. Promise(board) = IF old[<<"sio", -1, \h20>>] # {1, 4, 6} THEN {} ELSE {p1, p2, p3, p4, p5}
      BY <2>1, <2>2, Zenon DEF Promise
    <2>. HIDE DEF p1, p2, p3, p4, p5
    <2>. QED  BY <2>3
  <1>6. \A j \in {8, 13, 16, 19, 22} : Passed(j) <=> old[<<"sio", -1, \h20>>] = {1, 4, 6}
    <2>1. \A j \in {8, 13, 16, 19, 22} :
            5 \in 1 .. j - 1 /\ \A i \in 1 .. j - 1 : i \in 1 .. 23
      OBVIOUS
    <2>2. ASSUME NEW j \in {8, 13, 16, 19, 22}, Passed(j)
          PROVE  old[<<"sio", -1, \h20>>] = {1, 4, 6}
      BY <1>2, <2>1, <2>2 DEF Passed, D
    <2>3. ASSUME NEW j \in {8, 13, 16, 19, 22}, old[<<"sio", -1, \h20>>] = {1, 4, 6}
          PROVE  Passed(j)
      <3>1. \A i \in 1 .. j - 1 : D[i].do # "skip" /\ (D[i].do = "is" => i = 5)
        BY <1>2, <2>1
      <3>2. \A i \in 1 .. j - 1 : D[i].do = "is" => old[Target(D[i])] = D[i].set
        <4>1. old[Target(D[5])] = D[5].set
          BY <1>2, <2>3
        <4>. HIDE DEF D
        <4>. QED  BY <3>1, <4>1
      <3>3. \A i \in 1 .. j - 1 : D[i].do = "skip" => D[i].set \cap old[Target(D[i])] = {}
        <4>. HIDE DEF D
        <4>. QED  BY <3>1, Zenon
      <3>. QED  BY <3>2, <3>3, Zenon DEF Passed, D
    <2>. QED  BY <2>2, <2>3
  <1>. HIDE DEF D, p1, p2, p3, p4, p5
  <1>7. /\ Passed(8) <=> old[<<"sio", -1, \h20>>] = {1, 4, 6}
        /\ Passed(13) <=> old[<<"sio", -1, \h20>>] = {1, 4, 6}
        /\ Passed(16) <=> old[<<"sio", -1, \h20>>] = {1, 4, 6}
        /\ Passed(19) <=> old[<<"sio", -1, \h20>>] = {1, 4, 6}
        /\ Passed(22) <=> old[<<"sio", -1, \h20>>] = {1, 4, 6}
    <2>. HIDE DEF D
    <2>. QED  BY <1>6
  <1>8. ASSUME NEW p
        PROVE  p \in Promise(board) <=>
                 \E j \in 1 .. Len(D) : Changes(D[j]) /\ Passed(j) /\ p \in Wanted(D[j])
    <2>1. (\E j \in 1 .. Len(D) : Changes(D[j]) /\ Passed(j) /\ p \in Wanted(D[j])) <=>
            \/ Passed(8) /\ p = p1
            \/ Passed(13) /\ p = p2
            \/ Passed(16) /\ p = p3
            \/ Passed(19) /\ p = p4
            \/ Passed(22) /\ p = p5
      BY <1>4, Zenon
    <2>2. p \in Promise(board) <=>
            old[<<"sio", -1, \h20>>] = {1, 4, 6} /\ (p = p1 \/ p = p2 \/ p = p3 \/ p = p4 \/ p = p5)
      BY <1>5, Zenon
    <2>. DEFINE good == old[<<"sio", -1, \h20>>] = {1, 4, 6}
    <2>3. /\ Passed(8) <=> good
          /\ Passed(13) <=> good
          /\ Passed(16) <=> good
          /\ Passed(19) <=> good
          /\ Passed(22) <=> good
      BY <1>7
    <2>4. p \in Promise(board) <=> good /\ (p = p1 \/ p = p2 \/ p = p3 \/ p = p4 \/ p = p5)
      BY <2>2, Zenon
    <2>. HIDE DEF good
    <2>. QED  BY <2>1, <2>3, <2>4, Zenon
  <1>. QED  BY <1>8, Zenon DEF Promised, D

LEMMA AsusPromised ==
  ASSUME board \in {4, 5}
  PROVE  Promised
  <1>. DEFINE D == Routine
  <1>. DEFINE p1 == <<<<"pci", 0, \h59>>, 7, FALSE>>
              p2 == <<<<"sio", -1, \h24>>, 3, TRUE>>
  <1>1. D = board_asus_a7v8x_mx
    BY TheRoutines DEF Routine
  <1>2. /\ Len(D) = 11 /\ \A j \in 1 .. 11 : Changes(D[j]) <=> j \in {2, 10}
        /\ Target(D[2]) = <<"pci", 0, \h59>> /\ LowersBit(D[2], 7)
        /\ Target(D[10]) = <<"sio", -1, \h24>> /\ RaisesBit(D[10], 3)
        /\ \A k \in 1 .. 11 : D[k].do \in {"is", "skip"} => k = 7
        /\ D[7].do = "skip" /\ Target(D[7]) = <<"sio", -1, \h24>> /\ D[7].set = {1}
    BY <1>1, AsusWellMade
  <1>3. /\ Only(D[2], p1)
        /\ Only(D[10], p2)
    <2>1. Only(D[2], p1)
      <3>1. Target(D[2]) = <<"pci", 0, \h59>> /\ LowersBit(D[2], 7)
        BY <1>2
      <3>. QED  BY <3>1, Lowers, Zenon
    <2>2. Only(D[10], p2)
      <3>1. Target(D[10]) = <<"sio", -1, \h24>> /\ RaisesBit(D[10], 3)
        BY <1>2
      <3>. QED  BY <3>1, Raises, Zenon
    <2>. QED  BY <2>1, <2>2
  <1>4. \A p : (\E j \in 1 .. Len(D) : Changes(D[j]) /\ Passed(j) /\ p \in Wanted(D[j])) <=>
          \/ Passed(2) /\ p = p1
          \/ Passed(10) /\ p = p2
    <2>. HIDE DEF D, p1, p2
    <2>. QED  BY <1>2, <1>3 DEF Only
  <1>5. \A p : p \in Promise(board) <=> p = p1 \/ (p = p2 /\ 1 \notin old[<<"sio", -1, \h24>>])
    <2>1. Promise(board) = {p1} \cup (IF 1 \in old[<<"sio", -1, \h24>>] THEN {} ELSE {p2})
      <3>1. board \notin {1, 2} /\ board # 3 /\ board # 6 /\ board # 7
        OBVIOUS
      <3>. QED  BY <3>1, Zenon DEF Promise
    <2>. HIDE DEF p1, p2
    <2>. QED  BY <2>1
  <1>6. Passed(2) /\ (Passed(10) <=> 1 \notin old[<<"sio", -1, \h24>>])
    BY <1>2 DEF Passed, D
  <1>. HIDE DEF D, p1, p2
  <1>. QED  BY <1>4, <1>5, <1>6 DEF Promised, D

LEMMA BoardsPromised ==
  ASSUME board \in 1 .. 8
  PROVE  Promised
  BY TheBoards, GpioPromised, AsusPromised, EpiaPromised, P5aPromised, IbmPromised, EpoxPromised

LEMMA NoGpio ==
  ASSUME board \in 1 .. 8, board # 7, NEW k \in 1 .. Len(Routine)
  PROVE  Routine[k].place # "gpio"
  <1>1. WellMade(Routine, K)
    BY RoutinesWellMade DEF Routine, K
  <1>2. CASE board \in {1, 2, 4, 5}
    BY <1>1, <1>2 DEF WellMade, BracketedAt, K, SecondKey
  <1>3. CASE board \in {3, 6, 8}
    <2>1. CASE board = 3
      BY <2>1, TheRoutines, EpiaWellMade DEF Routine
    <2>2. CASE board = 6
      BY <2>2, TheRoutines, P5aWellMade DEF Routine
    <2>3. CASE board = 8
      BY <2>3, TheRoutines, EpoxWellMade DEF Routine
    <2>. QED  BY <1>3, <2>1, <2>2, <2>3
  <1>. QED  BY <1>2, <1>3

\* OnlyWantedBits from any contents of the registers: no routine changes a bit
\* that its comments do not name, or otherwise than they say.
THEOREM OnlyWantedBitsChange == BoardSpec => []OnlyWantedBits
  <1>1. BoardInv => OnlyWantedBits
    <2>1. SUFFICES ASSUME BoardInv, board # 7 \/ others = 0, NEW r \in BoardRegisters, held[r] # old[r],
                          NEW b \in Differs(r)
                   PROVE  board # 0 /\ <<r, b, b \in held[r]>> \in Promise(board)
      BY DEF OnlyWantedBits, Differs
    <2>2. board # 0 /\ board \in 1 .. 8
      BY <2>1 DEF BoardInv, BoardTyped
    <2>3. Protected
      <3>1. board # 7 => \A k \in 1 .. Len(Routine) : Routine[k].place # "gpio"
        BY <2>2, NoGpio
      <3>. QED  BY <2>1, <3>1 DEF Protected
    <2>4. PICK j \in 1 .. Len(Routine) :
            LET a == Routine[j] IN
            /\ Changes(a) /\ Passed(j) /\ Target(a) = r
            /\ b \in a.clear \cup a.set /\ (b \in held[r] <=> b \in a.set)
      BY <2>1, <2>2, <2>3 DEF BoardInv, Justified
    <2>5. <<r, b, b \in Routine[j].set>> \in Wanted(Routine[j])
      BY <2>4 DEF Wanted
    <2>6. <<r, b, b \in Routine[j].set>> \in Promise(board)
      BY <2>2, <2>4, <2>5, BoardsPromised DEF Promised
    <2>7. (b \in held[r]) = (b \in Routine[j].set)
      BY <2>4
    <2>. QED  BY <2>2, <2>6, <2>7
  <1>. QED  BY <1>1, BoardInvHolds, PTL

\* ZeroMeansRaised from any contents of the registers: a routine that returns 0
\* and was not disturbed has done all that its comments name.
THEOREM ZeroIsRaised == BoardSpec => []ZeroMeansRaised
  <1>1. BoardInv => ZeroMeansRaised
    <2>1. SUFFICES ASSUME BoardInv, stage = "done", board # 0, result = 0, others = 0,
                          NEW p \in Promise(board)
                   PROVE  (p[2] \in held[p[1]]) = p[3]
      BY DEF ZeroMeansRaised
    <2>2. board \in 1 .. 8
      BY <2>1 DEF BoardInv, BoardTyped
    <2>3. PICK j \in 1 .. Len(Routine) :
            Changes(Routine[j]) /\ Passed(j) /\ p \in Wanted(Routine[j])
      BY <2>1, <2>2, BoardsPromised DEF Promised
    <2>4. PICK b \in Routine[j].clear \cup Routine[j].set :
            p = <<Target(Routine[j]), b, b \in Routine[j].set>>
      BY <2>3 DEF Wanted
    <2>5. Wrought(Routine[j])
      BY <2>1, <2>3 DEF BoardInv, Raised, Over
    <2>6. b \in held[Target(Routine[j])] <=> b \in Routine[j].set
      BY <2>5 DEF Wrought
    <2>. QED  BY <2>4, <2>6
  <1>. QED  BY <1>1, BoardInvHolds, PTL
=============================================================================
