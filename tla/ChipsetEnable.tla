---------------------------- MODULE ChipsetEnable ----------------------------
(***************************************************************************)
(* chipset_flash_enable: the first chipset of the table that is present,   *)
(* and the register updates of its routine, while the operating system or  *)
(* another driver writes the same registers.                               *)
(*                                                                         *)
(* A configuration access is one step here (PciConfig takes it apart).     *)
(* External: bits that do not take what is written, Super-IOs that do not  *)
(* answer and read as all ones.                                            *)
(***************************************************************************)
EXTENDS Integers, Sequences, Chipsets

CONSTANTS
  Present,           \* the sets of chipsets (and "smbus") that a machine may have
  InitialValues(_),  \* what the register of an update may hold at first
  StuckBits(_),      \* the sets of its bits that may not take
  Pokes(_),          \* the bits others may invert
  MaxPokes           \* bound: writes of others in a run

VARIABLES
  present,    \* external
  ops,        \* the routine found, <<>> before and when there is none
  regs, stuck,
  sio,        \* external: the Super-IOs that answer
  config,     \* the Super-IOs that were sent the keys and not the exit
  at, pc,     \* the update and its step: "find", "read", "write", "back", "done"
  new,        \* the value to write
  ret,        \* the result; -3 stands for exit(1) behind cleanup_driver
  foreign,    \* history: the registers as the others left them
  raced,      \* history: registers written by others between read and write
  pokes

vars == <<present, ops, regs, stuck, sio, config, at, pc, new, ret, foreign, raced, pokes>>
machine == <<present, stuck, sio>>
history == <<foreign, raced, pokes>>

Registers == UNION {{enables[i].doit[j].reg : j \in DOMAIN enables[i].doit} : i \in DOMAIN enables}

ASSUME PresentAssumption ==
  /\ MaxPokes \in Nat
  /\ \A p \in Present : p \subseteq {enables[i].name : i \in DOMAIN enables} \cup {"smbus"}

Init ==
  /\ present \in Present /\ ops = <<>> /\ regs = <<>> /\ stuck = <<>>
  /\ sio \in SUBSET {"sio2e", "sio4e"} /\ config = {}
  /\ at = 1 /\ pc = "find" /\ new = {} /\ ret = -2
  /\ foreign = <<>> /\ raced = {} /\ pokes = 0

Candidates == {i \in DOMAIN enables : enables[i].name \in present}
Found      == CHOOSE i \in Candidates : \A j \in Candidates : i <= j

\* external: a Super-IO that does not answer reads as ones and takes nothing
Deaf(u) == u.reg[1] \in {"sio2e", "sio4e"} \ sio

\* The registers of the routine get their values when it is known which they
\* are: what the machine holds elsewhere does not matter.
Powered(doit) ==
  LET updateOf(r) == doit[CHOOSE j \in DOMAIN doit : doit[j].reg = r]
      names == {doit[j].reg : j \in DOMAIN doit}
  IN /\ regs' \in {f \in [names -> UNION {InitialValues(doit[j]) : j \in DOMAIN doit}] :
                     \A r \in names : IF Deaf(updateOf(r)) THEN f[r] = Byte
                                      ELSE f[r] \in InitialValues(updateOf(r))}
     /\ stuck' \in {f \in [names -> UNION {StuckBits(doit[j]) : j \in DOMAIN doit} \cup {Byte}] :
                      \A r \in names : IF Deaf(updateOf(r)) THEN f[r] = Byte
                                       ELSE f[r] \in StuckBits(updateOf(r))}
     /\ foreign' = regs'

FindNothing ==
  /\ pc = "find" /\ Candidates = {}
  /\ pc' = "done"
  /\ UNCHANGED <<machine, config, ops, regs, at, new, ret, history>>

\* enable_flash_sb400: "SMBus device not found. aborting"
FindNoSmbus ==
  /\ pc = "find" /\ Candidates # {} /\ enables[Found].name = "SB400" /\ "smbus" \notin present
  /\ pc' = "done" /\ ret' = -3
  /\ UNCHANGED <<machine, config, ops, regs, at, new, history>>

FindChipset ==
  /\ pc = "find" /\ Candidates # {}
  /\ enables[Found].name = "SB400" => "smbus" \in present
  /\ ops' = enables[Found].doit
  /\ Powered(ops')
  /\ pc' = "read"
  /\ UNCHANGED <<present, sio, config, at, new, ret, raced, pokes>>

Op == ops[at]

\* An update is over: the next one, or the end of the routine.
GoOn(result) ==
  IF result # 0 \/ at = Len(ops)
    THEN pc' = "done" /\ ret' = result /\ UNCHANGED at
    ELSE pc' = "read" /\ at' = at + 1 /\ UNCHANGED ret

\* (mutant) The register gets the bits to be set and no others.
ChangedOverwrites(u, old) == u.set

Changed(u, old) == (old \ u.clear) \cup u.set

Read ==
  /\ pc = "read" /\ Op.after # "unlock"
  /\ LET c == Changed(Op, regs[Op.reg]) IN
       IF Op.after \in {"warn", "result"} /\ c = regs[Op.reg]
         THEN GoOn(0) /\ UNCHANGED new
         ELSE new' = c /\ pc' = "write" /\ UNCHANGED <<at, ret>>
  /\ UNCHANGED <<machine, config, ops, regs, history>>

\* The probe of the SiS 950: the keys to 0x2e, when it does not answer there to
\* 0x4e, else a failure, behind which nobody sends the exit.
Unlock ==
  /\ pc = "read" /\ Op.after = "unlock"
  /\ config' = config \cup {"sio2e"} \cup (IF "sio2e" \in sio THEN {} ELSE {"sio4e"})
  /\ IF "sio2e" \in sio THEN GoOn(0) /\ UNCHANGED new
     ELSE IF "sio4e" \in sio
            THEN new' = Changed(Op, regs[Op.reg]) /\ pc' = "write" /\ UNCHANGED <<at, ret>>
            ELSE GoOn(-1) /\ UNCHANGED new
  /\ UNCHANGED <<machine, ops, regs, history>>

\* (mutant) Only the Super-IO at 0x2e is sent the exit.
LeftFirst(place) == config \ ({place} \cap {"sio2e"})

\* Behind its register a Super-IO is sent the exit: 0x02 to its register 0x02.
Left(place) == config \ {place}

\* external: a register after a write
Taken(u) == (regs[u.reg] \cap stuck[u.reg]) \cup (new \ stuck[u.reg])

Write ==
  /\ pc = "write"
  /\ regs' = [regs EXCEPT ![Op.reg] = Taken(Op)]
  /\ config' = Left(Op.reg[1])
  /\ IF Op.after \in {"blind", "unlock"} THEN GoOn(0) ELSE pc' = "back" /\ UNCHANGED <<at, ret>>
  /\ UNCHANGED <<machine, ops, new, history>>

\* (mutant) A warning is returned as a failure.
ReadBackStrict ==
  /\ pc = "back"
  /\ GoOn(IF regs[Op.reg] # new \/ Op.after = "warn" THEN -1 ELSE 0)
  /\ UNCHANGED <<machine, config, ops, regs, new, history>>

ReadBack ==
  /\ pc = "back"
  /\ GoOn(IF regs[Op.reg] # new /\ Op.after # "warn" THEN -1 ELSE 0)
  /\ UNCHANGED <<machine, config, ops, regs, new, history>>

\* external: another driver, or the firmware, inverts a bit
Poke ==
  /\ pc \in {"read", "write", "back"} /\ pokes < MaxPokes
  /\ \E j \in DOMAIN ops : \E b \in Pokes(ops[j]) \ stuck[ops[j].reg] :
       LET r == ops[j].reg
           flip(v) == IF b \in v THEN v \ {b} ELSE v \cup {b}
       IN /\ ~Deaf(ops[j])
          /\ regs' = [regs EXCEPT ![r] = flip(@)]
          /\ foreign' = [foreign EXCEPT ![r] = flip(@)]
          /\ raced' = IF pc = "write" /\ Op.reg = r THEN raced \cup {r} ELSE raced
  /\ pokes' = pokes + 1
  /\ UNCHANGED <<machine, config, ops, at, pc, new, ret>>

Next == FindNothing \/ FindNoSmbus \/ FindChipset \/ Read \/ Unlock \/ Write \/ ReadBack \/ Poke

Spec == Init /\ [][Next]_vars
-----------------------------------------------------------------------------
(***************************************************************************)
(* What the result is worth when nobody interfered.  0: every update that  *)
(* was checked holds, and of the others no bit is missing but those that   *)
(* resist.  -1: a bit of the last update did resist, or no SiS 950         *)
(* answered; a failure is never reported of a chipset that took all.       *)
(***************************************************************************)
Missing(u) == (u.set \ regs[u.reg]) \cup (u.clear \cap regs[u.reg])
Checked(u) == u.after \in {"check", "result"}
ResultIsTrue ==
  (pc = "done" /\ pokes = 0) =>
    /\ ret = 0 => \A j \in DOMAIN ops :
                    \/ Missing(ops[j]) \subseteq IF Checked(ops[j]) THEN {} ELSE stuck[ops[j].reg]
                    \/ ops[j].after = "unlock" /\ "sio2e" \in sio
    /\ ret = -1 => \/ Checked(Op) /\ Missing(Op) # {}
                   \/ Op.after = "unlock" /\ sio = {}

(***************************************************************************)
(* The other bits of the registers are the ones the rest of the system put *)
(* there: a read-modify-write loses a change of somebody else only when it *)
(* fell between the read and the write of that register.                   *)
(***************************************************************************)
ForeignBitsKept ==
  \A j \in DOMAIN ops :
    LET u == ops[j]  others == u.width \ (u.set \cup u.clear) IN
    u.reg \notin raced => regs[u.reg] \cap others = foreign[u.reg] \cap others

(***************************************************************************)
(* No Super-IO that answers is left in its configuration mode, at          *)
(* whichever address the SiS 950 was found.  When none answered the result *)
(* is -1 and the keys stay sent: what listens there with another ID is not *)
(* covered.                                                                *)
(***************************************************************************)
ConfigurationLeft == pc = "done" => config \cap sio = {} /\ (ret = 0 => config = {})
=============================================================================
