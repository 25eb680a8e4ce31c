------------------------------- MODULE CpuProofs -------------------------------
(***************************************************************************)
(* Theorems about the hart, for every width, register file, instruction    *)
(* set encoding and bus that satisfy the assumptions of Cpu.tla.           *)
(***************************************************************************)
EXTENDS Cpu, TLAPS

USE WidthAssumption, LayoutAssumption, CountAssumption

(* The inductive invariant.  Counting names the local the batch computes   *)
(* with, in each phase.  NoCode: the member trapCode is never written      *)
(* (CPU.cpp:16), so every trap is entered with code 0.                     *)
LoopCounted ==
  phase = "loop" =>
    /\ cycle = (cyclel + iInst) % CounterMod /\ iInst <= instCount
    /\ iInst = 0 => ~InterruptsInFlight

ExitCounted ==
  phase = "exit" => cycle = (cyclel + Started) % CounterMod /\ Started <= instCount

NoCode == trapCode = 0

IInv == TypeOK /\ TrapConfined /\ NoCode /\ LoopCounted /\ ExitCounted

--------------------------------------------------------------------------------
(* Words. *)

(* A remainder by the word modulus is a word. *)
LEMMA RemainderIsWord == ASSUME NEW x \in Int PROVE x % WordMod \in Word
BY DEF Word

LEMMA CounterRemainder == ASSUME NEW x \in Int PROVE x % CounterMod \in 0 .. CounterMod - 1
OBVIOUS

(* Raising a bit that is down cannot overflow a word: bits 3 and 7 are     *)
(* within the lowest byte and the modulus is a multiple of 256.            *)
LEMMA RaiseBit3 == ASSUME NEW w \in Word PROVE w + Bit(~Flag(w, 8), 8) \in Word
BY DEF Word, Bit, Flag

LEMMA RaiseBit7 == ASSUME NEW w \in Word PROVE w + Bit(~Flag(w, 128), 128) \in Word
BY DEF Word, Bit, Flag

LEMMA PlusIsWord == ASSUME NEW a \in Word, NEW b \in Word PROVE Plus(a, b) \in Word
BY DEF Word, Plus

LEMMA SlotIsWord == ASSUME NEW a \in Word PROVE Slot(a) \in Word
BY DEF Word, Slot

LEMMA EvenIsWord == ASSUME NEW a \in Word PROVE a - (a % 2) \in Word
BY DEF Word

LEMMA MppIsPrivilege == ASSUME NEW w \in Word PROVE Mpp(w) \in 0 .. 3
<1>1. w \div MppUnit \in Int
  BY DEF Word
<1> QED
  BY <1>1 DEF Mpp

LEMMA TrapStatusIsWord ==
  ASSUME NEW w \in Word, NEW level \in 0 .. 3 PROVE TrapStatus(w, level) \in Word
<1>1. level * MppUnit \in Int /\ Bit(Mie(w), 128) \in Int
  BY DEF Bit
<1> QED
  BY <1>1 DEF TrapStatus, Word

(* A remainder below two laps of the counter. *)
LEMMA WithinTwoLaps ==
  ASSUME NEW x \in 0 .. 2 * CounterMod - 1
  PROVE  x % CounterMod = IF x < CounterMod THEN x ELSE x - CounterMod
OBVIOUS

(* Counting one more instruction, within a batch shorter than a lap. *)
LEMMA CountOneMore ==
  ASSUME NEW l \in 0 .. CounterMod - 1, NEW n \in 0 .. CounterMod - 2
  PROVE  (((l + n) % CounterMod) + 1) % CounterMod = (l + n + 1) % CounterMod
BY WithinTwoLaps

--------------------------------------------------------------------------------
(* What the parts of an action preserve. *)

LEMMA BatchSize ==
  ASSUME IInv, InLoop
  PROVE  iInst \in 0 .. CounterMod - 2 /\ instCount \in 1 .. CounterMod - 1 /\ iInst + 1 <= instCount
BY DEF IInv, TypeOK, InLoop

LEMMA NextCycleCounted ==
  ASSUME IInv, InLoop
  PROVE  NextCycle = (cyclel + (iInst + 1)) % CounterMod /\ NextCycle \in 0 .. CounterMod - 1
<1>1. iInst \in 0 .. CounterMod - 2
  BY BatchSize
<1>2. cyclel \in 0 .. CounterMod - 1 /\ cycle = (cyclel + iInst) % CounterMod
  BY DEF IInv, TypeOK, LoopCounted, InLoop
<1>3. (((cyclel + iInst) % CounterMod) + 1) % CounterMod = (cyclel + iInst + 1) % CounterMod
  BY <1>1, <1>2, CountOneMore
<1>4. cyclel + (iInst + 1) = cyclel + iInst + 1 /\ cycle + 1 \in Int
  BY <1>1, <1>2
<1> QED
  BY <1>2, <1>3, <1>4, CounterRemainder DEF NextCycle

LEMMA InstrFields ==
  ASSUME NEW i \in Instr
  PROVE  /\ i.fn \in FnOf(i.op) /\ {i.rd, i.rs1, i.rs2} \subseteq Regs
         /\ i.imm \in Word /\ i.csr \in CsrNames
BY DEF Instr

LEMMA RegisterWords ==
  ASSUME IInv, NEW r \in Regs PROVE gpr[r] \in Word
BY DEF IInv, TypeOK

LEMMA SmallWords ==
  /\ {0, 1, 4} \subseteq Word /\ WordMod - 1 \in Word /\ 0 \in Regs /\ ResetVector \in Word
  /\ 0 \in 0 .. CounterMod - 1 /\ 0 \in 0 .. HighMod - 1
BY DEF Word, Regs, ResetVector

LEMMA StateWords ==
  ASSUME IInv
  PROVE  /\ pc \in Word /\ rval \in Word /\ resv \in Word /\ priv \in 0 .. 3
         /\ csr \in [CsrWords -> Word] /\ csr["mepc"] \in Word /\ csr["mstatus"] \in Word
         /\ Plus(pc, 4) \in Word
BY SmallWords, PlusIsWord DEF IInv, TypeOK, CsrWords

(* An instruction that completes keeps the invariant, whatever it wrote. *)
LEMMA RetireKeeps ==
  ASSUME IInv, InLoop,
         NEW rd \in Regs, NEW value \in Word, NEW target \in Word,
         Retire(rd, value, target),
         csr' \in [CsrWords -> Word], priv' \in 0 .. 3, resv' \in Word
  PROVE  IInv'
<1> DEFINE done == iInst + 1
<1>1. done \in 1 .. CounterMod - 1 /\ done <= instCount
  BY BatchSize
<1>2. NextCycle = (cyclel + done) % CounterMod /\ NextCycle \in 0 .. CounterMod - 1
  BY NextCycleCounted
<1>3. gpr' \in [Regs -> Word]
  BY DEF Retire, IInv, TypeOK
<1>4. ~trapped /\ phase = "loop"
  BY DEF InLoop, IInv, TrapConfined
<1>5. TypeOK'
  BY <1>1, <1>2, <1>3 DEF Retire, IInv, TypeOK, trapVars
<1>6. TrapConfined' /\ NoCode' /\ ExitCounted'
  BY <1>4 DEF Retire, IInv, TrapConfined, NoCode, ExitCounted, trapVars
<1>7. LoopCounted'
  BY <1>1, <1>2 DEF Retire, LoopCounted
<1> QED
  BY <1>5, <1>6, <1>7 DEF IInv

(* So does one that traps: it is counted, and no interrupt was in flight   *)
(* if it is the first of its batch.                                        *)
LEMMA RaiseTrapKeeps ==
  ASSUME IInv, InLoop, NEW code, NEW value \in Word, RaiseTrap(code, value)
  PROVE  IInv'
<1> DEFINE done == iInst + 1
<1>1. done \in 1 .. CounterMod - 1 /\ done <= instCount
  BY BatchSize
<1>2. NextCycle = (cyclel + done) % CounterMod /\ NextCycle \in 0 .. CounterMod - 1
  BY NextCycleCounted
<1>3. TypeOK'
  BY <1>2 DEF RaiseTrap, Trap, IInv, TypeOK
<1>4. TrapConfined' /\ NoCode' /\ LoopCounted'
  BY DEF RaiseTrap, Trap, IInv, TrapConfined, NoCode, LoopCounted
<1>5. InterruptsInFlight' = InterruptsInFlight
  BY DEF RaiseTrap, InterruptsInFlight, Flag, Mie
<1>6. Started' = done
  BY <1>5 DEF Started, RaiseTrap, Trap, IInv, LoopCounted, InLoop
<1>7. ExitCounted'
  BY <1>1, <1>2, <1>6 DEF ExitCounted, RaiseTrap
<1> QED
  BY <1>3, <1>4, <1>7 DEF IInv

(* And a call that a Lua error unwinds: no trap was pending inside the loop. *)
LEMMA AbandonKeeps ==
  ASSUME IInv, InLoop, Abandon
  PROVE  IInv'
<1>1. ~trapped
  BY DEF InLoop, IInv, TrapConfined
<1>2. TypeOK'
  BY DEF Abandon, LeaveStep, IInv, TypeOK, archVars, trapVars, Word
<1>3. TrapConfined' /\ NoCode' /\ LoopCounted' /\ ExitCounted'
  BY <1>1 DEF Abandon, LeaveStep, IInv, TrapConfined, NoCode, LoopCounted, ExitCounted, trapVars
<1> QED
  BY <1>2, <1>3 DEF IInv

(* WFI leaves Step in the middle of the batch: no trap is pending there, so *)
(* none leaks out of the call.                                             *)
LEMMA WfiKeeps ==
  ASSUME IInv, InLoop, NEW i \in Instr, Wfi(i) PROVE IInv'
<1>1. ~trapped
  BY DEF InLoop, IInv, TrapConfined
<1>2. csr["mstatus"] + Bit(~Mie(csr["mstatus"]), 8) \in Word
  BY StateWords, RaiseBit3 DEF Mie
<1>3. csr' \in [CsrWords -> Word]
  BY <1>2, StateWords DEF Wfi
<1>4. TypeOK'
  BY <1>3, StateWords DEF Wfi, LeaveStep, IInv, TypeOK, trapVars, Word
<1>5. TrapConfined' /\ NoCode' /\ LoopCounted' /\ ExitCounted'
  BY <1>1 DEF Wfi, LeaveStep, IInv, TrapConfined, NoCode, LoopCounted, ExitCounted, trapVars
<1> QED
  BY <1>4, <1>5 DEF IInv

--------------------------------------------------------------------------------
(* Every instruction comes to one of four ends.  One that completes is one *)
(* of PreciseHart's kinds: it computes, accesses a CSR, jumps, returns     *)
(* from a trap, or accesses a device that resets the hart.                 *)

OneCsrWritten == csr' = csr \/ \E c \in CsrWords : csr' = [csr EXCEPT ![c] = csr'[c]]

Kind(rd, value, target) ==
  \/ target = Following(pc) /\ UNCHANGED <<csr, priv>>
  \/ target = Following(pc) /\ OneCsrWritten /\ UNCHANGED <<priv, resv>>
  \/ (rd = 0 \/ value = Following(pc)) /\ UNCHANGED <<csr, priv, resv>>
  \/ /\ rd = 0 /\ target = csr["mepc"] /\ priv' = Mpp(csr["mstatus"]) /\ resv' = resv
     /\ csr' = [csr EXCEPT !["mstatus"] = ReturnStatus(csr["mstatus"], priv)]
  \/ target = Following(ResetVector) /\ priv' = 3 /\ UNCHANGED <<csr, resv>>

Completed ==
  \E rd \in Regs, value \in Word, target \in Word :
    /\ Retire(rd, value, target)
    /\ Kind(rd, value, target)
    /\ csr' \in [CsrWords -> Word] /\ priv' \in 0 .. 3 /\ resv' \in Word

Trapped == \E code : \E value \in Word : RaiseTrap(code, value)

Outcome == Completed \/ Trapped \/ Abandon \/ \E i \in Instr : Wfi(i)

LEMMA CsrRetireIsOutcome ==
  ASSUME NEW rd \in Regs, NEW value \in Word, NEW target \in Word, Retire(rd, value, target),
         Kind(rd, value, target),
         csr' \in [CsrWords -> Word], priv' \in 0 .. 3, resv' \in Word
  PROVE  Outcome
BY DEF Completed, Outcome

LEMMA RetireIsOutcome ==
  ASSUME IInv,
         NEW rd \in Regs, NEW value \in Word, NEW target \in Word, Retire(rd, value, target),
         Kind(rd, value, target), csr' = csr, priv' \in 0 .. 3, resv' \in Word
  PROVE  Outcome
BY CsrRetireIsOutcome, StateWords

LEMMA RaiseTrapIsOutcome ==
  ASSUME NEW code, NEW value \in Word, RaiseTrap(code, value) PROVE Outcome
BY DEF Trapped, Outcome

LEMMA AbandonIsOutcome == Abandon => Outcome
BY DEF Outcome

LEMMA OutcomeKeeps == ASSUME IInv, InLoop, Outcome PROVE IInv'
BY RetireKeeps, RaiseTrapKeeps, AbandonKeeps, WfiKeeps DEF Outcome, Completed, Trapped

--------------------------------------------------------------------------------
(* The instructions. *)

LEMMA UpperOutcome ==
  ASSUME IInv, InLoop, NEW i \in Instr, Upper(i) PROVE Outcome
<1> DEFINE value == IF i.op = "lui" THEN i.imm ELSE Plus(pc, i.imm)
<1>1. i.rd \in Regs /\ i.imm \in Word
  BY InstrFields
<1>2. Plus(pc, 4) \in Word /\ value \in Word
  BY <1>1, StateWords, PlusIsWord
<1>3. Retire(i.rd, value, Plus(pc, 4)) /\ UNCHANGED <<csr, priv, resv>>
  BY DEF Upper
<1>4. Kind(i.rd, value, Plus(pc, 4))
  BY <1>3 DEF Kind, Following
<1> QED
  BY <1>1, <1>2, <1>3, <1>4, StateWords, RetireIsOutcome

LEMMA RegisterOutcome ==
  ASSUME IInv, InLoop, NEW i \in Instr, Register(i) PROVE Outcome
<1> DEFINE value == Alu(i.fn, gpr[i.rs1], IF i.op = "alu" THEN gpr[i.rs2] ELSE i.imm)
<1>1. i.rd \in Regs /\ i.imm \in Word /\ gpr[i.rs1] \in Word /\ gpr[i.rs2] \in Word
  BY InstrFields, RegisterWords
<1>2. i.fn \in AluOps
  BY InstrFields DEF FnOf, Register
<1>3. value \in Word
  BY <1>1, <1>2, AluAssumption
<1>4. Retire(i.rd, value, Plus(pc, 4)) /\ UNCHANGED <<csr, priv, resv>>
  BY DEF Register
<1>5. Kind(i.rd, value, Plus(pc, 4))
  BY <1>4 DEF Kind, Following
<1> QED
  BY <1>1, <1>3, <1>4, <1>5, StateWords, RetireIsOutcome

LEMMA JumpOutcome ==
  ASSUME IInv, InLoop, NEW i \in Instr, Jump(i) PROVE Outcome
<1> DEFINE to == IF i.op = "jal" THEN Plus(pc, i.imm) ELSE Plus(gpr[i.rs1], i.imm)
           target == IF i.op = "jal" THEN to ELSE to - (to % 2)
<1>1. i.rd \in Regs /\ i.imm \in Word /\ gpr[i.rs1] \in Word
  BY InstrFields, RegisterWords
<1>2. Plus(pc, 4) \in Word /\ Plus(pc, i.imm) \in Word /\ Plus(gpr[i.rs1], i.imm) \in Word
  BY <1>1, StateWords, PlusIsWord
<1>3. target \in Word
  BY <1>2, EvenIsWord
<1>4. Retire(i.rd, Plus(pc, 4), target) /\ UNCHANGED <<csr, priv, resv>>
  BY DEF Jump
<1>5. Kind(i.rd, Plus(pc, 4), target)
  BY <1>4 DEF Kind, Following
<1> QED
  BY <1>1, <1>2, <1>3, <1>4, <1>5, StateWords, RetireIsOutcome

LEMMA BranchOutcome ==
  ASSUME IInv, InLoop, NEW i \in Instr, Branch(i) PROVE Outcome
<1> DEFINE target == Plus(pc, IF Taken(i.fn, gpr[i.rs1], gpr[i.rs2]) THEN i.imm ELSE 4)
<1>1. target \in Word
  BY InstrFields, StateWords, SmallWords, PlusIsWord
<1>2. Retire(0, rval, target) /\ UNCHANGED <<csr, priv, resv>>
  BY DEF Branch
<1>3. Kind(0, rval, target)
  BY <1>2 DEF Kind
<1> QED
  BY <1>1, <1>2, <1>3, StateWords, SmallWords, RetireIsOutcome

LEMMA FenceOutcome ==
  ASSUME IInv, InLoop, NEW i \in Instr, Fence(i) PROVE Outcome
<1>1. Retire(0, rval, Plus(pc, 4)) /\ Plus(pc, 4) \in Word /\ UNCHANGED <<csr, priv, resv>>
  BY StateWords DEF Fence
<1>2. Kind(0, rval, Plus(pc, 4))
  BY <1>1 DEF Kind, Following
<1> QED
  BY <1>1, <1>2, StateWords, SmallWords, RetireIsOutcome

LEMMA AfterIsTyped ==
  ASSUME IInv, NEW r \in Reply PROVE PcAfter(r) \in Word /\ PrivAfter(r) \in 0 .. 3
BY StateWords, SmallWords, PlusIsWord DEF PcAfter, PrivAfter

(* What a device does to the hart while it answers decides the kind. *)
LEMMA AfterIsOfAKind ==
  ASSUME NEW r, NEW rd, NEW value, priv' = PrivAfter(r), UNCHANGED <<csr, resv>>
  PROVE  Kind(rd, value, PcAfter(r))
<1>1. CASE r.kind = "reset"
  BY <1>1 DEF PcAfter, PrivAfter, Kind, Following
<1>2. CASE r.kind # "reset"
  BY <1>2 DEF PcAfter, PrivAfter, Kind, Following
<1> QED
  BY <1>1, <1>2

LEMMA AddressIsWord ==
  ASSUME IInv, NEW i \in Instr PROVE DataAddress(i) \in Word
BY InstrFields, RegisterWords, PlusIsWord DEF DataAddress

LEMMA LoadOutcome ==
  ASSUME IInv, InLoop, NEW i \in Instr, NEW r \in Reply, Load(i, r) PROVE Outcome
<1>1. CASE RaiseTrap(ExceptionCode.LoadAccessFault, DataAddress(i))
  BY <1>1, AddressIsWord, RaiseTrapIsOutcome
<1>2. CASE Abandon
  BY <1>2, AbandonIsOutcome
<1>3. CASE /\ Retire(i.rd, Extend(i.fn, r.value), PcAfter(r))
           /\ priv' = PrivAfter(r) /\ UNCHANGED <<csr, resv>>
  <2>1. i.fn \in LoadOps
    BY InstrFields DEF Load, FnOf
  <2>2. Extend(i.fn, r.value) \in Word
    BY <2>1, ExtendAssumption DEF Reply
  <2>3. Kind(i.rd, Extend(i.fn, r.value), PcAfter(r))
    BY <1>3, AfterIsOfAKind
  <2> QED
    BY <1>3, <2>2, <2>3, InstrFields, StateWords, AfterIsTyped, RetireIsOutcome
<1> QED
  BY <1>1, <1>2, <1>3 DEF Load

LEMMA StoreOutcome ==
  ASSUME IInv, InLoop, NEW i \in Instr, NEW r \in Reply, Store(i, r) PROVE Outcome
<1>1. CASE RaiseTrap(ExceptionCode.StoreAccessFault, DataAddress(i))
  BY <1>1, AddressIsWord, RaiseTrapIsOutcome
<1>2. CASE Abandon
  BY <1>2, AbandonIsOutcome
<1>3. CASE Retire(0, rval, PcAfter(r)) /\ priv' = PrivAfter(r) /\ UNCHANGED <<csr, resv>>
  <2>1. Kind(0, rval, PcAfter(r))
    BY <1>3, AfterIsOfAKind
  <2> QED
    BY <1>3, <2>1, StateWords, SmallWords, AfterIsTyped, RetireIsOutcome
<1> QED
  BY <1>1, <1>2, <1>3 DEF Store

LEMMA AmoResultIsWord ==
  ASSUME NEW i \in Instr, NEW r \in Reply PROVE AmoResult(i, r) \in Word
BY SmallWords DEF AmoResult, Reply, Bit

LEMMA AmoReadOutcome ==
  ASSUME IInv, InLoop, NEW i \in Instr, NEW r \in Reply, AmoRead(i, r) PROVE Outcome
<1>1. CASE RaiseTrap(ExceptionCode.LoadAccessFault, DataAddress(i))
  BY <1>1, AddressIsWord, RaiseTrapIsOutcome
<1>2. CASE Abandon
  BY <1>2, AbandonIsOutcome
<1>3. CASE RaiseTrap(ExceptionCode.IllegalInstruction, r.value)
  BY <1>3, RaiseTrapIsOutcome DEF Reply
<1>4. CASE /\ Retire(i.rd, AmoResult(i, r), Plus(pc, 4))
           /\ resv' = IF i.fn = "lr" THEN Slot(gpr[i.rs1]) ELSE resv
           /\ UNCHANGED <<csr, priv>>
  <2>1. i.rd \in Regs /\ gpr[i.rs1] \in Word
    BY InstrFields, RegisterWords
  <2>2. Plus(pc, 4) \in Word /\ resv' \in Word
    BY <1>4, <2>1, StateWords, SlotIsWord
  <2>3. Kind(i.rd, AmoResult(i, r), Plus(pc, 4))
    BY <1>4 DEF Kind, Following
  <2> QED
    BY <1>4, <2>1, <2>2, <2>3, StateWords, AmoResultIsWord, RetireIsOutcome
<1> QED
  BY <1>1, <1>2, <1>3, <1>4 DEF AmoRead

LEMMA AmoWriteOutcome ==
  ASSUME IInv, InLoop, NEW i \in Instr, NEW r \in Reply, NEW w \in Reply, AmoWrite(i, r, w)
  PROVE  Outcome
<1>1. CASE RaiseTrap(ExceptionCode.StoreAccessFault, AmoResult(i, r))
  BY <1>1, AmoResultIsWord, RaiseTrapIsOutcome
<1>2. CASE Abandon
  BY <1>2, AbandonIsOutcome
<1>3. CASE /\ Retire(i.rd, AmoResult(i, r), PcAfter(w))
           /\ priv' = PrivAfter(w) /\ UNCHANGED <<csr, resv>>
  <2>1. Kind(i.rd, AmoResult(i, r), PcAfter(w))
    BY <1>3, AfterIsOfAKind
  <2> QED
    BY <1>3, <2>1, InstrFields, StateWords, AmoResultIsWord, AfterIsTyped, RetireIsOutcome
<1> QED
  BY <1>1, <1>2, <1>3 DEF AmoWrite

LEMMA CsrValueIsWord ==
  ASSUME IInv, InLoop, NEW c \in CsrNames PROVE CsrValue(c) \in Word
<1>1. NextCycle \in Word
  BY NextCycleCounted DEF Word
<1>2. CASE c \in CsrWords
  BY <1>2, StateWords DEF CsrValue, CsrWords
<1>3. CASE c = "cycle"
  BY <1>1, <1>3 DEF CsrValue, CsrWords
<1>4. CASE c = "unknown"
  BY <1>4, StateWords DEF CsrValue, CsrWords
<1>5. CASE c = "mvendorid" \/ c = "misa"
  BY <1>5 DEF CsrValue, CsrWords
<1> QED
  BY <1>2, <1>3, <1>4, <1>5 DEF CsrNames

LEMMA CsrAccessOutcome ==
  ASSUME IInv, InLoop, NEW i \in Instr, CsrAccess(i) PROVE Outcome
<1> DEFINE old == CsrValue(i.csr)
           src == IF i.op = "csri" THEN i.imm ELSE gpr[i.rs1]
           new == CASE i.fn = "rw" -> src
                    [] i.fn = "rs" -> Alu("or", old, src)
                    [] i.fn = "rc" -> Alu("and", old, WordMod - 1 - src)
<1>1. i.rd \in Regs /\ src \in Word
  BY InstrFields, RegisterWords
<1>2. old \in Word
  BY InstrFields, CsrValueIsWord
<1>3. i.fn \in {"rw", "rs", "rc"}
  BY InstrFields DEF CsrAccess, FnOf
<1>4. WordMod - 1 - src \in Word
  BY <1>1 DEF Word
<1>5. new \in Word
  <2> HIDE DEF old, src
  <2> QED
    BY <1>1, <1>2, <1>3, <1>4, AluAssumption
<1>6. /\ Retire(i.rd, old, Plus(pc, 4))
      /\ csr' = IF i.csr \in CsrWords THEN [csr EXCEPT ![i.csr] = new] ELSE csr
      /\ UNCHANGED <<priv, resv>>
  BY DEF CsrAccess
<1> HIDE DEF old, new
<1>7. csr' \in [CsrWords -> Word] /\ OneCsrWritten
  BY <1>5, <1>6, StateWords DEF OneCsrWritten
<1>8. Kind(i.rd, old, Plus(pc, 4))
  BY <1>6, <1>7 DEF Kind, Following
<1> QED
  BY <1>1, <1>2, <1>6, <1>7, <1>8, StateWords, CsrRetireIsOutcome

LEMMA MretOutcome ==
  ASSUME IInv, InLoop, NEW i \in Instr, Mret(i) PROVE Outcome
<1>1. priv * MppUnit \in Int
  BY StateWords
<1>2. Bit(Mpie(csr["mstatus"]), 8) + priv * MppUnit + 128 \in Int
  BY <1>1 DEF Bit
<1>3. MretStatus \in Word
  BY <1>2, RemainderIsWord DEF MretStatus, ReturnStatus
<1>4. csr' \in [CsrWords -> Word] /\ priv' \in 0 .. 3 /\ resv' \in Word
  BY <1>3, StateWords, MppIsPrivilege DEF Mret
<1>5. Kind(0, rval, csr["mepc"])
  BY DEF Mret, MretStatus, Kind
<1>6. Retire(0, rval, csr["mepc"])
  BY DEF Mret
<1> QED
  BY <1>4, <1>5, <1>6, StateWords, SmallWords, CsrRetireIsOutcome

LEMMA ExceptionOutcome ==
  ASSUME IInv, InLoop, NEW i \in Instr, Exception(i) PROVE Outcome
<1>1. \E code : RaiseTrap(code, rval)
  BY DEF Exception
<1> QED
  BY <1>1, StateWords, RaiseTrapIsOutcome

(* One iteration of the loop, whatever the bus answers. *)
LEMMA IterationOutcome == ASSUME IInv, Iteration PROVE InLoop /\ Outcome
<1>1. CASE FetchMisaligned
  BY <1>1, StateWords, RaiseTrapIsOutcome DEF FetchMisaligned
<1>2. ASSUME NEW r \in PeekReplies(pc), FetchFault(r) PROVE InLoop /\ Outcome
  BY <1>2, StateWords, RaiseTrapIsOutcome DEF FetchFault
<1>3. ASSUME NEW r \in PeekReplies(pc), FetchError(r) PROVE InLoop /\ Outcome
  BY <1>3, AbandonIsOutcome DEF FetchError
<1>4. ASSUME NEW r \in PeekReplies(pc), Fetched(r),
             Internal(Decode(r.value)) \/ External(Decode(r.value))
      PROVE  InLoop /\ Outcome
  <2> DEFINE i == Decode(r.value)
  <2>1. InLoop /\ r \in Reply
    BY <1>4, StateWords, BusAssumption DEF Fetched
  <2>2. i \in Instr
    BY <2>1, DecodeAssumption DEF Reply
  <2>3. DataAddress(i) \in Word
    BY <2>2, AddressIsWord
  <2>4. PeekReplies(DataAddress(i)) \subseteq Reply /\ PokeReplies(DataAddress(i)) \subseteq Reply
    BY <2>3, BusAssumption
  <2> HIDE DEF i
  <2>5. CASE Internal(i)
    BY <2>1, <2>2, <2>5, UpperOutcome, RegisterOutcome, JumpOutcome, BranchOutcome, FenceOutcome,
       CsrAccessOutcome, MretOutcome, ExceptionOutcome DEF Internal, Outcome
  <2>6. CASE External(i)
    BY <2>1, <2>2, <2>4, <2>6, LoadOutcome, StoreOutcome, AmoReadOutcome, AmoWriteOutcome DEF External
  <2> QED
    BY <1>4, <2>5, <2>6 DEF i
<1> QED
  BY <1>1, <1>2, <1>3, <1>4 DEF Iteration

LEMMA IterationKeeps == ASSUME IInv, Iteration PROVE IInv'
BY IterationOutcome, OutcomeKeeps

--------------------------------------------------------------------------------
(* The two ends of Step, and the calls of others. *)

LEMMA StepBeginKeeps == ASSUME IInv, StepBegin PROVE IInv'
<1>1. cyclel \in 0 .. CounterMod - 1 /\ cyclel % CounterMod = cyclel
  BY DEF IInv, TypeOK
<1>2. instructionCount \in 1 .. CounterMod - 1
  BY DEF IInv, TypeOK
<1>3. InterruptsInFlight' = InterruptsInFlight
  BY DEF StepBegin, InterruptsInFlight, Flag, Mie
<1>4. ~trapped
  BY DEF StepBegin, IInv, TrapConfined
<1>5. TypeOK'
  <2>1. trapped' \in BOOLEAN /\ trapCode' \in Word /\ wfi' \in BOOLEAN /\ phase' \in {"loop", "exit"}
    BY <1>4 DEF StepBegin, Trap, trapVars, IInv, TypeOK
  <2>2. instCount' \in InstructionCounts /\ iInst' = 0 /\ cycle' \in 0 .. CounterMod - 1 /\ rval' \in Word
    BY SmallWords DEF StepBegin, IInv, TypeOK
  <2> QED
    BY <2>1, <2>2 DEF StepBegin, IInv, TypeOK
<1>6. TrapConfined' /\ NoCode'
  BY <1>4 DEF StepBegin, Trap, trapVars, IInv, TrapConfined, NoCode
<1>7. LoopCounted'
  BY <1>1, <1>2, <1>3 DEF StepBegin, LoopCounted
<1>8. phase' = "exit" => Started' = 0
  BY <1>3 DEF StepBegin, Trap, Started
<1>9. ExitCounted'
  BY <1>1, <1>2, <1>8 DEF StepBegin, ExitCounted
<1> QED
  BY <1>5, <1>6, <1>7, <1>9 DEF IInv

LEMMA LoopDoneKeeps == ASSUME IInv, LoopDone PROVE IInv'
<1>1. ~trapped
  BY DEF LoopDone, IInv, TrapConfined
<1>2. TypeOK' /\ TrapConfined' /\ NoCode' /\ LoopCounted'
  BY <1>1 DEF LoopDone, archVars, trapVars, IInv, TypeOK, TrapConfined, NoCode, LoopCounted
<1>3. Started' = iInst
  BY <1>1 DEF LoopDone, trapVars, Started
<1>4. ExitCounted'
  BY <1>3 DEF LoopDone, IInv, LoopCounted, ExitCounted
<1> QED
  BY <1>2, <1>4 DEF IInv

LEMMA EnterHandlerIsTyped ==
  ASSUME IInv, EnterHandler PROVE csr' \in [CsrWords -> Word] /\ pc' \in Word /\ priv' = 3
<1>1. trapCode \in Word /\ csr["mtvec"] \in Word
  BY DEF IInv, TypeOK, CsrWords
<1>2. TrapPc \in Word /\ TrapValue \in Word
  BY StateWords, SmallWords DEF TrapPc, TrapValue
<1>3. TrapStatus(csr["mstatus"], priv) \in Word
  BY StateWords, TrapStatusIsWord
<1> QED
  BY <1>1, <1>2, <1>3, StateWords DEF EnterHandler

LEMMA StepEndKeeps == ASSUME IInv, StepEnd PROVE IInv'
<1>1. csr' \in [CsrWords -> Word] /\ pc' \in Word /\ priv' \in 0 .. 3
  BY EnterHandlerIsTyped, StateWords DEF StepEnd
<1>2. ~trapped' /\ trapCode' = 0
  BY DEF StepEnd, EnterHandler, IInv, NoCode, trapVars
<1>3. cycleh' \in 0 .. HighMod - 1
  BY DEF StepEnd, IInv, TypeOK, Carry, Bit
<1>4. TypeOK'
  <2>1. /\ instCount' = 0 /\ rval' \in Word /\ phase' = "idle"
        /\ {iInst', cycle'} \subseteq 0 .. CounterMod - 1
    BY SmallWords DEF StepEnd, LeaveStep
  <2>2. cyclel' \in 0 .. CounterMod - 1 /\ trapped' = FALSE /\ trapCode' \in Word
    BY <1>2, SmallWords DEF StepEnd, EnterHandler, IInv, TypeOK, trapVars
  <2> QED
    BY <1>1, <1>3, <2>1, <2>2, StateWords DEF StepEnd, IInv, TypeOK
<1>5. TrapConfined' /\ NoCode' /\ LoopCounted' /\ ExitCounted'
  BY <1>2 DEF StepEnd, LeaveStep, TrapConfined, NoCode, LoopCounted, ExitCounted
<1> QED
  BY <1>4, <1>5 DEF IInv

LEMMA HostKeeps == ASSUME IInv, Host PROVE IInv'
<1>1. CASE StepWaiting
  BY <1>1 DEF StepWaiting, cpuVars, archVars, trapVars, stepVars, IInv, TypeOK, TrapConfined,
              NoCode, LoopCounted, ExitCounted, Started, InterruptsInFlight
<1>2. CASE TimerInterrupt
  <2>1. csr["mip"] + Bit(~Flag(csr["mip"], 128), 128) \in Word
    BY RaiseBit7 DEF IInv, TypeOK, CsrWords
  <2>2. csr' \in [CsrWords -> Word]
    BY <1>2, <2>1, StateWords DEF TimerInterrupt
  <2> QED
    BY <1>2, <2>2 DEF TimerInterrupt, trapVars, stepVars, IInv, TypeOK, TrapConfined, NoCode,
                      LoopCounted, ExitCounted
<1>3. CASE Reset
  BY <1>3, SmallWords DEF Reset, trapVars, stepVars, IInv, TypeOK, TrapConfined, NoCode,
                          LoopCounted, ExitCounted
<1>4. ASSUME NEW n \in InstructionCounts, SetInstructionCount(n) PROVE IInv'
  <2>1. InterruptsInFlight' = InterruptsInFlight
    BY <1>4 DEF SetInstructionCount, archVars, InterruptsInFlight, Flag, Mie
  <2> QED
    BY <1>4, <2>1 DEF SetInstructionCount, archVars, trapVars, stepVars, IInv, TypeOK,
                      TrapConfined, NoCode, LoopCounted, ExitCounted
<1> QED
  BY <1>1, <1>2, <1>3, <1>4 DEF Host

LEMMA InitIInv == Init => IInv
<1> SUFFICES ASSUME Init PROVE IInv
  OBVIOUS
<1>1. TypeOK
  <2>1. gpr \in [Regs -> Word] /\ csr \in [CsrWords -> Word]
    BY SmallWords DEF Init
  <2>2. pc \in Word /\ resv \in Word
    BY SmallWords DEF Init
  <2>3. priv \in 0 .. 3
    BY DEF Init
  <2>4. wfi \in BOOLEAN
    BY DEF Init
  <2>5. cyclel \in 0 .. CounterMod - 1 /\ cycleh \in 0 .. HighMod - 1
    BY SmallWords DEF Init
  <2>6. trapped \in BOOLEAN /\ trapCode \in Word /\ rval \in Word
    BY SmallWords DEF Init
  <2>7. instCount \in {0} /\ iInst \in 0 .. CounterMod - 1 /\ cycle \in 0 .. CounterMod - 1
    BY SmallWords DEF Init
  <2>8. instructionCount \in InstructionCounts /\ phase = "idle"
    BY DEF Init
  <2> QED
    BY <2>1, <2>2, <2>5, <2>6, <2>7, <2>8, <2>3, <2>4 DEF TypeOK
<1>2. TrapConfined /\ NoCode /\ LoopCounted /\ ExitCounted
  BY DEF Init, TrapConfined, NoCode, LoopCounted, ExitCounted
<1> QED
  BY <1>1, <1>2 DEF IInv

LEMMA NextIInv == IInv /\ [Next]_cpuVars => IInv'
<1> SUFFICES ASSUME IInv, [Next]_cpuVars PROVE IInv'
  OBVIOUS
<1>1. CASE UNCHANGED cpuVars
  BY <1>1 DEF cpuVars, archVars, trapVars, stepVars, IInv, TypeOK, TrapConfined,
              NoCode, LoopCounted, ExitCounted, Started, InterruptsInFlight
<1>2. CASE Step
  BY <1>2, StepBeginKeeps, IterationKeeps, LoopDoneKeeps, StepEndKeeps DEF Step
<1>3. CASE Host
  BY <1>3, HostKeeps
<1> QED
  BY <1>1, <1>2, <1>3 DEF Next

(* The hart never leaves the invariant. *)
THEOREM Invariant == Spec => []IInv
BY InitIInv, NextIInv, PTL DEF Spec

(* Every field keeps its type: registers, CSRs, counters and the locals of *)
(* Step stay within their words whatever code runs.                        *)
THEOREM TypeCorrect == Spec => []TypeOK
BY Invariant, PTL DEF IInv

(* No early return, unwound call or interleaved call of the host leaves a  *)
(* trap pending outside Step.                                              *)
THEOREM TrapsAreConfined == Spec => []TrapConfined
BY Invariant, PTL DEF IInv

LEMMA CountedFromIInv == IInv => CycleCounted
<1> SUFFICES ASSUME IInv PROVE CycleCounted
  OBVIOUS
<1>1. phase = "loop" => Started = iInst
  BY DEF IInv, TrapConfined, Started
<1>2. phase \in {"idle", "loop", "exit"}
  BY DEF IInv, TypeOK
<1> QED
  BY <1>1, <1>2 DEF IInv, LoopCounted, ExitCounted, CycleCounted

(* The cycle local counts the instructions of the batch, however it ends. *)
THEOREM CyclesAreCounted == Spec => []CycleCounted
BY Invariant, CountedFromIInv, PTL

--------------------------------------------------------------------------------
(* The 64-bit counter. *)

LEMMA RemainderOfSmall ==
  ASSUME NEW m \in Nat \ {0}, NEW x \in 0 .. m - 1 PROVE x % m = x
OBVIOUS

LEMMA RemainderAfterWrap ==
  ASSUME NEW m \in Nat \ {0}, NEW x \in 0 .. m - 1 PROVE (m + x) % m = x
OBVIOUS

(* Adding less than a lap to the two halves, as the code does at the end   *)
(* of Step, adds it to the 64-bit number they stand for.                   *)
LEMMA CarryIsRight ==
  ASSUME NEW h \in 0 .. HighMod - 1, NEW l \in 0 .. CounterMod - 1, NEW n \in 0 .. CounterMod - 1,
         NEW c, c = (l + n) % CounterMod
  PROVE  ((h + Bit(l > c, 1)) % HighMod) * CounterMod + c = (h * CounterMod + l + n) % CountMod
<1> DEFINE k == Bit(l > c, 1)
<1>1. c = IF l + n < CounterMod THEN l + n ELSE l + n - CounterMod
  BY WithinTwoLaps
<1>2. c \in 0 .. CounterMod - 1
  BY <1>1
<1>3. k \in {0, 1} /\ l + n = k * CounterMod + c
  BY <1>1 DEF Bit
<1>4. h * CounterMod \in Nat /\ (h + k) * CounterMod = h * CounterMod + k * CounterMod
  BY <1>3
<1>5. h * CounterMod + l + n = (h + k) * CounterMod + c
  BY <1>2, <1>3, <1>4
<1>6. CountMod \in Nat \ {0} /\ CounterMod <= CountMod
  BY DEF CountMod
<1> HIDE DEF k
<1>7. CASE h + k < HighMod
  <2>1. (h + k) % HighMod = h + k
    <3>1. HighMod \in Nat \ {0} /\ h + k \in 0 .. HighMod - 1
      BY <1>3, <1>7
    <3> QED
      BY <3>1, RemainderOfSmall
  <2>2. (h + k) * CounterMod <= (HighMod - 1) * CounterMod
    BY <1>3, <1>7
  <2>3. (HighMod - 1) * CounterMod = CountMod - CounterMod /\ (h + k) * CounterMod \in Nat
    BY <1>3 DEF CountMod
  <2>4. (h + k) * CounterMod + c \in 0 .. CountMod - 1
    BY <1>2, <1>6, <2>2, <2>3
  <2> QED
    BY <1>5, <1>6, <2>1, <2>4, RemainderOfSmall DEF k
<1>8. CASE h + k = HighMod
  <2>1. (h + k) % HighMod = 0
    BY <1>8
  <2>2. (h + k) * CounterMod = CountMod
    BY <1>8 DEF CountMod
  <2>3. (CountMod + c) % CountMod = c
    BY <1>2, <1>6, RemainderAfterWrap
  <2> QED
    BY <1>2, <1>5, <2>1, <2>2, <2>3 DEF k
<1> QED
  BY <1>3, <1>7, <1>8

LEMMA BatchAdded ==
  ASSUME IInv, StepEnd
  PROVE  Count' = (Count + Started) % CountMod /\ Started \in 0 .. CounterMod - 1
<1>1. Started <= instCount /\ cycle = (cyclel + Started) % CounterMod
  BY DEF IInv, ExitCounted, StepEnd
<1>2. Started \in 0 .. CounterMod - 1
  BY <1>1 DEF IInv, TypeOK, Started
<1>3. cycleh \in 0 .. HighMod - 1 /\ cyclel \in 0 .. CounterMod - 1
  BY DEF IInv, TypeOK
<1>4. Count' = ((cycleh + Bit(cyclel > cycle, 1)) % HighMod) * CounterMod + cycle
  BY DEF StepEnd, Count, Carry
<1> QED
  BY <1>1, <1>2, <1>3, <1>4, CarryIsRight DEF Count

LEMMA OnlyStepEndLeavesExit ==
  ASSUME Next, phase = "exit", phase' = "idle" PROVE StepEnd
BY DEF Next, Step, Host, StepBegin, Iteration, FetchMisaligned, FetchFault, FetchError, Fetched,
       InLoop, LoopDone, StepWaiting, TimerInterrupt, Reset, SetInstructionCount, stepVars, cpuVars

(* One Step adds to the 64-bit counter exactly the instructions it started, *)
(* across every wrap of the low half and of the whole.                     *)
THEOREM CounterIsRight == Spec => CounterAdvances
<1>1. IInv /\ [Next]_cpuVars =>
        [phase = "exit" /\ phase' = "idle" => Count' = (Count + Started) % CountMod]_cpuVars
  BY BatchAdded, OnlyStepEndLeavesExit
<1> QED
  BY <1>1, Invariant, PTL DEF Spec, CounterAdvances

--------------------------------------------------------------------------------
(* The hart takes traps precisely: Cpu implements PreciseHart.             *)

LEMMA InitRefines == Init => Precise!HartInit
<1> SUFFICES ASSUME Init PROVE Precise!HartInit
  OBVIOUS
<1>1. Count = 0
  BY WidthAssumption DEF Init, Count
<1>2. /\ gpr = [r \in Regs |-> 0] /\ pc = ResetVector /\ csr = [c \in CsrWords |-> 0]
      /\ priv = 3 /\ resv = 0 /\ trapped = FALSE
  BY DEF Init
<1> QED
  BY <1>1, <1>2 DEF Precise!HartInit

LEMMA NotTrappedInLoop == ASSUME IInv, InLoop PROVE trapped = FALSE
BY DEF InLoop, IInv, TypeOK, TrapConfined

(* The write-back is to one register other than x0, or to none. *)
LEMMA WriteBack ==
  ASSUME IInv, NEW rd \in Regs, NEW value \in Word, NEW target, Retire(rd, value, target)
  PROVE  gpr' = gpr \/ \E r \in Regs \ {0} : Precise!Sets(r) /\ r = rd /\ gpr'[r] = value
<1>1. gpr \in [Regs -> Word]
  BY DEF IInv, TypeOK
<1>2. CASE rd = 0
  BY <1>2 DEF Retire
<1>3. CASE rd # 0
  <2>1. gpr' = [gpr EXCEPT ![rd] = value] /\ rd \in Regs \ {0}
    BY <1>3 DEF Retire
  <2>2. gpr'[rd] = value
    BY <1>1, <2>1
  <2>3. Precise!Sets(rd)
    BY <2>1, <2>2 DEF Precise!Sets
  <2> QED
    BY <2>1, <2>2, <2>3
<1> QED
  BY <1>2, <1>3

(* A completed instruction is a whole instruction of its kind. *)
LEMMA CompletedRefines ==
  ASSUME IInv, InLoop, Completed PROVE Precise!Complete
<1> PICK rd \in Regs, value \in Word, target \in Word :
      /\ Retire(rd, value, target)
      /\ Kind(rd, value, target)
      /\ csr' \in [CsrWords -> Word] /\ priv' \in 0 .. 3 /\ resv' \in Word
  BY DEF Completed
<1>1. Precise!Completes /\ pc' = target
  BY NotTrappedInLoop DEF Retire, trapVars, Count, Precise!Completes
<1>2. Precise!WritesRegister
  BY WriteBack DEF Precise!WritesRegister
<1>3. CASE target = Following(pc) /\ UNCHANGED <<csr, priv>>
  BY <1>1, <1>2, <1>3 DEF Precise!Compute, Precise!Complete
<1>4. CASE target = Following(pc) /\ OneCsrWritten /\ UNCHANGED <<priv, resv>>
  <2>1. \E c \in CsrWords : csr'[c] \in Word /\ csr' = [csr EXCEPT ![c] = csr'[c]]
    <3>1. CASE csr' = csr
      <4>1. "mip" \in CsrWords /\ csr'["mip"] \in Word
        BY DEF CsrWords
      <4>2. csr' = [csr EXCEPT !["mip"] = csr'["mip"]]
        BY <3>1, StateWords
      <4> QED
        BY <4>1, <4>2
    <3>2. CASE csr' # csr
      BY <1>4, <3>2 DEF OneCsrWritten
    <3> QED
      BY <3>1, <3>2
  <2> QED
    BY <1>1, <1>2, <1>4, <2>1 DEF Precise!AccessCsr, Precise!Complete
<1>5. CASE (rd = 0 \/ value = Following(pc)) /\ UNCHANGED <<csr, priv, resv>>
  <2>1. gpr' = gpr \/ \E r \in Regs \ {0} : Precise!Sets(r) /\ gpr'[r] = Following(pc)
    BY <1>5, WriteBack
  <2> QED
    BY <1>1, <1>5, <2>1 DEF Precise!Jump, Precise!Complete
<1>6. CASE /\ rd = 0 /\ target = csr["mepc"] /\ priv' = Mpp(csr["mstatus"]) /\ resv' = resv
           /\ csr' = [csr EXCEPT !["mstatus"] = ReturnStatus(csr["mstatus"], priv)]
  <2>1. gpr' = gpr
    BY <1>6 DEF Retire
  <2> QED
    BY <1>1, <1>6, <2>1 DEF Precise!Mret, Precise!Complete
<1>7. CASE target = Following(ResetVector) /\ priv' = 3 /\ UNCHANGED <<csr, resv>>
  BY <1>1, <1>2, <1>7 DEF Precise!AccessResets, Precise!Complete
<1> QED
  BY <1>3, <1>4, <1>5, <1>6, <1>7 DEF Kind

LEMMA WfiRefines ==
  ASSUME IInv, InLoop, NEW i \in Instr, Wfi(i) PROVE Precise!Complete
<1>1. csr' = [csr EXCEPT !["mstatus"] = csr'["mstatus"]] /\ "mstatus" \in CsrWords
  BY StateWords DEF Wfi, CsrWords
<1>2. csr'["mstatus"] \in Word
  BY <1>1, WfiKeeps DEF IInv, TypeOK
<1>3. Precise!Completes /\ Precise!WritesRegister
  BY NotTrappedInLoop DEF Wfi, trapVars, Count, Precise!Completes, Precise!WritesRegister
<1>4. pc' = Following(pc) /\ UNCHANGED <<priv, resv>>
  BY DEF Wfi, Following
<1>5. Precise!AccessCsr
  BY <1>1, <1>2, <1>3, <1>4 DEF Precise!AccessCsr
<1> QED
  BY <1>5 DEF Precise!Complete

(* An instruction that traps has done nothing but that. *)
LEMMA TrappedRefines ==
  ASSUME IInv, InLoop, Trapped PROVE Precise!Trap
BY NotTrappedInLoop DEF Trapped, RaiseTrap, Trap, Count, Precise!Trap

(* A call unwound by a Lua error leaves nothing PreciseHart sees.          *)
LEMMA AbandonStutters ==
  ASSUME Abandon PROVE UNCHANGED Precise!hartVars
BY DEF Abandon, archVars, trapVars, Precise!hartVars, Count

LEMMA OutcomeRefines ==
  ASSUME IInv, InLoop, Outcome PROVE Precise!HartNext \/ UNCHANGED Precise!hartVars
BY CompletedRefines, WfiRefines, TrappedRefines, AbandonStutters DEF Outcome, Precise!HartNext

LEMMA IterationRefines ==
  ASSUME IInv, Iteration PROVE Precise!HartNext \/ UNCHANGED Precise!hartVars
BY IterationOutcome, OutcomeRefines

(* An interrupt at the head of a batch is a trap before its first instruction. *)
LEMMA StepBeginRefines ==
  ASSUME IInv, StepBegin PROVE Precise!HartNext \/ UNCHANGED Precise!hartVars
<1>1. trapped = FALSE /\ UNCHANGED <<gpr, pc, csr, priv, resv, Count>>
  BY DEF StepBegin, IInv, TypeOK, TrapConfined, Count
<1>2. CASE trapped' = TRUE
  BY <1>1, <1>2 DEF Precise!Trap, Precise!HartNext
<1>3. CASE UNCHANGED trapped
  BY <1>1, <1>3 DEF Precise!hartVars
<1> QED
  BY <1>2, <1>3 DEF StepBegin, Trap, trapVars

(* The end of Step is where the pending trap is taken, with the counter    *)
(* moved on by less than a lap.                                            *)
LEMMA StepEndRefines ==
  ASSUME IInv, StepEnd PROVE Precise!HartNext
<1>1. Precise!Advance
  BY BatchAdded DEF Precise!Advance
<1>2. UNCHANGED <<gpr, resv>>
  BY DEF StepEnd
<1>3. CASE trapped
  <2>1. EnterHandler
    BY <1>3 DEF StepEnd
  <2>2. TrapPc = pc
    <3>1. ~(0 >= IntBit)
      BY WidthAssumption DEF IntBit
    <3> QED
      BY <3>1 DEF IInv, NoCode, TrapPc
  <2>3. csr'["mcause"] \in Word /\ csr'["mtval"] \in Word
    BY <2>1, EnterHandlerIsTyped DEF CsrWords
  <2>4. csr' = [csr EXCEPT !["mepc"] = pc, !["mstatus"] = TrapStatus(csr["mstatus"], priv),
                           !["mcause"] = csr'["mcause"], !["mtval"] = csr'["mtval"]]
    BY <2>1, <2>2, StateWords DEF EnterHandler, CsrWords
  <2>5. trapped' = FALSE /\ pc' = csr["mtvec"] /\ priv' = 3
    BY <2>1 DEF EnterHandler
  <2>6. Precise!TakeTrap
    BY <1>1, <1>2, <1>3, <2>3, <2>4, <2>5 DEF Precise!TakeTrap
  <2> QED
    BY <2>6 DEF Precise!HartNext
<1>4. CASE ~trapped
  BY <1>1, <1>2, <1>4 DEF StepEnd, trapVars, Precise!EndBatch, Precise!HartNext
<1> QED
  BY <1>3, <1>4

LEMMA NotTrappedIdle == ASSUME IInv, phase = "idle" PROVE trapped = FALSE
BY DEF IInv, TypeOK, TrapConfined

LEMMA HostRefines ==
  ASSUME IInv, Host PROVE Precise!HartNext \/ UNCHANGED Precise!hartVars
<1>1. CASE StepWaiting \/ \E n \in InstructionCounts : SetInstructionCount(n)
  BY <1>1 DEF StepWaiting, SetInstructionCount, cpuVars, archVars, trapVars, Precise!hartVars, Count
<1>2. CASE TimerInterrupt
  <2>1. csr' \in [CsrWords -> Word]
    BY <1>2, HostKeeps DEF Host, IInv, TypeOK
  <2>2. csr' = [csr EXCEPT !["mip"] = csr'["mip"]] /\ csr'["mip"] \in Word
    BY <1>2, <2>1, StateWords DEF TimerInterrupt, CsrWords
  <2> QED
    BY <1>2, <2>2, NotTrappedIdle DEF TimerInterrupt, trapVars, Precise!Pend, Precise!HartNext, Count
<1>3. CASE Reset
  BY <1>3, NotTrappedIdle DEF Reset, trapVars, Precise!Restart, Precise!HartNext, Count
<1> QED
  BY <1>1, <1>2, <1>3 DEF Host

LEMMA NextRefines ==
  IInv /\ [Next]_cpuVars => [Precise!HartNext]_Precise!hartVars
<1> SUFFICES ASSUME IInv, [Next]_cpuVars PROVE Precise!HartNext \/ UNCHANGED Precise!hartVars
  OBVIOUS
<1>1. CASE UNCHANGED cpuVars
  BY <1>1 DEF cpuVars, archVars, trapVars, Precise!hartVars, Count
<1>2. CASE LoopDone
  BY <1>2 DEF LoopDone, archVars, trapVars, Precise!hartVars, Count
<1> QED
  BY <1>1, <1>2, StepBeginRefines, IterationRefines, StepEndRefines, HostRefines DEF Next, Step

(* Whatever the devices answer and however the batches fall, a guest sees  *)
(* a machine whose instructions complete as a whole or change nothing but  *)
(* that a trap is pending, which the next step takes.                      *)
THEOREM TrapsArePrecise == Spec => PreciseTraps
BY InitRefines, NextRefines, Invariant, PTL DEF Spec, PreciseTraps, Precise!HartSpec

================================================================================
