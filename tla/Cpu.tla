---------------------------------- MODULE Cpu ----------------------------------
(***************************************************************************)
(* The hart of the emulated machine: riscv::CPU, src/native/projects/      *)
(* riscv/{include/riscv/CPU.hpp, src/CPU.cpp}.                             *)
(*                                                                         *)
(* CPU::Step runs a batch of instructions as one C++ call, but every bus   *)
(* access inside it may run arbitrary device code (a Lua callback, the     *)
(* SYSCON reboot), so the batch is split here: one action enters Step, one *)
(* action per instruction, one action for the code after the loop.  What   *)
(* the bus answers is a parameter of the action (a Reply), so the module   *)
(* describes the hart for every program and every set of devices.          *)
(***************************************************************************)
EXTENDS Words

CONSTANTS
  MppUnit,             \* weight of mstatus.MPP: 2^11 in the code
  NRegs,               \* 32 in the code
  MVendorId, MIsa,     \* the two constant CSRs
  InstructionCounts,   \* batch sizes the host may choose
  AluOps, Alu(_,_,_),  \* the operations of opcodes 0x13/0x33 and of the AMOs
  Extend(_,_),         \* what a load does with the peeked value: (u32)(i8) ...
  Decode(_),           \* the instruction an instruction word stands for
  PeekReplies(_),      \* what the bus may answer to a read of an address
  PokeReplies(_)       \* ... and to a write

Regs == 0 .. NRegs - 1

CsrWords  == {"mscratch", "mtvec", "mie", "mip", "mepc", "mstatus", "mcause", "mtval"}
CsrNames  == CsrWords \cup {"cycle", "mvendorid", "misa", "unknown"}
BranchOps == {"beq", "bne", "blt", "bge", "bltu", "bgeu"}
LoadOps   == {"lb", "lh", "lw", "lbu", "lhu"}
AmoOps    == {"lr", "sc", "swap", "undefined"} \cup AluOps

(* A decoded instruction word.  Every word has all the fields; fn is the   *)
(* operation its funct bits select.  "illegal" is every word that some     *)
(* default branch of Step turns into an illegal-instruction trap.          *)
Ops == {"alu", "alui", "lui", "auipc", "jal", "jalr", "branch", "load", "store",
        "amo", "csr", "csri", "fence", "wfi", "mret", "ecall", "ebreak", "illegal"}
FnOf(op) ==
  CASE op \in {"alu", "alui"} -> AluOps
    [] op = "branch"          -> BranchOps
    [] op = "load"            -> LoadOps
    [] op = "amo"             -> AmoOps
    [] op \in {"csr", "csri"} -> {"rw", "rs", "rc"}
    [] OTHER                  -> {"none"}
Fns == AluOps \cup BranchOps \cup LoadOps \cup AmoOps \cup {"rw", "rs", "rc", "none"}

Instr ==
  {i \in [op : Ops, fn : Fns, rd : Regs, rs1 : Regs, rs2 : Regs, imm : Word, csr : CsrNames] :
     i.fn \in FnOf(i.op)}

(* What a bus access comes back with: a value; no device at the address    *)
(* (the bus traps the CPU); a value from a device that also reset the hart *)
(* (SYSCON, or a Lua callback calling Reset); a Lua error that unwinds     *)
(* through Step.                                                           *)
Reply == [kind : {"ok", "fault", "reset", "error"}, value : Word]

IntBit == WordMod \div 2             \* 0x80000000
ResetVector == WordMod \div 2        \* 0x80000000, the base of RAM
TimerInterruptCode == IntBit + 7
ExceptionCode ==
  [InstructionAddressMisaligned |-> 0, InstructionAccessFault |-> 1,
   IllegalInstruction |-> 2, Breakpoint |-> 3, LoadAccessFault |-> 5,
   StoreAccessFault |-> 7, EnvCallUMode |-> 8, EnvCallMMode |-> 10]

ASSUME LayoutAssumption ==
  /\ MppUnit \in Nat \ {0}
  /\ NRegs \in 1 .. WordMod
  /\ {MVendorId, MIsa} \subseteq Word
ASSUME CountAssumption ==
  InstructionCounts # {} /\ InstructionCounts \subseteq 1 .. CounterMod - 1
ASSUME AluAssumption ==
  {"or", "and"} \subseteq AluOps /\ \A f \in AluOps : \A a, b \in Word : Alu(f, a, b) \in Word
ASSUME ExtendAssumption == \A f \in LoadOps : \A v \in Word : Extend(f, v) \in Word
ASSUME DecodeAssumption == \A w \in Word : Decode(w) \in Instr
ASSUME BusAssumption ==
  \A a \in Word : PeekReplies(a) \subseteq Reply /\ PokeReplies(a) \subseteq Reply

VARIABLES
  gpr, pc, csr,        \* registers; csr holds the eight stored CSRs
  priv, wfi, resv,     \* the three fields packed in extraflags
  cyclel, cycleh,
  instructionCount,
  trapped, trapCode,
  phase,               \* where the hart is in Step: "idle" (not in it), "loop", "exit"
  instCount, iInst, cycle, rval  \* Step's parameter and locals (0 when idle)

archVars == <<gpr, pc, csr, priv, wfi, resv>>
trapVars == <<trapped, trapCode>>
stepVars == <<phase, instCount, iInst, cycle, rval>>
cpuVars  == <<archVars, cyclel, cycleh, instructionCount, trapVars, stepVars>>

TypeOK ==
  /\ gpr \in [Regs -> Word] /\ pc \in Word /\ csr \in [CsrWords -> Word]
  /\ priv \in 0 .. 3 /\ wfi \in BOOLEAN /\ resv \in Word
  /\ cyclel \in 0 .. CounterMod - 1 /\ cycleh \in 0 .. HighMod - 1
  /\ instructionCount \in InstructionCounts
  /\ trapped \in BOOLEAN /\ trapCode \in Word
  /\ phase \in {"idle", "loop", "exit"}
  /\ instCount \in {0} \cup InstructionCounts /\ iInst \in 0 .. CounterMod - 1
  /\ cycle \in 0 .. CounterMod - 1 /\ rval \in Word

Init ==
  /\ gpr = [r \in Regs |-> 0] /\ pc = ResetVector /\ csr = [c \in CsrWords |-> 0]
  /\ priv = 3 /\ wfi = FALSE /\ resv = 0
  /\ cyclel = 0 /\ cycleh = 0
  /\ instructionCount \in InstructionCounts
  /\ trapped = FALSE /\ trapCode = 0
  /\ phase = "idle" /\ instCount = 0 /\ iInst = 0 /\ cycle = 0 /\ rval = 0

--------------------------------------------------------------------------------
(* Helpers. *)

Mie(status)  == Flag(status, 8)
Mpie(status) == Flag(status, 128)
Mpp(status)  == (status \div MppUnit) % 4

InterruptsInFlight == Flag(csr["mip"], 128) /\ Flag(csr["mie"], 128) /\ Mie(csr["mstatus"])

NextCycle   == (cycle + 1) % CounterMod
Slot(addr)  == addr % (WordMod \div 8)  \* the bits that survive rs1 << 3
Signed(w)   == IF w >= IntBit THEN w - WordMod ELSE w

Taken(fn, a, b) ==
  CASE fn = "beq"  -> a = b
    [] fn = "bne"  -> a # b
    [] fn = "blt"  -> Signed(a) < Signed(b)
    [] fn = "bge"  -> Signed(a) >= Signed(b)
    [] fn = "bltu" -> a < b
    [] fn = "bgeu" -> a >= b

CsrValue(c) ==
  CASE c \in CsrWords   -> csr[c]
    [] c = "cycle"      -> NextCycle     \* the local, already counting this one
    [] c = "mvendorid"  -> MVendorId
    [] c = "misa"       -> MIsa
    [] c = "unknown"    -> rval          \* the value left by an earlier instruction

(* CPU::Trap.  Its parameter shadows the member of the same name, so line  *)
(* 16 stores the parameter in itself and the member keeps its value.       *)
Trap(code) ==
  /\ trapped' = TRUE
  /\ trapCode' = trapCode
  /\ wfi' = (wfi /\ code < IntBit)

(* Mutant of Retire: the loop counter is not advanced. *)
RetireUncounted(rd, value, target) ==
  /\ gpr' = IF rd # 0 THEN [gpr EXCEPT ![rd] = value] ELSE gpr
  /\ rval' = value /\ pc' = target /\ cycle' = NextCycle
  /\ UNCHANGED <<wfi, cyclel, cycleh, instructionCount, trapVars, phase, instCount, iInst>>

(* An instruction that completed: write back, advance, next iteration.     *)
Retire(rd, value, target) ==
  /\ gpr' = IF rd # 0 THEN [gpr EXCEPT ![rd] = value] ELSE gpr
  /\ rval' = value /\ pc' = target
  /\ iInst' = iInst + 1 /\ cycle' = NextCycle
  /\ UNCHANGED <<wfi, cyclel, cycleh, instructionCount, trapVars, phase, instCount>>

(* Mutant of RaiseTrap: an instruction that traps is not counted. *)
RaiseTrapUncounted(code, value) ==
  /\ Trap(code)
  /\ rval' = value /\ phase' = "exit"
  /\ UNCHANGED <<gpr, pc, csr, priv, resv, cyclel, cycleh, instructionCount, instCount, iInst, cycle>>

(* An instruction that trapped: out of the loop before the write-back.     *)
RaiseTrap(code, value) ==
  /\ Trap(code)
  /\ rval' = value /\ cycle' = NextCycle /\ phase' = "exit"
  /\ UNCHANGED <<gpr, pc, csr, priv, resv, cyclel, cycleh, instructionCount, instCount, iInst>>

LeaveStep == phase' = "idle" /\ instCount' = 0 /\ iInst' = 0 /\ cycle' = 0 /\ rval' = 0

(* A Lua error inside a device callback unwinds the C++ frame of Step.     *)
Abandon == LeaveStep /\ UNCHANGED <<archVars, cyclel, cycleh, instructionCount, trapVars>>

PcAfter(r)   == Plus(IF r.kind = "reset" THEN ResetVector ELSE pc, 4)
PrivAfter(r) == IF r.kind = "reset" THEN 3 ELSE priv

--------------------------------------------------------------------------------
(* Entering Step.  A hart that waits for an interrupt returns before it    *)
(* looks whether one is pending.                                           *)

StepWaiting == phase = "idle" /\ wfi /\ UNCHANGED cpuVars

(* Mutant of StepBegin: no look at the pending interrupts. *)
StepBeginDeaf ==
  /\ phase = "idle" /\ ~wfi
  /\ instCount' = instructionCount /\ iInst' = 0 /\ cycle' = cyclel /\ rval' = 0
  /\ phase' = "loop" /\ UNCHANGED <<trapVars, wfi>>
  /\ UNCHANGED <<gpr, pc, csr, priv, resv, cyclel, cycleh, instructionCount>>

StepBegin ==
  /\ phase = "idle" /\ ~wfi
  /\ instCount' = instructionCount /\ iInst' = 0 /\ cycle' = cyclel /\ rval' = 0
  /\ \/ InterruptsInFlight /\ phase' = "exit" /\ Trap(TimerInterruptCode)
     \/ ~InterruptsInFlight /\ phase' = "loop" /\ UNCHANGED <<trapVars, wfi>>
  /\ UNCHANGED <<gpr, pc, csr, priv, resv, cyclel, cycleh, instructionCount>>

(* The fetch of one iteration of the loop. *)

InLoop == phase = "loop" /\ iInst < instCount

FetchMisaligned ==
  InLoop /\ pc % 4 # 0 /\ RaiseTrap(ExceptionCode.InstructionAddressMisaligned, pc)

FetchFault(r) ==
  /\ InLoop /\ pc % 4 = 0 /\ r.kind = "fault"
  /\ RaiseTrap(ExceptionCode.InstructionAccessFault, pc)

FetchError(r) == InLoop /\ pc % 4 = 0 /\ r.kind = "error" /\ Abandon

Fetched(r) == InLoop /\ pc % 4 = 0 /\ r.kind = "ok"

--------------------------------------------------------------------------------
(* The instructions.  i is the decoded instruction word.                   *)

Upper(i) ==
  /\ i.op \in {"lui", "auipc"}
  /\ Retire(i.rd, IF i.op = "lui" THEN i.imm ELSE Plus(pc, i.imm), Plus(pc, 4))
  /\ UNCHANGED <<csr, priv, resv>>

Register(i) ==
  /\ i.op \in {"alu", "alui"}
  /\ Retire(i.rd, Alu(i.fn, gpr[i.rs1], IF i.op = "alu" THEN gpr[i.rs2] ELSE i.imm), Plus(pc, 4))
  /\ UNCHANGED <<csr, priv, resv>>

Jump(i) ==
  /\ i.op \in {"jal", "jalr"}
  /\ LET to == IF i.op = "jal" THEN Plus(pc, i.imm) ELSE Plus(gpr[i.rs1], i.imm)
     IN  Retire(i.rd, Plus(pc, 4), IF i.op = "jal" THEN to ELSE to - (to % 2))
  /\ UNCHANGED <<csr, priv, resv>>

Branch(i) ==
  /\ i.op = "branch"
  /\ Retire(0, rval, Plus(pc, IF Taken(i.fn, gpr[i.rs1], gpr[i.rs2]) THEN i.imm ELSE 4))
  /\ UNCHANGED <<csr, priv, resv>>

Fence(i) ==
  i.op = "fence" /\ Retire(0, rval, Plus(pc, 4)) /\ UNCHANGED <<csr, priv, resv>>

DataAddress(i) == IF i.op = "amo" THEN gpr[i.rs1] ELSE Plus(gpr[i.rs1], i.imm)

Load(i, r) ==
  /\ i.op = "load"
  /\ \/ /\ r.kind = "fault"
        /\ RaiseTrap(ExceptionCode.LoadAccessFault, DataAddress(i))
     \/ r.kind = "error" /\ Abandon
     \/ /\ r.kind \in {"ok", "reset"}
        /\ Retire(i.rd, Extend(i.fn, r.value), PcAfter(r))
        /\ priv' = PrivAfter(r) /\ UNCHANGED <<csr, resv>>

Store(i, r) ==
  /\ i.op = "store"
  /\ \/ /\ r.kind = "fault"
        /\ RaiseTrap(ExceptionCode.StoreAccessFault, DataAddress(i))
     \/ r.kind = "error" /\ Abandon
     \/ /\ r.kind \in {"ok", "reset"}
        /\ Retire(0, rval, PcAfter(r))
        /\ priv' = PrivAfter(r) /\ UNCHANGED <<csr, resv>>

(* RV32A.  r answers the read that every AMO starts with, w the write of   *)
(* those that write.  (A device that resets the hart from the read half is *)
(* left out.)                                                              *)
ScValid(i) == resv = Slot(gpr[i.rs1])

AmoWrites(i) == i.fn # "lr" /\ i.fn # "undefined" /\ (i.fn = "sc" => ScValid(i))

AmoResult(i, r) == IF i.fn = "sc" THEN Bit(~ScValid(i), 1) ELSE r.value

AmoStored(i, r) ==
  IF i.fn \in {"sc", "swap"} THEN gpr[i.rs2] ELSE Alu(i.fn, gpr[i.rs2], r.value)

AmoRead(i, r) ==      \* no write follows: the read failed, LR, a failed SC, undefined
  /\ i.op = "amo"
  /\ \/ r.kind = "fault" /\ RaiseTrap(ExceptionCode.LoadAccessFault, DataAddress(i))
     \/ r.kind = "error" /\ Abandon
     \/ r.kind = "ok" /\ i.fn = "undefined" /\ RaiseTrap(ExceptionCode.IllegalInstruction, r.value)
     \/ /\ r.kind = "ok" /\ i.fn # "undefined" /\ ~AmoWrites(i)
        /\ Retire(i.rd, AmoResult(i, r), Plus(pc, 4))
        /\ resv' = IF i.fn = "lr" THEN Slot(gpr[i.rs1]) ELSE resv
        /\ UNCHANGED <<csr, priv>>

(* Mutant of AmoWrite: a write that faults does not keep rd from being written. *)
AmoWriteHalf(i, r, w) ==
  /\ i.op = "amo" /\ r.kind = "ok" /\ AmoWrites(i)
  /\ \/ /\ w.kind = "fault" /\ Trap(ExceptionCode.StoreAccessFault)
        /\ gpr' = IF i.rd # 0 THEN [gpr EXCEPT ![i.rd] = AmoResult(i, r)] ELSE gpr
        /\ rval' = AmoResult(i, r) /\ cycle' = NextCycle /\ phase' = "exit"
        /\ UNCHANGED <<pc, csr, priv, resv, cyclel, cycleh, instructionCount, instCount, iInst>>
     \/ w.kind = "error" /\ Abandon
     \/ /\ w.kind \in {"ok", "reset"}
        /\ Retire(i.rd, AmoResult(i, r), PcAfter(w))
        /\ priv' = PrivAfter(w) /\ UNCHANGED <<csr, resv>>

AmoWrite(i, r, w) ==
  /\ i.op = "amo" /\ r.kind = "ok" /\ AmoWrites(i)
  /\ \/ w.kind = "fault" /\ RaiseTrap(ExceptionCode.StoreAccessFault, AmoResult(i, r))
     \/ w.kind = "error" /\ Abandon
     \/ /\ w.kind \in {"ok", "reset"}
        /\ Retire(i.rd, AmoResult(i, r), PcAfter(w))
        /\ priv' = PrivAfter(w) /\ UNCHANGED <<csr, resv>>

(* Zicsr: read, compute with the old value, write if the CSR is stored.    *)
CsrAccess(i) ==
  /\ i.op \in {"csr", "csri"}
  /\ LET old == CsrValue(i.csr)
         src == IF i.op = "csri" THEN i.imm ELSE gpr[i.rs1]
         new == CASE i.fn = "rw" -> src
                  [] i.fn = "rs" -> Alu("or", old, src)
                  [] i.fn = "rc" -> Alu("and", old, WordMod - 1 - src)
     IN  /\ Retire(i.rd, old, Plus(pc, 4))
         /\ csr' = IF i.csr \in CsrWords THEN [csr EXCEPT ![i.csr] = new] ELSE csr
  /\ UNCHANGED <<priv, resv>>

(* WFI returns out of Step from inside the loop, past the code that writes *)
(* the cycle counter back.                                                 *)
Wfi(i) ==
  /\ i.op = "wfi"
  /\ csr' = [csr EXCEPT !["mstatus"] = @ + Bit(~Mie(@), 8)]
  /\ wfi' = TRUE /\ pc' = Plus(pc, 4)
  /\ LeaveStep
  /\ UNCHANGED <<gpr, priv, resv, cyclel, cycleh, instructionCount, trapVars>>

(* Mutant of MretStatus: MIE is not restored from MPIE. *)
MretStatusMasked == (priv * MppUnit + 128) % WordMod

(* mstatus after MRET: the code stacks the level it leaves. *)
ReturnStatus(status, level) == (Bit(Mpie(status), 8) + level * MppUnit + 128) % WordMod

MretStatus == ReturnStatus(csr["mstatus"], priv)

Mret(i) ==
  /\ i.op = "mret"
  /\ Retire(0, rval, csr["mepc"])
  /\ csr' = [csr EXCEPT !["mstatus"] = MretStatus]
  /\ priv' = Mpp(csr["mstatus"]) /\ UNCHANGED resv

Exception(i) ==
  \/ /\ i.op = "ecall"
     /\ RaiseTrap(IF priv # 0 THEN ExceptionCode.EnvCallMMode ELSE ExceptionCode.EnvCallUMode, rval)
  \/ i.op = "ebreak" /\ RaiseTrap(ExceptionCode.Breakpoint, rval)
  \/ i.op = "illegal" /\ RaiseTrap(ExceptionCode.IllegalInstruction, rval)

(* The instructions whose only input is the hart itself ... *)
Internal(i) ==
  \/ Upper(i) \/ Register(i) \/ Jump(i) \/ Branch(i) \/ Fence(i)
  \/ CsrAccess(i) \/ Wfi(i) \/ Mret(i) \/ Exception(i)

(* ... and those that access the bus once or twice.                        *)
External(i) ==
  \/ \E r \in PeekReplies(DataAddress(i)) : Load(i, r)
  \/ \E r \in PokeReplies(DataAddress(i)) : Store(i, r)
  \/ \E r \in PeekReplies(DataAddress(i)) :
       AmoRead(i, r) \/ \E w \in PokeReplies(DataAddress(i)) : AmoWrite(i, r, w)

--------------------------------------------------------------------------------
(* Leaving Step. *)

LoopDone ==
  /\ phase = "loop" /\ iInst >= instCount
  /\ phase' = "exit"
  /\ UNCHANGED <<archVars, cyclel, cycleh, instructionCount, trapVars,
                 instCount, iInst, cycle, rval>>

TrapStatus(status, level) == (Bit(Mie(status), 128) + level * MppUnit) % WordMod

(* Mutant of TrapPc: the interrupt's "+ 4" applied to every trap. *)
TrapPcNext == Plus(pc, 4)

(* mepc: the code means to step over an instruction for an interrupt, but  *)
(* trapCode never carries the interrupt bit.                               *)
TrapPc == IF trapCode >= IntBit THEN Plus(pc, 4) ELSE pc

TrapValue ==
  CASE trapCode >= IntBit                   -> 0
    [] trapCode > 5 /\ trapCode <= 8        -> rval
    [] OTHER                                -> pc

(* Mutants of EnterHandler: the pending flag stays up; the pc is loaded    *)
(* before it is saved.                                                     *)
EnterHandlerStuck ==
  /\ csr' = [csr EXCEPT !["mcause"] = trapCode, !["mtval"] = TrapValue,
                        !["mepc"] = TrapPc, !["mstatus"] = TrapStatus(csr["mstatus"], priv)]
  /\ pc' = csr["mtvec"] /\ priv' = 3
  /\ UNCHANGED trapVars
EnterHandlerSwapped ==
  /\ csr' = [csr EXCEPT !["mcause"] = trapCode, !["mtval"] = TrapValue,
                        !["mepc"] = csr["mtvec"], !["mstatus"] = TrapStatus(csr["mstatus"], priv)]
  /\ pc' = csr["mtvec"] /\ priv' = 3
  /\ trapped' = FALSE /\ trapCode' = 0

EnterHandler ==
  /\ csr' = [csr EXCEPT !["mcause"] = trapCode, !["mtval"] = TrapValue,
                        !["mepc"] = TrapPc, !["mstatus"] = TrapStatus(csr["mstatus"], priv)]
  /\ pc' = csr["mtvec"] /\ priv' = 3
  /\ trapped' = FALSE /\ trapCode' = 0

(* Mutant of Carry: a counter that comes back to the same value carries. *)
CarryOnEqual == Bit(cyclel >= cycle, 1)

Carry == Bit(cyclel > cycle, 1)

StepEnd ==
  /\ phase = "exit"
  /\ \/ trapped /\ EnterHandler
     \/ ~trapped /\ UNCHANGED <<csr, pc, priv, trapVars>>
  /\ cycleh' = (cycleh + Carry) % HighMod
  /\ cyclel' = cycle
  /\ LeaveStep
  /\ UNCHANGED <<gpr, wfi, resv, instructionCount>>

--------------------------------------------------------------------------------
(* The calls other components make: the timer device, and the host.        *)

TimerInterrupt ==
  /\ phase = "idle"
  /\ csr' = [csr EXCEPT !["mip"] = @ + Bit(~Flag(@, 128), 128)]
  /\ UNCHANGED <<gpr, pc, priv, wfi, resv, cyclel, cycleh, instructionCount, trapVars, stepVars>>

Reset ==
  /\ phase = "idle"
  /\ pc' = ResetVector /\ priv' = 3
  /\ UNCHANGED <<gpr, csr, wfi, resv, cyclel, cycleh, instructionCount, trapVars, stepVars>>

SetInstructionCount(n) ==      \* also from a device callback inside the loop
  /\ phase # "exit"
  /\ instructionCount' = n
  /\ UNCHANGED <<archVars, cyclel, cycleh, trapVars, stepVars>>

--------------------------------------------------------------------------------

Iteration ==
  \/ FetchMisaligned
  \/ \E r \in PeekReplies(pc) :
       \/ FetchFault(r) \/ FetchError(r)
       \/ Fetched(r) /\ (Internal(Decode(r.value)) \/ External(Decode(r.value)))

Step == StepBegin \/ Iteration \/ LoopDone \/ StepEnd

Host == StepWaiting \/ TimerInterrupt \/ Reset \/ \E n \in InstructionCounts : SetInstructionCount(n)

Next == Step \/ Host

(* The bus calls CPU::Clock and the call runs to its end: once inside Step *)
(* the hart keeps going.  Nothing obliges the host to clock it.            *)
Spec == Init /\ [][Next]_cpuVars /\ WF_cpuVars(phase # "idle" /\ Step)
--------------------------------------------------------------------------------
(* Properties. *)

(* The pending-trap flag lives only from CPU::Trap to the end of the same  *)
(* Step.  If it ever leaked out (through an early return, an unwound call  *)
(* or a forgotten reset), the next successful fetch would be reported as   *)
(* an access fault.                                                        *)
TrapConfined == trapped => phase = "exit"

(* The instructions the running batch has started: an instruction that     *)
(* traps counts, an interrupt taken at the head of the batch does not.     *)
Started ==
  IF trapped /\ ~(iInst = 0 /\ InterruptsInFlight) THEN iInst + 1 ELSE iInst

(* The cycle local is the counter at the head of the batch plus exactly    *)
(* the instructions started, whichever way the batch ended.                *)
CycleCounted ==
  /\ phase # "idle" => cycle = (cyclel + Started) % CounterMod
  /\ phase # "idle" => Started <= instCount

(* The 64-bit counter, and what one Step adds to it when it runs to its    *)
(* end: the carry into cycleh is right at every wrap of cyclel.            *)
Count    == cycleh * CounterMod + cyclel
CountMod == HighMod * CounterMod

CounterAdvances ==
  [][phase = "exit" /\ phase' = "idle" => Count' = (Count + Started) % CountMod]_cpuVars

(* Traps are precise: the hart implements PreciseHart.  The step that      *)
(* raises a trap changes nothing else a guest sees (an AMO whose write     *)
(* faults has not written rd), no other step comes before the handler is   *)
(* entered, and a call that Lua unwinds leaves nothing done.               *)
Following(p) == Plus(p, 4)

Precise == INSTANCE PreciseHart WITH
  Words <- Word, Registers <- Regs, Csrs <- CsrWords, Start <- ResetVector,
  Following <- Following, Lap <- CounterMod, CountMod <- CountMod,
  Stacked <- TrapStatus, Unstacked <- ReturnStatus, Level <- Mpp,
  count <- Count, trapping <- trapped

PreciseTraps == Precise!HartSpec

(* Clock returns: a batch ends whatever the guest executes and whatever    *)
(* the devices answer, so the host's tick is never lost in Step.           *)
StepReturns == phase # "idle" ~> phase = "idle"

(* The documented purpose of trapCode ("Set by [CPU::Trap] for the trap    *)
(* code", CPU.hpp): a batch that ends because of the timer interrupt ends  *)
(* with the interrupt's code in it.                                        *)
TrapCodeRecorded ==
  (phase = "exit" /\ trapped /\ iInst = 0 /\ InterruptsInFlight) => trapCode = TimerInterruptCode

================================================================================
