------------------------------ MODULE SystemProofs -----------------------------
(***************************************************************************)
(* Theorems about the composed machine, for every guest image, Lua device, *)
(* address map and host that satisfy the assumptions of System.tla.  The   *)
(* hart of the machine is the hart of Cpu.tla, its bus answers computed    *)
(* from the devices instead of assumed, so the lemmas of CpuProofs about   *)
(* one instruction carry over.                                             *)
(***************************************************************************)
EXTENDS GuestLoop, CpuProofs

USE WidthAssumption, LayoutAssumption, CountAssumption, ClntAssumption, SystemAssumption

(* A call of the host, or of a clocked device, finds the hart between two  *)
(* Steps.                                                                  *)
OneCallAtATime == turn # "cpu" => phase = "idle"

SysIInv ==
  /\ IInv /\ ClntTypeOK
  /\ ram \in [RamIndices -> Word] /\ poweredOn \in BOOLEAN /\ turn \in {"host", "lua", "cpu"}
  /\ OneCallAtATime

(* What one access or call leaves well typed besides the hart. *)
DevicesTyped == ClntTypeOK /\ ram \in [RamIndices -> Word] /\ poweredOn \in BOOLEAN

LEMMA Ranges ==
  /\ 0 .. CounterMod - 1 \subseteq Word /\ 0 .. HighMod - 1 \subseteq Word
  /\ 0 \in 0 .. CounterMod - 1 /\ 0 \in 0 .. HighMod - 1
BY DEF Word

--------------------------------------------------------------------------------
(* The devices. *)

(* An access to RAM is within the memory the device allocated. *)
LEMMA RamIndexInRange == ASSUME NEW a \in Word PROVE RamIndex(a) \in RamIndices
<1> DEFINE offset == (a - ResetVector) % RamBytes
<1>1. ResetVector \in Int
  BY DEF ResetVector
<1>2. RamBytes \in Nat \ {0} /\ RamBytes % 4 = 0
  BY <1>1
<1>3. a - ResetVector \in Int
  BY <1>1 DEF Word
<1>4. offset \in 0 .. RamBytes - 1
  BY <1>2, <1>3
<1> HIDE DEF offset
<1>5. offset \div 4 \in 0 .. (RamBytes \div 4) - 1
  BY <1>2, <1>4
<1> QED
  BY <1>5 DEF RamIndex, RamIndices, offset

LEMMA ClntResetTyped == ClntReset => ClntTypeOK'
BY Ranges DEF ClntReset, ClntTypeOK

LEMMA ClntClockTyped == ClntTypeOK /\ ClntClock => ClntTypeOK'
<1> SUFFICES ASSUME ClntTypeOK, ClntClock PROVE ClntTypeOK'
  OBVIOUS
<1>1. NextLow \in 0 .. CounterMod - 1
  BY DEF ClntTypeOK, NextLow
<1>2. NextHigh \in 0 .. HighMod - 1
  BY DEF ClntTypeOK, NextHigh, Bit
<1> QED
  BY <1>1, <1>2 DEF ClntClock, ClntTypeOK

LEMMA ClntPokeTyped ==
  ASSUME ClntTypeOK, NEW a \in Word, NEW v \in Word, ClntPoke(a, v) PROVE ClntTypeOK'
<1>1. v % CounterMod \in 0 .. CounterMod - 1 /\ v % HighMod \in 0 .. HighMod - 1
  BY DEF Word
<1> QED
  BY <1>1 DEF ClntPoke, ClntTypeOK

LEMMA ClntPeekIsWord == ASSUME ClntTypeOK, NEW a PROVE ClntPeek(a) \in Word
BY Ranges DEF ClntTypeOK, ClntPeek

LEMMA LuaAnswers == LuaReplies \subseteq Reply
BY SmallWords DEF LuaReplies, Answer, Reply

(* Every access is answered with a reply the hart expects. *)
LEMMA PeekAnswers == ASSUME SysIInv, NEW a \in Word PROVE BusPeek(a) \subseteq Reply
<1>1. ram[RamIndex(a)] \in Word
  BY RamIndexInRange DEF SysIInv
<1>2. ClntPeek(a) \in Word
  BY ClntPeekIsWord DEF SysIInv
<1>3. Device(a) \in {"ram", "clnt", "syscon", "lua", "none"}
  BY DEF Device
<1> QED
  BY <1>1, <1>2, <1>3, SmallWords, LuaAnswers DEF BusPeek, Answer, Reply

LEMMA PokeAnswers == ASSUME NEW a \in Word, NEW v \in Word PROVE BusPoke(a, v) \subseteq Reply
<1>1. Device(a) \in {"ram", "clnt", "syscon", "lua", "none"}
  BY DEF Device
<1> QED
  BY <1>1, SmallWords, LuaAnswers DEF BusPoke, Answer, Reply

LEMMA UnchangedTyped ==
  ASSUME SysIInv, UNCHANGED <<clntVars, ram, poweredOn>> PROVE DevicesTyped'
BY DEF SysIInv, DevicesTyped, clntVars, ClntTypeOK

LEMMA LuaEffectTyped == ASSUME SysIInv, NEW r, LuaEffect(r) PROVE DevicesTyped'
<1>1. ClntTypeOK'
  BY ClntResetTyped DEF LuaEffect, LuaResets, SysIInv, clntVars, ClntTypeOK
<1> QED
  BY <1>1 DEF LuaEffect, LuaResets, SysIInv, DevicesTyped

LEMMA PeekEffectTyped == ASSUME SysIInv, NEW a, NEW r, PeekEffect(a, r) PROVE DevicesTyped'
BY LuaEffectTyped, UnchangedTyped DEF PeekEffect

LEMMA PokeEffectTyped ==
  ASSUME SysIInv, NEW a \in Word, NEW v \in Word, NEW r, PokeEffect(a, v, r) PROVE DevicesTyped'
<1>1. CASE Device(a) = "ram"
  BY <1>1, RamIndexInRange DEF PokeEffect, SysIInv, DevicesTyped, clntVars, ClntTypeOK
<1>2. CASE Device(a) = "clnt"
  BY <1>2, ClntPokeTyped DEF PokeEffect, SysIInv, DevicesTyped
<1>3. CASE Device(a) = "syscon"
  BY <1>3 DEF PokeEffect, SysIInv, DevicesTyped, clntVars, ClntTypeOK
<1>4. CASE Device(a) = "lua"
  BY <1>4, LuaEffectTyped DEF PokeEffect
<1>5. CASE Device(a) = "none"
  BY <1>5, UnchangedTyped DEF PokeEffect
<1> QED
  BY <1>1, <1>2, <1>3, <1>4, <1>5 DEF Device

--------------------------------------------------------------------------------
(* One instruction on this bus. *)

LEMMA AmoStoredIsWord ==
  ASSUME IInv, NEW i \in Instr, i.op = "amo", NEW r \in Reply, AmoWrites(i)
  PROVE  AmoStored(i, r) \in Word
<1>1. gpr[i.rs2] \in Word /\ r.value \in Word
  BY InstrFields, RegisterWords DEF Reply
<1>2. i.fn \in {"sc", "swap"} \cup AluOps
  BY InstrFields DEF FnOf, AmoOps, AmoWrites
<1> QED
  BY <1>1, <1>2, AluAssumption DEF AmoStored

LEMMA LoadOnBus ==
  ASSUME SysIInv, InLoop, NEW i \in Instr, BusLoad(i) PROVE Outcome /\ DevicesTyped'
<1>1. IInv /\ DataAddress(i) \in Word
  BY AddressIsWord DEF SysIInv
<1> PICK r \in BusPeek(DataAddress(i)) : Load(i, r) /\ PeekEffect(DataAddress(i), r)
  BY DEF BusLoad
<1>2. r \in Reply
  BY <1>1, PeekAnswers
<1> QED
  BY <1>1, <1>2, LoadOutcome, PeekEffectTyped

LEMMA StoreOnBus ==
  ASSUME SysIInv, InLoop, NEW i \in Instr, BusStore(i) PROVE Outcome /\ DevicesTyped'
<1>1. IInv /\ DataAddress(i) \in Word
  BY AddressIsWord DEF SysIInv
<1>2. gpr[i.rs2] \in Word
  BY <1>1, InstrFields, RegisterWords
<1> PICK r \in BusPoke(DataAddress(i), gpr[i.rs2]) :
      Store(i, r) /\ PokeEffect(DataAddress(i), gpr[i.rs2], r)
  BY DEF BusStore
<1>3. r \in Reply
  BY <1>1, <1>2, PokeAnswers
<1> QED
  BY <1>1, <1>2, <1>3, StoreOutcome, PokeEffectTyped

LEMMA AmoOnBus ==
  ASSUME SysIInv, InLoop, NEW i \in Instr, BusAmo(i) PROVE Outcome /\ DevicesTyped'
<1>1. IInv /\ DataAddress(i) \in Word
  BY AddressIsWord DEF SysIInv
<1> PICK r \in BusPeek(DataAddress(i)) :
      \/ AmoRead(i, r) /\ PeekEffect(DataAddress(i), r)
      \/ \E w \in BusPoke(DataAddress(i), AmoStored(i, r)) :
           AmoWrite(i, r, w) /\ PokeEffect(DataAddress(i), AmoStored(i, r), w)
  BY DEF BusAmo
<1>2. r \in Reply
  BY <1>1, PeekAnswers
<1>3. CASE AmoRead(i, r) /\ PeekEffect(DataAddress(i), r)
  BY <1>1, <1>2, <1>3, AmoReadOutcome, PeekEffectTyped
<1>4. ASSUME NEW w \in BusPoke(DataAddress(i), AmoStored(i, r)), AmoWrite(i, r, w),
             PokeEffect(DataAddress(i), AmoStored(i, r), w)
      PROVE  Outcome /\ DevicesTyped'
  <2>1. AmoStored(i, r) \in Word
    BY <1>1, <1>2, <1>4, AmoStoredIsWord DEF AmoWrite
  <2>2. w \in Reply
    BY <1>1, <1>4, <2>1, PokeAnswers
  <2> QED
    BY <1>1, <1>2, <1>4, <2>1, <2>2, AmoWriteOutcome, PokeEffectTyped
<1> QED
  BY <1>3, <1>4

LEMMA InternalOutcome ==
  ASSUME IInv, InLoop, NEW i \in Instr, Internal(i) PROVE Outcome
BY UpperOutcome, RegisterOutcome, JumpOutcome, BranchOutcome, FenceOutcome, CsrAccessOutcome,
   MretOutcome, ExceptionOutcome DEF Internal, Outcome

LEMMA InstructionOnBus ==
  ASSUME SysIInv, RunInstruction PROVE InLoop /\ Outcome /\ DevicesTyped'
<1>1. IInv /\ pc \in Word
  BY StateWords DEF SysIInv
<1> PICK r \in BusPeek(pc) :
      \/ (FetchFault(r) \/ FetchError(r)) /\ PeekEffect(pc, r)
      \/ Fetched(r) /\ Execute(Decode(r.value))
  BY DEF RunInstruction
<1>2. r \in Reply
  BY <1>1, PeekAnswers
<1>3. CASE (FetchFault(r) \/ FetchError(r)) /\ PeekEffect(pc, r)
  BY <1>1, <1>3, PeekEffectTyped, RaiseTrapIsOutcome, AbandonIsOutcome DEF FetchFault, FetchError
<1>4. CASE Fetched(r) /\ Execute(Decode(r.value))
  <2> DEFINE i == Decode(r.value)
  <2>1. i \in Instr /\ InLoop /\ Execute(i)
    BY <1>2, <1>4, DecodeAssumption DEF Reply, Fetched
  <2> HIDE DEF i
  <2> QED
    BY <1>1, <2>1, InternalOutcome, UnchangedTyped, LoadOnBus, StoreOnBus, AmoOnBus DEF Execute
<1> QED
  BY <1>3, <1>4

--------------------------------------------------------------------------------
(* The steps of the machine, as steps of the hart. *)

HartStep == Step \/ (InLoop /\ Outcome) \/ Host \/ UNCHANGED cpuVars

LEMMA HartStepKeeps == ASSUME IInv, HartStep PROVE IInv'
BY OutcomeKeeps, NextIInv DEF HartStep, Next

LEMMA RunStepIsHartStep == ASSUME SysIInv, RunStep PROVE HartStep /\ DevicesTyped'
<1>1. CASE /\ StepWaiting \/ StepBegin \/ FetchMisaligned \/ LoopDone \/ StepEnd
           /\ UNCHANGED <<clntVars, ram, poweredOn>>
  BY <1>1, UnchangedTyped DEF HartStep, Step, Host, Iteration
<1>2. CASE RunInstruction
  BY <1>2, InstructionOnBus DEF HartStep
<1> QED
  BY <1>1, <1>2 DEF RunStep

LEMMA SysInitIInv == SysInit => SysIInv
BY InitIInv, Ranges DEF SysInit, Init, ClntInit, SysIInv, ClntTypeOK, OneCallAtATime

(* The clock and the host's calls reach the hart only between two Steps. *)
LEMMA CallIsHartStep ==
  ASSUME SysIInv, Cycle \/ LuaClock \/ PowerOff \/ PowerOn \/ HostReset \/ SetInstructionsPerTick
  PROVE  /\ Host \/ UNCHANGED cpuVars
         /\ DevicesTyped' /\ turn' \in {"host", "lua", "cpu"} /\ OneCallAtATime'
<1>1. phase = "idle"
  BY DEF SysIInv, OneCallAtATime, Cycle, LuaClock, PowerOff, PowerOn, HostReset, SetInstructionsPerTick
<1>2. UNCHANGED cpuVars => UNCHANGED phase
  BY DEF cpuVars, stepVars
<1>3. TimerInterrupt \/ Reset => UNCHANGED phase
  BY DEF TimerInterrupt, Reset, stepVars
<1>4. \A n : SetInstructionCount(n) => UNCHANGED phase
  BY DEF SetInstructionCount, stepVars
<1>5. CASE Cycle
  <2>1. (TimerInterrupt \/ UNCHANGED cpuVars) /\ turn' = "lua"
    BY <1>5 DEF Cycle
  <2>2. DevicesTyped'
    BY <1>5, ClntClockTyped DEF Cycle, SysIInv, DevicesTyped
  <2> QED
    BY <1>1, <1>2, <1>3, <2>1, <2>2 DEF Host, OneCallAtATime
<1>6. CASE LuaClock
  <2>1. (Reset \/ UNCHANGED cpuVars) /\ turn' \in {"host", "cpu"}
    BY <1>6 DEF LuaClock
  <2>2. ClntTypeOK'
    BY <1>6, ClntResetTyped DEF LuaClock, LuaResets, SysIInv, clntVars, ClntTypeOK
  <2>3. DevicesTyped'
    BY <1>6, <2>2 DEF LuaClock, LuaResets, SysIInv, DevicesTyped
  <2> QED
    BY <1>1, <1>2, <1>3, <2>1, <2>3 DEF Host, OneCallAtATime
<1>7. CASE PowerOff
  BY <1>1, <1>2, <1>7 DEF PowerOff, SysIInv, DevicesTyped, clntVars, ClntTypeOK, OneCallAtATime
<1>8. CASE PowerOn \/ HostReset
  <2>1. (Reset \/ UNCHANGED cpuVars) /\ ClntTypeOK'
    BY <1>8, ClntResetTyped DEF PowerOn, HostReset, BusReset
  <2>2. DevicesTyped' /\ turn' = turn
    BY <1>8, <2>1 DEF PowerOn, HostReset, SysIInv, DevicesTyped
  <2> QED
    BY <1>1, <1>2, <1>3, <2>1, <2>2 DEF Host, SysIInv, OneCallAtATime
<1>9. CASE SetInstructionsPerTick
  <2>1. \E n \in InstructionCounts : SetInstructionCount(n)
    BY <1>9 DEF SetInstructionsPerTick
  <2>2. DevicesTyped' /\ turn' = turn
    BY <1>9, UnchangedTyped DEF SetInstructionsPerTick
  <2> QED
    BY <1>1, <1>4, <2>1, <2>2 DEF Host, SysIInv, OneCallAtATime
<1> QED
  BY <1>5, <1>6, <1>7, <1>8, <1>9

(* A call from a callback may come in the middle of a batch. *)
LEMMA LuaCallIsHartStep ==
  ASSUME SysIInv, LuaCall
  PROVE  /\ UNCHANGED cpuVars \/ \E n \in InstructionCounts : SetInstructionCount(n)
         /\ DevicesTyped' /\ turn' = turn /\ OneCallAtATime'
<1>1. UNCHANGED cpuVars \/ \E n \in InstructionCounts : SetInstructionCount(n)
  BY DEF LuaCall
<1>2. UNCHANGED phase
  BY <1>1 DEF cpuVars, stepVars, SetInstructionCount
<1>3. UNCHANGED <<clntVars, ram, turn>> /\ poweredOn' \in BOOLEAN
  BY DEF LuaCall, SysIInv, DevicesTyped
<1>4. DevicesTyped'
  BY <1>3 DEF SysIInv, DevicesTyped, clntVars, ClntTypeOK
<1> QED
  BY <1>1, <1>2, <1>3, <1>4 DEF SysIInv, OneCallAtATime

LEMMA SysNextIInv == SysIInv /\ [SysNext]_sysVars => SysIInv' /\ HartStep
<1> SUFFICES ASSUME SysIInv, [SysNext]_sysVars PROVE SysIInv' /\ HartStep
  OBVIOUS
<1>1. IInv
  BY DEF SysIInv
<1>2. CASE UNCHANGED sysVars
  <2>1. UNCHANGED cpuVars /\ UNCHANGED <<clntVars, ram, poweredOn>> /\ UNCHANGED turn
    BY <1>2 DEF sysVars
  <2>2. HartStep /\ IInv' /\ DevicesTyped'
    BY <1>1, <2>1, HartStepKeeps, UnchangedTyped DEF HartStep
  <2>3. UNCHANGED phase
    BY <2>1 DEF cpuVars, stepVars
  <2> QED
    BY <2>1, <2>2, <2>3 DEF SysIInv, DevicesTyped, OneCallAtATime
<1>3. CASE RunStep
  <2>1. HartStep /\ IInv' /\ DevicesTyped'
    BY <1>1, <1>3, RunStepIsHartStep, HartStepKeeps
  <2>2. turn' \in {"host", "cpu"} /\ OneCallAtATime'
    BY <1>3 DEF RunStep, OneCallAtATime
  <2> QED
    BY <2>1, <2>2 DEF SysIInv, DevicesTyped
<1>4. CASE Cycle \/ LuaClock \/ PowerOff \/ PowerOn \/ HostReset \/ SetInstructionsPerTick
  <2>1. /\ HartStep /\ DevicesTyped'
        /\ turn' \in {"host", "lua", "cpu"} /\ OneCallAtATime'
    BY <1>4, CallIsHartStep DEF HartStep
  <2>2. IInv'
    BY <1>1, <2>1, HartStepKeeps
  <2> QED
    BY <2>1, <2>2 DEF SysIInv, DevicesTyped
<1>5. CASE LuaCall
  <2>1. HartStep /\ DevicesTyped' /\ turn' = turn /\ OneCallAtATime'
    BY <1>5, LuaCallIsHartStep DEF HartStep, Host
  <2>2. IInv'
    BY <1>1, <2>1, HartStepKeeps
  <2> QED
    BY <2>1, <2>2 DEF SysIInv, DevicesTyped
<1> QED
  BY <1>2, <1>3, <1>4, <1>5 DEF SysNext

THEOREM SysInvariant == SysSpec => []SysIInv
BY SysInitIInv, SysNextIInv, PTL DEF SysSpec

(* The machine keeps its types: registers, timer and memory stay within    *)
(* their words whatever the guest, the Lua device and the host do.         *)
THEOREM SysTypeCorrect == SysSpec => []SysTypeOK
<1>1. SysIInv => SysTypeOK
  BY DEF SysIInv, IInv, SysTypeOK
<1> QED
  BY <1>1, SysInvariant, PTL

(* Calls of the host and of clocked devices never meet a batch half done,  *)
(* and no trap is pending when they do: the hart's invariants hold of the  *)
(* composed machine.                                                       *)
THEOREM SysHartInvariants == SysSpec => [](OneCallAtATime /\ TrapConfined /\ CycleCounted)
<1>1. SysIInv => OneCallAtATime /\ TrapConfined /\ CycleCounted
  BY CountedFromIInv DEF SysIInv, IInv
<1> QED
  BY <1>1, SysInvariant, PTL

LEMMA HartStepRefines ==
  ASSUME IInv, HartStep PROVE [Precise!HartNext]_Precise!hartVars
<1>1. CASE InLoop /\ Outcome
  BY <1>1, OutcomeRefines
<1> QED
  BY <1>1, NextRefines DEF HartStep, Next

(* Traps are precise in the composed machine too: the devices, SYSCON, the *)
(* host and Lua callbacks cannot show a guest half an instruction.         *)
THEOREM SysTrapsArePrecise == SysSpec => PreciseTraps
<1>1. SysInit => Precise!HartInit
  BY InitRefines DEF SysInit
<1>2. SysIInv /\ [SysNext]_sysVars => [Precise!HartNext]_Precise!hartVars
  BY SysNextIInv, HartStepRefines DEF SysIInv
<1> QED
  BY <1>1, <1>2, SysInvariant, PTL DEF SysSpec, PreciseTraps, Precise!HartSpec

(* No timer interrupt comes early: its bit is set only in a Cycle, and     *)
(* only by a count that is past the match in the order of the high and the *)
(* low half (ClntDevice.cpp:17-21).                                        *)
THEOREM InterruptsNotEarly == SysSpec => TimerNeverEarly
<1>1. ASSUME SysIInv, [SysNext]_sysVars, turn = "host", turn' = "lua",
             ~Flag(csr["mip"], 128), Flag(csr'["mip"], 128)
      PROVE  Due(timerCountHigh', timerCountLow')
  <2>1. Cycle
    BY <1>1 DEF SysNext, LuaClock, LuaCall, RunStep, PowerOff, PowerOn, HostReset, SetInstructionsPerTick, sysVars
  <2>2. Fires(NextHigh, NextLow)
    BY <1>1, <2>1 DEF Cycle, cpuVars, archVars
  <2>3. timerMatchLow \in Int
    BY <1>1 DEF SysIInv, DevicesTyped, ClntTypeOK
  <2> QED
    BY <2>1, <2>2, <2>3 DEF Fires, Due, Cycle, ClntClock
<1> QED
  BY <1>1, SysInvariant, PTL DEF SysSpec, TimerNeverEarly

--------------------------------------------------------------------------------
(* The guest of GuestLoop.  Whoever interrupts it, the main program stands *)
(* at one of its sixteen instructions with its registers as that place     *)
(* requires, either in the pc or, while the handler runs, in mepc.  The    *)
(* handler runs with interrupts disabled, so nothing overwrites mepc, and  *)
(* interrupts are enabled only once mtvec leads to the handler.            *)

Main      == {At(k) : k \in 0 .. 15}
InHandler == {At(k) : k \in 16 .. 21}

Sound(p, regs) ==
  /\ p = At(2) => regs[3] = Handler
  /\ p = At(8) => regs[1] = 0
  /\ p \in {At(9), At(10), At(13), At(14)} => regs[1] = regs[2]
  /\ p \in {At(11), At(12)} => regs[1] = Alu("xor", regs[2], 1)

Interruptible == Mie(csr["mstatus"])

GuestStands ==
  \/ pc \in Main /\ Sound(pc, gpr)
  \/ /\ pc \in InHandler /\ ~Interruptible
     /\ csr["mepc"] \in Main /\ Sound(csr["mepc"], gpr)

Vectored ==
  csr["mtvec"] = Handler \/ (pc \in {At(0), At(1), At(2)} /\ ~Interruptible)

GuestInv ==
  /\ SysIInv /\ ram \in Images /\ gpr[0] = 0
  /\ GuestStands /\ Vectored
  /\ trapped => Interruptible

LEMMA Layout ==
  ASSUME GuestMachine, NEW k \in 0 .. 21
  PROVE  /\ At(k) \in Word /\ At(k) % 4 = 0 /\ Plus(At(k), 4) = At(k + 1) /\ Plus(At(k), 0) = At(k)
         /\ Device(At(k)) = "ram" /\ RamIndex(At(k)) = k /\ k \in RamIndices
<1>1. ResetVector \in Nat /\ ResetVector >= 128 /\ 2 * ResetVector = WordMod /\ ResetVector % 4 = 0
  BY DEF ResetVector
<1>2. RamBytes \in 88 .. ResetVector - 1 /\ RamBytes % 4 = 0
  BY DEF GuestMachine
<1>3. At(k) \in Word /\ At(k) % 4 = 0
  BY <1>1 DEF At, Word
<1>4. Plus(At(k), 4) = At(k + 1) /\ Plus(At(k), 0) = At(k)
  BY <1>1 DEF At, Plus
<1>5. Within(At(k), ResetVector, RamBytes)
  BY <1>1, <1>2 DEF Within, At, Plus
<1>6. RamIndex(At(k)) = k
  <2>1. At(k) - ResetVector = 4 * k /\ 4 * k \in 0 .. RamBytes - 1
    BY <1>1, <1>2 DEF At
  <2>2. (4 * k) % RamBytes = 4 * k
    BY <1>2, <2>1
  <2> QED
    BY <2>1, <2>2 DEF RamIndex
<1>7. k \in RamIndices
  BY <1>2 DEF RamIndices
<1> QED
  BY <1>3, <1>4, <1>5, <1>6, <1>7 DEF Device

(* The jumps, and where SYSCON's reboot leads. *)
LEMMA Targets ==
  /\ Plus(At(13), WordMod - 12) = At(10)
  /\ ResetVector = At(0) /\ Plus(ResetVector, 4) = At(1)
<1>1. ResetVector \in Nat /\ ResetVector >= 128 /\ 2 * ResetVector = WordMod
  BY DEF ResetVector
<1> QED
  BY <1>1 DEF At, Plus

(* What the guest's memory holds. *)
LEMMA Program ==
  ASSUME GuestMachine, ram \in Images
  PROVE  /\ Decode(ram[0]) = Plain("fence")
         /\ Decode(ram[1]) = Lui(3, Handler) /\ Decode(ram[2]) = CsrOp("rw", "mtvec", 3)
         /\ Decode(ram[3]) = Lui(3, 2 * TimerStep) /\ Decode(ram[4]) = Sw(3, MatchL)
         /\ Decode(ram[5]) = Lui(3, 136) /\ Decode(ram[6]) = CsrOp("rw", "mie", 3)
         /\ Decode(ram[7]) = Lui(1, 0) /\ Decode(ram[8]) = Lui(2, 0)
         /\ Decode(ram[9]) = Instruction("csri", "rs", 0, 0, 0, 8, "mstatus")
         /\ Decode(ram[10]) = Alui("xor", 1, 1) /\ Decode(ram[11]) = Lw(3, LuaBase)
         /\ Decode(ram[12]) = Alui("xor", 2, 1)
         /\ \/ Decode(ram[13]) = Jal(WordMod - 12) /\ Decode(ram[14]) = Jal(0)
            \/ /\ \E code \in Word : Decode(ram[13]) = Lui(3, code)
               /\ Decode(ram[14]) = Sw(3, SysconBase)
         /\ Decode(ram[15]) = Jal(0)
         /\ Decode(ram[16]) = Lui(4, 128) /\ Decode(ram[17]) = CsrOp("rc", "mip", 4)
         /\ Decode(ram[18]) = Lw(4, TimerL) /\ Decode(ram[19]) = Alui("add", 4, 2 * TimerStep)
         /\ Decode(ram[20]) = Sw(4, MatchL) /\ Decode(ram[21]) = Plain("mret")
<1> PICK loop \in Loops : Runs(ram, loop)
  BY DEF GuestMachine
<1>1. \A k \in 1 .. 10 : Decode(ram[k - 1]) = Setup[k]
  <2>1. DOMAIN Setup = 1 .. 10
    BY DEF Setup
  <2>2. \A k \in 1 .. 10 : 0 + k - 1 = k - 1
    OBVIOUS
  <2> QED
    BY <2>1, <2>2 DEF Runs, Holds
<1>2. \A k \in 1 .. 6 : Decode(ram[k + 15]) = TrapHandler[k]
  <2>1. DOMAIN TrapHandler = 1 .. 6
    BY DEF TrapHandler
  <2>2. \A k \in 1 .. 6 : 16 + k - 1 = k + 15
    OBVIOUS
  <2> QED
    BY <2>1, <2>2 DEF Runs, Holds
<1>3. \A k \in 1 .. 6 : Decode(ram[k + 9]) = loop[k]
  <2>1. DOMAIN loop = 1 .. 6
    BY DEF Loops, CountingLoop, SysconLoop
  <2>2. \A k \in 1 .. 6 : 10 + k - 1 = k + 9
    OBVIOUS
  <2> QED
    BY <2>1, <2>2 DEF Runs, Holds
<1>4. /\ loop[1] = Alui("xor", 1, 1) /\ loop[2] = Lw(3, LuaBase) /\ loop[3] = Alui("xor", 2, 1)
      /\ loop[6] = Jal(0)
      /\ \/ loop[4] = Jal(WordMod - 12) /\ loop[5] = Jal(0)
         \/ (\E code \in Word : loop[4] = Lui(3, code)) /\ loop[5] = Sw(3, SysconBase)
  BY DEF Loops, CountingLoop, SysconLoop
<1> QED
  BY <1>1, <1>2, <1>3, <1>4 DEF Setup, TrapHandler

(* What the guest's instructions do.  None of them traps.                  *)

Advances(regs) == gpr' = regs /\ pc' = Plus(pc, 4)
Leaves         == UNCHANGED <<ram, trapped>>

LEMMA FetchedFrom ==
  ASSUME GuestMachine, GuestInv, NEW k \in 0 .. 21, pc = At(k), RunInstruction
  PROVE  InLoop /\ Execute(Decode(ram[k]))
<1>1. BusPeek(pc) = {Answer("ok", ram[k])}
  BY Layout DEF BusPeek
<1> PICK r \in BusPeek(pc) :
      \/ (FetchFault(r) \/ FetchError(r)) /\ PeekEffect(pc, r)
      \/ Fetched(r) /\ Execute(Decode(r.value))
  BY DEF RunInstruction
<1>2. r.kind = "ok" /\ r.value = ram[k]
  BY <1>1 DEF Answer
<1> QED
  BY <1>2 DEF FetchFault, FetchError, Fetched

LEMMA ExecutesInternal ==
  ASSUME NEW i, Execute(i), i.op \notin {"load", "store", "amo"}
  PROVE  Internal(i) /\ ram' = ram
BY DEF Execute

LEMMA ExecutesRegister ==
  ASSUME NEW i, Execute(i), i.op \in {"lui", "alui"}, i.rd # 0
  PROVE  /\ Advances([gpr EXCEPT ![i.rd] = IF i.op = "lui" THEN i.imm ELSE Alu(i.fn, gpr[i.rs1], i.imm)])
         /\ csr' = csr /\ Leaves
<1>1. Internal(i) /\ ram' = ram
  BY ExecutesInternal
<1>2. Upper(i) \/ Register(i)
  BY <1>1 DEF Internal, Jump, Branch, Fence, CsrAccess, Wfi, Mret, Exception
<1> QED
  BY <1>1, <1>2 DEF Upper, Register, Retire, Advances, Leaves, trapVars

LEMMA ExecutesLui ==
  ASSUME NEW r, r # 0, NEW v, Execute(Lui(r, v))
  PROVE  Advances([gpr EXCEPT ![r] = v]) /\ csr' = csr /\ Leaves
<1> DEFINE i == Lui(r, v)
<1>1. i.op = "lui" /\ i.rd = r /\ i.imm = v /\ i.op \in {"lui", "alui"} /\ i.rd # 0
  BY DEF Lui, Instruction
<1>2. Execute(i)
  OBVIOUS
<1> HIDE DEF i
<1>3. Advances([gpr EXCEPT ![i.rd] = IF i.op = "lui" THEN i.imm ELSE Alu(i.fn, gpr[i.rs1], i.imm)])
      /\ csr' = csr /\ Leaves
  BY <1>1, <1>2, ExecutesRegister
<1> QED
  BY <1>1, <1>3

LEMMA ExecutesAlui ==
  ASSUME NEW fn, NEW r, r # 0, NEW v, Execute(Alui(fn, r, v))
  PROVE  Advances([gpr EXCEPT ![r] = Alu(fn, gpr[r], v)]) /\ csr' = csr /\ Leaves
<1> DEFINE i == Alui(fn, r, v)
<1>1. i.op = "alui" /\ i.rd = r /\ i.rs1 = r /\ i.fn = fn /\ i.imm = v
      /\ i.op \in {"lui", "alui"} /\ i.rd # 0 /\ i.op # "lui"
  BY DEF Alui, Instruction
<1>2. Execute(i)
  OBVIOUS
<1> HIDE DEF i
<1>3. Advances([gpr EXCEPT ![i.rd] = IF i.op = "lui" THEN i.imm ELSE Alu(i.fn, gpr[i.rs1], i.imm)])
      /\ csr' = csr /\ Leaves
  BY <1>1, <1>2, ExecutesRegister
<1> QED
  BY <1>1, <1>3

LEMMA ExecutesFence ==
  ASSUME NEW i, Execute(i), i.op = "fence"
  PROVE  Advances(gpr) /\ csr' = csr /\ Leaves
<1>1. Internal(i) /\ ram' = ram
  BY ExecutesInternal
<1>2. Fence(i)
  BY <1>1 DEF Internal, Jump, Branch, Upper, Register, CsrAccess, Wfi, Mret, Exception
<1> QED
  BY <1>1, <1>2 DEF Fence, Retire, Advances, Leaves, trapVars

LEMMA ExecutesJal ==
  ASSUME NEW i, Execute(i), i.op = "jal", i.rd = 0
  PROVE  gpr' = gpr /\ pc' = Plus(pc, i.imm) /\ csr' = csr /\ Leaves
<1>1. Internal(i) /\ ram' = ram
  BY ExecutesInternal
<1>2. Jump(i)
  BY <1>1 DEF Internal, Fence, Branch, Upper, Register, CsrAccess, Wfi, Mret, Exception
<1> QED
  BY <1>1, <1>2 DEF Jump, Retire, Leaves, trapVars

LEMMA ExecutesCsr ==
  ASSUME NEW i, Execute(i), i.op \in {"csr", "csri"}, i.rd = 0, i.csr \in CsrWords
  PROVE  /\ Advances(gpr) /\ Leaves
         /\ \E v : csr' = [csr EXCEPT ![i.csr] = v] /\ (i.op = "csr" /\ i.fn = "rw" => v = gpr[i.rs1])
<1>1. Internal(i) /\ ram' = ram
  BY ExecutesInternal
<1>2. CsrAccess(i)
  BY <1>1 DEF Internal, Fence, Branch, Upper, Register, Jump, Wfi, Mret, Exception
<1> QED
  BY <1>1, <1>2 DEF CsrAccess, Retire, Advances, Leaves, trapVars

LEMMA ExecutesMret ==
  ASSUME NEW i, Execute(i), i.op = "mret"
  PROVE  /\ gpr' = gpr /\ pc' = csr["mepc"] /\ Leaves
         /\ \E v : csr' = [csr EXCEPT !["mstatus"] = v]
<1>1. Internal(i) /\ ram' = ram
  BY ExecutesInternal
<1>2. Mret(i)
  BY <1>1 DEF Internal, Fence, Branch, Upper, Register, Jump, Wfi, CsrAccess, Exception
<1> QED
  BY <1>1, <1>2 DEF Mret, Retire, Leaves, trapVars

(* A device that is there answers, raises an error or resets the hart:     *)
(* the access completes, is abandoned, or goes on behind the vector.       *)
LEMMA ExecutesLoad ==
  ASSUME NEW i, Execute(i), i.op = "load", i.rd # 0, Device(DataAddress(i)) \in {"clnt", "lua"}
  PROVE  /\ csr' = csr /\ Leaves
         /\ \/ gpr' = gpr /\ pc' = pc
            \/ /\ pc' \in {Plus(pc, 4), Plus(ResetVector, 4)}
               /\ \E v : gpr' = [gpr EXCEPT ![i.rd] = v]
<1>1. BusLoad(i)
  BY DEF Execute, Internal, Upper, Register, Fence, Branch, Jump, Wfi, CsrAccess, Mret, Exception
<1> PICK r \in BusPeek(DataAddress(i)) : Load(i, r) /\ PeekEffect(DataAddress(i), r)
  BY <1>1 DEF BusLoad
<1>2. r.kind # "fault"
  BY DEF BusPeek, LuaReplies, Answer
<1>3. ram' = ram
  BY DEF PeekEffect, LuaEffect
<1>4. CASE Abandon
  BY <1>3, <1>4 DEF Abandon, archVars, trapVars, Leaves
<1>5. CASE Retire(i.rd, Extend(i.fn, r.value), PcAfter(r)) /\ UNCHANGED <<csr, resv>>
  BY <1>3, <1>5 DEF Retire, PcAfter, Leaves, trapVars
<1> QED
  BY <1>2, <1>4, <1>5 DEF Load

LEMMA ExecutesStore ==
  ASSUME NEW i, Execute(i), i.op = "store", Device(DataAddress(i)) \in {"clnt", "syscon"}
  PROVE  /\ gpr' = gpr /\ csr' = csr /\ Leaves
         /\ pc' \in {pc, Plus(pc, 4), Plus(ResetVector, 4)}
<1>1. BusStore(i)
  BY DEF Execute, Internal, Upper, Register, Fence, Branch, Jump, Wfi, CsrAccess, Mret, Exception
<1> PICK r \in BusPoke(DataAddress(i), gpr[i.rs2]) :
      Store(i, r) /\ PokeEffect(DataAddress(i), gpr[i.rs2], r)
  BY <1>1 DEF BusStore
<1>2. r.kind # "fault"
  BY DEF BusPoke, Answer
<1>3. ram' = ram
  BY DEF PokeEffect
<1>4. CASE Abandon
  BY <1>3, <1>4 DEF Abandon, archVars, trapVars, Leaves
<1>5. CASE Retire(0, rval, PcAfter(r)) /\ UNCHANGED <<csr, resv>>
  BY <1>3, <1>5 DEF Retire, PcAfter, Leaves, trapVars
<1> QED
  BY <1>2, <1>4, <1>5 DEF Store

(* The main program. *)

Stays == Leaves /\ gpr'[0] = 0 /\ GuestStands' /\ Vectored'

LEMMA PlacesDiffer ==
  ASSUME NEW j \in 0 .. 22, NEW k \in 0 .. 22, At(j) = At(k) PROVE j = k
<1>1. ResetVector \in Int
  BY DEF ResetVector
<1> QED
  BY <1>1 DEF At

LEMMA SoundAt ==
  ASSUME NEW regs
  PROVE  /\ \A k \in {0, 1, 3, 4, 5, 6, 7, 15} : Sound(At(k), regs)
         /\ Sound(At(2), regs) <=> regs[3] = Handler
         /\ Sound(At(8), regs) <=> regs[1] = 0
         /\ \A k \in {9, 10, 13, 14} : Sound(At(k), regs) <=> regs[1] = regs[2]
         /\ \A k \in {11, 12} : Sound(At(k), regs) <=> regs[1] = Alu("xor", regs[2], 1)
<1>1. ResetVector \in Int
  BY DEF ResetVector
<1> QED
  BY <1>1 DEF Sound, At

LEMMA GoesOn ==
  ASSUME NEW j \in 0 .. 15, pc' = At(j), Sound(At(j), gpr'), gpr'[0] = 0, Leaves,
         csr'["mtvec"] = Handler \/ (j \in {0, 1, 2} /\ ~Interruptible')
  PROVE  Stays
BY DEF Stays, GuestStands, Vectored, Main

(* What the invariant says at an instruction of the main program. *)
LEMMA MainState ==
  ASSUME GuestMachine, GuestInv, NEW k \in 0 .. 15, pc = At(k)
  PROVE  /\ gpr \in [Regs -> Word] /\ csr \in [CsrWords -> Word] /\ {0, 1, 2, 3, 4} \subseteq Regs
         /\ gpr[0] = 0 /\ Sound(At(k), gpr)
         /\ csr["mtvec"] = Handler \/ (k \in {0, 1, 2} /\ ~Interruptible)
<1>1. pc \notin InHandler
  BY PlacesDiffer DEF InHandler
<1>2. Sound(At(k), gpr)
  BY <1>1 DEF GuestInv, GuestStands
<1>3. gpr \in [Regs -> Word] /\ csr \in [CsrWords -> Word]
  BY DEF GuestInv, SysIInv, IInv, TypeOK
<1>4. {0, 1, 2, 3, 4} \subseteq Regs
  BY DEF GuestMachine, Regs
<1>5. csr["mtvec"] = Handler \/ (k \in {0, 1, 2} /\ ~Interruptible)
  BY PlacesDiffer DEF GuestInv, Vectored
<1> QED
  BY <1>2, <1>3, <1>4, <1>5 DEF GuestInv

(* A register is loaded, x1 and x2 aside. *)
LEMMA LuiStays ==
  ASSUME GuestMachine, GuestInv, NEW k \in 0 .. 14, pc = At(k), NEW r \in {1, 2, 3}, NEW v,
         Execute(Lui(r, v)), Sound(At(k + 1), [gpr EXCEPT ![r] = v]), k # 2
  PROVE  Stays
<1>1. Advances([gpr EXCEPT ![r] = v]) /\ csr' = csr /\ Leaves
  <2>1. r # 0
    OBVIOUS
  <2> QED
    BY <2>1, ExecutesLui
<1>2. pc' = At(k + 1) /\ k + 1 \in 0 .. 15
  BY <1>1, Layout DEF Advances
<1>3. gpr'[0] = 0
  BY <1>1, MainState DEF Advances
<1>4. csr'["mtvec"] = Handler \/ (k + 1 \in {0, 1, 2} /\ ~Interruptible')
  <2>1. csr["mtvec"] = Handler \/ (k \in {0, 1} /\ ~Interruptible)
    BY MainState
  <2> QED
    BY <1>1, <2>1 DEF Interruptible
<1> QED
  BY <1>1, <1>2, <1>3, <1>4, GoesOn DEF Advances

(* A store to a device: done, abandoned, or the reboot. *)
LEMMA SwStays ==
  ASSUME GuestMachine, GuestInv, NEW k \in {4, 14}, pc = At(k), NEW a \in Word,
         Device(a) \in {"clnt", "syscon"}, Execute(Sw(3, a))
  PROVE  Stays
<1>1. DataAddress(Sw(3, a)) = a
  BY MainState DEF DataAddress, Sw, Instruction, Plus, Word
<1>2. /\ gpr' = gpr /\ csr' = csr /\ Leaves
      /\ pc' \in {pc, Plus(pc, 4), Plus(ResetVector, 4)}
  BY <1>1, ExecutesStore DEF Sw, Instruction
<1>3. csr["mtvec"] = Handler /\ gpr[0] = 0 /\ Sound(At(k), gpr)
  BY MainState
<1>4. PICK j \in {k, k + 1, 1} : pc' = At(j)
  BY <1>2, Layout, Targets
<1>5. Sound(At(j), gpr)
  BY <1>3, SoundAt
<1> QED
  BY <1>2, <1>3, <1>4, <1>5, GoesOn

LEMMA MainStays ==
  ASSUME GuestMachine, GuestInv, NEW k \in 0 .. 15, pc = At(k), RunInstruction
  PROVE  Stays
<1>1. InLoop /\ Execute(Decode(ram[k])) /\ ram \in Images
  BY FetchedFrom DEF GuestInv
<1>2. k <= 14 => Plus(pc, 4) = At(k + 1)
  BY Layout
<1>3. /\ gpr \in [Regs -> Word] /\ csr \in [CsrWords -> Word] /\ {0, 1, 2, 3, 4} \subseteq Regs
      /\ gpr[0] = 0 /\ Sound(At(k), gpr)
      /\ csr["mtvec"] = Handler \/ (k \in {0, 1, 2} /\ ~Interruptible)
  BY MainState
<1>4. CASE k = 0
  <2>1. Execute(Plain("fence"))
    BY <1>1, <1>4, Program
  <2>2. Advances(gpr) /\ csr' = csr /\ Leaves
    BY <2>1, ExecutesFence DEF Plain, Instruction
  <2>3. pc' = At(1) /\ gpr' = gpr
    BY <1>2, <1>4, <2>2 DEF Advances
  <2> QED
    BY <1>3, <2>2, <2>3, SoundAt, GoesOn DEF Interruptible
<1>5. CASE k = 1
  <2>1. Execute(Lui(3, Handler))
    BY <1>1, <1>5, Program
  <2>2. Sound(At(2), [gpr EXCEPT ![3] = Handler])
    BY <1>3, SoundAt
  <2> QED
    BY <1>5, <2>1, <2>2, LuiStays
<1>6. CASE k = 2
  <2>1. Execute(CsrOp("rw", "mtvec", 3))
    BY <1>1, <1>6, Program
  <2>2. PICK v : csr' = [csr EXCEPT !["mtvec"] = v] /\ v = gpr[3]
    BY <2>1, ExecutesCsr DEF CsrOp, Instruction, CsrWords
  <2>3. Advances(gpr) /\ Leaves
    BY <2>1, ExecutesCsr DEF CsrOp, Instruction, CsrWords
  <2>4. gpr[3] = Handler
    BY <1>3, <1>6, SoundAt
  <2>5. csr'["mtvec"] = Handler
    BY <1>3, <2>2, <2>4 DEF CsrWords
  <2>6. pc' = At(3) /\ gpr' = gpr
    BY <1>2, <1>6, <2>3 DEF Advances
  <2> QED
    BY <1>3, <2>3, <2>5, <2>6, SoundAt, GoesOn
<1>7. CASE k = 3 \/ k = 5
  <2>1. PICK v : Execute(Lui(3, v))
    BY <1>1, <1>7, Program
  <2>2. Sound(At(k + 1), [gpr EXCEPT ![3] = v])
    BY <1>7, SoundAt
  <2> QED
    BY <1>7, <2>1, <2>2, LuiStays
<1>8. CASE k = 4
  <2>1. Execute(Sw(3, MatchL))
    BY <1>1, <1>8, Program
  <2>2. MatchL \in Word /\ Device(MatchL) = "clnt"
    BY DEF GuestMachine
  <2> QED
    BY <1>8, <2>1, <2>2, SwStays
<1>9. CASE k = 6 \/ k = 9
  <2>1. PICK i : /\ Execute(i) /\ i.op \in {"csr", "csri"} /\ i.rd = 0 /\ i.csr \in CsrWords \ {"mtvec"}
    <3>1. CASE k = 6
      BY <1>1, <3>1, Program DEF CsrOp, Instruction, CsrWords
    <3>2. CASE k = 9
      BY <1>1, <3>2, Program DEF Instruction, CsrWords
    <3> QED
      BY <1>9, <3>1, <3>2
  <2>2. PICK v : csr' = [csr EXCEPT ![i.csr] = v]
    BY <2>1, ExecutesCsr
  <2>3. Advances(gpr) /\ Leaves
    BY <2>1, ExecutesCsr
  <2>4. csr'["mtvec"] = Handler
    BY <1>3, <1>9, <2>1, <2>2 DEF CsrWords
  <2>5. pc' = At(k + 1) /\ gpr' = gpr
    BY <1>2, <1>9, <2>3 DEF Advances
  <2>6. Sound(At(k + 1), gpr)
    BY <1>3, <1>9, SoundAt
  <2> QED
    BY <1>3, <1>9, <2>3, <2>4, <2>5, <2>6, GoesOn
<1>10. CASE k = 7
  <2>1. Execute(Lui(1, 0))
    BY <1>1, <1>10, Program
  <2>2. Sound(At(8), [gpr EXCEPT ![1] = 0])
    BY <1>3, SoundAt
  <2> QED
    BY <1>10, <2>1, <2>2, LuiStays
<1>11. CASE k = 8
  <2>1. Execute(Lui(2, 0))
    BY <1>1, <1>11, Program
  <2>2. gpr[1] = 0
    BY <1>3, <1>11, SoundAt
  <2>3. Sound(At(9), [gpr EXCEPT ![2] = 0])
    BY <1>3, <2>2, SoundAt
  <2> QED
    BY <1>11, <2>1, <2>3, LuiStays
<1>12. CASE k \in {10, 12}
  <2> DEFINE r == IF k = 10 THEN 1 ELSE 2
  <2>1. Execute(Alui("xor", r, 1))
    BY <1>1, <1>12, Program
  <2>2. Advances([gpr EXCEPT ![r] = Alu("xor", gpr[r], 1)]) /\ csr' = csr /\ Leaves
    <3>1. r # 0
      OBVIOUS
    <3> HIDE DEF r
    <3> QED
      BY <2>1, <3>1, ExecutesAlui
  <2>3. pc' = At(k + 1) /\ gpr' = [gpr EXCEPT ![r] = Alu("xor", gpr[r], 1)]
    BY <1>2, <1>12, <2>2 DEF Advances
  <2>4. Sound(At(k + 1), gpr')
    <3>1. CASE k = 10
      <4>1. gpr[1] = gpr[2] /\ gpr' = [gpr EXCEPT ![1] = Alu("xor", gpr[1], 1)]
        BY <1>3, <2>3, <3>1, SoundAt
      <4>2. gpr'[1] = Alu("xor", gpr'[2], 1)
        BY <1>3, <4>1
      <4> QED
        BY <3>1, <4>2, SoundAt
    <3>2. CASE k = 12
      <4>1. gpr[1] = Alu("xor", gpr[2], 1) /\ gpr' = [gpr EXCEPT ![2] = Alu("xor", gpr[2], 1)]
        BY <1>3, <2>3, <3>2, SoundAt
      <4>2. gpr'[1] = gpr'[2]
        BY <1>3, <4>1
      <4> QED
        BY <3>2, <4>2, SoundAt
    <3> QED
      BY <1>12, <3>1, <3>2
  <2>5. csr'["mtvec"] = Handler /\ gpr'[0] = 0
    BY <1>3, <1>12, <2>2, <2>3
  <2> QED
    BY <1>12, <2>2, <2>3, <2>4, <2>5, GoesOn
<1>13. CASE k = 11
  <2>1. Execute(Lw(3, LuaBase))
    BY <1>1, <1>13, Program
  <2>2. DataAddress(Lw(3, LuaBase)) = LuaBase
    BY <1>3 DEF DataAddress, Lw, Instruction, Plus, Word
  <2>3. /\ csr' = csr /\ Leaves
        /\ \/ gpr' = gpr /\ pc' = pc
           \/ /\ pc' \in {Plus(pc, 4), Plus(ResetVector, 4)}
              /\ \E v : gpr' = [gpr EXCEPT ![3] = v]
    BY <2>1, <2>2, ExecutesLoad DEF Lw, Instruction, GuestMachine
  <2>4. PICK j \in {1, 11, 12} : pc' = At(j)
    BY <1>2, <1>13, <2>3, Targets
  <2>5. gpr'[0] = 0 /\ gpr'[1] = gpr[1] /\ gpr'[2] = gpr[2]
    BY <1>3, <2>3
  <2>6. Sound(At(j), gpr')
    BY <1>3, <1>13, <2>5, SoundAt
  <2>7. csr'["mtvec"] = Handler
    BY <1>3, <1>13, <2>3
  <2> QED
    BY <2>3, <2>4, <2>5, <2>6, <2>7, GoesOn
<1>14. ASSUME NEW to \in 0 .. 15, NEW v, Execute(Jal(v)), Plus(pc, v) = At(to), k >= 13,
              Sound(At(to), gpr)
       PROVE  Stays
  <2>1. gpr' = gpr /\ pc' = At(to) /\ csr' = csr /\ Leaves
    BY <1>14, ExecutesJal DEF Jal, Instruction
  <2>2. csr["mtvec"] = Handler
    BY <1>3, <1>14
  <2> QED
    BY <1>3, <1>14, <2>1, <2>2, GoesOn
<1>15. CASE k = 13
  <2>1. gpr[1] = gpr[2]
    BY <1>3, <1>15, SoundAt
  <2>2. ASSUME Execute(Jal(WordMod - 12)) PROVE Stays
    <3>1. Sound(At(10), gpr)
      BY <2>1, SoundAt
    <3> QED
      BY <1>14, <1>15, <2>2, <3>1, Targets
  <2>3. ASSUME NEW code \in Word, Execute(Lui(3, code)) PROVE Stays
    <3>1. Sound(At(14), [gpr EXCEPT ![3] = code])
      BY <1>3, <2>1, SoundAt
    <3> QED
      BY <1>15, <2>3, <3>1, LuiStays
  <2> QED
    BY <1>1, <1>15, <2>2, <2>3, Program
<1>16. CASE k = 14
  <2>1. ASSUME Execute(Jal(0)) PROVE Stays
    BY <1>3, <1>14, <1>16, <2>1, Layout
  <2>2. ASSUME Execute(Sw(3, SysconBase)) PROVE Stays
    BY <1>16, <2>2, SwStays DEF GuestMachine
  <2> QED
    BY <1>1, <1>16, <2>1, <2>2, Program
<1>17. CASE k = 15
  <2>1. Execute(Jal(0))
    BY <1>1, <1>17, Program
  <2> QED
    BY <1>3, <1>14, <1>17, <2>1, Layout
<1>18. k \in {0, 1, 2, 3, 4, 5, 6, 7, 8, 9, 10, 11, 12, 13, 14, 15}
  OBVIOUS
<1> QED
  BY <1>4, <1>5, <1>6, <1>7, <1>8, <1>9, <1>10, <1>11, <1>12, <1>13, <1>15, <1>16, <1>17, <1>18

(* The handler. *)

LEMMA HandlerState ==
  ASSUME GuestMachine, GuestInv, NEW k \in 16 .. 21, pc = At(k)
  PROVE  /\ gpr \in [Regs -> Word] /\ csr \in [CsrWords -> Word] /\ {0, 1, 2, 3, 4} \subseteq Regs
         /\ gpr[0] = 0 /\ csr["mtvec"] = Handler /\ ~Interruptible
         /\ csr["mepc"] \in Main /\ Sound(csr["mepc"], gpr)
<1>1. pc \notin Main /\ pc \notin {At(0), At(1), At(2)}
  BY PlacesDiffer DEF Main
<1>2. gpr \in [Regs -> Word] /\ csr \in [CsrWords -> Word]
  BY DEF GuestInv, SysIInv, IInv, TypeOK
<1>3. {0, 1, 2, 3, 4} \subseteq Regs
  BY DEF GuestMachine, Regs
<1> QED
  BY <1>1, <1>2, <1>3 DEF GuestInv, GuestStands, Vectored

(* The handler changes nothing of what the main program relies on. *)
LEMMA HandlerGoesOn ==
  ASSUME GuestMachine, GuestInv, NEW k \in 16 .. 21, pc = At(k),
         NEW j \in 16 .. 21, pc' = At(j), Leaves,
         \A r \in 0 .. 3 : gpr'[r] = gpr[r],
         \A c \in {"mepc", "mtvec", "mstatus"} : csr'[c] = csr[c]
  PROVE  Stays
<1>1. /\ gpr[0] = 0 /\ csr["mtvec"] = Handler /\ ~Interruptible
      /\ csr["mepc"] \in Main /\ Sound(csr["mepc"], gpr)
  BY HandlerState
<1>2. gpr'[0] = gpr[0] /\ gpr'[1] = gpr[1] /\ gpr'[2] = gpr[2] /\ gpr'[3] = gpr[3]
  OBVIOUS
<1>3. csr'["mepc"] = csr["mepc"] /\ csr'["mtvec"] = Handler /\ ~Interruptible'
  BY <1>1 DEF Interruptible
<1>4. Sound(csr["mepc"], gpr')
  BY <1>1, <1>2 DEF Sound
<1> QED
  BY <1>1, <1>2, <1>3, <1>4 DEF Stays, GuestStands, Vectored, InHandler

LEMMA HandlerStays ==
  ASSUME GuestMachine, GuestInv, NEW k \in 16 .. 21, pc = At(k), RunInstruction
  PROVE  Stays
<1>1. InLoop /\ Execute(Decode(ram[k])) /\ ram \in Images
  BY FetchedFrom DEF GuestInv
<1>2. k <= 20 => Plus(pc, 4) = At(k + 1) /\ k + 1 \in 16 .. 21
  BY Layout
<1>3. /\ gpr \in [Regs -> Word] /\ csr \in [CsrWords -> Word] /\ {0, 1, 2, 3, 4} \subseteq Regs
      /\ gpr[0] = 0 /\ csr["mtvec"] = Handler /\ csr["mepc"] \in Main /\ Sound(csr["mepc"], gpr)
  BY HandlerState
<1>4. ASSUME NEW v, Advances([gpr EXCEPT ![4] = v]), csr' = csr, Leaves, k <= 20
      PROVE  Stays
  <2>1. gpr' = [gpr EXCEPT ![4] = v] /\ pc' = At(k + 1) /\ k + 1 \in 16 .. 21
    BY <1>2, <1>4 DEF Advances
  <2>2. \A r \in 0 .. 3 : gpr'[r] = gpr[r]
    BY <1>3, <2>1
  <2> QED
    BY <1>4, <2>1, <2>2, HandlerGoesOn
<1>5. 4 # 0
  OBVIOUS
<1>6. ASSUME pc' = Plus(ResetVector, 4), Leaves, gpr'[0] = 0, csr' = csr PROVE Stays
  BY <1>3, <1>6, Targets, SoundAt, GoesOn
<1>7. CASE k = 16
  <2>1. Execute(Lui(4, 128))
    BY <1>1, <1>7, Program
  <2>2. Advances([gpr EXCEPT ![4] = 128]) /\ csr' = csr /\ Leaves
    BY <1>5, <2>1, ExecutesLui
  <2> QED
    BY <1>4, <1>7, <2>2
<1>8. CASE k = 17
  <2>1. Execute(CsrOp("rc", "mip", 4))
    BY <1>1, <1>8, Program
  <2>2. PICK v : csr' = [csr EXCEPT !["mip"] = v]
    BY <2>1, ExecutesCsr DEF CsrOp, Instruction, CsrWords
  <2>3. Advances(gpr) /\ Leaves
    BY <2>1, ExecutesCsr DEF CsrOp, Instruction, CsrWords
  <2>4. \A c \in {"mepc", "mtvec", "mstatus"} : csr'[c] = csr[c]
    BY <1>3, <2>2 DEF CsrWords
  <2>5. pc' = At(18) /\ gpr' = gpr
    BY <1>2, <1>8, <2>3 DEF Advances
  <2> QED
    BY <1>8, <2>3, <2>4, <2>5, HandlerGoesOn
<1>9. CASE k = 18
  <2>1. Execute(Lw(4, TimerL))
    BY <1>1, <1>9, Program
  <2>2. DataAddress(Lw(4, TimerL)) = TimerL
    BY <1>3 DEF DataAddress, Lw, Instruction, Plus, Word
  <2>3. /\ csr' = csr /\ Leaves
        /\ \/ gpr' = gpr /\ pc' = pc
           \/ /\ pc' \in {Plus(pc, 4), Plus(ResetVector, 4)}
              /\ \E v : gpr' = [gpr EXCEPT ![4] = v]
    BY <2>1, <2>2, ExecutesLoad DEF Lw, Instruction, GuestMachine
  <2>4. \A r \in 0 .. 3 : gpr'[r] = gpr[r]
    BY <1>3, <2>3
  <2>5. ASSUME pc' = At(18) \/ pc' = At(19) PROVE Stays
    BY <1>9, <2>3, <2>4, <2>5, HandlerGoesOn
  <2> QED
    BY <1>2, <1>3, <1>6, <1>9, <2>3, <2>4, <2>5
<1>10. CASE k = 19
  <2>1. Execute(Alui("add", 4, 2 * TimerStep))
    BY <1>1, <1>10, Program
  <2>2. Advances([gpr EXCEPT ![4] = Alu("add", gpr[4], 2 * TimerStep)]) /\ csr' = csr /\ Leaves
    BY <1>5, <2>1, ExecutesAlui
  <2> QED
    BY <1>4, <1>10, <2>2
<1>11. CASE k = 20
  <2>1. Execute(Sw(4, MatchL))
    BY <1>1, <1>11, Program
  <2>2. DataAddress(Sw(4, MatchL)) = MatchL
    BY <1>3 DEF DataAddress, Sw, Instruction, Plus, Word
  <2>3. /\ gpr' = gpr /\ csr' = csr /\ Leaves
        /\ pc' \in {pc, Plus(pc, 4), Plus(ResetVector, 4)}
    BY <2>1, <2>2, ExecutesStore DEF Sw, Instruction, GuestMachine
  <2>4. ASSUME pc' = At(20) \/ pc' = At(21) PROVE Stays
    BY <1>11, <2>3, <2>4, HandlerGoesOn
  <2> QED
    BY <1>2, <1>3, <1>6, <1>11, <2>3, <2>4
<1>12. CASE k = 21
  <2>1. Execute(Plain("mret"))
    BY <1>1, <1>12, Program
  <2>2. /\ gpr' = gpr /\ pc' = csr["mepc"] /\ Leaves
        /\ \E v : csr' = [csr EXCEPT !["mstatus"] = v]
    BY <2>1, ExecutesMret DEF Plain, Instruction
  <2>3. PICK j \in 0 .. 15 : csr["mepc"] = At(j)
    BY <1>3 DEF Main
  <2>4. csr'["mtvec"] = Handler
    BY <1>3, <2>2 DEF CsrWords
  <2> QED
    BY <1>3, <2>2, <2>3, <2>4, GoesOn
<1>13. k \in {16, 17, 18, 19, 20, 21}
  OBVIOUS
<1> QED
  BY <1>7, <1>8, <1>9, <1>10, <1>11, <1>12, <1>13

(* An interrupt is taken with interrupts disabled: the bit below MPIE and  *)
(* MPP that enables them stays down.                                       *)
LEMMA TrapMasks ==
  ASSUME GuestMachine, NEW w \in Word, NEW level \in 0 .. 3
  PROVE  ~Mie(TrapStatus(w, level))
<1> DEFINE stacked == Bit(Mie(w), 128) + level * MppUnit
<1>1. stacked \in Nat /\ stacked % 16 = 0
  <2>1. MppUnit \in Nat /\ MppUnit % 16 = 0
    BY DEF GuestMachine
  <2>2. level \in {0, 1, 2, 3}
    OBVIOUS
  <2>3. level * MppUnit \in Nat /\ (level * MppUnit) % 16 = 0
    BY <2>1, <2>2
  <2> QED
    BY <2>3 DEF Bit
<1>2. TrapStatus(w, level) = stacked % WordMod
  BY DEF TrapStatus
<1> HIDE DEF stacked
<1>3. PICK q \in Nat : WordMod = 16 * q
  <2>1. WordMod = 16 * (WordMod \div 16) /\ WordMod \div 16 \in Nat
    OBVIOUS
  <2> QED
    BY <2>1, Zenon
<1>4. PICK d \in Int : stacked = WordMod * d + (stacked % WordMod)
  <2>1. stacked = WordMod * (stacked \div WordMod) + (stacked % WordMod) /\ stacked \div WordMod \in Int
    BY <1>1
  <2> QED
    BY <2>1
<1>5. PICK e \in Int : WordMod * d = 16 * e
  <2>1. (16 * q) * d = 16 * (q * d) /\ q * d \in Int
    OBVIOUS
  <2> QED
    BY <1>3, <2>1
<1>6. stacked % WordMod \in Nat /\ stacked % WordMod = stacked - 16 * e
  BY <1>1, <1>4, <1>5
<1> DEFINE m == stacked % WordMod
<1> HIDE DEF m
<1>7. m \in Nat /\ m = stacked - 16 * e
  BY <1>6 DEF m
<1>8. m % 16 = 0
  BY <1>1, <1>7
<1>9. (m \div 8) % 2 = 0
  BY <1>7, <1>8
<1> QED
  BY <1>2, <1>9 DEF Mie, Flag, m

--------------------------------------------------------------------------------
(* The machine around the guest. *)

LEMMA StandsStill ==
  ASSUME GuestInv, UNCHANGED <<pc, gpr>>,
         \A c \in {"mepc", "mtvec", "mstatus"} : csr'[c] = csr[c]
  PROVE  GuestStands' /\ Vectored' /\ (Interruptible' <=> Interruptible)
<1>1. csr'["mepc"] = csr["mepc"] /\ csr'["mtvec"] = csr["mtvec"] /\ csr'["mstatus"] = csr["mstatus"]
  OBVIOUS
<1>2. Interruptible' <=> Interruptible
  BY <1>1 DEF Interruptible
<1>3. \A p : Sound(p, gpr)' <=> Sound(p, gpr)
  BY DEF Sound
<1> QED
  BY <1>1, <1>2, <1>3 DEF GuestInv, GuestStands, Vectored

(* Between two Steps: the timer marks an interrupt, or the pc goes back to *)
(* the vector.                                                             *)
LEMMA CallsKeepGuest ==
  ASSUME GuestMachine, GuestInv,
         \/ Cycle \/ LuaClock \/ LuaCall \/ UNCHANGED sysVars
         \/ PowerOff \/ PowerOn \/ HostReset \/ SetInstructionsPerTick
  PROVE  /\ ram' \in Images /\ gpr'[0] = 0 /\ GuestStands' /\ Vectored'
         /\ trapped' => Interruptible'
<1>1. ram' = ram /\ ram \in Images /\ gpr[0] = 0 /\ (trapped => Interruptible)
  BY DEF GuestInv, Cycle, LuaClock, LuaCall, PowerOff, PowerOn, HostReset, SetInstructionsPerTick, sysVars
<1>2. csr \in [CsrWords -> Word]
  BY DEF GuestInv, SysIInv, IInv, TypeOK
<1>3. Host \/ UNCHANGED cpuVars
  BY CallIsHartStep, LuaCallIsHartStep DEF GuestInv, sysVars, Host
<1>4. CASE UNCHANGED cpuVars
  <2>1. UNCHANGED <<pc, gpr, csr, trapped>>
    BY <1>4 DEF cpuVars, archVars, trapVars
  <2> QED
    BY <1>1, <2>1, StandsStill
<1>5. CASE TimerInterrupt
  <2>1. UNCHANGED <<pc, gpr, trapped>> /\ \A c \in {"mepc", "mtvec", "mstatus"} : csr'[c] = csr[c]
    BY <1>2, <1>5 DEF TimerInterrupt, trapVars, CsrWords
  <2> QED
    BY <1>1, <2>1, StandsStill
<1>6. CASE Reset
  <2>1. pc' = At(0) /\ UNCHANGED <<gpr, csr, trapped>>
    BY <1>6, Targets DEF Reset, trapVars
  <2>2. csr["mtvec"] = Handler \/ ~Interruptible
    BY DEF GuestInv, Vectored
  <2>3. gpr'[0] = 0 /\ Leaves
    BY <1>1, <2>1 DEF Leaves
  <2>4. Stays
    BY <2>1, <2>2, <2>3, SoundAt, GoesOn DEF Interruptible
  <2> QED
    BY <1>1, <2>1, <2>4 DEF Stays, Interruptible
<1>7. CASE \E n \in InstructionCounts : SetInstructionCount(n)
  <2>1. UNCHANGED <<pc, gpr, csr, trapped>>
    BY <1>7 DEF SetInstructionCount, archVars, trapVars
  <2> QED
    BY <1>1, <2>1, StandsStill
<1> QED
  BY <1>3, <1>4, <1>5, <1>6, <1>7 DEF Host, StepWaiting

LEMMA RunStepKeepsGuest ==
  ASSUME GuestMachine, GuestInv, RunStep
  PROVE  /\ ram' \in Images /\ gpr'[0] = 0 /\ GuestStands' /\ Vectored'
         /\ trapped' => Interruptible'
<1>1. /\ ram \in Images /\ gpr[0] = 0 /\ (trapped => Interruptible)
      /\ IInv /\ gpr \in [Regs -> Word] /\ csr \in [CsrWords -> Word] /\ priv \in 0 .. 3
  BY DEF GuestInv, SysIInv, IInv, TypeOK
<1>2. \E k \in 0 .. 21 : pc = At(k)
  BY DEF GuestInv, GuestStands, Main, InHandler
<1>3. CASE (StepWaiting \/ LoopDone) /\ ram' = ram
  <2>1. UNCHANGED <<pc, gpr, csr, trapped>>
    BY <1>3 DEF StepWaiting, LoopDone, cpuVars, archVars, trapVars
  <2> QED
    BY <1>1, <1>3, <2>1, StandsStill
<1>4. CASE StepBegin /\ ram' = ram
  <2>1. UNCHANGED <<pc, gpr, csr>>
    BY <1>4 DEF StepBegin
  <2>2. trapped' => trapped \/ Interruptible
    BY <1>4 DEF StepBegin, InterruptsInFlight, Interruptible, trapVars
  <2> QED
    BY <1>1, <1>4, <2>1, <2>2, StandsStill
<1>5. ~FetchMisaligned
  BY <1>2, Layout DEF FetchMisaligned
<1>6. CASE StepEnd /\ ~trapped /\ ram' = ram
  <2>1. UNCHANGED <<pc, gpr, csr, trapped>>
    BY <1>6 DEF StepEnd, trapVars
  <2> QED
    BY <1>1, <1>6, <2>1, StandsStill
<1>7. CASE StepEnd /\ trapped /\ ram' = ram
  <2>1. EnterHandler /\ gpr' = gpr
    BY <1>7 DEF StepEnd
  <2>2. pc \in Main /\ Sound(pc, gpr) /\ csr["mtvec"] = Handler
    BY <1>1, <1>7 DEF GuestInv, GuestStands, Vectored
  <2>3. TrapPc = pc
    BY <1>1 DEF TrapPc, IInv, NoCode, IntBit
  <2>4. /\ csr'["mepc"] = pc /\ csr'["mtvec"] = Handler
        /\ csr'["mstatus"] = TrapStatus(csr["mstatus"], priv)
    BY <1>1, <2>1, <2>2, <2>3 DEF EnterHandler, CsrWords
  <2>5. ~Interruptible'
    <3>1. csr["mstatus"] \in Word
      BY <1>1 DEF CsrWords
    <3>2. ~Mie(TrapStatus(csr["mstatus"], priv))
      BY <1>1, <3>1, TrapMasks
    <3> QED
      BY <2>4, <3>2 DEF Interruptible
  <2>6. pc' = At(16) /\ pc' \in InHandler /\ trapped' = FALSE
    BY <2>1, <2>2 DEF EnterHandler, Handler, InHandler
  <2> QED
    BY <1>1, <1>7, <2>1, <2>2, <2>4, <2>5, <2>6 DEF GuestStands, Vectored
<1>8. CASE RunInstruction
  <2>1. Stays /\ InLoop
    BY <1>2, <1>8, MainStays, HandlerStays, FetchedFrom
  <2>2. ~trapped
    BY <1>1, <2>1 DEF IInv, TrapConfined, InLoop
  <2> QED
    BY <1>1, <2>1, <2>2 DEF Stays, Leaves
<1> QED
  BY <1>3, <1>4, <1>5, <1>6, <1>7, <1>8 DEF RunStep

LEMMA GuestInitially == ASSUME GuestMachine PROVE SysInit => GuestInv
<1> SUFFICES ASSUME SysInit PROVE GuestInv
  OBVIOUS
<1>1. SysIInv /\ ram \in Images /\ trapped = FALSE /\ gpr[0] = 0
  BY SysInitIInv, SmallWords DEF SysInit, Init
<1>2. pc = At(0) /\ Sound(At(0), gpr)
  BY SoundAt, Targets DEF SysInit, Init
<1>3. ~Interruptible
  BY DEF SysInit, Init, Interruptible, Mie, Flag, CsrWords
<1> QED
  BY <1>1, <1>2, <1>3 DEF GuestInv, GuestStands, Vectored, Main

LEMMA GuestStep == ASSUME GuestMachine PROVE GuestInv /\ [SysNext]_sysVars => GuestInv'
<1> SUFFICES ASSUME GuestInv, [SysNext]_sysVars PROVE GuestInv'
  OBVIOUS
<1>1. SysIInv'
  BY SysNextIInv DEF GuestInv
<1> QED
  BY <1>1, CallsKeepGuest, RunStepKeepsGuest DEF SysNext, GuestInv

(* What a guest sees of the machine: on any machine the guest can run on,  *)
(* of any width, with any Lua device, host, batch size and address map, no *)
(* timer interrupt, error, reset, reboot or power cycle comes between the  *)
(* two registers of its main loop (CPU.cpp:35-51, 319-328 and 404-428).    *)
THEOREM GuestIsUndisturbed == ASSUME GuestMachine PROVE SysSpec => []GuestUndisturbed
<1>1. GuestInv => GuestUndisturbed
  <2> SUFFICES ASSUME GuestInv PROVE GuestUndisturbed
    OBVIOUS
  <2>1. ResetVector \in Int
    BY DEF ResetVector
  <2>2. MainPc \in Main /\ Sound(MainPc, gpr)
    <3>1. CASE pc \in Main /\ Sound(pc, gpr)
      <4>1. pc < Handler
        BY <2>1, <3>1 DEF Main, Handler, At
      <4>2. pc \notin Handler .. At(22) - 1
        BY <2>1, <4>1 DEF Handler, At
      <4> QED
        BY <3>1, <4>2 DEF MainPc
    <3>2. CASE pc \in InHandler /\ csr["mepc"] \in Main /\ Sound(csr["mepc"], gpr)
      <4>1. pc \in Handler .. At(22) - 1
        BY <2>1, <3>2 DEF InHandler, Handler, At
      <4> QED
        BY <3>2, <4>1 DEF MainPc
    <3> QED
      BY <3>1, <3>2 DEF GuestInv, GuestStands
  <2>3. gpr[2] \in Word /\ Alu("xor", gpr[2], 1) # gpr[2]
    BY DEF GuestInv, SysIInv, IInv, TypeOK, GuestMachine, Regs
  <2> QED
    BY <2>2, <2>3 DEF Sound, GuestUndisturbed
<1> QED
  BY <1>1, GuestInitially, GuestStep, PTL DEF SysSpec
================================================================================
