--------------------------------- MODULE System --------------------------------
(***************************************************************************)
(* The machine a gmod_lcpu_cpu entity owns: riscv::System with its bus,    *)
(* hart, timer, SYSCON and RAM, one Lua device beside them, and the host   *)
(* interface of LuaCpu.  It closes the hart of Cpu.tla: every bus access   *)
(* is answered by the device that the address map selects.                 *)
(*                                                                         *)
(* Game Lua is single threaded: the host calls Cycle, which runs to its    *)
(* end.  turn says who runs.  A call of the host between two Cycles is an  *)
(* action of its own.  Of the calls that a Lua device makes from inside a  *)
(* callback, a reset is part of the access or the clock that invoked it;   *)
(* the others are steps just before it.                                    *)
(***************************************************************************)
EXTENDS Cpu, Clnt

CONSTANTS
  ClntBase, ClntSize,
  SysconBase, PowerOffCode, RebootCode,  \* 0x11100000, 0x5555, 0x7777
  LuaBase, LuaSize, LuaValues,           \* the Lua device and what it may answer
  RamBytes,                              \* the size given to CreateCPU
  Images,                                \* contents of RAM after loading
  HostCalls,                             \* which of the host's calls a run makes
  LuaCalls                               \* what Lua callbacks may do besides answering

RamIndices == 0 .. (RamBytes \div 4) - 1

ASSUME SystemAssumption ==
  /\ {ClntBase, SysconBase, LuaBase, PowerOffCode, RebootCode} \subseteq Word
  /\ RamBytes \in 4 .. ResetVector - 1 /\ RamBytes % 4 = 0
  /\ Images \subseteq [RamIndices -> Word] /\ LuaValues \subseteq Word
  /\ HostCalls \subseteq {"PowerOff", "PowerOn", "Reset", "SetInstructionCount"}
  /\ LuaCalls \subseteq {"error", "PowerOff", "PowerOn", "Reset", "SetInstructionCount"}
  /\ \A a \in Word :   \* no overlap among the MMIO devices (Bus.tla has the others)
       /\ ~(Within(a, ClntBase, ClntSize) /\ Within(a, SysconBase, 4))
       /\ Within(a, LuaBase, LuaSize)
            => ~Within(a, ClntBase, ClntSize) /\ ~Within(a, SysconBase, 4)

VARIABLES
  ram,        \* RamDevice::memory, as words
  poweredOn,  \* LuaCpu::poweredOn
  turn        \* "host"; in Cycle: "lua" (the Lua device's Clock) then "cpu"

sysVars == <<cpuVars, clntVars, ram, poweredOn, turn>>

SysTypeOK ==
  /\ TypeOK /\ ClntTypeOK
  /\ ram \in [RamIndices -> Word] /\ poweredOn \in BOOLEAN
  /\ turn \in {"host", "lua", "cpu"}

SysInit ==
  /\ Init /\ ClntInit
  /\ ram \in Images /\ poweredOn = TRUE /\ turn = "host"

--------------------------------------------------------------------------------
(* The address map (Bus::FindDeviceForAddress): RAM is looked up before    *)
(* the MMIO devices.                                                       *)

Device(a) ==
  IF Within(a, ResetVector, RamBytes) THEN "ram"
  ELSE IF Within(a, ClntBase, ClntSize) THEN "clnt"
  ELSE IF Within(a, SysconBase, 4) THEN "syscon"
  ELSE IF Within(a, LuaBase, LuaSize) THEN "lua"
  ELSE "none"

RamIndex(a) == ((a - ResetVector) % RamBytes) \div 4

Answer(kind, v) == [kind |-> kind, value |-> v]

(* A Lua callback answers, or raises an error, or resets the machine       *)
(* before it answers.                                                      *)
LuaReplies ==
  {Answer("ok", v) : v \in LuaValues}
    \cup (IF LuaCalls \cap {"Reset", "PowerOn"} # {} THEN {Answer("reset", v) : v \in LuaValues} ELSE {})
    \cup (IF "error" \in LuaCalls THEN {Answer("error", 0)} ELSE {})

BusPeek(a) ==
  CASE Device(a) = "ram"    -> {Answer("ok", ram[RamIndex(a)])}
    [] Device(a) = "clnt"   -> {Answer("ok", ClntPeek(a))}
    [] Device(a) = "syscon" -> {Answer("ok", WordMod - 1)}
    [] Device(a) = "lua"    -> LuaReplies
    [] Device(a) = "none"   -> {Answer("fault", 0)}

Reboots(a, v) == Device(a) = "syscon" /\ a = SysconBase /\ v = RebootCode

BusPoke(a, v) ==
  CASE Device(a) = "none" -> {Answer("fault", 0)}
    [] Device(a) = "lua"  -> LuaReplies
    [] OTHER              -> {Answer(IF Reboots(a, v) THEN "reset" ELSE "ok", 0)}

(* LuaCpu:Reset from a callback, or LuaCpu:PowerOn of a machine that is    *)
(* off, resets the whole bus; this is its part outside the hart.           *)
LuaResets ==
  \/ "Reset" \in LuaCalls /\ ClntReset /\ UNCHANGED poweredOn
  \/ "PowerOn" \in LuaCalls /\ ~poweredOn /\ poweredOn' = TRUE /\ ClntReset

(* What the access does to the devices.  A fault leaves them alone; SYSCON *)
(* resets only the hart; an error may come out of a reset of the bus that  *)
(* got as far as the timer.                                                *)
LuaEffect(r) ==
  /\ \/ r.kind # "reset" /\ UNCHANGED <<clntVars, poweredOn>>
     \/ r.kind # "ok" /\ LuaResets
  /\ UNCHANGED ram

PeekEffect(a, r) ==
  IF Device(a) = "lua" THEN LuaEffect(r) ELSE UNCHANGED <<clntVars, ram, poweredOn>>

PokeEffect(a, v, r) ==
  CASE Device(a) = "ram"    -> /\ ram' = [ram EXCEPT ![RamIndex(a)] = v]
                               /\ UNCHANGED <<clntVars, poweredOn>>
    [] Device(a) = "clnt"   -> ClntPoke(a, v) /\ UNCHANGED <<ram, poweredOn>>
    [] Device(a) = "syscon" -> /\ poweredOn' = (poweredOn /\ ~(a = SysconBase /\ v = PowerOffCode))
                               /\ UNCHANGED <<clntVars, ram>>
    [] Device(a) = "lua"    -> LuaEffect(r)
    [] Device(a) = "none"   -> UNCHANGED <<clntVars, ram, poweredOn>>

--------------------------------------------------------------------------------
(* One tick of the machine: LuaCpu::Cycle, Bus::Clock. *)

(* The devices are clocked in the order they were attached, the timer      *)
(* first; TimerInterrupt only marks the interrupt pending.                 *)
Cycle ==
  /\ turn = "host" /\ poweredOn
  /\ turn' = "lua"
  /\ ClntClock
  /\ IF Fires(NextHigh, NextLow) THEN TimerInterrupt ELSE UNCHANGED cpuVars
  /\ UNCHANGED <<ram, poweredOn>>

(* The Lua device's Clock.  If it raises an error Bus::Clock is unwound    *)
(* and the hart is not clocked in this tick.                               *)
LuaClock ==
  /\ turn = "lua"
  /\ \/ turn' = "cpu" /\ UNCHANGED <<cpuVars, clntVars, poweredOn>>
     \/ turn' = "cpu" /\ Reset /\ LuaResets
     \/ /\ "error" \in LuaCalls /\ turn' = "host" /\ UNCHANGED cpuVars
        /\ UNCHANGED <<clntVars, poweredOn>> \/ LuaResets
  /\ UNCHANGED ram

(* The hart is clocked last, and Cycle returns when Step does. *)
BusLoad(i) ==
  \E r \in BusPeek(DataAddress(i)) : Load(i, r) /\ PeekEffect(DataAddress(i), r)

BusStore(i) ==
  \E r \in BusPoke(DataAddress(i), gpr[i.rs2]) :
    Store(i, r) /\ PokeEffect(DataAddress(i), gpr[i.rs2], r)

BusAmo(i) ==
  \E r \in BusPeek(DataAddress(i)) :
    \/ AmoRead(i, r) /\ PeekEffect(DataAddress(i), r)
    \/ \E w \in BusPoke(DataAddress(i), AmoStored(i, r)) :
         AmoWrite(i, r, w) /\ PokeEffect(DataAddress(i), AmoStored(i, r), w)

Execute(i) ==
  \/ Internal(i) /\ UNCHANGED <<clntVars, ram, poweredOn>>
  \/ i.op = "load" /\ BusLoad(i)
  \/ i.op = "store" /\ BusStore(i)
  \/ i.op = "amo" /\ BusAmo(i)

RunInstruction ==
  \E r \in BusPeek(pc) :
    \/ (FetchFault(r) \/ FetchError(r)) /\ PeekEffect(pc, r)
    \/ Fetched(r) /\ Execute(Decode(r.value))

RunStep ==
  /\ turn = "cpu"
  /\ \/ /\ StepWaiting \/ StepBegin \/ FetchMisaligned \/ LoopDone \/ StepEnd
        /\ UNCHANGED <<clntVars, ram, poweredOn>>
     \/ RunInstruction
  /\ turn' = IF phase' = "idle" THEN "host" ELSE "cpu"

(* The instruction the hart executes next. *)
Current == Decode(ram[RamIndex(pc)])

(* The hart is about to fetch from the Lua device or to access it.         *)
AtLuaDevice ==
  /\ turn = "cpu" /\ InLoop /\ pc % 4 = 0
  /\ \/ Device(pc) = "lua"
     \/ /\ Device(pc) = "ram" /\ Current.op \in {"load", "store", "amo"}
        /\ Device(DataAddress(Current)) = "lua"

(* What a callback of the Lua device may call before it answers and before *)
(* any reset: the batch that is running goes on all the same.              *)
LuaCall ==
  /\ turn = "lua" \/ AtLuaDevice
  /\ \/ /\ "PowerOff" \in LuaCalls /\ poweredOn
        /\ poweredOn' = FALSE /\ UNCHANGED cpuVars
     \/ /\ "SetInstructionCount" \in LuaCalls
        /\ \E n \in InstructionCounts : SetInstructionCount(n)
        /\ UNCHANGED poweredOn
  /\ UNCHANGED <<clntVars, ram, turn>>

--------------------------------------------------------------------------------
(* What the host may call between two Cycles. *)

(* Bus::Reset: the devices in the order they were attached, then the hart. *)
(* An error in the Lua device's Reset keeps the reset from the hart.       *)
BusReset ==
  /\ ClntReset
  /\ Reset \/ ("error" \in LuaCalls /\ UNCHANGED cpuVars)

PowerOff ==
  /\ turn = "host" /\ "PowerOff" \in HostCalls /\ poweredOn
  /\ poweredOn' = FALSE /\ UNCHANGED <<cpuVars, clntVars, ram, turn>>

PowerOn ==
  /\ turn = "host" /\ "PowerOn" \in HostCalls /\ ~poweredOn
  /\ poweredOn' = TRUE /\ BusReset /\ UNCHANGED <<ram, turn>>

HostReset ==
  /\ turn = "host" /\ "Reset" \in HostCalls
  /\ BusReset /\ UNCHANGED <<ram, poweredOn, turn>>

SetInstructionsPerTick ==
  /\ turn = "host" /\ "SetInstructionCount" \in HostCalls
  /\ \E n \in InstructionCounts : SetInstructionCount(n)
  /\ UNCHANGED <<clntVars, ram, poweredOn, turn>>

SysNext ==
  \/ Cycle \/ LuaClock \/ LuaCall \/ RunStep
  \/ PowerOff \/ PowerOn \/ HostReset \/ SetInstructionsPerTick

(* Cycle runs to its end once called, and the entity is meant to call it   *)
(* on every tick of the game.                                              *)
SysSpec ==
  /\ SysInit /\ [][SysNext]_sysVars
  /\ WF_sysVars(Cycle) /\ WF_sysVars(LuaClock) /\ WF_sysVars(RunStep)

--------------------------------------------------------------------------------
(* Properties. *)

(* An interrupt that is pending and enabled is taken, however the batches  *)
(* of instructions fall and whatever the host sets their size to: it is    *)
(* not lost between the timer's Clock, the pending bit and Step.           *)
InterruptServed == InterruptsInFlight ~> trapped

(* The comments of CPU.cpp ("Don't run if waiting for an interrupt",       *)
(* "Always clear WFI bit"): a hart that waits for an interrupt runs again  *)
(* when one is in flight.                                                  *)
WfiWakes == (wfi /\ InterruptsInFlight) ~> ~wfi

(* test-gmod/binary.ld places _start at 0x80000000, "jump to C code" after *)
(* the stack pointer is set: a guest restarts there when SYSCON reboots    *)
(* the machine.                                                            *)
RebootAtVector ==
  [][ /\ turn = "cpu" /\ iInst' = iInst + 1 /\ Current.op = "store"
      /\ Reboots(DataAddress(Current), gpr[Current.rs2])
      => pc' = ResetVector ]_sysVars

(* ClntDevice.hpp: "Partial implementation of a CLINT.  The timer device   *)
(* is implemented": its Clock raises no interrupt before the 64-bit count  *)
(* has reached the 64-bit match, and none for a match that is not set.     *)
TimerNeverEarly ==
  [][turn = "host" /\ turn' = "lua" /\ ~Flag(csr["mip"], 128) /\ Flag(csr'["mip"], 128)
       => Due(timerCountHigh', timerCountLow')]_sysVars
================================================================================
