# A verification development for LCPU

LCPU puts a RISC-V machine (rv32ima) into Garry's Mod: a C++ emulator, a binding
that lets game Lua drive it and attach devices to it, and the Lua entity that
ticks it, with a generator of build files for the guest programs.  This directory
models these in TLA+, checks them with TLC and proves the core of them with TLAPS.
Paths below are relative to the repository; `riscv/`, `lcpu/`, `lucore/` and
`projgen/` are under `native/projects/`.

## 1. The system

| Component | State | Operations | Talks to |
|---|---|---|---|
| Hart, `riscv/src/CPU.cpp` | registers, pc, CSRs, `extraflags` (privilege, WFI bit, reservation), cycle counter, `trapped`/`trapCode` | `Clock`/`Step`, `Trap`, `TimerInterrupt`, `Reset`, `SetInstructionCount` | bus accesses from inside `Step`; the bus calls `Trap` back |
| Bus, `riscv/src/Bus.cpp` | list of devices, two address maps | `AttachDevice`, `Clock`, `Reset`, six `Peek`/`Poke` | calls devices in order of attachment, then the hart |
| Timer, `ClntDevice.cpp` | 64-bit count and match in halves | `Clock`, `Reset`, `Peek`, `Poke` | `TimerInterrupt` of the hart |
| SYSCON, `SysconDevice.cpp` and `System.cpp` | none / owns everything | power-off, reboot, `Create`, `Step` | `OnPowerOff` of the host; `Reset` of the hart from inside a store |
| RAM, `RamDevice.cpp` | bytes | six accesses | |
| Host interface, `lcpu/src/LuaCpu.cpp` | `poweredOn` | `Cycle`, `PowerOn`, `PowerOff`, `Reset`, `AttachDevice`, `InstructionsPerTick` | called by Lua, between ticks or from a device callback |
| Lua devices, `lcpu/src/LuaDevice.cpp` | a table reference, base, size | `Clock`, `Reset`, `Peek`, `Poke` | run arbitrary Lua, which may raise an error or call the host interface |
| Lua objects, `lcpu/src/LuaObject.hpp`, `LcpuGlobals.cpp` | class maps, user table, lifetime | create, collect, look up, assign | the Lua collector |
| Entity, `lua/entities/gmod_lcpu_cpu.lua` | cpu and devices in its fields | `Initialize`, `Think`, `Reset` | the host interface |
| UART, `lua/lcpu/devices/uart.lua` | line buffer | `Peek`, `Poke`, `Reset` | the server console |
| Wire interface, `wire_interface.lua` | inputs, outputs | `Peek`, `Poke`, `Reset` | Wiremod, whose wires change at any time |
| Guest test program, `test-gmod/main.c` | loop counter, text being sent | one device access after another | UART and Wire interface |
| projgen, `projgen/src` | none; the files it reads and writes | `project.json` to `Makefile` | GNU make, which runs the rules |
| lucore | sinks, library handles | logging, library loading | |

Game Lua is single threaded, so there are no threads to interleave.  What is
concurrent all the same: `Step` runs a *batch* of instructions, and at every bus
access inside it other code runs (a Lua callback, a SYSCON reboot) that changes
the same hart; between batches come the timer, the next tick, the host.  What is
hard here, in order of weight:

 1. **Traps and interrupts.**  A trap is noted in a flag by the bus, by `Step` or
    by an instruction, and handled once at the end of the batch.  An interrupt
    must be taken exactly between two instructions and return there.
 2. **Calls that come back.**  Reset, reboot, power-off and Lua errors arrive in
    the middle of an instruction.
 3. **Partial reset.**  `CPU::Reset` sets the pc and the privilege and nothing
    else; a restarted guest begins with the old CSRs and perhaps an interrupt.
 4. **Progress.**  Interrupts served, timer not lost, main program not starved,
    whatever batch size the host picks; WFI woken.
 5. **Two-word counters** that wrap and carry.
 6. **The address map**: overlaps, ends at 2^32, sub-word accesses to MMIO.
 7. **Lifetimes** of devices that the bus points to and the Lua collector owns.
 8. **Restarts in the middle of a protocol**: a guest talks to its devices one word
    at a time, and they must start over when it does.
 9. **Incremental builds**: rules with prerequisites left out, run in parallel,
    interrupted, and regenerated in between.

`PROJECT.json` lists the hazards one by one, each at its line, with the
properties that cover it or the reason why none does.

## 2. The modules

    Words           words and counters: widths are constants
      Cpu           the hart, for every program and every device
        CpuProofs     its inductive invariant and the theorems from it; Cpu implements PreciseHart
      Clnt          the timer
      System        Cpu + Clnt + RAM + SYSCON + one Lua device + the host
        GuestLoop     a program that observes the machine from inside
        SystemProofs  the theorems about the machine and about that program
      Bus           the address map as devices are attached
        BusProofs     its theorems
    PreciseHart     abstract: what a guest may rely on
    Rv32            what instructions compute, at any width
    Ram             RAM: one array of bytes under three views
      DataPath      Rv32 + Ram: register operations, loads and stores of all widths, the bus accessors
        DataProofs    what they compute is what RV32IMA says
        RamProofs     DataPath implements FlatMemory
    FlatMemory      abstract: byte-addressed memory
    LuaObject       lifetimes of the objects that Lua owns
      Entity        the entity, other scripts, the collector
        EntityProofs  its theorems
    Uart, WireInterface   the two devices of the addon
      Console       both, under the test program and the host
        ConsoleProofs its theorems
    Build           projgen and make
      BuildProofs   its theorems
    MCCpu, MCSystem, MCGuest, MCTimer, MCBus, MCEntity, MCDataPath, MCConsole, MCBuild   instances for TLC

**Cpu** splits `Step`, one C++ call, where other code can run: `phase` is
`"idle"` outside the call, `"loop"` between two iterations of its loop, `"exit"`
once out of it; `instCount`, `iInst`, `cycle` and `rval` are its parameter and
locals.  `StepWaiting` and `StepBegin` are its head (CPU.cpp:40-51),
`FetchMisaligned`, `FetchFault`, `FetchError` and one action per class of
instruction are one iteration (51-401), `LoopDone` and `StepEnd` its end
(404-433).  An action is the whole iteration: fetch, execute, the break on a
trap, the write-back, the pc.  What the bus answers is a parameter, a `Reply`:
a value; *fault* (no device, so the bus called `Trap`); *reset* (a value, from a
device that also reset the hart); *error* (a Lua error, which abandons the C++
frame).  An instruction word is decoded by the constant `Decode`, whose range
`Instr` has a record for each instruction; the bit fields are not modelled.  The
three uses of `extraflags` are three variables.

**Clnt** has one operator per virtual function.  **System** closes the hart:
`BusPeek` and `BusPoke` compute the `Reply` from the address map, and
`PeekEffect`/`PokeEffect` what the access does to the device.  `turn` says who is
running inside `LuaCpu::Cycle` (`Cycle` clocks the timer, `LuaClock` the Lua
device, `RunStep` the hart) or that nobody is, in which case the host may call.
`LuaCalls` names what Lua callbacks do besides answering (raise an error, power
off or on, reset, set the batch size), `HostCalls` what the host calls between two
ticks.  A reset from a callback is part of the access, or of the device's `Clock`,
that made the call; the other calls change only what the rest of the access does
not look at, so `LuaCall` is a step of its own just before it.  **GuestLoop** is
no part of the repository: it is the program the machine is observed with, given
as the instructions that an image decodes to (`Setup`, a loop, `TrapHandler`).
`GuestMachine` is what a machine must be like to run it: five registers, the
devices where the program looks for them, every image one of these programs.

**Bus** has the containers of the class: the list that `Clock` and `Reset` walk,
the two tables by base address, and one action for each way `AttachDevice` can
end.  A lookup returns the *set* of devices the code may find, since the tables
are hash tables; memory comes before MMIO.

**Ram** has the array and what the six accesses do with it: `Element(T, i)` is
element i of the array seen as elements of T bytes, `AddressToIndex` the index the
code computes.  **DataPath** puts instructions around it: `Compute` (op and
op-imm), `LoadRam`, `StoreRam`, and what the bus does when the address belongs to
an MMIO device (`WordMmio` asks for the kind, `SubWordMmio` fails the assertion
of `Upcast`) or to nothing (`Fault`).  The control around an instruction is
`Cpu`'s; here the results are the subject.  **FlatMemory** is the memory a guest
relies on: bytes with addresses, and accesses to naturally aligned blocks; it has
no array, index or base.  That a misaligned access goes to the block that holds
its address, and does not trap, is what the code does (RamDevice.hpp:35).

**LuaObject** has the objects that are alive, their backing tables, what each
bus points to, and what scripts hold.  `Create`, `Fetch` (`__index`), `Assign`
(`__newindex`), `AttachDevice` and `Collect` (`__gc` and the destructor) are what
can happen; an object is collected only if neither a script nor a backing table
refers to it, but the pointer in a bus does not count.  **Entity** is what the
addon does with this: `Initialize` creates three objects and keeps them in fields,
the game removes the entity, and other scripts create devices (`NewDevice`), attach
them (`AttachLoose`), store them in a cpu's user properties (`StoreDevice`), look
them up (`Borrow`) and let go of them (`GiveBack`), in any order.

**Uart** and **WireInterface** have one operator per callback.  **Console** runs
`main.c` on them, one access of a device per action: `Printf` fills `queue` with
the characters a line sends, `Putc` sends one; `at` and `i` are where `main` is.
`BusReset` is what `Bus::Reset` does to the two devices and the program.  `read`
and `printed` are histories of the present run of the program.  `itoa` returns
text with its NUL, which `strlen` counts and `putc` sends (main.c:26-33, 94-96);
the UART drops it.

**Build** has the files of a project: `version` counts edits, `project` is
`project.json`, `makefile` what the last `Projgen` wrote, and for each
configuration what its objects, its `elf` and its `bin` were made from.  `old` is
the set of objects and images that are older than what they are made from, `newer`
the set of objects newer than the executable: that is all of the file times make
looks at, and of `newer` only the objects that *the rules it has read* list.  One
action per rule of `Makefile.hpp` (`MakeDir`, `Compile`, `Link`, `Objcopy`,
`Clean`), in any order that the prerequisites allow, which is what `-j` allows.
GNU make itself is external: a target is remade if it is missing or out of date,
is considered once in a run, after its prerequisites, and deleted if the run is
interrupted while making it.

**PreciseHart** knows no batch and no `Step`.  An instruction completes as a
whole, as one of five kinds that each say what is written and where the pc goes
(`Compute`, `AccessCsr`, `Jump`, `Mret`, and `AccessResets` for a device that resets
the hart under the access); or it changes nothing but that the hart is `trapping`
(`Trap`), and then nothing happens before `TakeTrap`, with mepc the pc of the
instruction that did not happen and the privilege and MIE stacked.  So an
instruction that writes its register and then traps, or moves the pc and then
traps, is none of its steps.  mcause and mtval become any words: what they tell the
handler is `TrapCodeRecorded`'s subject.  `Cpu` refines it: the mapping keeps the
architectural state, takes `trapped` for `trapping`, and joins the two halves of
the cycle counter.

## 3. Runs

| Run | Question | Result |
|---|---|---|
| `cpu` | the hart alone, any next instruction, any device answer: traps confined and precise, cycles counted, `Step` returns | holds, 132,280 states |
| `system` | can a guest's main loop tell that it is interrupted, power cycled, reset or rebooted, or that Lua callbacks fail, reset or power off and on from inside it? | no, 6.2 million states |
| `timer` | with a match of two halves that the guest writes in three stores, at any place of a batch: does an interrupt come before the match, or before the deadline the guest asked for? | no, 755,155 states |
| `system_live` | do ticks serve interrupts, keep the timer alive and advance the main program? | yes, 26,060 states |
| `bus` | any devices attached in any order: list and tables agree, each listed once, overlap only by enclosing, memory never taken from the guest? | yes, 10,974 states |
| `entity` | with other scripts and the collector at work at any time: is every device on a bus in use alive, is nothing leaked? | yes, 118,876 states |
| `data` | does every operation give the RV32IMA result for every pair of operands, and are the three views of RAM one memory? | yes, 118,784 states |
| `console` | does the console show exactly the lines of the present run of the program, and do the outputs get its values, with resets, power cycles and changing wires at any point? | yes, 4,512 states |
| `build` | is what make calls up to date current, is it what a build from scratch gives, does make settle? | yes, 257,786 states |
| `trap_code` | does a trap's code reach `trapCode` (CPU.hpp:62)? | **violated**: CPU.cpp:16 assigns the parameter to itself |
| `wfi_wakes` | does a hart in WFI run again when its interrupt is in flight (CPU.cpp:22, 40)? | **violated**: `Step` returns before it looks |
| `reboot` | does a SYSCON reboot restart the guest at the vector (binary.ld, start.S)? | **violated**: at the second instruction |

The two bugs around traps cancel: with `trapCode` always 0 the `pc += 4` of
CPU.cpp:410 is dead, and that is why interrupts return to the right place.
Repairing line 16 alone would make every interrupt skip an instruction;
the mutant `TrapPcNext` of `GuestUndisturbed` is that skip.  The other cost
is visible to the guest: `mcause` is 0 for every trap.

The findings without a run were met while modelling: a timer match that the count
steps over, a byte access that upcasts an MMIO device, a device that encloses
another, a device that is dropped while attached, the bound of the wire outputs,
`UART_STATUS`, projgen's exit status and its file names, among others.
`PROJECT.json` has them with the lines that disagree.

**`GuestUndisturbed`** is the end-to-end safety property.  The guest flips x1,
asks the Lua device, flips x2 and loops; the two differ exactly between the
flips.  A skipped or repeated instruction, a wrong mepc, a register lost in the
handler, an instruction half done when Lua failed, an interrupt taken in the
first instruction after a reset: each would break it.

**`TimerNeverEarly` and `NotBeforeDeadline`** differ in what they compare the count
with: the match registers, or the deadline the guest holds in x6 and x5.  The second
is the one that a half-written match or a pending bit that outlives its match would
break, and holds because the guest writes the halves in the order a match of two
registers needs and acknowledges last.  `NotBeforeDeadline` looks at interrupts as
the hart takes them, so the look at the head of a batch (CPU.cpp:48) is part of it.

**`DivisionContract`, `WideProducts`, `ShiftsAndOrder`** do not compute results a
second time: they state relations that determine them (quotient and remainder are
one division, the halves of a product are that product, shifts and comparisons
agree on both orders).  **`Transcript`** compares the console with what the program
has read and how far it is: no line missing or doubled, none with text of an
earlier life, and the one character that a full buffer loses where it is lost.
**`IncrementalIsClean`** says when make can be trusted.  `untracked` marks the
configurations with files from before a change that no rule sees (script, flags,
list of objects); for these make may call a stale image up to date, and
`make clean` is the remedy.  `SourcesCurrent` holds for all of them.

**Bounds.**  Words are 8 bits, so that the reset vector and the interrupt bit are
128 and a whole program fits above them.  `cpu` has two registers (x0 and one
more) and 22 instructions, one for each class and path of the code, in any order
at one address between two fixed neighbours; batches of two, so that a batch ends
by its count, by a trap at its head and by a trap after an instruction; a cycle
counter of 3 by 2 values, so that every carry and the wrap of both halves occur.
Its atomic read-modify-write has a destination and addresses a device that may
refuse the write, fail in it or reset the hart. `MppUnit` = 16 keeps MPP inside
the byte.  The system runs have five registers (`timer` eight) and programs of
about 20 words.  In `system` the timer is there to interrupt at every place of the
program: four values, step 1, no high half.  In the other runs the low half has 8
to 32 values and the high half 2 or 4, so a match comes due, passes and comes due
again, and both halves wrap.  `timer` has 32 by 4 values and the code's step of
10; the guest's deadlines are 30 apart, which the count can hit, or 27, which it
mostly passes, and run through the 128 values, the even ones or all of them; the
batches are of 12, the whole handler, or 4, which ends between the stores to the
two halves of the match.  `TimerStep` is 1 or 2 where it is to be hit, 10 where it
may be missed. `InstructionCounts` is {3}, shorter than the loop and coprime to
its length, so batches end at every instruction of it; in `system_live` {5, 7},
the host, or a callback of the Lua device, changing it at any time.

`bus` has 256 addresses and nine devices: the machine's own and one for each way two
ranges can meet (overlap at an end, touch, enclose MMIO, enclose RAM, wrap at the
top), of which up to `MaxDevices` = 4 are attached; a fault between two devices
shows with two, one among three with four.  `entity` has two entities, two
addresses for cpus and four for devices, so that both entities live at once, or
one lives with a loose device (`MaxLoose` = 1 bounds how many scripts have at a
time), and every address is used again.

`data` has registers of 4 bits, so that all 256 pairs of operands occur, bytes of
one bit and halfwords of two; two words of RAM, an MMIO word and an address with
nothing.  What depends on a width does so through `XLen` and `ByteMod`.
`console` has three inputs and outputs, wires with two values, and a `LineLimit`
of 3 for 256: a text between two numbers, and a number, is one character, so that
of the program's lines some fit, some lose their last character at the limit and
one goes on in a second line.  `build` has two sources, two linker scripts and a
file projgen refuses, two values of the flags, one configuration (the proofs have
any number, in parallel) and at most `MaxDisturbances` = 3 edits, cleans and
interrupts: enough for an edit during a run, an interrupt after it, and a clean.

**Fairness.**  `Cpu!Spec` has weak fairness on the steps of a `Step` that has
begun: it is a C++ call that runs to its end.  It has none on entering one.
`SysSpec` adds that the entity calls `Cycle` again (`ENT:Think` runs on every tick
of the game, gmod_lcpu_cpu.lua:25-40); it assumes nothing about the host's other
calls.  (In the repository as it stands the batch size and the number of batches
per tick are set only by code that is commented out, cvars.lua:3-27, so `Think`
raises an error before it ticks; the model has them set.)  `EntSpec` assumes that
Lua's collector gets to each unreferenced object.  `ConsoleSpec` assumes that the
machine is cycled while it is on, for the same reason as `SysSpec`; a run that is
never left alone may restart for ever, and `GetsThrough` allows that.  `BuildSpec`
assumes that make is run again until it has nothing to do.  `system_live` needs
batches longer than the handler, five instructions for its three: with one that
never gets past the handler in a batch, and a match that stays due, the main
program does starve, in the code as in the model.

## 4. Proofs

TLAPS checks the following for every value of the constants that meets the named
assumptions: widths (`WidthAssumption`: words a multiple of 256, the counter's
halves no wider), at least one register, batch sizes from 1 to the counter's
width, operators that return words, a decoder that returns instructions, a bus
that answers with replies.  Nothing is assumed of the program or the devices,
save in the theorem about one program, `GuestIsUndisturbed`.

* **Invariant** (`CpuProofs`): `IInv` is inductive.  It is `TypeOK` and
  `TrapConfined` with three strengthenings.  `TrapConfined` says `trapped` only
  in phase `"exit"`; `NoCode` that `trapCode` is 0 everywhere, needed because the
  end of `Step` branches on it; `LoopCounted` and `ExitCounted` say in the loop
  and after it how `cycle`, `cyclel` and `iInst` relate, since `CycleCounted`
  speaks of instructions *started*, which the two phases count differently.
* From it **TypeCorrect**, **TrapsAreConfined**, **CyclesAreCounted**, and
  **CounterIsRight**: a `Step` that runs to its end adds exactly the started
  instructions to the 64-bit counter.  The carry test `cyclel > cycle` is right
  because a batch is shorter than one lap of the low half.
* **TrapsArePrecise** (`CpuProofs`): the initial states map to initial states, and
  each step to one of `PreciseHart` or a stutter.  Every way an instruction can
  end is an outcome (`OutcomeRefines`): it completes, as one of the kinds
  (`AfterIsOfAKind`), traps (`TrappedRefines`), or is abandoned by a Lua error.
  The invariant is needed because `PreciseHart` does nothing else while trapping:
  `trapped` must be down in the loop and between `Step`s.
* **SysInvariant**, **SysTypeCorrect**, **SysHartInvariants**,
  **SysTrapsArePrecise** (`SystemProofs`): the same for the machine.  `HartStep`
  is the link: every step of the machine is a step of the hart or leaves it
  alone, with replies that the hart's assumptions allow.  It needs
  `OneCallAtATime`: the hart is in `Step` only on the CPU's turn, so a reset of
  the host never meets a running batch.  A lemma shows that every access the map
  sends to RAM indexes inside it.
* **BusTypeCorrect**, **DevicesListedOnce**, **OnlyEnclosingShadows**,
  **MemoryIsKept** (`BusProofs`), for any devices and any width.  The three
  invariants are inductive together: a refusal looks at the tables, and
  `ListedOnce` ties the tables to the list whose order `OverlapEncloses` is about.
* **InterruptsNotEarly**: the timer's test, high half greater or both equal,
  implies that the 64-bit count has reached the match, at every width; only `Cycle`
  sets the bit.  (`NotBeforeDeadline` is about one guest, and stays with TLC.)
* **ObjTypeCorrect**, **StoredObjectsLive**, **BusPointersValid**
  (`EntityProofs`), for any number of entities and objects.  `DevicesOutliveUse`
  is not inductive: a bus pointer protects nothing.  The invariant says where the
  protection comes from: a cpu in use is in the fields of exactly one entity
  (`FieldsOK`), each device on its bus is in those fields, in the cpu's own
  table, or held by a script that lets go of it only if the table has it
  (`BusKept`), and tables keep what they refer to (`StoredAlive`), which is never
  a cpu (`DevicesStored`).
* **AccessInBounds**, **MemoryIsFlat** (`RamProofs`), for any memory size that is
  a positive multiple of four: `(address - base) % size / width` stays inside the
  array, and the array under three views implements `FlatMemory`.  The core is
  that an element of width T is the aligned block of T bytes that holds the
  address, which needs base and size to be multiples of four.
* **OutputsAreWritten** (`ConsoleProofs`), for any number of inputs and outputs
  with no more outputs than inputs (`ConsoleAssumption`): the invariant is the
  value of every output at every point of the program.  The assumption is the
  code's bound on the output register (wire_interface.lua:53).
* **ConsoleInvariant**, **ConsoleTypeCorrect**, **TranscriptIsRight**,
  **OutputsAreAnnounced** (`ConsoleProofs`), for any number of inputs and outputs,
  any values on the wires and any limit of a line.  `Transcript` is not
  inductive: it says nothing of the queue and the buffer, which the next lines
  come from.  `SentInv` says that the queue is the rest of the line the program is
  in, and that what is printed and buffered comes to exactly what has been sent
  before that rest; `Faithful` says that each piece printed is the right
  one, and `Shape` which counter and how many inputs read go with each place in
  the program.
* **BuildInvariant**, **ImagesHaveCurrentSources**, **IncrementalBuildsAreClean**
  (`BuildProofs`), for any sources, scripts, flags and number of configurations
  built in parallel.  The invariant has two parts per configuration.  `Fresh`: a
  target not in `old`, and an object not in `newer`, is what its rule would make
  of its prerequisites as they are, and a run has built the objects it has passed.
  `Tracked`: if the configuration is not in `untracked`, what it has was made by
  the rules of the present Makefile.

* **BuildTypeCorrect** (`BuildProofs`): a product is missing or an image, and an
  image has versions, flags and a script that there are.  `TypeInv` adds to the
  invariant above that no version exceeds the number of disturbances so far.  Its
  assumption, that `None` is no image, says that a missing file differs from every
  file.
* **DataInvariant**, **DataTypeCorrect**, **DivisionIsRight**,
  **ProductsAreWide**, **ShiftsAndOrderAreRight**, **LoadsAreRight**
  (`DataProofs`), for every width that is a multiple of four bits, every pair of
  operands and every memory.  What is assumed of the bitwise operators is
  `BitAssumption`: `and` plus `or` is the sum, and `xor` is what `or` has more
  than `and`; TLC evaluates it on the operators of the community module.  The
  inductive invariant is small (types, and that a loaded register holds what the
  bytes stand for), since the contracts are about operands and not about history;
  the work is in the arithmetic.  Powers of two come first.  `Pow2` is a recursive
  function, and the induction theorems of the library are out of reach, so
  `SetInduction` gets induction over sets of numbers from the least element of a
  non-empty set (`WFMin`).  Then reading a word as signed and back
  (`UnsignedSigned`, `SignedUnsigned`, `Congruent`), division with a remainder of
  the dividend's sign (`QuotientIs`, `QuotientFits`: only -2^31 / -1 does not
  fit), the two halves of a product (`LowHalf`, `HighHalf`), and the bytes of a
  word by their places (`BytePlaces`, `LoadIs`).
* **GuestIsUndisturbed** (`SystemProofs`): `GuestUndisturbed` for every machine of
  `GuestMachine`, that is for any width, counters, batch sizes, Lua device and
  address map, and any number of images, each with one of the loops.  The
  invariant `GuestInv` has three parts besides `SysIInv`.  `GuestStands`: the pc is in
  the main program with registers as they must be there, or it is in the handler, no
  interrupt can be taken, and mepc is so placed instead.
  `Vectored`: wherever an interrupt can be taken, mtvec is the handler.  And
  a trap is under way only if an interrupt could be taken, so no other trap ever
  happens: no fetch or access of this program faults.  The first part survives a
  reset anywhere because setup relies on no register; the second because setup enables
  interrupts last, and a reset leaves mtvec alone.

Only model-checked: `Collected`, that what nobody refers to is collected at the
end, and everything else with liveness (`StepReturns`, `InterruptServed`,
`TimerKeepsTicking`, `MainProgress`, `GetsThrough`, `BuildSettles`), which is beyond
TLAPS here, as is ENABLED.  Every invariant that a passing run checks is a
theorem.  `Alu` and `Extend` are constants of `Cpu`, of which the
theorems about the hart use only `AluAssumption` and `ExtendAssumption`; that the
runs' instances of them are the operations of `Rv32` is a matter of the MC modules.

## 5. Limits of the model

* Every word is `WordMod` wide; the counters may be narrower in a run
  (`CounterMod`, `HighMod`), the code has 32 bits for all.
* A device that resets the hart does so from a data access; not from the fetch
  and not from the read half of an AMO.  The code would let both happen.
* An AMO whose write faults after its read succeeded cannot occur on the real
  bus (both look up the same address); the hart's model has it because the code
  handles it.
* A Lua callback may call `PowerOff`, `PowerOn`, `Reset` and set
  `InstructionsPerTick`, and raise an error.  It does not call `Cycle` re-entrantly
  or `AttachDevice`, and does not catch the error of a failed `Reset`.  What the
  Lua device's own `Reset` does besides raising an error is left out.
* In `Cpu` and `System` sub-word accesses enter through `Extend` and RAM holds
  words; `DataPath` has the bytes.
* An access past the last register of the timer goes where the word-granular map
  sends it.
* `OnReboot` is never set by the code; logging has no effect on state; the test
  image the `LuaCpu` constructor reads from a developer's home is left out.
* RAM has a positive number of whole words.  `CreateCPU` checks only the upper
  limit of the size.  The MMIO ranges of `System` do not overlap (`Bus` covers
  what happens if they do).
* `Bus`: a Lua device's `Clock` that calls `AttachDevice` would grow the vector
  `Bus::Clock` is walking; not modelled.
* `Entity`: no other script keeps an entity's cpu after the entity is gone, and
  a script keeps a reference to a device it has attached.  Without the first, the cpu
  outlives the devices it points to; without the second, the next tick calls into a
  deleted object.  A device whose callbacks
  capture the device itself is never collected; the committed ones do not.
  A collection is one step: finalisation and the destructor run together.
* A reservation of LR is the address modulo an eighth of the address space, as
  the shift by 3 leaves it; it starts out as slot 0 and nothing clears it, so an
  SC to the reset vector succeeds without LR.  The model does the same.

* `Console`: a number is one character, whatever its digits; the program's reads
  of the header are one step with the line they begin, as the header never
  changes.  `puts` is not called by `main`.
* `Build`: stems of sources are distinct and sources are in the project's own
  directory (Project.hpp:54 drops the rest of a path); no file is edited in the
  moment a compiler reads it, between its read of the source and its write of the
  object; the write of the Makefile is complete; header files
  are not followed, in the model as in the rules.

## 6. Not modelled, and why

* **Logger and sinks** (lucore, `SourceSink.cpp`): formatting and output through
  a fixed list of sinks; nothing reads back what they keep.
* **Library loading** (`Library.cpp`, `OsLibrary.*`): no part of the repository
  calls it.  Read, not modelled; one finding.
* **Addon glue** (autorun, models, the spawn tool, `upload_lib.lua`): registration
  tables and a stub.
* **Build files** of the repository itself: configuration.
* **Lua numbers**: the cast of a Lua number to a word (LuaDevice.cpp:54) is
  undefined for some values; `System` lets a device answer any word.
* **Re-entrant calls**: `Cycle`, or `AttachDevice`, from inside a device callback.
  The committed Lua does neither.

Worth adding next: `start.S`; a guest that computes its deadline from the two
halves of the count, read in a loop; a proof that `System`'s address map is one
that `Bus` reaches; one that `Ram`'s words are the words of `System`.
