-------------------------------- MODULE LuaObject ------------------------------
(***************************************************************************)
(* Lifetimes of the C++ objects that game Lua owns: lcpu::lua::LuaObject   *)
(* and its two classes LuaCpu and LuaDevice.  Lua collects an object when  *)
(* nothing refers to it; a bus refers to its devices by plain pointers,    *)
(* which Lua does not see.                                                 *)
(***************************************************************************)
EXTENDS FiniteSets

CONSTANTS
  Cpus, LuaDevices,  \* the objects there may be (an address may be used again)
  Keys,              \* what scripts index objects with
  Nil, Plain         \* no value; any value that is not one of our objects

Objects == Cpus \cup LuaDevices
Values  == Objects \cup {Nil, Plain}

ASSUME ObjectAssumption ==
  /\ Cpus \cap LuaDevices = {} /\ Nil # Plain
  /\ {Nil, Plain} \cap Objects = {}

VARIABLES
  alive,     \* constructed and not deleted
  table,     \* the backing table of user properties
  attached,  \* what each LuaCpu's bus points to
  held       \* objects that some Lua variable or field refers to

objVars == <<alive, table, attached, held>>

(* The maps that RegisterClass fills.                                      *)
Methods(o) ==
  IF o \in Cpus THEN {"PoweredOn", "Cycle", "PowerOff", "PowerOn", "Reset", "AttachDevice"} ELSE {}
Getters(o) == IF o \in Cpus THEN {"InstructionsPerTick", "Name"} ELSE {"Base", "Size", "Name"}
Setters(o) == IF o \in Cpus THEN {"InstructionsPerTick"} ELSE {}
Native(o)  == Methods(o) \cup Getters(o) \cup Setters(o)

EmptyTable == [k \in Keys |-> Nil]

(* The mirror of a device's address range, which its callbacks see.        *)
InitialTable(o) ==
  [k \in Keys |-> IF o \in LuaDevices /\ k \in {"Base", "Size"} THEN Plain ELSE Nil]

Stored(o) == {table[o][k] : k \in Keys} \cap Objects

(* Mutant of Reachable: backing tables do not keep what they refer to.     *)
ReachableFromScripts == held

(* A backing table is referenced from the Lua registry until its object's  *)
(* destructor, whether or not anything refers to the object.               *)
Reachable == held \cup UNION {Stored(o) : o \in Objects}

ObjInit ==
  /\ alive = {} /\ held = {}
  /\ table = [o \in Objects |-> EmptyTable] /\ attached = [c \in Cpus |-> {}]

--------------------------------------------------------------------------------
(* What a script does. *)

Create(o) ==
  /\ o \notin alive
  /\ alive' = alive \cup {o} /\ held' = held \cup {o}
  /\ table' = [table EXCEPT ![o] = InitialTable(o)]
  /\ UNCHANGED attached

(* __newindex: a native name never reaches the table.                      *)
Assign(o, k, v) ==
  /\ o \in held /\ v \in held \cup {Nil, Plain}
  /\ k \notin Native(o)
  /\ table' = [table EXCEPT ![o][k] = v]
  /\ UNCHANGED <<alive, attached, held>>

(* __index, when what is found is an object. *)
Fetch(o, k) ==
  /\ o \in held /\ k \notin Native(o) /\ table[o][k] \in Objects
  /\ held' = held \cup {table[o][k]}
  /\ UNCHANGED <<alive, table, attached>>

(* LuaCpu:AttachDevice, when the bus accepts the address range. *)
AttachDevice(c, d) ==
  /\ c \in held /\ d \in held
  /\ attached' = [attached EXCEPT ![c] = @ \cup {d}]
  /\ UNCHANGED <<alive, table, held>>

Release(o) ==
  /\ o \in held /\ held' = held \ {o}
  /\ UNCHANGED <<alive, table, attached>>

(* Mutant of Collect: the destructor forgets ReferenceFree. *)
CollectLeakingTable(o) ==
  /\ o \in alive \ Reachable
  /\ alive' = alive \ {o}
  /\ attached' = [c \in Cpus |-> IF c = o THEN {} ELSE attached[c]]
  /\ UNCHANGED <<table, held>>

(* Mutant of Collect: the cpu class has lost its __gc. *)
CollectDevicesOnly(o) ==
  /\ o \in LuaDevices \cap (alive \ Reachable)
  /\ alive' = alive \ {o}
  /\ table' = [table EXCEPT ![o] = EmptyTable]
  /\ UNCHANGED <<attached, held>>

(* The collector calls __gc, which deletes the object; its table goes with *)
(* it, and the bus of a cpu.                                               *)
Collect(o) ==
  /\ o \in alive \ Reachable
  /\ alive' = alive \ {o}
  /\ table' = [table EXCEPT ![o] = EmptyTable]
  /\ attached' = [c \in Cpus |-> IF c = o THEN {} ELSE attached[c]]
  /\ UNCHANGED held

--------------------------------------------------------------------------------
(* Properties. *)

(* A dead object has no table and no bus, and scripts hold live ones only. *)
ObjTypeOK ==
  /\ alive \subseteq Objects /\ held \subseteq alive
  /\ table \in [Objects -> [Keys -> Values]] /\ attached \in [Cpus -> SUBSET LuaDevices]
  /\ \A o \in Objects \ alive : table[o] = EmptyTable
  /\ \A c \in Cpus \ alive : attached[c] = {}

(* No table of a live object refers to a dead one (LuaObject.hpp keeps the *)
(* table in the registry from InitLuaStuff to the destructor).             *)
StoredAlive == \A o \in alive : Stored(o) \subseteq alive

(* Bus.hpp on AttachDevice: "the object pointed to by [device] should last *)
(* at least as long as the bus"; here, as long as a script can still cycle *)
(* or reset the machine.                                                   *)
DevicesOutliveUse == \A c \in Cpus \cap held : attached[c] \subseteq alive
================================================================================
