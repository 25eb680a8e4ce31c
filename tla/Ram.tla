----------------------------------- MODULE Ram ---------------------------------
(***************************************************************************)
(* The memory device, riscv::devices::RamDevice: one array of bytes, which *)
(* the accesses of two and four bytes see as an array of halfwords or of   *)
(* words (std::bit_cast of the pointer).                                   *)
(***************************************************************************)
EXTENDS Integers

CONSTANTS
  ByteMod,      \* 256 in the code: bytes are the naturals below it
  MemoryBase,   \* 0x80000000
  MemorySize    \* in bytes, as given to CreateCPU

(* CreateCPU itself checks only an upper limit.  The entity asks for       *)
(* 128 KiB; a size that is 0 or no whole number of words is outside of     *)
(* what the accesses can bear.                                             *)
ASSUME RamAssumption ==
  /\ ByteMod \in Nat \ {0}
  /\ MemoryBase \in Nat /\ MemoryBase % 4 = 0
  /\ MemorySize \in Nat \ {0} /\ MemorySize % 4 = 0

VARIABLES
  memory,
  answer   \* what Peek returned to its caller, byte by byte; empty otherwise

ramVars == <<memory, answer>>

Byte         == 0 .. ByteMod - 1
Offsets      == 0 .. MemorySize - 1
RamAddresses == MemoryBase .. MemoryBase + MemorySize - 1
Widths       == {1, 2, 4}   \* sizeof of u8, u16 and u32

RamInit == memory = [o \in Offsets |-> 0] /\ answer = <<>>

(* Mutant of AddressToIndex: an index of words, whatever the access. *)
IndexOfWord(T, a) == ((a - MemoryBase) % MemorySize) \div 4

AddressToIndex(T, a) == ((a - MemoryBase) % MemorySize) \div T

(* Element i of the array seen as elements of T bytes. *)
Element(T, i) == [k \in 0 .. T - 1 |-> memory[T * i + k]]

Peek(T, a) == answer' = Element(T, AddressToIndex(T, a)) /\ UNCHANGED memory

Poke(T, a, v) ==
  /\ memory' = [o \in Offsets |-> IF o \div T = AddressToIndex(T, a) THEN v[o % T] ELSE memory[o]]
  /\ answer' = <<>>

(* The hart does something else. *)
Untouched == answer' = <<>> /\ UNCHANGED memory

RamTypeOK ==
  /\ memory \in [Offsets -> Byte]
  /\ answer = <<>> \/ \E T \in Widths : answer \in [0 .. T - 1 -> Byte]
================================================================================
