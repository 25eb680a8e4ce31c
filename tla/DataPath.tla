-------------------------------- MODULE DataPath -------------------------------
(***************************************************************************)
(* What a guest computes with: the register operations of CPU::Step, its   *)
(* loads and stores of every width, and the six accessors of the bus that  *)
(* carry them to RAM, to a device that has words only, or to nothing.      *)
(* Cpu.tla has the control around these instructions and takes their       *)
(* results as parameters; here the results are the subject.                *)
(***************************************************************************)
EXTENDS Ram, Rv32

CONSTANTS
  MmioAddresses,   \* where there is a device of the kind Bus::MmioDevice
  MmioValues       \* what it may answer

ASSUME DataAssumption ==
  /\ XLen \in Nat \ {0} /\ XLen % 4 = 0 /\ ByteMod = Pow2[XLen \div 4]
  /\ RamAddresses \subseteq Register /\ MmioValues \subseteq Register
  /\ MmioAddresses \subseteq Register \ RamAddresses

VARIABLES
  x,         \* two registers of the guest: x1 has the address, x2 the data
  executed,  \* the load or store that has just reached memory, or "none"
  aborted    \* the process has exited in an assertion

dataVars == <<ramVars, x, executed, aborted>>

Loads   == {"lb", "lh", "lw", "lbu", "lhu"}
Stores  == {"sb", "sh", "sw"}
WidthOf == [fn \in Loads \cup Stores \cup {"none"} |->
              CASE fn \in {"lb", "lbu", "sb"} -> 1
                [] fn \in {"lh", "lhu", "sh"} -> 2
                [] fn \in {"lw", "sw"}        -> 4
                [] OTHER                      -> 0]
AluFns  == {"add", "sub", "sll", "slt", "sltu", "xor", "srl", "sra", "or", "and", "mul", "mulh",
            "mulhsu", "mulhu", "div", "divu", "rem", "remu", "min", "max", "minu", "maxu"}

DataInit ==
  /\ RamInit /\ x = [r \in {1, 2} |-> 0] /\ executed = "none" /\ aborted = FALSE

(* The host is little endian: byte k counts in units of Place(k).          *)
Place(k) == Pow2[k * (XLen \div 4)]

Join(bytes) ==
  LET part(k) == IF k \in DOMAIN bytes THEN bytes[k] * Place(k) ELSE 0
  IN  part(0) + part(1) + part(2) + part(3)

Split(T, w) == [k \in 0 .. T - 1 |-> (w \div Place(k)) % ByteMod]

--------------------------------------------------------------------------------

Compute(f, rd) ==
  /\ x' = [x EXCEPT ![rd] = AluOp(f, x[1], x[2])]
  /\ executed' = "none" /\ Untouched /\ UNCHANGED aborted

LoadRam(fn) ==
  /\ x[1] \in RamAddresses /\ Peek(WidthOf[fn], x[1])
  /\ x' = [x EXCEPT ![2] = LoadValue(fn, Join(answer'))]
  /\ executed' = fn /\ UNCHANGED aborted

StoreRam(fn) ==
  /\ x[1] \in RamAddresses /\ Poke(WidthOf[fn], x[1], Split(WidthOf[fn], x[2]))
  /\ executed' = fn /\ UNCHANGED <<x, aborted>>

(* Bus::PeekWord and Bus::PokeWord ask what kind of device it is. *)
WordMmio(fn) ==
  /\ x[1] \in MmioAddresses /\ WidthOf[fn] = 4
  /\ \/ fn \in Loads /\ \E v \in MmioValues : x' = [x EXCEPT ![2] = v]
     \/ fn \in Stores /\ UNCHANGED x
  /\ executed' = "none" /\ Untouched /\ UNCHANGED aborted

(* The accessors of bytes and halfwords do not: Upcast<MemoryDevice*>() of *)
(* an MMIO device fails the assertion, which ends the process.             *)
SubWordMmio(fn) ==
  /\ x[1] \in MmioAddresses /\ WidthOf[fn] < 4 /\ aborted' = TRUE
  /\ executed' = "none" /\ Untouched /\ UNCHANGED x

(* No device: Bus calls CPU::Trap and the instruction writes nothing. *)
Fault ==
  /\ x[1] \notin RamAddresses \cup MmioAddresses
  /\ executed' = "none" /\ Untouched /\ UNCHANGED <<x, aborted>>

DataNext ==
  /\ ~aborted
  /\ \/ \E f \in AluFns, rd \in {1, 2} : Compute(f, rd)
     \/ \E fn \in Loads : LoadRam(fn)
     \/ \E fn \in Stores : StoreRam(fn)
     \/ \E fn \in Loads \cup Stores : WordMmio(fn) \/ SubWordMmio(fn)
     \/ Fault

DataSpec == DataInit /\ [][DataNext]_dataVars

--------------------------------------------------------------------------------
(* Properties.  They say what RV32IMA says a result is, by relations that  *)
(* determine it, not by computing it again.                                *)

DataTypeOK ==
  /\ RamTypeOK /\ x \in [{1, 2} -> Register]
  /\ executed \in Loads \cup Stores \cup {"none"} /\ aborted \in BOOLEAN

(* The three views of the array are one memory: a byte stored is found in  *)
(* the halfword and the word that hold it and disturbs no other byte       *)
(* (RamDevice::AddressToIndex, the six accesses).                          *)
Flat == INSTANCE FlatMemory WITH
  Addresses <- RamAddresses,
  cells     <- [a \in RamAddresses |-> memory[a - MemoryBase]],
  address   <- x[1],
  operand   <- Split(4, x[2]),
  width     <- WidthOf[executed]

OneMemory == Flat!FlatSpec

(* The signed number a register stands for. *)
Sgn(w)   == CHOOSE s \in -HalfWord .. HalfWord - 1 : (s - w) % Modulus = 0

(* DIV and REM are the two parts of one division that truncates, by zero   *)
(* they give -1 and the dividend, and the quotient that does not fit wraps *)
(* (CPU.cpp:206-229).                                                      *)
DivisionContract ==
  LET a == x[1]
      b == x[2]
      q == Sgn(AluOp("div", a, b))
      r == Sgn(AluOp("rem", a, b))
      qu == AluOp("divu", a, b)
      ru == AluOp("remu", a, b)
  IN  /\ (q * Sgn(b) + r - Sgn(a)) % Modulus = 0
      /\ a = (qu * b + ru) % Modulus
      /\ IF b = 0 THEN q = -1 /\ qu = Modulus - 1
         ELSE /\ r * r < Sgn(b) * Sgn(b) /\ r * Sgn(a) >= 0
              /\ q * Sgn(b) * Sgn(a) >= 0 \/ (Sgn(a) = -HalfWord /\ Sgn(b) = -1 /\ q = Sgn(a))
              /\ ru < b

(* MUL and each of the three high products are the halves of a product of  *)
(* twice the width (CPU.cpp:202-205).                                      *)
WideProducts ==
  LET a == x[1]
      b == x[2]
      low == AluOp("mul", a, b)
  IN  /\ low \in Register
      /\ Modulus * Sgn(AluOp("mulh", a, b)) + low = Sgn(a) * Sgn(b)
      /\ Modulus * Sgn(AluOp("mulhsu", a, b)) + low = Sgn(a) * b
      /\ Modulus * AluOp("mulhu", a, b) + low = a * b

(* Shifts move by the low bits of the second operand and are inverse to    *)
(* one another up to the bits that fall out; the comparisons and the four  *)
(* AMO extrema agree on both orders (CPU.cpp:234-243, 377-380).            *)
ShiftsAndOrder ==
  LET a == x[1]
      b == x[2]
      p == Pow2[b % XLen]
      signed == Sgn(a) < Sgn(b)
  IN  /\ a - p * AluOp("srl", a, b) \in 0 .. p - 1
      /\ Sgn(a) - p * Sgn(AluOp("sra", a, b)) \in 0 .. p - 1
      /\ (AluOp("sll", a, b) - p * a) % Modulus = 0
      /\ (AluOp("slt", a, b) = 1) = signed /\ (AluOp("sltu", a, b) = 1) = (a < b)
      /\ AluOp("min", a, b) = (IF signed THEN a ELSE b) /\ AluOp("max", a, b) = (IF signed THEN b ELSE a)
      /\ AluOp("minu", a, b) + AluOp("maxu", a, b) = a + b
      /\ AluOp("and", a, b) + AluOp("or", a, b) = a + b
      /\ AluOp("xor", a, b) = AluOp("or", a, b) - AluOp("and", a, b)

(* A load leaves in the register the number its bytes stand for: as a      *)
(* natural, or in two's complement of their own width (CPU.cpp:151-159).   *)
LoadsMean ==
  LET n == Join(answer)
      top == Place(WidthOf[executed])
  IN  /\ executed \in {"lw", "lbu", "lhu"} => x[2] = n
      /\ executed \in {"lb", "lh"} =>
           (Sgn(x[2]) - n) % top = 0 /\ Sgn(x[2]) \in -(top \div 2) .. (top \div 2) - 1
================================================================================
