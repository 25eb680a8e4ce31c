---------------------------------- MODULE Rv32 ---------------------------------
(***************************************************************************)
(* The register-to-register operations of CPU::Step (opcodes 0x13 and 0x33 *)
(* with and without the M bit, and the ones RV32A adds), at any width.     *)
(* u32 arithmetic is arithmetic modulo Modulus; (i32) reinterprets a word. *)
(***************************************************************************)
EXTENDS Integers

CONSTANTS
  XLen,                                   \* 32 in the code
  BitAnd(_, _), BitOr(_, _), BitXor(_, _) \* &, | and ^ on its words

(* The powers of two, as a function that its proofs can unfold. *)
Pow2[n \in Nat] == IF n = 0 THEN 1 ELSE 2 * Pow2[n - 1]

Modulus  == Pow2[XLen]
HalfWord == Modulus \div 2
Register == 0 .. Modulus - 1

(* What is used of the bits: and takes what both have, or has the rest of  *)
(* both, and exclusive or is what or has more than and.                    *)
ASSUME BitAssumption ==
  \A a, b \in Register :
    /\ {BitAnd(a, b), BitOr(a, b), BitXor(a, b)} \subseteq Register
    /\ BitAnd(a, b) + BitOr(a, b) = a + b
    /\ BitXor(a, b) = BitOr(a, b) - BitAnd(a, b)

(* Mutant of AsSigned: the most negative number counts as positive. *)
AsSignedLate(w) == IF w > HalfWord THEN w - Modulus ELSE w

AsSigned(w)   == IF w >= HalfWord THEN w - Modulus ELSE w

(* Mutant of AsUnsigned: the 64-bit intermediate is kept. *)
AsUnsignedWide(x) == x

AsUnsigned(x) == x % Modulus
Truth(b)      == IF b THEN 1 ELSE 0
Magnitude(x)  == IF x < 0 THEN -x ELSE x

(* Mutant of Quotient: rounds down. *)
QuotientFloor(x, y) == IF y > 0 THEN x \div y ELSE (-x) \div (-y)

(* C++ division truncates, \div rounds down. *)
Quotient(x, y)  == LET q == Magnitude(x) \div Magnitude(y)
                   IN  IF (x < 0) = (y < 0) THEN q ELSE -q
Remainder(x, y) == x - y * Quotient(x, y)

(* INT32_MIN / -1 is taken apart in the code because it overflows; the     *)
(* mathematical quotient wraps to the value the code returns.              *)
Div(a, b) ==
  IF b = 0 THEN Modulus - 1
  ELSE IF AsSigned(a) = -HalfWord /\ AsSigned(b) = -1 THEN a
  ELSE AsUnsigned(Quotient(AsSigned(a), AsSigned(b)))

Rem(a, b) ==
  IF b = 0 THEN a
  ELSE IF AsSigned(a) = -HalfWord /\ AsSigned(b) = -1 THEN 0
  ELSE AsUnsigned(Remainder(AsSigned(a), AsSigned(b)))

(* Mutant of ShiftAmount: not reduced. *)
ShiftAmountFull(b) == b

ShiftAmount(b) == b % XLen

Lesser(a, b)  == IF a < b THEN a ELSE b
Greater(a, b) == IF a > b THEN a ELSE b

AluOp(f, a, b) ==
  LET shift == ShiftAmount(b) IN
  CASE f = "add"    -> AsUnsigned(a + b)
    [] f = "sub"    -> AsUnsigned(a - b)
    [] f = "sll"    -> AsUnsigned(a * Pow2[shift])
    [] f = "slt"    -> Truth(AsSigned(a) < AsSigned(b))
    [] f = "sltu"   -> Truth(a < b)
    [] f = "xor"    -> BitXor(a, b)
    [] f = "srl"    -> a \div Pow2[shift]
    [] f = "sra"    -> AsUnsigned(AsSigned(a) \div Pow2[shift])
    [] f = "or"     -> BitOr(a, b)
    [] f = "and"    -> BitAnd(a, b)
    [] f = "mul"    -> AsUnsigned(a * b)
    [] f = "mulh"   -> AsUnsigned((AsSigned(a) * AsSigned(b)) \div Modulus)
    [] f = "mulhsu" -> AsUnsigned((AsSigned(a) * b) \div Modulus)
    [] f = "mulhu"  -> (a * b) \div Modulus
    [] f = "div"    -> Div(a, b)
    [] f = "divu"   -> IF b = 0 THEN Modulus - 1 ELSE a \div b
    [] f = "rem"    -> Rem(a, b)
    [] f = "remu"   -> IF b = 0 THEN a ELSE a % b
    [] f = "min"    -> AsUnsigned(Lesser(AsSigned(a), AsSigned(b)))
    [] f = "max"    -> AsUnsigned(Greater(AsSigned(a), AsSigned(b)))
    [] f = "minu"   -> Lesser(a, b)
    [] f = "maxu"   -> Greater(a, b)

(* Mutant of SignExtend: the sign bit is the one above. *)
SignExtendLate(v, mod) == IF v % mod > mod \div 2 THEN AsUnsigned((v % mod) - mod) ELSE v % mod

(* What a load keeps of the value it peeked. *)
SignExtend(v, mod) == IF v % mod >= mod \div 2 THEN AsUnsigned((v % mod) - mod) ELSE v % mod

LoadValue(fn, v) ==
  CASE fn = "lb"  -> SignExtend(v, Pow2[XLen \div 4])
    [] fn = "lh"  -> SignExtend(v, Pow2[XLen \div 2])
    [] fn = "lw"  -> v
    [] fn = "lbu" -> v % Pow2[XLen \div 4]
    [] fn = "lhu" -> v % Pow2[XLen \div 2]
================================================================================
