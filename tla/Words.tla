--------------------------------- MODULE Words ---------------------------------
(***************************************************************************)
(* The machine words every component of the emulated system shares.  The   *)
(* code has 32-bit words; the modules take the modulus as a parameter.     *)
(***************************************************************************)
EXTENDS Integers

CONSTANTS
  WordMod,     \* 2^32 in the code: words are the naturals below it
  CounterMod,  \* modulus of the low half of a 64-bit counter: 2^32 in the code,
               \* may be narrower in a run
  HighMod      \* modulus of the high half: 2^32 in the code

ASSUME WidthAssumption ==
  /\ WordMod \in Nat /\ WordMod >= 256 /\ WordMod % 256 = 0
  /\ CounterMod \in 2 .. WordMod
  /\ HighMod \in 1 .. WordMod

Word == 0 .. WordMod - 1

(* Mutant of Plus: no wrap at the width of the machine. *)
PlusUnbounded(a, b) == a + b

Plus(a, b)    == (a + b) % WordMod
Bit(b, unit)  == IF b THEN unit ELSE 0
Flag(w, unit) == (w \div unit) % 2 = 1

(* The addresses a device answers for: the end of its range is a sum of    *)
(* words, so a range that reaches the top of the address space is empty    *)
(* but for its base.                                                       *)
Within(a, base, size) == a = base \/ (a >= base /\ a < Plus(base, size))
================================================================================
