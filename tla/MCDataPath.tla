------------------------------- MODULE MCDataPath ------------------------------
(***************************************************************************)
(* Registers of four bits, so that every pair of operands is met, and thus *)
(* bytes of one bit and halfwords of two; two words of RAM, one register   *)
(* of a device and one address where there is nothing.                     *)
(***************************************************************************)
EXTENDS DataPath, Bitwise

MCAnd(a, b) == a & b
MCOr(a, b)  == a | b
MCXor(a, b) == a ^^ b
================================================================================
