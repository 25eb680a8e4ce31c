------------------------------- MODULE FlatMemory ------------------------------
(***************************************************************************)
(* What a guest may rely on of its memory: every byte has an address of    *)
(* its own, and an access of 1, 2 or 4 bytes is to the naturally aligned   *)
(* block of that many bytes that holds its address.  There is no array,    *)
(* no index and no base in it.                                             *)
(***************************************************************************)
EXTENDS Integers

CONSTANT Addresses

VARIABLES
  cells,     \* address -> byte
  address,   \* what the guest's registers hold: the address of the next access
  operand,   \* ... and the bytes it would store, lowest address first
  width,     \* bytes in the access that was just made, 0 if there was none
  answer     \* the bytes it returned; empty if it was not a load

Block(T) == address - (address % T)

Access == address \in Addresses /\ width' \in {1, 2, 4}

Read ==
  /\ Access /\ UNCHANGED cells
  /\ answer' = [k \in 0 .. width' - 1 |-> cells[Block(width') + k]]

Write ==
  /\ Access /\ answer' = <<>>
  /\ cells' = [c \in Addresses |->
                 IF c \in Block(width') .. Block(width') + width' - 1
                   THEN operand[c - Block(width')] ELSE cells[c]]

(* Whatever else the guest does touches no memory. *)
Quiet == width' = 0 /\ answer' = <<>> /\ UNCHANGED cells

FlatInit == cells = [c \in Addresses |-> 0] /\ width = 0 /\ answer = <<>>
FlatNext == Quiet \/ Read \/ Write

FlatSpec == FlatInit /\ [][FlatNext]_<<cells, address, operand, width, answer>>
================================================================================
