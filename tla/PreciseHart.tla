------------------------------ MODULE PreciseHart ------------------------------
(***************************************************************************)
(* What the hart promises to a guest: traps are precise.  There is no      *)
(* batch and no Step here.  An instruction completes as a whole and moves  *)
(* the pc on, or it traps and changes nothing: then the hart is trapping,  *)
(* and the only thing it does next is to enter the handler, with mepc at   *)
(* the instruction that was executing or about to execute.  The 64-bit     *)
(* cycle counter only moves forward, by less than one lap of its low half. *)
(* What mcause and mtval tell the handler is not promised.                 *)
(***************************************************************************)
EXTENDS Integers

CONSTANTS Words, Registers, Csrs,
          Start,               \* the reset vector
          Following(_),        \* the instruction after the one at a pc
          Lap, CountMod,       \* one lap of the low half, and of the whole counter
          Stacked(_,_),        \* mstatus after a trap, from mstatus and the privilege
          Unstacked(_,_),      \* ... and after the return from one
          Level(_)             \* the privilege that mstatus returns to

VARIABLES gpr, pc, csr, priv, resv, count,
          trapping             \* an instruction or an interrupt is being trapped

hartVars == <<gpr, pc, csr, priv, resv, count, trapping>>

HartInit ==
  /\ gpr = [r \in Registers |-> 0] /\ pc = Start /\ csr = [c \in Csrs |-> 0]
  /\ priv = 3 /\ resv = 0 /\ count = 0 /\ trapping = FALSE

(* An instruction leaves the cycle counter to the end of the batch.        *)
Completes == ~trapping /\ UNCHANGED <<count, trapping>>

Sets(r) == gpr'[r] \in Words /\ gpr' = [gpr EXCEPT ![r] = gpr'[r]]

(* It writes at most one register, never x0. *)
WritesRegister == gpr' = gpr \/ \E r \in Registers \ {0} : Sets(r)

(* Arithmetic, loads, stores, atomics; LR makes a reservation. *)
Compute ==
  /\ Completes /\ WritesRegister
  /\ pc' = Following(pc) /\ resv' \in Words
  /\ UNCHANGED <<csr, priv>>

(* The CSR instructions, and WFI, which enables interrupts. *)
AccessCsr ==
  /\ Completes /\ WritesRegister
  /\ \E c \in Csrs : csr'[c] \in Words /\ csr' = [csr EXCEPT ![c] = csr'[c]]
  /\ pc' = Following(pc) /\ UNCHANGED <<priv, resv>>

(* Jumps and branches: the one thing a jump may write is the way back.     *)
Jump ==
  /\ Completes /\ pc' \in Words
  /\ gpr' = gpr \/ \E r \in Registers \ {0} : Sets(r) /\ gpr'[r] = Following(pc)
  /\ UNCHANGED <<csr, priv, resv>>

Mret ==
  /\ Completes
  /\ csr' = [csr EXCEPT !["mstatus"] = Unstacked(csr["mstatus"], priv)]
  /\ pc' = csr["mepc"] /\ priv' = Level(csr["mstatus"])
  /\ UNCHANGED <<gpr, resv>>

(* A load or a store whose device resets the hart.  Whether the first      *)
(* instruction of the program is then executed is not promised.            *)
AccessResets ==
  /\ Completes /\ WritesRegister
  /\ pc' \in {Start, Following(Start)} /\ priv' = 3
  /\ UNCHANGED <<csr, resv>>

Complete == Compute \/ AccessCsr \/ Jump \/ Mret \/ AccessResets

(* An instruction that does not complete, or an interrupt. *)
Trap == ~trapping /\ trapping' = TRUE /\ UNCHANGED <<gpr, pc, csr, priv, resv, count>>

Advance == \E n \in 0 .. Lap - 1 : count' = (count + n) % CountMod

TakeTrap ==
  /\ trapping /\ trapping' = FALSE
  /\ csr'["mcause"] \in Words /\ csr'["mtval"] \in Words
  /\ csr' = [csr EXCEPT !["mepc"] = pc, !["mstatus"] = Stacked(csr["mstatus"], priv),
                        !["mcause"] = csr'["mcause"], !["mtval"] = csr'["mtval"]]
  /\ pc' = csr["mtvec"] /\ priv' = 3
  /\ UNCHANGED <<gpr, resv>>
  /\ Advance

(* The cycles of a batch that ends without a trap are added. *)
EndBatch == ~trapping /\ Advance /\ UNCHANGED <<gpr, pc, csr, priv, resv, trapping>>

(* A device makes an interrupt pending. *)
Pend ==
  /\ ~trapping
  /\ csr'["mip"] \in Words /\ csr' = [csr EXCEPT !["mip"] = csr'["mip"]]
  /\ UNCHANGED <<gpr, pc, priv, resv, count, trapping>>

Restart == ~trapping /\ pc' = Start /\ priv' = 3 /\ UNCHANGED <<gpr, csr, resv, count, trapping>>

HartNext == Complete \/ Trap \/ TakeTrap \/ EndBatch \/ Pend \/ Restart

HartSpec == HartInit /\ [][HartNext]_hartVars
================================================================================
