-------------------------------- MODULE MCTimer --------------------------------
(***************************************************************************)
(* The machine of System with a guest that lives by deadlines of two       *)
(* halves.  x6 and x5 hold the deadline, a number of as many bits as the   *)
(* timer's count.  The handler adds Delta to it with a carry, writes it to *)
(* the match, the way a match of two registers has to be written (high     *)
(* half to its maximum, then low, then high), and acknowledges last, so    *)
(* that whatever the halves raised in between is gone.                     *)
(***************************************************************************)
EXTENDS System, Sequences, Bitwise

Rv == INSTANCE Rv32 WITH XLen <- 8, BitAnd <- &, BitOr <- |, BitXor <- ^^

MCAlu(f, a, b) == Rv!AluOp(f, a, b)
MCExtend(fn, v) == Rv!LoadValue(fn, v)
AnyReply(a) == {}   \* the constants of the open hart; the bus answers instead

Instruction(op, fn, rd, rs1, rs2, imm, name) ==
  [op |-> op, fn |-> fn, rd |-> rd, rs1 |-> rs1, rs2 |-> rs2, imm |-> imm, csr |-> name]

Plain(op)         == Instruction(op, "none", 0, 0, 0, 0, "unknown")
Lui(r, v)         == Instruction("lui", "none", r, 0, 0, v, "unknown")
Alui(fn, d, r, v) == Instruction("alui", fn, d, r, 0, v, "unknown")
Alu2(fn, d, r, q) == Instruction("alu", fn, d, r, q, 0, "unknown")
Sw(r, a)          == Instruction("store", "none", 0, 0, r, a, "unknown")
CsrOp(fn, c, r)   == Instruction("csr", fn, 0, r, 0, 0, c)

At(k) == ResetVector + 4 * k

(* The handler for a Delta, of which the masks make numbers of the width   *)
(* of the timer's halves.                                                  *)
Handler(delta) == <<
  Lui(4, WordMod - 1), Sw(4, MatchH),
  Alui("add", 5, 5, delta), Alui("and", 5, 5, CounterMod - 1),
  Alui("sltu", 7, 5, delta), Alu2("add", 6, 6, 7), Alui("and", 6, 6, HighMod - 1),
  Sw(5, MatchL), Sw(6, MatchH),
  Lui(4, 128), CsrOp("rc", "mip", 4),
  Plain("mret") >>

(* The setup runs into the handler, whose MRET is what enables interrupts. *)
Program(delta) ==
  << Lui(4, At(7)), CsrOp("rw", "mtvec", 4), Lui(4, At(19)), CsrOp("rw", "mepc", 4),
     Lui(4, 128), CsrOp("rw", "mie", 4), CsrOp("rw", "mstatus", 4) >>
  \o Handler(delta)
  \o << Alui("xor", 1, 1, 1), Instruction("jal", "none", 0, 0, 0, WordMod - 4, "unknown") >>

(* Deadlines that the count of TimerStep = 10 hits, and ones it passes.    *)
Hit == 30
Missed == 27

(* An instruction word is a position in the two programs, one after the    *)
(* other.                                                                  *)
Encoded == Program(Hit) \o Program(Missed)
Length  == Len(Program(Hit))

MCDecode(w) == IF w \in DOMAIN Encoded THEN Encoded[w] ELSE Plain("illegal")

Image(first) == [k \in RamIndices |-> IF k < Length THEN first + k ELSE 0]

MCImages == {Image(1), Image(Length + 1)}

--------------------------------------------------------------------------------
(* Properties. *)

(* The guest is never woken before its deadline: whenever the hart takes   *)
(* the timer interrupt, the 64-bit count has reached the 64-bit deadline   *)
(* that the guest last asked for.  It is about the comparison of the two   *)
(* halves (ClntDevice.cpp:12-21), the two writes of the match between      *)
(* ticks (ClntDevice.cpp:41-47), a pending bit that outlives the match it  *)
(* was raised for, and the look at it at the head of a batch (CPU.cpp:48). *)
NotBeforeDeadline ==
  [][phase = "idle" /\ ~trapped /\ trapped'
       => timerCountHigh * CounterMod + timerCountLow >= gpr[6] * CounterMod + gpr[5]]_sysVars
================================================================================
