-------------------------------- MODULE GuestLoop ------------------------------
(***************************************************************************)
(* A guest that observes the machine from inside: a setup, a main loop and *)
(* a handler that acknowledges the timer and arms it again, laid out as    *)
(* test-gmod/binary.ld lays a program out, with its entry at the reset     *)
(* vector.  x1 and x2 belong to the loop, x3 to setup and loop, x4 to the  *)
(* handler.                                                                *)
(***************************************************************************)
EXTENDS System, Sequences

Instruction(op, fn, rd, rs1, rs2, imm, name) ==
  [op |-> op, fn |-> fn, rd |-> rd, rs1 |-> rs1, rs2 |-> rs2, imm |-> imm, csr |-> name]

Plain(op)       == Instruction(op, "none", 0, 0, 0, 0, "unknown")
Lui(r, v)       == Instruction("lui", "none", r, 0, 0, v, "unknown")
Alui(fn, r, v)  == Instruction("alui", fn, r, r, 0, v, "unknown")
Jal(v)          == Instruction("jal", "none", 0, 0, 0, v, "unknown")
Lw(r, a)        == Instruction("load", "lw", r, 0, 0, a, "unknown")
Sw(r, a)        == Instruction("store", "none", 0, 0, r, a, "unknown")
CsrOp(fn, c, r) == Instruction("csr", fn, 0, r, 0, 0, c)

At(k)   == ResetVector + 4 * k
Handler == At(16)

(* The first match is two ticks after a reset.                             *)
Setup == <<
  Plain("fence"),
  Lui(3, Handler), CsrOp("rw", "mtvec", 3),
  Lui(3, 2 * TimerStep), Sw(3, MatchL),
  Lui(3, 136), CsrOp("rw", "mie", 3),          \* MTIE, and a bit nobody looks at
  Lui(1, 0), Lui(2, 0),
  Instruction("csri", "rs", 0, 0, 0, 8, "mstatus") >>

(* Acknowledge, arm the match two ticks from now.                          *)
TrapHandler == <<
  Lui(4, 128), CsrOp("rc", "mip", 4),
  Lw(4, TimerL), Alui("add", 4, 2 * TimerStep), Sw(4, MatchL),
  Plain("mret") >>

(* x1 flips, the Lua device is asked, x2 flips; then once more, or a code  *)
(* for SYSCON.                                                             *)
CountingLoop ==
  <<Alui("xor", 1, 1), Lw(3, LuaBase), Alui("xor", 2, 1), Jal(WordMod - 12), Jal(0), Jal(0)>>
SysconLoop(code) ==
  <<Alui("xor", 1, 1), Lw(3, LuaBase), Alui("xor", 2, 1), Lui(3, code), Sw(3, SysconBase), Jal(0)>>

Loops == {CountingLoop} \cup {SysconLoop(code) : code \in Word}

Holds(image, at, code) == \A k \in DOMAIN code : Decode(image[at + k - 1]) = code[k]

Runs(image, loop) ==
  Holds(image, 0, Setup) /\ Holds(image, 10, loop) /\ Holds(image, 16, TrapHandler)

(* A machine such a guest can run on.                                      *)
GuestMachine ==
  /\ NRegs >= 5 /\ MppUnit % 16 = 0 /\ RamBytes >= 88
  /\ Device(MatchL) = "clnt" /\ Device(TimerL) = "clnt"
  /\ Device(LuaBase) = "lua" /\ Device(SysconBase) = "syscon"
  /\ \A v \in Word : Alu("xor", v, 1) # v
  /\ \A image \in Images : \E loop \in Loops : Runs(image, loop)

(* Where the main program stands: the pc, or the mepc it will return to    *)
(* while the handler runs.                                                 *)
MainPc == IF pc \in Handler .. At(22) - 1 THEN csr["mepc"] ELSE pc

(* The guest's main loop cannot tell that it is interrupted.  x1 has       *)
(* flipped once more than x2 exactly between the two flips, whatever timer *)
(* interrupts, Lua errors, resets, reboots and power cycles come between   *)
(* (CPU.cpp:48-51, 319-328 and 404-428, LuaCpu.cpp:15-46).                 *)
GuestUndisturbed ==
  /\ MainPc \in {At(10), At(13), At(14)} => gpr[1] = gpr[2]
  /\ MainPc \in {At(11), At(12)} => gpr[1] # gpr[2]
================================================================================
