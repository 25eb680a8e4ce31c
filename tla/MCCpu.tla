--------------------------------- MODULE MCCpu ---------------------------------
(***************************************************************************)
(* The hart on its own, on 8-bit words with two registers.  The code at    *)
(* the reset vector and above is not a program: every fetch may return any *)
(* of the instruction words below, so every order of them is explored.     *)
(***************************************************************************)
EXTENDS Cpu, Sequences, Bitwise

Rv == INSTANCE Rv32 WITH XLen <- 8, BitAnd <- &, BitOr <- |, BitXor <- ^^

MCAlu(f, a, b) == Rv!AluOp(f, a, b)
MCExtend(fn, v) == Rv!LoadValue(fn, v)

Blank == [op |-> "illegal", fn |-> "none", rd |-> 0, rs1 |-> 0, rs2 |-> 0,
          imm |-> 0, csr |-> "unknown"]
I(op)             == [Blank EXCEPT !.op = op]
Lui(imm)          == [I("lui") EXCEPT !.rd = 1, !.imm = imm]
CsrOp(fn, c)      == [I("csr") EXCEPT !.fn = fn, !.csr = c, !.rs1 = 1]
AmoOp(fn)         == [I("amo") EXCEPT !.fn = fn, !.rs1 = 1]

(* Instruction words are positions in this sequence, all others are        *)
(* illegal.  136 serves as an address, as the mask of mstatus.MIE and of   *)
(* the timer bits, and is what is read at 136 and from the device, so x1   *)
(* is always 0 or 136.                                                     *)
Encoded == <<
  Lui(136),
  [I("alui") EXCEPT !.fn = "and", !.rd = 1, !.rs1 = 1],
  [I("auipc") EXCEPT !.imm = 8],
  [I("jal") EXCEPT !.rd = 1, !.imm = 252],
  [I("jalr") EXCEPT !.imm = 133],
  [I("branch") EXCEPT !.fn = "bltu", !.rs2 = 1, !.imm = 254],
  [I("load") EXCEPT !.fn = "lw", !.rd = 1, !.rs1 = 1, !.imm = 120],
  [I("store") EXCEPT !.rs1 = 1, !.imm = 120],
  AmoOp("sc"), [AmoOp("or") EXCEPT !.rd = 1], AmoOp("undefined"),
  [CsrOp("rw", "mtvec") EXCEPT !.rd = 1], CsrOp("rs", "mie"), CsrOp("rw", "mstatus"),
  CsrOp("rc", "mip"), [CsrOp("rw", "cycle") EXCEPT !.op = "csri"], CsrOp("rs", "unknown"),
  I("fence"), I("wfi"), I("mret"), I("ecall"), I("ebreak") >>

(* The word at 136, the handler, is its own address and stands for MRET.   *)
MCDecode(w) ==
  CASE w \in DOMAIN Encoded -> Encoded[w]
    [] w = 136              -> I("mret")
    [] OTHER                -> Blank

Ok(v) == [kind |-> "ok", value |-> v]
Answers(v) == {Ok(v), [Ok(v) EXCEPT !.kind = "reset"], [kind |-> "error", value |-> 0]}
NoDevice == {[kind |-> "fault", value |-> 0]}

(* A Lua device at 0, which may also not be there (devices are attached at *)
(* any time), any choice at every access.  At 128 two words of code, then  *)
(* one word of handler.                                                    *)
MCPeekReplies(a) ==
  CASE a = 128 -> {Ok(w) : w \in {1, 12, 13, 14}}
    [] a = 132 -> {Ok(w) : w \in 0 .. Len(Encoded)}
    [] a = 136 -> {Ok(136)}
    [] a = 0   -> Answers(136) \cup NoDevice
    [] OTHER   -> NoDevice
MCPokeReplies(a) ==
  CASE a \in {128, 132, 136} -> {Ok(0)}
    [] a = 0                 -> Answers(0) \cup NoDevice
    [] OTHER                 -> NoDevice
================================================================================
