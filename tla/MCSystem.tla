-------------------------------- MODULE MCSystem -------------------------------
(***************************************************************************)
(* The machine on 8-bit words with five registers and six guest programs,  *)
(* all of them laid out like the guest of GuestLoop.                       *)
(* Devices sit at 64 (timer), 96 (SYSCON) and 112 (the Lua device); RAM is *)
(* at 128.                                                                 *)
(***************************************************************************)
EXTENDS GuestLoop, Bitwise

Rv == INSTANCE Rv32 WITH XLen <- 8, BitAnd <- &, BitOr <- |, BitXor <- ^^

MCAlu(f, a, b) == Rv!AluOp(f, a, b)
MCExtend(fn, v) == Rv!LoadValue(fn, v)
AnyReply(a) == {}   \* the constants of the open hart; the bus below answers instead

(* Instruction words are positions in this sequence: 1 to 10 are the       *)
(* setup, 21 to 26 the handler.                                            *)
Encoded == Setup \o <<
  (* 11 *) Alui("xor", 1, 1),
  (* 12 *) Lw(3, LuaBase),
  (* 13 *) Alui("xor", 2, 1),
  (* 14 *) Jal(244),                \* -12
  (* 15 *) Jal(0),
  (* 16 *) Lui(3, RebootCode),
  (* 17 *) Lui(3, PowerOffCode),
  (* 18 *) Sw(3, SysconBase),
  (* 19 *) Plain("wfi"),
  (* 20 *) Lui(3, 2 * TimerStep - 1) >> \o TrapHandler \o <<
  (* 27 *) Instruction("amo", "lr", 0, 3, 0, 0, "unknown") >>

MCDecode(w) == IF w \in DOMAIN Encoded THEN Encoded[w] ELSE Plain("illegal")

Image(s) == [k \in RamIndices |-> IF k < Len(s) THEN s[k + 1] ELSE 0]
SetupWords == <<1, 2, 3, 4, 5, 6, 7, 8, 9, 10>>
Guest(setup, loop) == Image(setup \o loop \o <<21, 22, 23, 24, 25, 26>>)

Counting    == Guest(SetupWords, <<11, 12, 13, 14, 15, 15>>)
Rebooting   == Guest(SetupWords, <<11, 12, 13, 16, 18, 15>>)
PoweringOff == Guest(SetupWords, <<11, 12, 13, 17, 18, 15>>)
Sleeping    == Guest(SetupWords, <<19, 15, 15, 15, 15, 15>>)
Periodic    == Image(SetupWords \o <<11, 27, 13, 14, 15, 15>> \o <<21, 22, 26>>)  \* never re-arms
OddMatch    == Guest([SetupWords EXCEPT ![4] = 20], <<11, 12, 13, 14, 15, 15>>)

MCImages       == {Counting, Rebooting, PoweringOff}
CountingOnly   == {Counting}
PeriodicOnly   == {Periodic}
SleepingOnly   == {Sleeping}
RebootingOnly  == {Rebooting}
OddMatchOnly   == {OddMatch}

(* Timer interrupts never stop arriving at a guest that set one match and  *)
(* acknowledges them (CLNT, mip, mstatus stacking and MRET together).      *)
TimerKeepsTicking == []<>(trapped /\ phase = "exit")

(* ... and never starve the program they interrupt.                        *)
MainProgress == []<>(gpr[1] = 0) /\ []<>(gpr[1] = 1)
================================================================================
