---------------------------------- MODULE Uart ---------------------------------
(***************************************************************************)
(* The UART of an entity, LCPU.Devices.UART: what a guest sends becomes    *)
(* lines on the server's console.  A character is any value; how a number  *)
(* or a word looks is the guest's affair.                                  *)
(***************************************************************************)
EXTENDS Naturals, Sequences

CONSTANTS
  UartBase,     \* 0x10000000
  LineLimit,    \* 256
  NUL, NewLine, \* the two characters the device knows
  NoRegister    \* 0xffffffff, where there is nothing to read

ASSUME UartAssumption == UartBase \in Nat /\ LineLimit \in Nat /\ NUL # NewLine

VARIABLES
  buffer,   \* the line so far
  printed   \* the console: the lines printed since the machine restarted

uartVars == <<buffer, printed>>

UartInit == buffer = <<>> /\ printed = <<>>

(* Mutant of UartReset: the line so far survives. *)
UartResetKeeping == UNCHANGED buffer

UartReset == buffer' = <<>>

(* Mutant of LineEnds: one character too many. *)
LineEndsLate(c) == c = NewLine \/ Len(buffer) > LineLimit

LineEnds(c) == c = NewLine \/ Len(buffer) >= LineLimit

(* "Active, but no keyboard input" (0x60) is at an offset of its own.       *)
UartPeek(address) ==
  CASE address = UartBase     -> 0
    [] address = UartBase + 5 -> 96
    [] OTHER                  -> NoRegister

Ignored(address, c) == address # UartBase \/ c = NUL

(* The character that finds the buffer full is in neither line.            *)
PrintLine == printed' = Append(printed, buffer) /\ UartReset

UartPoke(address, c) ==
  \/ Ignored(address, c) /\ UNCHANGED uartVars
  \/ ~Ignored(address, c) /\ LineEnds(c) /\ PrintLine
  \/ ~Ignored(address, c) /\ ~LineEnds(c) /\ buffer' = Append(buffer, c) /\ UNCHANGED printed

(* No line outgrows the limit or has a control character in it.            *)
UartTypeOK ==
  \A line \in {buffer} \cup {printed[k] : k \in DOMAIN printed} :
    Len(line) <= LineLimit /\ \A k \in DOMAIN line : line[k] # NUL /\ line[k] # NewLine
================================================================================
