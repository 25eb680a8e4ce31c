--------------------------------- MODULE Console -------------------------------
(***************************************************************************)
(* The repository's own guest program (test-gmod/main.c) on the machine of *)
(* an entity: it describes the wire interface on the UART and sets every   *)
(* output, one access of a device at a time, while the wires change and    *)
(* the host switches and resets the machine between any two accesses.      *)
(***************************************************************************)
EXTENDS Uart, WireInterface

(* The words of its three lines.  A number is one character, whatever its  *)
(* digits, and followed by the NUL that strlen counts.                     *)
CONSTANTS TitleText, InputsText, OutputsText, WireInputText, ValueText, SettingText

(* The program sets all of its outputs, and the device takes no more of    *)
(* them than it has inputs.  A word or a number is none of the two         *)
(* characters the UART knows.                                              *)
ASSUME ConsoleAssumption ==
  /\ NrOutputs <= NrInputs
  /\ {NUL, NewLine} \cap ({TitleText, InputsText, OutputsText, WireInputText, ValueText, SettingText}
                            \cup WireValues \cup 0 .. NrInputs) = {}

VARIABLES
  poweredOn,  \* LuaCpu::poweredOn
  at,         \* where main is
  i,          \* its loop counter
  queue,      \* what printf has yet to send
  read        \* history: the input values it has read since it started

mainVars    == <<at, i, queue, read>>
consoleVars == <<uartVars, wireVars, poweredOn, mainVars>>

(* What WIRE_INPUT and WIRE_OUTPUT expand to. *)
WireInputAddress(n)  == WireBase + 8 + 4 * n
WireOutputAddress(n) == WireBase + 8 + 4 * WirePeek(WireBase) + 4 * n

HeaderLine(n, m) == <<TitleText, n, NUL, InputsText, m, NUL, OutputsText, NewLine>>
InputLine(n, v)  == <<WireInputText, n, NUL, ValueText, v, NUL, NewLine>>
OutputLine(n)    == <<SettingText, n, NUL, NewLine>>

Printf(line) == queue' = line

MainInit == at = "header" /\ i = 0 /\ queue = <<>> /\ read = <<>>

ConsoleInit == UartInit /\ WireInit /\ MainInit /\ poweredOn = TRUE

--------------------------------------------------------------------------------
(* The guest. *)

(* Mutant of Putc: it waits until the UART is active, for which it reads   *)
(* what main.c calls UART_STATUS, the data register.                       *)
PutcPolling ==
  /\ poweredOn /\ queue # <<>> /\ UartPeek(UartBase) = 96
  /\ UartPoke(UartBase, Head(queue)) /\ queue' = Tail(queue)
  /\ UNCHANGED <<wireVars, poweredOn, at, i, read>>

Putc ==
  /\ poweredOn /\ queue # <<>>
  /\ UartPoke(UartBase, Head(queue)) /\ queue' = Tail(queue)
  /\ UNCHANGED <<wireVars, poweredOn, at, i, read>>

(* Between two lines. *)
At(place) == poweredOn /\ queue = <<>> /\ at = place /\ UNCHANGED <<uartVars, poweredOn>>

PrintHeader ==
  /\ At("header") /\ at' = "inputs"
  /\ Printf(HeaderLine(WirePeek(WireBase), WirePeek(WireBase + 4)))
  /\ UNCHANGED <<wireVars, i, read>>

PrintInput ==
  /\ At("inputs") /\ i < WirePeek(WireBase)
  /\ LET v == WirePeek(WireInputAddress(i))
     IN  Printf(InputLine(i, v)) /\ read' = Append(read, v)
  /\ i' = i + 1 /\ UNCHANGED <<wireVars, at>>

InputsDone ==
  /\ At("inputs") /\ i >= WirePeek(WireBase)
  /\ at' = "outputs" /\ i' = 0 /\ UNCHANGED <<wireVars, queue, read>>

PrintOutput ==
  /\ At("outputs") /\ i < WirePeek(WireBase + 4)
  /\ Printf(OutputLine(i)) /\ at' = "set"
  /\ UNCHANGED <<wireVars, i, read>>

SetOutput ==
  /\ At("set") /\ WirePoke(WireOutputAddress(i), 10 + i)
  /\ at' = "outputs" /\ i' = i + 1 /\ UNCHANGED <<queue, read>>

(* for(;;); *)
OutputsDone ==
  /\ At("outputs") /\ i >= WirePeek(WireBase + 4)
  /\ at' = "halt" /\ UNCHANGED <<wireVars, i, queue, read>>

Main ==
  \/ Putc \/ PrintHeader \/ PrintInput \/ InputsDone
  \/ PrintOutput \/ SetOutput \/ OutputsDone

--------------------------------------------------------------------------------
(* The host.  Bus::Reset resets the two devices and the hart, which starts *)
(* the program again; the histories start again with it.                   *)

BusReset ==
  /\ UartReset /\ WireReset
  /\ at' = "header" /\ i' = 0 /\ queue' = <<>>
  /\ read' = <<>> /\ printed' = <<>>

PowerOff == poweredOn /\ poweredOn' = FALSE /\ UNCHANGED <<uartVars, wireVars, mainVars>>
PowerOn  == ~poweredOn /\ poweredOn' = TRUE /\ BusReset
Reset    == BusReset /\ UNCHANGED poweredOn

Wires == SetInput /\ UNCHANGED <<uartVars, poweredOn, mainVars>>

ConsoleNext == Main \/ PowerOff \/ PowerOn \/ Reset \/ Wires

(* The entity's Think keeps cycling a machine that is on.                  *)
ConsoleSpec == ConsoleInit /\ [][ConsoleNext]_consoleVars /\ WF_consoleVars(Main)

--------------------------------------------------------------------------------
(* Properties. *)

ConsoleTypeOK ==
  /\ UartTypeOK /\ WireTypeOK /\ poweredOn \in BOOLEAN
  /\ at \in {"header", "inputs", "outputs", "set", "halt"}
  /\ i \in 0 .. NrInputs /\ Len(read) <= NrInputs

(* The program's lines as a reader should find them: the header, a line    *)
(* for each input read so far, and then one for each output.               *)
Line(k) ==
  CASE k = 1                   -> <<TitleText, NrInputs, InputsText, NrOutputs, OutputsText>>
    [] k \in 2 .. NrInputs + 1 -> <<WireInputText, k - 2, ValueText, read[k - 1]>>
    [] OTHER                   -> <<SettingText, k - NrInputs - 2>>

NrLines == 1 + Len(read) + (IF Len(read) = NrInputs THEN NrOutputs ELSE 0)

(* The console has a line in pieces of the limit, with a character lost    *)
(* between two of them.  A line within the limit comes whole.              *)
PiecesOf(length) == (length \div (LineLimit + 1)) + 1

Piece(line, j) ==
  LET start == (j - 1) * (LineLimit + 1)
  IN  SubSeq(line, start + 1, IF start + LineLimit < Len(line) THEN start + LineLimit ELSE Len(line))

(* How many lines of the console come before the program's k-th.           *)
Before(k) ==
  IF k = 1 THEN 0
  ELSE PiecesOf(5) + (IF k - 1 <= NrInputs THEN (k - 2) * PiecesOf(4)
                      ELSE NrInputs * PiecesOf(4) + (k - NrInputs - 2) * PiecesOf(2))

(* The console has the lines of the program as it ran since the restart:   *)
(* none missing, none twice, no text of an earlier life in them, with the  *)
(* values that were read, and all of them once the program is through      *)
(* (uart.lua:13-32, main.c:26-135).                                        *)
Transcript ==
  /\ \A k \in 1 .. NrLines : \A j \in 1 .. PiecesOf(Len(Line(k))) :
       Before(k) + j <= Len(printed) => printed[Before(k) + j] = Piece(Line(k), j)
  /\ Len(printed) <= Before(NrLines + 1)
  /\ at = "halt" => Len(printed) = Before(NrLines + 1)

(* An output is at its reset value or at the value of its own number, and  *)
(* at the latter for all of them when the program is through: the header,  *)
(* the inputs and the outputs do not overlap (wire_interface.lua:16-58,    *)
(* main.c:13-18).                                                          *)
OutputsWritten ==
  \A o \in 1 .. NrOutputs :
    outputs[o] \in {0, 9 + o} /\ (at = "halt" => outputs[o] = 9 + o)

(* No output changes before the console has said so: the two devices see   *)
(* the accesses of the program in its order, also across restarts          *)
(* (main.c:132-135).                                                       *)
OutputsAnnounced ==
  \A o \in 1 .. NrOutputs : outputs[o] # 0 =>
    \E k \in DOMAIN printed : printed[k] = Piece(<<SettingText, o - 1>>, 1)

(* A machine that is neither switched off nor restarted for ever again     *)
(* gets through the program (main.c:126-139).                              *)
GetsThrough == <>[](at = "halt") \/ []<>~poweredOn \/ []<>(at = "header")
================================================================================
