------------------------------ MODULE ConsoleProofs ----------------------------
(***************************************************************************)
(* What the console shows of the test program and what its outputs get,    *)
(* for any number of inputs and of outputs up to it and any length of a    *)
(* line of the UART, whatever the wires and the host do.                   *)
(***************************************************************************)
EXTENDS Console, SequenceTheorems, TLAPS

(* How far the loop over the outputs has come: nothing before it, all of   *)
(* them after it, and up to its counter in between.                        *)
Done(o) ==
  CASE at \in {"header", "inputs"} -> FALSE
    [] at \in {"outputs", "set"}   -> o <= i
    [] OTHER                       -> TRUE

OutInv ==
  /\ i \in Nat
  /\ at \in {"header", "inputs", "outputs", "set", "halt"}
  /\ at \in {"outputs", "set"} => i <= NrOutputs
  /\ at = "set" => i < NrOutputs
  /\ outputs = [o \in 1 .. NrOutputs |-> IF Done(o) THEN 9 + o ELSE 0]

USE ConsoleAssumption, WireAssumption

(* The header answers the two numbers. *)
LEMMA Header == WirePeek(WireBase) = NrInputs /\ WirePeek(WireBase + 4) = NrOutputs
BY DEF WirePeek, AddressToIndex

(* What WIRE_OUTPUT(i) addresses is output i + 1 of the device.            *)
LEMMA OutputAddress ==
  ASSUME NEW n \in Nat
  PROVE  /\ WireOutputAddress(n) \notin {WireBase, WireBase + 4}
         /\ AddressToIndex(WireOutputAddress(n)) - NrInputs = n + 1
<1>1. WireOutputAddress(n) = WireBase + 8 + 4 * NrInputs + 4 * n
  BY Header DEF WireOutputAddress
<1>2. WireOutputAddress(n) - WireBase = 4 * (NrInputs + n + 2)
  BY <1>1
<1>3. AddressToIndex(WireOutputAddress(n)) = NrInputs + n + 1
  BY <1>2 DEF AddressToIndex
<1> QED
  BY <1>1, <1>3

LEMMA OutInit == ConsoleInit => OutInv
BY DEF ConsoleInit, MainInit, WireInit, OutInv, Done

LEMMA OutStep == OutInv /\ [ConsoleNext]_consoleVars => OutInv'
<1> SUFFICES ASSUME OutInv, [ConsoleNext]_consoleVars PROVE OutInv'
  OBVIOUS
<1> USE DEF OutInv
<1>1. ASSUME UNCHANGED <<outputs, at, i>> PROVE OutInv'
  BY <1>1 DEF Done
<1>2. ASSUME BusReset PROVE OutInv'
  BY <1>2 DEF BusReset, WireReset, Done
<1>3. ASSUME SetOutput PROVE OutInv'
  <2>1. at = "set" /\ i < NrOutputs /\ at' = "outputs" /\ i' = i + 1
    BY <1>3 DEF SetOutput, At
  <2>2. outputs' = [o \in 1 .. NrOutputs |-> IF o = i + 1 THEN 10 + i ELSE outputs[o]]
    <3> DEFINE a == WireOutputAddress(i)
               n == AddressToIndex(a) - NrInputs
    <3>1. WirePoke(a, 10 + i)
      BY <1>3 DEF SetOutput
    <3>2. a \notin {WireBase, WireBase + 4} /\ n = i + 1
      BY OutputAddress
    <3>3. ~(n > NrInputs)
      BY <2>1, <3>2
    <3>4. TriggerOutput(n, 10 + i)
      BY <3>1, <3>2, <3>3 DEF WirePoke
    <3> QED
      BY <3>2, <3>4 DEF TriggerOutput
  <2>3. \A o \in 1 .. NrOutputs : outputs'[o] = IF o <= i + 1 THEN 9 + o ELSE 0
    BY <2>1, <2>2 DEF Done
  <2>4. outputs' = [o \in 1 .. NrOutputs |-> IF Done(o)' THEN 9 + o ELSE 0]
    BY <2>1, <2>2, <2>3 DEF Done
  <2> QED
    BY <2>1, <2>4
<1>4. ASSUME PrintHeader PROVE OutInv'
  BY <1>4 DEF PrintHeader, At, wireVars, Done
<1>5. ASSUME PrintInput PROVE OutInv'
  BY <1>5 DEF PrintInput, At, wireVars, Done
<1>6. ASSUME InputsDone PROVE OutInv'
  BY <1>6 DEF InputsDone, At, wireVars, Done
<1>7. ASSUME PrintOutput PROVE OutInv'
  BY <1>7, Header DEF PrintOutput, At, wireVars, Done
<1>8. ASSUME OutputsDone PROVE OutInv'
  BY <1>8, Header DEF OutputsDone, At, wireVars, Done
<1>9. ASSUME Putc PROVE OutInv'
  BY <1>1, <1>9 DEF Putc, wireVars
<1>10. ASSUME PowerOff \/ Wires PROVE OutInv'
  BY <1>1, <1>10 DEF PowerOff, Wires, SetInput, wireVars, mainVars
<1>11. ASSUME UNCHANGED consoleVars PROVE OutInv'
  BY <1>1, <1>11 DEF consoleVars, wireVars, mainVars
<1> QED
  BY <1>2, <1>3, <1>4, <1>5, <1>6, <1>7, <1>8, <1>9, <1>10, <1>11
     DEF ConsoleNext, Main, PowerOn, Reset

(* Every output is 0 or has the value of its own number, and all of them   *)
(* have it when the program is through (main.c:132-135 on                  *)
(* wire_interface.lua:50-57).                                              *)
THEOREM OutputsAreWritten == ConsoleSpec => []OutputsWritten
<1>1. OutInv => OutputsWritten
  BY DEF OutInv, OutputsWritten, Done
<1> QED
  BY <1>1, OutInit, OutStep, PTL DEF ConsoleSpec

--------------------------------------------------------------------------------
(* The console.  A word, a number and a value of a wire are characters     *)
(* that the UART keeps.                                                    *)

Character ==
  {TitleText, InputsText, OutputsText, WireInputText, ValueText, SettingText}
    \cup WireValues \cup 0 .. NrInputs

(* The types of the state, and how much has been read at each place.       *)
Shape ==
  /\ inputs \in [1 .. NrInputs -> WireValues] /\ poweredOn \in BOOLEAN
  /\ buffer \in Seq(Character) /\ printed \in Seq(Seq(Character))
  /\ queue \in Seq(Character \cup {NUL, NewLine}) /\ read \in Seq(WireValues)
  /\ i <= NrInputs /\ (at = "header" => i = 0)
  /\ Len(read) = (CASE at = "header" -> 0 [] at = "inputs" -> i [] OTHER -> NrInputs)
  /\ at \in {"header", "outputs", "halt"} => queue = <<>>

(* What the program sends for its k-th line. *)
Sent(k) ==
  CASE k = 1                   -> HeaderLine(NrInputs, NrOutputs)
    [] k \in 2 .. NrInputs + 1 -> InputLine(k - 2, read[k - 1])
    [] OTHER                   -> OutputLine(k - NrInputs - 2)

(* How much of a line shows once q characters of it are sent: the third    *)
(* and the sixth are NUL.                                                  *)
Visible(q) == q - (IF q >= 3 THEN 1 ELSE 0) - (IF q >= 6 THEN 1 ELSE 0)

(* How many lines the program has begun to send. *)
Said ==
  CASE at = "header"  -> 0
    [] at = "inputs"  -> 1 + i
    [] at = "outputs" -> 1 + NrInputs + i
    [] at = "set"     -> 2 + NrInputs + i
    [] OTHER          -> 1 + NrInputs + NrOutputs

(* The last of them is under way while there is something in the queue.    *)
(* The console then has p pieces of it and the buffer has the next one as  *)
(* far as it was sent.                                                     *)
Underway(p) ==
  LET q == Len(Sent(Said)) - Len(queue)
  IN  /\ Said >= 1 /\ q >= 0
      /\ \A j \in 1 .. Len(queue) : queue[j] = Sent(Said)[q + j]
      /\ Visible(q) \in p * (LineLimit + 1) .. p * (LineLimit + 1) + LineLimit
      /\ buffer = SubSeq(Line(Said), p * (LineLimit + 1) + 1, Visible(q))
      /\ Len(printed) = Before(Said) + p

AllShown == buffer = <<>> /\ Len(printed) = Before(Said + 1)

SentInv == IF queue = <<>> THEN AllShown ELSE \E p \in Nat : Underway(p)

(* What is on the console is right. *)
Faithful ==
  \A k \in 1 .. Said : \A j \in 1 .. PiecesOf(Len(Line(k))) :
    Before(k) + j <= Len(printed) => printed[Before(k) + j] = Piece(Line(k), j)

ConsoleInv == OutInv /\ Shape /\ UartTypeOK /\ SentInv /\ Faithful

USE UartAssumption

LEMMA CharactersShow ==
  /\ \A c \in Character : c # NUL /\ c # NewLine
  /\ 0 .. NrInputs \subseteq Character /\ WireValues \subseteq Character
  /\ {TitleText, InputsText, OutputsText, WireInputText, ValueText, SettingText} \subseteq Character
BY DEF Character

(* Each character of a line is its next visible one, a NUL, or its end.    *)
LEMMA CharacterSent ==
  ASSUME NEW k \in Nat \ {0}, k \in 2 .. NrInputs + 1 => read[k - 1] \in WireValues,
         k <= 1 + NrInputs + NrOutputs,
         NEW q \in Nat, q < Len(Sent(k))
  PROVE  /\ Len(Line(k)) \in Nat /\ Visible(q) \in 0 .. Len(Line(k))
         /\ LET c == Sent(k)[q + 1]
            IN  \/ c = NUL /\ q + 1 < Len(Sent(k)) /\ Visible(q + 1) = Visible(q)
                \/ c = NewLine /\ q + 1 = Len(Sent(k)) /\ Visible(q) = Len(Line(k))
                \/ /\ c \in Character /\ q + 1 < Len(Sent(k)) /\ Visible(q + 1) = Visible(q) + 1
                   /\ Visible(q) < Len(Line(k)) /\ c = Line(k)[Visible(q) + 1]
<1>1. CASE k = 1
  <2>1. /\ Sent(k) = HeaderLine(NrInputs, NrOutputs) /\ Len(Sent(k)) = 8
        /\ Line(k) = <<TitleText, NrInputs, InputsText, NrOutputs, OutputsText>> /\ Len(Line(k)) = 5
    BY <1>1 DEF Sent, HeaderLine, Line
  <2>2. q \in {0, 1, 2, 3, 4, 5, 6, 7}
    <3>1. q < 8
      BY <2>1
    <3> QED
      BY <3>1
  <2>3. NrInputs \in Character /\ NrOutputs \in Character
    BY CharactersShow
  <2> QED
    BY <2>1, <2>2, <2>3, CharactersShow DEF HeaderLine, Visible
<1>2. CASE k \in 2 .. NrInputs + 1
  <2>1. /\ Sent(k) = InputLine(k - 2, read[k - 1]) /\ Len(Sent(k)) = 7
        /\ Line(k) = <<WireInputText, k - 2, ValueText, read[k - 1]>> /\ Len(Line(k)) = 4
    BY <1>2 DEF Sent, InputLine, Line
  <2>2. q \in {0, 1, 2, 3, 4, 5, 6}
    <3>1. q < 7
      BY <2>1
    <3> QED
      BY <3>1
  <2>3. k - 2 \in Character /\ read[k - 1] \in Character
    BY <1>2, CharactersShow
  <2> QED
    BY <2>1, <2>2, <2>3, CharactersShow DEF InputLine, Visible
<1>3. CASE k > NrInputs + 1
  <2>1. /\ Sent(k) = OutputLine(k - NrInputs - 2) /\ Len(Sent(k)) = 4
        /\ Line(k) = <<SettingText, k - NrInputs - 2>> /\ Len(Line(k)) = 2
    BY <1>3 DEF Sent, OutputLine, Line
  <2>2. q \in {0, 1, 2, 3}
    <3>1. q < 4
      BY <2>1
    <3> QED
      BY <3>1
  <2>3. k - NrInputs - 2 \in Character
    BY <1>3, CharactersShow
  <2> QED
    BY <2>1, <2>2, <2>3, CharactersShow DEF OutputLine, Visible
<1> QED
  BY <1>1, <1>2, <1>3

LEMMA LineLength ==
  ASSUME NEW k \in Nat \ {0}
  PROVE  Len(Line(k)) = IF k = 1 THEN 5 ELSE IF k <= NrInputs + 1 THEN 4 ELSE 2
BY DEF Line

LEMMA PiecesPositive == ASSUME NEW n \in Nat PROVE PiecesOf(n) \in Nat \ {0}
BY DEF PiecesOf

(* A character's piece is the quotient of its position and the limit. *)
LEMMA PiecesCounted ==
  ASSUME NEW p \in Nat, NEW n \in p * (LineLimit + 1) .. p * (LineLimit + 1) + LineLimit
  PROVE  PiecesOf(n) = p + 1
<1> DEFINE d == LineLimit + 1
           r == n - p * d
<1>1. d \in Nat \ {0} /\ p * d \in Nat /\ r \in 0 .. d - 1 /\ n = p * d + r
  OBVIOUS
<1>2. n \div d = p
  BY <1>1
<1> QED
  BY <1>2 DEF PiecesOf

LEMMA Monotonic ==
  ASSUME NEW a \in Nat, NEW b \in Nat, NEW c \in Nat, a <= b
  PROVE  a * c <= b * c
OBVIOUS

(* A line that goes on into its p-th piece has at least p + 1 of them.     *)
LEMMA PlaceInPieces ==
  ASSUME NEW p \in Nat, NEW n \in Nat, p * (LineLimit + 1) <= n
  PROVE  PiecesOf(n) > p
<1> DEFINE d == LineLimit + 1
           m == n \div d
<1>1. d \in Nat \ {0} /\ p * d \in Nat /\ m \in Nat
  OBVIOUS
<1>2. n < (m + 1) * d
  <2>1. n = m * d + (n % d) /\ n % d < d
    BY <1>1
  <2>2. (m + 1) * d = m * d + d
    BY <1>1
  <2> QED
    BY <1>1, <2>1, <2>2
<1>3. ~(m + 1 <= p)
  <2> SUFFICES ASSUME m + 1 <= p PROVE FALSE
    OBVIOUS
  <2>1. (m + 1) * d <= p * d
    BY <1>1, Monotonic
  <2>2. p * d <= n
    OBVIOUS
  <2> HIDE DEF m, d
  <2>3. (m + 1) * d \in Int
    BY <1>1
  <2> QED
    BY <1>1, <1>2, <2>1, <2>2, <2>3
<1>4. PiecesOf(n) = m + 1
  BY DEF PiecesOf
<1> HIDE DEF m, d
<1> QED
  BY <1>1, <1>3, <1>4

(* The number of console lines before a line of each kind. *)
LEMMA BeforeIs ==
  ASSUME NEW k \in Nat \ {0}
  PROVE  /\ PiecesOf(5) \in Nat /\ PiecesOf(4) \in Nat /\ PiecesOf(2) \in Nat
         /\ k = 1 => Before(k) = 0
         /\ k \in 2 .. NrInputs + 1 => Before(k) = PiecesOf(5) + (k - 2) * PiecesOf(4)
         /\ k > NrInputs + 1 =>
              Before(k) = PiecesOf(5) + NrInputs * PiecesOf(4) + (k - NrInputs - 2) * PiecesOf(2)
<1>1. PiecesOf(5) \in Nat /\ PiecesOf(4) \in Nat /\ PiecesOf(2) \in Nat
  BY PiecesPositive
<1> QED
  BY <1>1 DEF Before

LEMMA Product == ASSUME NEW n \in Int, NEW c \in Nat PROVE (n + 1) * c = n * c + c
OBVIOUS

LEMMA BeforeNext ==
  ASSUME NEW k \in Nat \ {0}
  PROVE  Before(k) \in Nat /\ Before(k + 1) = Before(k) + PiecesOf(Len(Line(k)))
<1> DEFINE a == PiecesOf(5)
           b == PiecesOf(4)
           c == PiecesOf(2)
           u == NrInputs * b
<1>1. a \in Nat /\ b \in Nat /\ c \in Nat /\ u \in Nat
  BY BeforeIs
<1>2. PiecesOf(Len(Line(k))) = IF k = 1 THEN a ELSE IF k <= NrInputs + 1 THEN b ELSE c
  BY LineLength
<1>3. CASE k = 1
  <2>1. Before(k) = 0 /\ NrInputs > 0 => Before(2) = a + 0 * b
    BY <1>3, BeforeIs
  <2>2. NrInputs = 0 => Before(2) = a + 0 * b + 0 * c
    BY BeforeIs
  <2> HIDE DEF a, b, c, u
  <2> QED
    BY <1>1, <1>2, <1>3, <2>1, <2>2, BeforeIs
<1>4. CASE k > 1 /\ k <= NrInputs
  <2> DEFINE v == (k - 2) * b
             w == (k - 1) * b
  <2>1. Before(k) = a + v /\ Before(k + 1) = a + w
    BY <1>4, BeforeIs
  <2>2. v \in Nat /\ w = v + b
    BY <1>1, <1>4, Product
  <2> HIDE DEF a, b, c, u, v, w
  <2> QED
    BY <1>1, <1>2, <1>4, <2>1, <2>2
<1>5. CASE k > 1 /\ k = NrInputs + 1
  <2> DEFINE v == (k - 2) * b
  <2>1. Before(k) = a + v /\ Before(k + 1) = a + u + 0 * c
    BY <1>5, BeforeIs
  <2>2. v \in Nat /\ u = v + b /\ 0 * c = 0
    BY <1>1, <1>5, Product
  <2> HIDE DEF a, b, c, u, v
  <2> QED
    BY <1>1, <1>2, <1>5, <2>1, <2>2
<1>6. CASE k > NrInputs + 1
  <2> DEFINE v == (k - NrInputs - 2) * c
             w == (k - NrInputs - 1) * c
  <2>1. Before(k) = a + u + v /\ Before(k + 1) = a + u + w
    BY <1>6, BeforeIs
  <2>2. v \in Nat /\ w = v + c
    BY <1>1, <1>6, Product
  <2> HIDE DEF a, b, c, u, v, w
  <2> QED
    BY <1>1, <1>2, <1>6, <2>1, <2>2
<1> QED
  BY <1>3, <1>4, <1>5, <1>6

(* The lines follow one another. *)
LEMMA BeforeGrows ==
  ASSUME NEW k \in Nat \ {0}, NEW l \in Nat, k < l
  PROVE  Before(k) + PiecesOf(Len(Line(k))) <= Before(l)
<1> DEFINE a == PiecesOf(5)
           b == PiecesOf(4)
           c == PiecesOf(2)
           u == NrInputs * b
<1>1. a \in Nat /\ b \in Nat /\ c \in Nat /\ u \in Nat
  BY BeforeIs
<1>2. k + 1 <= l => Before(k + 1) <= Before(l)
  <2>1. CASE l <= NrInputs + 1
    <3>1. (k - 1) * b <= (l - 2) * b
      BY <1>1, <2>1, Monotonic
    <3>2. Before(k + 1) = a + (k - 1) * b /\ Before(l) = a + (l - 2) * b
      BY <2>1, BeforeIs
    <3> QED
      BY <1>1, <2>1, <3>1, <3>2
  <2>2. CASE l > NrInputs + 1 /\ k <= NrInputs
    <3>1. (k - 1) * b <= u
      BY <1>1, <2>2, Monotonic
    <3>2. (l - NrInputs - 2) * c \in Nat
      BY <1>1, <2>2
    <3>3. Before(k + 1) = a + (k - 1) * b /\ Before(l) = a + u + (l - NrInputs - 2) * c
      BY <2>2, BeforeIs
    <3> QED
      BY <1>1, <2>2, <3>1, <3>2, <3>3
  <2>3. CASE k > NrInputs
    <3>1. (k - NrInputs - 1) * c <= (l - NrInputs - 2) * c
      BY <1>1, <2>3, Monotonic
    <3>2. Before(l) = a + u + (l - NrInputs - 2) * c
      BY <2>3, BeforeIs
    <3>3. Before(k + 1) = a + u + (k - NrInputs - 1) * c
      BY <2>3, BeforeIs
    <3> QED
      BY <1>1, <2>3, <3>1, <3>2, <3>3
  <2> QED
    BY <2>1, <2>2, <2>3
<1> QED
  BY <1>2, BeforeNext

--------------------------------------------------------------------------------
(* The steps. *)

LEMMA SaidInRange ==
  ASSUME OutInv, Shape PROVE Said \in 0 .. 1 + NrInputs + NrOutputs
<1>1. /\ i \in 0 .. NrInputs
      /\ at \in {"header", "inputs", "outputs", "set", "halt"}
      /\ at \in {"outputs", "set"} => i <= NrOutputs
      /\ at = "set" => i < NrOutputs
  BY DEF OutInv, Shape
<1> QED
  BY <1>1 DEF Said

(* The program goes on, or the host or a wire does something, and nothing  *)
(* is sent.                                                                *)
LEMMA NothingSent ==
  ASSUME ConsoleInv, OutInv', Shape', UNCHANGED <<uartVars, queue, read, Said>>
  PROVE  ConsoleInv'
<1>1. \A k : Line(k)' = Line(k) /\ Sent(k)' = Sent(k)
  BY DEF Line, Sent
<1>2. UartTypeOK'
  BY DEF ConsoleInv, UartTypeOK, uartVars
<1>3. SentInv'
  BY <1>1 DEF ConsoleInv, SentInv, AllShown, Underway, uartVars
<1>4. Faithful'
  BY <1>1 DEF ConsoleInv, Faithful, uartVars
<1> QED
  BY <1>2, <1>3, <1>4 DEF ConsoleInv

(* printf of the next line. *)
LEMMA LineBegins ==
  ASSUME ConsoleInv, OutInv', Shape', UNCHANGED uartVars, queue = <<>>,
         NEW l \in Nat, l = Said + 1, Said' = l, queue' = Sent(l)', queue' # <<>>,
         \A k \in 1 .. Said : Line(k)' = Line(k)
  PROVE  ConsoleInv'
<1>1. Said \in Nat /\ buffer = <<>> /\ Len(printed) = Before(l) /\ Before(l) \in Nat
  BY SaidInRange, BeforeNext DEF ConsoleInv, SentInv, AllShown
<1>2. UartTypeOK'
  BY DEF ConsoleInv, UartTypeOK, uartVars
<1>3. Underway(0)'
  <2>1. Len(queue') \in Nat /\ Sent(Said)' = queue'
    BY DEF Shape
  <2>2. Visible(0) = 0 /\ SubSeq(Line(Said)', 1, 0) = <<>>
    BY SubSeqEmpty DEF Visible
  <2>3. Len(Sent(Said)') - Len(queue') = 0
    BY <2>1
  <2>4. 0 * (LineLimit + 1) = 0
    OBVIOUS
  <2>5. Before(Said)' = Before(l)
    BY DEF Before, PiecesOf
  <2> QED
    BY <1>1, <2>1, <2>2, <2>3, <2>4, <2>5 DEF Underway, uartVars
<1>4. Faithful'
  <2> SUFFICES ASSUME NEW k \in 1 .. l, NEW j \in 1 .. PiecesOf(Len(Line(k)')),
                      Before(k) + j <= Len(printed)
               PROVE  printed[Before(k) + j] = Piece(Line(k)', j)
    BY DEF Faithful, Before, uartVars, PiecesOf, Piece
  <2>1. k # l
    BY <1>1
  <2> QED
    BY <1>1, <2>1 DEF ConsoleInv, Faithful
<1> QED
  BY <1>2, <1>3, <1>4 DEF ConsoleInv, SentInv

LEMMA SubSeqAppend ==
  ASSUME NEW S, NEW s \in Seq(S), NEW m \in Nat \ {0}, NEW n \in m - 1 .. Len(s) - 1
  PROVE  SubSeq(s, m, n + 1) = Append(SubSeq(s, m, n), s[n + 1])
<1> DEFINE t == SubSeq(s, m, n)
           u == SubSeq(s, m, n + 1)
<1>1. /\ t \in Seq(S) /\ Len(t) = n - m + 1 /\ \A j \in 1 .. n - m + 1 : t[j] = s[m + j - 1]
      /\ u \in Seq(S) /\ Len(u) = n - m + 2 /\ \A j \in 1 .. n - m + 2 : u[j] = s[m + j - 1]
  BY SubSeqProperties
<1>2. s[n + 1] \in S
  OBVIOUS
<1> DEFINE w == Append(t, s[n + 1])
<1>3. /\ w \in Seq(S) /\ Len(w) = Len(t) + 1
      /\ \A j \in 1 .. Len(t) : w[j] = t[j]
      /\ w[Len(t) + 1] = s[n + 1]
  BY <1>1, <1>2, AppendProperties
<1>4. u = w
  <2> HIDE DEF t, u, w
  <2>1. Len(u) = Len(w) /\ Len(t) = n - m + 1
    BY <1>1, <1>3
  <2>2. ASSUME NEW j \in 1 .. Len(u) PROVE u[j] = w[j]
    <3>1. CASE j = n - m + 2
      BY <1>1, <1>3, <2>1, <3>1
    <3>2. CASE j \in 1 .. n - m + 1
      BY <1>1, <1>3, <2>1, <3>2
    <3> QED
      BY <1>1, <2>2, <3>1, <3>2
  <2> QED
    BY <1>1, <1>3, <2>1, <2>2, SeqEqual
<1> QED
  BY <1>4

LEMMA LineSpace ==
  ASSUME NEW k \in Nat \ {0}
  PROVE  /\ Before(k) \in Nat /\ PiecesOf(Len(Line(k))) \in Nat
         /\ Before(k + 1) = Before(k) + PiecesOf(Len(Line(k)))
<1>1. Len(Line(k)) \in Nat
  BY LineLength
<1> QED
  BY <1>1, BeforeNext, PiecesPositive

(* The console line a piece belongs in tells which piece it is.            *)
LEMMA PlaceOfPiece ==
  ASSUME NEW k \in Nat \ {0}, NEW p \in Nat,
         NEW l \in 1 .. k, NEW j \in 1 .. PiecesOf(Len(Line(l))),
         Before(l) + j <= Before(k) + p + 1
  PROVE  \/ Before(l) + j \in 1 .. Before(k) + p
         \/ l = k /\ j = p + 1
<1>1. l \in Nat \ {0}
  OBVIOUS
<1>2. Before(l) \in Nat /\ PiecesOf(Len(Line(l))) \in Nat
  BY <1>1, LineSpace
<1>3. Before(k) \in Nat
  BY LineSpace
<1>4. l < k => Before(l) + PiecesOf(Len(Line(l))) <= Before(k)
  BY <1>1, BeforeGrows
<1>5. j \in Nat \ {0} /\ j <= PiecesOf(Len(Line(l)))
  BY <1>2
<1>6. CASE l < k
  BY <1>2, <1>3, <1>4, <1>5, <1>6
<1>7. CASE l = k
  BY <1>3, <1>5, <1>7
<1> QED
  BY <1>1, <1>6, <1>7

(* The next piece of the line under way gets to the console. *)
LEMMA PieceShown ==
  ASSUME ConsoleInv, UNCHANGED <<at, i, read>>, NEW k \in Nat \ {0}, Said = k, NEW p \in Nat,
         Len(printed) = Before(k) + p,
         NEW e, e = Piece(Line(k), p + 1), printed' = Append(printed, e)
  PROVE  Faithful'
<1>1. Said' = k /\ \A l : Line(l)' = Line(l)
  BY DEF Said, Line
<1>2. printed \in Seq(Seq(Character)) /\ Before(k) \in Nat
  BY BeforeNext DEF ConsoleInv, Shape
<1>3. /\ Len(printed') = Before(k) + p + 1 /\ printed'[Before(k) + p + 1] = e
      /\ \A n \in 1 .. Before(k) + p : printed'[n] = printed[n]
  BY <1>2
<1>4. ASSUME NEW l \in 1 .. k, NEW j \in 1 .. PiecesOf(Len(Line(l))),
             Before(l) + j <= Before(k) + p + 1
      PROVE  printed'[Before(l) + j] = Piece(Line(l), j)
  <2>1. CASE Before(l) + j \in 1 .. Before(k) + p
    <3>1. printed[Before(l) + j] = Piece(Line(l), j)
      BY <2>1 DEF ConsoleInv, Faithful
    <3> QED
      BY <1>3, <2>1, <3>1
  <2>2. CASE l = k /\ j = p + 1
    BY <1>2, <1>3, <2>2
  <2>3. \/ Before(l) + j \in 1 .. Before(k) + p
        \/ l = k /\ j = p + 1
    BY <1>4, PlaceOfPiece
  <2> QED
    BY <2>1, <2>2, <2>3
<1>5. \A l \in 1 .. k : \A j \in 1 .. PiecesOf(Len(Line(l))) :
        Before(l) + j <= Len(printed') => printed'[Before(l) + j] = Piece(Line(l), j)
  BY <1>3, <1>4
<1> HIDE DEF ConsoleInv
<1> QED
  BY <1>1, <1>5 DEF Faithful, PiecesOf, Piece, Before

LEMMA NothingShown == ASSUME Faithful, UNCHANGED <<printed, at, i, read>> PROVE Faithful'
<1>1. Said' = Said /\ \A k : Line(k)' = Line(k)
  BY DEF Said, Line
<1> QED
  BY <1>1 DEF Faithful

LEMMA LineTyped ==
  ASSUME Shape, NEW k \in Nat \ {0}, k \in 2 .. NrInputs + 1 => read[k - 1] \in WireValues,
         k <= 1 + NrInputs + NrOutputs
  PROVE  Line(k) \in Seq(Character)
<1>1. CASE k = 1
  BY <1>1, CharactersShow DEF Line
<1>2. CASE k \in 2 .. NrInputs + 1
  <2>1. k - 2 \in Character /\ read[k - 1] \in Character
    BY <1>2, CharactersShow
  <2> QED
    BY <1>2, <2>1, CharactersShow DEF Line
<1>3. CASE k > NrInputs + 1
  <2>1. k - NrInputs - 2 \in Character
    BY <1>3, CharactersShow
  <2> QED
    BY <1>3, <2>1, CharactersShow DEF Line
<1> QED
  BY <1>1, <1>2, <1>3

(* The line under way has been read as far as it has to be. *)
LEMMA SaidIsRead ==
  ASSUME OutInv, Shape, queue # <<>>, Said \in 2 .. NrInputs + 1
  PROVE  read[Said - 1] \in WireValues
<1>1. /\ i \in 0 .. NrInputs /\ read \in Seq(WireValues)
      /\ at \in {"inputs", "set"}
  BY DEF OutInv, Shape
<1>2. CASE at = "inputs"
  BY <1>1, <1>2 DEF Said, Shape
<1>3. CASE at = "set"
  BY <1>1, <1>3 DEF Said, Shape
<1> QED
  BY <1>1, <1>2, <1>3

(* The UART by itself. *)
LEMMA UartKeeps ==
  ASSUME UartTypeOK, buffer \in Seq(Character), printed \in Seq(Seq(Character)),
         NEW a, NEW c \in Character \cup {NUL, NewLine}, UartPoke(a, c)
  PROVE  UartTypeOK' /\ buffer' \in Seq(Character) /\ printed' \in Seq(Seq(Character))
<1>1. CASE UNCHANGED uartVars
  BY <1>1 DEF uartVars, UartTypeOK
<1>2. CASE PrintLine
  <2>1. buffer' = <<>> /\ printed' = Append(printed, buffer)
    BY <1>2 DEF PrintLine, UartReset
  <2>2. /\ DOMAIN printed = 1 .. Len(printed) /\ DOMAIN printed' = 1 .. Len(printed) + 1
        /\ \A n \in 1 .. Len(printed) : printed'[n] = printed[n]
        /\ printed'[Len(printed) + 1] = buffer
    BY <2>1
  <2>3. \A n \in DOMAIN printed' : printed'[n] = buffer \/ \E m \in DOMAIN printed : printed'[n] = printed[m]
    BY <2>2
  <2>4. Len(<<>>) <= LineLimit /\ DOMAIN <<>> = {}
    OBVIOUS
  <2>5. UartTypeOK'
    BY <2>1, <2>3, <2>4 DEF UartTypeOK
  <2> QED
    BY <2>1, <2>5
<1>3. CASE /\ c # NUL /\ ~LineEnds(c)
           /\ buffer' = Append(buffer, c) /\ UNCHANGED printed
  <2>1. c \in Character /\ c # NewLine /\ ~(Len(buffer) >= LineLimit)
    BY <1>3 DEF LineEnds
  <2>2. /\ buffer' \in Seq(Character) /\ Len(buffer') = Len(buffer) + 1 /\ Len(buffer') <= LineLimit
        /\ \A n \in DOMAIN buffer' : buffer'[n] = c \/ (n \in DOMAIN buffer /\ buffer'[n] = buffer[n])
    <3>1. /\ buffer' \in Seq(Character) /\ Len(buffer') = Len(buffer) + 1
          /\ \A n \in 1 .. Len(buffer) : buffer'[n] = buffer[n]
          /\ buffer'[Len(buffer) + 1] = c
      BY <1>3, <2>1, AppendProperties
    <3>2. /\ Len(buffer) \in Nat /\ DOMAIN buffer = 1 .. Len(buffer)
          /\ DOMAIN buffer' = 1 .. Len(buffer) + 1
      BY <3>1
    <3>3. ASSUME NEW n \in 1 .. Len(buffer) + 1
          PROVE  buffer'[n] = c \/ (n \in 1 .. Len(buffer) /\ buffer'[n] = buffer[n])
      <4>1. CASE n = Len(buffer) + 1
        BY <3>1, <4>1
      <4>2. CASE n \in 1 .. Len(buffer)
        BY <3>1, <4>2
      <4> QED
        BY <3>2, <4>1, <4>2
    <3>4. Len(buffer') <= LineLimit
      BY <2>1, <3>1, <3>2
    <3> QED
      BY <3>1, <3>2, <3>3, <3>4
  <2>3. UartTypeOK'
    BY <1>3, <2>1, <2>2 DEF UartTypeOK
  <2> QED
    BY <1>3, <2>2, <2>3
<1> QED
  BY <1>1, <1>2, <1>3 DEF UartPoke, Ignored

LEMMA SentLength == ASSUME NEW k \in Nat \ {0} PROVE Len(Sent(k)) \in Nat
BY DEF Sent, HeaderLine, InputLine, OutputLine

(* A character that begins, continues or ends a piece, or does nothing.    *)
LEMMA PutcKeeps == ASSUME ConsoleInv, Putc PROVE ConsoleInv'
<1> DEFINE d == LineLimit + 1
           c == Head(queue)
<1>1. /\ queue # <<>> /\ UartPoke(UartBase, c) /\ queue' = Tail(queue)
      /\ UNCHANGED <<inputs, outputs, poweredOn, at, i, read>>
  BY DEF Putc, wireVars
<1>2. OutInv /\ Shape /\ UartTypeOK /\ SentInv /\ Faithful
  BY DEF ConsoleInv
<1>3. OutInv'
  BY <1>2, OutStep DEF Putc, ConsoleNext, Main
<1> DEFINE k == Said
           q == Len(Sent(k)) - Len(queue)
<1>4. PICK p \in Nat : Underway(p)
  BY <1>1, <1>2 DEF SentInv
<1>5. k \in Nat \ {0} /\ k <= 1 + NrInputs + NrOutputs
  BY <1>2, <1>4, SaidInRange DEF Underway
<1>6. k \in 2 .. NrInputs + 1 => read[k - 1] \in WireValues
  BY <1>1, <1>2, SaidIsRead
<1>7. Line(k) \in Seq(Character)
  BY <1>2, <1>5, <1>6, LineTyped
<1>8. k' = k /\ Line(k)' = Line(k) /\ Sent(k)' = Sent(k) /\ Before(k)' = Before(k)
  BY <1>1 DEF Said, Line, Sent, Before, PiecesOf
<1>9. /\ queue \in Seq(Character \cup {NUL, NewLine}) /\ Len(queue) \in Nat \ {0}
      /\ queue' \in Seq(Character \cup {NUL, NewLine}) /\ Len(queue') = Len(queue) - 1
      /\ c \in Character \cup {NUL, NewLine} /\ c = queue[1]
      /\ \A j \in 1 .. Len(queue') : queue'[j] = queue[j + 1]
  BY <1>1, <1>2 DEF Shape
<1>10. q \in Nat /\ q < Len(Sent(k)) /\ c = Sent(k)[q + 1] /\ Len(Sent(k)) \in Nat
  <2>1. Len(Sent(k)) \in Nat
    BY <1>5, SentLength
  <2>2. q >= 0 /\ \A j \in 1 .. Len(queue) : queue[j] = Sent(k)[q + j]
    BY <1>4 DEF Underway
  <2>3. queue[1] = Sent(k)[q + 1]
    BY <1>9, <2>2
  <2> QED
    BY <1>9, <2>1, <2>2, <2>3
<1>11. /\ Len(Sent(k)) - Len(queue') = q + 1
       /\ \A j \in 1 .. Len(queue') : queue'[j] = Sent(k)[(q + 1) + j]
  <2> SUFFICES ASSUME NEW j \in 1 .. Len(queue') PROVE queue'[j] = Sent(k)[(q + 1) + j]
    BY <1>9, <1>10
  <2>1. j + 1 \in 1 .. Len(queue) /\ queue'[j] = queue[j + 1] /\ q + (j + 1) = (q + 1) + j
    BY <1>9, <1>10
  <2>2. queue[j + 1] = Sent(k)[q + (j + 1)]
    BY <1>4, <2>1 DEF Underway
  <2> QED
    BY <2>1, <2>2
<1> DEFINE n == Visible(q)
<1>12. /\ Len(Line(k)) \in Nat /\ n \in 0 .. Len(Line(k))
       /\ \/ c = NUL /\ q + 1 < Len(Sent(k)) /\ Visible(q + 1) = n
          \/ c = NewLine /\ q + 1 = Len(Sent(k)) /\ n = Len(Line(k))
          \/ /\ c \in Character /\ q + 1 < Len(Sent(k)) /\ Visible(q + 1) = n + 1
             /\ n < Len(Line(k)) /\ c = Line(k)[n + 1]
  BY <1>5, <1>6, <1>10, CharacterSent
<1>13. /\ n \in p * d .. p * d + LineLimit /\ p * d \in Nat /\ (p + 1) * d = p * d + d
       /\ buffer = SubSeq(Line(k), p * d + 1, n) /\ Len(printed) = Before(k) + p /\ Before(k) \in Nat
  BY <1>4, <1>5, BeforeNext DEF Underway
<1> HIDE DEF k, q, n, c
<1>14. Len(buffer) = n - p * d
  <2> HIDE DEF d
  <2>1. p * d + 1 \in Int /\ n \in Int /\ p * d <= n
    BY <1>12, <1>13
  <2>2. \A m \in p * d + 1 .. n : Line(k)[m] \in Character
    BY <1>7, <1>12, <1>13
  <2>3. Len(buffer) = IF p * d + 1 <= n THEN n - (p * d + 1) + 1 ELSE 0
    BY <1>13, <2>1, <2>2, SubSeqProperties
  <2> QED
    BY <1>12, <1>13, <2>1, <2>3
(* While the line goes on: r of its pieces are on the console. *)
<1>15. ASSUME NEW r \in Nat, q + 1 < Len(Sent(k)), Visible(q + 1) \in r * d .. r * d + LineLimit,
              buffer' = SubSeq(Line(k), r * d + 1, Visible(q + 1)), Len(printed') = Before(k) + r
       PROVE  SentInv'
  <2> DEFINE t == Len(Sent(Said)) - Len(queue)
  <2>1. /\ Said' = k /\ k >= 1 /\ Sent(Said)' = Sent(k) /\ Line(Said)' = Line(k)
        /\ Before(Said)' = Before(k)
    BY <1>5, <1>8 DEF k
  <2>2. t' = q + 1
    BY <1>11, <2>1
  <2>3. /\ t' >= 0 /\ Visible(t)' = Visible(q + 1)
        /\ \A j \in 1 .. Len(queue') : queue'[j] = Sent(Said)'[t' + j]
    BY <1>10, <1>11, <2>1, <2>2 DEF Visible
  <2>4. Underway(r)'
    BY <1>15, <2>1, <2>3 DEF Underway
  <2>5. queue' # <<>>
    BY <1>9, <1>10, <1>11, <1>15
  <2> QED
    BY <2>4, <2>5 DEF SentInv
<1>16. Shape' /\ UartTypeOK'
  <2>1. buffer \in Seq(Character) /\ printed \in Seq(Seq(Character))
    BY <1>2 DEF Shape
  <2>2. UartTypeOK' /\ buffer' \in Seq(Character) /\ printed' \in Seq(Seq(Character))
    BY <1>1, <1>2, <1>9, <2>1, UartKeeps
  <2>3. at \notin {"header", "outputs", "halt"}
    BY <1>1, <1>2 DEF Shape
  <2> QED
    BY <1>1, <1>2, <1>9, <2>2, <2>3 DEF Shape
<1>17. SentInv' /\ Faithful' => ConsoleInv'
  BY <1>3, <1>16 DEF ConsoleInv
<1> HIDE DEF d
<1>18. CASE c = NUL
  <2>1. UNCHANGED uartVars
    BY <1>1, <1>18 DEF UartPoke, Ignored
  <2>2. q + 1 < Len(Sent(k)) /\ Visible(q + 1) = n
    BY <1>12, <1>18, CharactersShow
  <2>3. SentInv'
    BY <1>13, <1>15, <2>1, <2>2 DEF uartVars
  <2>4. Faithful'
    BY <1>1, <1>2, <2>1, NothingShown DEF uartVars
  <2> QED
    BY <1>17, <2>3, <2>4
<1>19. CASE c = NewLine
  <2>1. buffer' = <<>> /\ printed' = Append(printed, buffer)
    BY <1>1, <1>19 DEF UartPoke, Ignored, LineEnds, PrintLine, UartReset
  <2>2. q + 1 = Len(Sent(k)) /\ n = Len(Line(k))
    BY <1>12, <1>19, CharactersShow
  <2>3. buffer = Piece(Line(k), p + 1)
    <3>1. (p + 1) - 1 = p /\ ~(p * d + LineLimit < Len(Line(k)))
      BY <1>12, <1>13, <2>2
    <3> QED
      BY <1>13, <2>2, <3>1 DEF Piece, d
  <2>4. Faithful'
    BY <1>1, <1>5, <1>13, <2>1, <2>3, PieceShown DEF k
  <2>5. queue' = <<>>
    BY <1>9, <1>10, <1>11, <2>2
  <2>6. PiecesOf(Len(Line(k))) = p + 1
    BY <1>13, <2>2, PiecesCounted DEF d
  <2>7. Len(printed') = Before(k + 1)
    <3>1. Len(printed') = Len(printed) + 1
      BY <1>2, <2>1 DEF Shape
    <3> QED
      BY <1>5, <1>13, <2>6, <3>1, BeforeNext
  <2>8. Before(Said + 1)' = Before(k + 1)
    BY <1>8 DEF Before, PiecesOf, k
  <2>9. SentInv'
    BY <2>1, <2>5, <2>7, <2>8 DEF SentInv, AllShown
  <2> QED
    BY <1>17, <2>4, <2>9
<1>20. CASE c \in Character
  <2>1. /\ c # NUL /\ c # NewLine /\ q + 1 < Len(Sent(k)) /\ Visible(q + 1) = n + 1
        /\ n < Len(Line(k)) /\ c = Line(k)[n + 1]
    BY <1>12, <1>20, CharactersShow
  <2>2. CASE Len(buffer) >= LineLimit
    <3>1. buffer' = <<>> /\ printed' = Append(printed, buffer)
      BY <1>1, <2>1, <2>2 DEF UartPoke, Ignored, LineEnds, PrintLine, UartReset
    <3>2. n = p * d + LineLimit
      BY <1>12, <1>13, <1>14, <2>2
    <3>3. buffer = Piece(Line(k), p + 1)
      <4>1. (p + 1) - 1 = p /\ p * d + LineLimit < Len(Line(k))
        BY <2>1, <3>2
      <4> QED
        BY <1>13, <3>2, <4>1 DEF Piece, d
    <3>4. Faithful'
      BY <1>1, <1>5, <1>13, <3>1, <3>3, PieceShown DEF k
    <3>5. Len(printed') = Before(k) + (p + 1)
      <4>1. Len(printed') = Len(printed) + 1
        BY <1>2, <3>1 DEF Shape
      <4> QED
        BY <1>13, <4>1
    <3>6. n + 1 = (p + 1) * d /\ (p + 1) * d \in Int
      BY <1>13, <3>2 DEF d
    <3>7. buffer' = SubSeq(Line(k), (p + 1) * d + 1, Visible(q + 1))
      BY <2>1, <3>1, <3>6, SubSeqEmpty
    <3>8. SentInv'
      BY <1>15, <2>1, <3>5, <3>6, <3>7
    <3> QED
      BY <1>17, <3>4, <3>8
  <2>3. CASE Len(buffer) < LineLimit
    <3> DEFINE b == p * d
    <3>0. b \in Nat /\ n \in b .. b + LineLimit /\ Len(buffer) = n - b /\ n \in 0 .. Len(Line(k)) - 1
          /\ buffer = SubSeq(Line(k), b + 1, n) /\ Len(Line(k)) \in Nat
      BY <1>12, <1>13, <1>14, <2>1
    <3> HIDE DEF b
    <3>1. buffer' = Append(buffer, c) /\ UNCHANGED printed
      <4>1. ~LineEnds(c)
        BY <2>1, <2>3, <3>0 DEF LineEnds
      <4> QED
        BY <1>1, <2>1, <4>1 DEF UartPoke, Ignored
    <3>2. n + 1 \in b .. b + LineLimit
      BY <2>3, <3>0
    <3>3. buffer' = SubSeq(Line(k), b + 1, n + 1)
      <4>1. b + 1 \in Nat \ {0} /\ n \in (b + 1) - 1 .. Len(Line(k)) - 1
        BY <3>0
      <4> QED
        BY <1>7, <2>1, <3>0, <3>1, <4>1, SubSeqAppend
    <3>4. Faithful'
      BY <1>1, <1>2, <3>1, NothingShown
    <3>5. SentInv'
      BY <1>13, <1>15, <2>1, <3>1, <3>2, <3>3 DEF b
    <3> QED
      BY <1>17, <3>4, <3>5
  <2> QED
    BY <1>12, <1>13, <1>14, <2>2, <2>3
<1> QED
  BY <1>9, <1>18, <1>19, <1>20

(* The program prints a line, with what it read from the device.           *)
LEMMA PrintHeaderKeeps == ASSUME ConsoleInv, PrintHeader PROVE ConsoleInv'
<1>1. /\ queue = <<>> /\ at = "header" /\ at' = "inputs" /\ queue' = HeaderLine(NrInputs, NrOutputs)
      /\ UNCHANGED <<uartVars, poweredOn, inputs, outputs, i, read>>
  BY Header DEF PrintHeader, At, Printf, wireVars
<1>2. OutInv'
  BY OutStep DEF PrintHeader, ConsoleNext, Main, ConsoleInv
<1>3. queue' \in Seq(Character \cup {NUL, NewLine}) /\ queue' # <<>>
  <2>1. NrInputs \in Character /\ NrOutputs \in Character
    BY CharactersShow
  <2> QED
    BY <1>1, <2>1, CharactersShow DEF HeaderLine
<1>4. Shape'
  BY <1>1, <1>3 DEF ConsoleInv, Shape, uartVars
<1>5. Said = 0 /\ Said' = 1
  BY <1>1 DEF Said, ConsoleInv, Shape
<1>6. Sent(1)' = queue'
  BY <1>1 DEF Sent
<1> QED
  BY <1>1, <1>2, <1>3, <1>4, <1>5, <1>6, LineBegins

LEMMA InputAddress ==
  ASSUME NEW n \in 0 .. NrInputs - 1 PROVE WirePeek(WireInputAddress(n)) = inputs[n + 1]
<1>1. WireInputAddress(n) \notin {WireBase, WireBase + 4}
  BY DEF WireInputAddress
<1>2. WireInputAddress(n) - WireBase = 4 * (n + 2)
  BY DEF WireInputAddress
<1>3. AddressToIndex(WireInputAddress(n)) = n + 1
  BY <1>2 DEF AddressToIndex
<1> QED
  BY <1>1, <1>3 DEF WirePeek

LEMMA PrintInputKeeps == ASSUME ConsoleInv, PrintInput PROVE ConsoleInv'
<1>1. PICK v : v = WirePeek(WireInputAddress(i))
  OBVIOUS
<1>2. /\ queue = <<>> /\ at = "inputs" /\ at' = at /\ i < NrInputs /\ i' = i + 1
      /\ queue' = InputLine(i, v) /\ read' = Append(read, v)
      /\ UNCHANGED <<uartVars, poweredOn, inputs, outputs>>
  BY <1>1, Header DEF PrintInput, At, Printf, wireVars
<1>3. OutInv'
  BY OutStep DEF PrintInput, ConsoleNext, Main, ConsoleInv
<1>4. i \in 0 .. NrInputs - 1 /\ read \in Seq(WireValues) /\ Len(read) = i
  BY <1>2 DEF ConsoleInv, OutInv, Shape
<1>5. v \in WireValues
  <2>1. inputs \in [1 .. NrInputs -> WireValues]
    BY DEF ConsoleInv, Shape
  <2>2. v = inputs[i + 1] /\ i + 1 \in 1 .. NrInputs
    BY <1>1, <1>4, InputAddress
  <2> QED
    BY <2>1, <2>2
<1>6. queue' \in Seq(Character \cup {NUL, NewLine}) /\ queue' # <<>>
  <2>1. i \in Character /\ v \in Character
    BY <1>4, <1>5, CharactersShow
  <2> QED
    BY <1>2, <2>1, CharactersShow DEF InputLine
<1>7. /\ read' \in Seq(WireValues) /\ Len(read') = i + 1 /\ read'[i + 1] = v
      /\ \A n \in 1 .. i : read'[n] = read[n]
  BY <1>2, <1>4, <1>5, AppendProperties
<1>8. Shape'
  <2>1. i' <= NrInputs /\ Len(read') = i'
    BY <1>2, <1>4, <1>7
  <2> QED
    BY <1>2, <1>6, <1>7, <2>1 DEF ConsoleInv, Shape, uartVars
<1>9. PICK l \in Nat : l = 2 + i
  BY <1>4
<1>10. Said = 1 + i /\ Said' = l /\ l = Said + 1
  BY <1>2, <1>4, <1>9 DEF Said
<1>11. Sent(l)' = queue'
  <2>1. l \in 2 .. NrInputs + 1 /\ l # 1 /\ l - 2 = i /\ l - 1 = i + 1
    BY <1>4, <1>9
  <2>2. Sent(l)' = InputLine(l - 2, read'[l - 1])
    BY <2>1 DEF Sent, InputLine
  <2> QED
    BY <1>2, <1>7, <2>1, <2>2
<1>12. \A k \in 1 .. Said : Line(k)' = Line(k)
  <2> SUFFICES ASSUME NEW k \in 1 .. 1 + i PROVE Line(k)' = Line(k)
    BY <1>10
  <2>1. k # 1 => k - 1 \in 1 .. i
    BY <1>4
  <2> QED
    BY <1>4, <1>7, <2>1 DEF Line
<1> QED
  BY <1>2, <1>3, <1>6, <1>8, <1>10, <1>11, <1>12, LineBegins

LEMMA PrintOutputKeeps == ASSUME ConsoleInv, PrintOutput PROVE ConsoleInv'
<1>1. /\ queue = <<>> /\ at = "outputs" /\ at' = "set" /\ i < NrOutputs
      /\ queue' = OutputLine(i)
      /\ UNCHANGED <<uartVars, poweredOn, inputs, outputs, i, read>>
  BY Header DEF PrintOutput, At, Printf, wireVars
<1>2. OutInv'
  BY OutStep DEF PrintOutput, ConsoleNext, Main, ConsoleInv
<1>3. i \in 0 .. NrOutputs - 1
  BY <1>1 DEF ConsoleInv, OutInv
<1>4. queue' \in Seq(Character \cup {NUL, NewLine}) /\ queue' # <<>>
  <2>1. i \in Character
    BY <1>3, CharactersShow
  <2> QED
    BY <1>1, <2>1, CharactersShow DEF OutputLine
<1>5. Shape'
  BY <1>1, <1>4 DEF ConsoleInv, Shape, uartVars
<1>6. PICK l \in Nat : l = 2 + NrInputs + i
  BY <1>3
<1>7. Said = 1 + NrInputs + i /\ Said' = l /\ l = Said + 1
  BY <1>1, <1>3, <1>6 DEF Said
<1>8. Sent(l)' = queue'
  <2>1. l # 1 /\ l \notin 2 .. NrInputs + 1 /\ l - NrInputs - 2 = i
    BY <1>3, <1>6
  <2> QED
    BY <1>1, <2>1 DEF Sent, OutputLine
<1>9. \A k \in 1 .. Said : Line(k)' = Line(k)
  BY <1>1 DEF Line
<1> QED
  BY <1>1, <1>2, <1>4, <1>5, <1>7, <1>8, <1>9, LineBegins

(* The program goes from one loop to the next, or on after an output, with *)
(* no line begun.                                                          *)
LEMMA LoopsKeep ==
  ASSUME ConsoleInv, InputsDone \/ SetOutput \/ OutputsDone PROVE ConsoleInv'
<1>1. /\ UNCHANGED <<uartVars, inputs, poweredOn, queue, read>>
      /\ \/ at = "inputs" /\ i >= NrInputs /\ at' = "outputs" /\ i' = 0
         \/ at = "set" /\ at' = "outputs" /\ i' = i + 1
         \/ at = "outputs" /\ i >= NrOutputs /\ at' = "halt" /\ i' = i
      /\ queue = <<>>
  BY Header DEF InputsDone, SetOutput, OutputsDone, At, WirePoke, wireVars
<1>2. OutInv'
  BY OutStep DEF ConsoleNext, Main, ConsoleInv
<1>3. /\ i \in 0 .. NrInputs
      /\ at = "set" => i < NrOutputs
      /\ at \in {"outputs", "set"} => i <= NrOutputs
      /\ at = "inputs" => Len(read) = i
      /\ at \in {"outputs", "set"} => Len(read) = NrInputs
  BY DEF ConsoleInv, OutInv, Shape
<1>4. Shape'
  BY <1>1, <1>3 DEF ConsoleInv, Shape, uartVars
<1>5. UNCHANGED Said
  BY <1>1, <1>3 DEF Said
<1> QED
  BY <1>1, <1>2, <1>4, <1>5, NothingSent

(* The host switches the machine off, or a wire changes.                   *)
LEMMA OthersKeep ==
  ASSUME ConsoleInv, PowerOff \/ Wires \/ UNCHANGED consoleVars PROVE ConsoleInv'
<1>1. /\ UNCHANGED <<uartVars, at, i, queue, read>>
      /\ inputs' \in [1 .. NrInputs -> WireValues] /\ poweredOn' \in BOOLEAN
  BY DEF PowerOff, Wires, SetInput, consoleVars, mainVars, wireVars, ConsoleInv, Shape
<1>2. OutInv'
  BY OutStep DEF ConsoleNext, ConsoleInv
<1>3. Shape'
  BY <1>1 DEF ConsoleInv, Shape, uartVars
<1>4. UNCHANGED Said
  BY <1>1 DEF Said
<1> QED
  BY <1>1, <1>2, <1>3, <1>4, NothingSent

(* A machine that starts, or starts again, has nothing on its console.     *)
LEMMA Fresh ==
  ASSUME OutInv, at = "header", i = 0, queue = <<>>, read = <<>>,
         buffer = <<>>, printed = <<>>,
         inputs \in [1 .. NrInputs -> WireValues], poweredOn \in BOOLEAN
  PROVE  ConsoleInv
<1>1. Shape
  BY DEF Shape
<1>2. UartTypeOK
  <2>1. \A k \in DOMAIN printed : FALSE
    OBVIOUS
  <2>2. Len(<<>>) = 0 /\ DOMAIN <<>> = {}
    OBVIOUS
  <2> QED
    BY <2>1, <2>2 DEF UartTypeOK
<1>3. Said = 0 /\ Before(Said + 1) = 0
  BY DEF Said, Before
<1>4. SentInv
  BY <1>3 DEF SentInv, AllShown
<1>5. Faithful
  BY <1>3 DEF Faithful
<1> QED
  BY <1>1, <1>2, <1>4, <1>5 DEF ConsoleInv

LEMMA ConsoleInvInit == ConsoleInit => ConsoleInv
BY OutInit, Fresh DEF ConsoleInit, UartInit, WireInit, MainInit

LEMMA BusResetKeeps == ASSUME ConsoleInv, PowerOn \/ Reset PROVE ConsoleInv'
<1>1. OutInv'
  BY OutStep DEF ConsoleNext, ConsoleInv
<1>2. /\ at' = "header" /\ i' = 0 /\ queue' = <<>> /\ read' = <<>>
      /\ buffer' = <<>> /\ printed' = <<>>
      /\ inputs' \in [1 .. NrInputs -> WireValues] /\ poweredOn' \in BOOLEAN
  BY DEF PowerOn, Reset, BusReset, UartReset, WireReset, ConsoleInv, Shape
<1>3. Shape'
  BY <1>2 DEF Shape
<1>4. UartTypeOK'
  <2>1. \A k \in DOMAIN printed' : FALSE
    BY <1>2
  <2>2. Len(<<>>) = 0 /\ DOMAIN <<>> = {}
    OBVIOUS
  <2> QED
    BY <1>2, <2>1, <2>2 DEF UartTypeOK
<1>5. Said' = 0 /\ Before(Said + 1)' = 0
  BY <1>2 DEF Said, Before
<1>6. SentInv'
  BY <1>2, <1>5 DEF SentInv, AllShown
<1>7. Faithful'
  BY <1>5 DEF Faithful
<1> QED
  BY <1>1, <1>3, <1>4, <1>6, <1>7 DEF ConsoleInv

LEMMA ConsoleStep == ConsoleInv /\ [ConsoleNext]_consoleVars => ConsoleInv'
BY PutcKeeps, PrintHeaderKeeps, PrintInputKeeps, PrintOutputKeeps, LoopsKeep, OthersKeep,
   BusResetKeeps DEF ConsoleNext, Main

(* What the console shows is what was sent, character by character.        *)
THEOREM ConsoleInvariant == ConsoleSpec => []ConsoleInv
BY ConsoleInvInit, ConsoleStep, PTL DEF ConsoleSpec

(* The types, with the places of main, its counter and what it has read.   *)
LEMMA ConsoleTypeFollows == ConsoleInv => ConsoleTypeOK
<1> SUFFICES ASSUME ConsoleInv PROVE ConsoleTypeOK
  OBVIOUS
<1>1. /\ i \in 0 .. NrInputs /\ UartTypeOK /\ poweredOn \in BOOLEAN
      /\ at \in {"header", "inputs", "outputs", "set", "halt"}
      /\ inputs \in [1 .. NrInputs -> WireValues]
  BY DEF ConsoleInv, OutInv, Shape
<1>2. Len(read) <= NrInputs
  BY <1>1 DEF ConsoleInv, Shape
<1>3. outputs \in [1 .. NrOutputs -> Int]
  BY DEF ConsoleInv, OutInv
<1> QED
  BY <1>1, <1>2, <1>3 DEF ConsoleTypeOK, WireTypeOK

(* How many of its lines the program has begun, of those it could have by  *)
(* what it has read.                                                       *)
LEMMA LinesBegun ==
  ASSUME OutInv, Shape
  PROVE  /\ Said \in Nat /\ NrLines \in Nat /\ Said <= NrLines
         /\ at = "halt" => Said = NrLines
<1>1. /\ i \in 0 .. NrInputs
      /\ at \in {"header", "inputs", "outputs", "set", "halt"}
      /\ at = "set" => i < NrOutputs
      /\ at \in {"outputs", "set"} => i <= NrOutputs
      /\ at = "header" => Len(read) = 0
      /\ at = "inputs" => Len(read) = i
      /\ at \in {"outputs", "set", "halt"} => Len(read) = NrInputs
  BY DEF OutInv, Shape
<1>2. NrLines = 1 + Len(read) + (IF Len(read) = NrInputs THEN NrOutputs ELSE 0)
  BY DEF NrLines
<1>3. CASE at = "header"
  BY <1>1, <1>2, <1>3 DEF Said
<1>4. CASE at = "inputs"
  BY <1>1, <1>2, <1>4 DEF Said
<1>5. CASE at \in {"outputs", "set", "halt"}
  <2>1. NrLines = 1 + NrInputs + NrOutputs
    BY <1>1, <1>2, <1>5
  <2>2. CASE at = "outputs"
    <3>1. Said = 1 + NrInputs + i
      BY <2>2 DEF Said
    <3> QED
      BY <1>1, <2>1, <2>2, <3>1
  <2>3. CASE at = "set"
    <3>1. Said = 2 + NrInputs + i
      BY <2>3 DEF Said
    <3> QED
      BY <1>1, <2>1, <2>3, <3>1
  <2>4. CASE at = "halt"
    <3>1. Said = 1 + NrInputs + NrOutputs
      BY <2>4 DEF Said
    <3> QED
      BY <2>1, <2>4, <3>1
  <2> QED
    BY <1>5, <2>2, <2>3, <2>4
<1> QED
  BY <1>1, <1>3, <1>4, <1>5

(* The console is as long as the lines begun so far, and no longer. *)
LEMMA ConsoleLength ==
  ASSUME ConsoleInv
  PROVE  /\ Len(printed) \in Nat /\ Len(printed) <= Before(Said + 1)
         /\ queue = <<>> => Len(printed) = Before(Said + 1)
         /\ queue # <<>> => Said >= 1 /\ Len(printed) < Before(Said + 1)
<1>1. Said \in Nat /\ Len(printed) \in Nat
  BY LinesBegun DEF ConsoleInv, Shape
<1>2. CASE queue = <<>>
  BY <1>1, <1>2, BeforeNext DEF ConsoleInv, SentInv, AllShown
<1>3. CASE queue # <<>>
  <2>1. PICK p \in Nat : Underway(p)
    BY <1>3 DEF ConsoleInv, SentInv
  <2> DEFINE q == Len(Sent(Said)) - Len(queue)
             n == Visible(q)
  <2>2. /\ Said \in Nat \ {0} /\ Len(printed) = Before(Said) + p
        /\ n \in p * (LineLimit + 1) .. p * (LineLimit + 1) + LineLimit
    BY <1>1, <2>1 DEF Underway
  <2>3. Before(Said) \in Nat /\ Before(Said + 1) = Before(Said) + PiecesOf(Len(Line(Said)))
    BY <2>2, BeforeNext
  <2>4. p < PiecesOf(Len(Line(Said)))
    <3>1. Len(queue) \in Nat \ {0} /\ q >= 0 /\ Len(Sent(Said)) \in Nat
      BY <1>3, <2>1, <2>2, SentLength DEF Underway, ConsoleInv, Shape
    <3>2. q \in Nat /\ q < Len(Sent(Said))
      BY <3>1
    <3>3. Said \in 2 .. NrInputs + 1 => read[Said - 1] \in WireValues
      BY <1>3, SaidIsRead DEF ConsoleInv
    <3>4. Said <= 1 + NrInputs + NrOutputs
      BY SaidInRange DEF ConsoleInv
    <3>5. Len(Line(Said)) \in Nat /\ n <= Len(Line(Said))
      BY <2>2, <3>2, <3>3, <3>4, CharacterSent
    <3> HIDE DEF n
    <3>6. p * (LineLimit + 1) <= Len(Line(Said)) /\ p * (LineLimit + 1) \in Nat
      BY <2>2, <3>5
    <3>7. PiecesOf(Len(Line(Said))) > p
      BY <3>5, <3>6, PlaceInPieces
    <3> QED
      BY <3>7
  <2>5. PiecesOf(Len(Line(Said))) \in Nat
    BY <2>2, LineLength, PiecesPositive
  <2> QED
    BY <1>1, <1>3, <2>2, <2>3, <2>4, <2>5
<1> QED
  BY <1>2, <1>3

LEMMA BeforeOrdered ==
  ASSUME NEW a \in Nat \ {0}, NEW b \in Nat, a <= b
  PROVE  Before(a) \in Nat /\ Before(a) <= Before(b)
<1>1. Before(a) \in Nat /\ PiecesOf(Len(Line(a))) \in Nat
  BY LineLength, PiecesPositive, BeforeNext
<1>2. CASE a = b
  BY <1>1, <1>2
<1>3. CASE a < b
  <2>1. Before(a) + PiecesOf(Len(Line(a))) <= Before(b)
    BY <1>3, BeforeGrows
  <2>2. Before(b) \in Nat
    BY <1>3, BeforeNext
  <2> QED
    BY <1>1, <2>1, <2>2
<1> QED
  BY <1>2, <1>3

LEMMA TranscriptFollows == ConsoleInv => Transcript
<1> SUFFICES ASSUME ConsoleInv PROVE Transcript
  OBVIOUS
<1>1. /\ Said \in Nat /\ NrLines \in Nat /\ Said <= NrLines
      /\ at = "halt" => Said = NrLines
  BY LinesBegun DEF ConsoleInv
<1>2. Len(printed) \in Nat /\ Len(printed) <= Before(Said + 1)
  BY ConsoleLength
<1>3. Before(Said + 1) \in Nat /\ Before(Said + 1) <= Before(NrLines + 1)
  BY <1>1, BeforeOrdered
<1>4. Len(printed) <= Before(NrLines + 1)
  <2>1. Before(NrLines + 1) \in Nat
    BY <1>1, BeforeNext
  <2> QED
    BY <1>2, <1>3, <2>1
<1>5. at = "halt" => Len(printed) = Before(NrLines + 1)
  <2> SUFFICES ASSUME at = "halt" PROVE Len(printed) = Before(NrLines + 1)
    OBVIOUS
  <2>1. queue = <<>>
    BY DEF ConsoleInv, Shape
  <2> QED
    BY <1>1, <2>1, ConsoleLength
<1>6. ASSUME NEW k \in 1 .. NrLines, NEW j \in 1 .. PiecesOf(Len(Line(k))),
             Before(k) + j <= Len(printed)
      PROVE  printed[Before(k) + j] = Piece(Line(k), j)
  <2>1. CASE k <= Said
    BY <1>1, <1>6, <2>1 DEF ConsoleInv, Faithful
  <2>2. CASE k > Said
    <3>1. Before(Said + 1) <= Before(k) /\ Before(k) \in Nat
      <4>1. Said + 1 \in Nat \ {0} /\ k \in Nat \ {0} /\ Said + 1 <= k
        BY <1>1, <2>2
      <4> QED
        BY <4>1, BeforeOrdered, BeforeNext
    <3> QED
      BY <1>2, <1>3, <1>6, <3>1
  <2> QED
    BY <1>1, <2>1, <2>2
<1> QED
  BY <1>4, <1>5, <1>6 DEF Transcript

(* A set output is one whose line is complete: the program gets to setting *)
(* it only through the end of its line.                                    *)
LEMMA AnnouncementFollows == ConsoleInv => OutputsAnnounced
<1> SUFFICES ASSUME ConsoleInv, NEW o \in 1 .. NrOutputs, outputs[o] # 0
             PROVE  \E k \in DOMAIN printed : printed[k] = Piece(<<SettingText, o - 1>>, 1)
  BY DEF OutputsAnnounced
<1>1. PICK l \in Nat : l = 1 + NrInputs + o
  OBVIOUS
<1>2. Done(o) /\ i \in Nat /\ at \in {"header", "inputs", "outputs", "set", "halt"}
  BY DEF ConsoleInv, OutInv
<1>3. l <= Said /\ (queue # <<>> => l < Said)
  <2>1. CASE at = "outputs"
    BY <1>1, <1>2, <2>1 DEF Done, Said, ConsoleInv, Shape
  <2>2. CASE at = "set"
    BY <1>1, <1>2, <2>2 DEF Done, Said
  <2>3. CASE at = "halt"
    BY <1>1, <1>2, <2>3 DEF Said, ConsoleInv, Shape
  <2> QED
    BY <1>2, <2>1, <2>2, <2>3 DEF Done
<1>4. Line(l) = <<SettingText, o - 1>> /\ l \in Nat \ {0}
  <2>1. l # 1 /\ l \notin 2 .. NrInputs + 1 /\ l - NrInputs - 2 = o - 1
    BY <1>1
  <2> QED
    BY <2>1 DEF Line
<1>5. /\ Said \in Nat /\ Before(l) \in Nat
      /\ PiecesOf(Len(Line(l))) \in Nat \ {0} /\ 1 \in 1 .. PiecesOf(Len(Line(l)))
  <2>1. PiecesOf(Len(Line(l))) \in Nat \ {0}
    BY <1>4, LineLength, PiecesPositive
  <2>2. 1 \in 1 .. PiecesOf(Len(Line(l)))
    BY <2>1
  <2> QED
    BY <1>4, <2>1, <2>2, BeforeNext, LinesBegun DEF ConsoleInv
<1>6. Before(l) + 1 <= Len(printed) /\ Len(printed) \in Nat
  <2>1. CASE queue = <<>>
    <3>1. Len(printed) = Before(Said + 1) /\ Len(printed) \in Nat
      BY <2>1, ConsoleLength
    <3>2. Before(l) + PiecesOf(Len(Line(l))) <= Before(Said + 1)
      <4>1. Said + 1 \in Nat /\ l < Said + 1
        BY <1>3, <1>4, <1>5
      <4> QED
        BY <1>4, <4>1, BeforeGrows
    <3> QED
      BY <1>5, <3>1, <3>2
  <2>2. CASE queue # <<>>
    <3>1. Before(l) + PiecesOf(Len(Line(l))) <= Before(Said)
      BY <1>3, <1>4, <1>5, <2>2, BeforeGrows
    <3>2. PICK p \in Nat : Underway(p)
      BY <2>2 DEF ConsoleInv, SentInv
    <3>3. Len(printed) = Before(Said) + p /\ Before(Said) \in Nat
      <4>1. Len(printed) = Before(Said) + p /\ Said \in Nat \ {0}
        BY <1>5, <3>2 DEF Underway
      <4> QED
        BY <4>1, BeforeNext
    <3> QED
      BY <1>5, <3>1, <3>3
  <2> QED
    BY <2>1, <2>2
<1>7. printed[Before(l) + 1] = Piece(Line(l), 1)
  <2>1. l \in 1 .. Said
    BY <1>3, <1>4, <1>5
  <2> QED
    BY <1>5, <1>6, <2>1 DEF ConsoleInv, Faithful
<1>8. Before(l) + 1 \in DOMAIN printed
  <2>1. DOMAIN printed = 1 .. Len(printed)
    BY DEF ConsoleInv, Shape
  <2> QED
    BY <1>5, <1>6, <2>1
<1> QED
  BY <1>4, <1>7, <1>8

(* Every state has the types the model gives it, and no line of the UART   *)
(* outgrows its limit or has a NUL or a newline in it, whatever the        *)
(* program prints (uart.lua:13-32, main.c:126-139).                        *)
THEOREM ConsoleTypeCorrect == ConsoleSpec => []ConsoleTypeOK
BY ConsoleInvariant, ConsoleTypeFollows, PTL

(* The console shows the lines of the program as it ran since the restart, *)
(* in pieces of the limit, none missing, none twice and no text of an      *)
(* earlier life in them, with the values the program read, and all of them *)
(* when it is through (uart.lua:13-32, main.c:26-135).                     *)
THEOREM TranscriptIsRight == ConsoleSpec => []Transcript
BY ConsoleInvariant, TranscriptFollows, PTL

(* An output that differs from its reset value has its line on the console *)
(* already: what the program does on two devices in one order is seen in   *)
(* that order (main.c:132-135).                                            *)
THEOREM OutputsAreAnnounced == ConsoleSpec => []OutputsAnnounced
BY ConsoleInvariant, AnnouncementFollows, PTL
================================================================================
