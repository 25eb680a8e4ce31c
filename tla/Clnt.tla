---------------------------------- MODULE Clnt ---------------------------------
(***************************************************************************)
(* The timer device, riscv::devices::ClntDevice.  Its operations are       *)
(* called by the bus: Clock once per tick, Peek and Poke from an           *)
(* instruction, Reset from the host.                                       *)
(***************************************************************************)
EXTENDS Words

CONSTANTS
  TimerStep,                       \* 10 in the code
  MatchL, MatchH, TimerL, TimerH   \* addresses of the four registers that exist

ASSUME ClntAssumption ==
  TimerStep \in 1 .. CounterMod - 1 /\ {MatchL, MatchH, TimerL, TimerH} \subseteq Word

VARIABLES timerCountLow, timerCountHigh, timerMatchLow, timerMatchHigh

clntVars == <<timerCountLow, timerCountHigh, timerMatchLow, timerMatchHigh>>

ClntTypeOK ==
  /\ {timerCountLow, timerMatchLow} \subseteq 0 .. CounterMod - 1
  /\ {timerCountHigh, timerMatchHigh} \subseteq 0 .. HighMod - 1

ClntInit ==
  timerCountLow = 0 /\ timerCountHigh = 0 /\ timerMatchLow = 0 /\ timerMatchHigh = 0

(* Mutant of NextLow: the low half is kept in a wider integer. *)
NextLowWide == timerCountLow + TimerStep

NextLow  == (timerCountLow + TimerStep) % CounterMod
NextHigh == (timerCountHigh + Bit(NextLow < timerCountLow, 1)) % HighMod

(* Mutant of Fires: >= on the high half.                                   *)
FiresOnHigh(high, low) ==
  /\ high >= timerMatchHigh \/ (high = timerMatchHigh /\ low = timerMatchLow)
  /\ timerMatchHigh # 0 \/ timerMatchLow # 0

(* Whether a count raises the interrupt: the low half only on equality.    *)
Fires(high, low) ==
  /\ high > timerMatchHigh \/ (high = timerMatchHigh /\ low = timerMatchLow)
  /\ timerMatchHigh # 0 \/ timerMatchLow # 0

(* What a CLINT does: pending from the moment the 64-bit count reaches the *)
(* 64-bit match.                                                           *)
Due(high, low) ==
  /\ high > timerMatchHigh \/ (high = timerMatchHigh /\ low >= timerMatchLow)
  /\ timerMatchHigh # 0 \/ timerMatchLow # 0

ClntClock ==
  /\ timerCountLow' = NextLow /\ timerCountHigh' = NextHigh
  /\ UNCHANGED <<timerMatchLow, timerMatchHigh>>

ClntReset ==
  timerCountLow' = 0 /\ timerCountHigh' = 0 /\ timerMatchLow' = 0 /\ timerMatchHigh' = 0

ClntPeek(a) ==
  CASE a = TimerL -> timerCountLow
    [] a = TimerH -> timerCountHigh
    [] a = MatchL -> timerMatchLow
    [] a = MatchH -> timerMatchHigh
    [] OTHER      -> 0

(* Mutant of ClntPoke: the two halves of the match are swapped. *)
ClntPokeSwapped(a, v) ==
  /\ timerMatchLow'  = IF a = MatchH THEN v % CounterMod ELSE timerMatchLow
  /\ timerMatchHigh' = IF a = MatchL THEN v % HighMod ELSE timerMatchHigh
  /\ UNCHANGED <<timerCountLow, timerCountHigh>>

ClntPoke(a, v) ==
  /\ timerMatchLow'  = IF a = MatchL THEN v % CounterMod ELSE timerMatchLow
  /\ timerMatchHigh' = IF a = MatchH THEN v % HighMod ELSE timerMatchHigh
  /\ UNCHANGED <<timerCountLow, timerCountHigh>>
================================================================================
