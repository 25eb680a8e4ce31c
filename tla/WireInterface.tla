------------------------------ MODULE WireInterface ----------------------------
(***************************************************************************)
(* The Wiremod device of an entity, LCPU.Devices.WireInterface: a header   *)
(* of two words that says how many inputs and outputs there are, a word    *)
(* for each input and a word for each output.                              *)
(***************************************************************************)
EXTENDS Integers

CONSTANTS
  WireBase,              \* 0x11310000
  NrInputs, NrOutputs,   \* 8 and 8 on the entity
  WireValues,            \* what the wires of other entities may carry
  AllOnes                \* 0xffffffff

ASSUME WireAssumption == WireBase \in Nat /\ NrInputs \in Nat /\ NrOutputs \in Nat

VARIABLES
  inputs,   \* wireInputs, as Wiremod drives them
  outputs   \* what TriggerOutput last set

wireVars == <<inputs, outputs>>

WireInit ==
  inputs \in [1 .. NrInputs -> WireValues] /\ outputs = [o \in 1 .. NrOutputs |-> 0]

(* The header is two words and names count from one. *)
AddressToIndex(address) == ((address - WireBase) \div 4) - 1

WirePeek(address) ==
  CASE address = WireBase                 -> NrInputs
    [] address = WireBase + 4             -> NrOutputs
    [] AddressToIndex(address) > NrInputs -> AllOnes
    [] OTHER                              -> inputs[AddressToIndex(address)]

(* WireLib.TriggerOutput: a name that is no output of the entity is none   *)
(* of its business.                                                        *)
TriggerOutput(o, v) == outputs' = [j \in 1 .. NrOutputs |-> IF j = o THEN v ELSE outputs[j]]

(* Mutant of WirePoke: the last output is out of bounds. *)
WirePokeShort(address, v) ==
  LET o == AddressToIndex(address) - NrInputs
  IN  /\ IF address \in {WireBase, WireBase + 4} \/ o >= NrInputs
           THEN UNCHANGED outputs ELSE TriggerOutput(o, v)
      /\ UNCHANGED inputs

(* The bound on the outputs is the number of inputs.                       *)
WirePoke(address, v) ==
  LET o == AddressToIndex(address) - NrInputs
  IN  /\ IF address \in {WireBase, WireBase + 4} \/ o > NrInputs
           THEN UNCHANGED outputs ELSE TriggerOutput(o, v)
      /\ UNCHANGED inputs

(* Mutant of WireReset: the outputs keep what the last program set. *)
WireResetKeeping == UNCHANGED wireVars

WireReset == outputs' = [o \in 1 .. NrOutputs |-> 0] /\ UNCHANGED inputs

(* The wires change whenever another entity of the game says so.           *)
SetInput ==
  \E n \in 1 .. NrInputs, v \in WireValues :
    inputs' = [inputs EXCEPT ![n] = v] /\ UNCHANGED outputs

WireTypeOK ==
  inputs \in [1 .. NrInputs -> WireValues] /\ outputs \in [1 .. NrOutputs -> Int]
================================================================================
