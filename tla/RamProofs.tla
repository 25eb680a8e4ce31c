-------------------------------- MODULE RamProofs ------------------------------
(***************************************************************************)
(* The memory device implements a flat memory, for every base and size     *)
(* that RamAssumption admits and whatever the registers compute.           *)
(***************************************************************************)
EXTENDS DataPath, TLAPS

(* The arithmetic of the three widths: an aligned base and a size in whole *)
(* words leave every element of the array where its block is in the        *)
(* address space.                                                          *)
LEMMA AlignedByOne ==
  ASSUME NEW M \in Nat, NEW S \in Nat, NEW d \in 0 .. S - 1
  PROVE  /\ d \div 1 \in Nat /\ M + 1 * (d \div 1) = (M + d) - ((M + d) % 1)
         /\ 1 * (d \div 1) + 1 - 1 \in 0 .. S - 1
OBVIOUS

LEMMA AlignedByTwo ==
  ASSUME NEW M \in Nat, NEW S \in Nat, NEW d \in 0 .. S - 1, M % 4 = 0, S % 4 = 0
  PROVE  /\ d \div 2 \in Nat /\ M + 2 * (d \div 2) = (M + d) - ((M + d) % 2)
         /\ 2 * (d \div 2) + 2 - 1 \in 0 .. S - 1
OBVIOUS

LEMMA AlignedByFour ==
  ASSUME NEW M \in Nat, NEW S \in Nat, NEW d \in 0 .. S - 1, M % 4 = 0, S % 4 = 0
  PROVE  /\ d \div 4 \in Nat /\ M + 4 * (d \div 4) = (M + d) - ((M + d) % 4)
         /\ 4 * (d \div 4) + 4 - 1 \in 0 .. S - 1
OBVIOUS

(* The element of T bytes that holds an address: where it begins, in the   *)
(* array and in the address space, and where it ends.                      *)
LEMMA ElementIsBlock ==
  ASSUME NEW T \in Widths, NEW a \in RamAddresses
  PROVE  /\ AddressToIndex(T, a) \in Nat
         /\ MemoryBase + T * AddressToIndex(T, a) = a - (a % T)
         /\ T * AddressToIndex(T, a) + T - 1 \in Offsets
<1> DEFINE d == a - MemoryBase
<1>1. d \in 0 .. MemorySize - 1 /\ d % MemorySize = d
  BY RamAssumption DEF RamAddresses
<1>2. a = MemoryBase + d /\ MemoryBase \in Nat /\ MemoryBase % 4 = 0
      /\ MemorySize \in Nat /\ MemorySize % 4 = 0
  BY <1>1, RamAssumption DEF RamAddresses
<1>3. AddressToIndex(T, a) = d \div T
  BY <1>1 DEF AddressToIndex
<1> HIDE DEF d
<1> DEFINE P(t) == /\ d \div t \in Nat
                   /\ MemoryBase + t * (d \div t) = (MemoryBase + d) - ((MemoryBase + d) % t)
                   /\ t * (d \div t) + t - 1 \in 0 .. MemorySize - 1
<1>4. P(1) /\ P(2) /\ P(4)
  <2>1. P(1)
    BY <1>1, <1>2, AlignedByOne
  <2>2. P(2)
    BY <1>1, <1>2, AlignedByTwo
  <2>3. P(4)
    BY <1>1, <1>2, AlignedByFour
  <2> QED
    BY <2>1, <2>2, <2>3
<1> HIDE DEF P
<1>5. P(T)
  BY <1>4 DEF Widths
<1> QED
  BY <1>2, <1>3, <1>5 DEF P, Offsets

(* An offset is in the element exactly when its address is in the block,   *)
(* at the same place in both.                                              *)
LEMMA PlaceOfOne ==
  ASSUME NEW M \in Nat, NEW o \in Nat, NEW i \in Nat
  PROVE  /\ (o \div 1 = i) <=> (M + o \in (M + 1 * i) .. (M + 1 * i) + 1 - 1)
         /\ o \div 1 = i => o % 1 = (M + o) - (M + 1 * i) /\ o % 1 \in 0 .. 1 - 1
OBVIOUS

LEMMA PlaceOfTwo ==
  ASSUME NEW M \in Nat, NEW o \in Nat, NEW i \in Nat
  PROVE  /\ (o \div 2 = i) <=> (M + o \in (M + 2 * i) .. (M + 2 * i) + 2 - 1)
         /\ o \div 2 = i => o % 2 = (M + o) - (M + 2 * i) /\ o % 2 \in 0 .. 2 - 1
OBVIOUS

LEMMA PlaceOfFour ==
  ASSUME NEW M \in Nat, NEW o \in Nat, NEW i \in Nat
  PROVE  /\ (o \div 4 = i) <=> (M + o \in (M + 4 * i) .. (M + 4 * i) + 4 - 1)
         /\ o \div 4 = i => o % 4 = (M + o) - (M + 4 * i) /\ o % 4 \in 0 .. 4 - 1
OBVIOUS

LEMMA OffsetInBlock ==
  ASSUME NEW T \in Widths, NEW a \in RamAddresses, NEW c \in RamAddresses,
         NEW o, o = c - MemoryBase, NEW b, b = a - (a % T)
  PROVE  /\ (o \div T = AddressToIndex(T, a)) <=> (c \in b .. b + T - 1)
         /\ c \in b .. b + T - 1 => o % T = c - b /\ o % T \in 0 .. T - 1
<1> DEFINE i == AddressToIndex(T, a)
<1>1. i \in Nat /\ MemoryBase + T * i = b
  BY ElementIsBlock
<1>2. o \in Nat /\ c = MemoryBase + o /\ MemoryBase \in Nat
  BY RamAssumption DEF RamAddresses
<1> HIDE DEF i
<1> DEFINE P(t) == /\ (o \div t = i) <=> (MemoryBase + o \in (MemoryBase + t * i) .. (MemoryBase + t * i) + t - 1)
                   /\ o \div t = i => o % t = (MemoryBase + o) - (MemoryBase + t * i) /\ o % t \in 0 .. t - 1
<1>3. P(1) /\ P(2) /\ P(4)
  <2>1. P(1)
    BY <1>1, <1>2, PlaceOfOne
  <2>2. P(2)
    BY <1>1, <1>2, PlaceOfTwo
  <2>3. P(4)
    BY <1>1, <1>2, PlaceOfFour
  <2> QED
    BY <2>1, <2>2, <2>3
<1> HIDE DEF P
<1>4. P(T)
  BY <1>3 DEF Widths
<1> QED
  BY <1>1, <1>2, <1>4 DEF P, i

(* No access leaves the array (RamDevice::AddressToIndex): it is reduced   *)
(* by the size before it is scaled, and the size is a whole number of      *)
(* words.                                                                  *)
THEOREM AccessInBounds ==
  ASSUME NEW T \in Widths, NEW a \in RamAddresses, NEW k \in 0 .. T - 1
  PROVE  T * AddressToIndex(T, a) + k \in Offsets
<1> DEFINE i == AddressToIndex(T, a)
<1>1. i \in Nat /\ T * i + T - 1 \in Offsets /\ MemorySize \in Nat
  BY ElementIsBlock, RamAssumption
<1>2. T = 1 \/ T = 2 \/ T = 4
  BY DEF Widths
<1> HIDE DEF i
<1>3. T * i + k \in Offsets
  BY <1>1, <1>2 DEF Offsets
<1> QED
  BY <1>3 DEF i

--------------------------------------------------------------------------------
(* The refinement: initial states, the two accesses, everything else.      *)

LEMMA WidthsOfInstructions ==
  /\ \A fn \in Loads \cup Stores : WidthOf[fn] \in Widths
  /\ WidthOf["none"] = 0
BY DEF WidthOf, Loads, Stores, Widths

LEMMA FlatInitially == DataInit => Flat!FlatInit
<1> SUFFICES ASSUME DataInit PROVE Flat!FlatInit
  OBVIOUS
<1>1. memory = [o \in Offsets |-> 0] /\ answer = <<>> /\ executed = "none"
  BY DEF DataInit, RamInit
<1>2. \A a \in RamAddresses : a - MemoryBase \in Offsets
  BY RamAssumption DEF RamAddresses, Offsets
<1>3. [a \in RamAddresses |-> memory[a - MemoryBase]] = [a \in RamAddresses |-> 0]
  BY <1>1, <1>2
<1> QED
  BY <1>1, <1>3, WidthsOfInstructions DEF Flat!FlatInit

LEMMA LoadReads ==
  ASSUME NEW fn \in Loads, LoadRam(fn)
  PROVE  Flat!Read
<1> DEFINE T == WidthOf[fn]
           a == x[1]
<1>1. T \in Widths /\ a \in RamAddresses
  BY WidthsOfInstructions DEF LoadRam
<1>2. answer' = Element(T, AddressToIndex(T, a)) /\ memory' = memory /\ executed' = fn
  BY DEF LoadRam, Peek
<1>3. WidthOf[executed'] = T
  BY <1>2
<1> HIDE DEF T
<1>4. \A k \in 0 .. T - 1 :
        /\ a - (a % T) + k \in RamAddresses
        /\ (a - (a % T) + k) - MemoryBase = T * AddressToIndex(T, a) + k
  <2> SUFFICES ASSUME NEW k \in 0 .. T - 1
               PROVE  /\ a - (a % T) + k \in RamAddresses
                      /\ (a - (a % T) + k) - MemoryBase = T * AddressToIndex(T, a) + k
    OBVIOUS
  <2> DEFINE n == T * AddressToIndex(T, a)
             b == a - (a % T)
  <2>1. n \in Int /\ MemoryBase + n = b
    <3>1. AddressToIndex(T, a) \in Nat /\ T \in Nat
      BY <1>1, ElementIsBlock DEF Widths
    <3>2. n \in Int
      BY <3>1
    <3>3. MemoryBase + n = b
      BY <1>1, ElementIsBlock
    <3> QED
      BY <3>2, <3>3
  <2>2. n + k \in Offsets
    BY <1>1, AccessInBounds
  <2>3. MemoryBase \in Nat /\ MemorySize \in Nat /\ k \in Int
    BY <1>1, RamAssumption DEF Widths
  <2> HIDE DEF n, b
  <2>4. b + k \in RamAddresses /\ (b + k) - MemoryBase = n + k
    BY <2>1, <2>2, <2>3 DEF Offsets, RamAddresses
  <2> QED
    BY <2>4 DEF n, b
<1>5. answer' = [k \in 0 .. T - 1 |->
                   [c \in RamAddresses |-> memory[c - MemoryBase]][a - (a % T) + k]]
  <2> DEFINE cells == [c \in RamAddresses |-> memory[c - MemoryBase]]
             n == T * AddressToIndex(T, a)
             b == a - (a % T)
  <2>1. answer' = [k \in 0 .. T - 1 |-> memory[n + k]]
    BY <1>2 DEF Element
  <2>2. \A c \in RamAddresses : cells[c] = memory[c - MemoryBase]
    OBVIOUS
  <2>3. \A k \in 0 .. T - 1 : b + k \in RamAddresses /\ (b + k) - MemoryBase = n + k
    BY <1>4
  <2> HIDE DEF cells, n, b
  <2>4. \A k \in 0 .. T - 1 : cells[b + k] = memory[n + k]
    <3> SUFFICES ASSUME NEW k \in 0 .. T - 1
                 PROVE  cells[b + k] = memory[n + k]
      OBVIOUS
    <3> DEFINE e == b + k
               o == n + k
    <3>1. e \in RamAddresses /\ e - MemoryBase = o
      BY <2>3
    <3> HIDE DEF e, o
    <3>2. cells[e] = memory[o]
      BY <2>2, <3>1
    <3> QED
      BY <3>2 DEF e, o
  <2>5. answer' = [k \in 0 .. T - 1 |-> cells[b + k]]
    BY <2>1, <2>4
  <2> QED
    BY <2>5 DEF cells, b
<1>6. Flat!Access
  BY <1>1, <1>3 DEF Flat!Access, Widths
<1> QED
  BY <1>2, <1>3, <1>5, <1>6 DEF Flat!Read, Flat!Block

LEMMA StoreWrites ==
  ASSUME NEW fn \in Stores, StoreRam(fn)
  PROVE  Flat!Write
<1> DEFINE T == WidthOf[fn]
           a == x[1]
           b == a - (a % T)
<1>1. T \in Widths /\ a \in RamAddresses
  BY WidthsOfInstructions DEF StoreRam
<1>2. /\ memory' = [o \in Offsets |-> IF o \div T = AddressToIndex(T, a)
                                        THEN Split(T, x[2])[o % T] ELSE memory[o]]
      /\ answer' = <<>> /\ executed' = fn
  BY DEF StoreRam, Poke
<1>3. WidthOf[executed'] = T
  BY <1>2
<1> HIDE DEF T
<1>4. \A k \in 0 .. T - 1 : Split(T, x[2])[k] = Split(4, x[2])[k]
  BY <1>1 DEF Split, Widths
<1>5. ASSUME NEW c \in RamAddresses
      PROVE  memory'[c - MemoryBase] =
               IF c \in b .. b + T - 1 THEN Split(4, x[2])[c - b] ELSE memory[c - MemoryBase]
  <2> DEFINE o == c - MemoryBase
  <2>1. o \in Offsets
    BY RamAssumption DEF Offsets, RamAddresses
  <2>2. memory'[o] = IF o \div T = AddressToIndex(T, a) THEN Split(T, x[2])[o % T] ELSE memory[o]
    BY <1>2, <2>1
  <2>3. /\ o \div T = AddressToIndex(T, a) <=> c \in b .. b + T - 1
        /\ c \in b .. b + T - 1 => o % T = c - b /\ o % T \in 0 .. T - 1
    BY <1>1, OffsetInBlock
  <2> HIDE DEF o, b
  <2> QED
    BY <1>4, <2>2, <2>3 DEF o
<1>6. [c \in RamAddresses |-> memory'[c - MemoryBase]] =
        [c \in RamAddresses |->
           IF c \in b .. b + T - 1 THEN Split(4, x[2])[c - b]
           ELSE [e \in RamAddresses |-> memory[e - MemoryBase]][c]]
  BY <1>5
<1>7. Flat!Access
  BY <1>1, <1>3 DEF Flat!Access, Widths
<1> QED
  BY <1>2, <1>3, <1>6, <1>7 DEF Flat!Write, Flat!Block

(* What the guest sees of the state: the variables of the flat memory. *)
FlatVars == <<[a \in RamAddresses |-> memory[a - MemoryBase]], x[1], Split(4, x[2]),
              WidthOf[executed], answer>>

LEMMA FlatQuiet ==
  ASSUME Untouched, executed' = "none"
  PROVE  Flat!Quiet
BY WidthsOfInstructions DEF Untouched, Flat!Quiet

LEMMA FlatStep == [DataNext]_dataVars => [Flat!FlatNext]_FlatVars
<1> SUFFICES ASSUME [DataNext]_dataVars
             PROVE  Flat!FlatNext \/ UNCHANGED FlatVars
  OBVIOUS
<1>1. ASSUME NEW f \in AluFns, NEW rd \in {1, 2}, Compute(f, rd)
      PROVE  Flat!Quiet
  BY <1>1, FlatQuiet DEF Compute
<1>2. ASSUME NEW fn \in Loads, LoadRam(fn)
      PROVE  Flat!Read
  BY <1>2, LoadReads
<1>3. ASSUME NEW fn \in Stores, StoreRam(fn)
      PROVE  Flat!Write
  BY <1>3, StoreWrites
<1>4. ASSUME NEW fn \in Loads \cup Stores, WordMmio(fn)
      PROVE  Flat!Quiet
  BY <1>4, FlatQuiet DEF WordMmio
<1>5. ASSUME NEW fn \in Loads \cup Stores, SubWordMmio(fn)
      PROVE  Flat!Quiet
  BY <1>5, FlatQuiet DEF SubWordMmio
<1>6. ASSUME Fault
      PROVE  Flat!Quiet
  BY <1>6, FlatQuiet DEF Fault
<1>7. ASSUME UNCHANGED dataVars
      PROVE  UNCHANGED FlatVars
  BY <1>7 DEF dataVars, ramVars, FlatVars, Split
<1> QED
  BY <1>1, <1>2, <1>3, <1>4, <1>5, <1>6, <1>7 DEF DataNext, Flat!FlatNext

(* The three views of RamDevice's array are one flat memory.  No invariant *)
(* is needed: it holds of every step from every state, whatever the        *)
(* register operations and the extension of a load are.                    *)
THEOREM MemoryIsFlat == DataSpec => OneMemory
<1>1. DataInit => Flat!FlatInit
  BY FlatInitially
<1>2. [DataNext]_dataVars => [Flat!FlatNext]_FlatVars
  BY FlatStep
<1> QED
  BY <1>1, <1>2, PTL DEF DataSpec, OneMemory, Flat!FlatSpec, FlatVars
================================================================================
