------------------------------- MODULE BusProofs -------------------------------
(***************************************************************************)
(* The address map keeps its shape whatever is attached, in any order.     *)
(***************************************************************************)
EXTENDS Bus, TLAPS

(* The three invariants together are inductive: a refusal looks at the     *)
(* tables, and ListedOnce ties the tables to the list.                     *)
BusIInv == BusTypeOK /\ ListedOnce /\ OverlapEncloses

--------------------------------------------------------------------------------
(* Addresses. *)

LEMMA PlusIsWord == ASSUME NEW a \in Word, NEW b \in Word PROVE Plus(a, b) \in Word
BY WidthAssumption DEF Plus, Word

LEMMA ClaimsBase == ASSUME NEW d PROVE Claims(d, Base[d])
BY DEF Claims, Within

(* Two ranges that meet although neither end of the later one is in the    *)
(* earlier one: the later one encloses it.                                 *)
LEMMA MeetingRanges ==
  ASSUME NEW d \in Devices, NEW e \in Devices,
         ~Claims(d, Base[e]), ~Claims(d, Plus(Base[e], Size[e])),
         NEW x \in Word, Claims(d, x), Claims(e, x)
  PROVE  Base[e] < Base[d] /\ \A a \in Word : Claims(d, a) => Claims(e, a)
<1> DEFINE b == Base[d]
           t == Plus(Base[d], Size[d])
           c == Base[e]
           u == Plus(Base[e], Size[e])
<1>1. b \in Int /\ t \in Int /\ c \in Int /\ u \in Int /\ x \in Int
  BY PlusIsWord, DeviceAssumption, WidthAssumption DEF Word
<1>2. /\ ~(c = b \/ (c >= b /\ c < t)) /\ ~(u = b \/ (u >= b /\ u < t))
      /\ x = b \/ (x >= b /\ x < t)
      /\ x = c \/ (x >= c /\ x < u)
  BY DEF Claims, Within
<1> HIDE DEF b, t, c, u
<1>3. c < b /\ b < u /\ (b < t => t <= u)
  BY <1>1, <1>2
<1>4. ASSUME NEW a \in Word, a = b \/ (a >= b /\ a < t)
      PROVE  a >= c /\ a < u
  <2>1. a \in Int
    BY WidthAssumption DEF Word
  <2> QED
    BY <1>1, <1>3, <1>4, <2>1
<1> QED
  BY <1>3, <1>4 DEF Claims, Within, b, t, c, u

--------------------------------------------------------------------------------
(* Lookup. *)

LEMMA FoundClaims ==
  ASSUME BusTypeOK, NEW a \in Word, NEW d \in FindDeviceForAddress(a)
  PROVE  d \in Devices /\ InTable(d) /\ Claims(d, a)
BY DEF BusTypeOK, FindDeviceForAddress, TryFind, InTable, Claims

LEMMA ClaimedIsFound ==
  ASSUME BusTypeOK, NEW a \in Word, NEW d \in Devices, InTable(d), Claims(d, a)
  PROVE  FindDeviceForAddress(a) # {}
<1>1. CASE Kind[d] = "memory"
  <2>1. d \in TryFind(mapped_devices, a)
    BY <1>1 DEF InTable, TryFind, Claims
  <2> QED
    BY <2>1 DEF FindDeviceForAddress
<1>2. CASE Kind[d] = "mmio"
  <2>1. d \in TryFind(mmio_devices, a)
    BY <1>2 DEF InTable, TryFind, Claims
  <2> QED
    BY <2>1 DEF FindDeviceForAddress
<1> QED
  BY <1>1, <1>2 DEF InTable

(* Memory answers an address exactly when some memory in the table claims  *)
(* it, and then only memory does.                                          *)
LEMMA MemoryAnswers ==
  ASSUME BusTypeOK, NEW a \in Word
  PROVE  /\ TryFind(mapped_devices, a) # {}
              => /\ FindDeviceForAddress(a) # {}
                 /\ \A d \in FindDeviceForAddress(a) : Kind[d] = "memory"
         /\ (\E d \in FindDeviceForAddress(a) : Kind[d] = "memory")
              => TryFind(mapped_devices, a) # {}
BY DEF BusTypeOK, FindDeviceForAddress, TryFind

--------------------------------------------------------------------------------
(* What attaching a device does. *)

LEMMA Unrefused ==
  ASSUME BusIInv, NEW d \in Devices, Addressable(d), ~Refused(d)
  PROVE  /\ ~InTable(d)
         /\ Base[d] \notin DOMAIN mapped_devices /\ Base[d] \notin DOMAIN mmio_devices
         /\ \A i \in DOMAIN devices : Addressable(devices[i]) =>
              ~Claims(devices[i], Base[d]) /\ ~Claims(devices[i], Plus(Base[d], Size[d]))
<1>1. Base[d] \in Word /\ Plus(Base[d], Size[d]) \in Word
  BY PlusIsWord, DeviceAssumption
<1>2. FindDeviceForAddress(Base[d]) = {} /\ FindDeviceForAddress(Plus(Base[d], Size[d])) = {}
  BY DEF Refused
<1>3. ~InTable(d)
  BY <1>1, <1>2, ClaimedIsFound, ClaimsBase DEF BusIInv
<1>4. TryFind(mapped_devices, Base[d]) = {} /\ TryFind(mmio_devices, Base[d]) = {}
  BY <1>2 DEF FindDeviceForAddress
<1>5. Base[d] \notin DOMAIN mapped_devices /\ Base[d] \notin DOMAIN mmio_devices
  BY <1>4 DEF TryFind, Within
<1>6. ASSUME NEW i \in DOMAIN devices, Addressable(devices[i])
      PROVE  ~Claims(devices[i], Base[d]) /\ ~Claims(devices[i], Plus(Base[d], Size[d]))
  <2>1. devices[i] \in Devices
    BY <1>6 DEF BusIInv, BusTypeOK
  <2>2. InTable(devices[i])
    BY <1>6, <2>1 DEF BusIInv, ListedOnce
  <2> QED
    BY <1>1, <1>2, <2>1, <2>2, ClaimedIsFound DEF BusIInv
<1> QED
  BY <1>3, <1>5, <1>6

(* A device at the end of the list.                                        *)
LEMMA Pushed ==
  ASSUME BusTypeOK, NEW d \in Devices, PushBack(d)
  PROVE  /\ devices' \in Seq(Devices) /\ Len(devices') = Len(devices) + 1
         /\ DOMAIN devices = 1 .. Len(devices) /\ DOMAIN devices' = 1 .. Len(devices) + 1
         /\ devices'[Len(devices) + 1] = d
         /\ \A i \in 1 .. Len(devices) : devices'[i] = devices[i]
BY DEF BusTypeOK, PushBack

LEMMA AttachedInOrder ==
  ASSUME BusIInv, NEW d \in Devices, Addressable(d), ~Refused(d), PushBack(d)
  PROVE  OverlapEncloses'
<1> DEFINE n == Len(devices)
<1>1. n \in Nat
  BY DEF BusIInv, BusTypeOK
<1>2. SUFFICES ASSUME NEW j \in 1 .. n + 1, NEW i \in 1 .. j - 1,
                      Addressable(devices'[i]), Addressable(devices'[j]),
                      NEW x \in Word, Claims(devices'[i], x), Claims(devices'[j], x)
               PROVE  /\ Base[devices'[j]] < Base[devices'[i]]
                      /\ \A a \in Word : Claims(devices'[i], a) => Claims(devices'[j], a)
  BY Pushed DEF BusIInv, OverlapEncloses, Addressable, Claims
<1>3. i \in 1 .. n /\ devices'[i] = devices[i] /\ devices[i] \in Devices /\ DOMAIN devices = 1 .. n
  BY <1>1, <1>2, Pushed DEF BusIInv, BusTypeOK
<1>4. CASE j = n + 1
  <2>1. devices'[j] = d
    BY <1>4, Pushed DEF BusIInv
  <2>2. ~Claims(devices[i], Base[d]) /\ ~Claims(devices[i], Plus(Base[d], Size[d]))
    BY <1>2, <1>3, Unrefused
  <2> QED
    BY <1>2, <1>3, <2>1, <2>2, MeetingRanges
<1>5. CASE j \in 1 .. n
  <2>1. devices'[j] = devices[j]
    BY <1>5, Pushed DEF BusIInv
  <2> QED
    BY <1>2, <1>3, <1>5, <2>1 DEF BusIInv, OverlapEncloses
<1> QED
  BY <1>1, <1>4, <1>5

LEMMA AttachedOnce ==
  ASSUME BusIInv, NEW d \in Devices, Addressable(d), ~Refused(d), PushBack(d),
         InTable(d)', \A e \in Devices \ {d} : InTable(e)' <=> InTable(e)
  PROVE  ListedOnce'
<1> DEFINE n == Len(devices)
<1>1. n \in Nat /\ DOMAIN devices = 1 .. n /\ DOMAIN devices' = 1 .. n + 1 /\ devices'[n + 1] = d
      /\ \A i \in 1 .. n : devices'[i] = devices[i] /\ devices[i] \in Devices
  BY Pushed DEF BusIInv, BusTypeOK
<1>2. ~InTable(d)
  BY Unrefused
<1>3. \A i \in 1 .. n : devices[i] # d
  BY <1>1, <1>2 DEF BusIInv, ListedOnce
<1>4. ASSUME NEW i \in 1 .. n + 1, NEW j \in 1 .. n + 1,
             Addressable(devices'[i]), devices'[i] = devices'[j]
      PROVE  i = j
  <2>1. (i \in 1 .. n \/ i = n + 1) /\ (j \in 1 .. n \/ j = n + 1)
    BY <1>1
  <2>2. CASE i \in 1 .. n /\ j \in 1 .. n
    BY <1>1, <1>4, <2>2 DEF BusIInv, ListedOnce
  <2>3. CASE i = n + 1 \/ j = n + 1
    BY <1>1, <1>3, <1>4, <2>1, <2>3
  <2> QED
    BY <2>1, <2>2, <2>3
<1>5. ASSUME NEW e \in Devices, Addressable(e)
      PROVE  InTable(e)' <=> \E i \in 1 .. n + 1 : devices'[i] = e
  <2>1. CASE e = d
    BY <1>1, <2>1
  <2>2. CASE e # d
    <3>1. InTable(e)' <=> \E i \in 1 .. n : devices[i] = e
      BY <1>1, <1>5, <2>2 DEF BusIInv, ListedOnce
    <3>2. (\E i \in 1 .. n : devices[i] = e) <=> \E i \in 1 .. n + 1 : devices'[i] = e
      BY <1>1, <2>2
    <3> QED
      BY <3>1, <3>2
  <2> QED
    BY <2>1, <2>2
<1> QED
  BY <1>1, <1>4, <1>5 DEF ListedOnce, Addressable

--------------------------------------------------------------------------------
(* The actions. *)

LEMMA AttachMemoryStep ==
  ASSUME BusIInv, NEW d \in Devices, AttachMemory(d) PROVE BusIInv'
<1>1. Addressable(d) /\ ~Refused(d) /\ PushBack(d) /\ Base[d] \in Word
  BY DeviceAssumption DEF AttachMemory, Addressable
<1>2. BusTypeOK'
  <2>1. devices' \in Seq(Devices)
    BY <1>1, Pushed DEF BusIInv
  <2> QED
    BY <1>1, <2>1 DEF Insert, BusIInv, BusTypeOK, AttachMemory
<1>3. InTable(d)'
  BY DEF Insert, AttachMemory, InTable
<1>4. ASSUME NEW e \in Devices \ {d} PROVE InTable(e)' <=> InTable(e)
  BY <1>1, Unrefused DEF Insert, AttachMemory, InTable
<1> QED
  BY <1>1, <1>2, <1>3, <1>4, AttachedOnce, AttachedInOrder DEF BusIInv

LEMMA AttachMmioStep ==
  ASSUME BusIInv, NEW d \in Devices, AttachMmio(d) PROVE BusIInv'
<1>1. Addressable(d) /\ ~Refused(d) /\ PushBack(d) /\ Base[d] \in Word
  BY DeviceAssumption DEF AttachMmio, Addressable
<1>2. BusTypeOK'
  <2>1. devices' \in Seq(Devices)
    BY <1>1, Pushed DEF BusIInv
  <2> QED
    BY <1>1, <2>1 DEF Insert, BusIInv, BusTypeOK, AttachMmio
<1>3. InTable(d)'
  BY DEF Insert, AttachMmio, InTable
<1>4. ASSUME NEW e \in Devices \ {d} PROVE InTable(e)' <=> InTable(e)
  BY <1>1, Unrefused DEF Insert, AttachMmio, InTable
<1> QED
  BY <1>1, <1>2, <1>3, <1>4, AttachedOnce, AttachedInOrder DEF BusIInv

LEMMA AttachOtherStep ==
  ASSUME BusIInv, NEW d \in Devices, AttachOther(d) PROVE BusIInv'
<1> DEFINE n == Len(devices)
<1>1. PushBack(d) /\ ~Addressable(d)
  BY DEF AttachOther, Addressable
<1>2. n \in Nat /\ DOMAIN devices = 1 .. n /\ DOMAIN devices' = 1 .. n + 1 /\ devices'[n + 1] = d
      /\ \A i \in 1 .. n : devices'[i] = devices[i] /\ devices[i] \in Devices
  BY <1>1, Pushed DEF BusIInv, BusTypeOK
<1>3. BusTypeOK'
  BY <1>1, Pushed DEF BusIInv, BusTypeOK, AttachOther
<1>4. ListedOnce'
  BY <1>1, <1>2 DEF BusIInv, ListedOnce, AttachOther, InTable, Addressable
<1>5. OverlapEncloses'
  <2>1. SUFFICES ASSUME NEW j \in 1 .. n + 1, NEW i \in 1 .. j - 1,
                        Addressable(devices'[i]), Addressable(devices'[j]),
                        NEW x \in Word, Claims(devices'[i], x), Claims(devices'[j], x)
                 PROVE  /\ Base[devices'[j]] < Base[devices'[i]]
                        /\ \A a \in Word : Claims(devices'[i], a) => Claims(devices'[j], a)
    BY <1>2 DEF OverlapEncloses, Addressable, Claims
  <2>2. j \in 1 .. n /\ i \in 1 .. n
    BY <1>1, <1>2, <2>1
  <2>3. devices'[i] = devices[i] /\ devices'[j] = devices[j]
    BY <1>2, <2>2
  <2> QED
    BY <1>2, <2>1, <2>2, <2>3 DEF BusIInv, OverlapEncloses
<1> QED
  BY <1>3, <1>4, <1>5 DEF BusIInv

LEMMA SameMapStep ==
  ASSUME BusIInv, NEW d \in Devices, AttachCpu(d) \/ AttachRefused(d) PROVE BusIInv'
<1>1. UNCHANGED <<devices, mapped_devices, mmio_devices>>
  BY DEF AttachCpu, AttachRefused
<1>2. BusTypeOK'
  BY <1>1 DEF BusIInv, BusTypeOK, AttachCpu, AttachRefused
<1> QED
  BY <1>1, <1>2 DEF BusIInv, ListedOnce, OverlapEncloses, InTable, Addressable, Claims

--------------------------------------------------------------------------------

(* The shape of the address map, for any devices in any order: tables and  *)
(* list agree, and a later device overlaps an earlier one only by          *)
(* enclosing it (Bus::AttachDevice).                                       *)
THEOREM BusInvariant == BusSpec => []BusIInv
<1>1. BusInit => BusIInv
  BY DEF BusInit, BusIInv, BusTypeOK, ListedOnce, OverlapEncloses, InTable
<1>2. BusIInv /\ [BusNext]_busVars => BusIInv'
  <2> SUFFICES ASSUME BusIInv, [BusNext]_busVars PROVE BusIInv'
    OBVIOUS
  <2>1. ASSUME NEW d \in Devices, AttachDevice(d) PROVE BusIInv'
    BY <2>1, AttachMemoryStep, AttachMmioStep, AttachOtherStep, SameMapStep DEF AttachDevice
  <2>2. CASE UNCHANGED busVars
    BY <2>2 DEF busVars, BusIInv, BusTypeOK, ListedOnce, OverlapEncloses, InTable, Addressable, Claims
  <2> QED
    BY <2>1, <2>2 DEF BusNext
<1> QED
  BY <1>1, <1>2, PTL DEF BusSpec

(* Type correctness of the bus: every table holds devices of its kind      *)
(* under their own bases, whatever is attached.                            *)
THEOREM BusTypeCorrect == BusSpec => []BusTypeOK
<1>1. BusIInv => BusTypeOK
  BY DEF BusIInv
<1> QED
  BY <1>1, BusInvariant, PTL

(* A device with addresses is in the list that is clocked exactly when the *)
(* guest can reach its table entry, and once.                              *)
THEOREM DevicesListedOnce == BusSpec => []ListedOnce
<1>1. BusIInv => ListedOnce
  BY DEF BusIInv
<1> QED
  BY <1>1, BusInvariant, PTL

(* AttachDevice leaves one way to shadow a device: enclosing it.           *)
THEOREM OnlyEnclosingShadows == BusSpec => []OverlapEncloses
<1>1. BusIInv => OverlapEncloses
  BY DEF BusIInv
<1> QED
  BY <1>1, BusInvariant, PTL

(* No later device takes the guest's memory from it.                       *)
THEOREM MemoryIsKept == BusSpec => MemoryKept
<1>1. ASSUME BusIInv, BusIInv', [BusNext]_busVars, NEW a \in Word,
             \E d \in FindDeviceForAddress(a) : Kind[d] = "memory"
      PROVE  /\ FindDeviceForAddress(a)' # {}
             /\ \A d \in FindDeviceForAddress(a)' : Kind[d] = "memory"
  <2>1. PICK b \in DOMAIN mapped_devices : Within(a, b, Size[mapped_devices[b]])
    BY <1>1, MemoryAnswers DEF BusIInv, TryFind
  <2>2. b \in DOMAIN mapped_devices' /\ mapped_devices'[b] = mapped_devices[b]
    <3>1. ASSUME NEW d \in Devices, AttachMemory(d)
          PROVE  b \in DOMAIN mapped_devices' /\ mapped_devices'[b] = mapped_devices[b]
      <4>1. Base[d] \notin DOMAIN mapped_devices
        BY <1>1, <3>1, Unrefused DEF AttachMemory, Addressable
      <4> QED
        BY <2>1, <3>1, <4>1 DEF Insert, AttachMemory
    <3>2. ASSUME NEW d \in Devices, AttachDevice(d), ~AttachMemory(d)
          PROVE  mapped_devices' = mapped_devices
      BY <3>2 DEF AttachDevice, AttachCpu, AttachMmio, AttachOther, AttachRefused
    <3> QED
      BY <1>1, <2>1, <3>1, <3>2 DEF BusNext, busVars
  <2>3. TryFind(mapped_devices, a)' # {}
    BY <2>1, <2>2 DEF TryFind
  <2> QED
    BY <1>1, <2>3 DEF BusIInv, BusTypeOK, FindDeviceForAddress, TryFind
<1>2. BusIInv /\ BusIInv' /\ [BusNext]_busVars =>
        [\A a \in Word :
           (\E d \in FindDeviceForAddress(a) : Kind[d] = "memory")
             => /\ FindDeviceForAddress(a)' # {}
                /\ \A d \in FindDeviceForAddress(a)' : Kind[d] = "memory"]_busVars
  BY <1>1
<1> QED
  BY <1>2, BusInvariant, PTL DEF BusSpec, MemoryKept
================================================================================
