---------------------------------- MODULE Bus ----------------------------------
(***************************************************************************)
(* The bus, riscv::Bus: what AttachDevice accepts, in any order, and which *)
(* device then answers for an address (FindDeviceForAddress).  System.tla  *)
(* has the traffic on one such bus; here it is the address map that grows. *)
(***************************************************************************)
EXTENDS Words, Sequences

CONSTANTS
  Devices,       \* the objects that may be attached
  Kind,          \* Device::Type() of each
  Base, Size,    \* of those that occupy addresses; they do not change
  NoDevice,      \* the null pointer
  MaxDevices     \* bound of the model on the length of Bus::devices

Kinds == {"device", "cpu", "memory", "mmio"}

ASSUME DeviceAssumption ==
  /\ Kind \in [Devices -> Kinds] /\ NoDevice \notin Devices
  /\ Base \in [Devices -> Word] /\ Size \in [Devices -> Word]
  /\ MaxDevices \in Nat

VARIABLES
  devices,         \* in the order they were attached; Clock and Reset follow it
  mapped_devices,  \* base address -> plain memory
  mmio_devices,    \* base address -> MMIO device
  cpu,
  bus              \* the devices whose own pointer to the bus is set

busVars == <<devices, mapped_devices, mmio_devices, cpu, bus>>

Addressable(d) == Kind[d] \in {"memory", "mmio"}
Claims(d, a)   == Within(a, Base[d], Size[d])

BusInit ==
  /\ devices = <<>> /\ bus = {} /\ cpu = NoDevice
  /\ mapped_devices = [b \in {} |-> NoDevice] /\ mmio_devices = [b \in {} |-> NoDevice]

(* The devices a lookup may return.  The containers are hash tables, so    *)
(* which of several it finds first is not determined.                      *)
TryFind(container, a) ==
  {container[b] : b \in {b \in DOMAIN container : Within(a, b, Size[container[b]])}}

(* Mutant of FindDeviceForAddress: MMIO before memory. *)
FindMmioFirst(a) ==
  LET mmio == TryFind(mmio_devices, a)
  IN  IF mmio # {} THEN mmio ELSE TryFind(mapped_devices, a)

FindDeviceForAddress(a) ==
  LET memory == TryFind(mapped_devices, a)
  IN  IF memory # {} THEN memory ELSE TryFind(mmio_devices, a)

(* Mutants of Refused: one of the two tests left out. *)
RefusedByEnd(d)  == FindDeviceForAddress(Plus(Base[d], Size[d])) # {}
RefusedByBase(d) == FindDeviceForAddress(Base[d]) # {}

Refused(d) ==
  \/ FindDeviceForAddress(Base[d]) # {}
  \/ FindDeviceForAddress(Plus(Base[d], Size[d])) # {}

Insert(container, b, d) ==
  [x \in DOMAIN container \cup {b} |-> IF x = b THEN d ELSE container[x]]

PushBack(d) == Len(devices) < MaxDevices /\ devices' = Append(devices, d)

--------------------------------------------------------------------------------
(* AttachDevice: an action for each kind, and the refusal.  The device     *)
(* learns of the bus before the bus has decided.                           *)

AttachCpu(d) ==
  /\ Kind[d] = "cpu" /\ cpu' = d
  /\ bus' = bus \cup {d} /\ UNCHANGED <<devices, mapped_devices, mmio_devices>>

AttachMemory(d) ==
  /\ Kind[d] = "memory" /\ ~Refused(d)
  /\ mapped_devices' = Insert(mapped_devices, Base[d], d)
  /\ PushBack(d)
  /\ bus' = bus \cup {d} /\ UNCHANGED <<mmio_devices, cpu>>

(* Mutant of AttachMmio: into the table of plain memory. *)
AttachMmioMapped(d) ==
  /\ Kind[d] = "mmio" /\ ~Refused(d)
  /\ mapped_devices' = Insert(mapped_devices, Base[d], d)
  /\ PushBack(d)
  /\ bus' = bus \cup {d} /\ UNCHANGED <<mmio_devices, cpu>>

AttachMmio(d) ==
  /\ Kind[d] = "mmio" /\ ~Refused(d)
  /\ mmio_devices' = Insert(mmio_devices, Base[d], d)
  /\ PushBack(d)
  /\ bus' = bus \cup {d} /\ UNCHANGED <<mapped_devices, cpu>>

AttachOther(d) ==
  /\ Kind[d] = "device" /\ PushBack(d)
  /\ bus' = bus \cup {d} /\ UNCHANGED <<mapped_devices, mmio_devices, cpu>>

AttachRefused(d) ==
  /\ Addressable(d) /\ Refused(d)
  /\ bus' = bus \cup {d} /\ UNCHANGED <<devices, mapped_devices, mmio_devices, cpu>>

AttachDevice(d) ==
  \/ AttachCpu(d) \/ AttachMemory(d) \/ AttachMmio(d) \/ AttachOther(d) \/ AttachRefused(d)

BusNext == \E d \in Devices : AttachDevice(d)

BusSpec == BusInit /\ [][BusNext]_busVars

--------------------------------------------------------------------------------
(* Properties. *)

(* Every table holds devices of its own kind, each under its own base, so  *)
(* the Upcast that follows a lookup is one the device allows.              *)
BusTypeOK ==
  /\ devices \in Seq(Devices) /\ bus \subseteq Devices
  /\ cpu \in {d \in Devices : Kind[d] = "cpu"} \cup {NoDevice}
  /\ DOMAIN mapped_devices \subseteq Word /\ DOMAIN mmio_devices \subseteq Word
  /\ \A b \in DOMAIN mapped_devices :
       LET d == mapped_devices[b] IN d \in Devices /\ Kind[d] = "memory" /\ Base[d] = b
  /\ \A b \in DOMAIN mmio_devices :
       LET d == mmio_devices[b] IN d \in Devices /\ Kind[d] = "mmio" /\ Base[d] = b

(* The list that Clock and Reset walk and the tables that Peek and Poke    *)
(* search agree: a device with addresses is in its table exactly when it   *)
(* is in the list, and in the list once, so it is clocked once per tick    *)
(* however often it is attached.                                           *)
InTable(d) ==
  \/ Kind[d] = "memory" /\ Base[d] \in DOMAIN mapped_devices /\ mapped_devices[Base[d]] = d
  \/ Kind[d] = "mmio" /\ Base[d] \in DOMAIN mmio_devices /\ mmio_devices[Base[d]] = d

ListedOnce ==
  /\ \A i, j \in DOMAIN devices : Addressable(devices[i]) /\ devices[i] = devices[j] => i = j
  /\ \A d \in Devices : Addressable(d) => (InTable(d) <=> \E i \in DOMAIN devices : devices[i] = d)

(* The two tests of AttachDevice look at the ends of the new device only.  *)
(* What they leave possible: a later device may overlap an earlier one     *)
(* only by claiming all of its addresses and beginning below it.           *)
OverlapEncloses ==
  \A j \in DOMAIN devices : \A i \in 1 .. j - 1 :
    LET d == devices[i]
        e == devices[j]
    IN  (Addressable(d) /\ Addressable(e) /\ \E a \in Word : Claims(d, a) /\ Claims(e, a))
          => Base[e] < Base[d] /\ \A a \in Word : Claims(d, a) => Claims(e, a)

(* The guest's memory is not taken from it: an address that plain memory   *)
(* answers is never answered by an MMIO device, or by nothing, later on.   *)
MemoryKept ==
  [][\A a \in Word :
       (\E d \in FindDeviceForAddress(a) : Kind[d] = "memory")
         => /\ FindDeviceForAddress(a)' # {}
            /\ \A d \in FindDeviceForAddress(a)' : Kind[d] = "memory"]_busVars
================================================================================
