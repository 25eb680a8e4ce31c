--------------------------------- MODULE MCBus ---------------------------------
(***************************************************************************)
(* A bus in an address space of 256 bytes and the devices that may come to *)
(* it: the machine's own at places like the real ones, one that touches    *)
(* RAM, one that encloses the timer, one that encloses RAM, one that       *)
(* reaches the top of the address space, and one without addresses.        *)
(***************************************************************************)
EXTENDS Bus

Entry(kind, base, size) == [kind |-> kind, base |-> base, size |-> size]

Catalogue ==
  [hart   |-> Entry("cpu", 0, 0),
   ram    |-> Entry("memory", 128, 64),
   rom    |-> Entry("memory", 184, 16),   \* overlaps the end of ram
   clnt   |-> Entry("mmio", 64, 20),
   uart   |-> Entry("mmio", 84, 4),       \* begins where clnt ends
   panel  |-> Entry("mmio", 60, 30),      \* encloses clnt and uart
   screen |-> Entry("mmio", 100, 120),    \* encloses ram and rom
   top    |-> Entry("mmio", 248, 16),     \* its end wraps to 8
   ticker |-> Entry("device", 0, 0)]

MCDevices == DOMAIN Catalogue
MCKind    == [d \in MCDevices |-> Catalogue[d].kind]
MCBase    == [d \in MCDevices |-> Catalogue[d].base]
MCSize    == [d \in MCDevices |-> Catalogue[d].size]
================================================================================
