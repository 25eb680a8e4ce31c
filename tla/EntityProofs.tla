------------------------------ MODULE EntityProofs -----------------------------
(***************************************************************************)
(* For any number of entities, objects and property names: while scripts   *)
(* leave an entity's cpu to the entity and keep a reference to what they   *)
(* attach, no bus in use points to a deleted device.                       *)
(***************************************************************************)
EXTENDS Entity, TLAPS

--------------------------------------------------------------------------------
(* The inductive invariant. *)

(* Fields are held, and no two entities share an object. *)
FieldsOK ==
  /\ fields \in [Entities -> SUBSET Objects]
  /\ \A e \in Entities : fields[e] \subseteq held
  /\ \A e, f \in Entities : e # f => fields[e] \cap fields[f] = {}

(* Only devices are put in tables, so cpus are never found there.          *)
DevicesStored == \A o \in Objects : Stored(o) \subseteq LuaDevices

(* A cpu in use belongs to an entity, and each device on its bus is kept   *)
(* by a field of that entity, by the cpu's own table, or by a script that  *)
(* knows what it holds.                                                    *)
HeldLoose == {o \in held : Loose(o)}

BusKept ==
  \A c \in Cpus \cap held :
    \E e \in Entities : c \in fields[e] /\ attached[c] \subseteq fields[e] \cup Stored(c) \cup HeldLoose

EntInv == ObjTypeOK /\ StoredAlive /\ FieldsOK /\ DevicesStored /\ BusKept

--------------------------------------------------------------------------------
(* A new object's table refers to no object. *)
LEMMA FreshTable ==
  ASSUME NEW o \in Objects
  PROVE  /\ InitialTable(o) \in [Keys -> Values] /\ EmptyTable \in [Keys -> Values]
         /\ \A k \in Keys : InitialTable(o)[k] \notin Objects /\ EmptyTable[k] \notin Objects
BY ObjectAssumption DEF InitialTable, EmptyTable, Values

LEMMA InitHolds == EntInit => EntInv
<1> SUFFICES ASSUME EntInit PROVE EntInv
  OBVIOUS
<1> USE DEF EntInit, ObjInit
<1>1. \A o \in Objects : Stored(o) = {}
  BY FreshTable DEF Stored
<1>2. ObjTypeOK
  BY FreshTable, ObjectAssumption DEF ObjTypeOK, Objects, EmptyTable, Values
<1>3. StoredAlive /\ FieldsOK /\ DevicesStored /\ BusKept
  BY <1>1 DEF StoredAlive, FieldsOK, DevicesStored, BusKept
<1> QED
  BY <1>2, <1>3 DEF EntInv

LEMMA InitializeKeeps ==
  ASSUME EntInv, NEW e \in Entities, Initialize(e)
  PROVE  EntInv'
<1> PICK c \in Cpus \ alive, u \in LuaDevices \ alive, w \in LuaDevices \ alive :
      /\ alive' = alive \cup {c, u, w} /\ held' = held \cup {c, u, w}
      /\ table' = [o \in Objects |-> IF o \in {c, u, w} THEN InitialTable(o) ELSE table[o]]
      /\ attached' = [attached EXCEPT ![c] = {u, w}]
      /\ fields' = [fields EXCEPT ![e] = {c, u, w}]
  BY DEF Initialize, Parts
<1> c \in Objects /\ u \in Objects /\ w \in Objects
  BY DEF Objects
<1>e. fields[e] = {}
  BY DEF Initialize
<1>t. ObjTypeOK /\ StoredAlive /\ FieldsOK /\ DevicesStored /\ BusKept
  BY DEF EntInv
<1>s. \A o \in Objects : Stored(o)' = IF o \in {c, u, w} THEN {} ELSE Stored(o)
  BY FreshTable DEF Stored
<1>1. ObjTypeOK'
  <2>1. table' \in [Objects -> [Keys -> Values]]
    BY <1>t, FreshTable DEF ObjTypeOK
  <2>2. attached' \in [Cpus -> SUBSET LuaDevices] /\ alive' \subseteq Objects /\ held' \subseteq alive'
    BY <1>t DEF ObjTypeOK
  <2>3. /\ \A o \in Objects \ alive' : table'[o] = EmptyTable
        /\ \A b \in Cpus \ alive' : attached'[b] = {}
    BY <1>t DEF ObjTypeOK, Objects
  <2> QED
    BY <2>1, <2>2, <2>3 DEF ObjTypeOK, EmptyTable
<1>2. StoredAlive' /\ DevicesStored'
  BY <1>s, <1>t DEF StoredAlive, DevicesStored, ObjTypeOK
<1>3. FieldsOK'
  BY <1>e, <1>t DEF FieldsOK, ObjTypeOK
<1>l. HeldLoose \subseteq HeldLoose'
  BY <1>t DEF HeldLoose, Loose, FieldsOK, ObjTypeOK
<1>4. BusKept'
  <2> SUFFICES ASSUME NEW b \in Cpus, b \in held'
               PROVE  \E f \in Entities : b \in fields'[f] /\ attached'[b] \subseteq fields'[f] \cup Stored(b)' \cup HeldLoose'
    BY DEF BusKept
  <2>1. CASE b = c
    BY <2>1, <1>t DEF FieldsOK, ObjTypeOK
  <2>2. CASE b # c
    <3>1. b \in held /\ b \notin {c, u, w} /\ b \in Objects
      BY <2>2, <1>t, ObjectAssumption DEF ObjTypeOK, Objects
    <3>2. PICK f \in Entities : b \in fields[f] /\ attached[b] \subseteq fields[f] \cup Stored(b) \cup HeldLoose
      BY <3>1, <1>t DEF BusKept
    <3>3. f # e
      BY <3>2, <1>e
    <3> QED
      BY <3>1, <3>2, <3>3, <1>s, <1>t, <1>l, <2>2 DEF FieldsOK, ObjTypeOK
  <2> QED
    BY <2>1, <2>2
<1> QED
  BY <1>1, <1>2, <1>3, <1>4 DEF EntInv

LEMMA RemoveKeeps ==
  ASSUME EntInv, NEW e \in Entities, Remove(e)
  PROVE  EntInv'
<1> PICK kept \in SUBSET (fields[e] \cap LuaDevices) : held' = held \ (fields[e] \ kept)
  BY DEF Remove
<1>r. fields' = [fields EXCEPT ![e] = {}] /\ UNCHANGED <<alive, table, attached>>
  BY DEF Remove
<1>t. ObjTypeOK /\ StoredAlive /\ FieldsOK /\ DevicesStored /\ BusKept
  BY DEF EntInv
<1>s. \A o \in Objects : Stored(o)' = Stored(o)
  BY <1>r DEF Stored
<1>1. ObjTypeOK' /\ StoredAlive' /\ DevicesStored'
  BY <1>r, <1>s, <1>t DEF ObjTypeOK, StoredAlive, DevicesStored, EmptyTable
<1>2. FieldsOK'
  BY <1>r, <1>t DEF FieldsOK
<1>l. HeldLoose \subseteq HeldLoose'
  BY <1>r, <1>t DEF HeldLoose, Loose, FieldsOK
<1>3. BusKept'
  <2> SUFFICES ASSUME NEW b \in Cpus, b \in held'
               PROVE  \E f \in Entities : b \in fields'[f] /\ attached'[b] \subseteq fields'[f] \cup Stored(b)' \cup HeldLoose'
    BY DEF BusKept
  <2>1. b \in held /\ b \notin fields[e] /\ b \in Objects
    BY ObjectAssumption DEF Objects
  <2>2. PICK f \in Entities : b \in fields[f] /\ attached[b] \subseteq fields[f] \cup Stored(b) \cup HeldLoose
    BY <2>1, <1>t DEF BusKept
  <2>3. f # e
    BY <2>1, <2>2
  <2> QED
    BY <1>r, <1>s, <1>t, <1>l, <2>1, <2>2, <2>3 DEF FieldsOK
<1> QED
  BY <1>1, <1>2, <1>3 DEF EntInv

LEMMA NewDeviceKeeps ==
  ASSUME EntInv, NEW d \in LuaDevices, NewDevice(d)
  PROVE  EntInv'
<1>t. ObjTypeOK /\ StoredAlive /\ FieldsOK /\ DevicesStored /\ BusKept
  BY DEF EntInv
<1>p. /\ d \notin alive /\ alive' = alive \cup {d} /\ held' = held \cup {d}
      /\ table' = [table EXCEPT ![d] = InitialTable(d)] /\ UNCHANGED <<attached, fields>>
  BY DEF NewDevice, Create
<1>o. d \in Objects /\ d \notin Cpus
  BY ObjectAssumption DEF Objects
<1>f. table'[d] = InitialTable(d) /\ \A o \in Objects \ {d} : table'[o] = table[o]
  BY <1>p, <1>o, <1>t DEF ObjTypeOK
<1>s. \A o \in Objects : Stored(o)' = IF o = d THEN {} ELSE Stored(o)
  BY <1>f, <1>o, FreshTable DEF Stored
<1>1. ObjTypeOK'
  <2>1. table' \in [Objects -> [Keys -> Values]]
    BY <1>p, <1>o, <1>t, FreshTable DEF ObjTypeOK
  <2>2. attached' \in [Cpus -> SUBSET LuaDevices] /\ alive' \subseteq Objects /\ held' \subseteq alive'
    BY <1>p, <1>t, <1>o DEF ObjTypeOK
  <2>3. /\ \A o \in Objects \ alive' : table'[o] = EmptyTable
        /\ \A b \in Cpus \ alive' : attached'[b] = {}
    BY <1>p, <1>t, <1>o, <1>f DEF ObjTypeOK
  <2> QED
    BY <2>1, <2>2, <2>3 DEF ObjTypeOK, EmptyTable
<1>2. StoredAlive' /\ DevicesStored'
  BY <1>p, <1>o, <1>s, <1>t DEF StoredAlive, DevicesStored, ObjTypeOK
<1>3. FieldsOK'
  BY <1>p, <1>t DEF FieldsOK
<1>4. BusKept'
  <2>1. HeldLoose \subseteq HeldLoose'
    BY <1>p DEF HeldLoose, Loose
  <2>2. \A c \in Cpus \cap held' : c \in held /\ Stored(c)' = Stored(c)
    BY <1>p, <1>o, <1>s DEF Objects
  <2> QED
    BY <1>p, <1>t, <2>1, <2>2 DEF BusKept
<1> QED
  BY <1>1, <1>2, <1>3, <1>4 DEF EntInv

LEMMA AttachKeeps ==
  ASSUME EntInv, NEW c \in Cpus, NEW d \in LuaDevices, AttachLoose(c, d)
  PROVE  EntInv'
<1>t. ObjTypeOK /\ StoredAlive /\ FieldsOK /\ DevicesStored /\ BusKept
  BY DEF EntInv
<1>p. /\ c \in held /\ d \in held /\ Loose(d)
      /\ attached' = [attached EXCEPT ![c] = @ \cup {d}] /\ UNCHANGED <<alive, table, held, fields>>
  BY DEF AttachLoose, AttachDevice
<1>s. \A o \in Objects : Stored(o)' = Stored(o)
  BY <1>p DEF Stored
<1>1. ObjTypeOK' /\ StoredAlive' /\ DevicesStored' /\ FieldsOK'
  <2>1. attached' \in [Cpus -> SUBSET LuaDevices] /\ \A b \in Cpus \ alive : attached'[b] = {}
    BY <1>p, <1>t DEF ObjTypeOK
  <2> QED
    BY <2>1, <1>p, <1>s, <1>t DEF ObjTypeOK, StoredAlive, DevicesStored, FieldsOK, EmptyTable
<1>2. BusKept'
  <2>1. HeldLoose' = HeldLoose /\ d \in HeldLoose
    BY <1>p DEF HeldLoose, Loose
  <2>2. \A b \in Cpus : attached'[b] \subseteq attached[b] \cup {d}
    BY <1>p, <1>t DEF ObjTypeOK
  <2> QED
    BY <1>p, <1>s, <1>t, <2>1, <2>2 DEF BusKept, Objects
<1> QED
  BY <1>1, <1>2 DEF EntInv

LEMMA StoreKeeps ==
  ASSUME EntInv, NEW c \in Cpus, NEW k \in Keys, NEW v \in LuaDevices \cup {Nil}, StoreDevice(c, k, v)
  PROVE  EntInv'
<1>t. ObjTypeOK /\ StoredAlive /\ FieldsOK /\ DevicesStored /\ BusKept
  BY DEF EntInv
<1>p. /\ c \in held /\ v \in held \cup {Nil, Plain} /\ table[c][k] \notin attached[c]
      /\ table' = [table EXCEPT ![c][k] = v] /\ UNCHANGED <<alive, attached, held, fields>>
  BY DEF StoreDevice, Assign
<1>o. c \in Objects /\ c \in alive /\ v \in Values /\ Nil \notin Objects /\ (v \in Objects => v \in LuaDevices \cap alive)
  BY <1>p, <1>t, ObjectAssumption DEF Objects, Values, ObjTypeOK
<1>f. table'[c] = [table[c] EXCEPT ![k] = v] /\ \A o \in Objects \ {c} : table'[o] = table[o]
  BY <1>p, <1>o, <1>t DEF ObjTypeOK
<1>g. table[c] \in [Keys -> Values]
  BY <1>o, <1>t DEF ObjTypeOK
<1>s. /\ Stored(c) \subseteq Stored(c)' \cup {table[c][k]}
      /\ Stored(c)' \subseteq Stored(c) \cup ({v} \cap Objects)
      /\ \A o \in Objects \ {c} : Stored(o)' = Stored(o)
  <2>1. \A j \in Keys : table'[c][j] = IF j = k THEN v ELSE table[c][j]
    BY <1>f, <1>g
  <2>2. Stored(c) \subseteq Stored(c)' \cup {table[c][k]} /\ Stored(c)' \subseteq Stored(c) \cup ({v} \cap Objects)
    BY <2>1 DEF Stored
  <2>3. \A o \in Objects \ {c} : Stored(o)' = Stored(o)
    BY <1>f DEF Stored
  <2> QED
    BY <2>2, <2>3
<1>1. ObjTypeOK'
  <2>1. table' \in [Objects -> [Keys -> Values]]
    <3>1. table'[c] \in [Keys -> Values]
      BY <1>f, <1>g, <1>o
    <3>2. \A o \in Objects : table'[o] \in [Keys -> Values]
      BY <3>1, <1>f, <1>t DEF ObjTypeOK
    <3>3. table' = [o \in Objects |-> table'[o]]
      BY <1>p, <1>t DEF ObjTypeOK
    <3> QED
      BY <3>2, <3>3
  <2>2. \A o \in Objects \ alive' : table'[o] = EmptyTable
    BY <1>p, <1>o, <1>f, <1>t DEF ObjTypeOK
  <2> QED
    BY <2>1, <2>2, <1>p, <1>t DEF ObjTypeOK, EmptyTable
<1>2. StoredAlive' /\ DevicesStored'
  BY <1>p, <1>s, <1>o, <1>t DEF StoredAlive, DevicesStored, ObjTypeOK
<1>3. FieldsOK'
  BY <1>p, <1>t DEF FieldsOK
<1>4. BusKept'
  <2> SUFFICES ASSUME NEW b \in Cpus, b \in held'
               PROVE  \E f \in Entities : b \in fields'[f] /\ attached'[b] \subseteq fields'[f] \cup Stored(b)' \cup HeldLoose'
    BY DEF BusKept
  <2>1. b \in held /\ b \in Objects /\ HeldLoose' = HeldLoose
    BY <1>p DEF Objects, HeldLoose, Loose
  <2>2. PICK f \in Entities : b \in fields[f] /\ attached[b] \subseteq fields[f] \cup Stored(b) \cup HeldLoose
    BY <2>1, <1>t DEF BusKept
  <2>3. attached[b] \cap Stored(b) \subseteq Stored(b)'
    BY <1>p, <1>s, <2>1
  <2> QED
    BY <1>p, <2>1, <2>2, <2>3
<1> QED
  BY <1>1, <1>2, <1>3, <1>4 DEF EntInv

LEMMA HoldingKeeps ==
  ASSUME EntInv, NEW o \in Objects, GiveBack(o) \/ \E k \in Keys : Borrow(o, k)
  PROVE  EntInv'
<1>t. ObjTypeOK /\ StoredAlive /\ FieldsOK /\ DevicesStored /\ BusKept
  BY DEF EntInv
<1>u. UNCHANGED <<alive, table, attached, fields>>
  BY DEF GiveBack, Release, Borrow, Fetch
<1>s. \A p \in Objects : Stored(p)' = Stored(p)
  BY <1>u DEF Stored
<1>h. /\ held' \subseteq alive /\ Cpus \cap held' \subseteq held
      /\ \A e \in Entities : fields[e] \subseteq held'
  <2>1. CASE GiveBack(o)
    BY <2>1, <1>t DEF GiveBack, Loose, Release, ObjTypeOK, FieldsOK
  <2>2. ASSUME NEW k \in Keys, Borrow(o, k) PROVE  held' \subseteq alive /\ Cpus \cap held' \subseteq held /\ held \subseteq held'
    <3>1. o \in alive /\ table[o][k] \in Stored(o) /\ held' = held \cup {table[o][k]}
      BY <2>2, <1>t DEF Borrow, Fetch, Stored, ObjTypeOK
    <3>2. table[o][k] \in alive /\ table[o][k] \notin Cpus
      BY <3>1, <1>t, ObjectAssumption DEF StoredAlive, DevicesStored
    <3> QED
      BY <3>1, <3>2, <1>t DEF ObjTypeOK
  <2> QED
    BY <2>1, <2>2, <1>t DEF FieldsOK
<1>1. ObjTypeOK' /\ StoredAlive' /\ DevicesStored'
  BY <1>u, <1>s, <1>t, <1>h DEF ObjTypeOK, StoredAlive, DevicesStored, EmptyTable
<1>2. FieldsOK'
  BY <1>u, <1>t, <1>h DEF FieldsOK
<1>3. BusKept'
  <2> SUFFICES ASSUME NEW b \in Cpus, b \in held'
               PROVE  \E f \in Entities : b \in fields'[f] /\ attached'[b] \subseteq fields'[f] \cup Stored(b)' \cup HeldLoose'
    BY DEF BusKept
  <2>1. b \in held /\ b \in Objects
    BY <1>h DEF Objects
  <2>2. PICK f \in Entities : b \in fields[f] /\ attached[b] \subseteq fields[f] \cup Stored(b) \cup HeldLoose
    BY <2>1, <1>t DEF BusKept
  <2>3. attached[b] \cap HeldLoose \subseteq Stored(b) \cup HeldLoose'
    <3>1. CASE GiveBack(o)
      BY <3>1, <2>1, <1>u DEF GiveBack, Release, HeldLoose, Loose
    <3>2. CASE \E k \in Keys : Borrow(o, k)
      BY <3>2 DEF Borrow, Fetch, HeldLoose, Loose
    <3> QED
      BY <3>1, <3>2
  <2> QED
    BY <1>u, <1>s, <2>1, <2>2, <2>3
<1> QED
  BY <1>1, <1>2, <1>3 DEF EntInv

LEMMA CollectKeeps ==
  ASSUME EntInv, NEW o \in Objects, CollectObject(o)
  PROVE  EntInv'
<1>t. ObjTypeOK /\ StoredAlive /\ FieldsOK /\ DevicesStored /\ BusKept
  BY DEF EntInv
<1>u. /\ o \in alive \ Reachable /\ alive' = alive \ {o}
      /\ table' = [table EXCEPT ![o] = EmptyTable]
      /\ attached' = [c \in Cpus |-> IF c = o THEN {} ELSE attached[c]]
      /\ UNCHANGED <<held, fields>>
  BY DEF CollectObject, Collect
<1>r. o \notin held /\ \A p \in Objects : o \notin Stored(p)
  BY <1>u DEF Reachable
<1>f. table'[o] = EmptyTable /\ \A p \in Objects \ {o} : table'[p] = table[p]
  BY <1>u, <1>t DEF ObjTypeOK
<1>s. \A p \in Objects : Stored(p)' = IF p = o THEN {} ELSE Stored(p)
  BY <1>f, FreshTable DEF Stored
<1>1. ObjTypeOK'
  <2>1. table' \in [Objects -> [Keys -> Values]]
    BY <1>u, <1>t, FreshTable DEF ObjTypeOK
  <2>2. attached' \in [Cpus -> SUBSET LuaDevices] /\ alive' \subseteq Objects /\ held' \subseteq alive'
    BY <1>u, <1>r, <1>t DEF ObjTypeOK
  <2>3. /\ \A p \in Objects \ alive' : table'[p] = EmptyTable
        /\ \A b \in Cpus \ alive' : attached'[b] = {}
    BY <1>u, <1>t, <1>f DEF ObjTypeOK
  <2> QED
    BY <2>1, <2>2, <2>3 DEF ObjTypeOK, EmptyTable
<1>2. StoredAlive' /\ DevicesStored'
  BY <1>s, <1>r, <1>u, <1>t DEF StoredAlive, DevicesStored, ObjTypeOK
<1>3. FieldsOK'
  BY <1>u, <1>t DEF FieldsOK
<1>4. BusKept'
  <2>1. HeldLoose' = HeldLoose
    BY <1>u DEF HeldLoose, Loose
  <2> QED
    BY <1>u, <1>r, <1>s, <1>t, <2>1 DEF BusKept, Objects
<1> QED
  BY <1>1, <1>2, <1>3, <1>4 DEF EntInv

LEMMA StutterKeeps == EntInv /\ UNCHANGED entVars => EntInv'
<1> SUFFICES ASSUME EntInv, UNCHANGED entVars PROVE EntInv'
  OBVIOUS
<1>1. UNCHANGED <<alive, table, attached, held, fields>>
  BY DEF entVars, objVars
<1>2. \A o \in Objects : Stored(o)' = Stored(o)
  BY <1>1 DEF Stored
<1> QED
  BY <1>1, <1>2 DEF EntInv, ObjTypeOK, StoredAlive, FieldsOK, DevicesStored, BusKept, HeldLoose, Loose, EmptyTable, Objects

--------------------------------------------------------------------------------
(* Whatever entities, scripts and the collector do, in any order, the      *)
(* inductive invariant holds.                                              *)
THEOREM EntInvariant == EntSpec => []EntInv
<1>1. EntInit => EntInv
  BY InitHolds
<1>2. EntInv /\ [EntNext]_entVars => EntInv'
  BY InitializeKeeps, RemoveKeeps, NewDeviceKeeps, AttachKeeps, StoreKeeps, HoldingKeeps, CollectKeeps, StutterKeeps
     DEF EntNext
<1> QED
  BY <1>1, <1>2, PTL DEF EntSpec

(* Dead objects have no table and no bus; scripts hold live objects only.  *)
THEOREM ObjTypeCorrect == EntSpec => []ObjTypeOK
<1>1. EntInv => ObjTypeOK
  BY DEF EntInv
<1> QED
  BY <1>1, EntInvariant, PTL

(* What a live object's table refers to is alive (LuaObject.hpp:101, 116). *)
THEOREM StoredObjectsLive == EntSpec => []StoredAlive
<1>1. EntInv => StoredAlive
  BY DEF EntInv
<1> QED
  BY <1>1, EntInvariant, PTL

(* A bus that can still be clocked points to live devices only, although   *)
(* it takes no reference to them (LuaCpu.cpp:53, Bus.hpp:110-112).         *)
THEOREM BusPointersValid == EntSpec => []DevicesOutliveUse
<1>1. EntInv => DevicesOutliveUse
  <2> SUFFICES ASSUME EntInv, NEW c \in Cpus \cap held PROVE attached[c] \subseteq alive
    BY DEF DevicesOutliveUse
  <2>1. c \in alive
    BY DEF EntInv, ObjTypeOK
  <2>2. Stored(c) \subseteq alive /\ \A e \in Entities : fields[e] \subseteq alive
    BY <2>1 DEF EntInv, StoredAlive, FieldsOK, ObjTypeOK
  <2> QED
    BY <2>2 DEF EntInv, ObjTypeOK, BusKept, HeldLoose
<1> QED
  BY <1>1, EntInvariant, PTL
================================================================================
