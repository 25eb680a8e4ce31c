--------------------------------- MODULE Entity --------------------------------
(***************************************************************************)
(* The objects of gmod_lcpu_cpu entities: what an entity creates, keeps in *)
(* its fields and gives up when the game removes it, while other scripts   *)
(* attach devices of their own to its cpu and the collector runs at any    *)
(* time.                                                                   *)
(***************************************************************************)
EXTENDS LuaObject, Naturals

CONSTANTS
  Entities,
  MaxLoose   \* bound: loose devices beyond which scripts create no more

VARIABLE fields  \* the objects in each entity's fields; {} before and after its life

entVars == <<objVars, fields>>

(* Objects that no entity has in its fields. *)
Loose(o) == \A e \in Entities : o \notin fields[e]

LooseDevices == {d \in LuaDevices \cap alive : Loose(d)}

Parts(c, u, w) == {c, u, w}  \* self.cpu, self.uart, self.wireInterface

EntInit == ObjInit /\ fields = [e \in Entities |-> {}]

(* Mutant of Initialize: the UART is only a local variable. *)
InitializeLocal(e) ==
  /\ fields[e] = {}
  /\ \E c \in Cpus \ alive, u, w \in LuaDevices \ alive :
       /\ u # w
       /\ alive' = alive \cup Parts(c, u, w) /\ held' = held \cup {c, w}
       /\ table' = [o \in Objects |-> IF o \in Parts(c, u, w) THEN InitialTable(o) ELSE table[o]]
       /\ attached' = [attached EXCEPT ![c] = {u, w}]
       /\ fields' = [fields EXCEPT ![e] = {c, w}]

(* ENT:Initialize creates the cpu and the two devices, attaches them, and  *)
(* keeps all three.                                                        *)
Initialize(e) ==
  /\ fields[e] = {}
  /\ \E c \in Cpus \ alive, u, w \in LuaDevices \ alive :
       /\ u # w
       /\ alive' = alive \cup Parts(c, u, w) /\ held' = held \cup Parts(c, u, w)
       /\ table' = [o \in Objects |-> IF o \in Parts(c, u, w) THEN InitialTable(o) ELSE table[o]]
       /\ attached' = [attached EXCEPT ![c] = {u, w}]
       /\ fields' = [fields EXCEPT ![e] = Parts(c, u, w)]

(* The game removes the entity, and its fields with it.  Other scripts may *)
(* still hold its devices; that they do not keep its cpu is assumed.       *)
Remove(e) ==
  /\ fields[e] # {}
  /\ \E kept \in SUBSET (fields[e] \cap LuaDevices) :
       /\ Cardinality(LooseDevices) + Cardinality(kept) <= MaxLoose \/ kept = {}
       /\ held' = held \ (fields[e] \ kept)
  /\ fields' = [fields EXCEPT ![e] = {}]
  /\ UNCHANGED <<alive, table, attached>>

(* Another script's own device: created, attached to an entity's cpu, and  *)
(* stored in the cpu's user properties, in any order.  Assumed of the      *)
(* script: it attaches no device that an entity owns, and it lets go of an *)
(* attached device, or stores something over it, only while the other      *)
(* reference stays.                                                        *)
NewDevice(d) ==
  /\ Cardinality(LooseDevices) < MaxLoose
  /\ Create(d) /\ UNCHANGED fields

AttachLoose(c, d) == Loose(d) /\ AttachDevice(c, d) /\ UNCHANGED fields

StoreDevice(c, k, v) ==
  table[c][k] \notin attached[c] /\ Assign(c, k, v) /\ UNCHANGED fields

(* A script looks its device up again, and lets go of it.                  *)
Borrow(o, k) == Fetch(o, k) /\ UNCHANGED fields

GiveBack(o) ==
  /\ Loose(o) /\ \A c \in Cpus \cap held : o \in attached[c] => o \in Stored(c)
  /\ Release(o) /\ UNCHANGED fields

CollectObject(o) == Collect(o) /\ UNCHANGED fields

EntNext ==
  \/ \E e \in Entities : Initialize(e) \/ Remove(e)
  \/ \E d \in LuaDevices :
       \/ NewDevice(d)
       \/ \E c \in Cpus : AttachLoose(c, d) \/ \E k \in Keys, v \in {d, Nil} : StoreDevice(c, k, v)
  \/ \E o \in Objects : GiveBack(o) \/ CollectObject(o) \/ \E k \in Keys : Borrow(o, k)

(* Lua's collector gets to every object that nothing refers to.            *)
EntSpec ==
  EntInit /\ [][EntNext]_entVars /\ \A o \in Objects : WF_entVars(CollectObject(o))

--------------------------------------------------------------------------------
(* Properties. *)

(* A script can get at o: it holds it, or an object whose table has it.    *)
Usable(o) == o \in held \/ \E p \in held : o \in Stored(p)

(* No native object is leaked: one that no script can get at any more is   *)
(* deleted, also when it sat in the table of another one (the destructor   *)
(* of LuaObject frees the table "so it gets garbage collected too").       *)
Collected ==
  \A o \in Objects : (o \in alive /\ ~Usable(o)) ~> (o \notin alive)
================================================================================
