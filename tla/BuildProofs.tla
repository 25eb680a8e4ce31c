------------------------------- MODULE BuildProofs -----------------------------
(***************************************************************************)
(* What the generated rules guarantee of an incremental build, for any     *)
(* sources, projects and configurations and without a bound on edits that  *)
(* matters: MaxDisturbances is any number.                                 *)
(***************************************************************************)
EXTENDS Build, TLAPS

Targets == Sources \cup {"dir", "elf", "bin"}
Rules   == [objects : SUBSET Sources, script : Scripts \cup {None}, flags : Flags]
Runs    == [todo : SUBSET Targets, rules : Rules]

(* The shape of the state, as far as the steps need it. *)
Shape ==
  /\ version \in [Sources \cup Scripts -> Nat] /\ project \in [files : Listings, flags : Flags]
  /\ makefile # None => makefile \in Rules
  /\ obj = [c \in Configs |-> obj[c]] /\ elf = [c \in Configs |-> elf[c]]
  /\ bin = [c \in Configs |-> bin[c]] /\ old \in [Configs -> SUBSET Targets]
  /\ newer \in [Configs -> SUBSET Sources]
  /\ running = [c \in Configs |-> running[c]]

(* A target that is not marked as old is what its rule would make of its   *)
(* prerequisites now, and a run has built the objects it has passed.       *)
Fresh(c) ==
  /\ DOMAIN obj[c] \subseteq Sources
  /\ running[c] # None =>
       /\ running[c] \in Runs
       /\ running[c].rules.objects \ running[c].todo \subseteq DOMAIN obj[c]
  /\ \A s \in DOMAIN obj[c] \ old[c] : obj[c][s].version = version[s]
  /\ elf[c] # None =>
       /\ DOMAIN elf[c].objects \subseteq DOMAIN obj[c]
       /\ \A s \in DOMAIN elf[c].objects \ newer[c] : elf[c].objects[s] = obj[c][s]
  /\ bin[c] # None /\ "bin" \notin old[c] => bin[c] = elf[c]

(* A configuration that is not marked as untracked has been built by the   *)
(* Makefile there is, with the linker script there is.                     *)
Tracked(c) ==
  /\ running[c] # None => makefile # None /\ running[c].rules = makefile
  /\ \A s \in DOMAIN obj[c] :
       obj[c][s] = [version |-> obj[c][s].version, flags |-> makefile.flags]
  /\ elf[c] # None =>
       /\ makefile # None
       /\ elf[c] = [objects |-> [s \in makefile.objects |-> elf[c].objects[s]],
                    flags   |-> makefile.flags, script |-> LinkedScript(makefile)]

BuildInv ==
  /\ Shape
  /\ \A c \in Configs : Fresh(c) /\ (c \notin untracked => Tracked(c))

USE BuildAssumption

LEMMA BuildInitially == BuildInit => BuildInv
<1> SUFFICES ASSUME BuildInit PROVE BuildInv
  OBVIOUS
<1>1. Shape
  BY DEF BuildInit, Shape
<1>2. ASSUME NEW c \in Configs PROVE Fresh(c) /\ Tracked(c)
  <2>1. running[c] = None /\ elf[c] = None /\ bin[c] = None /\ obj[c] = NoObjects
    BY DEF BuildInit
  <2>2. DOMAIN obj[c] = {}
    BY <2>1 DEF NoObjects
  <2> QED
    BY <2>1, <2>2 DEF Fresh, Tracked
<1> QED
  BY <1>1, <1>2 DEF BuildInv

(* A configuration whose products and run a step leaves alone, with the    *)
(* versions and the Makefile they were made from.                          *)
LEMMA Untouched ==
  ASSUME NEW c \in Configs,
         UNCHANGED <<obj[c], elf[c], bin[c], old[c], newer[c], running[c], version, makefile>>
  PROVE  /\ Fresh(c) => Fresh(c)'
         /\ Tracked(c) => Tracked(c)'
BY DEF Fresh, Tracked, LinkedScript

--------------------------------------------------------------------------------
(* The author. *)

LEMMA EditSourceKeeps ==
  ASSUME BuildInv, NEW s \in Sources, EditSource(s)
  PROVE  BuildInv'
<1>1. /\ version' = [version EXCEPT ![s] = @ + 1]
      /\ old' = [c \in Configs |-> old[c] \cup ({s} \cap DOMAIN obj[c])]
      /\ UNCHANGED <<project, makefile, dir, obj, elf, bin, newer, running, untracked>>
  BY DEF EditSource
<1>2. Shape'
  BY <1>1 DEF BuildInv, Shape, Targets
<1>3. ASSUME NEW c \in Configs PROVE Fresh(c)'
  <2>1. Fresh(c) /\ version \in [Sources \cup Scripts -> Nat]
    BY DEF BuildInv, Shape
  <2>2. old[c] \subseteq old'[c] /\ old'[c] \subseteq old[c] \cup {s}
    BY <1>1
  <2>3. \A t \in DOMAIN obj[c] \ old'[c] : t # s /\ t \in Sources /\ version'[t] = version[t]
    BY <1>1, <2>1 DEF Fresh
  <2>4. "elf" # s /\ "bin" # s
    OBVIOUS
  <2>5. \A t \in DOMAIN obj[c] \ old'[c] : obj[c][t].version = version'[t]
    BY <2>1, <2>2, <2>3 DEF Fresh
  <2> QED
    BY <1>1, <2>1, <2>2, <2>4, <2>5 DEF Fresh
<1>4. ASSUME NEW c \in Configs, c \notin untracked' PROVE Tracked(c)'
  <2>1. Tracked(c)
    BY <1>1, <1>4 DEF BuildInv
  <2>2. elf[c] # None /\ makefile # None => LinkedScript(makefile)' = LinkedScript(makefile)
    BY <1>1 DEF LinkedScript, BuildInv, Shape, Rules
  <2> QED
    BY <1>1, <2>1, <2>2 DEF Tracked
<1> QED
  BY <1>2, <1>3, <1>4 DEF BuildInv

LEMMA EditScriptKeeps ==
  ASSUME BuildInv, NEW f \in Scripts, EditScript(f)
  PROVE  BuildInv'
<1>1. /\ version' = [version EXCEPT ![f] = @ + 1] /\ untracked' = untracked \cup Begun
      /\ UNCHANGED <<project, makefile, dir, obj, elf, bin, old, newer, running>>
  BY DEF EditScript, productVars
<1>2. Shape'
  BY <1>1 DEF BuildInv, Shape
<1>3. ASSUME NEW c \in Configs PROVE Fresh(c)'
  <2>1. Fresh(c) /\ version \in [Sources \cup Scripts -> Nat]
    BY DEF BuildInv, Shape
  <2>2. \A t \in Sources : version'[t] = version[t]
    BY <1>1, <2>1
  <2> QED
    BY <1>1, <2>1, <2>2 DEF Fresh
<1>4. ASSUME NEW c \in Configs, c \notin untracked' PROVE Tracked(c)'
  BY <1>1, <1>4 DEF Begun, Tracked
<1> QED
  BY <1>2, <1>3, <1>4 DEF BuildInv

LEMMA EditProjectKeeps ==
  ASSUME BuildInv, EditProject
  PROVE  BuildInv'
<1>1. /\ project' \in [files : Listings, flags : Flags]
      /\ UNCHANGED <<version, makefile, dir, obj, elf, bin, old, newer, running, untracked>>
  BY DEF EditProject, productVars
<1>2. Shape'
  BY <1>1 DEF BuildInv, Shape
<1> QED
  BY <1>1, <1>2, Untouched DEF BuildInv

LEMMA ProjgenKeeps ==
  ASSUME BuildInv, Projgen
  PROVE  BuildInv'
<1>1. /\ makefile' = Generated
      /\ untracked' = IF makefile' = makefile THEN untracked ELSE untracked \cup Begun
      /\ UNCHANGED <<version, project, dir, obj, elf, bin, old, newer, running>>
  BY DEF Projgen, productVars
<1>2. Generated \in Rules
  <2>1. project.files \cap Sources \in SUBSET Sources /\ project.flags \in Flags
    BY DEF BuildInv, Shape
  <2>2. (IF project.files \cap Scripts = {} THEN None
         ELSE CHOOSE f \in project.files \cap Scripts : TRUE) \in Scripts \cup {None}
    OBVIOUS
  <2> QED
    BY <2>1, <2>2 DEF Generated, Rules
<1>3. Shape'
  BY <1>1, <1>2 DEF BuildInv, Shape
<1>4. ASSUME NEW c \in Configs PROVE Fresh(c)'
  BY <1>1 DEF BuildInv, Fresh
<1>5. ASSUME NEW c \in Configs, c \notin untracked' PROVE Tracked(c)'
  <2>1. CASE makefile' = makefile
    BY <1>1, <1>5, <2>1, Untouched DEF BuildInv
  <2>2. CASE makefile' # makefile
    BY <1>1, <1>5, <2>2 DEF Begun, Tracked
  <2> QED
    BY <2>1, <2>2
<1> QED
  BY <1>3, <1>4, <1>5 DEF BuildInv

--------------------------------------------------------------------------------
(* The steps that concern one configuration. *)

(* It is enough to look at that configuration.                             *)
LEMMA OneConfiguration ==
  ASSUME BuildInv, NEW c \in Configs, UNCHANGED filesVars, Shape',
         \A d \in Configs \ {c} : UNCHANGED <<obj[d], elf[d], bin[d], old[d], newer[d], running[d]>>,
         untracked \ {c} \subseteq untracked',
         Fresh(c)', c \notin untracked' => Tracked(c)'
  PROVE  BuildInv'
<1>1. ASSUME NEW d \in Configs \ {c}
      PROVE  Fresh(d)' /\ (d \notin untracked' => Tracked(d)')
  <2>1. UNCHANGED <<obj[d], elf[d], bin[d], old[d], newer[d], running[d], version, makefile>>
    BY DEF filesVars
  <2>2. Fresh(d) /\ (d \notin untracked => Tracked(d))
    BY DEF BuildInv
  <2>3. (Fresh(d) => Fresh(d)') /\ (Tracked(d) => Tracked(d)')
    BY <2>1, Untouched
  <2> QED
    BY <2>2, <2>3
<1> QED
  BY <1>1 DEF BuildInv

LEMMA CleanKeeps ==
  ASSUME BuildInv, NEW c \in Configs, Clean(c)
  PROVE  BuildInv'
<1>1. /\ obj' = [obj EXCEPT ![c] = NoObjects] /\ elf' = [elf EXCEPT ![c] = None]
      /\ bin' = [bin EXCEPT ![c] = None] /\ old' = [old EXCEPT ![c] = {}]
      /\ newer' = [newer EXCEPT ![c] = {}]
      /\ untracked' = untracked \ {c} /\ UNCHANGED <<filesVars, running>> /\ running[c] = None
  BY DEF Clean
<1>2. Shape /\ Shape'
  BY <1>1 DEF BuildInv, Shape, filesVars
<1>3. running'[c] = None /\ elf'[c] = None /\ bin'[c] = None /\ DOMAIN obj'[c] = {}
  BY <1>1, <1>2 DEF Shape, NoObjects
<1>4. Fresh(c)' /\ Tracked(c)'
  BY <1>3 DEF Fresh, Tracked
<1>5. \A d \in Configs \ {c} : UNCHANGED <<obj[d], elf[d], bin[d], old[d], newer[d], running[d]>>
  BY <1>1, <1>2 DEF Shape
<1> QED
  BY <1>1, <1>2, <1>4, <1>5, OneConfiguration

(* A step that only moves the run of c forward, or ends it.                *)
LEMMA RunMoves ==
  ASSUME BuildInv, NEW c \in Configs, UNCHANGED <<filesVars, obj, elf, bin, old, newer, untracked>>,
         NEW r, running' = [running EXCEPT ![c] = r],
         r # None => /\ r \in Runs /\ r.rules.objects \ r.todo \subseteq DOMAIN obj[c]
                     /\ c \notin untracked => makefile # None /\ r.rules = makefile
  PROVE  BuildInv'
<1>1. Shape /\ Shape' /\ running'[c] = r
  BY DEF BuildInv, Shape, filesVars
<1>2. Fresh(c) /\ (c \notin untracked => Tracked(c))
  BY DEF BuildInv
<1>3. Fresh(c)'
  BY <1>1, <1>2 DEF Fresh, filesVars
<1>4. c \notin untracked' => Tracked(c)'
  BY <1>1, <1>2 DEF Tracked, filesVars, LinkedScript
<1>5. \A d \in Configs \ {c} : UNCHANGED <<obj[d], elf[d], bin[d], old[d], newer[d], running[d]>>
  BY <1>1 DEF Shape
<1> QED
  BY <1>1, <1>3, <1>4, <1>5, OneConfiguration

LEMMA RunEnds ==
  ASSUME BuildInv, NEW c \in Configs, UNCHANGED <<filesVars, obj, elf, bin, old, newer, untracked>>,
         running' = [running EXCEPT ![c] = None]
  PROVE  BuildInv'
BY RunMoves

LEMMA MakeStartKeeps ==
  ASSUME BuildInv, NEW c \in Configs, MakeStart(c)
  PROVE  BuildInv'
<1> DEFINE r == [todo |-> {"dir", "elf", "bin"} \cup makefile.objects, rules |-> makefile]
<1>1. makefile \in Rules /\ makefile # None
  BY DEF MakeStart, BuildInv, Shape
<1>2. r \in Runs /\ r.rules.objects \ r.todo = {} /\ r.rules = makefile
  BY <1>1 DEF Runs, Rules, Targets
<1>3. running' = [running EXCEPT ![c] = r] /\ UNCHANGED <<filesVars, obj, elf, bin, old, newer, untracked>>
  BY DEF MakeStart, productVars
<1> HIDE DEF r
<1> QED
  BY <1>1, <1>2, <1>3, RunMoves

(* The run after it has considered a target. *)
LEMMA AfterConsidered ==
  ASSUME BuildInv, NEW c \in Configs, NEW t, running[c] # None, Considered(c, t)
  PROVE  LET r == [running[c] EXCEPT !.todo = @ \ {t}]
         IN  /\ running' = [running EXCEPT ![c] = r] /\ r \in Runs
             /\ r.rules = running[c].rules /\ r.todo = running[c].todo \ {t}
<1>1. running[c] \in Runs
  BY DEF BuildInv, Fresh
<1>2. [running[c] EXCEPT !.todo = @ \ {t}] \in Runs
  BY <1>1 DEF Runs
<1> QED
  BY <1>1, <1>2 DEF Considered, Runs

(* A target that needs no remaking. *)
LEMMA UpToDateTargetKeeps ==
  ASSUME BuildInv, NEW c \in Configs, NEW t \in Targets, UpToDateTarget(c, t)
  PROVE  BuildInv'
<1> DEFINE r == [running[c] EXCEPT !.todo = @ \ {t}]
<1>1. running[c] # None /\ Considered(c, t) /\ ~Missing(c, t)
      /\ UNCHANGED <<filesVars, obj, elf, bin, old, newer, untracked>>
  BY DEF UpToDateTarget, Ready, Outdated, productVars
<1>2. /\ running' = [running EXCEPT ![c] = r] /\ r \in Runs
      /\ r.rules = running[c].rules /\ r.todo = running[c].todo \ {t}
  BY <1>1, AfterConsidered
<1>3. Fresh(c) /\ (c \notin untracked => Tracked(c))
  BY DEF BuildInv
<1> HIDE DEF r
<1>4. r.rules.objects \ r.todo \subseteq DOMAIN obj[c]
  <2>1. t \in Sources => t \in DOMAIN obj[c]
    BY <1>1 DEF Missing
  <2>2. running[c].rules.objects \subseteq Sources
    BY <1>1, <1>3 DEF Fresh, Runs, Rules
  <2> QED
    BY <1>1, <1>2, <1>3, <2>1, <2>2 DEF Fresh
<1> QED
  BY <1>1, <1>2, <1>3, <1>4, RunMoves DEF Tracked
LEMMA MakeDirKeeps ==
  ASSUME BuildInv, NEW c \in Configs, MakeDir(c)
  PROVE  BuildInv'
<1> DEFINE r == [running[c] EXCEPT !.todo = @ \ {"dir"}]
<1>1. running[c] # None /\ Considered(c, "dir") /\ UNCHANGED <<filesVars, obj, elf, bin, old, newer, untracked>>
  BY DEF MakeDir, ToRemake, Ready
<1>2. /\ running' = [running EXCEPT ![c] = r] /\ r \in Runs
      /\ r.rules = running[c].rules /\ r.todo = running[c].todo \ {"dir"}
  BY <1>1, AfterConsidered
<1>3. Fresh(c) /\ (c \notin untracked => Tracked(c))
  BY DEF BuildInv
<1> HIDE DEF r
<1>4. r.rules.objects \ r.todo \subseteq DOMAIN obj[c]
  BY <1>1, <1>2, <1>3 DEF Fresh, Runs, Rules
<1> QED
  BY <1>1, <1>2, <1>3, <1>4, RunMoves DEF Tracked

LEMMA CompileKeeps ==
  ASSUME BuildInv, NEW c \in Configs, NEW s \in Sources, Compile(c, s)
  PROVE  BuildInv'
<1> DEFINE r == [running[c] EXCEPT !.todo = @ \ {s}]
           o == [t \in DOMAIN obj[c] \cup {s} |-> IF t = s THEN Object(c, s) ELSE obj[c][t]]
<1>1. /\ running[c] # None /\ Considered(c, s)
      /\ UNCHANGED <<filesVars, elf, bin, untracked>>
  BY DEF Compile, ToRemake, Ready
<1>2. /\ running' = [running EXCEPT ![c] = r] /\ r \in Runs
      /\ r.rules = running[c].rules /\ r.todo = running[c].todo \ {s}
  BY <1>1, AfterConsidered
<1>3. Shape /\ Fresh(c) /\ (c \notin untracked => Tracked(c))
  BY DEF BuildInv
<1>4. /\ obj' = [obj EXCEPT ![c] = o]
      /\ old' = [old EXCEPT ![c] = @ \ {s}]
      /\ newer' = [newer EXCEPT ![c] = IF elf[c] # None THEN @ \cup {s} ELSE @]
  BY <1>3 DEF Compile, Assembled, Shape
<1>5. /\ DOMAIN o = DOMAIN obj[c] \cup {s} /\ o[s] = Object(c, s)
      /\ \A t \in DOMAIN obj[c] \ {s} : o[t] = obj[c][t]
  OBVIOUS
<1> HIDE DEF r, o
<1>6. Shape'
  BY <1>1, <1>2, <1>3, <1>4 DEF Shape, filesVars, Targets
<1>7. /\ running'[c] = r /\ obj'[c] = o /\ elf'[c] = elf[c] /\ bin'[c] = bin[c]
      /\ old'[c] = old[c] \ {s}
      /\ newer'[c] = IF elf[c] # None THEN newer[c] \cup {s} ELSE newer[c]
  BY <1>1, <1>2, <1>3, <1>4 DEF Shape
<1>8. s # "elf" /\ s # "bin" /\ version' = version /\ makefile' = makefile
  BY <1>1 DEF filesVars
<1>9. Fresh(c)'
  <2>1. DOMAIN o \subseteq Sources
    BY <1>3, <1>5 DEF Fresh
  <2>2. r.rules.objects \ r.todo \subseteq DOMAIN o
    BY <1>1, <1>2, <1>3, <1>5 DEF Fresh
  <2>3. \A t \in DOMAIN o \ old'[c] : o[t].version = version[t]
    <3> SUFFICES ASSUME NEW t \in DOMAIN o \ old'[c] PROVE o[t].version = version[t]
      OBVIOUS
    <3>1. CASE t = s
      BY <1>5, <3>1 DEF Object
    <3>2. CASE t # s
      <4>1. t \in DOMAIN obj[c] \ old[c]
        BY <1>5, <1>7, <3>2
      <4> QED
        BY <1>3, <1>5, <3>2, <4>1 DEF Fresh
    <3> QED
      BY <3>1, <3>2
  <2>4. elf[c] # None =>
          /\ DOMAIN elf[c].objects \subseteq DOMAIN o
          /\ \A t \in DOMAIN elf[c].objects \ newer'[c] : elf[c].objects[t] = o[t]
    BY <1>3, <1>5, <1>7 DEF Fresh
  <2>5. bin[c] # None /\ "bin" \notin old'[c] => bin[c] = elf[c]
    BY <1>3, <1>7, <1>8 DEF Fresh
  <2> QED
    BY <1>2, <1>7, <1>8, <2>1, <2>2, <2>3, <2>4, <2>5 DEF Fresh
<1>10. ASSUME c \notin untracked' PROVE Tracked(c)'
  <2>1. Tracked(c) /\ running[c].rules = makefile /\ makefile # None
    BY <1>1, <1>3, <1>10 DEF Tracked
  <2>2. Object(c, s) = [version |-> version[s], flags |-> makefile.flags]
    BY <2>1 DEF Object
  <2>3. \A t \in DOMAIN o : o[t] = [version |-> o[t].version, flags |-> makefile.flags]
    BY <1>5, <2>1, <2>2 DEF Tracked
  <2>4. LinkedScript(makefile)' = LinkedScript(makefile)
    BY <1>8 DEF LinkedScript
  <2> QED
    BY <1>2, <1>7, <1>8, <2>1, <2>3, <2>4 DEF Tracked
<1>11. \A d \in Configs \ {c} : UNCHANGED <<obj[d], elf[d], bin[d], old[d], newer[d], running[d]>>
  BY <1>1, <1>2, <1>3, <1>4 DEF Shape
<1> QED
  BY <1>1, <1>6, <1>9, <1>10, <1>11, OneConfiguration

LEMMA LinkKeeps ==
  ASSUME BuildInv, NEW c \in Configs, Link(c)
  PROVE  BuildInv'
<1> DEFINE r == [running[c] EXCEPT !.todo = @ \ {"elf"}]
           e == [objects |-> [s \in running[c].rules.objects |-> obj[c][s]],
                 flags   |-> running[c].rules.flags, script |-> LinkedScript(running[c].rules)]
<1>1. /\ running[c] # None /\ running[c].todo \cap Sources = {} /\ Considered(c, "elf")
      /\ UNCHANGED <<filesVars, obj, bin, untracked>>
  BY DEF Link, ToRemake, Ready
<1>2. /\ running' = [running EXCEPT ![c] = r] /\ r \in Runs
      /\ r.rules = running[c].rules /\ r.todo = running[c].todo \ {"elf"}
  BY <1>1, AfterConsidered
<1>3. Shape /\ Fresh(c) /\ (c \notin untracked => Tracked(c))
  BY DEF BuildInv
<1>4. /\ elf' = [elf EXCEPT ![c] = e]
      /\ newer' = [newer EXCEPT ![c] = {}]
      /\ old' = [old EXCEPT ![c] = IF bin[c] # None THEN @ \cup {"bin"} ELSE @]
  BY DEF Link
<1>5. /\ DOMAIN e.objects = running[c].rules.objects
      /\ \A s \in running[c].rules.objects : e.objects[s] = obj[c][s]
      /\ e = [objects |-> [s \in running[c].rules.objects |-> e.objects[s]],
              flags |-> running[c].rules.flags, script |-> LinkedScript(running[c].rules)]
  OBVIOUS
<1> HIDE DEF r, e
<1>6. Shape'
  BY <1>1, <1>2, <1>3, <1>4 DEF Shape, filesVars, Targets
<1>7. /\ running'[c] = r /\ obj'[c] = obj[c] /\ elf'[c] = e /\ bin'[c] = bin[c]
      /\ old'[c] = (IF bin[c] # None THEN old[c] \cup {"bin"} ELSE old[c]) /\ newer'[c] = {}
  BY <1>1, <1>2, <1>3, <1>4 DEF Shape
<1>8. version' = version /\ makefile' = makefile
  BY <1>1 DEF filesVars
<1>9. running[c].rules.objects \subseteq Sources
  BY <1>1, <1>3 DEF Fresh, Runs, Rules
<1>10. running[c].rules.objects \subseteq DOMAIN obj[c]
  BY <1>1, <1>3, <1>9 DEF Fresh
<1>11. Fresh(c)'
  <2>1. \A s \in DOMAIN obj[c] \ old'[c] : obj[c][s].version = version[s]
    <3>1. \A s \in Sources : s \in old[c] => s \in old'[c]
      BY <1>7
    <3> QED
      BY <1>3, <3>1 DEF Fresh
  <2>2. r.rules.objects \ r.todo \subseteq DOMAIN obj[c]
    BY <1>2, <1>10
  <2>3. DOMAIN e.objects \subseteq DOMAIN obj[c] /\ \A s \in DOMAIN e.objects : e.objects[s] = obj[c][s]
    BY <1>5, <1>10
  <2>4. bin[c] # None => "bin" \in old'[c]
    BY <1>7
  <2> QED
    BY <1>2, <1>3, <1>7, <1>8, <2>1, <2>2, <2>3, <2>4 DEF Fresh
<1>12. ASSUME c \notin untracked' PROVE Tracked(c)'
  <2>1. Tracked(c) /\ running[c].rules = makefile /\ makefile # None
    BY <1>1, <1>3, <1>12 DEF Tracked
  <2>2. LinkedScript(makefile)' = LinkedScript(makefile)
    BY <1>8 DEF LinkedScript
  <2> QED
    BY <1>2, <1>5, <1>7, <1>8, <2>1, <2>2 DEF Tracked
<1>13. \A d \in Configs \ {c} : UNCHANGED <<obj[d], elf[d], bin[d], old[d], newer[d], running[d]>>
  BY <1>1, <1>2, <1>3, <1>4 DEF Shape
<1> QED
  BY <1>1, <1>6, <1>11, <1>12, <1>13, OneConfiguration

LEMMA ObjcopyKeeps ==
  ASSUME BuildInv, NEW c \in Configs, Objcopy(c)
  PROVE  BuildInv'
<1> DEFINE r == [running[c] EXCEPT !.todo = @ \ {"bin"}]
<1>1. /\ running[c] # None /\ Considered(c, "bin")
      /\ bin' = [bin EXCEPT ![c] = elf[c]] /\ old' = [old EXCEPT ![c] = @ \ {"bin"}]
      /\ UNCHANGED <<filesVars, obj, elf, newer, untracked>>
  BY DEF Objcopy, ToRemake, Ready
<1>2. /\ running' = [running EXCEPT ![c] = r] /\ r \in Runs
      /\ r.rules = running[c].rules /\ r.todo = running[c].todo \ {"bin"}
  BY <1>1, AfterConsidered
<1>3. Shape /\ Fresh(c) /\ (c \notin untracked => Tracked(c))
  BY DEF BuildInv
<1> HIDE DEF r
<1>4. Shape'
  BY <1>1, <1>2, <1>3 DEF Shape, filesVars, Targets
<1>5. /\ running'[c] = r /\ obj'[c] = obj[c] /\ elf'[c] = elf[c] /\ bin'[c] = elf[c]
      /\ old'[c] = old[c] \ {"bin"} /\ newer'[c] = newer[c] /\ version' = version /\ makefile' = makefile
  BY <1>1, <1>2, <1>3 DEF Shape, filesVars
<1>6. Fresh(c)'
  <2>1. DOMAIN obj[c] \subseteq Sources
    BY <1>3 DEF Fresh
  <2>2. \A s \in DOMAIN obj[c] : s \in old[c] <=> s \in old'[c]
    BY <1>5, <2>1
  <2>3. r.rules.objects \ r.todo \subseteq DOMAIN obj[c]
    <3>1. running[c].rules.objects \subseteq Sources
      BY <1>1, <1>3 DEF Fresh, Runs, Rules
    <3> QED
      BY <1>1, <1>2, <1>3, <3>1 DEF Fresh
  <2>5. elf[c] # None =>
          /\ DOMAIN elf[c].objects \subseteq DOMAIN obj[c]
          /\ \A s \in DOMAIN elf[c].objects \ newer'[c] : elf[c].objects[s] = obj[c][s]
    BY <1>3, <1>5 DEF Fresh
  <2>6. \A s \in DOMAIN obj[c] \ old'[c] : obj[c][s].version = version[s]
    BY <1>3, <2>2 DEF Fresh
  <2> QED
    BY <1>2, <1>5, <2>1, <2>3, <2>5, <2>6 DEF Fresh
<1>7. c \notin untracked' => Tracked(c)'
  <2>1. LinkedScript(makefile)' = LinkedScript(makefile)
    BY <1>5 DEF LinkedScript
  <2> QED
    BY <1>1, <1>2, <1>3, <1>5, <2>1 DEF Tracked
<1>8. \A d \in Configs \ {c} : UNCHANGED <<obj[d], elf[d], bin[d], old[d], newer[d], running[d]>>
  BY <1>1, <1>2, <1>3 DEF Shape
<1> QED
  BY <1>1, <1>4, <1>6, <1>7, <1>8, OneConfiguration

LEMMA MakeKeeps ==
  ASSUME BuildInv, NEW c \in Configs, Make(c)
  PROVE  BuildInv'
<1>1. ASSUME NEW s \in Sources, CompileTooEarly(c, s) PROVE BuildInv'
  BY <1>1, RunEnds DEF CompileTooEarly
<1>2. ASSUME MakeDone(c) PROVE BuildInv'
  BY <1>2, RunEnds DEF MakeDone, productVars
<1>3. ASSUME NEW t \in Targets, UpToDateTarget(c, t) PROVE BuildInv'
  BY <1>3, UpToDateTargetKeeps
<1> QED
  BY <1>1, <1>2, <1>3, MakeStartKeeps, MakeDirKeeps, CompileKeeps, LinkKeeps, ObjcopyKeeps
     DEF Make, Targets

LEMMA BuildStep == BuildInv /\ [BuildNext]_buildVars => BuildInv'
<1> SUFFICES ASSUME BuildInv, [BuildNext]_buildVars PROVE BuildInv'
  OBVIOUS
<1>1. ASSUME NEW c \in Configs, Interrupt(c) PROVE BuildInv'
  BY <1>1, RunEnds DEF Interrupt, productVars
<1>2. ASSUME UNCHANGED buildVars PROVE BuildInv'
  BY <1>2, Untouched DEF buildVars, filesVars, productVars, BuildInv, Shape
<1>3. ASSUME ProjgenRefuses PROVE BuildInv'
  BY <1>2, <1>3 DEF ProjgenRefuses
<1> QED
  BY <1>1, <1>2, <1>3, EditSourceKeeps, EditScriptKeeps, EditProjectKeeps, ProjgenKeeps,
     CleanKeeps, MakeKeeps DEF BuildNext

--------------------------------------------------------------------------------

(* The inductive invariant of a project's directory. *)
THEOREM BuildInvariant == BuildSpec => []BuildInv
BY BuildInitially, BuildStep, PTL DEF BuildSpec

(* When make has nothing to do, nothing is missing or old.                 *)
LEMMA CurrentProducts ==
  ASSUME BuildInv, NEW c \in Configs, Current(c)
  PROVE  /\ makefile \in Rules /\ makefile.objects \subseteq DOMAIN obj[c] \ old[c]
         /\ elf[c] # None /\ newer[c] \cap makefile.objects = {} /\ bin[c] = elf[c]
<1>1. makefile # None /\ makefile \in Rules
  BY DEF Current, BuildInv, Shape
<1>2. elf[c] # None /\ newer[c] \cap makefile.objects = {} /\ bin[c] # None /\ "bin" \notin old[c]
  BY DEF Current, Outdated, Missing
<1>3. \A s \in makefile.objects : s \in DOMAIN obj[c] /\ s \notin old[c]
  BY <1>1 DEF Current, Outdated, Missing, Rules
<1>4. bin[c] = elf[c]
  BY <1>2 DEF BuildInv, Fresh
<1> QED
  BY <1>1, <1>2, <1>3, <1>4

(* No old version of a listed source is ever in an image that make takes   *)
(* for current (Makefile.hpp:114-156).                                     *)
THEOREM ImagesHaveCurrentSources == BuildSpec => []SourcesCurrent
<1>1. BuildInv => SourcesCurrent
  <2> SUFFICES ASSUME BuildInv, NEW c \in Configs, Current(c),
                      NEW s \in makefile.objects \cap DOMAIN bin[c].objects
               PROVE  bin[c].objects[s].version = version[s]
    BY DEF SourcesCurrent
  <2>1. Fresh(c)
    BY DEF BuildInv
  <2>2. s \in DOMAIN obj[c] \ old[c] /\ bin[c].objects[s] = obj[c][s]
    BY <2>1, CurrentProducts DEF Fresh
  <2> QED
    BY <2>1, <2>2 DEF Fresh
<1> QED
  BY <1>1, BuildInvariant, PTL

(* An incremental build is a build from scratch, unless something changed  *)
(* that the rules do not name (Makefile.hpp:114-156).                      *)
THEOREM IncrementalBuildsAreClean == BuildSpec => []IncrementalIsClean
<1>1. BuildInv => IncrementalIsClean
  <2> SUFFICES ASSUME BuildInv, NEW c \in Configs \ untracked, Current(c)
               PROVE  bin[c] = FromScratch(c)
    BY DEF IncrementalIsClean
  <2>1. Fresh(c) /\ Tracked(c)
    BY DEF BuildInv
  <2>2. /\ makefile.objects \subseteq DOMAIN obj[c] \ old[c]
        /\ elf[c] # None /\ newer[c] \cap makefile.objects = {} /\ bin[c] = elf[c]
    BY CurrentProducts
  <2>3. elf[c] = [objects |-> [s \in makefile.objects |-> elf[c].objects[s]],
                  flags |-> makefile.flags, script |-> LinkedScript(makefile)]
    BY <2>1, <2>2 DEF Tracked
  <2>4. \A s \in makefile.objects : elf[c].objects[s] = obj[c][s]
    <3>1. DOMAIN elf[c].objects = makefile.objects
      BY <2>3
    <3> QED
      BY <2>1, <2>2, <3>1 DEF Fresh
  <2>5. \A s \in makefile.objects :
          obj[c][s] = [version |-> version[s], flags |-> makefile.flags]
    BY <2>1, <2>2 DEF Fresh, Tracked
  <2>6. [s \in makefile.objects |-> elf[c].objects[s]] =
        [s \in makefile.objects |-> [version |-> version[s], flags |-> makefile.flags]]
    BY <2>4, <2>5
  <2> QED
    BY <2>2, <2>3, <2>6 DEF FromScratch
<1> QED
  BY <1>1, BuildInvariant, PTL

--------------------------------------------------------------------------------
(* Types: what has been built is made from versions there have been.       *)

Counted ==
  disturbed \in 0 .. MaxDisturbances /\ \A f \in Sources \cup Scripts : version[f] <= disturbed

Built(c) ==
  /\ \A s \in DOMAIN obj[c] : obj[c][s] \in Compiled
  /\ DOMAIN obj[c] # {} => c \in dir
  /\ {elf[c], bin[c]} \subseteq Images \cup {None}
  /\ \A t \in old[c] : ~Missing(c, t)
  /\ newer[c] \subseteq DOMAIN obj[c] /\ (newer[c] # {} => elf[c] # None)
  /\ bin[c] # None => elf[c] # None

TypeInv ==
  /\ BuildInv /\ Counted /\ dir \subseteq Configs /\ untracked \subseteq Configs
  /\ \A c \in Configs : Built(c)

LEMMA TypesInitially == BuildInit => TypeInv
<1> SUFFICES ASSUME BuildInit PROVE TypeInv
  OBVIOUS
<1>1. Counted /\ dir \subseteq Configs /\ untracked \subseteq Configs
  BY DEF BuildInit, Counted
<1>2. ASSUME NEW c \in Configs PROVE Built(c)
  <2>1. elf[c] = None /\ bin[c] = None /\ obj[c] = NoObjects /\ old[c] = {} /\ newer[c] = {}
    BY DEF BuildInit
  <2>2. DOMAIN obj[c] = {}
    BY <2>1 DEF NoObjects
  <2> QED
    BY <2>1, <2>2 DEF Built
<1> QED
  BY <1>1, <1>2, BuildInitially DEF TypeInv

(* A disturbance leaves one less.                                          *)
LEMMA CountedStep ==
  ASSUME TypeInv, [BuildNext]_buildVars
  PROVE  Counted'
<1>1. /\ Counted /\ version \in [Sources \cup Scripts -> Nat]
      /\ MaxDisturbances \in Nat
  BY DEF TypeInv, BuildInv, Shape
<1>2. ASSUME NEW f \in Sources \cup Scripts, Disturb, version' = [version EXCEPT ![f] = @ + 1]
      PROVE  Counted'
  <2>1. disturbed' = disturbed + 1 /\ disturbed' \in 0 .. MaxDisturbances
    BY <1>1, <1>2 DEF Disturb, Counted
  <2>2. \A g \in Sources \cup Scripts : version'[g] <= version[g] + 1 /\ version[g] <= disturbed
    BY <1>1, <1>2 DEF Counted
  <2> QED
    BY <1>1, <1>2, <2>1, <2>2 DEF Counted
<1>3. ASSUME Disturb \/ disturbed' = disturbed, version' = version
      PROVE  Counted'
  BY <1>1, <1>3 DEF Disturb, Counted
<1>4. ASSUME NEW c \in Configs, Make(c)
      PROVE  version' = version /\ disturbed' = disturbed
  BY <1>4 DEF Make, MakeStart, MakeDir, Link, Objcopy, MakeDone, Compile, CompileTooEarly,
     UpToDateTarget, filesVars
<1>5. ASSUME NEW c \in Configs, Clean(c) \/ Interrupt(c)
      PROVE  version' = version /\ Disturb
  BY <1>5 DEF Clean, Interrupt, filesVars
<1>6. ASSUME EditProject \/ Projgen \/ ProjgenRefuses \/ UNCHANGED buildVars
      PROVE  version' = version /\ (Disturb \/ disturbed' = disturbed)
  BY <1>6 DEF EditProject, Projgen, ProjgenRefuses, buildVars, filesVars
<1>7. ASSUME NEW s \in Sources, EditSource(s) PROVE Counted'
  BY <1>2, <1>7 DEF EditSource
<1>8. ASSUME NEW f \in Scripts, EditScript(f) PROVE Counted'
  BY <1>2, <1>8 DEF EditScript
<1> QED
  BY <1>3, <1>4, <1>5, <1>6, <1>7, <1>8 DEF BuildNext

(* A version there is is a version there can be. *)
LEMMA VersionsBounded ==
  ASSUME Counted, version \in [Sources \cup Scripts -> Nat]
  PROVE  \A f \in Sources \cup Scripts : version[f] \in 0 .. MaxDisturbances
<1>1. disturbed \in Nat /\ MaxDisturbances \in Nat /\ disturbed <= MaxDisturbances
  BY DEF Counted
<1> QED
  BY <1>1 DEF Counted

(* A configuration that a step leaves alone. *)
LEMMA BuiltUntouched ==
  ASSUME NEW c \in Configs, Built(c), UNCHANGED <<obj[c], elf[c], bin[c], old[c], newer[c]>>,
         c \in dir => c \in dir'
  PROVE  Built(c)'
<1>1. \A t : Missing(c, t)' => Missing(c, t)
  BY DEF Missing
<1> QED
  BY <1>1 DEF Built

(* The records of a build are never None. *)
LEMMA ImagesAreSomething == \A image \in Images : image # None
BY DEF BuildAssumption

LEMMA EditSourceBuilt ==
  ASSUME TypeInv, NEW s \in Sources, EditSource(s), NEW c \in Configs
  PROVE  Built(c)'
<1>1. /\ old'[c] = old[c] \cup ({s} \cap DOMAIN obj[c])
      /\ UNCHANGED <<obj, elf, bin, newer, dir>>
  BY DEF EditSource
<1>2. Built(c) /\ s \notin {"dir", "elf", "bin"}
  BY DEF TypeInv
<1>3. \A t : Missing(c, t)' = Missing(c, t)
  BY <1>1 DEF Missing
<1>4. s \in DOMAIN obj[c] => ~Missing(c, s)
  BY <1>2 DEF Missing
<1>5. \A t \in old'[c] : ~Missing(c, t)'
  BY <1>1, <1>2, <1>3, <1>4 DEF Built
<1> QED
  BY <1>1, <1>2, <1>5 DEF Built

LEMMA CleanBuilt ==
  ASSUME TypeInv, NEW d \in Configs, Clean(d), NEW c \in Configs
  PROVE  Built(c)'
<1>1. Shape /\ Built(c)
  BY DEF TypeInv, BuildInv
<1>2. CASE c = d
  <2>1. obj'[c] = NoObjects /\ elf'[c] = None /\ bin'[c] = None /\ old'[c] = {}
        /\ newer'[c] = {}
    BY <1>1, <1>2 DEF Clean, Shape
  <2>2. DOMAIN obj'[c] = {}
    BY <2>1 DEF NoObjects
  <2> QED
    BY <2>1, <2>2 DEF Built
<1>3. CASE c # d
  <2>1. UNCHANGED <<obj[c], elf[c], bin[c], old[c], newer[c]>> /\ (c \in dir => c \in dir')
    BY <1>1, <1>3 DEF Clean, Shape
  <2> QED
    BY <1>1, <2>1, BuiltUntouched
<1> QED
  BY <1>2, <1>3

LEMMA CompileBuilt ==
  ASSUME TypeInv, NEW d \in Configs, NEW s \in Sources, Compile(d, s), NEW c \in Configs
  PROVE  Built(c)'
<1>1. Shape /\ Counted /\ Built(c) /\ Fresh(c)
  BY DEF TypeInv, BuildInv
<1>2. CASE c # d
  <2>1. UNCHANGED <<obj[c], elf[c], bin[c], old[c], newer[c]>> /\ dir' = dir
    BY <1>1, <1>2 DEF Compile, Assembled, Shape
  <2> QED
    BY <1>1, <2>1, BuiltUntouched
<1>3. CASE c = d
  <2>1. running[c] # None /\ c \in dir /\ UNCHANGED <<dir, elf, bin>>
    BY <1>3 DEF Compile, ToRemake, Ready
  <2>2. running[c] \in Runs
    BY <1>1, <2>1 DEF Fresh
  <2>3. Object(c, s) \in Compiled
    <3>1. version[s] \in 0 .. MaxDisturbances
      BY <1>1, VersionsBounded DEF Shape
    <3>2. running[c].rules.flags \in Flags
      BY <2>2 DEF Runs, Rules
    <3> QED
      BY <3>1, <3>2 DEF Object, Compiled
  <2> DEFINE o == [t \in DOMAIN obj[c] \cup {s} |-> IF t = s THEN Object(c, s) ELSE obj[c][t]]
  <2>4. obj'[c] = o
    BY <1>1, <1>3 DEF Compile, Assembled, Shape
  <2>5. /\ DOMAIN o = DOMAIN obj[c] \cup {s} /\ o[s] = Object(c, s)
        /\ \A t \in DOMAIN obj[c] \ {s} : o[t] = obj[c][t]
    OBVIOUS
  <2> HIDE DEF o
  <2>6. \A t \in DOMAIN obj'[c] : obj'[c][t] \in Compiled
    BY <1>1, <2>3, <2>4, <2>5 DEF Built
  <2>7. /\ old'[c] \subseteq old[c]
        /\ newer'[c] = IF elf[c] # None THEN newer[c] \cup {s} ELSE newer[c]
    BY <1>1, <1>3 DEF Compile, Shape
  <2>8. \A t : Missing(c, t)' => Missing(c, t)
    BY <2>1, <2>4, <2>5 DEF Missing
  <2>9. newer'[c] \subseteq DOMAIN obj'[c] /\ (newer'[c] # {} => elf[c] # None)
    BY <1>1, <2>4, <2>5, <2>7 DEF Built
  <2>10. \A t \in old'[c] : ~Missing(c, t)'
    BY <1>1, <2>7, <2>8 DEF Built
  <2> QED
    BY <1>1, <2>1, <2>6, <2>9, <2>10 DEF Built
<1> QED
  BY <1>2, <1>3

LEMMA LinkBuilt ==
  ASSUME TypeInv, NEW d \in Configs, Link(d), NEW c \in Configs
  PROVE  Built(c)'
<1>1. Shape /\ Counted /\ Built(c) /\ Fresh(c)
  BY DEF TypeInv, BuildInv
<1>2. CASE c # d
  <2>1. UNCHANGED <<obj[c], elf[c], bin[c], old[c], newer[c]>> /\ dir' = dir
    BY <1>1, <1>2 DEF Link, Shape
  <2> QED
    BY <1>1, <2>1, BuiltUntouched
<1>3. CASE c = d
  <2> DEFINE rules == running[c].rules
             o == [s \in rules.objects |-> obj[c][s]]
             e == [objects |-> o, flags |-> rules.flags, script |-> LinkedScript(rules)]
  <2>1. running[c] # None /\ running[c].todo \cap Sources = {} /\ UNCHANGED <<dir, obj, bin>>
    BY <1>3 DEF Link, ToRemake, Ready
  <2>2. /\ elf'[c] = e
        /\ old'[c] = (IF bin[c] # None THEN old[c] \cup {"bin"} ELSE old[c]) /\ newer'[c] = {}
    BY <1>1, <1>3 DEF Link, Shape
  <2>3. rules \in Rules /\ rules.objects \ running[c].todo \subseteq DOMAIN obj[c]
    BY <1>1, <2>1 DEF Fresh, Runs
  <2>4. o \in [rules.objects -> Compiled] /\ rules.objects \in SUBSET Sources
    <3>1. rules.objects \subseteq DOMAIN obj[c] /\ rules.objects \in SUBSET Sources
      BY <2>1, <2>3 DEF Rules
    <3>2. \A s \in rules.objects : obj[c][s] \in Compiled
      BY <1>1, <3>1 DEF Built
    <3> QED
      BY <3>1, <3>2
  <2>5. LinkedScript(rules) \in {None} \cup (Scripts \X (0 .. MaxDisturbances))
    <3>1. rules.script \in Scripts \cup {None}
      BY <2>3 DEF Rules
    <3>2. ASSUME NEW f \in Scripts PROVE version[f] \in 0 .. MaxDisturbances
      BY <1>1, VersionsBounded DEF Shape
    <3> QED
      BY <3>1, <3>2 DEF LinkedScript
  <2>6. rules.flags \in Flags
    BY <2>3 DEF Rules
  <2>7. e \in Images
    <3>1. o \in UNION {[S -> Compiled] : S \in SUBSET Sources}
      BY <2>4
    <3> HIDE DEF o, rules
    <3> QED
      BY <2>5, <2>6, <3>1 DEF Images
  <2> HIDE DEF e, o, rules
  <2>8. elf'[c] \in Images /\ elf'[c] # None
    BY <2>2, <2>7, ImagesAreSomething
  <2>9. \A t : Missing(c, t)' => Missing(c, t)
    BY <2>1, <2>8 DEF Missing
  <2>10. bin[c] # None => ~Missing(c, "bin")
    BY DEF Missing
  <2>11. \A t \in old'[c] : ~Missing(c, t)'
    BY <1>1, <2>2, <2>9, <2>10 DEF Built
  <2>12. newer'[c] \subseteq DOMAIN obj'[c] /\ newer'[c] = {}
    BY <2>2
  <2> QED
    BY <1>1, <2>1, <2>8, <2>11, <2>12 DEF Built
<1> QED
  BY <1>2, <1>3

LEMMA ObjcopyBuilt ==
  ASSUME TypeInv, NEW d \in Configs, Objcopy(d), NEW c \in Configs
  PROVE  Built(c)'
<1>1. Shape /\ Built(c)
  BY DEF TypeInv, BuildInv
<1>2. CASE c # d
  <2>1. UNCHANGED <<obj[c], elf[c], bin[c], old[c], newer[c]>> /\ dir' = dir
    BY <1>1, <1>2 DEF Objcopy, Shape
  <2> QED
    BY <1>1, <2>1, BuiltUntouched
<1>3. CASE c = d
  <2>1. bin'[c] = elf[c] /\ old'[c] = old[c] \ {"bin"} /\ UNCHANGED <<dir, obj, elf, newer>>
    BY <1>1, <1>3 DEF Objcopy, Shape
  <2>2. \A t : t # "bin" /\ Missing(c, t)' => Missing(c, t)
    BY <2>1 DEF Missing
  <2>3. \A t \in old'[c] : ~Missing(c, t)'
    BY <1>1, <2>1, <2>2 DEF Built
  <2> QED
    BY <1>1, <2>1, <2>3 DEF Built
<1> QED
  BY <1>2, <1>3

LEMMA BuiltStep ==
  ASSUME TypeInv, [BuildNext]_buildVars, NEW c \in Configs
  PROVE  Built(c)'
<1>1. Built(c)
  BY DEF TypeInv
<1>2. ASSUME UNCHANGED <<obj, elf, bin, old, newer>>, c \in dir => c \in dir' PROVE Built(c)'
  BY <1>1, <1>2, BuiltUntouched
<1>3. ASSUME NEW f \in Scripts, EditScript(f) PROVE Built(c)'
  BY <1>2, <1>3 DEF EditScript, productVars
<1>4. ASSUME EditProject \/ Projgen \/ ProjgenRefuses \/ UNCHANGED buildVars PROVE Built(c)'
  BY <1>2, <1>4 DEF EditProject, Projgen, ProjgenRefuses, buildVars, productVars
<1>5. ASSUME NEW d \in Configs, Interrupt(d) PROVE Built(c)'
  BY <1>2, <1>5 DEF Interrupt, productVars
<1>6. ASSUME NEW d \in Configs, Make(d) PROVE Built(c)'
  <2>1. ASSUME MakeStart(d) \/ MakeDone(d) PROVE Built(c)'
    BY <1>2, <2>1 DEF MakeStart, MakeDone, productVars
  <2>2. ASSUME MakeDir(d) PROVE Built(c)'
    BY <1>2, <2>2 DEF MakeDir
  <2>3. ASSUME NEW s \in Sources, CompileTooEarly(d, s) PROVE Built(c)'
    BY <1>2, <2>3 DEF CompileTooEarly
  <2>4. ASSUME NEW t \in Targets, UpToDateTarget(d, t) PROVE Built(c)'
    BY <1>2, <2>4 DEF UpToDateTarget, productVars
  <2> QED
    BY <1>6, <2>1, <2>2, <2>3, <2>4, CompileBuilt, LinkBuilt, ObjcopyBuilt DEF Make, Targets
<1> QED
  BY <1>3, <1>4, <1>5, <1>6, EditSourceBuilt, CleanBuilt DEF BuildNext

LEMMA TypesStep == TypeInv /\ [BuildNext]_buildVars => TypeInv'
<1> SUFFICES ASSUME TypeInv, [BuildNext]_buildVars PROVE TypeInv'
  OBVIOUS
<1>1. BuildInv' /\ Counted' /\ \A c \in Configs : Built(c)'
  BY BuildStep, CountedStep, BuiltStep DEF TypeInv
<1>2. dir \subseteq Configs /\ untracked \subseteq Configs
  BY DEF TypeInv
<1>3. ASSUME NEW c \in Configs, Make(c)
      PROVE  dir' \subseteq Configs /\ untracked' \subseteq Configs
  BY <1>2, <1>3 DEF Make, MakeStart, MakeDir, Link, Objcopy, MakeDone, Compile,
     CompileTooEarly, UpToDateTarget, productVars
<1>4. Begun \subseteq Configs
  BY DEF Begun
<1>5. dir' \subseteq Configs /\ untracked' \subseteq Configs
  BY <1>2, <1>3, <1>4 DEF BuildNext, EditSource, EditScript, EditProject, Projgen,
     ProjgenRefuses, Clean, Interrupt, productVars, buildVars
<1> QED
  BY <1>1, <1>5 DEF TypeInv

(* What the build directory holds: objects only where there is a directory *)
(* for them, marks only on what exists, an image only of an executable,    *)
(* and all of it made of versions there have been (Makefile.hpp:114-156).  *)
THEOREM BuildTypeCorrect == BuildSpec => []BuildTypeOK
<1>1. TypeInv => BuildTypeOK
  <2> SUFFICES ASSUME TypeInv PROVE BuildTypeOK
    OBVIOUS
  <2>1. Shape /\ Counted
    BY DEF TypeInv, BuildInv
  <2>2. version \in [Sources \cup Scripts -> 0 .. MaxDisturbances]
    BY <2>1, VersionsBounded DEF Shape
  <2>3. \A c \in Configs : Built(c) /\ DOMAIN obj[c] \subseteq Sources
    BY DEF TypeInv, BuildInv, Fresh
  <2> QED
    BY <2>1, <2>2, <2>3 DEF BuildTypeOK, TypeInv, Counted, Shape, Rules, Built
<1> QED
  BY <1>1, TypesInitially, TypesStep, PTL DEF BuildSpec
================================================================================
