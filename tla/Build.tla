---------------------------------- MODULE Build --------------------------------
(***************************************************************************)
(* Guest projects: projgen turns project.json into a Makefile, and make    *)
(* runs its rules, several configurations at a time, while the sources and *)
(* the project are edited.  What make does with a rule is modelled as GNU  *)
(* make does it: a target is remade if it is missing or older than one of  *)
(* the prerequisites the rule names, and a run reads the Makefile once.    *)
(***************************************************************************)
EXTENDS Naturals, FiniteSets

CONSTANTS
  Sources,           \* files of the types AsmSourceFile, CSourceFile, CppSourceFile
  Scripts, Others,   \* LinkerScript; Invalid
  Listings,          \* what "Sources" in project.json may list
  Flags,             \* what the flags of the configurations may be
  Configs,
  None,
  MaxDisturbances    \* bound on edits, cleans and interrupted runs

(* What can be built: objects from versions of sources, and images of them.*)
Compiled == [version : 0 .. MaxDisturbances, flags : Flags]

Images ==
  [objects : UNION {[S -> Compiled] : S \in SUBSET Sources}, flags : Flags,
   script  : {None} \cup (Scripts \X (0 .. MaxDisturbances))]

ASSUME BuildAssumption ==
  /\ None \notin Images
  /\ Listings \subseteq SUBSET (Sources \cup Scripts \cup Others)
  /\ MaxDisturbances \in Nat
  /\ Sources \cap Scripts = {} /\ {"elf", "bin", "dir"} \cap Sources = {}

VARIABLES
  version,    \* how often each source and script has been edited
  project,    \* project.json: the files it lists, the flags
  makefile,   \* the Makefile: the objects, the script, the flags; or None
  dir,        \* the configurations whose obj directory exists
  obj, elf, bin,  \* what each configuration has built, and from what
  old,        \* the objects and images that are older than what their rule makes them from
  newer,      \* the objects that are newer than the executable
  running,    \* each configuration's run of make: the rules it has read and the targets it
              \* has yet to consider; or None
  disturbed,  \* edits, cleans and interrupts so far
  untracked   \* history: configurations with files from before a change that no rule sees

filesVars   == <<version, project, makefile>>
productVars == <<dir, obj, elf, bin, old, newer>>
buildVars   == <<filesVars, productVars, running, disturbed, untracked>>

NoObjects == [s \in {} |-> None]

BuildInit ==
  /\ version = [f \in Sources \cup Scripts |-> 0]
  /\ project \in [files : Listings, flags : Flags] /\ makefile = None
  /\ dir = {} /\ obj = [c \in Configs |-> NoObjects]
  /\ elf = [c \in Configs |-> None] /\ bin = [c \in Configs |-> None]
  /\ old = [c \in Configs |-> {}] /\ newer = [c \in Configs |-> {}] /\ running = [c \in Configs |-> None]
  /\ disturbed = 0 /\ untracked = {}

(* A change that no rule sees concerns what has been built or is being     *)
(* built.                                                                  *)
Begun == {c \in Configs : running[c] # None \/ DOMAIN obj[c] # {} \/ elf[c] # None}

Disturb == disturbed < MaxDisturbances /\ disturbed' = disturbed + 1

--------------------------------------------------------------------------------
(* The author of the project. *)

EditSource(s) ==
  /\ Disturb /\ version' = [version EXCEPT ![s] = @ + 1]
  /\ old' = [c \in Configs |-> old[c] \cup ({s} \cap DOMAIN obj[c])]
  /\ UNCHANGED <<project, makefile, dir, obj, elf, bin, newer, running, untracked>>

(* The link rule names the objects only. *)
EditScript(f) ==
  /\ Disturb /\ version' = [version EXCEPT ![f] = @ + 1]
  /\ untracked' = untracked \cup Begun
  /\ UNCHANGED <<project, makefile, productVars, running>>

EditProject ==
  /\ Disturb /\ project' \in [files : Listings, flags : Flags]
  /\ UNCHANGED <<version, makefile, productVars, running, untracked>>

(* Checked before the Makefile is opened. *)
Accepted == project.files \cap Others = {} /\ Cardinality(project.files \cap Scripts) <= 1

Generated ==
  [objects |-> project.files \cap Sources,
   script  |-> IF project.files \cap Scripts = {} THEN None
               ELSE CHOOSE f \in project.files \cap Scripts : TRUE,
   flags   |-> project.flags]

(* The process ends in an assertion, and the Makefile stays what it was.   *)
ProjgenRefuses == ~Accepted /\ UNCHANGED buildVars

(* No rule names the Makefile as a prerequisite.                           *)
Projgen ==
  /\ Accepted /\ makefile' = Generated
  /\ untracked' = IF makefile' = makefile THEN untracked ELSE untracked \cup Begun
  /\ UNCHANGED <<version, project, productVars, running, disturbed>>

(* Mutants of Clean: rm without the image; rm without the objects. *)
CleanKeepsImage(c) ==
  /\ makefile # None /\ running[c] = None /\ Disturb
  /\ dir' = dir \ {c} /\ obj' = [obj EXCEPT ![c] = NoObjects]
  /\ elf' = [elf EXCEPT ![c] = None]
  /\ old' = [old EXCEPT ![c] = {}] /\ newer' = [newer EXCEPT ![c] = {}]
  /\ untracked' = untracked \ {c} /\ UNCHANGED <<filesVars, bin, running>>

CleanKeepsObjects(c) ==
  /\ makefile # None /\ running[c] = None /\ Disturb
  /\ elf' = [elf EXCEPT ![c] = None] /\ bin' = [bin EXCEPT ![c] = None]
  /\ old' = [old EXCEPT ![c] = @ \cap Sources] /\ newer' = [newer EXCEPT ![c] = {}]
  /\ untracked' = untracked \ {c} /\ UNCHANGED <<filesVars, dir, obj, running>>

(* make clean *)
Clean(c) ==
  /\ makefile # None /\ running[c] = None /\ Disturb
  /\ dir' = dir \ {c} /\ obj' = [obj EXCEPT ![c] = NoObjects]
  /\ elf' = [elf EXCEPT ![c] = None] /\ bin' = [bin EXCEPT ![c] = None]
  /\ old' = [old EXCEPT ![c] = {}] /\ newer' = [newer EXCEPT ![c] = {}]
  /\ untracked' = untracked \ {c} /\ UNCHANGED <<filesVars, running>>

--------------------------------------------------------------------------------
(* A run of make. *)

MakeStart(c) ==
  /\ makefile # None /\ running[c] = None
  /\ running' = [running EXCEPT ![c] =
       [todo |-> {"dir", "elf", "bin"} \cup makefile.objects, rules |-> makefile]]
  /\ UNCHANGED <<filesVars, productVars, disturbed, untracked>>

Considered(c, t) == running' = [running EXCEPT ![c].todo = @ \ {t}]

(* make gets to a target when its prerequisites have been considered.      *)
Ready(c, t) ==
  /\ running[c] # None /\ t \in running[c].todo
  /\ t = "elf" => running[c].todo \cap Sources = {}
  /\ t = "bin" => "elf" \notin running[c].todo

Missing(c, t) ==
  CASE t = "dir" -> c \notin dir
    [] t = "elf" -> elf[c] = None
    [] t = "bin" -> bin[c] = None
    [] OTHER     -> t \notin DOMAIN obj[c]

(* A set of rules asks for the objects it lists, and for no others. *)
Outdated(c, t, rules) ==
  \/ Missing(c, t) \/ t \in old[c]
  \/ t = "elf" /\ newer[c] \cap rules.objects # {}

ToRemake(c, t) == Ready(c, t) /\ Outdated(c, t, running[c].rules)

UpToDateTarget(c, t) ==
  /\ Ready(c, t) /\ ~Outdated(c, t, running[c].rules) /\ Considered(c, t)
  /\ UNCHANGED <<filesVars, productVars, disturbed, untracked>>

MakeDir(c) ==
  /\ ToRemake(c, "dir") /\ dir' = dir \cup {c} /\ Considered(c, "dir")
  /\ UNCHANGED <<filesVars, obj, elf, bin, old, newer, disturbed, untracked>>

(* What an object is made from. *)
Object(c, s) == [version |-> version[s], flags |-> running[c].rules.flags]

Assembled(c, s) ==
  [obj EXCEPT ![c] = [t \in DOMAIN @ \cup {s} |-> IF t = s THEN Object(c, s) ELSE @[t]]]

(* Mutant of Compile: the object it replaces is not seen by the link rule. *)
CompileQuiet(c, s) ==
  /\ ToRemake(c, s) /\ c \in dir
  /\ obj' = Assembled(c, s) /\ old' = [old EXCEPT ![c] = @ \ {s}]
  /\ Considered(c, s) /\ UNCHANGED <<filesVars, dir, elf, bin, newer, disturbed, untracked>>

Compile(c, s) ==
  /\ ToRemake(c, s) /\ c \in dir
  /\ obj' = Assembled(c, s)
  /\ old' = [old EXCEPT ![c] = @ \ {s}]
  /\ newer' = [newer EXCEPT ![c] = IF elf[c] # None THEN @ \cup {s} ELSE @]
  /\ Considered(c, s) /\ UNCHANGED <<filesVars, dir, elf, bin, disturbed, untracked>>

(* Mutant of CompileTooEarly: "all" does not ask for the directory either. *)
CompileNowhere(c, s) ==
  /\ ToRemake(c, s) /\ c \notin dir
  /\ running' = [running EXCEPT ![c] = None]
  /\ UNCHANGED <<filesVars, productVars, disturbed, untracked>>

(* The rules of the objects do not name the directory: with make -j the    *)
(* compiler may look for it too early.  make fails, after the mkdir it     *)
(* started before.                                                         *)
CompileTooEarly(c, s) ==
  /\ ToRemake(c, s) /\ c \notin dir
  /\ dir' = dir \cup {c} /\ running' = [running EXCEPT ![c] = None]
  /\ UNCHANGED <<filesVars, obj, elf, bin, old, newer, disturbed, untracked>>

(* "-T" with the script, if the project has one. *)
LinkedScript(rules) ==
  IF rules.script = None THEN None ELSE <<rules.script, version[rules.script]>>

Link(c) ==
  /\ ToRemake(c, "elf")
  /\ elf' = [elf EXCEPT ![c] =
       [objects |-> [s \in running[c].rules.objects |-> obj[c][s]],
        flags   |-> running[c].rules.flags, script |-> LinkedScript(running[c].rules)]]
  /\ newer' = [newer EXCEPT ![c] = {}]
  /\ old' = [old EXCEPT ![c] = IF bin[c] # None THEN @ \cup {"bin"} ELSE @]
  /\ Considered(c, "elf") /\ UNCHANGED <<filesVars, dir, obj, bin, disturbed, untracked>>

Objcopy(c) ==
  /\ ToRemake(c, "bin")
  /\ bin' = [bin EXCEPT ![c] = elf[c]] /\ old' = [old EXCEPT ![c] = @ \ {"bin"}]
  /\ Considered(c, "bin") /\ UNCHANGED <<filesVars, dir, obj, elf, newer, disturbed, untracked>>

MakeDone(c) ==
  /\ running[c] # None /\ running[c].todo = {}
  /\ running' = [running EXCEPT ![c] = None]
  /\ UNCHANGED <<filesVars, productVars, disturbed, untracked>>

Interrupt(c) ==
  /\ running[c] # None /\ Disturb /\ running' = [running EXCEPT ![c] = None]
  /\ UNCHANGED <<filesVars, productVars, untracked>>

Make(c) ==
  \/ MakeStart(c) \/ MakeDir(c) \/ Link(c) \/ Objcopy(c) \/ MakeDone(c)
  \/ \E s \in Sources : Compile(c, s) \/ CompileTooEarly(c, s)
  \/ \E t \in Sources \cup {"dir", "elf", "bin"} : UpToDateTarget(c, t)

BuildNext ==
  \/ \E s \in Sources : EditSource(s)
  \/ \E f \in Scripts : EditScript(f)
  \/ EditProject \/ Projgen \/ ProjgenRefuses
  \/ \E c \in Configs : Clean(c) \/ Interrupt(c) \/ Make(c)

(* Whoever wants the program built runs make until it is.                  *)
BuildSpec ==
  BuildInit /\ [][BuildNext]_buildVars /\ \A c \in Configs : WF_buildVars(Make(c))
--------------------------------------------------------------------------------
(* Properties. *)

BuildTypeOK ==
  /\ version \in [Sources \cup Scripts -> 0 .. MaxDisturbances]
  /\ makefile # None => makefile.objects \subseteq Sources /\ makefile.script \in Scripts \cup {None}
  /\ disturbed \in 0 .. MaxDisturbances
  /\ dir \subseteq Configs /\ untracked \subseteq Configs
  /\ \A c \in Configs :
       /\ DOMAIN obj[c] \subseteq Sources /\ \A s \in DOMAIN obj[c] : obj[c][s] \in Compiled
       /\ DOMAIN obj[c] # {} => c \in dir
       /\ {elf[c], bin[c]} \subseteq Images \cup {None}
       /\ \A t \in old[c] : ~Missing(c, t)
       /\ newer[c] \subseteq DOMAIN obj[c] /\ (newer[c] # {} => elf[c] # None)
       /\ bin[c] # None => elf[c] # None

(* make has nothing to do for c. *)
Current(c) ==
  /\ makefile # None
  /\ \A t \in {"dir", "elf", "bin"} \cup makefile.objects : ~Outdated(c, t, makefile)

(* What a build of c in an empty directory would be.                       *)
FromScratch(c) ==
  [objects |-> [s \in makefile.objects |-> [version |-> version[s], flags |-> makefile.flags]],
   flags   |-> makefile.flags, script |-> LinkedScript(makefile)]

(* When make has nothing to do, the image holds no old version of a source *)
(* of the project, whatever was edited, regenerated, interrupted or run in *)
(* parallel before (Makefile.hpp:114-156).                                 *)
SourcesCurrent ==
  \A c \in Configs : Current(c) =>
    \A s \in makefile.objects \cap DOMAIN bin[c].objects : bin[c].objects[s].version = version[s]

(* It is even what a build from scratch would give, as long as nothing but *)
(* sources has changed since the configuration was last clean: the rules   *)
(* name no linker script, no flags and no list of objects.                 *)
IncrementalIsClean ==
  \A c \in Configs \ untracked : Current(c) => bin[c] = FromScratch(c)

(* Running make settles, also with -j in a directory that has never been   *)
(* built and after interrupted runs.                                       *)
BuildSettles == <>[](makefile = None \/ \A c \in Configs : Current(c))
================================================================================
