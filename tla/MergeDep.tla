------------------------------ MODULE MergeDep ------------------------------
(***************************************************************************)
(* How make knows what to compile again: gcc -MD writes the headers of an  *)
(* object to a .d file, and before the next build the rule for .deps in    *)
(* GNUmakefile has mergedep.pl move what the .d files say into .deps.      *)
(* Anything may be killed between two steps, and files are edited at any   *)
(* time.                                                                   *)
(*                                                                         *)
(* A file of dependencies is a function from objects to sets of headers;   *)
(* an object that it does not list has no headers.                         *)
(***************************************************************************)
EXTENDS Naturals

CONSTANTS
  Objects, Headers,
  Source,       \* "the .c file" among the files an object depends on
  Faults        \* what may happen beside a kill: "full disk", "interrupt"

ASSUME MergeDepAssumption ==
  /\ Source \notin Headers
  /\ Faults \subseteq {"full disk", "interrupt"}

VARIABLES
  includes,     \* headers that the source of an object includes
  changed,      \* files changed since the object was compiled
  built,        \* objects that exist
  seen,         \* headers the compiler saw when it last worked on an object
  exists, deps, \* .deps: it exists, and what it says
  dfiles, d,    \* the .d files, and what they say
  newer,        \* .d files newer than .deps
  step,         \* the step of make or mergedep.pl
  argv,         \* .d files on mergedep's command line
  dephash, tmp, \* its table, and .deps.tmp
  left,         \* objects that make has yet to look at
  current       \* objects make took to be current since the last edit

tree == <<includes, changed>>
objects == <<built, seen>>
mainfile == <<exists, deps>>
newfiles == <<dfiles, d, newer>>
merger == <<argv, dephash, tmp>>
make == <<left, current>>
MDvars == <<tree, objects, mainfile, newfiles, step, merger, make>>

Nothing == [o \in Objects |-> {}]

-----------------------------------------------------------------------------
(* The user. *)

EditSource(o) ==
  /\ \E hs \in SUBSET Headers : includes' = [includes EXCEPT ![o] = hs]
  /\ changed' = [changed EXCEPT ![o] = @ \cup {Source}]
  /\ current' = {}
  /\ UNCHANGED <<objects, mainfile, newfiles, step, merger, left>>

\* Header h is edited, and may now include g.
EditHeader(h, g) ==
  /\ includes' = [o \in Objects |->
                    IF h \in includes[o] THEN includes[o] \cup {g} ELSE includes[o]]
  /\ changed' = [o \in Objects |-> changed[o] \cup {h}]
  /\ current' = {}
  /\ UNCHANGED <<objects, mainfile, newfiles, step, merger, left>>

-----------------------------------------------------------------------------
(* The rule for .deps. *)

MakeDeps_WhenMissing ==
  /\ step = "idle" /\ left' = Objects
  /\ \/ exists /\ step' = "build" /\ UNCHANGED argv
     \/ ~exists /\ step' = "read" /\ argv' = dfiles
  /\ UNCHANGED <<tree, objects, mainfile, newfiles, dephash, tmp, current>>

MakeDeps ==
  /\ step = "idle" /\ left' = Objects
  /\ \/ exists /\ newer = {} /\ step' = "build" /\ UNCHANGED argv
     \/ (~exists \/ newer # {}) /\ step' = "read" /\ argv' = dfiles
  /\ UNCHANGED <<tree, objects, mainfile, newfiles, dephash, tmp, current>>

Override_KeepsOld ==
  [o \in Objects |-> IF o \in argv /\ deps[o] = {} THEN d[o] ELSE deps[o]]

\* New dependencies of an object override those of .deps.
Override == [o \in Objects |-> IF o \in argv THEN d[o] ELSE deps[o]]

ReadDeps ==
  /\ step = "read" /\ step' = "write"
  /\ dephash' = Override
  /\ UNCHANGED <<tree, objects, mainfile, newfiles, argv, tmp, make>>

\* Nobody looks at what print and close return: a full disk cuts the file off.
Printed(table) ==
  {table} \cup (IF "full disk" \in Faults
                  THEN {f \in [Objects -> SUBSET Headers] :
                          \A o \in Objects : f[o] \subseteq table[o]}
                  ELSE {})

WriteTmp ==
  /\ step = "write" /\ step' = "rename"
  /\ tmp' \in Printed(dephash)
  /\ UNCHANGED <<tree, objects, mainfile, newfiles, argv, dephash, make>>

Rename ==
  /\ step = "rename" /\ step' = "unlink"
  /\ exists' = TRUE /\ deps' = tmp /\ newer' = {}
  /\ UNCHANGED <<tree, objects, dfiles, d, merger, make>>

Unlink_BeforeRename(o) ==
  /\ step \in {"rename", "unlink"} /\ o \in argv
  /\ argv' = argv \ {o} /\ dfiles' = dfiles \ {o}
  /\ UNCHANGED <<tree, objects, mainfile, d, newer, step, dephash, tmp, make>>

Unlink(o) ==
  /\ step = "unlink" /\ o \in argv
  /\ argv' = argv \ {o} /\ dfiles' = dfiles \ {o}
  /\ UNCHANGED <<tree, objects, mainfile, d, newer, step, dephash, tmp, make>>

\* make starts again with the new .deps.
Merged ==
  /\ step = "unlink" /\ argv = {} /\ step' = "build"
  /\ UNCHANGED <<tree, objects, mainfile, newfiles, merger, make>>

-----------------------------------------------------------------------------
(* The rules for objects. *)

OutOfDate(o) == o \notin built \/ changed[o] \cap ({Source} \cup deps[o]) # {}

\* gcc -MD writes down the headers it sees.
Depend(o) ==
  /\ seen' = [seen EXCEPT ![o] = includes[o]]
  /\ d' = [d EXCEPT ![o] = includes[o]]
  /\ dfiles' = dfiles \cup {o} /\ newer' = newer \cup {o}

Compile(o) ==
  /\ step = "build" /\ o \in left /\ OutOfDate(o)
  /\ Depend(o)
  /\ built' = built \cup {o}
  /\ changed' = [changed EXCEPT ![o] = {}]
  /\ left' = left \ {o} /\ current' = current \cup {o}
  /\ UNCHANGED <<includes, mainfile, step, merger>>

\* After an error the old object stays (.PRECIOUS) and the build ends; some
\* compilers write the .d file all the same.
CompileError(o) ==
  /\ step = "build" /\ o \in left /\ OutOfDate(o)
  /\ step' = "idle"
  /\ Depend(o) \/ UNCHANGED <<seen, newfiles>>
  /\ UNCHANGED <<tree, built, mainfile, merger, make>>

UpToDate(o) ==
  /\ step = "build" /\ o \in left /\ ~OutOfDate(o)
  /\ left' = left \ {o} /\ current' = current \cup {o}
  /\ UNCHANGED <<tree, objects, mainfile, newfiles, step, merger>>

Finish ==
  /\ step = "build" /\ left = {} /\ step' = "idle"
  /\ UNCHANGED <<tree, objects, mainfile, newfiles, merger, make>>

\* An interrupted make deletes the target it has changed.
Remains ==
  {<<exists, deps, newer>>} \cup (IF "interrupt" \in Faults /\ step = "unlink"
                                    THEN {<<FALSE, Nothing, dfiles>>}
                                    ELSE {})

Kill ==
  /\ step # "idle" /\ step' = "idle"
  /\ \E f \in Remains : exists' = f[1] /\ deps' = f[2] /\ newer' = f[3]
  /\ UNCHANGED <<tree, objects, dfiles, d, merger, make>>

-----------------------------------------------------------------------------

MDInit ==
  /\ includes \in [Objects -> SUBSET Headers]
  /\ changed = Nothing /\ built = {} /\ seen = Nothing
  /\ exists = FALSE /\ deps = Nothing
  /\ dfiles = {} /\ d = Nothing /\ newer = {}
  /\ step = "idle" /\ argv = {} /\ dephash = Nothing /\ tmp = Nothing
  /\ left = {} /\ current = {}

MDNext ==
  \/ \E o \in Objects : \/ EditSource(o) \/ Unlink(o)
                        \/ Compile(o) \/ CompileError(o) \/ UpToDate(o)
  \/ \E h, g \in Headers : EditHeader(h, g)
  \/ MakeDeps \/ ReadDeps \/ WriteTmp \/ Rename \/ Merged \/ Finish \/ Kill

MDSpec == MDInit /\ [][MDNext]_MDvars

-----------------------------------------------------------------------------
(* Properties. *)

Table == [Objects -> SUBSET Headers]

\* Everything has its type; a .d file newer than .deps exists, and what make
\* takes to be current is there.
MDTypeOK ==
  /\ includes \in Table /\ seen \in Table /\ deps \in Table
  /\ d \in Table /\ dephash \in Table /\ tmp \in Table
  /\ changed \in [Objects -> SUBSET (Headers \cup {Source})]
  /\ built \subseteq Objects /\ dfiles \subseteq Objects /\ newer \subseteq dfiles
  /\ argv \subseteq Objects /\ left \subseteq Objects /\ current \subseteq built
  /\ exists \in BOOLEAN
  /\ step \in {"idle", "read", "write", "rename", "unlink", "build"}

\* What the files say of an object, the newest first.
Recorded(o) == IF o \in dfiles THEN d[o] ELSE deps[o]

\* The headers of every object are on disk at every moment, wherever make or
\* mergedep.pl was killed and however often the same files are merged again.
DependenciesKept == \A o \in built : Recorded(o) = seen[o]

\* An object that make takes to be current is newer than its source and than
\* every header it includes now.
CurrentIsFresh ==
  \A o \in current : changed[o] \cap ({Source} \cup includes[o]) = {}

=============================================================================
