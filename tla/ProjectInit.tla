----------------------------- MODULE ProjectInit -----------------------------
(***************************************************************************)
(* Making a new book (init_project.py): the project is built in a          *)
(* directory beside its target and renamed onto it, without a lock, while  *)
(* another init and the author's other programs are at work.               *)
(*                                                                         *)
(* Two paths are watched: a directory and one inside it; on Windows, where *)
(* the target is moved out of the way in its parent, the outer one only.   *)
(* A directory is its inode, the project whose files are in it, whether    *)
(* the author has put a file there, and what is in it besides.  The files  *)
(* of a project are built in one step, which may fail.                     *)
(***************************************************************************)
EXTENDS FiniteSets, Naturals

CONSTANTS
    Inits,      \* processes that run init
    Inodes,     \* bound: inodes, which the file system uses again
    MaxActs     \* bound: what the author and her other programs do to the two directories

Nobody == "nobody"

ASSUME InitAssumption ==
    Inodes \subseteq Nat \ {0} /\ MaxActs \in Nat /\ Nobody \notin Inits

VARIABLES
    platform,   \* "posix" or "windows"
    target,     \* the path each process was given
    step,       \* where each process is
    snapshot,   \* _InitTargetSnapshot
    created,    \* created_parents: did the process find its parent missing?
    outer,      \* the outer directory, and the inner one in it
    beside,     \* staging directories next to the outer directory
    aside,      \* Windows: what a process has moved out of the way
    acts        \* the author's so far

initVars == <<platform, target, step, snapshot, created, outer, beside, aside, acts>>

Absent == [ino |-> 0]

\* An empty directory; a published project keeps an inode that nobody looks at.
Dir(ino, by) == [ino |-> ino, by |-> by, note |-> FALSE, inner |-> Absent, staged |-> {}]
IsDir(d) == d # Absent
IsEmpty(d) == d.by = Nobody /\ ~d.note /\ d.inner = Absent /\ d.staged = {}

DirAt(path) ==
    IF path = "outer" THEN outer ELSE IF IsDir(outer) THEN outer.inner ELSE Absent
Put(path, d) == outer' = IF path = "outer" THEN d ELSE [outer EXCEPT !.inner = d]

NewInode ==
    Inodes \ ({DirAt(path).ino : path \in {"outer", "inner"}} \cup {aside[p].ino : p \in Inits})
ParentIsThere(p) == target[p] = "outer" \/ IsDir(outer)

Proceed(p, label) == step' = [step EXCEPT ![p] = label]

\* The process ends, and what it knew with it.
End(p, label) ==
    /\ Proceed(p, label)
    /\ snapshot' = [snapshot EXCEPT ![p] = 0]
    /\ created' = [created EXCEPT ![p] = FALSE]

-----------------------------------------------------------------------------
\* Mutant: the scope of the target is looked at before the build only.
InScopeOnce(p) ==
    target[p] = "inner" /\ IsDir(outer) /\ step[p] = "start" => outer.by = Nobody

\* _assert_init_target_scope: no ancestor is a project.
InScope(p) == target[p] = "inner" /\ IsDir(outer) => outer.by = Nobody

\* _preflight_init_target
Preflight(p) ==
    /\ step[p] = "start"
    /\ IF InScope(p) /\ (IsDir(DirAt(target[p])) => IsEmpty(DirAt(target[p])))
       THEN /\ snapshot' = [snapshot EXCEPT ![p] = DirAt(target[p]).ino]
            /\ Proceed(p, "parent") /\ UNCHANGED created
       ELSE End(p, "refused")
    /\ UNCHANGED <<outer, beside, aside>>

\* _make_staging_parent looks for what is missing ...
LookForParent(p) ==
    /\ step[p] = "parent"
    /\ created' = [created EXCEPT ![p] = ~ParentIsThere(p)]
    /\ Proceed(p, "mkdir")
    /\ UNCHANGED <<snapshot, outer, beside, aside>>

\* ... and makes it.
MakeParent(p) ==
    /\ step[p] = "mkdir"
    /\ IF ParentIsThere(p) THEN UNCHANGED outer
       ELSE \E i \in NewInode : outer' = Dir(i, Nobody)
    /\ Proceed(p, "mkdtemp")
    /\ UNCHANGED <<snapshot, created, beside, aside>>

StagingIsThere(p) ==
    IF target[p] = "outer" THEN p \in beside ELSE IsDir(outer) /\ p \in outer.staged

\* The staging directory; another process may have removed the parent.
MakeStaging(p) ==
    /\ step[p] = "mkdtemp"
    /\ IF ~ParentIsThere(p) THEN Proceed(p, "cleanup") /\ UNCHANGED <<outer, beside>>
       ELSE /\ Proceed(p, "build")
            /\ IF target[p] = "outer" THEN beside' = beside \cup {p} /\ UNCHANGED outer
               ELSE outer' = [outer EXCEPT !.staged = @ \cup {p}] /\ UNCHANGED beside
    /\ UNCHANGED <<snapshot, created, aside>>

\* _build_project_tree, _assert_staged_tree_is_portable
Build(p) ==
    /\ step[p] = "build"
    /\ \/ StagingIsThere(p) /\ Proceed(p, "check")
       \/ Proceed(p, "cleanup")
    /\ UNCHANGED <<snapshot, created, outer, beside, aside>>

\* _target_still_matches_preflight
StillMatches(p) ==
    LET d == DirAt(target[p]) IN
    InScope(p) /\ d.ino = snapshot[p] /\ (IsDir(d) => IsEmpty(d))

Check(p) ==
    /\ step[p] = "check"
    /\ Proceed(p, IF ~StillMatches(p) THEN "cleanup"
               ELSE IF platform = "windows" /\ snapshot[p] # 0 THEN "move" ELSE "rename")
    /\ UNCHANGED <<snapshot, created, outer, beside, aside>>

-----------------------------------------------------------------------------
(* _publish_staged_project                                                   *)

\* Mutant: what has come to the target is replaced.
Replaceable(d) == platform = "posix"

\* os.replace onto an existing directory: an empty one, on POSIX.
MayReplace(d) == platform = "posix" /\ IsEmpty(d)

\* The staging directory becomes the target.
Place(p) ==
    IF target[p] = "outer" THEN outer' = Dir(0, p) /\ beside' = beside \ {p}
    ELSE outer' = [outer EXCEPT !.inner = Dir(0, p), !.staged = @ \ {p}] /\ UNCHANGED beside

Rename(p) ==
    /\ step[p] = "rename"
    /\ IF StagingIsThere(p) /\ (IsDir(DirAt(target[p])) => MayReplace(DirAt(target[p])))
       THEN Place(p) /\ End(p, "published")
       ELSE Proceed(p, "cleanup") /\ UNCHANGED <<snapshot, created, outer, beside>>
    /\ UNCHANGED aside

\* Windows: the target is moved out of the way, whatever it is by now, ...
MoveAside(p) ==
    /\ step[p] = "move"
    /\ IF IsDir(DirAt(target[p]))
       THEN /\ aside' = [aside EXCEPT ![p] = DirAt(target[p])]
            /\ Put(target[p], Absent)
            /\ Proceed(p, "place")
       ELSE Proceed(p, "cleanup") /\ UNCHANGED <<outer, aside>>
    /\ UNCHANGED <<snapshot, created, beside>>

\* ... the staging directory takes its place, ...
RenameMoved(p) ==
    /\ step[p] = "place"
    /\ IF StagingIsThere(p) /\ ~IsDir(DirAt(target[p]))
       THEN Place(p) /\ Proceed(p, "drop")
       ELSE Proceed(p, "restore") /\ UNCHANGED <<outer, beside>>
    /\ UNCHANGED <<snapshot, created, aside>>

\* ... or the target comes back, if it can.
MoveBack(p) ==
    /\ step[p] = "restore"
    /\ IF ~IsDir(DirAt(target[p]))
       THEN Put(target[p], aside[p]) /\ aside' = [aside EXCEPT ![p] = Absent]
       ELSE UNCHANGED <<outer, aside>>
    /\ Proceed(p, "cleanup")
    /\ UNCHANGED <<snapshot, created, beside>>

\* Mutant: what was moved out of the way is deleted with all that is in it.
DropAsideWhole(p) ==
    /\ step[p] = "drop"
    /\ aside' = [aside EXCEPT ![p] = Absent]
    /\ End(p, "published")
    /\ UNCHANGED <<outer, beside>>

\* What was moved away is dropped if it is empty.
DropAside(p) ==
    /\ step[p] = "drop"
    /\ aside' = IF IsEmpty(aside[p]) THEN [aside EXCEPT ![p] = Absent] ELSE aside
    /\ End(p, "published")
    /\ UNCHANGED <<outer, beside>>

\* The end of a failed init: the staging directory goes, ...
RemoveStaging(p) ==
    /\ step[p] = "cleanup"
    /\ beside' = beside \ {p}
    /\ outer' = IF IsDir(outer) THEN [outer EXCEPT !.staged = @ \ {p}] ELSE outer
    /\ Proceed(p, "parents")
    /\ UNCHANGED <<snapshot, created, aside>>

\* ... and the parents it had found missing, if they are empty.
RemoveParents(p) ==
    /\ step[p] = "parents"
    /\ outer' = IF created[p] /\ IsDir(outer) /\ IsEmpty(outer) THEN Absent ELSE outer
    /\ End(p, "failed")
    /\ UNCHANGED <<beside, aside>>

Ended == {"refused", "published", "failed", "killed"}

KillInit(p) ==
    /\ step[p] \notin Ended \cup {"start"}
    /\ End(p, "killed")
    /\ UNCHANGED <<outer, beside, aside>>

-----------------------------------------------------------------------------
(* The author and her other programs                                         *)

MakeDirectory(path) ==
    /\ ~IsDir(DirAt(path)) /\ (path = "inner" => IsDir(outer))
    /\ \E i \in NewInode : Put(path, Dir(i, Nobody))

RemoveDirectory(path) == IsDir(DirAt(path)) /\ IsEmpty(DirAt(path)) /\ Put(path, Absent)

SaveFile(path) == IsDir(DirAt(path)) /\ Put(path, [DirAt(path) EXCEPT !.note = TRUE])

AuthorStep ==
    /\ acts < MaxActs /\ acts' = acts + 1
    /\ \E path \in {"outer", "inner"} :
          MakeDirectory(path) \/ RemoveDirectory(path) \/ SaveFile(path)
    /\ UNCHANGED <<step, snapshot, created, beside, aside>>

-----------------------------------------------------------------------------
InitInit ==
    /\ platform \in {"posix", "windows"}
    /\ target \in [Inits -> {"outer", "inner"}]
    /\ platform = "windows" => \A p \in Inits : target[p] = "outer"
    /\ step = [p \in Inits |-> "start"]
    /\ snapshot = [p \in Inits |-> 0]
    /\ created = [p \in Inits |-> FALSE]
    /\ outer \in {Absent} \cup {Dir(i, Nobody) : i \in Inodes}
    /\ beside = {}
    /\ aside = [p \in Inits |-> Absent]
    /\ acts = 0

InitStep(p) ==
    \/ Preflight(p) \/ LookForParent(p) \/ MakeParent(p) \/ MakeStaging(p) \/ Build(p)
    \/ Check(p) \/ Rename(p) \/ MoveAside(p) \/ RenameMoved(p) \/ MoveBack(p) \/ DropAside(p)
    \/ RemoveStaging(p) \/ RemoveParents(p) \/ KillInit(p)

InitNext ==
    /\ UNCHANGED <<platform, target>>
    /\ \/ (\E p \in Inits : InitStep(p)) /\ UNCHANGED acts
       \/ AuthorStep

InitSpec == InitInit /\ [][InitNext]_initVars

-----------------------------------------------------------------------------
(* Properties *)

Contents(d) == IF ~IsDir(d) THEN {}
               ELSE (IF d.by # Nobody THEN {d.by} ELSE {}) \cup (IF d.note THEN {"note"} ELSE {})
InTree(d) == Contents(d) \cup IF IsDir(d) THEN Contents(d.inner) ELSE {}

\* A published project and what the author has saved stay where they are, whoever
\* starts an init there, whatever he saw before his build and wherever he dies.  On
\* Windows they may be moved out of the way with the directory, but not deleted.
InitLosesNothing ==
    [][ IF platform = "posix"
        THEN \A path \in {"outer", "inner"} : Contents(DirAt(path)) \subseteq Contents(DirAt(path)')
        ELSE UNION {InTree(d) : d \in {outer} \cup {aside[p] : p \in Inits}} \subseteq
             UNION {InTree(d) : d \in {outer'} \cup {aside'[p] : p \in Inits}} ]_initVars

\* No project is ever made inside another one, although both were looked for before
\* either was there.
NoNestedProjects ==
    IsDir(outer) /\ outer.by # Nobody /\ IsDir(outer.inner) => outer.inner.by = Nobody
=============================================================================
