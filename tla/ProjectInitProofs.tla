-------------------------- MODULE ProjectInitProofs --------------------------
(***************************************************************************)
(* Proofs about ProjectInit, for every set of processes, every set of      *)
(* inodes and every number of the author's acts.                           *)
(***************************************************************************)
EXTENDS ProjectInit, TLAPS

Inner == {Absent} \cup
    [ino : Nat, by : Inits \cup {Nobody}, note : BOOLEAN, inner : {Absent}, staged : SUBSET Inits]
Outer == {Absent} \cup
    [ino : Nat, by : Inits \cup {Nobody}, note : BOOLEAN, inner : Inner, staged : SUBSET Inits]

Begun == {"start", "parent", "mkdir", "mkdtemp", "build", "check", "rename", "move"}
Moved == {"move", "place", "restore", "drop"}
Labels == Begun \cup Moved \cup Ended \cup {"cleanup", "parents"}

InitTypes ==
    /\ platform \in {"posix", "windows"}
    /\ target \in [Inits -> {"outer", "inner"}]
    /\ platform = "windows" => \A p \in Inits : target[p] = "outer"
    /\ step \in [Inits -> Labels]
    /\ outer \in Outer
    /\ aside \in [Inits -> Outer]

NotNested(d) == IsDir(d) /\ d.by # Nobody /\ IsDir(d.inner) => d.inner.by = Nobody

\* Only on Windows is anything moved out of the way, and nothing before the target is.
Moves == \A p \in Inits :
    /\ step[p] \in Moved => platform = "windows"
    /\ step[p] \in Begun => aside[p] = Absent
    /\ platform = "posix" => aside[p] = Absent

\* While the staging directory of an inner project is in the outer directory, nothing
\* can be renamed onto that: so what the last check of the scope saw stays true.
ScopeHolds == \A p \in Inits :
    /\ step[p] = "rename" /\ target[p] = "inner" /\ IsDir(outer) /\ p \in outer.staged
    => outer.by = Nobody

InitInv ==
    /\ InitTypes /\ Moves /\ ScopeHolds
    /\ NotNested(outer) /\ \A p \in Inits : NotNested(aside[p])

-----------------------------------------------------------------------------
LEMMA DirsAreDirs ==
    /\ \A i, b, n, d, s : IsDir([ino |-> i, by |-> b, note |-> n, inner |-> d, staged |-> s])
    /\ \A d \in Outer : IsDir(d) <=>
         d \in [ino : Nat, by : Inits \cup {Nobody}, note : BOOLEAN, inner : Inner, staged : SUBSET Inits]
    /\ \A d \in Inner : IsDir(d) <=>
         d \in [ino : Nat, by : Inits \cup {Nobody}, note : BOOLEAN, inner : {Absent}, staged : SUBSET Inits]
<1>1. \A i, b, n, d, s : [ino |-> i, by |-> b, note |-> n, inner |-> d, staged |-> s] # Absent
  <2> TAKE i, b, n, d, s
  <2> DEFINE r == [ino |-> i, by |-> b, note |-> n, inner |-> d, staged |-> s]
  <2>1. "by" \in DOMAIN r  OBVIOUS
  <2>2. "by" \notin DOMAIN Absent  BY DEF Absent
  <2> QED  BY <2>1, <2>2
<1>2. ASSUME NEW I, NEW d \in [ino : Nat, by : Inits \cup {Nobody}, note : BOOLEAN, inner : I, staged : SUBSET Inits]
      PROVE  d # Absent
  <2>1. "by" \in DOMAIN d  OBVIOUS
  <2>2. "by" \notin DOMAIN Absent  BY DEF Absent
  <2> QED  BY <2>1, <2>2
<1>3. Inner \subseteq {Absent} \cup Inner /\ Absent \in Inner /\ Absent \in Outer
  BY DEF Inner, Outer
<1>4. ASSUME NEW d \in Outer
      PROVE  IsDir(d) <=> d \in [ino : Nat, by : Inits \cup {Nobody}, note : BOOLEAN, inner : Inner, staged : SUBSET Inits]
  BY <1>2 DEF Outer, IsDir
<1>5. ASSUME NEW d \in Inner
      PROVE  IsDir(d) <=> d \in [ino : Nat, by : Inits \cup {Nobody}, note : BOOLEAN, inner : {Absent}, staged : SUBSET Inits]
  BY <1>2 DEF Inner, IsDir
<1> QED  BY <1>1, <1>4, <1>5 DEF IsDir

\* What is done to a directory, and that a directory is left.
LEMMA Edits ==
    /\ Absent \in Inner /\ Inner \subseteq Outer
    /\ \A i \in Nat, b \in Inits \cup {Nobody} : Dir(i, b) \in Inner /\ IsDir(Dir(i, b))
    /\ \A d \in Inner : IsDir(d) =>
          /\ d.by \in Inits \cup {Nobody} /\ d.inner = Absent /\ d.staged \subseteq Inits
          /\ [d EXCEPT !.note = TRUE] \in Inner /\ IsDir([d EXCEPT !.note = TRUE])
    /\ \A d \in Outer : IsDir(d) =>
          /\ d.by \in Inits \cup {Nobody} /\ d.inner \in Inner /\ d.staged \subseteq Inits
          /\ [d EXCEPT !.note = TRUE] \in Outer /\ IsDir([d EXCEPT !.note = TRUE])
          /\ \A x \in Inner : [d EXCEPT !.inner = x] \in Outer /\ IsDir([d EXCEPT !.inner = x])
          /\ \A S \in SUBSET Inits :
                [d EXCEPT !.staged = S] \in Outer /\ IsDir([d EXCEPT !.staged = S])
          /\ \A x \in Inner, S \in SUBSET Inits :
                /\ [d EXCEPT !.inner = x, !.staged = S] \in Outer
                /\ IsDir([d EXCEPT !.inner = x, !.staged = S])
<1> DEFINE DI == [ino : Nat, by : Inits \cup {Nobody}, note : BOOLEAN, inner : {Absent}, staged : SUBSET Inits]
           DO == [ino : Nat, by : Inits \cup {Nobody}, note : BOOLEAN, inner : Inner, staged : SUBSET Inits]
<1>1. Inner = {Absent} \cup DI /\ Outer = {Absent} \cup DO
  BY DEF Inner, Outer
<1>2. Absent \in Inner  BY DEF Inner
<1>3. DI \subseteq DO  BY <1>2
<1>4. \A d \in DO : IsDir(d)
  <2> SUFFICES ASSUME NEW d \in DO  PROVE IsDir(d)  OBVIOUS
  <2>1. d \in Outer  BY <1>1
  <2> QED  BY <2>1, DirsAreDirs
<1>5. \A d \in Outer : IsDir(d) => d \in DO  BY DirsAreDirs
<1>6. \A d \in Inner : IsDir(d) => d \in DI  BY DirsAreDirs
<1>7. ASSUME NEW i \in Nat, NEW b \in Inits \cup {Nobody}
      PROVE  Dir(i, b) \in DI
  <2>1. [ino |-> i, by |-> b, note |-> FALSE, inner |-> Absent, staged |-> {}] \in DI  OBVIOUS
  <2> QED  BY <2>1 DEF Dir
<1>8. ASSUME NEW d \in DI
      PROVE  /\ d.by \in Inits \cup {Nobody} /\ d.inner = Absent /\ d.staged \subseteq Inits
             /\ [d EXCEPT !.note = TRUE] \in DI
  OBVIOUS
<1>9. ASSUME NEW d \in DO
      PROVE  /\ d.by \in Inits \cup {Nobody} /\ d.inner \in Inner /\ d.staged \subseteq Inits
             /\ [d EXCEPT !.note = TRUE] \in DO
             /\ \A x \in Inner : [d EXCEPT !.inner = x] \in DO
             /\ \A S \in SUBSET Inits : [d EXCEPT !.staged = S] \in DO
             /\ \A x \in Inner, S \in SUBSET Inits : [d EXCEPT !.inner = x, !.staged = S] \in DO
  <2> HIDE DEF Inner
  <2> QED  OBVIOUS
<1> HIDE DEF DI, DO
<1> QED  BY <1>1, <1>2, <1>3, <1>4, <1>5, <1>6, <1>7, <1>8, <1>9

LEMMA PathsAreTyped ==
    ASSUME InitTypes, NEW path \in {"outer", "inner"}
    PROVE  /\ DirAt(path) \in Outer
           /\ path = "inner" => DirAt(path) \in Inner
  BY Edits DEF InitTypes, DirAt

LEMMA InitBegins == InitInit => InitInv
<1> SUFFICES ASSUME InitInit  PROVE InitInv  OBVIOUS
<1>1. InitTypes
  <2>1. \A i \in Inodes : Dir(i, Nobody) \in Outer  BY Edits, InitAssumption
  <2>2. Absent \in Outer  BY Edits
  <2>3. outer \in Outer  BY <2>1, <2>2 DEF InitInit
  <2>4. step \in [Inits -> Labels]  BY DEF InitInit, Labels, Begun
  <2>5. aside \in [Inits -> Outer]  BY <2>2 DEF InitInit
  <2> QED  BY <2>3, <2>4, <2>5 DEF InitInit, InitTypes
<1>2. outer # Absent => \E i \in Inodes : outer = Dir(i, Nobody)  BY DEF InitInit
<1>3. NotNested(outer)
  BY <1>2 DEF NotNested, Dir, IsDir
<1> QED  BY <1>1, <1>3 DEF InitInit, InitInv, Moves, Moved, ScopeHolds, NotNested, IsDir

-----------------------------------------------------------------------------
\* What a step of process p has to keep.
LEMMA StepKeepsInv ==
    ASSUME InitInv, NEW p \in Inits, NEW label \in Labels,
           UNCHANGED <<platform, target>>, step' = [step EXCEPT ![p] = label],
           outer' \in Outer, aside' \in [Inits -> Outer],
           NotNested(outer'), NotNested(aside'[p]),
           \A q \in Inits \ {p} : aside'[q] = aside[q],
           platform = "posix" \/ label \in Begun => aside'[p] = Absent,
           label \in Moved => platform = "windows",
           label = "rename" /\ target[p] = "inner" /\ IsDir(outer') => outer'.by = Nobody,
           \A q \in Inits \ {p} : target[q] = "inner" /\ IsDir(outer') /\ q \in outer'.staged =>
             \/ outer'.by = Nobody
             \/ IsDir(outer) /\ q \in outer.staged /\ outer'.by = outer.by
    PROVE  InitInv'
<1>1. InitTypes'
  BY DEF InitInv, InitTypes
<1>2. \A q \in Inits : step'[q] = IF q = p THEN label ELSE step[q]
  BY DEF InitInv, InitTypes
<1>3. Moves'
  BY <1>2 DEF InitInv, Moves
<1>4. ScopeHolds'
  BY <1>2 DEF InitInv, ScopeHolds, InitTypes
<1>5. \A q \in Inits : NotNested(aside'[q])
  BY DEF InitInv
<1> QED  BY <1>1, <1>3, <1>4, <1>5 DEF InitInv, NotNested, IsDir

\* Steps that look and do nothing to the directories.
LEMMA LookingKeepsInv ==
    ASSUME InitInv, NEW p \in Inits, NEW label \in Labels,
           UNCHANGED <<platform, target, outer, aside>>, step' = [step EXCEPT ![p] = label],
           label \in Begun => step[p] \in Begun,
           label \in Moved => platform = "windows",
           label = "rename" => InScope(p)
    PROVE  InitInv'
<1>1. outer \in Outer /\ aside \in [Inits -> Outer]
  BY DEF InitInv, InitTypes
<1>2. platform = "posix" \/ label \in Begun => aside[p] = Absent
  BY DEF InitInv, Moves
<1>3. label = "rename" /\ target[p] = "inner" /\ IsDir(outer) => outer.by = Nobody
  BY DEF InScope
<1>4. NotNested(outer) /\ NotNested(aside[p])
  BY DEF InitInv
<1> QED  BY <1>1, <1>2, <1>3, <1>4, StepKeepsInv

LEMMA LabelsAre ==
    /\ Begun \subseteq Labels /\ Moved \subseteq Labels /\ Ended \subseteq Labels
    /\ "cleanup" \in Labels /\ "parents" \in Labels
    /\ Begun \cap Moved = {"move"}
    /\ (Ended \cup {"cleanup", "parents"}) \cap (Begun \cup Moved) = {}
  BY DEF Labels, Begun, Moved, Ended

LEMMA LooksKeepInv ==
    ASSUME InitInv, NEW p \in Inits, UNCHANGED <<platform, target>>,
           Preflight(p) \/ LookForParent(p) \/ Build(p) \/ Check(p) \/ KillInit(p)
    PROVE  InitInv'
<1>1. UNCHANGED <<platform, target, outer, aside>>
  BY DEF Preflight, LookForParent, Build, Check, KillInit
<1>2. CASE Preflight(p)
  <2>1. step[p] = "start" /\ (Proceed(p, "parent") \/ Proceed(p, "refused"))
    BY <1>2 DEF Preflight, End
  <2>2. "start" \in Begun /\ "parent" \in Begun \ Moved /\ "refused" \in Ended
    BY DEF Begun, Moved, Ended
  <2> QED  BY <1>1, <2>1, <2>2, LabelsAre, LookingKeepsInv DEF Proceed
<1>3. CASE LookForParent(p)
  <2>1. step[p] = "parent" /\ Proceed(p, "mkdir")
    BY <1>3 DEF LookForParent
  <2>2. "parent" \in Begun /\ "mkdir" \in Begun \ Moved
    BY DEF Begun, Moved
  <2> QED  BY <1>1, <2>1, <2>2, LabelsAre, LookingKeepsInv DEF Proceed
<1>4. CASE Build(p)
  <2>1. step[p] = "build" /\ (Proceed(p, "check") \/ Proceed(p, "cleanup"))
    BY <1>4 DEF Build
  <2>2. "build" \in Begun /\ "check" \in Begun \ Moved
    BY DEF Begun, Moved
  <2> QED  BY <1>1, <2>1, <2>2, LabelsAre, LookingKeepsInv DEF Proceed
<1>5. CASE Check(p)
  <2>1. /\ step[p] = "check"
        /\ \/ Proceed(p, "cleanup")
           \/ Proceed(p, "move") /\ platform = "windows"
           \/ Proceed(p, "rename") /\ InScope(p)
    BY <1>5 DEF Check, StillMatches
  <2>2. {"check", "move", "rename"} \subseteq Begun /\ "rename" \notin Moved
    BY DEF Begun, Moved
  <2> QED  BY <1>1, <2>1, <2>2, LabelsAre, LookingKeepsInv DEF Proceed
<1>6. CASE KillInit(p)
  <2>1. Proceed(p, "killed") /\ "killed" \in Ended
    BY <1>6 DEF KillInit, End, Ended
  <2> QED  BY <1>1, <2>1, LabelsAre, LookingKeepsInv DEF Proceed
<1> QED  BY <1>2, <1>3, <1>4, <1>5, <1>6

-----------------------------------------------------------------------------
\* The parent is made where nothing was.
LEMMA MakeParentKeepsInv ==
    ASSUME InitInv, NEW p \in Inits, UNCHANGED <<platform, target>>, MakeParent(p)
    PROVE  InitInv'
<1>1. step' = [step EXCEPT ![p] = "mkdtemp"] /\ step[p] = "mkdir" /\ aside' = aside
  BY DEF MakeParent, Proceed
<1>2. outer' = outer \/ \E i \in Nat : outer' = Dir(i, Nobody)
  BY InitAssumption DEF MakeParent, NewInode
<1>3. outer \in Outer /\ aside \in [Inits -> Outer] /\ NotNested(outer) /\ NotNested(aside[p])
  BY DEF InitInv, InitTypes
<1>4. outer' \in Outer
  BY <1>2, <1>3, Edits
<1>5. outer' = outer \/ (outer'.by = Nobody /\ NotNested(outer'))
  BY <1>2 DEF NotNested, Dir
<1>6. "mkdtemp" \in Begun \ Moved /\ "mkdir" \in Begun /\ "mkdtemp" # "rename"
  BY DEF Begun, Moved
<1>7. aside[p] = Absent
  BY <1>1, <1>6 DEF InitInv, Moves
<1> QED  BY <1>1, <1>3, <1>4, <1>5, <1>6, <1>7, LabelsAre, StepKeepsInv

\* The staging directory joins what is in the parent.
LEMMA MakeStagingKeepsInv ==
    ASSUME InitInv, NEW p \in Inits, UNCHANGED <<platform, target>>, MakeStaging(p)
    PROVE  InitInv'
<1>1. /\ step[p] = "mkdtemp" /\ aside' = aside
      /\ Proceed(p, "cleanup") \/ Proceed(p, "build")
  BY DEF MakeStaging
<1>2. \/ outer' = outer
      \/ IsDir(outer) /\ outer' = [outer EXCEPT !.staged = outer.staged \cup {p}]
  BY DEF MakeStaging, ParentIsThere
<1>3. outer \in Outer /\ aside \in [Inits -> Outer] /\ NotNested(outer) /\ NotNested(aside[p])
  BY DEF InitInv, InitTypes
<1>4. outer' \in Outer /\ (outer' # outer => IsDir(outer) /\ IsDir(outer'))
  <2>1. IsDir(outer) => outer.staged \cup {p} \in SUBSET Inits
    BY <1>3, Edits
  <2> QED  BY <1>2, <1>3, <2>1, Edits
<1>5. IsDir(outer) /\ outer' # outer =>
        outer'.by = outer.by /\ outer'.inner = outer.inner /\ outer'.staged \subseteq outer.staged \cup {p}
  BY <1>2, <1>3, DirsAreDirs
<1>6. NotNested(outer')
  BY <1>3, <1>4, <1>5 DEF NotNested
<1>7. "mkdtemp" \in Begun /\ "build" \in Begun \ Moved /\ "build" # "rename" /\ "cleanup" # "rename"
  BY DEF Begun, Moved
<1>8. aside[p] = Absent
  BY <1>1, <1>7 DEF InitInv, Moves
<1> QED  BY <1>1, <1>3, <1>4, <1>5, <1>6, <1>7, <1>8, LabelsAre, StepKeepsInv DEF Proceed

\* What a project that takes its place leaves of the tree.
LEMMA Placed ==
    ASSUME InitInv, NEW p \in Inits, Place(p), StagingIsThere(p),
           IsDir(DirAt(target[p])) => IsEmpty(DirAt(target[p])),
           target[p] = "inner" /\ IsDir(outer) /\ p \in outer.staged => outer.by = Nobody
    PROVE  /\ outer' \in Outer /\ IsDir(outer') /\ NotNested(outer')
           /\ \A q \in Inits \ {p} : q \in outer'.staged =>
                 IsDir(outer) /\ q \in outer.staged /\ outer'.by = outer.by
           /\ target[p] = "outer" =>
                 outer'.by = p /\ ~outer'.note /\ outer'.inner = Absent
           /\ target[p] = "inner" =>
                 /\ IsDir(outer) /\ outer'.by = outer.by /\ outer'.note = outer.note
                 /\ outer'.inner = Dir(0, p)
<1>1. outer \in Outer /\ target[p] \in {"outer", "inner"}
  BY DEF InitInv, InitTypes
<1>2. Dir(0, p) \in Inner /\ Dir(0, p) \in Outer /\ IsDir(Dir(0, p))
  BY Edits
<1>3. CASE target[p] = "outer"
  <2>1. outer' = Dir(0, p)
    BY <1>3 DEF Place
  <2>2. outer'.by = p /\ ~outer'.note /\ outer'.inner = Absent /\ outer'.staged = {}
    BY <2>1 DEF Dir
  <2> QED  BY <1>2, <1>3, <2>1, <2>2 DEF NotNested, IsDir
<1>4. CASE target[p] = "inner"
  <2>1. outer' = [outer EXCEPT !.inner = Dir(0, p), !.staged = outer.staged \ {p}]
    BY <1>4 DEF Place
  <2>2. IsDir(outer) /\ p \in outer.staged /\ outer.by = Nobody
    BY <1>4 DEF StagingIsThere
  <2>3. outer.staged \ {p} \in SUBSET Inits
    BY <1>1, <2>2, Edits
  <2>4. outer' \in Outer /\ IsDir(outer')
    BY <1>1, <1>2, <2>1, <2>2, <2>3, Edits
  <2>5. /\ outer'.by = outer.by /\ outer'.note = outer.note
        /\ outer'.inner = Dir(0, p) /\ outer'.staged = outer.staged \ {p}
    BY <1>1, <2>1, <2>2, DirsAreDirs
  <2> QED  BY <1>4, <2>2, <2>4, <2>5 DEF NotNested
<1> QED  BY <1>1, <1>3, <1>4

LEMMA RenameKeepsInv ==
    ASSUME InitInv, NEW p \in Inits, UNCHANGED <<platform, target>>, Rename(p)
    PROVE  InitInv'
<1>1. step[p] = "rename" /\ aside' = aside /\ "rename" \in Begun
  BY DEF Rename, Begun
<1>2. outer \in Outer /\ aside \in [Inits -> Outer] /\ NotNested(outer) /\ NotNested(aside[p])
  BY DEF InitInv, InitTypes
<1>3. aside[p] = Absent
  BY <1>1 DEF InitInv, Moves
<1>4. CASE StagingIsThere(p) /\ (IsDir(DirAt(target[p])) => MayReplace(DirAt(target[p])))
  <2>1. Place(p) /\ Proceed(p, "published") /\ "published" \in Ended
    BY <1>4 DEF Rename, End, Ended
  <2>2. IsDir(DirAt(target[p])) => IsEmpty(DirAt(target[p]))
    BY <1>4 DEF MayReplace
  <2>3. target[p] = "inner" /\ IsDir(outer) /\ p \in outer.staged => outer.by = Nobody
    BY <1>1 DEF InitInv, ScopeHolds
  <2>4. /\ outer' \in Outer /\ NotNested(outer')
        /\ \A q \in Inits \ {p} : q \in outer'.staged =>
              IsDir(outer) /\ q \in outer.staged /\ outer'.by = outer.by
    BY <1>4, <2>1, <2>2, <2>3, Placed
  <2>5. "published" \in Labels \ (Begun \cup Moved) /\ "published" # "rename"
    BY <2>1, LabelsAre
  <2> QED  BY <1>1, <1>2, <1>3, <2>1, <2>4, <2>5, StepKeepsInv DEF Proceed
<1>5. CASE ~(StagingIsThere(p) /\ (IsDir(DirAt(target[p])) => MayReplace(DirAt(target[p]))))
  <2>1. Proceed(p, "cleanup") /\ outer' = outer
    BY <1>5 DEF Rename
  <2> QED  BY <1>1, <2>1, LabelsAre, LookingKeepsInv DEF Proceed
<1> QED  BY <1>4, <1>5

LEMMA OnWindows ==
    ASSUME InitInv, NEW p \in Inits, step[p] \in Moved
    PROVE  platform = "windows" /\ target[p] = "outer" /\ DirAt(target[p]) = outer
  BY DEF InitInv, InitTypes, Moves, DirAt

LEMMA MoveAsideKeepsInv ==
    ASSUME InitInv, NEW p \in Inits, UNCHANGED <<platform, target>>, MoveAside(p)
    PROVE  InitInv'
<1>1. step[p] = "move" /\ "move" \in Moved /\ "place" \in Moved \ Begun
  BY DEF MoveAside, Moved, Begun
<1>2. platform = "windows" /\ target[p] = "outer" /\ DirAt(target[p]) = outer
  BY <1>1, OnWindows
<1>3. outer \in Outer /\ aside \in [Inits -> Outer] /\ NotNested(outer)
  BY DEF InitInv, InitTypes
<1>4. CASE IsDir(outer)
  <2>1. aside' = [aside EXCEPT ![p] = outer] /\ outer' = Absent /\ Proceed(p, "place")
    BY <1>2, <1>4 DEF MoveAside, Put
  <2>2. ~IsDir(Absent) /\ Absent \in Outer /\ NotNested(Absent)
    BY Edits DEF IsDir, NotNested
  <2>3. /\ aside' \in [Inits -> Outer] /\ aside'[p] = outer
        /\ \A q \in Inits \ {p} : aside'[q] = aside[q]
    BY <1>3, <2>1
  <2>4. "place" # "rename" /\ platform # "posix"
    BY <1>2
  <2> QED  BY <1>1, <1>2, <1>3, <2>1, <2>2, <2>3, <2>4, LabelsAre, StepKeepsInv DEF Proceed
<1>5. CASE ~IsDir(outer)
  <2>1. Proceed(p, "cleanup") /\ UNCHANGED <<outer, aside>>
    BY <1>2, <1>5 DEF MoveAside
  <2> QED  BY <2>1, LabelsAre, LookingKeepsInv DEF Proceed
<1> QED  BY <1>4, <1>5

LEMMA RenameMovedKeepsInv ==
    ASSUME InitInv, NEW p \in Inits, UNCHANGED <<platform, target>>, RenameMoved(p)
    PROVE  InitInv'
<1>1. step[p] = "place" /\ aside' = aside /\ {"place", "drop", "restore"} \subseteq Moved \ Begun
  BY DEF RenameMoved, Moved, Begun
<1>2. platform = "windows" /\ target[p] = "outer" /\ DirAt(target[p]) = outer
  BY <1>1, OnWindows
<1>3. outer \in Outer /\ aside \in [Inits -> Outer] /\ NotNested(outer) /\ NotNested(aside[p])
  BY DEF InitInv, InitTypes
<1>4. CASE StagingIsThere(p) /\ ~IsDir(outer)
  <2>1. Place(p) /\ Proceed(p, "drop")
    BY <1>2, <1>4 DEF RenameMoved
  <2>2. /\ outer' \in Outer /\ NotNested(outer')
        /\ \A q \in Inits \ {p} : q \in outer'.staged =>
              IsDir(outer) /\ q \in outer.staged /\ outer'.by = outer.by
    BY <1>2, <1>4, <2>1, Placed
  <2>3. platform # "posix" /\ "drop" # "rename"
    BY <1>2
  <2> QED  BY <1>1, <1>2, <1>3, <2>1, <2>2, <2>3, LabelsAre, StepKeepsInv DEF Proceed
<1>5. CASE ~(StagingIsThere(p) /\ ~IsDir(outer))
  <2>1. Proceed(p, "restore") /\ UNCHANGED <<outer, aside>>
    BY <1>1, <1>2, <1>5 DEF RenameMoved
  <2> QED  BY <1>1, <1>2, <2>1, LabelsAre, LookingKeepsInv DEF Proceed
<1> QED  BY <1>4, <1>5

LEMMA MoveBackKeepsInv ==
    ASSUME InitInv, NEW p \in Inits, UNCHANGED <<platform, target>>, MoveBack(p)
    PROVE  InitInv'
<1>1. step[p] = "restore" /\ "restore" \in Moved /\ Proceed(p, "cleanup")
  BY DEF MoveBack, Moved
<1>2. platform = "windows" /\ target[p] = "outer" /\ DirAt(target[p]) = outer
  BY <1>1, OnWindows
<1>3. outer \in Outer /\ aside \in [Inits -> Outer] /\ NotNested(outer) /\ NotNested(aside[p])
  BY DEF InitInv, InitTypes
<1>4. CASE ~IsDir(outer)
  <2>1. outer' = aside[p] /\ aside' = [aside EXCEPT ![p] = Absent]
    BY <1>2, <1>4 DEF MoveBack, Put
  <2>2. Absent \in Outer /\ NotNested(Absent)
    BY Edits DEF IsDir, NotNested
  <2>3. /\ outer' \in Outer /\ aside' \in [Inits -> Outer] /\ aside'[p] = Absent
        /\ \A q \in Inits \ {p} : aside'[q] = aside[q]
    BY <1>3, <2>1, <2>2
  <2>4. \A q \in Inits : target[q] # "inner"
    BY <1>2 DEF InitInv, InitTypes
  <2>5. "cleanup" # "rename"
    OBVIOUS
  <2> QED  BY <1>1, <1>3, <2>1, <2>2, <2>3, <2>4, <2>5, LabelsAre, StepKeepsInv DEF Proceed
<1>5. CASE IsDir(outer)
  <2>1. UNCHANGED <<outer, aside>>
    BY <1>2, <1>5 DEF MoveBack
  <2> QED  BY <1>1, <2>1, LabelsAre, LookingKeepsInv DEF Proceed
<1> QED  BY <1>4, <1>5

LEMMA DropAsideKeepsInv ==
    ASSUME InitInv, NEW p \in Inits, UNCHANGED <<platform, target>>, DropAside(p)
    PROVE  InitInv'
<1>1. step[p] = "drop" /\ "drop" \in Moved /\ Proceed(p, "published") /\ outer' = outer
  BY DEF DropAside, Moved, End
<1>2. platform = "windows" /\ target[p] = "outer" /\ DirAt(target[p]) = outer
  BY <1>1, OnWindows
<1>3. outer \in Outer /\ aside \in [Inits -> Outer] /\ NotNested(outer) /\ NotNested(aside[p])
  BY DEF InitInv, InitTypes
<1>4. Absent \in Outer /\ NotNested(Absent)
  BY Edits DEF IsDir, NotNested
<1>5. aside' = aside \/ aside' = [aside EXCEPT ![p] = Absent]
  BY DEF DropAside
<1>6. /\ aside' \in [Inits -> Outer] /\ NotNested(aside'[p])
      /\ \A q \in Inits \ {p} : aside'[q] = aside[q]
  BY <1>3, <1>4, <1>5
<1>7. platform # "posix" /\ "published" # "rename" /\ "published" \in Ended
  BY <1>2 DEF Ended
<1> QED  BY <1>1, <1>3, <1>6, <1>7, LabelsAre, StepKeepsInv DEF Proceed

\* What an end removes: its own staging directory, an empty parent.
LEMMA CleanupKeepsInv ==
    ASSUME InitInv, NEW p \in Inits, UNCHANGED <<platform, target>>,
           RemoveStaging(p) \/ RemoveParents(p)
    PROVE  InitInv'
<1>1. outer \in Outer /\ aside \in [Inits -> Outer] /\ NotNested(outer) /\ NotNested(aside[p])
  BY DEF InitInv, InitTypes
<1>2. /\ aside' = aside
      /\ Proceed(p, "parents") \/ (Proceed(p, "failed") /\ "failed" \in Ended)
  BY DEF RemoveStaging, RemoveParents, End, Ended
<1>3. \/ outer' = outer \/ outer' = Absent
      \/ IsDir(outer) /\ outer' = [outer EXCEPT !.staged = outer.staged \ {p}]
  BY DEF RemoveStaging, RemoveParents
<1>4. ~IsDir(Absent) /\ Absent \in Outer /\ NotNested(Absent)
  BY Edits DEF IsDir, NotNested
<1>5. IsDir(outer) => outer.staged \ {p} \in SUBSET Inits
  BY <1>1, Edits
<1>6. outer' \in Outer
  BY <1>1, <1>3, <1>4, <1>5, Edits
<1>7. IsDir(outer') =>
        /\ IsDir(outer) /\ outer'.by = outer.by /\ outer'.inner = outer.inner
        /\ outer'.staged \subseteq outer.staged
  BY <1>1, <1>3, <1>4, DirsAreDirs
<1>8. NotNested(outer')
  BY <1>1, <1>7 DEF NotNested
<1>9. \A q \in Inits \ {p} : IsDir(outer') /\ q \in outer'.staged =>
        IsDir(outer) /\ q \in outer.staged /\ outer'.by = outer.by
  BY <1>7
<1>10. platform = "posix" => aside[p] = Absent
  BY DEF InitInv, Moves
<1>11. CASE Proceed(p, "parents")
  <2>1. "parents" # "rename"
    OBVIOUS
  <2> QED  BY <1>1, <1>2, <1>6, <1>8, <1>9, <1>10, <1>11, <2>1, LabelsAre, StepKeepsInv DEF Proceed
<1>12. CASE Proceed(p, "failed") /\ "failed" \in Ended
  <2>1. "failed" # "rename"
    OBVIOUS
  <2> QED  BY <1>1, <1>2, <1>6, <1>8, <1>9, <1>10, <1>12, <2>1, LabelsAre, StepKeepsInv DEF Proceed
<1> QED  BY <1>2, <1>11, <1>12

\* What the author does to a directory: she makes it, removes it when it is empty, or
\* saves a file in it.
Edited(d, x) ==
    \/ ~IsDir(d) /\ \E i \in Nat : x = Dir(i, Nobody)
    \/ IsDir(d) /\ IsEmpty(d) /\ x = Absent
    \/ IsDir(d) /\ x = [d EXCEPT !.note = TRUE]

LEMMA AuthorsEdit ==
    ASSUME InitInv, AuthorStep
    PROVE  \/ Edited(outer, outer')
           \/ IsDir(outer) /\ \E x \in Inner :
                 outer' = [outer EXCEPT !.inner = x] /\ Edited(outer.inner, x)
<1>1. PICK path \in {"outer", "inner"} :
        MakeDirectory(path) \/ RemoveDirectory(path) \/ SaveFile(path)
  BY DEF AuthorStep
<1>2. \E x : Put(path, x) /\ Edited(DirAt(path), x)
  <2>1. CASE MakeDirectory(path)
    <3>1. \A i \in NewInode : i \in Nat
      BY InitAssumption DEF NewInode
    <3> QED  BY <2>1, <3>1 DEF MakeDirectory, Edited
  <2>2. CASE RemoveDirectory(path)
    BY <2>2 DEF RemoveDirectory, Edited
  <2>3. CASE SaveFile(path)
    BY <2>3 DEF SaveFile, Edited
  <2> QED  BY <1>1, <2>1, <2>2, <2>3
<1>3. CASE path = "outer"
  BY <1>2, <1>3 DEF Put, DirAt
<1>4. CASE path = "inner"
  <2>1. IsDir(outer)
    BY <1>1, <1>4 DEF MakeDirectory, RemoveDirectory, SaveFile, DirAt, IsDir
  <2>2. outer.inner \in Inner
    BY <2>1, Edits DEF InitInv, InitTypes
  <2>3. PICK x : outer' = [outer EXCEPT !.inner = x] /\ Edited(outer.inner, x)
    BY <1>2, <1>4, <2>1 DEF Put, DirAt
  <2>4. x \in Inner
    BY <2>2, <2>3, Edits DEF Edited
  <2> QED  BY <2>1, <2>3, <2>4
<1> QED  BY <1>3, <1>4

\* ... which leaves what was in it, and whose project it is.
LEMMA EditedKeeps ==
    ASSUME NEW d \in Outer, NEW x, Edited(d, x)
    PROVE  /\ x \in Outer
           /\ IsDir(d) /\ ~IsEmpty(d) => IsDir(x)
           /\ IsDir(d) /\ IsDir(x) =>
                 /\ x.by = d.by /\ x.inner = d.inner /\ x.staged = d.staged /\ x.note
           /\ ~IsDir(d) => x.by = Nobody /\ x.staged = {} /\ x.inner = Absent
<1>1. CASE ~IsDir(d) /\ \E i \in Nat : x = Dir(i, Nobody)
  <2>1. x.by = Nobody /\ x.staged = {} /\ x.inner = Absent
    BY <1>1 DEF Dir
  <2> QED  BY <1>1, <2>1, Edits
<1>2. CASE IsDir(d) /\ IsEmpty(d) /\ x = Absent
  BY <1>2, Edits DEF IsDir
<1>3. CASE IsDir(d) /\ x = [d EXCEPT !.note = TRUE]
  <2>1. x.by = d.by /\ x.inner = d.inner /\ x.staged = d.staged /\ x.note
    BY <1>3, DirsAreDirs
  <2> QED  BY <1>3, <2>1, Edits
<1> QED  BY <1>1, <1>2, <1>3 DEF Edited

LEMMA InnerReplaced ==
    ASSUME NEW d \in Outer, IsDir(d), NEW x \in Inner
    PROVE  LET e == [d EXCEPT !.inner = x] IN
           /\ e \in Outer /\ IsDir(e) /\ e.inner = x
           /\ e.by = d.by /\ e.staged = d.staged /\ e.note = d.note
<1>1. /\ [d EXCEPT !.inner = x].inner = x
      /\ [d EXCEPT !.inner = x].by = d.by
      /\ [d EXCEPT !.inner = x].staged = d.staged
      /\ [d EXCEPT !.inner = x].note = d.note
  BY DirsAreDirs
<1> QED  BY <1>1, Edits

LEMMA AuthorKeepsInv ==
    ASSUME InitInv, UNCHANGED <<platform, target>>, AuthorStep
    PROVE  InitInv'
<1>1. UNCHANGED <<step, aside>>
  BY DEF AuthorStep
<1>2. outer \in Outer /\ NotNested(outer)
  BY DEF InitInv, InitTypes
<1>3. /\ outer' \in Outer /\ NotNested(outer')
      /\ IsDir(outer') => \/ outer'.by = Nobody
                          \/ IsDir(outer) /\ outer'.by = outer.by /\ outer'.staged = outer.staged
  <2>1. CASE Edited(outer, outer')
    <3>1. IsDir(outer) /\ IsDir(outer') =>
            outer'.by = outer.by /\ outer'.inner = outer.inner /\ outer'.staged = outer.staged
      BY <1>2, <2>1, EditedKeeps
    <3>2. outer' \in Outer /\ (~IsDir(outer) => outer'.by = Nobody)
      BY <1>2, <2>1, EditedKeeps
    <3> QED  BY <1>2, <3>1, <3>2 DEF NotNested
  <2>2. ASSUME IsDir(outer), NEW x \in Inner, outer' = [outer EXCEPT !.inner = x],
               Edited(outer.inner, x)
        PROVE  /\ outer' \in Outer /\ NotNested(outer')
               /\ IsDir(outer) /\ outer'.by = outer.by /\ outer'.staged = outer.staged
    <3>1. /\ outer' \in Outer /\ IsDir(outer') /\ outer'.inner = x
          /\ outer'.by = outer.by /\ outer'.staged = outer.staged
      BY <1>2, <2>2, InnerReplaced
    <3>2. outer.inner \in Outer
      BY <1>2, <2>2, Edits
    <3>3. IsDir(x) => x.by = IF IsDir(outer.inner) THEN outer.inner.by ELSE Nobody
      BY <2>2, <3>2, EditedKeeps
    <3> QED  BY <1>2, <2>2, <3>1, <3>3 DEF NotNested
  <2> QED  BY <2>1, <2>2, AuthorsEdit
<1>4. InitTypes' /\ Moves'
  BY <1>1, <1>3 DEF InitInv, InitTypes, Moves
<1>5. ScopeHolds'
  BY <1>1, <1>3 DEF InitInv, ScopeHolds
<1> QED  BY <1>1, <1>3, <1>4, <1>5 DEF InitInv, NotNested, IsDir

-----------------------------------------------------------------------------
LEMMA InitInvKept == InitInv /\ [InitNext]_initVars => InitInv'
<1> SUFFICES ASSUME InitInv, [InitNext]_initVars
             PROVE  InitInv'
  OBVIOUS
<1>1. CASE UNCHANGED initVars
  BY <1>1 DEF InitInv, InitTypes, Moves, ScopeHolds, NotNested, IsDir, initVars
<1>2. CASE InitNext
  <2>1. UNCHANGED <<platform, target>>
    BY <1>2 DEF InitNext
  <2>2. ASSUME NEW p \in Inits, InitStep(p)
        PROVE  InitInv'
    BY <2>1, <2>2, LooksKeepInv, MakeParentKeepsInv, MakeStagingKeepsInv, RenameKeepsInv,
       MoveAsideKeepsInv, RenameMovedKeepsInv, MoveBackKeepsInv, DropAsideKeepsInv,
       CleanupKeepsInv DEF InitStep
  <2>3. CASE AuthorStep
    BY <2>1, <2>3, AuthorKeepsInv
  <2> QED  BY <1>2, <2>2, <2>3 DEF InitNext
<1> QED  BY <1>1, <1>2

\* The types, where on Windows a moved directory may be, and that the scope a process
\* has checked still holds when it renames, for every number of processes.
THEOREM InitInvariant == InitSpec => []InitInv
<1> QED  BY InitBegins, InitInvKept, PTL DEF InitSpec

\* init_project.py looks for an enclosing project before and after its build, without a
\* lock: whatever other inits and the author do, no project is made in another.
THEOREM NeverNested == InitSpec => []NoNestedProjects
<1>1. InitInv => NoNestedProjects
  BY DEF InitInv, NoNestedProjects, NotNested
<1> QED  BY <1>1, InitInvariant, PTL

-----------------------------------------------------------------------------
LEMMA ContentsAre ==
    /\ Contents(Absent) = {} /\ InTree(Absent) = {}
    /\ \A d : IsEmpty(d) => Contents(d) = {}
    /\ \A d, e : IsDir(e) /\ (d.by # Nobody => e.by = d.by) /\ (d.note => e.note)
                 => Contents(d) \subseteq Contents(e)
  BY DEF Contents, InTree, IsDir, IsEmpty

\* The outer directory and the inner one lose nothing.
TreeKept ==
    /\ Contents(outer) \subseteq Contents(outer')
    /\ Contents(DirAt("inner")) \subseteq Contents(DirAt("inner")')

LEMMA KeptWhere ==
    ASSUME IsDir(outer) => IsDir(outer') /\ outer'.inner = outer.inner
                           /\ (outer.by # Nobody => outer'.by = outer.by)
                           /\ (outer.note => outer'.note)
    PROVE  TreeKept
<1>1. Contents(outer) \subseteq Contents(outer')
  BY ContentsAre DEF Contents
<1>2. Contents(DirAt("inner")) \subseteq Contents(DirAt("inner")')
  BY ContentsAre DEF DirAt
<1> QED  BY <1>1, <1>2 DEF TreeKept

LEMMA KeptWhereEmpty ==
    ASSUME IsDir(outer) => IsEmpty(outer)
    PROVE  TreeKept
<1>1. Contents(outer) = {} /\ Contents(DirAt("inner")) = {}
  BY ContentsAre DEF DirAt, IsEmpty, IsDir
<1> QED  BY <1>1 DEF TreeKept

LEMMA InitKeepsTree ==
    ASSUME InitInv, NEW p \in Inits, InitStep(p), ~MoveAside(p), ~MoveBack(p)
    PROVE  TreeKept
<1>1. outer \in Outer /\ target[p] \in {"outer", "inner"}
  BY DEF InitInv, InitTypes
<1>2. CASE outer' = outer
  BY <1>2, KeptWhere
<1>3. CASE MakeParent(p)
  BY <1>3, KeptWhereEmpty, <1>2 DEF MakeParent, ParentIsThere
<1>4. CASE MakeStaging(p) \/ RemoveStaging(p)
  <2>1. \/ outer' = outer
        \/ IsDir(outer) /\ \E S \in SUBSET Inits : outer' = [outer EXCEPT !.staged = S]
    <3>1. IsDir(outer) => outer.staged \cup {p} \in SUBSET Inits
                          /\ outer.staged \ {p} \in SUBSET Inits
      BY <1>1, Edits
    <3>2. \/ outer' = outer
          \/ IsDir(outer) /\ outer' = [outer EXCEPT !.staged = outer.staged \cup {p}]
          \/ IsDir(outer) /\ outer' = [outer EXCEPT !.staged = outer.staged \ {p}]
      BY <1>4 DEF MakeStaging, ParentIsThere, RemoveStaging
    <3> QED  BY <3>1, <3>2
  <2>2. ASSUME IsDir(outer), NEW S \in SUBSET Inits, outer' = [outer EXCEPT !.staged = S]
        PROVE  TreeKept
    <3>1. IsDir(outer')
      BY <1>1, <2>2, Edits
    <3>2. outer'.inner = outer.inner /\ outer'.by = outer.by /\ outer'.note = outer.note
      BY <1>1, <2>2, DirsAreDirs
    <3> QED  BY <3>1, <3>2, KeptWhere
  <2> QED  BY <1>2, <2>1, <2>2
<1>5. CASE RemoveParents(p)
  BY <1>2, <1>5, KeptWhereEmpty DEF RemoveParents
<1>6. ASSUME Rename(p) \/ RenameMoved(p), outer' # outer
      PROVE  TreeKept
  <2>1. /\ Place(p) /\ StagingIsThere(p)
        /\ IsDir(DirAt(target[p])) => IsEmpty(DirAt(target[p]))
    BY <1>6 DEF Rename, RenameMoved, MayReplace
  <2>2. target[p] = "inner" /\ IsDir(outer) /\ p \in outer.staged => outer.by = Nobody
    <3>1. CASE Rename(p)
      BY <3>1 DEF InitInv, ScopeHolds, Rename
    <3>2. CASE RenameMoved(p)
      <4>1. step[p] \in Moved
        BY <3>2 DEF RenameMoved, Moved
      <4> QED  BY <4>1, OnWindows
    <3> QED  BY <1>6, <3>1, <3>2
  <2>3. CASE target[p] = "outer"
    BY <2>1, <2>3, KeptWhereEmpty DEF DirAt
  <2>4. CASE target[p] = "inner"
    <3>1. /\ IsDir(outer) /\ IsDir(outer') /\ outer'.by = outer.by
          /\ outer'.note = outer.note /\ outer'.inner = Dir(0, p)
      BY <2>1, <2>2, <2>4, Placed
    <3>2. Contents(outer) \subseteq Contents(outer')
      BY <3>1, ContentsAre
    <3>3. Contents(DirAt("inner")) = {}
      BY <2>1, <2>4, ContentsAre DEF IsDir
    <3> QED  BY <3>2, <3>3 DEF TreeKept
  <2> QED  BY <1>1, <2>3, <2>4
<1>7. CASE \/ Preflight(p) \/ LookForParent(p) \/ Build(p) \/ Check(p) \/ DropAside(p)
           \/ KillInit(p)
  BY <1>2, <1>7 DEF Preflight, LookForParent, Build, Check, DropAside, KillInit
<1> QED  BY <1>2, <1>3, <1>4, <1>5, <1>6, <1>7 DEF InitStep

LEMMA AuthorKeepsTree ==
    ASSUME InitInv, AuthorStep
    PROVE  TreeKept
<1>1. outer \in Outer
  BY DEF InitInv, InitTypes
<1>2. ASSUME NEW d \in Outer, NEW x, Edited(d, x)
      PROVE  Contents(d) \subseteq Contents(x)
  <2>1. IsDir(d) /\ ~IsEmpty(d) =>
          IsDir(x) /\ x.by = d.by /\ x.note
    BY <1>2, EditedKeeps
  <2> QED  BY <2>1, ContentsAre DEF IsDir
<1>3. CASE Edited(outer, outer')
  <2>1. CASE IsDir(outer) /\ ~IsEmpty(outer)
    BY <1>1, <1>3, <2>1, EditedKeeps, KeptWhere
  <2> QED  BY <2>1, KeptWhereEmpty
<1>4. ASSUME IsDir(outer), NEW x \in Inner, outer' = [outer EXCEPT !.inner = x],
             Edited(outer.inner, x)
      PROVE  TreeKept
  <2>1. /\ IsDir(outer') /\ outer'.inner = x
        /\ outer'.by = outer.by /\ outer'.note = outer.note
    BY <1>1, <1>4, InnerReplaced
  <2>2. Contents(outer) \subseteq Contents(outer')
    BY <2>1, ContentsAre
  <2>3. outer.inner \in Outer
    BY <1>1, <1>4, Edits
  <2>4. Contents(outer.inner) \subseteq Contents(x)
    BY <1>2, <1>4, <2>3
  <2> QED  BY <1>4, <2>1, <2>2, <2>4 DEF TreeKept, DirAt
<1> QED  BY <1>3, <1>4, AuthorsEdit

\* On Windows, all there is: in the outer directory and in what was moved out of the way.
InTrees(d, a) == UNION {InTree(t) : t \in {d} \cup {a[p] : p \in Inits}}

LEMMA MembersOfTrees ==
    ASSUME NEW d, NEW a, NEW x
    PROVE  x \in InTrees(d, a) <=> x \in InTree(d) \/ \E p \in Inits : x \in InTree(a[p])
  BY DEF InTrees

LEMMA TreesAreKept ==
    ASSUME TreeKept,
           \/ aside' = aside
           \/ \E p \in Inits : InTree(aside[p]) = {} /\ aside' = [aside EXCEPT ![p] = Absent],
           aside \in [Inits -> Outer]
    PROVE  InTrees(outer, aside) \subseteq InTrees(outer', aside')
<1> SUFFICES ASSUME NEW x \in InTrees(outer, aside)
             PROVE  x \in InTree(outer') \/ \E q \in Inits : x \in InTree(aside'[q])
  BY MembersOfTrees
<1>1. InTree(outer) \subseteq InTree(outer')
  <2>1. IsDir(outer) /\ ~IsDir(outer') => Contents(outer) = {} /\ Contents(outer.inner) = {}
    BY ContentsAre DEF TreeKept, DirAt, IsDir
  <2>2. IsDir(outer) /\ IsDir(outer') => Contents(outer.inner) \subseteq Contents(outer'.inner)
    BY DEF TreeKept, DirAt
  <2> QED  BY <2>1, <2>2, ContentsAre DEF TreeKept, InTree
<1>2. \A q \in Inits : InTree(aside[q]) \subseteq InTree(aside'[q])
  BY ContentsAre
<1> QED  BY <1>1, <1>2, MembersOfTrees

LEMMA MovedTreesAreKept ==
    ASSUME InitInv, NEW p \in Inits, MoveAside(p) \/ MoveBack(p)
    PROVE  InTrees(outer, aside) \subseteq InTrees(outer', aside')
<1>1. step[p] \in Moved
  BY DEF MoveAside, MoveBack, Moved
<1>2. target[p] = "outer" /\ DirAt(target[p]) = outer
  BY <1>1, OnWindows
<1>3. aside \in [Inits -> Outer]
  BY DEF InitInv, InitTypes
<1>4. \/ UNCHANGED <<outer, aside>>
      \/ /\ InTree(aside[p]) = {} /\ aside' = [aside EXCEPT ![p] = outer]
      \/ /\ InTree(outer) = {} /\ outer' = aside[p] /\ aside' = [aside EXCEPT ![p] = Absent]
  <2>1. CASE MoveAside(p)
    <3>1. step[p] \in Begun
      BY <2>1 DEF MoveAside, Begun
    <3>2. InTree(aside[p]) = {}
      BY <3>1, ContentsAre DEF InitInv, Moves
    <3> QED  BY <1>2, <2>1, <3>2 DEF MoveAside
  <2>2. CASE MoveBack(p)
    BY <1>2, <2>2, ContentsAre DEF MoveBack, Put, IsDir
  <2> QED  BY <2>1, <2>2
<1> SUFFICES ASSUME NEW x \in InTrees(outer, aside)
             PROVE  x \in InTree(outer') \/ \E q \in Inits : x \in InTree(aside'[q])
  BY MembersOfTrees
<1>5. x \in InTree(outer) \/ \E q \in Inits : x \in InTree(aside[q])
  BY MembersOfTrees
<1> QED  BY <1>3, <1>4, <1>5

\* init_project.py's publication: an os.replace of the target on POSIX, two renames on
\* Windows.  No published project and no file of the author's is deleted, whatever the
\* interleaving, the retries, the failures and the kills.
THEOREM NothingIsLost == InitSpec => InitLosesNothing
<1> DEFINE Kept ==
       IF platform = "posix"
       THEN \A path \in {"outer", "inner"} : Contents(DirAt(path)) \subseteq Contents(DirAt(path)')
       ELSE InTrees(outer, aside) \subseteq InTrees(outer', aside')
<1>1. InitInv /\ [InitNext]_initVars => [Kept]_initVars
  <2> SUFFICES ASSUME InitInv, InitNext
               PROVE  Kept
    OBVIOUS
  <2>1. aside \in [Inits -> Outer]
    BY DEF InitInv, InitTypes
  <2>2. ASSUME NEW p \in Inits, InitStep(p)
        PROVE  Kept
    <3>1. CASE MoveAside(p) \/ MoveBack(p)
      <4>1. step[p] \in Moved
        BY <3>1 DEF MoveAside, MoveBack, Moved
      <4> QED  BY <3>1, <4>1, OnWindows, MovedTreesAreKept
    <3>2. CASE ~MoveAside(p) /\ ~MoveBack(p)
      <4>1. TreeKept
        BY <2>2, <3>2, InitKeepsTree
      <4>2. \A path \in {"outer", "inner"} :
              Contents(DirAt(path)) \subseteq Contents(DirAt(path)')
        BY <4>1 DEF TreeKept, DirAt
      <4>3. \/ aside' = aside
            \/ InTree(aside[p]) = {} /\ aside' = [aside EXCEPT ![p] = Absent]
        BY <2>2, <3>2, ContentsAre
        DEF InitStep, Preflight, LookForParent, MakeParent, MakeStaging, Build, Check, Rename,
            RenameMoved, DropAside, RemoveStaging, RemoveParents, KillInit, InTree, IsEmpty
      <4> QED  BY <2>1, <4>1, <4>2, <4>3, TreesAreKept
    <3> QED  BY <3>1, <3>2
  <2>3. CASE AuthorStep
    <3>1. TreeKept /\ aside' = aside
      BY <2>3, AuthorKeepsTree DEF AuthorStep
    <3>2. \A path \in {"outer", "inner"} :
            Contents(DirAt(path)) \subseteq Contents(DirAt(path)')
      BY <3>1 DEF TreeKept, DirAt
    <3>3. InTrees(outer, aside) \subseteq InTrees(outer', aside')
      BY <2>1, <3>1, TreesAreKept
    <3> QED  BY <3>2, <3>3
  <2> QED  BY <2>2, <2>3 DEF InitNext
<1>2. [Kept]_initVars <=> [ IF platform = "posix"
        THEN \A path \in {"outer", "inner"} : Contents(DirAt(path)) \subseteq Contents(DirAt(path)')
        ELSE UNION {InTree(d) : d \in {outer} \cup {aside[p] : p \in Inits}} \subseteq
             UNION {InTree(d) : d \in {outer'} \cup {aside'[p] : p \in Inits}} ]_initVars
  BY DEF InTrees
<1> QED  BY <1>1, <1>2, InitInvariant, PTL DEF InitSpec, InitLosesNothing
=============================================================================
