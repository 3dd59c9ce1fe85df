--------------------------- MODULE DurablePublish ---------------------------
(***************************************************************************)
(* What a power failure leaves of the object store (canon_v3/repository.py)*)
(*                                                                         *)
(* A file is written and flushed under a temporary name, renamed, and then *)
(* its directory is synced.  In between the name is seen by every process, *)
(* but may be gone after a power failure.  The names in one directory are  *)
(* not kept in the order they were made.                                   *)
(*                                                                         *)
(* CanonStore says who publishes what; here one writer at a time holds the *)
(* lock, and a publication stands for the transaction, the commit and the  *)
(* manifest that it becomes on its parent HEAD; the decisions are stored   *)
(* as the transaction is.  HEAD is the set of the publications that its    *)
(* manifests list.  The directories themselves are there.                  *)
(***************************************************************************)
EXTENDS Naturals, Sequences

CONSTANT Manifests    \* the transactions that may be published

\* The order in which a publication stores its objects, a directory for each.
Kinds == <<"transaction", "commit", "manifest">>

VARIABLES
    head,       \* CURRENT, as processes see it
    survivors,  \* the values of CURRENT that a power failure may leave
    names,      \* the objects whose names processes see
    synced,     \* those that a power failure leaves
    writer,     \* who holds the lock, and what he is doing
    base,       \* the HEAD each was prepared on, once it was
    orphans     \* history: names that a killed writer left before the sync

storeVars == <<head, survivors, names, synced, writer, base, orphans>>

NoWriter == [at |-> "free"]

Reach(h) == (1 .. Len(Kinds)) \X h
Current == <<writer.kind, writer.of>>

StoreInit ==
    /\ head = {} /\ survivors = {{}}
    /\ names = {} /\ synced = {} /\ orphans = {}
    /\ writer = NoWriter
    /\ base = [p \in Manifests |-> {}]

\* After an object is stored: the next one, or CURRENT.
GoOn ==
    writer' = IF writer.kind = Len(Kinds) THEN [writer EXCEPT !.at = "swap"]
              ELSE [writer EXCEPT !.at = "put", !.kind = @ + 1]

\* The lock is taken on a HEAD that can be read; one prepared on another HEAD is a
\* conflict.
Begin(p) ==
    /\ writer = NoWriter
    /\ p \notin head /\ Reach(head) \subseteq names
    /\ base[p] \subseteq {head}
    /\ base' = [base EXCEPT ![p] = {head}]
    /\ writer' = [at |-> "put", kind |-> 1, of |-> p]
    /\ UNCHANGED <<head, survivors, names, synced, orphans>>

\* _put_payload_unlocked: a name that is there already is taken as stored.
PutName ==
    /\ writer.at = "put"
    /\ IF Current \in names THEN GoOn /\ UNCHANGED names
       ELSE names' = names \cup {Current} /\ writer' = [writer EXCEPT !.at = "sync"]
    /\ UNCHANGED <<head, survivors, synced, base, orphans>>

\* Mutant: the name is not synced.
SyncNothing ==
    /\ writer.at = "sync"
    /\ GoOn
    /\ UNCHANGED <<head, survivors, names, synced, base, orphans>>

\* _fsync_directory: of all the names in it.
SyncNames ==
    /\ writer.at = "sync"
    /\ LET there == {o \in names : o[1] = writer.kind} IN
       synced' = synced \cup there /\ orphans' = orphans \ there
    /\ GoOn
    /\ UNCHANGED <<head, survivors, names, base>>

\* _write_current_unlocked, which reads the manifest and all it lists before.
SwapCurrent ==
    /\ writer.at = "swap"
    /\ LET next == head \cup {writer.of} IN
       /\ Reach(next) \subseteq names
       /\ head' = next /\ survivors' = survivors \cup {next}
    /\ writer' = [writer EXCEPT !.at = "swapped"]
    /\ UNCHANGED <<names, synced, base, orphans>>

SyncCurrent ==
    /\ writer.at = "swapped"
    /\ survivors' = {head}
    /\ writer' = NoWriter
    /\ UNCHANGED <<head, names, synced, base, orphans>>

\* put_transaction and put_decision return; or the process dies.
LeaveStore ==
    /\ writer # NoWriter
    /\ orphans' = IF writer.at = "sync" THEN orphans \cup {Current} ELSE orphans
    /\ writer' = NoWriter
    /\ UNCHANGED <<head, survivors, names, synced, base>>

PowerFailure ==
    /\ \E lost \in SUBSET (names \ synced) :
          names' = names \ lost /\ synced' = names \ lost
    /\ \E h \in survivors : head' = h /\ survivors' = {h}
    /\ writer' = NoWriter
    /\ UNCHANGED <<base, orphans>>

StoreNext ==
    \/ \E p \in Manifests : Begin(p)
    \/ PutName \/ SyncNames \/ SwapCurrent \/ SyncCurrent \/ LeaveStore
    \/ PowerFailure

StoreSpec == StoreInit /\ [][StoreNext]_storeVars

-----------------------------------------------------------------------------
(* Properties *)

\* "Writers publish CURRENT ... after all immutable objects are durable"
\* (repository.py:560-561):
\* whatever a power failure may leave as HEAD, it leaves what that HEAD names.
CurrentAfterObjects == \A h \in survivors : Reach(h) \subseteq synced

\* What holds of it: an object of HEAD that is not durable is one whose name a killed
\* writer left before its directory was synced and that nobody has synced since, because
\* the next writer took the name as stored.  Whatever the writer of a publication has
\* named himself is there after a power failure at any moment.
OnlyOrphansAreLost == Reach(head) \subseteq names \cup orphans
=============================================================================
