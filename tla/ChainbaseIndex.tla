----------------------------- MODULE ChainbaseIndex -----------------------------
(****************************************************************************)
(* One index of the chainbase object database (generic_index in             *)
(* libraries/chainbase/chainbase.hpp): a table of objects with a primary id *)
(* and a unique secondary key, and a stack of undo states, each of which    *)
(* records only what changed since the session began: the old values of     *)
(* modified objects, the values of removed ones and the ids of new ones.    *)
(*                                                                          *)
(* A function on Id with the value None where there is no entry stands for  *)
(* the container and for each of the maps of an undo state.                 *)
(****************************************************************************)
EXTENDS Integers, Sequences

CONSTANTS
    Key,            \* values of the unique secondary key
    Data,           \* what else an object holds
    None,           \* "no object", "no entry"
    KeysMutable,    \* whether callers' modifiers may change the key
    MaxId,          \* bound: ids are 0 .. MaxId - 1
    DepthBound,     \* bound on the nesting of sessions
    RevisionBound   \* bound on the revision number

Value == [key : Key, data : Data]

ASSUME NoneAssumption == None \notin Value
ASSUME KeysAssumption == KeysMutable \in BOOLEAN
ASSUME BoundsAssumption ==
    MaxId \in Nat /\ DepthBound \in Nat /\ RevisionBound \in Nat

Id == 0 .. MaxId - 1
Table == [Id -> Value \cup {None}]

VARIABLES
    objs,       \* _indices
    nextId,     \* _next_id
    stack,      \* _stack, the current session last
    revision,   \* _revision
    broken,     \* undo() threw: an exception in ~session ends the process
    snaps       \* history variable: a copy of the index per open session

vars == <<objs, nextId, stack, revision, broken, snaps>>

Empty == [i \in Id |-> None]

UndoState ==
    [old : Table, removed : Table, new : SUBSET Id,
     oldNextId : 0 .. MaxId, revision : Int]

Snapshot == [objs : Table, nextId : 0 .. MaxId, revision : Int]

TypeOK ==
    /\ objs \in Table
    /\ nextId \in 0 .. MaxId
    /\ stack \in Seq(UndoState)
    /\ revision \in Int
    /\ broken \in BOOLEAN
    /\ snaps \in Seq(Snapshot)
    /\ Len(snaps) = Len(stack)

Init ==
    /\ objs = Empty
    /\ nextId = 0
    /\ stack = <<>>
    /\ revision = 0
    /\ broken = FALSE
    /\ snaps = <<>>

-----------------------------------------------------------------------------
enabled == stack # <<>>
top == stack[Len(stack)]

\* The stack after a change of the current undo state; no session, no record.
Recorded(state) ==
    IF enabled THEN [stack EXCEPT ![Len(stack)] = state] ELSE stack

UniqueKeys(table) ==
    \A i, j \in Id :
        (table[i] # None /\ table[j] # None /\ table[i].key = table[j].key) => i = j

on_create(id) == Recorded([top EXCEPT !.new = @ \cup {id}])

\* Mutant: the old value is recorded again at every change.
on_modify_again(id) ==
    IF id \in top.new
    THEN stack
    ELSE Recorded([top EXCEPT !.old[id] = objs[id]])

on_modify(id) ==
    IF id \in top.new \/ top.old[id] # None
    THEN stack
    ELSE Recorded([top EXCEPT !.old[id] = objs[id]])

on_remove(id) ==
    CASE id \in top.new ->
            Recorded([top EXCEPT !.new = @ \ {id}])
      [] id \notin top.new /\ top.old[id] # None ->
            Recorded([top EXCEPT !.removed[id] = top.old[id], !.old[id] = None])
      [] id \notin top.new /\ top.old[id] = None /\ top.removed[id] # None ->
            stack
      [] OTHER ->
            Recorded([top EXCEPT !.removed[id] = objs[id]])

\* emplace(): an object with a taken key is refused before anything changes.
Emplace ==
    /\ ~broken
    /\ nextId < MaxId
    /\ \E v \in Value :
         LET table == [objs EXCEPT ![nextId] = v] IN
         /\ UniqueKeys(table)
         /\ objs' = table
    /\ nextId' = nextId + 1
    /\ stack' = IF enabled THEN on_create(nextId) ELSE stack
    /\ UNCHANGED <<revision, broken, snaps>>

\* What the container makes of a changed object: when it refuses the new value
\* the caller gets an exception, and the object stays as it was or, in a bmic
\* container, is gone (tests/chain_tests/undo_tests.cpp:155).
AfterModify(table, id) ==
    IF UniqueKeys(table) THEN {table} ELSE {objs, [objs EXCEPT ![id] = None]}

\* modify(): the old value is recorded before the container is asked.
Modify(id) ==
    /\ ~broken
    /\ objs[id] # None
    /\ \E v \in Value :
         LET table == [objs EXCEPT ![id] = v] IN
         /\ KeysMutable \/ v.key = objs[id].key
         /\ objs' \in AfterModify(table, id)
    /\ stack' = IF enabled THEN on_modify(id) ELSE stack
    /\ UNCHANGED <<nextId, revision, broken, snaps>>

Remove(id) ==
    /\ ~broken
    /\ objs[id] # None
    /\ objs' = [objs EXCEPT ![id] = None]
    /\ stack' = IF enabled THEN on_remove(id) ELSE stack
    /\ UNCHANGED <<nextId, revision, broken, snaps>>

\* Mutant: the id to go back to is one too high.
start_undo_session_late ==
    /\ ~broken
    /\ Len(stack) < DepthBound
    /\ revision < RevisionBound
    /\ revision' = revision + 1
    /\ stack' = Append(stack, [old |-> Empty, removed |-> Empty, new |-> {},
                               oldNextId |-> nextId + 1, revision |-> revision + 1])
    /\ snaps' = Append(snaps, [objs |-> objs, nextId |-> nextId,
                               revision |-> revision + 1])
    /\ UNCHANGED <<objs, nextId, broken>>

start_undo_session ==
    /\ ~broken
    /\ Len(stack) < DepthBound
    /\ revision < RevisionBound
    /\ revision' = revision + 1
    /\ stack' = Append(stack, [old |-> Empty, removed |-> Empty, new |-> {},
                               oldNextId |-> nextId, revision |-> revision + 1])
    /\ snaps' = Append(snaps, [objs |-> objs, nextId |-> nextId,
                               revision |-> revision + 1])
    /\ UNCHANGED <<objs, nextId, broken>>

-----------------------------------------------------------------------------
\* The table undo() leaves when none of its steps is refused: old values back
\* first, then the new objects erased, then the removed ones put back.
Restored(state, table) ==
    [i \in Id |->
        IF state.old[i] # None THEN state.old[i]
        ELSE IF i \in state.new THEN None
        ELSE IF state.removed[i] # None THEN state.removed[i]
        ELSE table[i]]

\* Old values are written back one by one in the order of their ids, while
\* the new objects are still there: object i meets the values already restored
\* below it and the current ones above it.
OldValuesFit(state, table) ==
    \A i \in Id : state.old[i] # None =>
        \A j \in Id \ {i} :
            LET other == IF j < i /\ state.old[j] # None
                         THEN state.old[j] ELSE table[j]
            IN  other # None => other.key # state.old[i].key

\* A new object that is gone cannot be erased.
UndoFits(state, table) ==
    /\ OldValuesFit(state, table)
    /\ \A i \in state.new : table[i] # None
    /\ UniqueKeys(Restored(state, table))

undo ==
    /\ ~broken
    /\ enabled
    /\ \/ /\ UndoFits(top, objs)
          /\ objs' = Restored(top, objs)
          /\ nextId' = top.oldNextId
          /\ stack' = SubSeq(stack, 1, Len(stack) - 1)
          /\ revision' = revision - 1
          /\ snaps' = SubSeq(snaps, 1, Len(snaps) - 1)
          /\ UNCHANGED broken
       \/ /\ ~UndoFits(top, objs)
          /\ broken' = TRUE
          /\ UNCHANGED <<objs, nextId, stack, revision, snaps>>

\* Mutant: the newer of two old values is kept.
MergedKeepsNewer(prev, state) ==
    [prev EXCEPT
        !.old = [i \in Id |->
            IF state.removed[i] # None /\ i \notin prev.new THEN None
            ELSE IF i \in prev.new THEN prev.old[i]
            ELSE IF state.old[i] # None THEN state.old[i] ELSE prev.old[i]],
        !.new = {i \in Id : (i \in prev.new \/ i \in state.new) /\ state.removed[i] = None},
        !.removed = [i \in Id |->
            IF state.removed[i] = None \/ i \in prev.new THEN prev.removed[i]
            ELSE IF prev.old[i] # None THEN prev.old[i]
            ELSE state.removed[i]]]

\* Mutant: the new ids of the inner session are forgotten.
MergedForgetsNew(prev, state) ==
    [prev EXCEPT
        !.old = [i \in Id |->
            IF state.removed[i] # None /\ i \notin prev.new THEN None
            ELSE IF i \in prev.new \/ prev.old[i] # None THEN prev.old[i]
            ELSE state.old[i]],
        !.new = {i \in prev.new : state.removed[i] = None},
        !.removed = [i \in Id |->
            IF state.removed[i] = None \/ i \in prev.new THEN prev.removed[i]
            ELSE IF prev.old[i] # None THEN prev.old[i]
            ELSE state.removed[i]]]

\* The 4x4 matrix of squash(): prev followed by state, as one undo state.
Merged(prev, state) ==
    [prev EXCEPT
        !.old = [i \in Id |->
            IF state.removed[i] # None /\ i \notin prev.new THEN None
            ELSE IF i \in prev.new \/ prev.old[i] # None THEN prev.old[i]
            ELSE state.old[i]],
        !.new = {i \in Id : (i \in prev.new \/ i \in state.new) /\ state.removed[i] = None},
        !.removed = [i \in Id |->
            IF state.removed[i] = None \/ i \in prev.new THEN prev.removed[i]
            ELSE IF prev.old[i] # None THEN prev.old[i]
            ELSE state.removed[i]]]

\* Mutant: the revision is not taken back.
squash_same_revision ==
    /\ ~broken
    /\ enabled
    /\ stack' = IF Len(stack) = 1 THEN <<>>
                ELSE Append(SubSeq(stack, 1, Len(stack) - 2),
                            Merged(stack[Len(stack) - 1], top))
    /\ snaps' = SubSeq(snaps, 1, Len(snaps) - 1)
    /\ UNCHANGED <<objs, nextId, revision, broken>>

squash ==
    /\ ~broken
    /\ enabled
    /\ \/ /\ Len(stack) = 1
          /\ stack' = <<>>
          /\ UNCHANGED revision
       \/ /\ Len(stack) > 1
          /\ stack' = Append(SubSeq(stack, 1, Len(stack) - 2),
                             Merged(stack[Len(stack) - 1], top))
          /\ revision' = revision - 1
    /\ snaps' = SubSeq(snaps, 1, Len(snaps) - 1)
    /\ UNCHANGED <<objs, nextId, broken>>

\* commit(r) drops undo states from the old end while their revision is <= r.
commit(r) ==
    /\ ~broken
    /\ \E k \in 1 .. Len(stack) :
         /\ \A i \in 1 .. k : stack[i].revision <= r
         /\ k < Len(stack) => stack[k + 1].revision > r
         /\ stack' = SubSeq(stack, k + 1, Len(stack))
         /\ snaps' = SubSeq(snaps, k + 1, Len(snaps))
    /\ UNCHANGED <<objs, nextId, revision, broken>>

set_revision(r) ==
    /\ ~broken
    /\ ~enabled
    /\ revision' = r
    /\ UNCHANGED <<objs, nextId, stack, broken, snaps>>

Next ==
    \/ Emplace
    \/ \E id \in Id : Modify(id) \/ Remove(id)
    \/ start_undo_session
    \/ undo
    \/ squash
    \/ \E r \in 0 .. RevisionBound : commit(r) \/ set_revision(r)

Spec == Init /\ [][Next]_vars

-----------------------------------------------------------------------------
\* The table on which undo state n was stacked.
Above(n) == IF n = Len(stack) THEN objs ELSE snaps[n + 1].objs

\* undo() never throws: at every moment each undo state on the stack can be
\* undone, in turn, without meeting a taken key (chainbase.hpp:366-404).
UndoNeverFails ==
    /\ ~broken
    /\ \A n \in 1 .. Len(stack) : UndoFits(stack[n], Above(n))

\* The differences kept on the stack reproduce the index of every open session
\* exactly, ids to be handed out included, however the changes, squashes and
\* commits were interleaved: undo() "restores the state to how it was prior to
\* the current session" (chainbase.hpp:362-365).
UndoIsExact ==
    \A n \in 1 .. Len(stack) :
        /\ Restored(stack[n], Above(n)) = snaps[n].objs
        /\ stack[n].oldNextId = snaps[n].nextId
        /\ stack[n].revision = snaps[n].revision

\* The revision is the revision of the current session and the stacked ones are
\* consecutive, so that commit(r) keeps exactly the sessions above r
\* (database::commit is called with a block number).
RevisionsConsecutive ==
    \A n \in 1 .. Len(stack) : stack[n].revision = revision - Len(stack) + n

\* What makes these properties inductive.  A table holds no id that was not
\* handed out and no key twice; an undo state splits the ids into modified,
\* new, removed and untouched ones, a modified object is still there under the
\* key it had, and a new one has an id the session below never knew.
Good(table, next) ==
    /\ \A i \in Id : i >= next => table[i] = None
    /\ UniqueKeys(table)

LayerOK(state, below, belowNext, above, aboveNext) ==
    /\ state.oldNextId = belowNext
    /\ belowNext <= aboveNext
    /\ \A i \in Id :
         /\ Restored(state, above)[i] = below[i]
         /\ state.old[i] # None =>
                /\ i \notin state.new
                /\ state.removed[i] = None
                /\ above[i] # None
                /\ above[i].key = state.old[i].key
         /\ i \in state.new =>
                /\ state.removed[i] = None
                /\ above[i] # None
                /\ i >= belowNext
         /\ state.removed[i] # None => above[i] = None

AboveNext(n) == IF n = Len(stack) THEN nextId ELSE snaps[n + 1].nextId

Layers ==
    \A n \in 1 .. Len(stack) :
        /\ Good(snaps[n].objs, snaps[n].nextId)
        /\ LayerOK(stack[n], snaps[n].objs, snaps[n].nextId, Above(n), AboveNext(n))
        /\ stack[n].revision = snaps[n].revision

UndoInv ==
    /\ TypeOK
    /\ ~broken
    /\ Good(objs, nextId)
    /\ Layers
    /\ RevisionsConsecutive

Abs == INSTANCE SnapshotStack

\* The index implements the stack of full copies.
Implements == Abs!Spec
================================================================================
