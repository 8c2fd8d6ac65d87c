------------------------------ MODULE SnapshotStack ------------------------------
(****************************************************************************)
(* What a chainbase index promises its users: a table of objects with a     *)
(* stack of full copies of it.  A session saves a copy, undo brings the     *)
(* last copy back, squash forgets it, commit forgets the oldest ones.  The  *)
(* implementation (ChainbaseIndex) keeps differences instead of copies.     *)
(****************************************************************************)
EXTENDS Integers, Sequences

CONSTANTS
    MaxId,          \* object ids are 0 .. MaxId - 1
    Value,          \* the values an object may have
    None,           \* "no object has this id"
    RevisionBound   \* bound on the revision number

VARIABLES
    objs,           \* the table: [Id -> Value \cup {None}]
    nextId,         \* the id the next object gets
    revision,       \* the current revision
    snaps           \* Seq([objs, nextId, revision]), the oldest copy first

Id == 0 .. MaxId - 1

vars == <<objs, nextId, revision, snaps>>

Copy == [objs |-> objs, nextId |-> nextId, revision |-> revision + 1]

Init ==
    /\ objs = [i \in Id |-> None]
    /\ nextId = 0
    /\ revision = 0
    /\ snaps = <<>>

\* Any change of the current table, no change of the copies.  Ids are not
\* handed out twice while the object or a copy that lacks it is around.
Change ==
    /\ objs' \in [Id -> Value \cup {None}]
    /\ nextId' \in {nextId, nextId + 1}
    /\ \E i \in Id : \A j \in Id \ {i} : objs'[j] = objs[j]
    /\ UNCHANGED <<revision, snaps>>

StartSession ==
    /\ revision' = revision + 1
    /\ snaps' = Append(snaps, Copy)
    /\ UNCHANGED <<objs, nextId>>

Undo ==
    /\ snaps # <<>>
    /\ objs' = snaps[Len(snaps)].objs
    /\ nextId' = snaps[Len(snaps)].nextId
    /\ revision' = revision - 1
    /\ snaps' = SubSeq(snaps, 1, Len(snaps) - 1)

\* The last copy is forgotten; the revision goes back only if an older one
\* remains.
Squash ==
    /\ snaps # <<>>
    /\ snaps' = SubSeq(snaps, 1, Len(snaps) - 1)
    /\ revision' = IF Len(snaps) = 1 THEN revision ELSE revision - 1
    /\ UNCHANGED <<objs, nextId>>

Commit ==
    /\ \E k \in 1 .. Len(snaps) : snaps' = SubSeq(snaps, k + 1, Len(snaps))
    /\ UNCHANGED <<objs, nextId, revision>>

SetRevision ==
    /\ snaps = <<>>
    /\ revision' \in 0 .. RevisionBound
    /\ UNCHANGED <<objs, nextId, snaps>>

Next == Change \/ StartSession \/ Undo \/ Squash \/ Commit \/ SetRevision

Spec == Init /\ [][Next]_vars
================================================================================
