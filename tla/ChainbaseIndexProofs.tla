-------------------------- MODULE ChainbaseIndexProofs --------------------------
(****************************************************************************)
(* For every set of keys and data, every number of ids and every nesting of *)
(* sessions: if callers leave the unique keys of existing objects alone,    *)
(* chainbase's undo stack of differences is exact, undo never throws, and   *)
(* the index implements a stack of full copies (SnapshotStack).             *)
(****************************************************************************)
EXTENDS ChainbaseIndex, TLAPS

USE NoneAssumption, BoundsAssumption DEF NoneAssumption, BoundsAssumption

\* A new object: its id was unknown to the session below.
LEMMA CreateKeepsLayer ==
    ASSUME NEW d \in UndoState, NEW below \in Table, NEW bn \in 0 .. MaxId,
           NEW above \in Table, NEW an \in 0 .. MaxId, an < MaxId,
           NEW v \in Value,
           Good(above, an), Good(below, bn), LayerOK(d, below, bn, above, an)
    PROVE  LayerOK([d EXCEPT !.new = @ \cup {an}], below, bn,
                   [above EXCEPT ![an] = v], an + 1)
  BY DEF UndoState, Table, Good, LayerOK, Restored, Id

\* What on_modify() leaves of the current undo state d.
Noted(d, id, value) ==
    IF id \in d.new \/ d.old[id] # None THEN d ELSE [d EXCEPT !.old[id] = value]

\* What on_remove() leaves of it.
Dropped(d, id, value) ==
    CASE id \in d.new -> [d EXCEPT !.new = @ \ {id}]
      [] id \notin d.new /\ d.old[id] # None ->
            [d EXCEPT !.removed[id] = d.old[id], !.old[id] = None]
      [] id \notin d.new /\ d.old[id] = None /\ d.removed[id] # None -> d
      [] OTHER -> [d EXCEPT !.removed[id] = value]

\* A modified object that keeps its key, or stays as it was.
LEMMA ModifyKeepsLayer ==
    ASSUME NEW d \in UndoState, NEW below \in Table, NEW bn \in 0 .. MaxId,
           NEW above \in Table, NEW an \in 0 .. MaxId,
           NEW id \in Id, above[id] # None,
           NEW v \in Value, v.key = above[id].key,
           LayerOK(d, below, bn, above, an)
    PROVE  LayerOK(Noted(d, id, above[id]), below, bn, [above EXCEPT ![id] = v], an)
  BY DEF UndoState, Table, LayerOK, Restored, Noted

\* A removed object.
LEMMA RemoveKeepsLayer ==
    ASSUME NEW d \in UndoState, NEW below \in Table, NEW bn \in 0 .. MaxId,
           NEW above \in Table, NEW an \in 0 .. MaxId,
           NEW id \in Id, above[id] # None,
           Good(below, bn), LayerOK(d, below, bn, above, an)
    PROVE  LayerOK(Dropped(d, id, above[id]), below, bn,
                   [above EXCEPT ![id] = None], an)
  BY DEF UndoState, Table, LayerOK, Restored, Dropped, Good

\* The matrix of squash(): two layers become one.
LEMMA SquashKeepsLayer ==
    ASSUME NEW p \in UndoState, NEW d \in UndoState,
           NEW b0 \in Table, NEW n0 \in 0 .. MaxId,
           NEW b1 \in Table, NEW n1 \in 0 .. MaxId,
           NEW above \in Table, NEW an \in 0 .. MaxId,
           Good(b0, n0), Good(b1, n1),
           LayerOK(p, b0, n0, b1, n1), LayerOK(d, b1, n1, above, an)
    PROVE  LayerOK(Merged(p, d), b0, n0, above, an)
  <1> DEFINE m == Merged(p, d)
  <1>1. /\ m.oldNextId = p.oldNextId
        /\ \A i \in Id :
             /\ m.old[i] = IF d.removed[i] # None /\ i \notin p.new THEN None
                           ELSE IF i \in p.new \/ p.old[i] # None THEN p.old[i]
                           ELSE d.old[i]
             /\ i \in m.new <=> (i \in p.new \/ i \in d.new) /\ d.removed[i] = None
             /\ m.removed[i] = IF d.removed[i] = None \/ i \in p.new THEN p.removed[i]
                               ELSE IF p.old[i] # None THEN p.old[i]
                               ELSE d.removed[i]
    BY DEF UndoState, Table, Merged
  <1> HIDE DEF m
  <1>2. n0 <= an
    BY DEF LayerOK, UndoState
  <1>3. ASSUME NEW i \in Id
        PROVE  /\ Restored(m, above)[i] = b0[i]
               /\ m.old[i] # None =>
                     /\ i \notin m.new
                     /\ m.removed[i] = None
                     /\ above[i] # None
                     /\ above[i].key = m.old[i].key
               /\ i \in m.new =>
                     /\ m.removed[i] = None
                     /\ above[i] # None
                     /\ i >= n0
               /\ m.removed[i] # None => above[i] = None
    <2>1. CASE i \in p.new
      BY <2>1, <1>1 DEF UndoState, Table, LayerOK, Restored, Good, Id
    <2>2. CASE i \notin p.new /\ p.old[i] # None
      BY <2>2, <1>1 DEF UndoState, Table, LayerOK, Restored, Good, Id
    <2>3. CASE i \notin p.new /\ p.old[i] = None /\ p.removed[i] # None
      BY <2>3, <1>1 DEF UndoState, Table, LayerOK, Restored, Good, Id
    <2>4. CASE i \notin p.new /\ p.old[i] = None /\ p.removed[i] = None
      BY <2>4, <1>1 DEF UndoState, Table, LayerOK, Restored, Good, Id
    <2>5. QED
      BY <2>1, <2>2, <2>3, <2>4
  <1>4. LayerOK(m, b0, n0, above, an)
    BY <1>1, <1>2, <1>3 DEF LayerOK
  <1>5. QED
    BY <1>4 DEF m

\* undo() of a sound layer meets no taken key and gives back the table below.
LEMMA UndoOfLayer ==
    ASSUME NEW d \in UndoState, NEW below \in Table, NEW bn \in 0 .. MaxId,
           NEW above \in Table, NEW an \in 0 .. MaxId,
           Good(below, bn), Good(above, an), LayerOK(d, below, bn, above, an)
    PROVE  /\ Restored(d, above) = below
           /\ UndoFits(d, above)
  <1>1. Restored(d, above) = below
    BY DEF Table, LayerOK, Restored
  <1>2. OldValuesFit(d, above)
    BY DEF LayerOK, OldValuesFit, Good, UniqueKeys, Id, UndoState, Table
  <1>3. \A i \in d.new : above[i] # None
    BY DEF LayerOK, UndoState
  <1>4. QED
    BY <1>1, <1>2, <1>3 DEF UndoFits, Good

-----------------------------------------------------------------------------
LEMMA InitTypeOK == Init => TypeOK
  <1> SUFFICES ASSUME Init PROVE TypeOK
    OBVIOUS
  <1>1. objs \in Table /\ nextId \in 0 .. MaxId
    BY DEF Init, Empty, Table
  <1>2. /\ stack \in Seq(UndoState)
        /\ revision \in Int
        /\ snaps \in Seq(Snapshot)
        /\ Len(snaps) = Len(stack)
    BY DEF Init
  <1>3. broken \in BOOLEAN
    BY DEF Init
  <1>4. QED
    BY <1>1, <1>2, <1>3 DEF TypeOK

LEMMA InitUndoInv == Init => UndoInv
  BY InitTypeOK DEF Init, UndoInv, Empty, Table, Id, Good, UniqueKeys, Layers,
     RevisionsConsecutive

\* The records kept for a change are undo states.
LEMMA RecordsTyped ==
    ASSUME NEW d \in UndoState, NEW id \in Id, NEW x \in Value \cup {None}
    PROVE  /\ [d EXCEPT !.new = @ \cup {id}] \in UndoState
           /\ Noted(d, id, x) \in UndoState
           /\ Dropped(d, id, x) \in UndoState
  BY DEF UndoState, Table, Noted, Dropped

LEMMA MergedTyped ==
    ASSUME NEW p \in UndoState, NEW d \in UndoState
    PROVE  Merged(p, d) \in UndoState
  BY DEF UndoState, Table, Merged

\* The hooks change the current undo state and no other.
LEMMA Hooks ==
    ASSUME TypeOK, enabled, NEW id \in Id
    PROVE  /\ top \in UndoState
           /\ Len(stack) \in Nat \ {0}
           /\ on_create(id) = [stack EXCEPT ![Len(stack)] = [top EXCEPT !.new = @ \cup {id}]]
           /\ on_modify(id) = [stack EXCEPT ![Len(stack)] = Noted(top, id, objs[id])]
           /\ on_remove(id) = [stack EXCEPT ![Len(stack)] = Dropped(top, id, objs[id])]
  <1>1. /\ Len(stack) \in Nat \ {0}
        /\ top \in UndoState
        /\ stack = [stack EXCEPT ![Len(stack)] = top]
    BY DEF TypeOK, enabled, top
  <1>2. QED
    BY <1>1 DEF on_create, on_modify, on_remove, Recorded, Noted, Dropped

\* A change of the current table that keeps the current layer sound keeps all
\* of them sound: the layers below see only the copies.
LEMMA ChangeKeepsInv ==
    ASSUME UndoInv,
           NEW d \in UndoState,
           enabled => stack' = [stack EXCEPT ![Len(stack)] = d],
           ~enabled => stack' = stack,
           objs' \in Table, nextId' \in 0 .. MaxId, Good(objs', nextId'),
           UNCHANGED <<revision, broken, snaps>>,
           enabled => /\ d.revision = top.revision
                      /\ LayerOK(d, snaps[Len(stack)].objs, snaps[Len(stack)].nextId,
                                 objs', nextId')
    PROVE  UndoInv'
  <1>1. /\ stack' \in Seq(UndoState)
        /\ Len(stack') = Len(stack)
        /\ Len(stack) \in Nat
        /\ \A n \in 1 .. Len(stack) : n # Len(stack) => stack'[n] = stack[n]
        /\ Len(stack) # 0 => stack'[Len(stack)] = d /\ enabled
    <2>1. stack \in Seq(UndoState)
      BY DEF UndoInv, TypeOK
    <2>2. CASE enabled
      BY <2>1, <2>2 DEF enabled
    <2>3. CASE ~enabled
      BY <2>1, <2>3 DEF enabled
    <2>4. QED
      BY <2>2, <2>3
  <1>2. TypeOK'
    BY <1>1 DEF UndoInv, TypeOK
  <1>3. ASSUME NEW n \in 1 .. Len(stack)
        PROVE  /\ Good(snaps[n].objs, snaps[n].nextId)
               /\ LayerOK(stack'[n], snaps[n].objs, snaps[n].nextId,
                          Above(n)', AboveNext(n)')
               /\ stack'[n].revision = snaps[n].revision
               /\ stack'[n].revision = revision - Len(stack) + n
    <2>1. CASE n = Len(stack)
      BY <1>1, <2>1 DEF UndoInv, Layers, RevisionsConsecutive, Above, AboveNext, top
    <2>2. CASE n # Len(stack)
      BY <1>1, <2>2 DEF UndoInv, Layers, RevisionsConsecutive, Above, AboveNext
    <2>3. QED
      BY <2>1, <2>2
  <1>4. Layers' /\ RevisionsConsecutive'
    <2>1. snaps' = snaps /\ revision' = revision
      OBVIOUS
    <2>2. QED
      BY <1>1, <1>3, <2>1 DEF Layers, RevisionsConsecutive, Above, AboveNext
  <1>5. QED
    BY <1>2, <1>4 DEF UndoInv

-----------------------------------------------------------------------------
\* Without a session there is nothing to record.
LEMMA PlainChange ==
    ASSUME UndoInv, ~enabled, stack' = stack,
           objs' \in Table, nextId' \in 0 .. MaxId, Good(objs', nextId'),
           UNCHANGED <<revision, broken, snaps>>
    PROVE  UndoInv'
  <1>1. PICK d \in UndoState : TRUE
    <2>1. [old |-> Empty, removed |-> Empty, new |-> {}, oldNextId |-> 0,
           revision |-> 0] \in UndoState
      BY DEF UndoState, Empty, Table
    <2>2. QED
      BY <2>1
  <1>2. QED
    BY <1>1, ChangeKeepsInv

\* The innermost session and the table it started from.
LEMMA TopLayer ==
    ASSUME UndoInv, enabled
    PROVE  /\ top \in UndoState
           /\ Len(stack) \in Nat \ {0}
           /\ Len(stack) = Len(snaps)
           /\ snaps[Len(stack)] \in Snapshot
           /\ snaps[Len(stack)].objs \in Table
           /\ snaps[Len(stack)].nextId \in 0 .. MaxId
           /\ Good(snaps[Len(stack)].objs, snaps[Len(stack)].nextId)
           /\ objs \in Table
           /\ nextId \in 0 .. MaxId
           /\ Good(objs, nextId)
           /\ LayerOK(top, snaps[Len(stack)].objs, snaps[Len(stack)].nextId, objs, nextId)
           /\ top.revision = revision
  <1>1. /\ stack \in Seq(UndoState) /\ snaps \in Seq(Snapshot)
        /\ Len(stack) = Len(snaps) /\ revision \in Int
        /\ objs \in Table /\ nextId \in 0 .. MaxId /\ Good(objs, nextId)
    BY DEF UndoInv, TypeOK
  <1>2. Len(stack) \in Nat \ {0} /\ Len(stack) \in 1 .. Len(stack)
    BY <1>1 DEF enabled
  <1>3. top \in UndoState /\ snaps[Len(stack)] \in Snapshot
    BY <1>1, <1>2 DEF top
  <1>4. snaps[Len(stack)].objs \in Table /\ snaps[Len(stack)].nextId \in 0 .. MaxId
    BY <1>3 DEF Snapshot
  <1>5. /\ Good(snaps[Len(stack)].objs, snaps[Len(stack)].nextId)
        /\ LayerOK(top, snaps[Len(stack)].objs, snaps[Len(stack)].nextId, objs, nextId)
    BY <1>2 DEF UndoInv, Layers, Above, AboveNext, top
  <1>6. top.revision = revision
    BY <1>1, <1>2, <1>3 DEF UndoInv, RevisionsConsecutive, top, UndoState
  <1>7. QED
    BY <1>1, <1>2, <1>3, <1>4, <1>5, <1>6

-----------------------------------------------------------------------------
LEMMA EmplaceStep == ASSUME UndoInv, Emplace PROVE UndoInv'
  <1>1. PICK v \in Value : /\ objs' = [objs EXCEPT ![nextId] = v]
                           /\ UniqueKeys(objs')
    BY DEF Emplace
  <1>2. /\ nextId \in Id /\ nextId' = nextId + 1 /\ nextId' \in 0 .. MaxId
        /\ UNCHANGED <<revision, broken, snaps>>
    BY DEF UndoInv, TypeOK, Emplace, Id
  <1>3. objs' \in Table /\ Good(objs', nextId')
    BY <1>1, <1>2 DEF UndoInv, TypeOK, Good, Table, Id
  <1>4. CASE enabled
    <2> DEFINE d == [top EXCEPT !.new = @ \cup {nextId}]
    <2>1. stack' = [stack EXCEPT ![Len(stack)] = d]
      BY <1>2, <1>4, Hooks DEF Emplace, UndoInv
    <2>2. d \in UndoState /\ d.revision = top.revision
      BY <1>2, <1>4, TopLayer, RecordsTyped DEF UndoState
    <2>3. LayerOK(d, snaps[Len(stack)].objs, snaps[Len(stack)].nextId, objs', nextId')
      <3>1. nextId < MaxId
        BY <1>2 DEF Id
      <3>2. LayerOK(d, snaps[Len(stack)].objs, snaps[Len(stack)].nextId,
                    [objs EXCEPT ![nextId] = v], nextId + 1)
        BY <3>1, <1>4, TopLayer, CreateKeepsLayer
      <3>3. QED
        BY <3>2, <1>1, <1>2
    <2>4. QED
      BY <1>2, <1>3, <1>4, <2>1, <2>2, <2>3, ChangeKeepsInv
  <1>5. CASE ~enabled
    BY <1>2, <1>3, <1>5, PlainChange DEF Emplace
  <1>6. QED
    BY <1>4, <1>5

LEMMA ModifyStep ==
    ASSUME KeysMutable = FALSE, UndoInv, NEW id \in Id, Modify(id) PROVE UndoInv'
  <1>1. PICK v \in Value : /\ v.key = objs[id].key
                           /\ objs' \in AfterModify([objs EXCEPT ![id] = v], id)
    BY DEF Modify
  <1>2. PICK w \in Value : /\ w.key = objs[id].key
                           /\ objs' = [objs EXCEPT ![id] = w]
                           /\ UniqueKeys(objs')
    <2>1. objs \in Table /\ objs[id] # None /\ UniqueKeys(objs)
      BY DEF UndoInv, TypeOK, Modify, Good
    <2>2. UniqueKeys([objs EXCEPT ![id] = v])
      BY <1>1, <2>1 DEF UniqueKeys, Table
    <2>3. QED
      BY <1>1, <2>2 DEF AfterModify
  <1>3. /\ UNCHANGED <<nextId, revision, broken, snaps>>
        /\ nextId \in 0 .. MaxId /\ objs[id] # None
    BY DEF UndoInv, TypeOK, Modify
  <1>4. objs' \in Table /\ Good(objs', nextId')
    BY <1>2, <1>3 DEF UndoInv, TypeOK, Good, Table, Id
  <1>5. CASE enabled
    <2> DEFINE d == Noted(top, id, objs[id])
    <2>1. stack' = [stack EXCEPT ![Len(stack)] = d]
      BY <1>5, Hooks DEF Modify, UndoInv
    <2>2. objs[id] \in Value \cup {None}
      BY DEF UndoInv, TypeOK, Table
    <2>3. d \in UndoState /\ d.revision = top.revision
      BY <1>5, <2>2, TopLayer, RecordsTyped DEF UndoState, Noted
    <2>4. LayerOK(d, snaps[Len(stack)].objs, snaps[Len(stack)].nextId, objs', nextId')
      BY <1>2, <1>3, <1>5, TopLayer, ModifyKeepsLayer
    <2>5. QED
      BY <1>3, <1>4, <1>5, <2>1, <2>3, <2>4, ChangeKeepsInv
  <1>6. CASE ~enabled
    BY <1>3, <1>4, <1>6, PlainChange DEF Modify
  <1>7. QED
    BY <1>5, <1>6

LEMMA RemoveStep == ASSUME UndoInv, NEW id \in Id, Remove(id) PROVE UndoInv'
  <1>1. /\ UNCHANGED <<nextId, revision, broken, snaps>>
        /\ nextId \in 0 .. MaxId /\ objs[id] # None
        /\ objs' = [objs EXCEPT ![id] = None]
    BY DEF UndoInv, TypeOK, Remove
  <1>2. objs' \in Table /\ Good(objs', nextId')
    BY <1>1 DEF UndoInv, TypeOK, Good, UniqueKeys, Table
  <1>3. CASE enabled
    <2> DEFINE d == Dropped(top, id, objs[id])
    <2>1. stack' = [stack EXCEPT ![Len(stack)] = d]
      BY <1>3, Hooks DEF Remove, UndoInv
    <2>2. objs[id] \in Value \cup {None}
      BY DEF UndoInv, TypeOK, Table
    <2>3. d \in UndoState /\ d.revision = top.revision
      BY <1>3, <2>2, TopLayer, RecordsTyped DEF UndoState, Dropped
    <2>4. LayerOK(d, snaps[Len(stack)].objs, snaps[Len(stack)].nextId, objs', nextId')
      BY <1>1, <1>3, TopLayer, RemoveKeepsLayer
    <2>5. QED
      BY <1>1, <1>2, <1>3, <2>1, <2>3, <2>4, ChangeKeepsInv
  <1>4. CASE ~enabled
    BY <1>1, <1>2, <1>4, PlainChange DEF Remove
  <1>5. QED
    BY <1>3, <1>4

LEMMA StartStep == ASSUME UndoInv, start_undo_session PROVE UndoInv'
  <1> DEFINE d == [old |-> Empty, removed |-> Empty, new |-> {},
                   oldNextId |-> nextId, revision |-> revision + 1]
             c == [objs |-> objs, nextId |-> nextId, revision |-> revision + 1]
  <1>1. /\ objs \in Table /\ nextId \in 0 .. MaxId /\ revision \in Int
        /\ stack \in Seq(UndoState) /\ snaps \in Seq(Snapshot)
        /\ Len(snaps) = Len(stack) /\ Len(stack) \in Nat /\ ~broken
        /\ stack' = Append(stack, d) /\ snaps' = Append(snaps, c)
        /\ UNCHANGED <<objs, nextId, broken>> /\ revision' = revision + 1
        /\ Good(objs, nextId)
    BY DEF UndoInv, TypeOK, start_undo_session
  <1>2. d \in UndoState /\ c \in Snapshot
    BY <1>1 DEF UndoState, Snapshot, Empty, Table
  <1>3. LayerOK(d, objs, nextId, objs, nextId)
    BY <1>1 DEF LayerOK, Restored, Empty
  <1> HIDE DEF d, c
  <1>4. /\ stack' \in Seq(UndoState) /\ snaps' \in Seq(Snapshot)
        /\ Len(stack') = Len(stack) + 1 /\ Len(snaps') = Len(stack) + 1
        /\ \A n \in 1 .. Len(stack) : stack'[n] = stack[n] /\ snaps'[n] = snaps[n]
        /\ stack'[Len(stack) + 1] = d /\ snaps'[Len(stack) + 1] = c
    BY <1>1, <1>2
  <1>5. /\ c.objs = objs /\ c.nextId = nextId /\ c.revision = revision + 1
        /\ d.revision = revision + 1
    BY DEF c, d
  <1>6. TypeOK'
    <2>1. broken' \in BOOLEAN
      BY <1>1 DEF UndoInv, TypeOK
    <2>2. QED
      BY <1>1, <1>4, <2>1 DEF TypeOK
  <1>7. ASSUME NEW n \in 1 .. Len(stack')
        PROVE  /\ Good(snaps'[n].objs, snaps'[n].nextId)
               /\ LayerOK(stack'[n], snaps'[n].objs, snaps'[n].nextId,
                          Above(n)', AboveNext(n)')
               /\ stack'[n].revision = snaps'[n].revision
               /\ stack'[n].revision = revision' - Len(stack') + n
    <2>1. CASE n = Len(stack) + 1
      BY <1>1, <1>3, <1>4, <1>5, <2>1 DEF Above, AboveNext
    <2>2. CASE n = Len(stack)
      BY <1>1, <1>4, <1>5, <2>2
         DEF UndoInv, Layers, RevisionsConsecutive, Above, AboveNext
    <2>3. CASE n \in 1 .. Len(stack) - 1
      BY <1>1, <1>4, <2>3 DEF UndoInv, Layers, RevisionsConsecutive, Above, AboveNext
    <2>4. QED
      BY <1>1, <1>4, <2>1, <2>2, <2>3
  <1>8. QED
    BY <1>1, <1>6, <1>7 DEF UndoInv, Layers, RevisionsConsecutive

\* undo() takes the branch that does not throw, and ends in the copy.
LEMMA UndoResult ==
    ASSUME UndoInv, undo
    PROVE  /\ enabled
           /\ objs' = snaps[Len(snaps)].objs
           /\ nextId' = snaps[Len(snaps)].nextId
           /\ stack' = SubSeq(stack, 1, Len(stack) - 1)
           /\ snaps' = SubSeq(snaps, 1, Len(snaps) - 1)
           /\ revision' = revision - 1
           /\ broken' = broken
  <1>1. enabled
    BY DEF undo
  <1>2. UndoFits(top, objs) /\ Restored(top, objs) = snaps[Len(snaps)].objs
    BY <1>1, TopLayer, UndoOfLayer
  <1>3. top.oldNextId = snaps[Len(snaps)].nextId
    BY <1>1, TopLayer DEF LayerOK
  <1>4. QED
    BY <1>1, <1>2, <1>3 DEF undo

LEMMA UndoStep == ASSUME UndoInv, undo PROVE UndoInv'
  <1>1. /\ enabled /\ stack \in Seq(UndoState) /\ snaps \in Seq(Snapshot)
        /\ Len(stack) \in Nat \ {0} /\ Len(snaps) = Len(stack) /\ revision \in Int
        /\ ~broken
    BY UndoResult, TopLayer DEF UndoInv, TypeOK
  <1>2. /\ stack' \in Seq(UndoState) /\ snaps' \in Seq(Snapshot)
        /\ Len(stack') = Len(stack) - 1 /\ Len(snaps') = Len(stack')
        /\ \A n \in 1 .. Len(stack') : stack'[n] = stack[n] /\ snaps'[n] = snaps[n]
    BY <1>1, UndoResult
  <1>3. /\ objs' \in Table /\ nextId' \in 0 .. MaxId /\ Good(objs', nextId')
        /\ revision' = revision - 1 /\ revision' \in Int /\ ~broken'
    BY <1>1, UndoResult, TopLayer
  <1>4. TypeOK'
    <2>1. broken' \in BOOLEAN
      BY UndoResult DEF UndoInv, TypeOK
    <2>2. QED
      BY <1>2, <1>3, <2>1 DEF TypeOK
  <1>5. ASSUME NEW n \in 1 .. Len(stack')
        PROVE  /\ Good(snaps'[n].objs, snaps'[n].nextId)
               /\ LayerOK(stack'[n], snaps'[n].objs, snaps'[n].nextId,
                          Above(n)', AboveNext(n)')
               /\ stack'[n].revision = snaps'[n].revision
               /\ stack'[n].revision = revision' - Len(stack') + n
    <2>1. Above(n)' = Above(n) /\ AboveNext(n)' = AboveNext(n)
      BY <1>1, <1>2, UndoResult DEF Above, AboveNext
    <2>2. /\ n \in 1 .. Len(stack)
          /\ stack'[n] = stack[n] /\ snaps'[n] = snaps[n]
          /\ revision' - Len(stack') + n = revision - Len(stack) + n
      BY <1>1, <1>2, <1>3
    <2>3. QED
      BY <2>1, <2>2 DEF UndoInv, Layers, RevisionsConsecutive
  <1>6. QED
    BY <1>3, <1>4, <1>5 DEF UndoInv, Layers, RevisionsConsecutive

LEMMA SquashStep == ASSUME UndoInv, squash PROVE UndoInv'
  <1>1. /\ enabled /\ stack \in Seq(UndoState) /\ snaps \in Seq(Snapshot)
        /\ Len(stack) \in Nat \ {0} /\ Len(snaps) = Len(stack) /\ revision \in Int
        /\ ~broken /\ UNCHANGED <<objs, nextId, broken>>
        /\ snaps' = SubSeq(snaps, 1, Len(snaps) - 1)
        /\ objs \in Table /\ nextId \in 0 .. MaxId
    BY TopLayer DEF squash, UndoInv, TypeOK
  <1>2. /\ snaps' \in Seq(Snapshot) /\ Len(snaps') = Len(stack) - 1
        /\ \A n \in 1 .. Len(stack) - 1 : snaps'[n] = snaps[n]
    BY <1>1
  <1>3. CASE Len(stack) = 1
    <2>1. stack' = <<>> /\ revision' = revision
      BY <1>3 DEF squash
    <2>2. TypeOK'
      <3>1. broken' \in BOOLEAN
        BY <1>1 DEF UndoInv, TypeOK
      <3>2. QED
        BY <1>1, <1>2, <1>3, <2>1, <3>1 DEF TypeOK
    <2>3. QED
      BY <1>1, <2>1, <2>2 DEF UndoInv, Layers, RevisionsConsecutive
  <1>4. CASE Len(stack) > 1
    <2> DEFINE L == Len(stack) - 1
               m == Merged(stack[L], top)
    <2>1. /\ L \in Nat \ {0} /\ L \in 1 .. Len(stack) /\ L # Len(stack)
          /\ L + 1 \in 1 .. Len(stack) /\ Len(stack) = L + 1
          /\ stack[L] \in UndoState /\ top \in UndoState
          /\ snaps[L] \in Snapshot /\ snaps[L + 1] \in Snapshot
          /\ stack' = Append(SubSeq(stack, 1, L - 1), m)
          /\ revision' = revision - 1
      <3>1. /\ L \in Nat \ {0} /\ L \in 1 .. Len(stack) /\ L # Len(stack)
            /\ L + 1 \in 1 .. Len(stack) /\ Len(stack) = L + 1
        BY <1>1, <1>4
      <3>2. /\ stack[L] \in UndoState /\ snaps[L] \in Snapshot
            /\ snaps[L + 1] \in Snapshot
        BY <1>1, <3>1
      <3>3. top \in UndoState
        BY <1>1, TopLayer
      <3>4. /\ stack' = Append(SubSeq(stack, 1, Len(stack) - 2), m)
            /\ revision' = revision - 1
        <4>1. Len(stack) # 1
          BY <1>1, <1>4
        <4>2. QED
          BY <4>1 DEF squash
      <3>5. Len(stack) - 2 = L - 1
        BY <1>1
      <3>6. QED
        BY <3>1, <3>2, <3>3, <3>4, <3>5
    <2>2. m \in UndoState /\ m.revision = stack[L].revision
      BY <2>1, MergedTyped DEF Merged, UndoState
    <2>3. LayerOK(m, snaps[L].objs, snaps[L].nextId, objs, nextId)
      <3>1. LayerOK(stack[L], snaps[L].objs, snaps[L].nextId,
                    snaps[L + 1].objs, snaps[L + 1].nextId)
        BY <1>1, <2>1 DEF UndoInv, Layers, Above, AboveNext
      <3>2. LayerOK(top, snaps[L + 1].objs, snaps[L + 1].nextId, objs, nextId)
        BY <1>1, <2>1, TopLayer
      <3>3. Good(snaps[L].objs, snaps[L].nextId) /\ Good(snaps[L + 1].objs, snaps[L + 1].nextId)
        BY <1>1, <2>1 DEF UndoInv, Layers
      <3>4. /\ snaps[L].objs \in Table /\ snaps[L].nextId \in 0 .. MaxId
            /\ snaps[L + 1].objs \in Table /\ snaps[L + 1].nextId \in 0 .. MaxId
        BY <2>1 DEF Snapshot
      <3>5. QED
        BY <1>1, <2>1, <3>1, <3>2, <3>3, <3>4, SquashKeepsLayer
    <2> HIDE DEF m
    <2>4. /\ stack' \in Seq(UndoState) /\ Len(stack') = L
          /\ \A n \in 1 .. L - 1 : stack'[n] = stack[n]
          /\ stack'[L] = m
      BY <1>1, <2>1, <2>2
    <2>5. TypeOK'
      <3>1. broken' \in BOOLEAN
        BY <1>1 DEF UndoInv, TypeOK
      <3>2. QED
        BY <1>1, <1>2, <2>1, <2>4, <3>1 DEF TypeOK
    <2>6. ASSUME NEW n \in 1 .. Len(stack')
          PROVE  /\ Good(snaps'[n].objs, snaps'[n].nextId)
                 /\ LayerOK(stack'[n], snaps'[n].objs, snaps'[n].nextId,
                            Above(n)', AboveNext(n)')
                 /\ stack'[n].revision = snaps'[n].revision
                 /\ stack'[n].revision = revision' - Len(stack') + n
      <3>0. /\ n \in 1 .. Len(stack) /\ n # Len(stack) /\ n \in 1 .. Len(stack) - 1
            /\ snaps'[n] = snaps[n]
            /\ revision' - Len(stack') + n = revision - Len(stack) + n
        <4>1. /\ n \in Int /\ n >= 1 /\ n <= L /\ Len(stack) \in Int
              /\ Len(stack') = L /\ revision \in Int /\ revision' = revision - 1
          BY <1>1, <2>1, <2>4
        <4>2. n \in 1 .. Len(stack) - 1
          BY <4>1
        <4>3. snaps'[n] = snaps[n]
          BY <1>2, <4>2
        <4>4. QED
          BY <4>1, <4>2, <4>3
      <3>1. CASE n = L
        <4>1. stack'[n] = m /\ Above(n)' = objs /\ AboveNext(n)' = nextId
          BY <1>1, <2>4, <3>1 DEF Above, AboveNext
        <4>2. QED
          BY <2>2, <2>3, <3>0, <3>1, <4>1 DEF UndoInv, Layers, RevisionsConsecutive
      <3>2. CASE n # L
        <4>1. /\ stack'[n] = stack[n]
              /\ Above(n)' = Above(n) /\ AboveNext(n)' = AboveNext(n)
          BY <1>1, <1>2, <2>1, <2>4, <3>0, <3>2 DEF Above, AboveNext
        <4>2. QED
          BY <3>0, <4>1 DEF UndoInv, Layers, RevisionsConsecutive
      <3>3. QED
        BY <3>1, <3>2
    <2>7. Good(objs', nextId')
      BY <1>1 DEF UndoInv
    <2>8. QED
      BY <1>1, <2>5, <2>6, <2>7 DEF UndoInv, Layers, RevisionsConsecutive
  <1>5. QED
    BY <1>1, <1>3, <1>4

LEMMA CommitStep == ASSUME UndoInv, NEW r \in Int, commit(r) PROVE UndoInv'
  <1>1. PICK k \in 1 .. Len(stack) :
            /\ stack' = SubSeq(stack, k + 1, Len(stack))
            /\ snaps' = SubSeq(snaps, k + 1, Len(snaps))
    BY DEF commit
  <1>2. /\ stack \in Seq(UndoState) /\ snaps \in Seq(Snapshot)
        /\ Len(stack) \in Nat /\ Len(snaps) = Len(stack)
        /\ objs \in Table /\ nextId \in 0 .. MaxId /\ revision \in Int
        /\ Good(objs, nextId) /\ ~broken
        /\ UNCHANGED <<objs, nextId, revision, broken>>
    BY DEF UndoInv, TypeOK, commit
  <1>3. /\ stack' \in Seq(UndoState) /\ snaps' \in Seq(Snapshot)
        /\ Len(stack') = Len(stack) - k /\ Len(snaps') = Len(stack')
        /\ \A n \in 1 .. Len(stack') : stack'[n] = stack[n + k] /\ snaps'[n] = snaps[n + k]
    BY <1>1, <1>2
  <1>4. TypeOK'
    <2>1. broken' \in BOOLEAN
      BY <1>2 DEF UndoInv, TypeOK
    <2>2. QED
      BY <1>2, <1>3, <2>1 DEF TypeOK
  <1>5. ASSUME NEW n \in 1 .. Len(stack')
        PROVE  /\ Good(snaps'[n].objs, snaps'[n].nextId)
               /\ LayerOK(stack'[n], snaps'[n].objs, snaps'[n].nextId,
                          Above(n)', AboveNext(n)')
               /\ stack'[n].revision = snaps'[n].revision
               /\ stack'[n].revision = revision' - Len(stack') + n
    <2>1. /\ n + k \in 1 .. Len(stack)
          /\ revision' - Len(stack') + n = revision - Len(stack) + (n + k)
          /\ stack'[n] = stack[n + k] /\ snaps'[n] = snaps[n + k]
      <3>1. /\ n \in Int /\ k \in Int /\ n >= 1 /\ k >= 1 /\ n <= Len(stack) - k
            /\ Len(stack') = Len(stack) - k /\ Len(stack) \in Int
            /\ revision \in Int /\ revision' = revision
        BY <1>2, <1>3
      <3>2. QED
        BY <1>3, <3>1
    <2>2. Above(n)' = Above(n + k) /\ AboveNext(n)' = AboveNext(n + k)
      <3>1. CASE n = Len(stack')
        BY <1>2, <1>3, <3>1 DEF Above, AboveNext
      <3>2. CASE n # Len(stack')
        <4>1. n + 1 \in 1 .. Len(stack') /\ n + k # Len(stack) /\ (n + 1) + k = (n + k) + 1
          BY <1>2, <1>3, <3>2
        <4>2. snaps'[n + 1] = snaps[(n + k) + 1]
          BY <1>3, <4>1
        <4>3. QED
          BY <3>2, <4>1, <4>2 DEF Above, AboveNext
      <3>3. QED
        BY <3>1, <3>2
    <2>3. QED
      BY <2>1, <2>2 DEF UndoInv, Layers, RevisionsConsecutive
  <1>6. QED
    BY <1>2, <1>4, <1>5 DEF UndoInv, Layers, RevisionsConsecutive

LEMMA SetRevisionStep == ASSUME UndoInv, NEW r \in Int, set_revision(r) PROVE UndoInv'
  <1>1. /\ UNCHANGED <<objs, nextId, stack, broken, snaps>>
        /\ revision' = r /\ stack = <<>>
    BY DEF set_revision, enabled
  <1>2. QED
    BY <1>1 DEF UndoInv, TypeOK, Layers, RevisionsConsecutive

LEMMA StepUndoInv ==
    ASSUME KeysMutable = FALSE, UndoInv, [Next]_vars PROVE UndoInv'
  <1>1. CASE Emplace
    BY <1>1, EmplaceStep
  <1>2. CASE \E id \in Id : Modify(id)
    BY <1>2, ModifyStep
  <1>3. CASE \E id \in Id : Remove(id)
    BY <1>3, RemoveStep
  <1>4. CASE start_undo_session
    BY <1>4, StartStep
  <1>5. CASE undo
    BY <1>5, UndoStep
  <1>6. CASE squash
    BY <1>6, SquashStep
  <1>7. CASE \E r \in 0 .. RevisionBound : commit(r)
    BY <1>7, CommitStep
  <1>8. CASE \E r \in 0 .. RevisionBound : set_revision(r)
    BY <1>8, SetRevisionStep
  <1>9. CASE UNCHANGED vars
    BY <1>9 DEF vars, UndoInv, TypeOK, Layers, RevisionsConsecutive, Above, AboveNext
  <1>10. QED
    BY <1>1, <1>2, <1>3, <1>4, <1>5, <1>6, <1>7, <1>8, <1>9 DEF Next

\* The inductive invariant holds in every reachable state of the index, for
\* every Key, Data, MaxId, DepthBound and RevisionBound, as long as no modifier
\* changes the unique key of an object (generic_index, chainbase.hpp:217-570).
THEOREM UndoInvariant == (KeysMutable = FALSE) => (Spec => []UndoInv)
  <1> SUFFICES ASSUME KeysMutable = FALSE PROVE Spec => []UndoInv
    OBVIOUS
  <1>1. Init => UndoInv
    BY InitUndoInv
  <1>2. UndoInv /\ [Next]_vars => UndoInv'
    BY StepUndoInv
  <1>3. QED
    BY <1>1, <1>2, PTL DEF Spec

LEMMA InvGivesExactness == UndoInv => UndoIsExact /\ UndoNeverFails
  <1> SUFFICES ASSUME UndoInv, NEW n \in 1 .. Len(stack)
               PROVE  /\ Restored(stack[n], Above(n)) = snaps[n].objs
                      /\ stack[n].oldNextId = snaps[n].nextId
                      /\ stack[n].revision = snaps[n].revision
                      /\ UndoFits(stack[n], Above(n))
    BY DEF UndoInv, UndoIsExact, UndoNeverFails
  <1>1. /\ stack[n] \in UndoState /\ snaps[n] \in Snapshot
        /\ snaps[n].objs \in Table /\ snaps[n].nextId \in 0 .. MaxId
    <2>1. stack \in Seq(UndoState) /\ snaps \in Seq(Snapshot) /\ Len(snaps) = Len(stack)
      BY DEF UndoInv, TypeOK
    <2>2. stack[n] \in UndoState /\ snaps[n] \in Snapshot
      BY <2>1
    <2>3. QED
      BY <2>2 DEF Snapshot
  <1>2. /\ Above(n) \in Table /\ AboveNext(n) \in 0 .. MaxId
        /\ Good(Above(n), AboveNext(n))
    <2>1. CASE n = Len(stack)
      BY <2>1 DEF UndoInv, TypeOK, Above, AboveNext
    <2>2. CASE n # Len(stack)
      <3>1. n + 1 \in 1 .. Len(stack) /\ n + 1 \in 1 .. Len(snaps)
        BY <2>2 DEF UndoInv, TypeOK
      <3>2. snaps[n + 1] \in Snapshot
        BY <3>1 DEF UndoInv, TypeOK
      <3>3. QED
        BY <2>2, <3>1, <3>2 DEF UndoInv, Layers, Above, AboveNext, Snapshot
    <2>3. QED
      BY <2>1, <2>2
  <1>3. /\ Good(snaps[n].objs, snaps[n].nextId)
        /\ LayerOK(stack[n], snaps[n].objs, snaps[n].nextId, Above(n), AboveNext(n))
        /\ stack[n].revision = snaps[n].revision
    BY DEF UndoInv, Layers
  <1>4. QED
    BY <1>1, <1>2, <1>3, UndoOfLayer DEF LayerOK

\* Every undo state on the stack gives back exactly the index its session
\* started from, so rewinding any number of blocks is exact.
THEOREM ExactUndo == (KeysMutable = FALSE) => (Spec => []UndoIsExact)
  <1>1. UndoInv => UndoIsExact
    BY InvGivesExactness
  <1>2. QED
    BY <1>1, UndoInvariant, PTL

\* No undo() throws, so no ~session() ends the process.
THEOREM SafeUndo == (KeysMutable = FALSE) => (Spec => []UndoNeverFails)
  <1>1. UndoInv => UndoNeverFails
    BY InvGivesExactness
  <1>2. QED
    BY <1>1, UndoInvariant, PTL

-----------------------------------------------------------------------------
LEMMA StepImplements ==
    ASSUME KeysMutable = FALSE, UndoInv, UndoInv', [Next]_vars
    PROVE  [Abs!Next]_(Abs!vars)
  <1> USE DEF Abs!Next, Abs!Id, Id
  <1>t. /\ objs \in Table /\ objs' \in Table /\ Len(snaps) = Len(stack)
        /\ stack \in Seq(UndoState) /\ snaps \in Seq(Snapshot) /\ Len(stack) \in Nat
    BY DEF UndoInv, TypeOK
  <1>e. enabled <=> snaps # <<>>
    BY <1>t DEF enabled
  <1>1. CASE Emplace
    <2>1. \E i \in Id : \A j \in Id \ {i} : objs'[j] = objs[j]
      BY <1>1, <1>t DEF Emplace, Table
    <2>2. QED
      BY <1>1, <1>t, <2>1 DEF Emplace, Abs!Change, Table
  <1>2. CASE \E id \in Id : Modify(id) \/ Remove(id)
    <2>1. \E i \in Id : \A j \in Id \ {i} : objs'[j] = objs[j]
      BY <1>2, <1>t DEF Modify, Remove, AfterModify, Table
    <2>2. QED
      BY <1>2, <1>t, <2>1 DEF Modify, Remove, Abs!Change, Table
  <1>3. CASE start_undo_session
    BY <1>3 DEF start_undo_session, Abs!StartSession, Abs!Copy
  <1>4. CASE undo
    BY <1>4, <1>e, UndoResult DEF Abs!Undo
  <1>5. CASE squash
    BY <1>5, <1>e, <1>t DEF squash, Abs!Squash
  <1>6. CASE \E r \in 0 .. RevisionBound : commit(r)
    BY <1>6, <1>t DEF commit, Abs!Commit
  <1>7. CASE \E r \in 0 .. RevisionBound : set_revision(r)
    BY <1>7, <1>e DEF set_revision, Abs!SetRevision
  <1>8. CASE UNCHANGED vars
    BY <1>8 DEF vars, Abs!vars
  <1>9. QED
    BY <1>1, <1>2, <1>3, <1>4, <1>5, <1>6, <1>7, <1>8 DEF Next

\* The index that keeps differences implements the stack of full copies: every
\* history of changes, sessions, undos, squashes and commits is one of
\* SnapshotStack (chainbase.hpp, the contract of session, undo and commit).
THEOREM Refinement == (KeysMutable = FALSE) => (Spec => Implements)
  <1> SUFFICES ASSUME KeysMutable = FALSE PROVE Spec => Abs!Spec
    BY DEF Implements
  <1>1. Init => Abs!Init
    BY DEF Init, Abs!Init, Empty, Id, Abs!Id
  <1>2. UndoInv /\ UndoInv' /\ [Next]_vars => [Abs!Next]_(Abs!vars)
    BY StepImplements
  <1>3. QED
    BY <1>1, <1>2, UndoInvariant, PTL DEF Spec, Abs!Spec

-----------------------------------------------------------------------------
(* Types, whatever the modifiers change. *)

\* What the hooks make of the current undo state is an undo state.
LEMMA HooksTyped ==
    ASSUME TypeOK, NEW id \in Id, enabled
    PROVE  /\ on_create(id) \in Seq(UndoState) /\ Len(on_create(id)) = Len(stack)
           /\ on_modify(id) \in Seq(UndoState) /\ Len(on_modify(id)) = Len(stack)
           /\ on_remove(id) \in Seq(UndoState) /\ Len(on_remove(id)) = Len(stack)
  <1>1. /\ stack \in Seq(UndoState) /\ Len(stack) \in DOMAIN stack /\ top \in UndoState
        /\ objs[id] \in Value \cup {None}
    BY DEF TypeOK, Table, enabled, top
  <1>2. ASSUME NEW state \in UndoState
        PROVE  Recorded(state) \in Seq(UndoState) /\ Len(Recorded(state)) = Len(stack)
    BY <1>1 DEF Recorded
  <1>3. /\ [top EXCEPT !.new = @ \cup {id}] \in UndoState
        /\ [top EXCEPT !.new = @ \ {id}] \in UndoState
        /\ [top EXCEPT !.old[id] = objs[id]] \in UndoState
        /\ [top EXCEPT !.removed[id] = top.old[id], !.old[id] = None] \in UndoState
        /\ [top EXCEPT !.removed[id] = objs[id]] \in UndoState
    BY <1>1 DEF UndoState, Table
  <1>4. QED
    BY <1>1, <1>2, <1>3 DEF on_create, on_modify, on_remove

LEMMA StepTypeOK == TypeOK /\ [Next]_vars => TypeOK'
  <1> SUFFICES ASSUME TypeOK, [Next]_vars PROVE TypeOK'
    OBVIOUS
  <1>1. /\ objs \in Table /\ nextId \in 0 .. MaxId /\ revision \in Int /\ broken \in BOOLEAN
        /\ stack \in Seq(UndoState) /\ snaps \in Seq(Snapshot) /\ Len(snaps) = Len(stack)
        /\ Len(stack) \in Nat /\ (enabled => Len(stack) > 0 /\ top \in UndoState)
    BY DEF TypeOK, enabled, top
  <1>2. CASE Emplace
    <2>1. nextId \in Id /\ nextId + 1 \in 0 .. MaxId
      BY <1>1, <1>2 DEF Emplace, Id
    <2>2. objs' \in Table
      BY <1>1, <1>2 DEF Emplace, Table
    <2>3. stack' \in Seq(UndoState) /\ Len(stack') = Len(stack)
      BY <1>1, <1>2, <2>1, HooksTyped DEF Emplace
    <2>4. QED
      BY <1>1, <1>2, <2>1, <2>2, <2>3 DEF Emplace, TypeOK
  <1>3. ASSUME NEW id \in Id, Modify(id) PROVE TypeOK'
    <2>1. objs' \in Table
      BY <1>1, <1>3 DEF Modify, AfterModify, Table
    <2>2. stack' \in Seq(UndoState) /\ Len(stack') = Len(stack)
      BY <1>1, <1>3, HooksTyped DEF Modify
    <2>3. QED
      BY <1>1, <1>3, <2>1, <2>2 DEF Modify, TypeOK
  <1>4. ASSUME NEW id \in Id, Remove(id) PROVE TypeOK'
    <2>1. objs' \in Table
      BY <1>1, <1>4 DEF Remove, Table
    <2>2. stack' \in Seq(UndoState) /\ Len(stack') = Len(stack)
      BY <1>1, <1>4, HooksTyped DEF Remove
    <2>3. QED
      BY <1>1, <1>4, <2>1, <2>2 DEF Remove, TypeOK
  <1>5. CASE start_undo_session
    <2> DEFINE state == [old |-> Empty, removed |-> Empty, new |-> {},
                         oldNextId |-> nextId, revision |-> revision + 1]
               copy == [objs |-> objs, nextId |-> nextId, revision |-> revision + 1]
    <2>1. Empty \in Table
      BY DEF Empty, Table
    <2>2. state \in UndoState /\ copy \in Snapshot
      BY <1>1, <2>1 DEF UndoState, Snapshot
    <2>3. stack' = Append(stack, state) /\ snaps' = Append(snaps, copy)
      BY <1>5 DEF start_undo_session
    <2> HIDE DEF state, copy
    <2>4. /\ stack' \in Seq(UndoState) /\ snaps' \in Seq(Snapshot)
          /\ Len(snaps') = Len(stack')
      BY <1>1, <2>2, <2>3
    <2>5. QED
      BY <1>1, <1>5, <2>4 DEF start_undo_session, TypeOK
  <1>6. CASE undo
    <2>1. CASE broken' = TRUE /\ UNCHANGED <<objs, nextId, stack, revision, snaps>>
      BY <1>1, <2>1 DEF TypeOK
    <2>2. CASE /\ objs' = Restored(top, objs) /\ nextId' = top.oldNextId
               /\ stack' = SubSeq(stack, 1, Len(stack) - 1) /\ revision' = revision - 1
               /\ snaps' = SubSeq(snaps, 1, Len(snaps) - 1) /\ UNCHANGED broken
      <3>1. enabled
        BY <1>6 DEF undo
      <3>2. objs' \in Table /\ nextId' \in 0 .. MaxId
        BY <1>1, <2>2, <3>1 DEF Restored, UndoState, Table
      <3>3. /\ stack' \in Seq(UndoState) /\ snaps' \in Seq(Snapshot)
            /\ Len(snaps') = Len(stack')
        BY <1>1, <2>2, <3>1
      <3>4. QED
        BY <1>1, <2>2, <3>2, <3>3 DEF TypeOK
    <2>3. QED
      BY <1>6, <2>1, <2>2 DEF undo
  <1>7. CASE squash
    <2>1. snaps' \in Seq(Snapshot) /\ Len(snaps') = Len(stack) - 1
      BY <1>1, <1>7 DEF squash
    <2>2. CASE Len(stack) = 1 /\ stack' = <<>> /\ UNCHANGED revision
      BY <1>1, <1>7, <2>1, <2>2 DEF squash, TypeOK
    <2>3. CASE /\ Len(stack) > 1 /\ revision' = revision - 1
               /\ stack' = Append(SubSeq(stack, 1, Len(stack) - 2),
                                  Merged(stack[Len(stack) - 1], top))
      <3>1. stack[Len(stack) - 1] \in UndoState /\ top \in UndoState
        BY <1>1, <2>3 DEF enabled
      <3>2. Merged(stack[Len(stack) - 1], top) \in UndoState
        BY <3>1, MergedTyped
      <3>3. /\ SubSeq(stack, 1, Len(stack) - 2) \in Seq(UndoState)
            /\ Len(SubSeq(stack, 1, Len(stack) - 2)) = Len(stack) - 2
        BY <1>1, <2>3
      <3>4. stack' \in Seq(UndoState) /\ Len(stack') = Len(stack) - 1
        BY <1>1, <2>3, <3>2, <3>3
      <3>5. QED
        BY <1>1, <1>7, <2>1, <2>3, <3>4 DEF squash, TypeOK
    <2>4. QED
      BY <1>7, <2>2, <2>3 DEF squash
  <1>8. ASSUME NEW r, commit(r) PROVE TypeOK'
    <2>1. PICK k \in 1 .. Len(stack) : /\ stack' = SubSeq(stack, k + 1, Len(stack))
                                       /\ snaps' = SubSeq(snaps, k + 1, Len(snaps))
      BY <1>8 DEF commit
    <2>2. /\ stack' \in Seq(UndoState) /\ snaps' \in Seq(Snapshot)
          /\ Len(snaps') = Len(stack')
      BY <1>1, <2>1
    <2>3. QED
      BY <1>1, <1>8, <2>2 DEF commit, TypeOK
  <1>9. ASSUME NEW r \in 0 .. RevisionBound, set_revision(r) PROVE TypeOK'
    BY <1>1, <1>9 DEF set_revision, TypeOK
  <1>10. CASE UNCHANGED vars
    BY <1>1, <1>10 DEF vars, TypeOK
  <1>11. QED
    BY <1>2, <1>3, <1>4, <1>5, <1>6, <1>7, <1>8, <1>9, <1>10 DEF Next

\* Table, undo states and snapshots keep their shape also when modifiers change keys and
\* undo() throws: there is one snapshot per open session.
THEOREM TypeCorrect == Spec => []TypeOK
  BY InitTypeOK, StepTypeOK, PTL DEF Spec
================================================================================
