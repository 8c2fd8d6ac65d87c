--------------------------- MODULE PendingTransactions ---------------------------
(****************************************************************************)
(* Transactions between their arrival and their block: the pending list and *)
(* the pending session of the chain database (libraries/chain/database.cpp, *)
(* db_with.hpp) and the production of a block from them                     *)
(* (libraries/plugins/siming/block_producer.cpp).                           *)
(*                                                                          *)
(* Everything here runs on the write thread.  The loops over transactions   *)
(* go one transaction per step.  What a transaction does is abstracted to   *)
(* which transactions it needs in the state and which it cannot follow;     *)
(* which blocks are popped and applied by one push is left open             *)
(* (ChainDatabase says which).                                              *)
(****************************************************************************)
EXTENDS Integers, Sequences, Functions

CONSTANTS
    Tx,             \* the transactions there are
    Needs,          \* Needs[t]: what must be in the state before t
    Conflicts,      \* Conflicts[t]: what must not be
    Expiration,     \* Expiration[t], in block intervals since genesis
    MaxAhead,       \* TAIYI_MAX_TIME_UNTIL_EXPIRATION, in block intervals
    MaxTime,        \* bound on the time of a block
    MaxBlocks,      \* bound on the length of the chain
    MaxBlockTxs,    \* bound on the transactions of a block of a peer
    MaxPending      \* bound on the transactions that wait

ASSUME TxAssumption ==
    /\ Needs \in [Tx -> SUBSET Tx]
    /\ Conflicts \in [Tx -> SUBSET Tx]
    /\ Expiration \in [Tx -> Nat]
ASSUME BoundsAssumption == {MaxAhead, MaxTime, MaxBlocks, MaxBlockTxs, MaxPending} \subseteq Nat

VARIABLES
    chain,      \* the blocks applied: [time, txs]
    session,    \* _pending_tx_session: whether it is open, what was applied in it
    pending,    \* _pending_tx
    popped,     \* _popped_tx
    todo,       \* the list a loop has still to go through
    postponing, \* ~apply_trxs: the time for re-applying is over
    block,      \* pending_block: [time, txs], time 0 when none is produced
    pc,         \* "idle", "produce", "push", "restore"
    owed        \* history variable: see OwedIsKept

vars == <<chain, session, pending, popped, todo, postponing, block, pc, owed>>

Closed == [open |-> FALSE, txs |-> <<>>]
Opened == [open |-> TRUE, txs |-> <<>>]
NoBlock == [time |-> 0, txs |-> <<>>]

Init ==
    /\ chain = <<>>
    /\ session = Closed
    /\ pending = <<>>
    /\ popped = <<>>
    /\ todo = <<>>
    /\ postponing = FALSE
    /\ block = NoBlock
    /\ pc = "idle"
    /\ owed = {}

-----------------------------------------------------------------------------
HeadTime(c) == IF c = <<>> THEN 0 ELSE c[Len(c)].time

Included(c) == UNION {Range(c[n].txs) : n \in DOMAIN c}

\* Mutant: the index is cleaned by the time of the next block.
IndexedLessOne(c) == {t \in Included(c) : HeadTime(c) + 1 < Expiration[t]}

\* transaction_index: clear_expired_transactions() removes what has expired by
\* the time of the block that was just applied.
Indexed(c) == {t \in Included(c) : HeadTime(c) <= Expiration[t]}

\* is_known_transaction() in the state that has txs on top of the chain c.
Known(c, txs) == Indexed(c) \cup Range(txs)

Timely(c, t) ==
    c # <<>> => /\ Expiration[t] <= HeadTime(c) + MaxAhead
                /\ HeadTime(c) < Expiration[t]

\* _apply_transaction(), of t after txs on top of c.
Applies(c, txs, t) ==
    /\ t \notin Known(c, txs)
    /\ Timely(c, t)
    /\ Needs[t] \subseteq Included(c) \cup Range(txs)
    /\ Conflicts[t] \cap (Included(c) \cup Range(txs)) = {}

AllApply(c, txs) == \A i \in DOMAIN txs : Applies(c, SubSeq(txs, 1, i - 1), txs[i])

\* A transaction that can be applied at any time until it expires.
Free(t) == Needs[t] = {} /\ Conflicts[t] = {} /\ Expiration[t] <= MaxAhead

Owed(ts, c) == {t \in ts : Free(t) /\ HeadTime(c) < Expiration[t]}

-----------------------------------------------------------------------------
\* _push_transaction(): the session is opened first, then t is tried in a
\* session of its own.
_push_transaction(t) ==
    IF Applies(chain, session.txs, t)
    THEN /\ session' = [open |-> TRUE, txs |-> Append(session.txs, t)]
         /\ pending' = Append(pending, t)
    ELSE /\ session' = [session EXCEPT !.open = TRUE]
         /\ UNCHANGED pending

\* push_transaction(), of a peer or of an API call.
push_transaction(t) ==
    /\ pc = "idle"
    /\ Len(pending) < MaxPending
    /\ _push_transaction(t)
    /\ owed' = IF Applies(chain, session.txs, t) THEN owed \cup Owed({t}, chain) ELSE owed
    /\ UNCHANGED <<chain, popped, todo, postponing, block, pc>>

\* Mutant: clear_pending() forgets the session.
ClearPendingKeepsSession ==
    /\ todo' = pending
    /\ pending' = <<>>
    /\ UNCHANGED session
    /\ pc' = "push"

\* push_block() moves the pending list away and drops the session.
without_pending_transactions ==
    /\ todo' = pending
    /\ pending' = <<>>
    /\ session' = Closed
    /\ pc' = "push"

\* push_block() of a block of a peer.
push_block ==
    /\ pc = "idle"
    /\ without_pending_transactions
    /\ UNCHANGED <<chain, popped, postponing, block, owed>>

\* pop_block(), in a fork switch.
pop_block ==
    /\ pc = "push"
    /\ block = NoBlock
    /\ chain # <<>>
    /\ LET last == chain[Len(chain)].txs IN
       /\ Len(last) + Len(popped) + Len(todo) <= MaxPending
       /\ popped' = last \o popped
    /\ session' = Closed
    /\ chain' = SubSeq(chain, 1, Len(chain) - 1)
    /\ UNCHANGED <<pending, todo, postponing, block, pc, owed>>

\* _apply_block() of a block with these transactions, all of which must apply.
_apply_block(time, txs) ==
    /\ pc = "push"
    /\ Len(chain) < MaxBlocks
    /\ time \in HeadTime(chain) + 1 .. MaxTime
    /\ AllApply(chain, txs)
    /\ chain' = Append(chain, [time |-> time, txs |-> txs])
    /\ owed' = Owed(owed \cup Range(txs), chain')
    /\ UNCHANGED <<session, pending, popped, todo, postponing>>

Lists == UNION {[1 .. n -> Tx] : n \in 0 .. MaxBlockTxs}

ApplyPeerBlock ==
    /\ block = NoBlock
    /\ \E time \in 1 .. MaxTime, txs \in Lists : _apply_block(time, txs)
    /\ UNCHANGED <<block, pc>>

\* Mutant: what was popped is forgotten.
EndPushWithoutPopped ==
    /\ pc = "push"
    /\ pc' = "restore"
    /\ popped' = <<>>
    /\ block' = NoBlock
    /\ UNCHANGED <<chain, session, pending, todo, postponing, owed>>

\* Mutant: the popped transactions are not cleared.
EndPushKeepsPopped ==
    /\ pc = "push"
    /\ pc' = "restore"
    /\ todo' = popped \o todo
    /\ block' = NoBlock
    /\ UNCHANGED <<chain, session, pending, popped, postponing, owed>>

\* _push_block() returns or throws: the restorer's destructor goes through the
\* popped transactions and then through those that were pending.
EndPush ==
    /\ pc = "push"
    /\ pc' = "restore"
    /\ todo' = popped \o todo
    /\ popped' = <<>>
    /\ block' = NoBlock
    /\ UNCHANGED <<chain, session, pending, postponing, owed>>

\* ~pending_transactions_restorer(), one transaction: when the 200 ms are over
\* it goes back to the list unlooked at.
Restore ==
    /\ pc = "restore"
    /\ todo # <<>>
    /\ todo' = Tail(todo)
    /\ LET t == Head(todo) IN
       \/ /\ ~postponing
          /\ UNCHANGED postponing
          /\ IF t \in Known(chain, session.txs) THEN UNCHANGED <<session, pending>>
             ELSE _push_transaction(t)
       \/ /\ postponing' = TRUE
          /\ pending' = Append(pending, t)
          /\ UNCHANGED session
    /\ UNCHANGED <<chain, popped, block, pc, owed>>

Restored ==
    /\ pc = "restore"
    /\ todo = <<>>
    /\ pc' = "idle"
    /\ postponing' = FALSE
    /\ UNCHANGED <<chain, session, pending, popped, todo, block, owed>>

-----------------------------------------------------------------------------
\* generate_block(): the session is built anew for the time of the block.
generate_block(when) ==
    /\ pc = "idle"
    /\ Len(chain) < MaxBlocks
    /\ when \in HeadTime(chain) + 1 .. MaxTime
    /\ session' = Opened
    /\ block' = [time |-> when, txs |-> <<>>]
    /\ todo' = pending
    /\ pc' = "produce"
    /\ UNCHANGED <<chain, pending, popped, postponing, owed>>

\* apply_pending_transactions(), one transaction: one that has expired, that
\* does not fit or that is refused stays in the list.
Produce ==
    /\ pc = "produce"
    /\ todo # <<>>
    /\ todo' = Tail(todo)
    /\ LET t == Head(todo) IN
       \/ /\ Expiration[t] >= block.time
          /\ Applies(chain, session.txs, t)
          /\ session' = [session EXCEPT !.txs = Append(@, t)]
          /\ block' = [block EXCEPT !.txs = Append(@, t)]
       \/ UNCHANGED <<session, block>>
    /\ UNCHANGED <<chain, pending, popped, postponing, pc, owed>>

\* The session is dropped and the block pushed; push_block() may refuse it
\* before the pending list is moved away (a checkpoint).
Produced ==
    /\ pc = "produce"
    /\ todo = <<>>
    /\ \/ /\ without_pending_transactions
          /\ UNCHANGED block
       \/ /\ session' = Closed
          /\ block' = NoBlock
          /\ pc' = "idle"
          /\ UNCHANGED <<pending, todo>>
    /\ UNCHANGED <<chain, popped, postponing, owed>>

\* The produced block is applied on the head it was built for.
ApplyOwnBlock ==
    /\ block # NoBlock
    /\ _apply_block(block.time, block.txs)
    /\ block' = NoBlock
    /\ UNCHANGED pc

Next ==
    \/ \E t \in Tx : push_transaction(t)
    \/ push_block
    \/ pop_block
    \/ ApplyPeerBlock
    \/ EndPush
    \/ Restore
    \/ Restored
    \/ \E when \in 1 .. MaxTime : generate_block(when)
    \/ Produce
    \/ Produced
    \/ ApplyOwnBlock

Spec == Init /\ [][Next]_vars

-----------------------------------------------------------------------------
Block == [time : Nat, txs : Seq(Tx)]

TypeOK ==
    /\ chain \in Seq(Block)
    /\ session \in [open : BOOLEAN, txs : Seq(Tx)]
    /\ ~session.open => session.txs = <<>>
    /\ {pending, popped, todo} \subseteq Seq(Tx)
    /\ postponing \in BOOLEAN
    /\ block \in Block
    /\ pc \in {"idle", "produce", "push", "restore"}
    /\ pc = "idle" => popped = <<>> /\ todo = <<>> /\ ~postponing /\ block = NoBlock
    /\ pc = "push" => pending = <<>> /\ ~session.open
    /\ owed \subseteq Tx

\* No transaction is applied twice on one chain and the session on top of it,
\* although the index forgets it when it has expired (_apply_transaction
\* "Duplicate transaction check", clear_expired_transactions).
NoTwice ==
    /\ \A m, n \in DOMAIN chain :
         m # n => Range(chain[m].txs) \cap Range(chain[n].txs) = {}
    /\ \A n \in DOMAIN chain : Range(chain[n].txs) \cap Range(session.txs) = {}
    /\ \A s \in {session.txs} \cup {chain[n].txs : n \in DOMAIN chain} :
         \A i, j \in DOMAIN s : s[i] = s[j] => i = j

\* What the node shows between two requests is the head with some of the
\* pending transactions applied in their order: every one of them applies where
\* it stands (block_producer.cpp:50-51 "_pending_tx_session is the result of
\* applying _pending_tx", less those that were postponed).
SessionIsPending ==
    pc = "idle" =>
        /\ AllApply(chain, session.txs)
        /\ Range(session.txs) \subseteq Range(pending)
        /\ \A i, j \in DOMAIN session.txs :
             i < j => \E m, n \in DOMAIN pending :
                          m < n /\ pending[m] = session.txs[i] /\ pending[n] = session.txs[j]

\* A transaction that was accepted, or was in a block that this node applied,
\* and that nothing can have made invalid, is in the chain or waits: a fork
\* switch, a block that throws, the time limit of the restorer or a block that
\* was produced in vain lose none (pop_block "save the head block so we can
\* recover its transactions").
OwedIsKept ==
    pc = "idle" => owed \subseteq Included(chain) \cup Range(pending)
================================================================================
