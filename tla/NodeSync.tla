----------------------------- MODULE NodeSync -----------------------------
(***************************************************************************)
(* How the network node fetches the blocks it lacks from its peers         *)
(* (libraries/net/node.cpp): lists of block ids asked of every peer, blocks *)
(* requested from one peer each, kept until they are next on some peer's   *)
(* list, handed to the chain in tasks of their own.                        *)
(*                                                                         *)
(* Everything runs in the fibers of one thread, and the calls of the chain *)
(* block that thread: a handler, one round of a loop and a task are atomic *)
(* and what may happen between any two of them are the others. The fields  *)
(* of peer_connection and node_impl are those of one record, node, so that *)
(* a handler is written as the composition of the calls it makes.          *)
(***************************************************************************)
EXTENDS Integers, FiniteSetsExt, SequencesExt

CONSTANTS
    Blocks, Peers,
    None,         \* no block: item_hash_t()
    Parent,       \* the block a block builds on, None for block 1
    Worlds,       \* the worlds to consider: records
                  \*   first, last : the last block of each peer in the beginning and
                  \*     in the end; own : the one this node starts with, or None
                  \*   refused : blocks the chain refuses
                  \*   losses : bound on connections that break or time out
    IdsPerReply,  \* limit of get_block_ids()
    MinPrefetch,  \* TAIYI_NET_MIN_BLOCK_IDS_TO_PREFETCH
    MaxPerPeer,   \* maximum_blocks_per_peer_during_syncing
    MaxCalls,     \* maximum_number_of_blocks_to_handle_at_one_time
    MaxWaiting    \* maximum_number_of_sync_blocks_to_prefetch

ASSUME NodeSyncAssumption ==
    /\ None \notin Blocks /\ IsFiniteSet(Peers)
    /\ Parent \in [Blocks -> Blocks \cup {None}]
    /\ Worlds \subseteq
         [first : [Peers -> Blocks \cup {None}], last : [Peers -> Blocks \cup {None}],
          own : Blocks \cup {None}, refused : SUBSET Blocks, losses : Nat]
    /\ {IdsPerReply, MaxPerPeer, MaxCalls, MaxWaiting} \subseteq Nat \ {0}
    /\ IdsPerReply > 1 /\ MinPrefetch \in Nat

VARIABLES
    world,     \* the chosen world
    node,      \* the fields of node_impl, of its peers and what it knows of the chain
    tip,       \* the last block of each peer
    losses     \* connections that broke or timed out so far

vars == <<world, node, tip, losses>>

---------------------------------------------------------------------------
\* The blocks up to and with b, in order
Path[b \in Blocks \cup {None}] ==
    IF b = None THEN <<>> ELSE Append(Path[Parent[b]], b)

\* Every block has ancestors up to a block 1, and a peer that gets blocks keeps
\* those it has.
ASSUME ChainsAssumption ==
    /\ \A S \in SUBSET Blocks : S # {} => \E b \in S : Parent[b] \notin S
    /\ \A w \in Worlds, p \in Peers : w.first[p] \in ToSet(Path[w.last[p]]) \cup {None}

\* All chains begin with the same block 1. (A chain that shares no block with a
\* summary is not told from one that has nothing new.)
ASSUME OneFirstBlock ==
    \A a, b \in Blocks : Parent[a] = None /\ Parent[b] = None => a = b

Number(b) == Len(Path[b])

\* The blocks a peer has
ChainOf(p) == ToSet(Path[tip[p]])

ActivePeers(n) == {p \in Peers : n.peer[p].conn = "active"}

\* peer_connection::busy()
Busy(q) == q.requested # {} \/ q.asked # {} \/ q.fetched # {}

---------------------------------------------------------------------------
(* Calls the handlers make *)

\* The block numbers of a summary that ends at high: half of the rest each time
Steps(high) ==
    LET from[k \in 1 .. high + 1] ==
            IF k > high THEN {} ELSE {k} \cup from[k + (high - k + 2) \div 2]
    IN  from[1]

\* create_blockchain_synopsis_for_peer(): our chain up to the last block the
\* peer is known to share, then the blocks of its list. Nothing is irreversible.
Synopsis(head, q) ==
    LET path  == Path[IF q.seen = None THEN head ELSE q.seen]
        first == Number(q.toGet[1])
        ours  == {k \in Steps(Len(path) + Len(q.toGet)) : k <= Len(path)}
        its   == {k \in Steps(first + Len(q.toGet) - 1) : k >= first}
    IN  {path[k] : k \in ours}
          \cup IF q.toGet = <<>> THEN {} ELSE {q.toGet[k - first + 1] : k \in its}

\* fetch_next_batch_of_item_ids_from_peer(), the peer's fields after it
AskedIds(head, q) ==
    LET synopsis == Synopsis(head, q)
    IN  [q EXCEPT !.twice = @ \/ q.asked # {},
                  !.asked = {synopsis},
                  !.out = Append(@, [kind |-> "ids", synopsis |-> synopsis])]

\* Mutant: nothing is asked yet
SynchronizingLater(head, q) == [q EXCEPT !.toGet = <<>>, !.unfetched = 0, !.weNeed = TRUE]

\* start_synchronizing_with_peer()
Synchronizing(head, q) ==
    AskedIds(head, [q EXCEPT !.toGet = <<>>, !.unfetched = 0, !.weNeed = TRUE, !.seen = None])

\* Some peers of the node changed
WithPeers(n, S, F(_)) ==
    [n EXCEPT !.peer = [p \in Peers |-> IF p \in S THEN F(@[p]) ELSE @[p]]]

FetchNextBatch(n, p)     == WithPeers(n, {p}, LAMBDA q : AskedIds(n.head, q))
StartSynchronizing(n, p) == WithPeers(n, {p}, LAMBDA q : Synchronizing(n.head, q))

\* disconnect_from_peer()
Disconnect(n, S) ==
    WithPeers(n, S \cap ActivePeers(n), LAMBDA q : [q EXCEPT !.conn = "closing"])

\* get_block_ids(): what the owner of a chain answers to a summary
Reply(chain, synopsis) ==
    LET known == synopsis \cap ToSet(chain)
        from  == IF synopsis = {} THEN 1 ELSE Max({Number(b) : b \in known})
        to    == Min({Len(chain), from + IdsPerReply - 1})
    IN  IF synopsis # {} /\ known = {} THEN [ids |-> <<>>, left |-> 0]
        ELSE [ids |-> SubSeq(chain, from, to), left |-> Len(chain) - to]

\* Mutant: the last block both have is taken for one we lack
InSyncIfEmpty(reply, synopsis) == reply.ids = <<>>

\* and what it concludes about the one who asked
InSync(reply, synopsis) ==
    reply.ids = <<>> \/ (Len(reply.ids) = 1 /\ reply.ids[1] \in synopsis)

\* push_block(): the block is linked and applied, and becomes the head if it
\* is higher. A known block changes nothing.
Accepts(n, b) ==
    b \in n.have \/ (b \notin world.refused /\ Parent[b] \in n.have \cup {None})

Accepted(n, b) ==
    [n EXCEPT !.have = @ \cup {b},
              !.recent = @ \cup {b},
              !.head = IF b \notin n.have /\ Number(b) > Number(@) THEN b ELSE @]

---------------------------------------------------------------------------
NoConnection ==
    [conn |-> "none", toGet |-> <<>>, processing |-> {}, unfetched |-> 0,
     theyNeed |-> FALSE, weNeed |-> FALSE, asked |-> {}, requested |-> {},
     seen |-> None, out |-> <<>>,
     offered |-> {},    \* inventory_peer_advertised_to_us
     fetched |-> {},    \* items_requested_from_peer
     inSync |-> FALSE,  \* the peer thinks that we need no blocks from it
     twice |-> FALSE]   \* history: its ids were asked for before it answered

Init ==
    /\ world \in Worlds
    /\ node = [peer |-> [p \in Peers |-> NoConnection],
               active |-> {},       \* _active_sync_requests
               fresh |-> <<>>,      \* _new_received_sync_items
               received |-> <<>>,   \* _received_sync_items
               calls |-> <<>>,      \* _handle_message_calls_in_progress
               backlog |-> FALSE,   \* process_backlog_of_sync_blocks() is scheduled
               fetch |-> FALSE,     \* _sync_items_to_fetch_updated
               suspend |-> FALSE,   \* _suspend_fetching_sync_blocks
               wanted |-> {},       \* _items_to_fetch
               refetch |-> FALSE,   \* _items_to_fetch_updated
               recent |-> {},       \* _most_recent_blocks_accepted
               have |-> ToSet(Path[world.own]), head |-> world.own]
    /\ tip = world.first /\ losses = 0

\* new_peer_just_added()
Connect(p) ==
    /\ node.peer[p].conn = "none"
    /\ node' = StartSynchronizing(
                  [node EXCEPT !.peer[p] = [NoConnection EXCEPT
                              !.conn = "active", !.theyNeed = TRUE]], p)
    /\ UNCHANGED <<world, tip, losses>>

\* Mutant: what a peer that goes away was asked for is not asked of another
ClosedKeepsRequests(n, p) ==
    [n EXCEPT !.fetch = TRUE, !.refetch = TRUE, !.peer[p] = NoConnection]

\* on_connection_closed()
Closed(n, p) ==
    LET q == n.peer[p]
        others == {b \in q.fetched : \E o \in ActivePeers(n) \ {p} : b \in n.peer[o].offered}
    IN  [n EXCEPT !.active = @ \ q.requested,
                  !.fetch = @ \/ q.requested # {},
                  !.wanted = @ \cup others,
                  !.refetch = @ \/ q.fetched # {},
                  !.peer[p] = NoConnection]

\* A connection this node gave up ends
Close(p) ==
    /\ node.peer[p].conn = "closing"
    /\ node' = Closed(node, p)
    /\ UNCHANGED <<world, tip, losses>>

\* A connection breaks; a new one can be made
Lose(p) ==
    /\ node.peer[p].conn = "active"
    /\ losses < world.losses
    /\ node' = Closed(node, p)
    /\ losses' = losses + 1
    /\ UNCHANGED <<world, tip>>

\* terminate_inactive_connections_loop() ends the connection of a peer that lets
\* requests wait for too long,
TimeOut(p) ==
    /\ node.peer[p].conn = "active" /\ Busy(node.peer[p])
    /\ losses < world.losses
    /\ node' = Disconnect(node, {p})
    /\ losses' = losses + 1
    /\ UNCHANGED <<world, tip>>

\* and of one that is asked nothing although we think it has blocks for us
EndStalled(p) ==
    LET q == node.peer[p]
    IN  /\ q.conn = "active" /\ q.weNeed /\ q.asked = {} /\ q.toGet = <<>>
        /\ node' = Disconnect(node, {p})
        /\ UNCHANGED <<world, tip, losses>>

\* fetch_sync_items_loop(), one round: the idle peers in some order, each
\* asked for the first blocks of its list that nobody else was asked for
Schedule(n, items, b) ==
    IF Len(items) < MaxPerPeer
       /\ b \notin n.active \cup ToSet(n.received) \cup ToSet(n.fresh) \cup ToSet(items)
    THEN Append(items, b) ELSE items

RequestSyncItems(n, p) ==
    LET q     == n.peer[p]
        items == FoldLeft(LAMBDA s, b : Schedule(n, s, b), <<>>, q.toGet)
    IN  IF ~q.weNeed \/ Busy(q) THEN n
        ELSE [n EXCEPT !.active = @ \cup ToSet(items),
                       !.peer[p].requested = ToSet(items),
                       !.peer[p].out = @ \o [i \in DOMAIN items |->
                                               [kind |-> "block", block |-> items[i]]]]

FetchSyncItems ==
    /\ node.fetch
    /\ \E order \in SetToSeqs(ActivePeers(node)) :
         LET n == [node EXCEPT !.fetch = FALSE]
         IN  node' = IF n.suspend THEN n
                     ELSE FoldLeft(RequestSyncItems, n, order)
    /\ UNCHANGED <<world, tip, losses>>

\* on_blockchain_item_ids_inventory_message()
UpToDate(n, p, reply) ==
    LET q == n.peer[p]
    IN  /\ reply.left = 0
        /\ reply.ids = <<>> \/ (Len(reply.ids) = 1 /\ reply.ids[1] \in n.have)
        /\ q.toGet = <<>> /\ q.unfetched = 0

\* The list of the peer with the ids it sent
Listed(n, p, ids) ==
    LET q    == n.peer[p]
        \* how many of the first ids the chain has
        seen == Max({i \in 0 .. Len(ids) : \A j \in 1 .. i : ids[j] \in n.have})
        firstOfOther == \E o \in ActivePeers(n) \ {p} :
                          n.peer[o].toGet # <<>> /\ n.peer[o].toGet[1] = ids[1]
        common == {i \in DOMAIN q.toGet : q.toGet[i] = ids[1]}
    IN  IF ids = <<>> THEN n
        ELSE IF q.toGet = <<>>
        THEN IF firstOfOther \/ seen = 0 THEN [n EXCEPT !.peer[p].toGet = ids]
             ELSE [n EXCEPT !.peer[p].toGet = SubSeq(ids, seen + 1, Len(ids)),
                            !.peer[p].seen = ids[seen]]
        ELSE IF common = {}
        THEN [n EXCEPT !.peer[p].toGet = Tail(ids), !.peer[p].seen = ids[1]]
        ELSE [n EXCEPT !.peer[p].toGet = SubSeq(@, 1, Max(common) - 1) \o ids]

OnIds(n, p, reply) ==
    LET q      == n.peer[p]
        asked  == CHOOSE s \in q.asked : TRUE
        valid  == reply.ids # <<>> =>
                    IF asked = {} THEN Number(reply.ids[1]) = 1 ELSE reply.ids[1] \in asked
        taken  == [n EXCEPT !.peer[p].asked = {}]
        listed == [Listed(taken, p, reply.ids) EXCEPT !.peer[p].unfetched = reply.left]
        enough == IF reply.left # 0 THEN Len(listed.peer[p].toGet) > MinPrefetch
                  ELSE listed.peer[p].toGet # <<>>
    IN  IF q.asked = {} THEN n
        ELSE IF ~valid THEN Disconnect(n, {p})
        ELSE IF UpToDate(taken, p, reply) THEN [taken EXCEPT !.peer[p].weNeed = FALSE]
        ELSE IF enough THEN [listed EXCEPT !.fetch = TRUE]
        ELSE FetchNextBatch(listed, p)

ReceiveIds(p) ==
    LET q == node.peer[p]
    IN  /\ q.out # <<>> /\ Head(q.out).kind = "ids"
        /\ \E reply \in {Reply(Path[tip[p]], Head(q.out).synopsis)} :
           \E n \in {[node EXCEPT !.peer[p].out = Tail(@),
                                  !.peer[p].inSync = InSync(reply, Head(q.out).synopsis)]} :
             node' = OnIds(n, p, reply)
        /\ UNCHANGED <<world, tip, losses>>

\* process_block_message() for a block asked for while synchronizing, with
\* process_block_during_sync()
OnSyncBlock(n, p, b) ==
    LET m == [n EXCEPT !.peer[p].requested = @ \ {b},
                       !.active = @ \ {b},
                       !.fresh = <<b>> \o @,
                       !.backlog = TRUE]
        q == m.peer[p]
    IN  IF Busy(q) THEN m
        ELSE IF q.unfetched > 0 /\ Len(q.toGet) < MinPrefetch THEN FetchNextBatch(m, p)
        ELSE [m EXCEPT !.fetch = TRUE]

ReceiveBlock(p) ==
    LET q == node.peer[p]
    IN  /\ q.out # <<>> /\ Head(q.out).kind = "block"
        /\ node' = OnSyncBlock([node EXCEPT !.peer[p].out = Tail(@)], p, Head(q.out).block)
        /\ UNCHANGED <<world, tip, losses>>

\* A block of the peer's list is processed; after the last one it is asked
\* whether there are more
Processed(head, q, b) ==
    LET done == [q EXCEPT !.processing = @ \ {b}]
    IN  IF done.toGet = <<>> /\ done.unfetched = 0 /\ done.processing = {}
        THEN AskedIds(head, done) ELSE done

Having(n, b) == {p \in ActivePeers(n) : b \in n.peer[p].processing}

\* Mutant: any block of a list is handed on
OfferingAnywhere(n, b) == {p \in ActivePeers(n) : b \in ToSet(n.peer[p].toGet)}

\* process_backlog_of_sync_blocks(): a received block that is first on some
\* list is taken off the lists and handed to the chain, unless it was accepted
\* in the meantime: then it stays among those received, treated as accepted
Offering(n, b) == {p \in ActivePeers(n) : n.peer[p].toGet # <<>> /\ n.peer[p].toGet[1] = b}

HandOn(n, i) ==
    LET b      == n.received[i]
        popped == WithPeers(n, Offering(n, b), LAMBDA q :
                      [q EXCEPT !.toGet = Tail(@), !.processing = @ \cup {b}])
    IN  IF b \in n.recent
        THEN WithPeers(popped, Having(popped, b), LAMBDA q : Processed(n.head, q, b))
        ELSE [popped EXCEPT !.received = RemoveAt(@, i), !.calls = Append(@, b)]

\* Mutant: blocks are handed on without a limit
BacklogTurnUnlimited(turn) ==
    LET n     == [turn.node EXCEPT !.received = Reverse(turn.node.fresh) \o @, !.fresh = <<>>]
        first == {i \in DOMAIN n.received : Offering(n, n.received[i]) # {}}
    IN  {[node |-> IF first = {} THEN n ELSE HandOn(n, Min(first)), more |-> TRUE]}

\* One turn of its loop, which goes on as long as blocks are handed on. (Sets
\* of one element, because TLC evaluates what a bound variable stands for once.)
BacklogTurn(turn) ==
    LET n       == [turn.node EXCEPT !.received = Reverse(turn.node.fresh) \o @, !.fresh = <<>>]
        first   == {i \in DOMAIN n.received : Offering(n, n.received[i]) # {}}
        full(m) == Len(m.calls) >= MaxCalls
        end(m)  == [m EXCEPT !.suspend = @ \/ (full(m) /\ Len(m.received) >= MaxWaiting)]
    IN  IF ~turn.more THEN {turn}
        ELSE IF first = {} THEN {[node |-> end(n), more |-> FALSE]}
        ELSE {[node |-> end(m), more |-> m.calls # n.calls /\ ~full(m)]
                : m \in {HandOn(n, Min(first))}}

ProcessBacklog(n) ==
    LET turns == 1 .. Len(n.received) + Len(n.fresh) + 1
        start == [node |-> [n EXCEPT !.suspend = FALSE], more |-> TRUE]
        last  == FoldSet(LAMBDA k, S : UNION {BacklogTurn(turn) : turn \in S}, {start}, turns)
    IN  IF Len(n.calls) >= MaxCalls THEN {n}
        ELSE {[turn.node EXCEPT !.fetch = @ \/ ~turn.node.suspend] : turn \in last}

RunBacklog ==
    /\ node.backlog
    /\ \E n \in {[node EXCEPT !.backlog = FALSE]} : node' \in ProcessBacklog(n)
    /\ UNCHANGED <<world, tip, losses>>

\* send_sync_block_to_node_delegate() after the chain took the block. Peers in
\* normal operation on both sides are asked what they have.
OnAccepted(n, b) ==
    LET idle == {p \in ActivePeers(n) :
                   LET q == n.peer[p] IN
                   q.toGet = <<>> /\ q.processing = {} /\ ~q.theyNeed /\ ~q.weNeed}
    IN  WithPeers(WithPeers(n, Having(n, b),
                            LAMBDA q : Processed(n.head, [q EXCEPT !.seen = b], b)),
                  idle, LAMBDA q : Synchronizing(n.head, q))

\* Mutant: every peer that had blocks handed on is blamed
OnRefusedAll(n, b) == Disconnect(n, ActivePeers(n))

\* and after it refused the block
OnRefused(n, b) == Disconnect(n, Having(n, b))

\* The tasks run in the order they were started in
SendBlockToDelegate ==
    LET b == Head(node.calls)
        n == [node EXCEPT !.calls = Tail(@), !.backlog = TRUE]
    IN  /\ node.calls # <<>>
        /\ \E m \in {IF Accepts(n, b) THEN Accepted(n, b) ELSE n} :
             node' = IF Accepts(n, b) THEN OnAccepted(m, b) ELSE OnRefused(m, b)
        /\ UNCHANGED <<world, tip, losses>>

\* A peer gets a block and advertises it, if it thinks that we are in sync:
\* on_item_ids_inventory_message(). A block we have may have been advertised to
\* the others by ourselves; then it is ignored.
Grow(p) ==
    LET b == CHOOSE b \in ToSet(Path[world.last[p]]) : Parent[b] = tip[p]
        offer  == [node EXCEPT !.peer[p].offered = @ \cup {b}]
        asked  == \E o \in ActivePeers(node) : b \in node.peer[o].fetched
        wanted == [offer EXCEPT !.wanted = @ \cup {b},
                                !.refetch = @ \/ b \notin node.wanted]
    IN  /\ tip[p] # world.last[p]
        /\ tip' = [tip EXCEPT ![p] = b]
        /\ IF node.peer[p].conn = "active" /\ node.peer[p].inSync
           THEN \/ node' = IF asked THEN offer ELSE wanted
                \/ b \in node.have /\ UNCHANGED node
           ELSE UNCHANGED node
        /\ UNCHANGED <<world, losses>>

\* A peer is asked for a block it offered
AskedFor(q, b) ==
    [q EXCEPT !.fetched = {b}, !.out = Append(@, [kind |-> "new", block |-> b])]

\* fetch_items_loop(), one round: every wanted block is asked of an idle peer
\* that offered it, one of each peer, as far as there are such peers
FetchItems ==
    /\ node.refetch
    /\ \E ask \in SUBSET {bp \in node.wanted \X ActivePeers(node) :
                           ~Busy(node.peer[bp[2]]) /\ bp[1] \in node.peer[bp[2]].offered} :
         LET of(p) == {bp[1] : bp \in {x \in ask : x[2] = p}}
             asked == {bp[1] : bp \in ask}
             idle(p) == of(p) = {} /\ ~Busy(node.peer[p])
         IN  /\ \A x, y \in ask : (x[1] = y[1]) <=> (x[2] = y[2])
             /\ \A p \in ActivePeers(node) :
                  idle(p) => node.peer[p].offered \cap (node.wanted \ asked) = {}
             /\ node' = [node EXCEPT
                  !.refetch = FALSE,
                  !.wanted = @ \ asked,
                  !.peer = [p \in Peers |->
                      IF of(p) = {} THEN @[p]
                      ELSE AskedFor(@[p], CHOOSE b \in of(p) : TRUE)]]
    /\ UNCHANGED <<world, tip, losses>>

\* process_block_message() for such a block, process_block_during_normal_operation()
OnNewBlock(n, p, b) ==
    LET m        == [n EXCEPT !.peer[p].fetched = {}]
        offering == {o \in ActivePeers(m) : b \in m.peer[o].offered}
        handled  ==
            IF b \in m.recent \/ Accepts(m, b)
            THEN WithPeers(IF b \in m.recent THEN m ELSE Accepted(m, b), offering,
                           LAMBDA q : [q EXCEPT !.seen = b])
            ELSE IF Parent[b] \in m.have \cup {None}
            THEN Disconnect(m, {p} \cup Offering(m, b))
            ELSE StartSynchronizing(m, p)
    IN  [handled EXCEPT !.refetch = @ \/ ~Busy(handled.peer[p])]

ReceiveNewBlock(p) ==
    LET q == node.peer[p]
    IN  /\ q.out # <<>> /\ Head(q.out).kind = "new"
        /\ node' = OnNewBlock([node EXCEPT !.peer[p].out = Tail(@)], p, Head(q.out).block)
        /\ UNCHANGED <<world, tip, losses>>

\* on_fetch_blockchain_item_ids_message(): peer p asks with a summary of its
\* chain which blocks it lacks
ServeIds(p) ==
    LET synopsis == {Path[tip[p]][k] : k \in Steps(Number(tip[p]))}
        reply    == Reply(Path[node.head], synopsis)
        n        == [node EXCEPT !.peer[p].theyNeed = ~InSync(reply, synopsis)]
    IN  /\ node.peer[p].conn = "active"
        /\ node' = IF ~n.peer[p].weNeed /\ tip[p] \notin n.have \cup {None}
                   THEN StartSynchronizing(n, p) ELSE n
        /\ UNCHANGED <<world, tip, losses>>

\* on_fetch_items_message(): peer p fetches a block of our chain that it lacks
ServeBlock(p, b) ==
    /\ node.peer[p].conn = "active"
    /\ b \in ToSet(Path[node.head]) \ ChainOf(p)
    /\ node' = [node EXCEPT !.peer[p].seen = b]
    /\ UNCHANGED <<world, tip, losses>>

Next ==
    \/ \E p \in Peers :
         \/ Connect(p) \/ Close(p) \/ Lose(p) \/ TimeOut(p) \/ EndStalled(p)
         \/ ReceiveIds(p) \/ ReceiveBlock(p) \/ ReceiveNewBlock(p)
         \/ Grow(p) \/ ServeIds(p) \/ \E b \in Blocks : ServeBlock(p, b)
    \/ FetchSyncItems \/ RunBacklog \/ SendBlockToDelegate \/ FetchItems

\* The loops and tasks of the thread get their turn, connections that are
\* given up end, lost ones are made again, and peers answer. Nothing makes
\* peers get blocks or ask for them, or connections break.
Fairness ==
    /\ WF_vars(FetchSyncItems) /\ WF_vars(RunBacklog) /\ WF_vars(SendBlockToDelegate)
    /\ WF_vars(FetchItems)
    /\ \A p \in Peers :
         /\ WF_vars(Connect(p)) /\ WF_vars(Close(p)) /\ WF_vars(EndStalled(p))
         /\ WF_vars(ReceiveIds(p)) /\ WF_vars(ReceiveBlock(p)) /\ WF_vars(ReceiveNewBlock(p))

Spec == Init /\ [][Next]_vars /\ Fairness

---------------------------------------------------------------------------
(* Properties *)

\* The fields have the values the code gives them, and a peer that is not
\* connected keeps none.
TypeOK ==
    /\ node.active \subseteq Blocks /\ node.recent \subseteq node.have
    /\ {node.fresh, node.received, node.calls} \subseteq Seq(Blocks)
    /\ Len(node.calls) <= MaxCalls
    /\ {node.backlog, node.fetch, node.suspend} \subseteq BOOLEAN
    /\ node.head \in node.have \cup {None}
    /\ world \in Worlds /\ tip \in [Peers -> Blocks \cup {None}] /\ losses \in 0 .. world.losses
    /\ \A p \in Peers :
         LET q == node.peer[p] IN
         /\ q.conn \in {"none", "active", "closing"}
         /\ q.conn = "none" => q = NoConnection
         /\ q.toGet \in Seq(Blocks) /\ q.processing \subseteq Blocks
         /\ q.requested \subseteq ChainOf(p)
         /\ Cardinality(q.requested) <= MaxPerPeer

\* A block is being fetched exactly when one connected peer was asked for it
\* and has not answered: otherwise nobody would ask another peer for it, or
\* it would be fetched twice (_active_sync_requests of node.cpp and
\* sync_items_requested_from_peer of its peers).
RequestsAreOwned ==
    /\ node.active = UNION {node.peer[p].requested : p \in Peers}
    /\ \A p, q \in Peers :
         p # q => node.peer[p].requested \cap node.peer[q].requested = {}

\* What the chain will never take
Doomed == {b \in Blocks : ToSet(Path[b]) \cap world.refused # {}}

\* Blocks that arrive in any order from several peers are handed to the chain
\* in order: before a block, the one it builds on, unless the chain refused that
\* or a block before it.
HandedInOrder ==
    \A i \in DOMAIN node.calls :
        LET before == Parent[node.calls[i]]
        IN  \/ before \in node.have \cup {None} \cup Doomed
            \/ \E j \in 1 .. i - 1 : node.calls[j] = before

\* Nothing is going on with a peer, and nothing is expected from it.
Idle(q) ==
    /\ ~q.weNeed /\ q.toGet = <<>> /\ q.unfetched = 0
    /\ q.processing = {} /\ q.asked = {}

\* A peer with which nothing is going on has no block that the chain lacks and
\* that it did not offer, and will tell of new ones; only one whose ids were
\* asked for twice at a time, or by a node without a block, may think that we
\* still need its blocks and be silent.
InSyncHasAll ==
    \A p \in ActivePeers(node) :
        LET q == node.peer[p]
        IN  Idle(q) =>
              IF q.inSync THEN tip[p] \in node.have \cup q.offered \cup {None}
              ELSE q.twice \/ world.own = None

\* The node disconnects a peer because of what it sent
Dropped(p) ==
    /\ node.peer[p].conn = "active" /\ node'.peer[p].conn = "closing"
    /\ ~TimeOut(p) /\ ~EndStalled(p)

\* A peer whose chain has nothing the chain refuses is not disconnected by
\* what it sends,
HonestNotDropped ==
    [][\A p \in Peers : Dropped(p) => ChainOf(p) \cap world.refused # {}]_vars

\* at least as long as it answers each request for ids before the next one:
\* whatever other peers send, the blame for a block falls on peers that have it.
BlamedForCause ==
    [][\A p \in Peers :
          Dropped(p) /\ ~node.peer[p].twice => ChainOf(p) \cap world.refused # {}]_vars

\* Synchronizing ends: every peer whose blocks the chain takes is connected and
\* has no blocks for us, because the chain has them.
Synchronized ==
    \A p \in Peers : ChainOf(p) \cap world.refused = {} =>
        /\ node.peer[p].conn = "active" /\ ~node.peer[p].weNeed
        /\ ChainOf(p) \subseteq node.have

SyncCompletes == <>[]Synchronized

\* It ends unless one of the three loops has work and nothing makes it look
\* at it: fetch_items_loop() when it left an item because its peers were busy,
\* fetch_sync_items_loop() when a peer was busy with such an item, and
\* process_backlog_of_sync_blocks() when a block that was received comes first.
HeldUp ==
    \/ node.wanted # {} /\ ~node.refetch
    \/ /\ ~node.fetch /\ ~node.suspend
       /\ \E p \in ActivePeers(node) :
            node.peer[p].offered # {} /\ RequestSyncItems(node, p) # node
    \/ /\ ~node.backlog /\ node.calls = <<>>
       /\ \E b \in ToSet(node.received) : Offering(node, b) # {}

SyncCompletesUnlessHeldUp == <>[](Synchronized \/ HeldUp)

=============================================================================
