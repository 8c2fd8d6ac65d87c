-------------------------------- MODULE WriteQueue --------------------------------
(****************************************************************************)
(* How the threads of a node share its database: the write queue of the     *)
(* chain plugin (libraries/plugins/chain/chain_plugin.cpp) and the shutdown *)
(* of the plugins by the main thread (libraries/appbase/application.cpp).   *)
(*                                                                          *)
(* A caller that wants to write puts a pointer to a write_context on its    *)
(* own stack into the queue and waits until the write thread has kept the   *)
(* promise in it.  Callers are the threads that run API requests            *)
(* (webserver_plugin), the p2p thread (p2p_plugin) and the main thread,     *)
(* which generates blocks (siming_plugin) until it shuts the plugins down.  *)
(* Readers share a lock with the write thread.                              *)
(****************************************************************************)
EXTENDS Integers, Sequences

CONSTANTS
    Api,            \* the threads of the webserver's pool
    P2p,            \* the p2p thread
    Main,           \* the main thread
    None,           \* no caller
    ShutdownOrder,  \* the rank of every plugin in the shutdown
    HoldBounded     \* write_lock_hold_time >= 0 (siming_plugin sets -1)

Caller == Api \cup {P2p, Main}
Plugin == {"webserver", "p2p", "chain"}

ASSUME CallersAssumption ==
    P2p \notin Api /\ Main \notin Api /\ P2p # Main /\ None \notin Caller
ASSUME OrderAssumption ==
    /\ ShutdownOrder \in [Plugin -> Nat]
    /\ \A p, q \in Plugin : ShutdownOrder[p] = ShutdownOrder[q] => p = q
ASSUME HoldAssumption == HoldBounded \in BOOLEAN

VARIABLES
    caller,     \* what each caller does
    queue,      \* write_queue
    writer,     \* where the write thread is
    current,    \* cxt: the caller whose request it holds
    syncing,    \* is_syncing
    quitting,   \* the main thread has left io_service::run()
    begun,      \* the plugins whose shutdown has begun
    stopped     \* the plugins whose shutdown has ended

vars == <<caller, queue, writer, current, syncing, quitting, begun, stopped>>

Init ==
    /\ caller = [t \in Caller |-> "idle"]
    /\ queue = <<>>
    /\ writer = "test"
    /\ current = None
    /\ syncing = TRUE
    /\ quitting = FALSE
    /\ begun = {}
    /\ stopped = {}

-----------------------------------------------------------------------------
\* The callers.

Goes(t, from, to) ==
    /\ caller[t] \in from
    /\ caller' = [caller EXCEPT ![t] = to]

\* A stopped pool hands out no request, handle_block() and handle_transaction()
\* test `running`, and no timer fires once the main thread has left its loop.
MayEnter(t) ==
    /\ t \in Api => "webserver" \notin begun
    /\ t = P2p => "p2p" \notin begun
    /\ t = Main => ~quitting

Enter(t) ==
    /\ MayEnter(t)
    /\ Goes(t, {"idle"}, "running")
    /\ UNCHANGED <<queue, writer, current, syncing, quitting, begun, stopped>>

\* The write thread has the lock, or waits for it and keeps new readers out.
LockTaken == writer \in {"lock", "serve", "more"}

\* with_read_lock(); the siming plugin reads without the lock.
ReadBegin(t) ==
    /\ t # Main
    /\ ~LockTaken
    /\ Goes(t, {"running"}, "reading")
    /\ UNCHANGED <<queue, writer, current, syncing, quitting, begun, stopped>>

\* A reader gives up after a second.
ReadTimeout(t) ==
    /\ t # Main
    /\ LockTaken
    /\ Goes(t, {"running"}, "idle")
    /\ UNCHANGED <<queue, writer, current, syncing, quitting, begun, stopped>>

ReadEnd(t) ==
    /\ Goes(t, {"reading"}, "ready")
    /\ UNCHANGED <<queue, writer, current, syncing, quitting, begun, stopped>>

\* A request that only reads, that is refused before it gets to the queue, or a
\* slot in which no block is produced.
Leave(t) ==
    /\ Goes(t, {"running", "ready"}, "idle")
    /\ UNCHANGED <<queue, writer, current, syncing, quitting, begun, stopped>>

\* accept_block(), accept_transaction(), generate_block() up to the wait.
Submit(t) ==
    /\ Goes(t, {"running", "ready"}, "waiting")
    /\ queue' = Append(queue, t)
    /\ UNCHANGED <<writer, current, syncing, quitting, begun, stopped>>

\* Mutant: the caller does not wait for the promise.
ReturnAnyway(t) ==
    /\ Goes(t, {"waiting", "accepted", "refused"}, "idle")
    /\ UNCHANGED <<queue, writer, current, syncing, quitting, begun, stopped>>

\* The promise is kept: what was accepted is broadcast, what was refused is
\* thrown.
Return(t) ==
    /\ Goes(t, {"accepted", "refused"}, "idle")
    /\ UNCHANGED <<queue, writer, current, syncing, quitting, begun, stopped>>

Finishes(t) ==
    ReadBegin(t) \/ ReadTimeout(t) \/ ReadEnd(t) \/ Leave(t) \/ Submit(t) \/ Return(t)

-----------------------------------------------------------------------------
\* The write thread: start_write_processing().

\* Mutant: `running` is never read again.
TestNothing ==
    /\ writer = "test"
    /\ writer' = "poll"
    /\ UNCHANGED <<caller, queue, current, syncing, quitting, begun, stopped>>

\* while( running )
Test ==
    /\ writer = "test"
    /\ writer' = IF "chain" \in begun THEN "stopped" ELSE "poll"
    /\ UNCHANGED <<caller, queue, current, syncing, quitting, begun, stopped>>

\* The outer pop, of a queue that may be empty.
Poll ==
    /\ writer = "poll"
    /\ \/ /\ queue = <<>>
          /\ writer' = "test"
          /\ UNCHANGED <<queue, current>>
       \/ /\ queue # <<>>
          /\ current' = Head(queue)
          /\ queue' = Tail(queue)
          /\ writer' = "lock"
    /\ UNCHANGED <<caller, syncing, quitting, begun, stopped>>

\* with_write_lock()
Lock ==
    /\ writer = "lock"
    /\ \A t \in Caller : caller[t] # "reading"
    /\ writer' = "serve"
    /\ UNCHANGED <<caller, queue, current, syncing, quitting, begun, stopped>>

\* The request is visited and its promise kept; a head block that is not older
\* than a minute ends sync mode.
Serve ==
    /\ writer = "serve"
    /\ \E result \in {"accepted", "refused"} : Goes(current, {"waiting"}, result)
    /\ current' = None
    /\ syncing' \in {FALSE, syncing}
    /\ writer' = "more"
    /\ UNCHANGED <<queue, quitting, begun, stopped>>

\* Mutant: the next request is taken before the time is looked at.
MoreTakesFirst ==
    /\ writer = "more"
    /\ \/ /\ queue = <<>>
          /\ writer' = "test"
          /\ UNCHANGED <<queue, current>>
       \/ /\ queue # <<>>
          /\ queue' = Tail(queue)
          /\ \/ /\ current' = Head(queue)
                /\ writer' = "serve"
             \/ /\ ~syncing /\ HoldBounded
                /\ writer' = "test"
                /\ UNCHANGED current
    /\ UNCHANGED <<caller, syncing, quitting, begun, stopped>>

\* In sync mode the lock is held until the queue is empty, in live mode until
\* its time is over at the latest.  `running` is not looked at.
More ==
    /\ writer = "more"
    /\ \/ /\ queue = <<>> \/ (~syncing /\ HoldBounded)
          /\ writer' = "test"
          /\ UNCHANGED <<queue, current>>
       \/ /\ queue # <<>>
          /\ current' = Head(queue)
          /\ queue' = Tail(queue)
          /\ writer' = "serve"
    /\ UNCHANGED <<caller, syncing, quitting, begun, stopped>>

WriterStep == Test \/ Poll \/ Lock \/ Serve \/ More

-----------------------------------------------------------------------------
\* The main thread.

\* A signal stops the io_service; run() returns once no handler is running.
Quit ==
    /\ ~quitting
    /\ caller[Main] = "idle"
    /\ quitting' = TRUE
    /\ UNCHANGED <<caller, queue, writer, current, syncing, begun, stopped>>

\* Mutant: the plugins are told to stop all at once.
BeginShutdownAtOnce(p) ==
    /\ quitting
    /\ p \notin begun
    /\ begun' = begun \cup {p}
    /\ UNCHANGED <<caller, queue, writer, current, syncing, quitting, stopped>>

\* shutdown() calls plugin_shutdown() of the plugins one after the other.
BeginShutdown(p) ==
    /\ quitting
    /\ p \notin begun
    /\ \A q \in Plugin : ShutdownOrder[q] < ShutdownOrder[p] => q \in stopped
    /\ begun' = begun \cup {p}
    /\ UNCHANGED <<caller, queue, writer, current, syncing, quitting, stopped>>

\* Mutant: the pool is stopped and not joined.
JoinedButApi(p) ==
    /\ p = "p2p" => caller[P2p] = "idle"
    /\ p = "chain" => writer = "stopped"

\* Mutant: the write thread is not joined before the database is closed.
JoinedButWriter(p) ==
    /\ p = "webserver" => \A t \in Api : caller[t] = "idle"
    /\ p = "p2p" => caller[P2p] = "idle"

\* What plugin_shutdown() waits for: the threads of the pool, the p2p thread
\* (the node is deleted then), the write thread (the database is closed then).
Joined(p) ==
    /\ p = "webserver" => \A t \in Api : caller[t] = "idle"
    /\ p = "p2p" => caller[P2p] = "idle"
    /\ p = "chain" => writer = "stopped"

EndShutdown(p) ==
    /\ p \in begun \ stopped
    /\ Joined(p)
    /\ stopped' = stopped \cup {p}
    /\ UNCHANGED <<caller, queue, writer, current, syncing, quitting, begun>>

Shutdown == \E p \in Plugin : BeginShutdown(p) \/ EndShutdown(p)

Next ==
    \/ \E t \in Caller :
         Enter(t) \/ ReadBegin(t) \/ ReadTimeout(t) \/ ReadEnd(t)
            \/ Leave(t) \/ Submit(t) \/ Return(t)
    \/ Test \/ Poll \/ Lock \/ Serve \/ More
    \/ Quit
    \/ \E p \in Plugin : BeginShutdown(p) \/ EndShutdown(p)

Spec == Init /\ [][Next]_vars

\* Every thread runs; a reader gets through what it reads, a writer through its
\* request, and the main thread through the shutdown.
Fairness ==
    /\ WF_vars(WriterStep)
    /\ \A t \in Caller : WF_vars(Finishes(t))
    /\ WF_vars(Shutdown)

FairSpec == Spec /\ Fairness

-----------------------------------------------------------------------------
TypeOK ==
    /\ caller \in [Caller ->
         {"idle", "running", "reading", "ready", "waiting", "accepted", "refused"}]
    /\ queue \in Seq(Caller)
    /\ writer \in {"test", "poll", "lock", "serve", "more", "stopped"}
    /\ current \in Caller \cup {None}
    /\ writer \in {"lock", "serve"} <=> current # None
    /\ syncing \in BOOLEAN
    /\ quitting \in BOOLEAN
    /\ begun \subseteq Plugin
    /\ stopped \subseteq begun
    /\ \A p, q \in begun \ stopped : p = q

\* The queue and the write thread hold a pointer to the stack of a caller
\* exactly while that caller waits, and never two ("the caller's responsibility
\* to ensure the pointer to the write context remains valid", chain_plugin.cpp:
\* 217-219; accept_block, accept_transaction, generate_block).
PointersAreValid ==
    /\ \A i \in DOMAIN queue : caller[queue[i]] = "waiting" /\ queue[i] # current
    /\ \A i, j \in DOMAIN queue : queue[i] = queue[j] => i = j
    /\ current # None => caller[current] = "waiting"
    /\ \A t \in Caller :
         caller[t] = "waiting" => t = current \/ \E i \in DOMAIN queue : queue[i] = t

\* Nobody waits for a write thread that has ended (stop_write_processing joins
\* the thread and drops what is in the queue).
NobodyLeftBehind ==
    writer = "stopped" => \A t \in Caller : caller[t] # "waiting"

\* Nobody is in the database when the chain plugin has closed it
\* (chain_plugin::plugin_shutdown).
ClosedDatabaseIsUnused ==
    "chain" \in stopped =>
        /\ writer = "stopped"
        /\ \A t \in Caller : caller[t] = "idle"

\* There is a node to broadcast what was accepted (p2p_plugin::broadcast_block
\* and broadcast_transaction after plugin_shutdown has deleted the node).
BroadcastHasNode ==
    \A t \in Caller : caller[t] = "accepted" => "p2p" \notin stopped

\* Whoever waits for the write thread is answered through a pointer that is
\* valid, by a thread that still runs (the write queue of the chain plugin).
WaitersAreServed == PointersAreValid /\ NobodyLeftBehind

\* What was stopped is not used: neither the database nor the p2p node
\* (application::shutdown with the plugin_shutdown of the plugins).
StoppedIsUnused == ClosedDatabaseIsUnused /\ BroadcastHasNode

\* What makes these inductive when the webserver and the p2p plugin stop before
\* the chain plugin: the plugins stop in order, and whoever was joined is idle.
ShutdownInOrder ==
    /\ begun # {} => quitting
    /\ quitting => caller[Main] = "idle"
    /\ "webserver" \in stopped => \A t \in Api : caller[t] = "idle"
    /\ "p2p" \in stopped => caller[P2p] = "idle"
    /\ "chain" \in stopped => writer = "stopped"
    /\ writer = "stopped" => "chain" \in begun
    /\ \A p \in begun, q \in Plugin :
         ShutdownOrder[q] < ShutdownOrder[p] => q \in stopped

QueueInv == TypeOK /\ PointersAreValid /\ ShutdownInOrder

\* Every caller learns the outcome of its request (chain_plugin.cpp:214-216
\* "the caller needs to know the success of the write and any exceptions that
\* are thrown").
EveryCallerTold ==
    \A t \in Caller :
        caller[t] = "waiting" ~> caller[t] \in {"accepted", "refused"}

\* A node that is told to stop stops (application::shutdown).
ShutdownEnds == quitting ~> stopped = Plugin
================================================================================
