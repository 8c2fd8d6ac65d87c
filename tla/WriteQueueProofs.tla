----------------------------- MODULE WriteQueueProofs -----------------------------
(****************************************************************************)
(* For every number of API threads and every hold time: the queue never     *)
(* holds a stale pointer, whatever the order of the shutdown; and when the  *)
(* webserver and the p2p plugin stop before the chain plugin, nobody is     *)
(* left waiting and nobody uses what is gone.                               *)
(****************************************************************************)
EXTENDS WriteQueue, TLAPS

USE CallersAssumption, OrderAssumption, HoldAssumption

-----------------------------------------------------------------------------
\* What is pending is what a popped request and the rest of the queue are.
LEMMA HeadTail ==
    ASSUME NEW S, NEW s \in Seq(S), s # <<>>
    PROVE  /\ Head(s) \in S
           /\ Tail(s) \in Seq(S)
           /\ Len(s) \in Nat \ {0}
           /\ 1 \in DOMAIN s
           /\ Head(s) = s[1]
           /\ DOMAIN Tail(s) = 1 .. Len(s) - 1
           /\ \A i \in DOMAIN Tail(s) : Tail(s)[i] = s[i + 1] /\ i + 1 \in DOMAIN s
           /\ \A i \in DOMAIN s : i # 1 => i - 1 \in DOMAIN Tail(s)
  OBVIOUS

LEMMA AppendLast ==
    ASSUME NEW S, NEW s \in Seq(S), NEW e \in S
    PROVE  /\ Append(s, e) \in Seq(S)
           /\ Len(s) \in Nat
           /\ DOMAIN s = 1 .. Len(s)
           /\ DOMAIN Append(s, e) = 1 .. Len(s) + 1
           /\ \A i \in DOMAIN s : Append(s, e)[i] = s[i]
           /\ Append(s, e)[Len(s) + 1] = e
  OBVIOUS

\* The pointers stay valid when nobody begins or ends to wait.
LEMMA SameWaiters ==
    ASSUME QueueInv,
           caller' \in [Caller -> {"idle", "running", "reading", "ready", "waiting",
                                   "accepted", "refused"}],
           UNCHANGED <<queue, current>>,
           \A t \in Caller : caller'[t] = "waiting" <=> caller[t] = "waiting"
    PROVE  PointersAreValid'
<1>1. \A i \in DOMAIN queue : queue[i] \in Caller
  BY DEF QueueInv, TypeOK
<1>2. current \in Caller \cup {None}
  BY DEF QueueInv, TypeOK
<1> QED
  BY <1>1, <1>2 DEF QueueInv, PointersAreValid

LEMMA GoesTyped ==
    ASSUME TypeOK, NEW t \in Caller, NEW from, NEW to, Goes(t, from, to),
           to \in {"idle", "running", "reading", "ready", "waiting", "accepted", "refused"}
    PROVE  /\ caller' \in [Caller -> {"idle", "running", "reading", "ready", "waiting",
                                      "accepted", "refused"}]
           /\ caller'[t] = to
           /\ \A u \in Caller \ {t} : caller'[u] = caller[u]
  BY DEF TypeOK, Goes

\* A request that is popped leaves the rest of the queue and the rest of the
\* waiting callers as they were.
LEMMA PopKeepsPointers ==
    ASSUME QueueInv, current = None, queue # <<>>, queue' = Tail(queue),
           current' = Head(queue), UNCHANGED caller
    PROVE  PointersAreValid' /\ current' \in Caller /\ queue' \in Seq(Caller)
<1>1. queue \in Seq(Caller)
  BY DEF QueueInv, TypeOK
<1>2. /\ Head(queue) \in Caller
      /\ Tail(queue) \in Seq(Caller)
      /\ Len(queue) \in Nat \ {0}
      /\ 1 \in DOMAIN queue
      /\ Head(queue) = queue[1]
      /\ DOMAIN Tail(queue) = 1 .. Len(queue) - 1
      /\ \A i \in DOMAIN Tail(queue) :
            Tail(queue)[i] = queue[i + 1] /\ i + 1 \in DOMAIN queue
      /\ \A i \in DOMAIN queue : i # 1 => i - 1 \in DOMAIN Tail(queue)
  BY <1>1, HeadTail
<1>3. DOMAIN queue = 1 .. Len(queue)
  BY <1>1
<1>4. PointersAreValid
  BY DEF QueueInv
<1>5. \A i \in DOMAIN queue' : caller'[queue'[i]] = "waiting" /\ queue'[i] # current'
  <2>1. TAKE i \in DOMAIN queue'
  <2>2. queue'[i] = queue[i + 1] /\ i + 1 \in DOMAIN queue /\ i + 1 # 1
    BY <1>2, <2>1
  <2> QED
    BY <1>2, <1>4, <2>2 DEF PointersAreValid
<1>6. \A i, j \in DOMAIN queue' : queue'[i] = queue'[j] => i = j
  <2>1. SUFFICES ASSUME NEW i \in DOMAIN queue', NEW j \in DOMAIN queue',
                        queue'[i] = queue'[j]
                 PROVE  i = j
    OBVIOUS
  <2>2. i + 1 \in DOMAIN queue /\ j + 1 \in DOMAIN queue /\ queue[i + 1] = queue[j + 1]
    BY <1>2, <2>1
  <2>3. i + 1 = j + 1
    BY <1>4, <2>2 DEF PointersAreValid
  <2>4. i \in Nat /\ j \in Nat
    BY <1>2, <2>1
  <2> QED
    BY <2>3, <2>4
<1>7. current' # None => caller'[current'] = "waiting"
  BY <1>2, <1>4 DEF PointersAreValid
<1>8. \A t \in Caller : caller'[t] = "waiting" =>
            t = current' \/ \E i \in DOMAIN queue' : queue'[i] = t
  <2>1. SUFFICES ASSUME NEW t \in Caller, caller[t] = "waiting", t # current'
                 PROVE  \E i \in DOMAIN queue' : queue'[i] = t
    OBVIOUS
  <2>2. PICK k \in DOMAIN queue : queue[k] = t
    BY <1>4, <2>1 DEF PointersAreValid
  <2>3. k # 1
    BY <1>2, <2>1, <2>2
  <2>4. k - 1 \in DOMAIN queue' /\ k \in Int
    BY <1>2, <1>3, <2>2, <2>3
  <2>5. queue'[k - 1] = queue[(k - 1) + 1]
    BY <1>2, <2>4
  <2>6. queue'[k - 1] = t
    BY <2>2, <2>4, <2>5
  <2> QED
    BY <2>4, <2>6
<1> QED
  BY <1>2, <1>5, <1>6, <1>7, <1>8 DEF PointersAreValid

-----------------------------------------------------------------------------
LEMMA InitQueueInv == Init => QueueInv
<1> SUFFICES ASSUME Init PROVE QueueInv
  OBVIOUS
<1>1. queue \in Seq(Caller) /\ DOMAIN queue = {}
  BY DEF Init
<1> QED
  BY <1>1 DEF Init, QueueInv, TypeOK, PointersAreValid, ShutdownInOrder, Caller

\* The steps of a caller that leave the queue alone.
LEMMA CallerStepInv ==
    ASSUME QueueInv, NEW t \in Caller,
           \/ Enter(t) \/ ReadBegin(t) \/ ReadTimeout(t) \/ ReadEnd(t) \/ Leave(t)
           \/ Return(t)
    PROVE  QueueInv'
<1>1. UNCHANGED <<queue, writer, current, syncing, quitting, begun, stopped>>
  BY DEF Enter, ReadBegin, ReadTimeout, ReadEnd, Leave, Return
<1>2. PICK to \in {"idle", "running", "reading", "ready"} :
        /\ Goes(t, {"idle", "running", "reading", "ready", "accepted", "refused"}, to)
        /\ to # "idle" => caller[t] # "idle" \/ MayEnter(t)
  BY DEF Enter, ReadBegin, ReadTimeout, ReadEnd, Leave, Return, Goes
<1>3. /\ caller' \in [Caller -> {"idle", "running", "reading", "ready", "waiting",
                                 "accepted", "refused"}]
      /\ caller'[t] = to
      /\ \A u \in Caller \ {t} : caller'[u] = caller[u]
  BY <1>2, GoesTyped DEF QueueInv
<1>4. TypeOK'
  BY <1>1, <1>3 DEF QueueInv, TypeOK
<1>5. \A u \in Caller : caller'[u] = "waiting" <=> caller[u] = "waiting"
  BY <1>2, <1>3 DEF Goes
<1>6. PointersAreValid'
  BY <1>1, <1>3, <1>5, SameWaiters
<1>7. ShutdownInOrder'
  <2>1. ASSUME caller'[t] # "idle"
        PROVE  /\ t \in Api => "webserver" \notin stopped
               /\ t = P2p => "p2p" \notin stopped
               /\ t = Main => ~quitting
    BY <1>2, <1>3, <2>1 DEF QueueInv, TypeOK, ShutdownInOrder, MayEnter
  <2> QED
    BY <1>1, <1>3, <2>1 DEF QueueInv, TypeOK, ShutdownInOrder, Caller
<1> QED
  BY <1>4, <1>6, <1>7 DEF QueueInv

\* A request that is submitted comes last.
LEMMA SubmitInv ==
    ASSUME QueueInv, NEW t \in Caller, Submit(t)
    PROVE  QueueInv'
<1>1. /\ queue \in Seq(Caller)
      /\ PointersAreValid
  BY DEF QueueInv, TypeOK
<1>2. /\ caller[t] \in {"running", "ready"}
      /\ queue' = Append(queue, t)
      /\ UNCHANGED <<writer, current, syncing, quitting, begun, stopped>>
  BY DEF Submit, Goes
<1>3. /\ caller' \in [Caller -> {"idle", "running", "reading", "ready", "waiting",
                                 "accepted", "refused"}]
      /\ caller'[t] = "waiting"
      /\ \A u \in Caller \ {t} : caller'[u] = caller[u]
  BY GoesTyped DEF QueueInv, Submit
<1>4. /\ queue' \in Seq(Caller)
      /\ Len(queue) \in Nat
      /\ DOMAIN queue = 1 .. Len(queue)
      /\ DOMAIN queue' = 1 .. Len(queue) + 1
      /\ \A i \in DOMAIN queue : queue'[i] = queue[i]
      /\ queue'[Len(queue) + 1] = t
  BY <1>1, <1>2, AppendLast
<1>5. /\ \A i \in DOMAIN queue : queue[i] \in Caller /\ queue[i] # t
      /\ current # t
      /\ current \in Caller \cup {None}
  BY <1>1, <1>2 DEF PointersAreValid, QueueInv, TypeOK
<1>6. TypeOK'
  BY <1>2, <1>3, <1>4 DEF QueueInv, TypeOK
<1>7. PointersAreValid'
  <2>1. \A i \in DOMAIN queue' : i \in DOMAIN queue \/ i = Len(queue) + 1
    BY <1>4
  <2>2. \A i \in DOMAIN queue : caller'[queue[i]] = "waiting" /\ queue[i] # current
    BY <1>1, <1>3, <1>5 DEF PointersAreValid
  <2>3. \A i \in DOMAIN queue' : caller'[queue'[i]] = "waiting" /\ queue'[i] # current'
    BY <1>2, <1>3, <1>4, <1>5, <2>1, <2>2
  <2>4. \A i, j \in DOMAIN queue' : queue'[i] = queue'[j] => i = j
    BY <1>1, <1>4, <1>5, <2>1 DEF PointersAreValid
  <2>5. current' # None => caller'[current'] = "waiting"
    BY <1>1, <1>2, <1>3, <1>5 DEF PointersAreValid
  <2>6. \A u \in Caller : caller'[u] = "waiting" =>
            u = current' \/ \E i \in DOMAIN queue' : queue'[i] = u
    <3>1. SUFFICES ASSUME NEW u \in Caller, caller'[u] = "waiting", u # current'
                   PROVE  \E i \in DOMAIN queue' : queue'[i] = u
      OBVIOUS
    <3>2. CASE u = t
      BY <1>4, <3>2
    <3>3. CASE u # t
      <4>1. PICK i \in DOMAIN queue : queue[i] = u
        BY <1>1, <1>2, <1>3, <3>1, <3>3 DEF PointersAreValid
      <4> QED
        BY <1>4, <4>1
    <3> QED
      BY <3>2, <3>3
  <2> QED
    BY <2>3, <2>4, <2>5, <2>6 DEF PointersAreValid
<1>8. ShutdownInOrder'
  BY <1>2, <1>3 DEF QueueInv, TypeOK, ShutdownInOrder, Caller
<1> QED
  BY <1>6, <1>7, <1>8 DEF QueueInv

LEMMA WriterStepInv ==
    ASSUME QueueInv, WriterStep
    PROVE  QueueInv'
<1>1. CASE Test
  <2>1. TypeOK'
    BY <1>1 DEF Test, QueueInv, TypeOK
  <2>2. PointersAreValid'
    BY <1>1, SameWaiters DEF Test, QueueInv, TypeOK
  <2>3. ShutdownInOrder'
    BY <1>1 DEF Test, QueueInv, ShutdownInOrder
  <2> QED
    BY <2>1, <2>2, <2>3 DEF QueueInv
<1>2. CASE Poll /\ queue = <<>>
  <2>0. UNCHANGED <<queue, current, caller, syncing, quitting, begun, stopped>>
        /\ writer = "poll" /\ writer' = "test"
    BY <1>2 DEF Poll
  <2>1. TypeOK'
    BY <2>0 DEF QueueInv, TypeOK
  <2>2. PointersAreValid'
    BY <2>0, SameWaiters DEF QueueInv, TypeOK
  <2>3. ShutdownInOrder'
    BY <2>0 DEF QueueInv, ShutdownInOrder
  <2> QED
    BY <2>1, <2>2, <2>3 DEF QueueInv
<1>3. CASE Lock
  <2>1. TypeOK'
    BY <1>3 DEF Lock, QueueInv, TypeOK
  <2>2. PointersAreValid'
    BY <1>3, SameWaiters DEF Lock, QueueInv, TypeOK
  <2>3. ShutdownInOrder'
    BY <1>3 DEF Lock, QueueInv, ShutdownInOrder
  <2> QED
    BY <2>1, <2>2, <2>3 DEF QueueInv
<1>4. CASE /\ writer \in {"poll", "more"} /\ queue # <<>>
           /\ current' = Head(queue) /\ queue' = Tail(queue)
           /\ writer' \in {"lock", "serve"}
           /\ UNCHANGED <<caller, syncing, quitting, begun, stopped>>
  <2>1. current = None
    BY <1>4 DEF QueueInv, TypeOK
  <2>2. PointersAreValid' /\ current' \in Caller /\ queue' \in Seq(Caller)
    BY <1>4, <2>1, PopKeepsPointers
  <2>3. TypeOK'
    BY <1>4, <2>2 DEF QueueInv, TypeOK
  <2>4. ShutdownInOrder'
    BY <1>4 DEF QueueInv, ShutdownInOrder
  <2> QED
    BY <2>2, <2>3, <2>4 DEF QueueInv
<1>5. CASE Serve
  <2>1. current \in Caller /\ PointersAreValid /\ queue \in Seq(Caller)
    BY <1>5 DEF Serve, QueueInv, TypeOK
  <2>2. PICK result \in {"accepted", "refused"} : Goes(current, {"waiting"}, result)
    BY <1>5 DEF Serve
  <2>3. /\ caller' \in [Caller -> {"idle", "running", "reading", "ready", "waiting",
                                   "accepted", "refused"}]
        /\ caller'[current] = result
        /\ \A u \in Caller \ {current} : caller'[u] = caller[u]
        /\ caller[current] = "waiting"
    BY <2>1, <2>2, GoesTyped DEF QueueInv, Goes
  <2>4. /\ current' = None /\ writer' = "more" /\ syncing' \in {FALSE, syncing}
        /\ UNCHANGED <<queue, quitting, begun, stopped>>
    BY <1>5 DEF Serve
  <2>5. TypeOK'
    BY <2>3, <2>4 DEF QueueInv, TypeOK
  <2>6. PointersAreValid'
    <3>1. \A i \in DOMAIN queue : queue[i] \in Caller \ {current}
      BY <2>1 DEF PointersAreValid
    <3> QED
      BY <2>1, <2>3, <2>4, <3>1 DEF PointersAreValid
  <2>7. writer = "serve"
    BY <1>5 DEF Serve
  <2>8. ShutdownInOrder'
    <3>1. \A t \in Caller : caller[t] = "idle" => caller'[t] = "idle"
      BY <2>1, <2>3
    <3>2. ShutdownInOrder
      BY DEF QueueInv
    <3>3. Main \in Caller /\ P2p \in Caller /\ Api \subseteq Caller
      BY DEF Caller
    <3>4. writer # "stopped" /\ writer' # "stopped"
      BY <2>4, <2>7
    <3> QED
      BY <2>4, <3>1, <3>2, <3>3, <3>4 DEF ShutdownInOrder
  <2> QED
    BY <2>5, <2>6, <2>8 DEF QueueInv
<1>6. CASE /\ writer = "more" /\ writer' = "test"
           /\ UNCHANGED <<queue, current, caller, syncing, quitting, begun, stopped>>
  <2>1. TypeOK'
    BY <1>6 DEF QueueInv, TypeOK
  <2>2. PointersAreValid'
    BY <1>6, SameWaiters DEF QueueInv, TypeOK
  <2>3. ShutdownInOrder'
    BY <1>6 DEF QueueInv, ShutdownInOrder
  <2> QED
    BY <2>1, <2>2, <2>3 DEF QueueInv
<1> QED
  BY <1>1, <1>2, <1>3, <1>4, <1>5, <1>6 DEF WriterStep, Poll, More

LEMMA MainStepInv ==
    ASSUME QueueInv,
           Quit \/ \E p \in Plugin : BeginShutdown(p) \/ EndShutdown(p)
    PROVE  QueueInv'
<1>1. CASE Quit
  <2>1. TypeOK'
    BY <1>1 DEF Quit, QueueInv, TypeOK
  <2>2. PointersAreValid'
    BY <1>1, SameWaiters DEF Quit, QueueInv, TypeOK
  <2>3. ShutdownInOrder'
    BY <1>1 DEF Quit, QueueInv, ShutdownInOrder
  <2> QED
    BY <2>1, <2>2, <2>3 DEF QueueInv
<1>2. ASSUME NEW p \in Plugin, BeginShutdown(p)
      PROVE  QueueInv'
  <2>1. \A q \in begun \ stopped : q = p
    <3>1. SUFFICES ASSUME NEW q \in begun \ stopped, q # p
                   PROVE  FALSE
      OBVIOUS
    <3>2. q \in Plugin /\ p \notin stopped /\ p \notin begun
      BY <1>2 DEF QueueInv, TypeOK, BeginShutdown
    <3>3. ShutdownOrder[q] \in Nat /\ ShutdownOrder[p] \in Nat
      BY <3>2
    <3>4. ShutdownOrder[q] # ShutdownOrder[p]
      BY <3>1, <3>2
    <3>5. CASE ShutdownOrder[q] < ShutdownOrder[p]
      BY <1>2, <3>1, <3>2, <3>5 DEF BeginShutdown
    <3>6. CASE ShutdownOrder[p] < ShutdownOrder[q]
      BY <3>1, <3>2, <3>6 DEF QueueInv, ShutdownInOrder
    <3> QED
      BY <3>3, <3>4, <3>5, <3>6
  <2>2. TypeOK'
    BY <1>2, <2>1 DEF BeginShutdown, QueueInv, TypeOK
  <2>3. PointersAreValid'
    BY <1>2, SameWaiters DEF BeginShutdown, QueueInv, TypeOK
  <2>4. ShutdownInOrder'
    BY <1>2 DEF BeginShutdown, QueueInv, TypeOK, ShutdownInOrder
  <2> QED
    BY <2>2, <2>3, <2>4 DEF QueueInv
<1>3. ASSUME NEW p \in Plugin, EndShutdown(p)
      PROVE  QueueInv'
  <2>1. TypeOK'
    BY <1>3 DEF EndShutdown, QueueInv, TypeOK
  <2>2. PointersAreValid'
    BY <1>3, SameWaiters DEF EndShutdown, QueueInv, TypeOK
  <2>3. ShutdownInOrder'
    BY <1>3 DEF EndShutdown, Joined, QueueInv, ShutdownInOrder
  <2> QED
    BY <2>1, <2>2, <2>3 DEF QueueInv
<1> QED
  BY <1>1, <1>2, <1>3

LEMMA NextQueueInv == QueueInv /\ [Next]_vars => QueueInv'
<1> SUFFICES ASSUME QueueInv, [Next]_vars PROVE QueueInv'
  OBVIOUS
<1>1. CASE UNCHANGED vars
  BY <1>1 DEF vars, QueueInv, TypeOK, PointersAreValid, ShutdownInOrder
<1>2. ASSUME NEW t \in Caller,
             \/ Enter(t) \/ ReadBegin(t) \/ ReadTimeout(t) \/ ReadEnd(t) \/ Leave(t)
             \/ Return(t)
      PROVE  QueueInv'
  BY <1>2, CallerStepInv
<1>3. ASSUME NEW t \in Caller, Submit(t)
      PROVE  QueueInv'
  BY <1>3, SubmitInv
<1>4. CASE WriterStep
  BY <1>4, WriterStepInv
<1>5. CASE Quit \/ \E p \in Plugin : BeginShutdown(p) \/ EndShutdown(p)
  BY <1>5, MainStepInv
<1> QED
  BY <1>1, <1>2, <1>3, <1>4, <1>5 DEF Next, WriterStep

\* The inductive invariant, for every order of the shutdown.
THEOREM QueueInvariant == Spec => []QueueInv
<1>1. Init => QueueInv
  BY InitQueueInv
<1>2. QueueInv /\ [Next]_vars => QueueInv'
  BY NextQueueInv
<1> QED
  BY <1>1, <1>2, PTL DEF Spec

\* The types, and that the main thread shuts down one plugin at a time.
THEOREM TypeCorrect == Spec => []TypeOK
<1>1. QueueInv => TypeOK
  BY DEF QueueInv
<1> QED
  BY <1>1, QueueInvariant, PTL

\* No pointer in the queue outlives the wait of its caller, for every order of
\* the shutdown (accept_block, accept_transaction, generate_block).
THEOREM ValidPointers == Spec => []PointersAreValid
<1>1. QueueInv => PointersAreValid
  BY DEF QueueInv
<1> QED
  BY <1>1, QueueInvariant, PTL

\* The order in which a node without a configuration stops its plugins.
StopsChainLast ==
    /\ ShutdownOrder["webserver"] < ShutdownOrder["p2p"]
    /\ ShutdownOrder["p2p"] < ShutdownOrder["chain"]

LEMMA ChainStopsAlone ==
    ASSUME StopsChainLast, QueueInv, "chain" \in begun
    PROVE  \A t \in Caller : caller[t] = "idle"
<1>1. ShutdownOrder["webserver"] < ShutdownOrder["chain"]
  BY DEF StopsChainLast, Plugin
<1>2. "webserver" \in stopped /\ "p2p" \in stopped
  BY <1>1 DEF StopsChainLast, QueueInv, ShutdownInOrder, Plugin
<1>3. quitting
  BY DEF QueueInv, ShutdownInOrder
<1> QED
  BY <1>2, <1>3 DEF QueueInv, ShutdownInOrder, Caller

\* Nobody waits for a write thread that has ended (stop_write_processing).
THEOREM NoneLeftBehind == StopsChainLast => (Spec => []NobodyLeftBehind)
<1> SUFFICES ASSUME StopsChainLast PROVE Spec => []NobodyLeftBehind
  OBVIOUS
<1>1. QueueInv => NobodyLeftBehind
  BY ChainStopsAlone DEF QueueInv, ShutdownInOrder, NobodyLeftBehind
<1> QED
  BY <1>1, QueueInvariant, PTL

\* Nobody is in the database when it is closed (chain_plugin::plugin_shutdown).
THEOREM UnusedWhenClosed == StopsChainLast => (Spec => []ClosedDatabaseIsUnused)
<1> SUFFICES ASSUME StopsChainLast PROVE Spec => []ClosedDatabaseIsUnused
  OBVIOUS
<1>1. QueueInv => ClosedDatabaseIsUnused
  BY ChainStopsAlone
  DEF QueueInv, TypeOK, ShutdownInOrder, ClosedDatabaseIsUnused
<1> QED
  BY <1>1, QueueInvariant, PTL

\* What was accepted is broadcast by a node that is there (p2p_plugin).
THEOREM NodeWhenBroadcast == StopsChainLast => (Spec => []BroadcastHasNode)
<1> SUFFICES ASSUME StopsChainLast PROVE Spec => []BroadcastHasNode
  OBVIOUS
<1>1. QueueInv => BroadcastHasNode
  BY
  DEF StopsChainLast, QueueInv, TypeOK, ShutdownInOrder, BroadcastHasNode, Caller, Plugin
<1> QED
  BY <1>1, QueueInvariant, PTL

\* Every caller waits with a valid pointer for a thread that runs, when the chain
\* plugin is stopped last (the write queue).
THEOREM ServedWaiters == StopsChainLast => (Spec => []WaitersAreServed)
<1> SUFFICES ASSUME StopsChainLast PROVE Spec => []WaitersAreServed
  OBVIOUS
<1>1. Spec => []NobodyLeftBehind
  BY NoneLeftBehind
<1>2. PointersAreValid /\ NobodyLeftBehind => WaitersAreServed
  BY DEF WaitersAreServed
<1> QED
  BY <1>1, <1>2, ValidPointers, PTL

\* Neither the database nor the p2p node is used once it was stopped, when the
\* chain plugin is stopped last (application::shutdown).
THEOREM UnusedWhenStopped == StopsChainLast => (Spec => []StoppedIsUnused)
<1> SUFFICES ASSUME StopsChainLast PROVE Spec => []StoppedIsUnused
  OBVIOUS
<1>1. Spec => []ClosedDatabaseIsUnused
  BY UnusedWhenClosed
<1>2. Spec => []BroadcastHasNode
  BY NodeWhenBroadcast
<1>3. ClosedDatabaseIsUnused /\ BroadcastHasNode => StoppedIsUnused
  BY DEF StoppedIsUnused
<1> QED
  BY <1>1, <1>2, <1>3, PTL
================================================================================
