------------------------- MODULE PendingTransactionsProofs -------------------------
(****************************************************************************)
(* For any transactions with any needs, conflicts and expirations, and any  *)
(* bounds: no transaction is applied twice, the pending session always is   *)
(* what the pending list made of it, and no transaction that could still be *)
(* applied is lost.                                                         *)
(****************************************************************************)
EXTENDS PendingTransactions, SequenceTheorems, TLAPS

USE TxAssumption, BoundsAssumption

\* What is where between the beginning of a request and its end.
PhaseInv ==
    /\ pc # "push" => popped = <<>>
    /\ pc # "restore" => ~postponing
    /\ pc \in {"idle", "restore"} => block = NoBlock
    /\ pc = "produce" => session.open

\* The times of the blocks.
TimesGrow ==
    /\ \A n \in DOMAIN chain : chain[n].time > 0
    /\ \A m, n \in DOMAIN chain : m < n => chain[m].time < chain[n].time

\* s goes through transactions of p in their order.
InOrder(s, p) ==
    /\ Range(s) \subseteq Range(p)
    /\ \A i, j \in DOMAIN s :
         i < j => \E m, n \in DOMAIN p : m < n /\ p[m] = s[i] /\ p[n] = s[j]

\* The session follows the list while it is built again, not only afterwards;
\* the one in which a block is produced is of its own.
SessionInv ==
    pc # "produce" => AllApply(chain, session.txs) /\ InOrder(session.txs, pending)

\* What is owed is in the chain or in one of the lists, and can still be applied.
OwedInv ==
    /\ owed \subseteq Included(chain) \cup Range(pending) \cup Range(popped) \cup
                      (IF pc = "produce" THEN {} ELSE Range(todo))
    /\ \A t \in owed : Free(t) /\ HeadTime(chain) < Expiration[t]

\* NoTwice in two parts, of which a step disturbs one.
Once(s) == \A i, j \in DOMAIN s : s[i] = s[j] => i = j

BlocksOnce ==
    /\ \A n \in DOMAIN chain : Once(chain[n].txs)
    /\ \A m, n \in DOMAIN chain :
         m # n => Range(chain[m].txs) \cap Range(chain[n].txs) = {}

SessionOnce == Once(session.txs) /\ Range(session.txs) \cap Included(chain) = {}

PendingInv ==
    /\ TypeOK /\ PhaseInv /\ TimesGrow
    /\ BlocksOnce /\ SessionOnce /\ SessionInv /\ OwedInv

-----------------------------------------------------------------------------
\* Sequences.

LEMMA EmptyFacts ==
    /\ Len(<<>>) = 0 /\ DOMAIN <<>> = {} /\ Range(<<>>) = {}
    /\ \A S : <<>> \in Seq(S)
  BY DEF Range

LEMMA AppendFacts ==
    ASSUME NEW S, NEW s \in Seq(S), NEW e \in S
    PROVE  /\ Append(s, e) \in Seq(S)
           /\ Len(s) \in Nat
           /\ DOMAIN s = 1 .. Len(s)
           /\ DOMAIN Append(s, e) = 1 .. Len(s) + 1
           /\ \A i \in DOMAIN s : i \in DOMAIN Append(s, e) /\ Append(s, e)[i] = s[i]
           /\ Len(s) + 1 \in DOMAIN Append(s, e)
           /\ Append(s, e)[Len(s) + 1] = e
           /\ \A i \in DOMAIN Append(s, e) : i \in DOMAIN s \/ i = Len(s) + 1
  OBVIOUS

LEMMA RangeAppend ==
    ASSUME NEW S, NEW s \in Seq(S), NEW e \in S
    PROVE  Range(Append(s, e)) = Range(s) \cup {e}
  BY AppendFacts DEF Range

LEMMA RangeConcat ==
    ASSUME NEW S, NEW s \in Seq(S), NEW t \in Seq(S)
    PROVE  s \o t \in Seq(S) /\ Range(s \o t) = Range(s) \cup Range(t)
<1> DEFINE c == s \o t
<1>1. /\ c \in Seq(S) /\ Len(s) \in Nat /\ Len(t) \in Nat
      /\ DOMAIN s = 1 .. Len(s) /\ DOMAIN t = 1 .. Len(t)
      /\ DOMAIN c = 1 .. Len(s) + Len(t)
      /\ \A i \in 1 .. Len(s) + Len(t) :
           c[i] = IF i <= Len(s) THEN s[i] ELSE t[i - Len(s)]
  BY ConcatProperties, LenProperties
<1> HIDE DEF c
<1>2. \A i \in DOMAIN s : i \in DOMAIN c /\ c[i] = s[i]
  BY <1>1
<1>3. \A i \in DOMAIN t : Len(s) + i \in DOMAIN c /\ c[Len(s) + i] = t[i]
  BY <1>1
<1>4. \A i \in DOMAIN c :
        \/ i \in DOMAIN s /\ c[i] = s[i]
        \/ i - Len(s) \in DOMAIN t /\ c[i] = t[i - Len(s)]
  BY <1>1
<1>5. Range(c) = Range(s) \cup Range(t)
  BY <1>2, <1>3, <1>4 DEF Range
<1> QED
  BY <1>1, <1>5 DEF c

LEMMA HeadTail ==
    ASSUME NEW S, NEW s \in Seq(S), s # <<>>
    PROVE  /\ Head(s) \in S
           /\ Tail(s) \in Seq(S)
           /\ Range(s) = {Head(s)} \cup Range(Tail(s))
<1>1. /\ Head(s) \in S /\ Tail(s) \in Seq(S) /\ Len(s) \in Nat \ {0}
      /\ Head(s) = s[1] /\ DOMAIN s = 1 .. Len(s) /\ 1 \in DOMAIN s
      /\ DOMAIN Tail(s) = 1 .. Len(s) - 1
      /\ \A i \in 1 .. Len(s) - 1 : Tail(s)[i] = s[i + 1]
  OBVIOUS
<1>2. \A i \in DOMAIN Tail(s) : i + 1 \in DOMAIN s /\ Tail(s)[i] = s[i + 1]
  BY <1>1
<1>3. \A i \in DOMAIN s : i # 1 => i - 1 \in DOMAIN Tail(s) /\ Tail(s)[i - 1] = s[i]
  BY <1>1
<1>4. \A x : x \in Range(Tail(s)) => x \in Range(s)
  BY <1>2 DEF Range
<1>5. Head(s) \in Range(s)
  BY <1>1 DEF Range
<1>6. \A x : x \in Range(s) => x = Head(s) \/ x \in Range(Tail(s))
  BY <1>1, <1>3 DEF Range
<1>7. Range(s) = {Head(s)} \cup Range(Tail(s))
  BY <1>4, <1>5, <1>6
<1> QED
  BY <1>1, <1>7

LEMMA FrontFacts ==
    ASSUME NEW S, NEW s \in Seq(S), s # <<>>
    PROVE  LET f == SubSeq(s, 1, Len(s) - 1)
           IN  /\ f \in Seq(S)
               /\ Len(s) \in DOMAIN s /\ s[Len(s)] \in S
               /\ DOMAIN s = 1 .. Len(s) /\ DOMAIN f = 1 .. Len(s) - 1
               /\ Len(f) = Len(s) - 1
               /\ \A i \in DOMAIN f : i \in DOMAIN s /\ i < Len(s) /\ f[i] = s[i]
               /\ \A i \in DOMAIN s : i \in DOMAIN f \/ i = Len(s)
<1> DEFINE f == SubSeq(s, 1, Len(s) - 1)
<1>1. Len(s) \in Nat \ {0} /\ DOMAIN s = 1 .. Len(s) /\ \A i \in 1 .. Len(s) : s[i] \in S
  BY EmptySeq, LenProperties
<1>2. /\ f \in Seq(S) /\ Len(f) = Len(s) - 1
      /\ \A i \in 1 .. Len(s) - 1 : f[i] = s[i]
  BY <1>1, SubSeqProperties
<1> HIDE DEF f
<1>3. DOMAIN f = 1 .. Len(s) - 1
  BY <1>2, LenProperties
<1>4. /\ f \in Seq(S)
      /\ Len(s) \in DOMAIN s /\ s[Len(s)] \in S
      /\ DOMAIN s = 1 .. Len(s) /\ DOMAIN f = 1 .. Len(s) - 1
      /\ Len(f) = Len(s) - 1
      /\ \A i \in DOMAIN f : i \in DOMAIN s /\ i < Len(s) /\ f[i] = s[i]
      /\ \A i \in DOMAIN s : i \in DOMAIN f \/ i = Len(s)
  BY <1>1, <1>2, <1>3
<1> QED
  BY <1>4 DEF f

LEMMA InRange == \A s : \A i \in DOMAIN s : s[i] \in Range(s)
  BY DEF Range

LEMMA RangeType == ASSUME NEW S, NEW s \in Seq(S) PROVE Range(s) \subseteq S
  BY DEF Range

\* The beginning of a list of which a transaction is appended.
LEMMA BeginningOfAppend ==
    ASSUME NEW S, NEW s \in Seq(S), NEW e \in S
    PROVE  /\ \A i \in 1 .. Len(s) : SubSeq(Append(s, e), 1, i - 1) = SubSeq(s, 1, i - 1)
           /\ SubSeq(Append(s, e), 1, Len(s)) = s
  OBVIOUS

-----------------------------------------------------------------------------
\* The chain.

LEMMA IncludedAppend ==
    ASSUME NEW c \in Seq(Block), NEW b \in Block
    PROVE  /\ Append(c, b) \in Seq(Block)
           /\ Included(Append(c, b)) = Included(c) \cup Range(b.txs)
           /\ HeadTime(Append(c, b)) = b.time
<1>1. /\ Append(c, b) \in Seq(Block)
      /\ Len(c) \in Nat
      /\ Append(c, b) # <<>> /\ Len(Append(c, b)) = Len(c) + 1
      /\ Append(c, b)[Len(c) + 1] = b
  OBVIOUS
<1>2. HeadTime(Append(c, b)) = b.time
  BY <1>1 DEF HeadTime
<1>3. Included(Append(c, b)) = Included(c) \cup Range(b.txs)
  BY AppendFacts DEF Included
<1> QED
  BY <1>1, <1>2, <1>3

LEMMA IncludedFront ==
    ASSUME NEW c \in Seq(Block), c # <<>>
    PROVE  LET f == SubSeq(c, 1, Len(c) - 1)
           IN  Included(c) = Included(f) \cup Range(c[Len(c)].txs)
<1> DEFINE f == SubSeq(c, 1, Len(c) - 1)
<1>1. /\ Len(c) \in DOMAIN c
      /\ \A i \in DOMAIN f : i \in DOMAIN c /\ f[i] = c[i]
      /\ \A i \in DOMAIN c : i \in DOMAIN f \/ i = Len(c)
  BY FrontFacts
<1> HIDE DEF f
<1>2. Included(c) = Included(f) \cup Range(c[Len(c)].txs)
  BY <1>1 DEF Included
<1> QED
  BY <1>2 DEF f

\* A transaction that applies is in no block and not in the session, although
\* the index forgets what has expired: what has expired does not apply either.
LEMMA AppliesOnce ==
    ASSUME NEW c \in Seq(Block), NEW txs, NEW t \in Tx, Applies(c, txs, t)
    PROVE  t \notin Included(c) /\ t \notin Range(txs)
<1>1. t \notin Indexed(c) /\ t \notin Range(txs) /\ Timely(c, t)
  BY DEF Applies, Known
<1>2. CASE c = <<>>
  BY <1>1, <1>2, EmptyFacts DEF Included
<1>3. CASE c # <<>>
  <2>1. HeadTime(c) < Expiration[t]
    BY <1>1, <1>3 DEF Timely
  <2>2. HeadTime(c) \in Nat /\ Expiration[t] \in Nat
    <3>1. Len(c) \in DOMAIN c /\ c[Len(c)] \in Block
      BY <1>3
    <3> QED
      BY <1>3, <3>1 DEF HeadTime, Block
  <2> QED
    BY <1>1, <2>1, <2>2 DEF Indexed
<1> QED
  BY <1>2, <1>3

\* A transaction that depends on nothing applies until it is known or expires.
LEMMA FreeApplies ==
    ASSUME NEW c \in Seq(Block), NEW txs, NEW t \in Tx,
           Free(t), HeadTime(c) < Expiration[t], t \notin Known(c, txs)
    PROVE  Applies(c, txs, t)
<1>1. HeadTime(c) \in Nat /\ Expiration[t] \in Nat /\ MaxAhead \in Nat
  <2>1. c # <<>> => Len(c) \in DOMAIN c /\ c[Len(c)] \in Block
    OBVIOUS
  <2> QED
    BY <2>1 DEF HeadTime, Block
<1>2. Timely(c, t)
  BY <1>1 DEF Timely, Free
<1> QED
  BY <1>2 DEF Applies, Free

LEMMA AllApplyAppend ==
    ASSUME NEW c, NEW s \in Seq(Tx), NEW t \in Tx, AllApply(c, s), Applies(c, s, t)
    PROVE  AllApply(c, Append(s, t))
<1> DEFINE a == Append(s, t)
<1>1. /\ Len(s) \in Nat /\ DOMAIN s = 1 .. Len(s)
      /\ \A i \in DOMAIN s : a[i] = s[i]
      /\ a[Len(s) + 1] = t
      /\ \A i \in DOMAIN a : i \in DOMAIN s \/ i = Len(s) + 1
  BY AppendFacts
<1>2. /\ \A i \in 1 .. Len(s) : SubSeq(a, 1, i - 1) = SubSeq(s, 1, i - 1)
      /\ SubSeq(a, 1, (Len(s) + 1) - 1) = s
  BY <1>1, BeginningOfAppend
<1> HIDE DEF a
<1>3. ASSUME NEW i \in DOMAIN a PROVE Applies(c, SubSeq(a, 1, i - 1), a[i])
  <2>1. CASE i \in DOMAIN s
    BY <1>1, <1>2, <2>1 DEF AllApply
  <2>2. CASE i = Len(s) + 1
    BY <1>1, <1>2, <2>2
  <2> QED
    BY <1>1, <2>1, <2>2
<1> QED
  BY <1>3 DEF a, AllApply

LEMMA AllApplyEmpty == \A c : AllApply(c, <<>>)
  BY EmptyFacts DEF AllApply

\* The transactions of a list that applies are different, and new to the chain.
LEMMA AllApplyOnce ==
    ASSUME NEW c \in Seq(Block), NEW s \in Seq(Tx), AllApply(c, s)
    PROVE  /\ Range(s) \cap Included(c) = {}
           /\ \A i, j \in DOMAIN s : s[i] = s[j] => i = j
<1>1. DOMAIN s = 1 .. Len(s) /\ Len(s) \in Nat /\ \A i \in DOMAIN s : s[i] \in Tx
  OBVIOUS
<1>2. ASSUME NEW i \in DOMAIN s
      PROVE  s[i] \notin Included(c) /\ s[i] \notin Range(SubSeq(s, 1, i - 1))
  BY <1>1, AppliesOnce DEF AllApply
<1>3. ASSUME NEW i \in DOMAIN s, NEW j \in DOMAIN s, i < j PROVE s[i] # s[j]
  <2> DEFINE p == SubSeq(s, 1, j - 1)
  <2>1. i \in DOMAIN p /\ p[i] = s[i]
    <3>1. /\ p \in Seq(Tx) /\ Len(p) = j - 1
          /\ \A k \in 1 .. j - 1 : p[k] = s[k]
      BY <1>1, SubSeqProperties
    <3> HIDE DEF p
    <3>2. DOMAIN p = 1 .. j - 1
      BY <3>1, LenProperties
    <3>3. i \in 1 .. j - 1
      BY <1>1, <1>3
    <3> QED
      BY <3>1, <3>2, <3>3
  <2> HIDE DEF p
  <2>2. s[i] \in Range(p)
    BY <2>1, InRange
  <2> QED
    BY <1>2, <2>2 DEF p
<1>4. ASSUME NEW i \in DOMAIN s, NEW j \in DOMAIN s, s[i] = s[j] PROVE i = j
  BY <1>1, <1>3, <1>4
<1>5. Range(s) \cap Included(c) = {}
  BY <1>2 DEF Range
<1> QED
  BY <1>4, <1>5

LEMMA InOrderAppendBoth ==
    ASSUME NEW s \in Seq(Tx), NEW p \in Seq(Tx), NEW t \in Tx, InOrder(s, p)
    PROVE  InOrder(Append(s, t), Append(p, t))
<1> DEFINE a == Append(s, t)
           q == Append(p, t)
<1>1. /\ \A i \in DOMAIN s : a[i] = s[i] /\ i < Len(s) + 1
      /\ a[Len(s) + 1] = t /\ Len(s) + 1 \in Nat
      /\ \A i \in DOMAIN a : i \in DOMAIN s \/ i = Len(s) + 1
  BY AppendFacts
<1>2. /\ \A m \in DOMAIN p : m \in DOMAIN q /\ q[m] = p[m] /\ m < Len(p) + 1
      /\ q[Len(p) + 1] = t /\ Len(p) + 1 \in DOMAIN q
  BY AppendFacts
<1>3. Range(a) = Range(s) \cup {t} /\ Range(q) = Range(p) \cup {t}
  BY RangeAppend
<1>4. DOMAIN s \subseteq Nat
  OBVIOUS
<1> HIDE DEF a, q
<1>5. ASSUME NEW i \in DOMAIN a, NEW j \in DOMAIN a, i < j
      PROVE  \E m, n \in DOMAIN q : m < n /\ q[m] = a[i] /\ q[n] = a[j]
  <2>1. i \in DOMAIN s
    BY <1>1, <1>4, <1>5
  <2>2. CASE j \in DOMAIN s
    <3>1. PICK m, n \in DOMAIN p : m < n /\ p[m] = s[i] /\ p[n] = s[j]
      BY <1>5, <2>1, <2>2 DEF InOrder
    <3> QED
      BY <1>1, <1>2, <2>1, <2>2, <3>1
  <2>3. CASE j = Len(s) + 1
    <3>1. PICK m \in DOMAIN p : p[m] = s[i]
      <4>1. s[i] \in Range(p)
        BY <2>1, InRange DEF InOrder
      <4> QED
        BY <4>1 DEF Range
    <3> QED
      BY <1>1, <1>2, <2>1, <2>3, <3>1
  <2> QED
    BY <1>1, <2>2, <2>3
<1>6. Range(a) \subseteq Range(q)
  BY <1>3 DEF InOrder
<1> QED
  BY <1>5, <1>6 DEF a, q, InOrder

LEMMA InOrderAppend ==
    ASSUME NEW s \in Seq(Tx), NEW p \in Seq(Tx), NEW t \in Tx, InOrder(s, p)
    PROVE  InOrder(s, Append(p, t))
<1> DEFINE q == Append(p, t)
<1>1. \A m \in DOMAIN p : m \in DOMAIN q /\ q[m] = p[m]
  BY AppendFacts
<1>2. Range(q) = Range(p) \cup {t}
  BY RangeAppend
<1> HIDE DEF q
<1>3. InOrder(s, q)
  BY <1>1, <1>2 DEF InOrder
<1> QED
  BY <1>3 DEF q

LEMMA InOrderEmpty == \A p : InOrder(<<>>, p)
  BY EmptyFacts DEF InOrder

LEMMA OnceAppend ==
    ASSUME NEW S, NEW s \in Seq(S), NEW e \in S, Once(s), e \notin Range(s)
    PROVE  Once(Append(s, e))
<1> DEFINE a == Append(s, e)
<1>1. /\ \A i \in DOMAIN s : a[i] = s[i] /\ a[i] # e
      /\ a[Len(s) + 1] = e
      /\ \A i \in DOMAIN a : i \in DOMAIN s \/ i = Len(s) + 1
  BY AppendFacts, InRange
<1> HIDE DEF a
<1>2. Once(a)
  BY <1>1 DEF Once
<1> QED
  BY <1>2 DEF a

LEMMA Records ==
    /\ Closed \in [open : BOOLEAN, txs : Seq(Tx)] /\ ~Closed.open /\ Closed.txs = <<>>
    /\ Opened \in [open : BOOLEAN, txs : Seq(Tx)] /\ Opened.open /\ Opened.txs = <<>>
    /\ NoBlock \in Block
  BY EmptyFacts DEF Closed, Opened, NoBlock, Block

LEMMA EmptySession == \A c : /\ Once(<<>>) /\ Range(<<>>) \cap Included(c) = {}
                             /\ AllApply(c, <<>>) /\ \A p : InOrder(<<>>, p)
  BY EmptyFacts, AllApplyEmpty, InOrderEmpty DEF Once

-----------------------------------------------------------------------------
\* The steps.

\* Whether the transaction applies or is refused.
LEMMA PushTransaction ==
    ASSUME PendingInv, pc # "produce", NEW t \in Tx, _push_transaction(t), chain' = chain
    PROVE  /\ session' \in [open : BOOLEAN, txs : Seq(Tx)] /\ session'.open
           /\ pending' \in Seq(Tx)
           /\ SessionOnce'
           /\ AllApply(chain', session'.txs) /\ InOrder(session'.txs, pending')
           /\ Range(pending) \subseteq Range(pending')
           /\ Applies(chain, session.txs, t) => t \in Range(pending')
<1>1. /\ chain \in Seq(Block) /\ pending \in Seq(Tx)
      /\ session \in [open : BOOLEAN, txs : Seq(Tx)] /\ session.txs \in Seq(Tx)
      /\ AllApply(chain, session.txs) /\ InOrder(session.txs, pending)
      /\ SessionOnce
  BY DEF PendingInv, TypeOK, SessionInv
<1>2. CASE Applies(chain, session.txs, t)
  <2>1. /\ session' = [open |-> TRUE, txs |-> Append(session.txs, t)]
        /\ pending' = Append(pending, t)
    BY <1>2 DEF _push_transaction
  <2>2. /\ session'.open /\ session'.txs = Append(session.txs, t)
        /\ session'.txs \in Seq(Tx) /\ pending' \in Seq(Tx)
        /\ session' \in [open : BOOLEAN, txs : Seq(Tx)]
    BY <1>1, <2>1
  <2>3. t \notin Included(chain) /\ t \notin Range(session.txs)
    BY <1>1, <1>2, AppliesOnce
  <2>4. /\ Range(session'.txs) = Range(session.txs) \cup {t}
        /\ Range(pending') = Range(pending) \cup {t}
    BY <1>1, <2>1, <2>2, RangeAppend
  <2>5. Once(session'.txs)
    BY <1>1, <2>2, <2>3, OnceAppend DEF SessionOnce
  <2>6. SessionOnce'
    BY <1>1, <2>3, <2>4, <2>5 DEF SessionOnce
  <2>7. AllApply(chain', session'.txs)
    BY <1>1, <1>2, <2>2, AllApplyAppend
  <2>8. InOrder(session'.txs, pending')
    BY <1>1, <2>1, <2>2, InOrderAppendBoth
  <2> QED
    BY <2>2, <2>4, <2>6, <2>7, <2>8
<1>3. CASE ~Applies(chain, session.txs, t)
  <2>1. session' = [session EXCEPT !.open = TRUE] /\ pending' = pending
    BY <1>3 DEF _push_transaction
  <2>2. /\ session' \in [open : BOOLEAN, txs : Seq(Tx)]
        /\ session'.open /\ session'.txs = session.txs
    BY <1>1, <2>1
  <2> QED
    BY <1>1, <1>3, <2>1, <2>2 DEF SessionOnce
<1> QED
  BY <1>2, <1>3

LEMMA PushTransactionInv ==
    ASSUME PendingInv, NEW t \in Tx, push_transaction(t)
    PROVE  PendingInv'
<1>1. /\ pc = "idle" /\ pc' = "idle" /\ chain' = chain /\ popped' = popped
      /\ todo' = todo /\ postponing' = postponing /\ block' = block
      /\ _push_transaction(t)
  BY DEF push_transaction
<1>2. /\ session' \in [open : BOOLEAN, txs : Seq(Tx)] /\ session'.open
      /\ pending' \in Seq(Tx)
      /\ SessionOnce'
      /\ AllApply(chain', session'.txs) /\ InOrder(session'.txs, pending')
      /\ Range(pending) \subseteq Range(pending')
      /\ Applies(chain, session.txs, t) => t \in Range(pending')
  BY <1>1, PushTransaction
<1>3. owed' = owed \/ (owed' = owed \cup Owed({t}, chain) /\ t \in Range(pending'))
  BY <1>2 DEF push_transaction
<1>4. \A u \in Owed({t}, chain) : u = t /\ Free(u) /\ HeadTime(chain) < Expiration[u]
  BY DEF Owed
<1>5. owed' \subseteq Tx
  BY <1>3, <1>4 DEF PendingInv, TypeOK
<1>6. TypeOK'
  BY <1>1, <1>2, <1>5 DEF PendingInv, TypeOK
<1>7. OwedInv'
  BY <1>1, <1>2, <1>3, <1>4 DEF PendingInv, OwedInv
<1> QED
  BY <1>1, <1>2, <1>6, <1>7 DEF PendingInv, PhaseInv, TimesGrow, BlocksOnce, SessionInv

\* The pending list is moved away, from an idle node or when a block was built.
LEMMA WithoutPendingInv ==
    ASSUME PendingInv, without_pending_transactions,
           \/ pc = "idle"
           \/ pc = "produce",
           UNCHANGED <<chain, popped, postponing, block, owed>>
    PROVE  PendingInv'
<1>1. /\ todo' = pending /\ pending' = <<>> /\ session' = Closed /\ pc' = "push"
      /\ chain' = chain /\ popped' = popped /\ postponing' = postponing
      /\ block' = block /\ owed' = owed
  BY DEF without_pending_transactions
<1>2. TypeOK'
  BY <1>1, Records, EmptyFacts DEF PendingInv, TypeOK
<1>3. OwedInv'
  <2>1. Range(pending') = {} /\ popped = <<>> /\ Range(popped) = {}
    BY <1>1, EmptyFacts DEF PendingInv, PhaseInv
  <2>2. owed \subseteq Included(chain) \cup Range(pending) \cup Range(todo)
    BY <2>1 DEF PendingInv, OwedInv
  <2>3. pc = "idle" => Range(todo) = {}
    BY EmptyFacts DEF PendingInv, TypeOK
  <2>4. owed \subseteq Included(chain) \cup Range(pending)
    BY <2>1, <2>2, <2>3 DEF PendingInv, OwedInv
  <2> QED
    BY <1>1, <2>4 DEF PendingInv, OwedInv
<1>4. SessionOnce' /\ SessionInv'
  BY <1>1, Records, EmptySession DEF SessionOnce, SessionInv
<1>5. PhaseInv'
  BY <1>1 DEF PendingInv, PhaseInv
<1> QED
  BY <1>1, <1>2, <1>3, <1>4, <1>5 DEF PendingInv, TimesGrow, BlocksOnce

LEMMA PushBlockInv == PendingInv /\ push_block => PendingInv'
  BY WithoutPendingInv DEF push_block

LEMMA PopBlockInv == PendingInv /\ pop_block => PendingInv'
<1> SUFFICES ASSUME PendingInv, pop_block PROVE PendingInv'
  OBVIOUS
<1> DEFINE last == chain[Len(chain)].txs
<1>1. /\ pc = "push" /\ pc' = pc /\ chain # <<>> /\ block = NoBlock
      /\ popped' = last \o popped /\ session' = Closed
      /\ chain' = SubSeq(chain, 1, Len(chain) - 1)
      /\ pending' = pending /\ todo' = todo /\ postponing' = postponing
      /\ block' = block /\ owed' = owed
  BY DEF pop_block
<1>2. chain \in Seq(Block) /\ popped \in Seq(Tx) /\ pending = <<>>
  BY <1>1 DEF PendingInv, TypeOK
<1>3. /\ chain' \in Seq(Block)
      /\ Len(chain) \in DOMAIN chain /\ chain[Len(chain)] \in Block
      /\ DOMAIN chain = 1 .. Len(chain) /\ DOMAIN chain' = 1 .. Len(chain) - 1
      /\ Len(chain') = Len(chain) - 1
      /\ \A i \in DOMAIN chain' : i \in DOMAIN chain /\ i < Len(chain) /\ chain'[i] = chain[i]
      /\ Included(chain) = Included(chain') \cup Range(last)
  <2>1. /\ chain' \in Seq(Block)
        /\ Len(chain) \in DOMAIN chain /\ chain[Len(chain)] \in Block
        /\ DOMAIN chain = 1 .. Len(chain) /\ DOMAIN chain' = 1 .. Len(chain) - 1
        /\ Len(chain') = Len(chain) - 1
        /\ \A i \in DOMAIN chain' : i \in DOMAIN chain /\ i < Len(chain) /\ chain'[i] = chain[i]
    <3> DEFINE f == SubSeq(chain, 1, Len(chain) - 1)
    <3>1. /\ f \in Seq(Block)
          /\ Len(chain) \in DOMAIN chain /\ chain[Len(chain)] \in Block
          /\ DOMAIN chain = 1 .. Len(chain) /\ DOMAIN f = 1 .. Len(chain) - 1
          /\ Len(f) = Len(chain) - 1
          /\ \A i \in DOMAIN f : i \in DOMAIN chain /\ i < Len(chain) /\ f[i] = chain[i]
      <4>1. chain \in Seq(Block) /\ chain # <<>>
        BY <1>1, <1>2
      <4> QED
        BY <4>1, FrontFacts
    <3>2. chain' = f
      BY <1>1
    <3> HIDE DEF f
    <3> QED
      BY <3>1, <3>2
  <2>2. Included(chain) = Included(chain') \cup Range(last)
    BY <1>1, <1>2, IncludedFront
  <2> QED
    BY <2>1, <2>2
<1>4. last \in Seq(Tx)
  BY <1>3 DEF Block
<1>5. popped' \in Seq(Tx) /\ Range(popped') = Range(last) \cup Range(popped)
  BY <1>1, <1>2, <1>4, RangeConcat
<1> HIDE DEF last
<1>6. TypeOK'
  BY <1>1, <1>3, <1>5, Records DEF PendingInv, TypeOK
<1>7. HeadTime(chain') < HeadTime(chain) /\ HeadTime(chain) \in Nat /\ HeadTime(chain') \in Nat
  <2>1. HeadTime(chain) = chain[Len(chain)].time /\ HeadTime(chain) \in Nat /\ HeadTime(chain) > 0
    BY <1>1, <1>3 DEF HeadTime, Block, PendingInv, TimesGrow
  <2>2. CASE chain' = <<>>
    BY <2>1, <2>2 DEF HeadTime
  <2>3. CASE chain' # <<>>
    <3>1. Len(chain') \in DOMAIN chain' /\ chain'[Len(chain')] \in Block
      BY <1>3, <2>3
    <3>2. HeadTime(chain') = chain[Len(chain')].time /\ HeadTime(chain') \in Nat
      BY <1>3, <2>3, <3>1 DEF HeadTime, Block
    <3>3. chain[Len(chain')].time < chain[Len(chain)].time
      BY <1>3, <3>1 DEF PendingInv, TimesGrow
    <3> QED
      BY <2>1, <3>2, <3>3
  <2> QED
    BY <2>2, <2>3
<1>8. OwedInv'
  <2>1. owed \subseteq Tx /\ \A t \in owed : Expiration[t] \in Nat
    BY DEF PendingInv, TypeOK
  <2>2. \A t \in owed : Free(t) /\ HeadTime(chain') < Expiration[t]
    BY <1>7, <2>1 DEF PendingInv, OwedInv
  <2>3. owed \subseteq Included(chain') \cup Range(pending) \cup Range(popped') \cup Range(todo)
    BY <1>1, <1>3, <1>5 DEF PendingInv, OwedInv
  <2> QED
    BY <1>1, <2>2, <2>3 DEF OwedInv
<1>9. BlocksOnce' /\ TimesGrow'
  BY <1>3 DEF PendingInv, BlocksOnce, TimesGrow
<1>10. SessionOnce' /\ SessionInv'
  BY <1>1, Records, EmptySession DEF SessionOnce, SessionInv
<1> QED
  BY <1>1, <1>6, <1>8, <1>9, <1>10 DEF PendingInv, PhaseInv

\* A block that is applied: each of its transactions is new, and what expires
\* with it is owed no longer.
LEMMA ApplyBlockInv ==
    ASSUME PendingInv, NEW time \in Nat, NEW txs \in Seq(Tx), _apply_block(time, txs),
           pc' = pc, block' \in {block, NoBlock}
    PROVE  PendingInv'
<1> DEFINE b == [time |-> time, txs |-> txs]
<1>1. /\ pc = "push" /\ AllApply(chain, txs) /\ time \in HeadTime(chain) + 1 .. MaxTime
      /\ chain' = Append(chain, b) /\ owed' = Owed(owed \cup Range(txs), chain')
      /\ session' = session /\ pending' = pending /\ popped' = popped
      /\ todo' = todo /\ postponing' = postponing
  BY DEF _apply_block
<1>2. chain \in Seq(Block) /\ session.txs = <<>> /\ block \in Block
  BY <1>1 DEF PendingInv, TypeOK
<1>3. b \in Block /\ b.time = time /\ b.txs = txs
  BY DEF Block
<1> HIDE DEF b
<1>4. /\ chain' \in Seq(Block) /\ HeadTime(chain') = time
      /\ Included(chain') = Included(chain) \cup Range(txs)
  BY <1>1, <1>2, <1>3, IncludedAppend
<1>5. /\ Len(chain) \in Nat /\ DOMAIN chain = 1 .. Len(chain)
      /\ \A i \in DOMAIN chain : chain'[i] = chain[i]
      /\ chain'[Len(chain) + 1] = b
      /\ \A i \in DOMAIN chain' : i \in DOMAIN chain \/ i = Len(chain) + 1
  BY <1>1, <1>2, <1>3, AppendFacts
<1>6. Range(txs) \subseteq Tx
  BY RangeType
<1>7. TypeOK'
  <2>1. owed' \subseteq Tx
    BY <1>1, <1>6 DEF Owed, PendingInv, TypeOK
  <2> QED
    BY <1>1, <1>2, <1>4, <2>1, Records DEF PendingInv, TypeOK
<1>8. OwedInv'
  <2>1. \A t \in owed' : Free(t) /\ HeadTime(chain') < Expiration[t] /\ t \in owed \cup Range(txs)
    BY <1>1 DEF Owed
  <2>2. owed' \subseteq Included(chain') \cup Range(pending) \cup Range(popped) \cup Range(todo)
    BY <1>1, <1>4, <2>1 DEF PendingInv, OwedInv
  <2> QED
    BY <1>1, <2>1, <2>2 DEF OwedInv
<1>9. TimesGrow'
  <2>0. \A i \in DOMAIN chain : chain[i].time \in Nat
    <3>1. \A i \in DOMAIN chain : chain[i] \in Block
      BY <1>2
    <3> QED
      BY <3>1 DEF Block
  <2>1. HeadTime(chain) \in Nat /\ HeadTime(chain) < time /\ time > 0
        /\ \A i \in DOMAIN chain : chain[i].time <= HeadTime(chain)
    <3>1. CASE chain = <<>>
      BY <1>1, <3>1, EmptyFacts DEF HeadTime
    <3>2. CASE chain # <<>>
      <4>1. Len(chain) \in DOMAIN chain /\ chain[Len(chain)] \in Block
            /\ HeadTime(chain) = chain[Len(chain)].time
        BY <1>2, <1>5, <3>2 DEF HeadTime
      <4>2. \A i \in DOMAIN chain : i < Len(chain) => chain[i].time < HeadTime(chain)
        BY <4>1 DEF PendingInv, TimesGrow
      <4>3. HeadTime(chain) \in Nat /\ HeadTime(chain) < time /\ time > 0
        BY <1>1, <4>1 DEF Block
      <4>4. ASSUME NEW i \in DOMAIN chain PROVE chain[i].time <= HeadTime(chain)
        <5>1. i < Len(chain) \/ i = Len(chain)
          BY <1>5
        <5>2. i < Len(chain) => chain[i].time < HeadTime(chain)
          BY <4>2
        <5>3. chain[i].time \in Nat
          BY <2>0
        <5> QED
          BY <4>1, <4>3, <5>1, <5>2, <5>3
      <4> QED
        BY <4>3, <4>4
    <3> QED
      BY <3>1, <3>2
  <2>2. \A n \in DOMAIN chain : n < Len(chain) + 1 /\ chain[n].time < time
    BY <1>5, <2>0, <2>1
  <2>3. \A n \in DOMAIN chain' : chain'[n].time > 0
    BY <1>3, <1>5, <2>1 DEF PendingInv, TimesGrow
  <2>4. ASSUME NEW m \in DOMAIN chain', NEW n \in DOMAIN chain', m < n
        PROVE  chain'[m].time < chain'[n].time
    <3>1. m \in DOMAIN chain
      BY <1>5, <2>2, <2>4
    <3>2. CASE n \in DOMAIN chain
      BY <1>5, <2>4, <3>1, <3>2 DEF PendingInv, TimesGrow
    <3>3. CASE n = Len(chain) + 1
      BY <1>3, <1>5, <2>2, <3>1, <3>3
    <3> QED
      BY <1>5, <3>2, <3>3
  <2> QED
    BY <2>3, <2>4 DEF TimesGrow
<1>10. BlocksOnce'
  <2>1. Once(txs) /\ Range(txs) \cap Included(chain) = {}
    BY <1>1, <1>2, AllApplyOnce DEF Once
  <2>2. \A n \in DOMAIN chain : Range(chain[n].txs) \subseteq Included(chain)
    BY DEF Included
  <2>3. \A n \in DOMAIN chain' : Once(chain'[n].txs)
    BY <1>3, <1>5, <2>1 DEF PendingInv, BlocksOnce
  <2>4. ASSUME NEW m \in DOMAIN chain', NEW n \in DOMAIN chain', m # n
        PROVE  Range(chain'[m].txs) \cap Range(chain'[n].txs) = {}
    <3>1. CASE m \in DOMAIN chain /\ n \in DOMAIN chain
      BY <1>5, <2>4, <3>1 DEF PendingInv, BlocksOnce
    <3>2. CASE m \in DOMAIN chain /\ n = Len(chain) + 1
      BY <1>3, <1>5, <2>1, <2>2, <3>2
    <3>3. CASE n \in DOMAIN chain /\ m = Len(chain) + 1
      BY <1>3, <1>5, <2>1, <2>2, <3>3
    <3> QED
      BY <1>5, <2>4, <3>1, <3>2, <3>3
  <2> QED
    BY <2>3, <2>4 DEF BlocksOnce
<1>11. SessionOnce' /\ SessionInv'
  BY <1>1, <1>2, EmptySession DEF SessionOnce, SessionInv
<1>12. PhaseInv'
  BY <1>1 DEF PendingInv, PhaseInv
<1> QED
  BY <1>7, <1>8, <1>9, <1>10, <1>11, <1>12 DEF PendingInv

LEMMA ApplyPeerBlockInv == PendingInv /\ ApplyPeerBlock => PendingInv'
<1> SUFFICES ASSUME PendingInv, ApplyPeerBlock PROVE PendingInv'
  OBVIOUS
<1>1. PICK time \in 1 .. MaxTime, txs \in Lists : _apply_block(time, txs)
  BY DEF ApplyPeerBlock
<1>2. txs \in Seq(Tx) /\ time \in Nat
  <2>1. PICK n \in 0 .. MaxBlockTxs : txs \in [1 .. n -> Tx]
    BY <1>1 DEF Lists
  <2>2. n \in Nat
    BY <2>1
  <2> QED
    BY <1>1, <2>1, <2>2
<1>3. pc' = pc /\ block' = block
  BY DEF ApplyPeerBlock
<1> QED
  BY <1>1, <1>2, <1>3, ApplyBlockInv

LEMMA ApplyOwnBlockInv == PendingInv /\ ApplyOwnBlock => PendingInv'
<1> SUFFICES ASSUME PendingInv, ApplyOwnBlock PROVE PendingInv'
  OBVIOUS
<1>1. block.time \in Nat /\ block.txs \in Seq(Tx)
  BY DEF PendingInv, TypeOK, Block
<1>2. _apply_block(block.time, block.txs) /\ pc' = pc /\ block' = NoBlock
  BY DEF ApplyOwnBlock
<1> QED
  BY <1>1, <1>2, ApplyBlockInv

\* The popped transactions go before those that were pending.
LEMMA EndPushInv == PendingInv /\ EndPush => PendingInv'
<1> SUFFICES ASSUME PendingInv, EndPush PROVE PendingInv'
  OBVIOUS
<1>1. /\ pc = "push" /\ pc' = "restore" /\ todo' = popped \o todo /\ popped' = <<>>
      /\ block' = NoBlock /\ chain' = chain /\ session' = session
      /\ pending' = pending /\ postponing' = postponing /\ owed' = owed
  BY DEF EndPush
<1>2. /\ popped \in Seq(Tx) /\ todo \in Seq(Tx) /\ session.txs = <<>>
  BY <1>1 DEF PendingInv, TypeOK
<1>3. todo' \in Seq(Tx) /\ Range(todo') = Range(popped) \cup Range(todo)
  BY <1>1, <1>2, RangeConcat
<1>4. TypeOK'
  BY <1>1, <1>3, Records, EmptyFacts DEF PendingInv, TypeOK
<1>5. OwedInv'
  BY <1>1, <1>3 DEF PendingInv, OwedInv
<1>6. SessionOnce' /\ SessionInv'
  BY <1>1, <1>2, EmptySession DEF SessionOnce, SessionInv
<1> QED
  BY <1>1, <1>4, <1>5, <1>6 DEF PendingInv, PhaseInv, TimesGrow, BlocksOnce

\* A transaction that is not pushed again is in the chain or in the session, or
\* it is refused and was owed no longer, or it is kept for later.
LEMMA RestoreInv == PendingInv /\ Restore => PendingInv'
<1> SUFFICES ASSUME PendingInv, Restore PROVE PendingInv'
  OBVIOUS
<1> DEFINE t == Head(todo)
<1>1. /\ pc = "restore" /\ pc' = pc /\ todo # <<>> /\ todo' = Tail(todo)
      /\ chain' = chain /\ popped' = popped /\ block' = block /\ owed' = owed
      /\ postponing' \in {postponing, TRUE}
  BY DEF Restore
<1>2. /\ chain \in Seq(Block) /\ pending \in Seq(Tx) /\ todo \in Seq(Tx)
      /\ session \in [open : BOOLEAN, txs : Seq(Tx)] /\ session.txs \in Seq(Tx)
      /\ AllApply(chain, session.txs) /\ InOrder(session.txs, pending) /\ SessionOnce
      /\ owed \subseteq Tx /\ popped = <<>> /\ postponing \in BOOLEAN
  BY <1>1 DEF PendingInv, TypeOK, PhaseInv, SessionInv
<1>3. t \in Tx /\ todo' \in Seq(Tx) /\ Range(todo) = {t} \cup Range(todo')
  BY <1>1, <1>2, HeadTail
<1>4. \/ t \in Known(chain, session.txs) /\ session' = session /\ pending' = pending
      \/ t \notin Known(chain, session.txs) /\ _push_transaction(t)
      \/ pending' = Append(pending, t) /\ session' = session
  BY DEF Restore
<1> HIDE DEF t
<1>5. /\ session' \in [open : BOOLEAN, txs : Seq(Tx)] /\ pending' \in Seq(Tx)
      /\ ~session'.open => session'.txs = <<>>
      /\ SessionOnce'
      /\ AllApply(chain', session'.txs) /\ InOrder(session'.txs, pending')
      /\ Range(pending) \subseteq Range(pending')
      /\ t \in owed => t \in Included(chain) \cup Range(pending')
  <2>1. CASE t \in Known(chain, session.txs) /\ session' = session /\ pending' = pending
    <3>1. Range(session.txs) \subseteq Range(pending)
      BY <1>2 DEF InOrder
    <3>2. t \in Included(chain) \cup Range(pending)
      BY <2>1, <3>1 DEF Known, Indexed
    <3> QED
      BY <1>1, <1>2, <2>1, <3>2 DEF SessionOnce, PendingInv, TypeOK
  <2>2. CASE t \notin Known(chain, session.txs) /\ _push_transaction(t)
    <3>1. t \in owed => Applies(chain, session.txs, t)
      BY <1>2, <1>3, <2>2, FreeApplies DEF PendingInv, OwedInv
    <3>2. /\ session' \in [open : BOOLEAN, txs : Seq(Tx)] /\ session'.open
          /\ pending' \in Seq(Tx)
          /\ SessionOnce'
          /\ AllApply(chain', session'.txs) /\ InOrder(session'.txs, pending')
          /\ Range(pending) \subseteq Range(pending')
          /\ Applies(chain, session.txs, t) => t \in Range(pending')
      BY <1>1, <1>3, <2>2, PushTransaction
    <3> QED
      BY <3>1, <3>2
  <2>3. CASE pending' = Append(pending, t) /\ session' = session
    <3>1. pending' \in Seq(Tx) /\ Range(pending') = Range(pending) \cup {t}
      BY <1>2, <1>3, <2>3, RangeAppend
    <3>2. InOrder(session.txs, pending')
      BY <1>2, <1>3, <2>3, InOrderAppend
    <3> QED
      BY <1>1, <1>2, <2>3, <3>1, <3>2 DEF SessionOnce, PendingInv, TypeOK
  <2> QED
    BY <1>4, <2>1, <2>2, <2>3
<1>6. TypeOK'
  BY <1>1, <1>2, <1>3, <1>5 DEF PendingInv, TypeOK
<1>7. OwedInv'
  BY <1>1, <1>3, <1>5 DEF PendingInv, OwedInv
<1>8. SessionInv' /\ PhaseInv'
  BY <1>1, <1>5 DEF PendingInv, SessionInv, PhaseInv
<1> QED
  BY <1>1, <1>5, <1>6, <1>7, <1>8 DEF PendingInv, TimesGrow, BlocksOnce

LEMMA RestoredInv == PendingInv /\ Restored => PendingInv'
<1> SUFFICES ASSUME PendingInv, Restored PROVE PendingInv'
  OBVIOUS
<1>1. /\ pc = "restore" /\ pc' = "idle" /\ todo = <<>> /\ postponing' = FALSE
      /\ UNCHANGED <<chain, session, pending, popped, todo, block, owed>>
  BY DEF Restored
<1>2. popped = <<>> /\ block = NoBlock
  BY <1>1 DEF PendingInv, PhaseInv
<1>3. TypeOK'
  BY <1>1, <1>2 DEF PendingInv, TypeOK
<1> QED
  BY <1>1, <1>2, <1>3
  DEF PendingInv, PhaseInv, TimesGrow, BlocksOnce, SessionOnce, SessionInv, OwedInv

LEMMA GenerateInv ==
    ASSUME PendingInv, NEW when \in Nat, generate_block(when)
    PROVE  PendingInv'
<1>1. /\ pc = "idle" /\ pc' = "produce" /\ session' = Opened /\ todo' = pending
      /\ block' = [time |-> when, txs |-> <<>>]
      /\ UNCHANGED <<chain, pending, popped, postponing, owed>>
  BY DEF generate_block
<1>2. block' \in Block
  BY <1>1, EmptyFacts DEF Block
<1>3. TypeOK'
  BY <1>1, <1>2, Records DEF PendingInv, TypeOK
<1>4. OwedInv'
  <2>1. Range(todo) = {} /\ popped = <<>>
    BY <1>1, EmptyFacts DEF PendingInv, TypeOK
  <2>2. owed \subseteq Included(chain) \cup Range(pending) \cup Range(popped)
    BY <1>1, <2>1 DEF PendingInv, OwedInv
  <2> QED
    BY <1>1, <2>2 DEF PendingInv, OwedInv
<1>5. SessionOnce' /\ SessionInv'
  BY <1>1, Records, EmptySession DEF SessionOnce, SessionInv
<1>6. PhaseInv'
  BY <1>1, Records DEF PendingInv, PhaseInv
<1> QED
  BY <1>1, <1>3, <1>4, <1>5, <1>6 DEF PendingInv, TimesGrow, BlocksOnce

LEMMA ProduceInv == PendingInv /\ Produce => PendingInv'
<1> SUFFICES ASSUME PendingInv, Produce PROVE PendingInv'
  OBVIOUS
<1> DEFINE t == Head(todo)
<1>1. /\ pc = "produce" /\ pc' = pc /\ todo # <<>> /\ todo' = Tail(todo)
      /\ UNCHANGED <<chain, pending, popped, postponing, owed>>
  BY DEF Produce
<1>2. /\ chain \in Seq(Block) /\ todo \in Seq(Tx) /\ block \in Block
      /\ block.txs \in Seq(Tx)
      /\ session \in [open : BOOLEAN, txs : Seq(Tx)] /\ session.txs \in Seq(Tx)
      /\ SessionOnce
  BY DEF PendingInv, TypeOK, Block
<1>3. t \in Tx /\ todo' \in Seq(Tx)
  BY <1>1, <1>2, HeadTail
<1>4. \/ /\ Applies(chain, session.txs, t)
         /\ session' = [session EXCEPT !.txs = Append(session.txs, t)]
         /\ block' = [block EXCEPT !.txs = Append(block.txs, t)]
      \/ session' = session /\ block' = block
  BY DEF Produce
<1> HIDE DEF t
<1>5. SessionOnce' /\ TypeOK'
  <2>1. CASE /\ Applies(chain, session.txs, t)
             /\ session' = [session EXCEPT !.txs = Append(session.txs, t)]
             /\ block' = [block EXCEPT !.txs = Append(block.txs, t)]
    <3>1. Append(session.txs, t) \in Seq(Tx) /\ Append(block.txs, t) \in Seq(Tx)
      BY <1>2, <1>3
    <3>2. /\ session' \in [open : BOOLEAN, txs : Seq(Tx)]
          /\ session'.open = session.open /\ session'.txs = Append(session.txs, t)
          /\ block' \in Block
      BY <1>2, <2>1, <3>1 DEF Block
    <3>3. t \notin Included(chain) /\ t \notin Range(session.txs)
      BY <1>2, <1>3, <2>1, AppliesOnce
    <3>4. Range(session'.txs) = Range(session.txs) \cup {t} /\ Once(session'.txs)
      BY <1>2, <1>3, <3>2, <3>3, RangeAppend, OnceAppend DEF SessionOnce
    <3>5. SessionOnce'
      BY <1>1, <1>2, <3>3, <3>4 DEF SessionOnce
    <3>6. session.open
      BY <1>1 DEF PendingInv, PhaseInv
    <3> QED
      BY <1>1, <1>3, <3>2, <3>5, <3>6 DEF PendingInv, TypeOK
  <2>2. CASE session' = session /\ block' = block
    BY <1>1, <1>2, <1>3, <2>2 DEF PendingInv, TypeOK, SessionOnce
  <2> QED
    BY <1>4, <2>1, <2>2
<1>6. OwedInv'
  BY <1>1 DEF PendingInv, OwedInv
<1>7. PhaseInv' /\ SessionInv'
  <2>1. session'.open = session.open
    BY <1>2, <1>4
  <2> QED
    BY <1>1, <2>1 DEF PendingInv, PhaseInv, SessionInv
<1> QED
  BY <1>1, <1>5, <1>6, <1>7 DEF PendingInv, TimesGrow, BlocksOnce

\* The block is pushed, or refused before the pending list is moved away.
LEMMA ProducedInv == PendingInv /\ Produced => PendingInv'
<1> SUFFICES ASSUME PendingInv, Produced PROVE PendingInv'
  OBVIOUS
<1>1. /\ pc = "produce" /\ todo = <<>>
      /\ UNCHANGED <<chain, popped, postponing, owed>>
      /\ \/ without_pending_transactions /\ block' = block
         \/ /\ session' = Closed /\ block' = NoBlock /\ pc' = "idle"
            /\ pending' = pending /\ todo' = todo
  BY DEF Produced
<1>2. CASE without_pending_transactions /\ block' = block
  BY <1>1, <1>2, WithoutPendingInv
<1>3. CASE /\ session' = Closed /\ block' = NoBlock /\ pc' = "idle"
           /\ pending' = pending /\ todo' = todo
  <2>1. popped = <<>> /\ ~postponing
    BY <1>1 DEF PendingInv, PhaseInv
  <2>2. TypeOK'
    BY <1>1, <1>3, <2>1, Records DEF PendingInv, TypeOK
  <2>3. OwedInv'
    BY <1>1, <1>3 DEF PendingInv, OwedInv
  <2>4. SessionOnce' /\ SessionInv'
    BY <1>3, Records, EmptySession DEF SessionOnce, SessionInv
  <2> QED
    BY <1>1, <1>3, <2>1, <2>2, <2>3, <2>4 DEF PendingInv, PhaseInv, TimesGrow, BlocksOnce
<1> QED
  BY <1>1, <1>2, <1>3

LEMMA InitInv == Init => PendingInv
<1> SUFFICES ASSUME Init PROVE PendingInv
  OBVIOUS
<1>1. /\ chain = <<>> /\ session = Closed /\ pending = <<>> /\ popped = <<>> /\ todo = <<>>
      /\ postponing = FALSE /\ block = NoBlock /\ pc = "idle" /\ owed = {}
  BY DEF Init
<1>2. TypeOK
  BY <1>1, Records, EmptyFacts DEF TypeOK
<1>3. SessionOnce /\ SessionInv
  BY <1>1, Records, EmptySession DEF SessionOnce, SessionInv
<1>4. PhaseInv /\ TimesGrow /\ BlocksOnce /\ OwedInv
  BY <1>1, EmptyFacts DEF PhaseInv, TimesGrow, BlocksOnce, OwedInv
<1> QED
  BY <1>2, <1>3, <1>4 DEF PendingInv

LEMMA NextInv == PendingInv /\ [Next]_vars => PendingInv'
<1> SUFFICES ASSUME PendingInv, [Next]_vars PROVE PendingInv'
  OBVIOUS
<1>1. CASE UNCHANGED vars
  BY <1>1 DEF vars, PendingInv, TypeOK, PhaseInv, TimesGrow, BlocksOnce, SessionOnce,
              SessionInv, OwedInv
<1>2. CASE \E t \in Tx : push_transaction(t)
  BY <1>2, PushTransactionInv
<1>3. CASE push_block
  BY <1>3, PushBlockInv
<1>4. CASE pop_block
  BY <1>4, PopBlockInv
<1>5. CASE ApplyPeerBlock
  BY <1>5, ApplyPeerBlockInv
<1>6. CASE EndPush
  BY <1>6, EndPushInv
<1>7. CASE Restore
  BY <1>7, RestoreInv
<1>8. CASE Restored
  BY <1>8, RestoredInv
<1>9. CASE \E when \in 1 .. MaxTime : generate_block(when)
  <2>1. PICK when \in 1 .. MaxTime : generate_block(when)
    BY <1>9
  <2>2. when \in Nat
    BY <2>1
  <2> QED
    BY <2>1, <2>2, GenerateInv
<1>10. CASE Produce
  BY <1>10, ProduceInv
<1>11. CASE Produced
  BY <1>11, ProducedInv
<1>12. CASE ApplyOwnBlock
  BY <1>12, ApplyOwnBlockInv
<1> QED
  BY <1>1, <1>2, <1>3, <1>4, <1>5, <1>6, <1>7, <1>8, <1>9, <1>10, <1>11, <1>12 DEF Next

LEMMA OnceIsNoTwice == BlocksOnce /\ SessionOnce => NoTwice
<1> SUFFICES ASSUME BlocksOnce, SessionOnce PROVE NoTwice
  OBVIOUS
<1>1. \A n \in DOMAIN chain : Range(chain[n].txs) \subseteq Included(chain)
  BY DEF Included
<1>2. \A n \in DOMAIN chain : Range(chain[n].txs) \cap Range(session.txs) = {}
  BY <1>1 DEF SessionOnce
<1>3. \A s \in {session.txs} \cup {chain[n].txs : n \in DOMAIN chain} : Once(s)
  BY DEF BlocksOnce, SessionOnce
<1> QED
  BY <1>2, <1>3 DEF NoTwice, BlocksOnce, Once

-----------------------------------------------------------------------------
\* The invariant the theorems below follow from.
THEOREM PendingInvariant == Spec => []PendingInv
<1>1. Init => PendingInv
  BY InitInv
<1>2. PendingInv /\ [Next]_vars => PendingInv'
  BY NextInv
<1> QED
  BY <1>1, <1>2, PTL DEF Spec

\* The lists, the session and the block under production have their types; an
\* idle node has nothing to go through, and a block is pushed on a state
\* without a session (database::push_block, generate_block).
THEOREM TypeCorrect == Spec => []TypeOK
<1>1. PendingInv => TypeOK
  BY DEF PendingInv
<1> QED
  BY <1>1, PendingInvariant, PTL

\* No transaction is applied twice on one chain and the session on top of it,
\* whatever is popped, applied again and produced, although
\* clear_expired_transactions() forgets transactions that were applied.
THEOREM AppliedOnce == Spec => []NoTwice
<1>1. PendingInv => NoTwice
  BY OnceIsNoTwice DEF PendingInv
<1> QED
  BY <1>1, PendingInvariant, PTL

\* Between two requests the session has transactions of the pending list, in
\* its order, each of which applies where it stands
\* (block_producer::apply_pending_transactions relies on it).
THEOREM SessionFollowsList == Spec => []SessionIsPending
<1>1. PendingInv => SessionIsPending
  BY DEF PendingInv, SessionInv, InOrder, SessionIsPending
<1> QED
  BY <1>1, PendingInvariant, PTL

\* Between two requests every transaction that was accepted or in a block, and
\* that depends on nothing and has not expired, is in the chain or pending:
\* pop_block(), ~pending_transactions_restorer() and a block that is refused
\* lose none.
THEOREM OwedNotLost == Spec => []OwedIsKept
<1>1. ASSUME PendingInv PROVE OwedIsKept
  <2>1. pc = "idle" => Range(todo) = {} /\ Range(popped) = {}
    BY <1>1, EmptyFacts DEF PendingInv, TypeOK
  <2> QED
    BY <1>1, <2>1 DEF PendingInv, OwedInv, OwedIsKept
<1> QED
  BY <1>1, PendingInvariant, PTL
================================================================================
