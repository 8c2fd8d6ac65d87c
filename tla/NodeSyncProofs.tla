-------------------------- MODULE NodeSyncProofs --------------------------
(***************************************************************************)
(* Blocks are asked of one peer at a time, handed to the chain in order,   *)
(* and none is forgotten, for any peers, trees of blocks and limits.       *)
(*                                                                         *)
(* There are three inductive invariants. SyncInv is about what is asked    *)
(* for: PeerOK says of a peer what its fields are, that its list and what  *)
(* it is asked for are blocks it has, and (OwesEachOnce) that every block  *)
(* on its way from it was asked of it and is on its way once; Owned, which *)
(* is RequestsAreOwned, needs that: a block that arrives is taken off the  *)
(* requests of the peer that sent it.                                      *)
(*                                                                         *)
(* Good is about what the lists mean. A block is settled when it and all   *)
(* before it are in the chain, were handed to it, or are never taken by    *)
(* it. A list goes on where settled blocks end (PlaceOK), each block on    *)
(* the one before, so that a block that is first on a list may be handed   *)
(* on. A summary has settled blocks and blocks of the list (ListOK) and,   *)
(* while it is on its way, one that its peer knows (SummaryOK): an answer  *)
(* goes on where the list ends, and an empty one means that the peer has   *)
(* no blocks. An answer is the one to the last question unless the peer    *)
(* was asked twice (OnceOK). While nothing is going on with a peer, what   *)
(* it has to answer are questions about blocks the chain has (IdleOK): a   *)
(* late answer lists nothing new.                                          *)
(*                                                                         *)
(* Honest is about what is handed on: a block that a peer has in process,  *)
(* offered or sends is on its chain (Shown). What a handler adds to it is  *)
(* nothing (NoMore) or comes from the list of the peer, so that the peers  *)
(* that are blamed for a block that is refused are some that have it, and  *)
(* with it all the blocks it builds on.                                    *)
(*                                                                         *)
(* A handler is followed through the calls it makes: Kept is what a call   *)
(* leaves of one peer, Called what it leaves of the node, and a loop over  *)
(* a list is a fold that does not leave the set its steps keep to.         *)
(*                                                                         *)
(* The module starts with the folds, and with what the recursive functions *)
(* of the model compute: that there is a function Path at all, along the   *)
(* ancestors of every block (PathIsPath), and that the steps of a summary  *)
(* end (StepsFacts).                                                       *)
(***************************************************************************)
EXTENDS NodeSync, FiniteSetTheorems, SequenceTheorems, WellFoundedInduction, TLAPS

-----------------------------------------------------------------------------
(* Numbers, and the folds the code is modelled by *)

\* A set of natural numbers has a least one.
LEMMA LeastOf ==
    ASSUME NEW T, T \subseteq Nat, T # {}
    PROVE  \E x \in T : \A y \in T : x <= y
<1> DEFINE Less == {d \in Nat \X Nat : d[1] < d[2]}
<1>1. IsWellFoundedOn(Less, Nat)
  BY NatLessThanWellFounded DEF OpToRel
<1>2. \A x, y \in Nat : y < x => <<y, x>> \in Less
  OBVIOUS
<1> HIDE DEF Less
<1>3. PICK x \in T : \A y \in T : ~(<<y, x>> \in Less)
  BY <1>1, WFMin
<1>4. \A y \in T : x \in Nat /\ y \in Nat /\ ~(y < x)
  BY <1>2, <1>3
<1>5. \A y \in T : x <= y
  BY <1>4
<1> QED
  BY <1>3, <1>5

\* What passes from every number to the next holds for all.
LEMMA Induct ==
    ASSUME NEW T, 0 \in T, \A n \in Nat : n \in T => n + 1 \in T
    PROVE  Nat \subseteq T
<1> SUFFICES ASSUME Nat \ T # {} PROVE FALSE
  OBVIOUS
<1>1. PICK n \in Nat \ T : \A m \in Nat \ T : n <= m
  BY LeastOf
<1>2. n - 1 \in Nat /\ n - 1 \in T /\ n - 1 + 1 = n
  BY <1>1
<1> QED
  BY <1>1, <1>2

\* Min() and Max() of numbers between two others
LEMMA MinMax ==
    ASSUME NEW lo \in Nat, NEW hi \in Nat, NEW T, T \subseteq lo .. hi, T # {}
    PROVE  /\ Min(T) \in T /\ \A y \in T : Min(T) <= y
           /\ Max(T) \in T /\ \A y \in T : Max(T) >= y
<1>1. T \subseteq Nat
  OBVIOUS
<1>2. \E x \in T : \A y \in T : x <= y
  BY <1>1, LeastOf
<1>3. \E x \in T : \A y \in T : x >= y
  <2> DEFINE U == {hi - y : y \in T}
  <2>1. U \subseteq Nat /\ U # {}
    OBVIOUS
  <2>2. PICK u \in U : \A v \in U : u <= v
    <3> HIDE DEF U
    <3> QED
      BY <2>1, LeastOf
  <2>3. PICK x \in T : u = hi - x
    OBVIOUS
  <2>4. ASSUME NEW y \in T PROVE x >= y
    <3>1. hi - y \in U
      OBVIOUS
    <3>2. hi - x <= hi - y /\ x \in Nat /\ y \in Nat
      BY <1>1, <2>2, <2>3, <3>1
    <3> QED
      BY <3>2
  <2> QED
    BY <2>4
<1> QED
  BY <1>2, <1>3 DEF Min, Max

\* A fold takes the elements of a set one after the other, the one that pick
\* chooses first of all last. Good[s] is what may be there after those of s.
Folding(S, pick, base, step, Good) ==
    /\ IsFiniteSet(S)
    /\ \A s \in SUBSET S : s # {} => pick[s] \in s
    /\ base \in Good[{}]
    /\ \A s \in SUBSET S : s # {} =>
          \A e \in Good[s \ {pick[s]}] : step[<<pick[s], e>>] \in Good[s]

FoldOf(h, S, pick, base, step) ==
    \A s \in SUBSET S :
        h[s] = IF s = {} THEN base ELSE step[<<pick[s], h[s \ {pick[s]}]>>]

\* What every step keeps the result has,
LEMMA FoldKeeps ==
    ASSUME NEW S, NEW pick, IsFiniteSet(S), \A s \in SUBSET S : s # {} => pick[s] \in s,
           NEW h, NEW Good, h[{}] \in Good[{}],
           \A s \in SUBSET S :
              s # {} /\ h[s \ {pick[s]}] \in Good[s \ {pick[s]}] => h[s] \in Good[s]
    PROVE  h[S] \in Good[S] /\ \A s \in SUBSET S : h[s] \in Good[s]
<1> DEFINE T == {m \in Nat : \A s \in SUBSET S : Cardinality(s) <= m => h[s] \in Good[s]}
<1>1. \A s \in SUBSET S : IsFiniteSet(s) /\ Cardinality(s) \in Nat
  BY FS_Subset, FS_CardinalityType
<1>2. \A s \in SUBSET S : Cardinality(s) = 0 <=> s = {}
  BY <1>1, FS_EmptySet
<1>3. 0 \in T
  <2>1. \A s \in SUBSET S : Cardinality(s) <= 0 => s = {}
    BY <1>1, <1>2
  <2> QED
    BY <2>1
<1>4. ASSUME NEW m \in Nat, m \in T PROVE m + 1 \in T
  <2> SUFFICES ASSUME NEW s \in SUBSET S, Cardinality(s) <= m + 1
               PROVE  h[s] \in Good[s]
    OBVIOUS
  <2>1. CASE s = {}
    BY <2>1
  <2>2. CASE s # {}
    <3> DEFINE r == s \ {pick[s]}
    <3>1. r \in SUBSET S /\ Cardinality(r) = Cardinality(s) - 1
      BY <1>1, <2>2, FS_RemoveElement
    <3>2. Cardinality(r) <= m
      <4> HIDE DEF T, r
      <4> QED
        BY <1>1, <3>1
    <3>3. h[r] \in Good[r]
      BY <1>4, <3>1, <3>2
    <3> HIDE DEF T
    <3> QED
      BY <2>2, <3>3
  <2> QED
    BY <2>1, <2>2
<1> HIDE DEF T
<1>5. \A m \in Nat : m \in T
  BY <1>3, <1>4, Induct
<1>6. ASSUME NEW s \in SUBSET S PROVE h[s] \in Good[s]
  <2>1. Cardinality(s) \in T /\ Cardinality(s) <= Cardinality(s)
    BY <1>1, <1>5
  <2> QED
    BY <2>1 DEF T
<1> QED
  BY <1>6

\* There is a fold,
LEMMA FoldExists ==
    ASSUME NEW S, NEW pick, NEW base, NEW step, NEW Good, Folding(S, pick, base, step, Good)
    PROVE  \E h : h = [s \in SUBSET S |-> h[s]] /\ FoldOf(h, S, pick, base, step)
<1> DEFINE Right(h, s) == h[s] = IF s = {} THEN base ELSE step[<<pick[s], h[s \ {pick[s]}]>>]
           T == {n \in Nat : \E h : /\ h = [s \in SUBSET S |-> h[s]]
                                    /\ \A s \in SUBSET S : Cardinality(s) <= n => Right(h, s)}
<1>1. \A s \in SUBSET S : IsFiniteSet(s) /\ Cardinality(s) \in Nat
  BY FS_Subset, FS_CardinalityType DEF Folding
<1>2. \A s \in SUBSET S : s # {} =>
         /\ s \ {pick[s]} \in SUBSET S
         /\ Cardinality(s \ {pick[s]}) = Cardinality(s) - 1
  <2>1. \A s \in SUBSET S : s # {} => pick[s] \in s
    BY DEF Folding
  <2> QED
    BY <1>1, <2>1, FS_RemoveElement
<1>3. \A s \in SUBSET S : Cardinality(s) = 0 <=> s = {}
  BY <1>1, FS_EmptySet
<1>4. 0 \in T
  <2> DEFINE h == [s \in SUBSET S |-> base]
  <2>1. h = [s \in SUBSET S |-> h[s]]
    OBVIOUS
  <2>2. ASSUME NEW s \in SUBSET S, Cardinality(s) <= 0 PROVE Right(h, s)
    BY <1>1, <1>3, <2>2
  <2> HIDE DEF h, Right
  <2> QED
    BY <2>1, <2>2
<1>5. ASSUME NEW n \in Nat, n \in T PROVE n + 1 \in T
  <2>1. PICK h : /\ h = [s \in SUBSET S |-> h[s]]
                 /\ \A s \in SUBSET S : Cardinality(s) <= n => Right(h, s)
    BY <1>5
  <2> DEFINE k == [s \in SUBSET S |->
                     IF Cardinality(s) = n + 1 THEN step[<<pick[s], h[s \ {pick[s]}]>>]
                     ELSE h[s]]
  <2>2. ASSUME NEW s \in SUBSET S, Cardinality(s) = n + 1 PROVE Right(k, s)
    <3>1. s # {}
      BY <1>3, <2>2
    <3> DEFINE r == s \ {pick[s]}
    <3>2. r \in SUBSET S /\ Cardinality(r) # n + 1
      <4>1. r \in SUBSET S /\ Cardinality(r) = Cardinality(s) - 1
        BY <1>2, <3>1
      <4> HIDE DEF r, T
      <4> QED
        BY <2>2, <4>1
    <3>3. k[s] = step[<<pick[s], h[r]>>] /\ k[r] = h[r]
      BY <2>2, <3>2
    <3> QED
      BY <3>1, <3>3
  <2>3. ASSUME NEW s \in SUBSET S, Cardinality(s) <= n PROVE Right(k, s)
    <3>1. k[s] = h[s]
      BY <1>1, <2>3
    <3>2. s # {} => k[s \ {pick[s]}] = h[s \ {pick[s]}]
      BY <1>1, <1>2, <2>3
    <3> QED
      BY <2>1, <2>3, <3>1, <3>2
  <2>4. k = [s \in SUBSET S |-> k[s]]
    OBVIOUS
  <2>5. \A s \in SUBSET S : Cardinality(s) <= n + 1 => Right(k, s)
    <3> HIDE DEF k, Right
    <3> QED
      BY <1>1, <2>2, <2>3
  <2> HIDE DEF k, Right
  <2>6. \E f : /\ f = [s \in SUBSET S |-> f[s]]
               /\ \A s \in SUBSET S : Cardinality(s) <= n + 1 => Right(f, s)
    BY <2>4, <2>5
  <2>7. n + 1 \in Nat
    OBVIOUS
  <2> QED
    BY <2>6, <2>7
<1>6. Cardinality(S) \in T
  <2> HIDE DEF T
  <2> QED
    BY <1>1, <1>4, <1>5, Induct
<1>7. \A s \in SUBSET S : Cardinality(s) <= Cardinality(S)
  BY FS_Subset DEF Folding
<1> HIDE DEF Right
<1>8. PICK h : /\ h = [s \in SUBSET S |-> h[s]]
               /\ \A s \in SUBSET S : Right(h, s)
  BY <1>6, <1>7
<1> QED
  BY <1>8 DEF Right, FoldOf

\* and so the fold of good steps is good.
LEMMA FoldGood ==
    ASSUME NEW S, NEW pick, NEW base, NEW step, NEW Good, Folding(S, pick, base, step, Good),
           NEW h, FoldOf(h, S, pick, base, step)
    PROVE  h[S] \in Good[S] /\ \A s \in SUBSET S : h[s] \in Good[s]
<1>1. h[{}] \in Good[{}]
  BY DEF Folding, FoldOf
<1>2. \A s \in SUBSET S :
         s # {} /\ h[s \ {pick[s]}] \in Good[s \ {pick[s]}] => h[s] \in Good[s]
  BY DEF Folding, FoldOf
<1>3. IsFiniteSet(S) /\ \A s \in SUBSET S : s # {} => pick[s] \in s
  BY DEF Folding
<1> QED
  BY <1>1, <1>2, <1>3, FoldKeeps

-----------------------------------------------------------------------------
(* The chains *)

\* What Path is, on some blocks and their ancestors
PathOn(f, A) ==
    /\ f \in [A \cup {None} -> Seq(Blocks)]
    /\ f[None] = <<>>
    /\ \A b \in A : Parent[b] \in A \cup {None} /\ f[b] = Append(f[Parent[b]], b)

LEMMA PathsAgree ==
    ASSUME NEW A \in SUBSET Blocks, NEW B \in SUBSET Blocks, NEW f, NEW g,
           PathOn(f, A), PathOn(g, B)
    PROVE  \A b \in (A \cap B) \cup {None} : f[b] = g[b]
<1> DEFINE Differ == {b \in A \cap B : f[b] # g[b]}
<1>1. f[None] = g[None]
  BY DEF PathOn
<1> SUFFICES ASSUME Differ # {} PROVE FALSE
  BY <1>1
<1>2. PICK b \in Differ : Parent[b] \notin Differ
  <2>1. Differ \in SUBSET Blocks
    OBVIOUS
  <2> HIDE DEF Differ
  <2> QED
    BY <2>1, ChainsAssumption
<1>3. Parent[b] \in (A \cap B) \cup {None}
  BY DEF PathOn
<1>4. f[Parent[b]] = g[Parent[b]]
  BY <1>1, <1>2, <1>3
<1> QED
  BY <1>4 DEF PathOn

LEMMA PathReaches ==
    ASSUME NEW b \in Blocks \cup {None}
    PROVE  \E A \in SUBSET Blocks : b \in A \cup {None} /\ \E f : PathOn(f, A)
<1> DEFINE T == {a \in Blocks : \E A \in SUBSET Blocks : a \in A /\ \E f : PathOn(f, A)}
<1>1. PathOn([a \in {None} |-> <<>>], {})
  BY DEF PathOn
<1> SUFFICES ASSUME Blocks \ T # {} PROVE FALSE
  BY <1>1
<1>2. PICK a \in Blocks \ T : Parent[a] \notin Blocks \ T
  <2> HIDE DEF T
  <2> QED
    BY ChainsAssumption
<1>3. Parent[a] \in T \cup {None} /\ a # None
  BY <1>2, NodeSyncAssumption
<1>4. PICK A \in SUBSET Blocks : Parent[a] \in A \cup {None} /\ \E f : PathOn(f, A)
  BY <1>1, <1>3
<1>5. PICK f : PathOn(f, A)
  BY <1>4
<1>6. a \notin A
  BY <1>5
<1> DEFINE B == A \cup {a}
           g == [x \in B \cup {None} |->
                   IF x = a THEN Append(f[Parent[a]], a) ELSE f[x]]
<1>7. PathOn(g, B)
  <2>1. \A x \in A \cup {None} : g[x] = f[x] /\ f[x] \in Seq(Blocks)
    BY <1>3, <1>5, <1>6 DEF PathOn
  <2>2. g[a] = Append(f[Parent[a]], a) /\ g[a] = Append(g[Parent[a]], a)
    BY <1>4, <2>1
  <2>3. g[a] \in Seq(Blocks)
    <3>1. f[Parent[a]] \in Seq(Blocks) /\ a \in Blocks
      BY <1>4, <2>1
    <3> DEFINE r == f[Parent[a]]
    <3> HIDE DEF g, T, B, r
    <3>2. Append(r, a) \in Seq(Blocks)
      BY <3>1 DEF r
    <3> QED
      BY <2>2, <3>2 DEF r
  <2>4. \A x \in B \cup {None} : g[x] \in Seq(Blocks)
    BY <2>1, <2>3
  <2>5. g \in [B \cup {None} -> Seq(Blocks)]
    BY <2>4
  <2>6. ASSUME NEW x \in B
        PROVE  Parent[x] \in B \cup {None} /\ g[x] = Append(g[Parent[x]], x)
    <3>1. CASE x = a
      BY <1>4, <2>2, <3>1
    <3>2. CASE x \in A
      <4>1. Parent[x] \in A \cup {None} /\ f[x] = Append(f[Parent[x]], x)
        BY <1>5, <3>2 DEF PathOn
      <4> HIDE DEF g
      <4> QED
        BY <2>1, <3>2, <4>1
    <3> QED
      BY <3>1, <3>2
  <2>7. g[None] = <<>>
    BY <1>5, <2>1 DEF PathOn
  <2> HIDE DEF g
  <2> QED
    BY <2>5, <2>6, <2>7 DEF PathOn
<1> HIDE DEF g
<1> QED
  BY <1>7

LEMMA PathIsPath == PathOn(Path, Blocks)
<1> DEFINE At(b, v) == \E A \in SUBSET Blocks :
                          b \in A \cup {None} /\ \E f : PathOn(f, A) /\ v = f[b]
           P == [b \in Blocks \cup {None} |-> CHOOSE v : At(b, v)]
           IsPath(f) == f = [b \in Blocks \cup {None} |->
                               IF b = None THEN <<>> ELSE Append(f[Parent[b]], b)]
<1>1. ASSUME NEW A \in SUBSET Blocks, NEW f, PathOn(f, A), NEW b \in A \cup {None}
      PROVE  P[b] = f[b]
  <2>1. At(b, f[b])
    BY <1>1
  <2>2. At(b, P[b])
    <3> HIDE DEF At
    <3> QED
      BY <2>1
  <2> HIDE DEF P
  <2>3. PICK B \in SUBSET Blocks : b \in B \cup {None} /\ \E g : PathOn(g, B) /\ P[b] = g[b]
    BY <2>2
  <2>4. PICK g : PathOn(g, B) /\ P[b] = g[b]
    BY <2>3
  <2>5. f[b] = g[b]
    BY <1>1, <2>3, <2>4, PathsAgree
  <2> QED
    BY <2>4, <2>5
<1>2. ASSUME NEW b \in Blocks \cup {None}
      PROVE  /\ P[b] \in Seq(Blocks)
             /\ b = None => P[b] = <<>>
             /\ b # None => P[b] = Append(P[Parent[b]], b)
  <2>1. PICK A \in SUBSET Blocks : b \in A \cup {None} /\ \E f : PathOn(f, A)
    BY PathReaches
  <2>2. PICK f : PathOn(f, A)
    BY <2>1
  <2> HIDE DEF P
  <2>3. P[b] = f[b] /\ f[b] \in Seq(Blocks)
    BY <1>1, <2>1, <2>2 DEF PathOn
  <2>4. CASE b = None
    BY <2>2, <2>3, <2>4 DEF PathOn
  <2>5. CASE b # None
    <3>1. Parent[b] \in A \cup {None} /\ f[b] = Append(f[Parent[b]], b)
      BY <2>1, <2>2, <2>5 DEF PathOn
    <3>2. P[Parent[b]] = f[Parent[b]]
      BY <1>1, <2>2, <3>1
    <3> QED
      BY <2>3, <2>5, <3>1, <3>2
  <2> QED
    BY <2>3, <2>4, <2>5
<1>3. IsPath(P)
  <2> DEFINE Q == [b \in Blocks \cup {None} |->
                     IF b = None THEN <<>> ELSE Append(P[Parent[b]], b)]
  <2>1. \A b \in Blocks \cup {None} : P[b] = Q[b]
    <3> HIDE DEF P
    <3> QED
      BY <1>2
  <2>2. P = Q
    BY <2>1
  <2> QED
    BY <2>2
<1>4. Path = CHOOSE f : IsPath(f)
  BY DEF Path
<1> HIDE DEF IsPath
<1>5. IsPath(Path)
  BY <1>3, <1>4
<1> USE DEF IsPath
<1> HIDE DEF P
<1>6. \A b \in Blocks \cup {None} : Path[b] = P[b]
  <2> DEFINE Differ == {b \in Blocks : Path[b] # P[b]}
  <2>1. Path[None] = P[None]
    BY <1>2, <1>5
  <2> SUFFICES ASSUME Differ # {} PROVE FALSE
    BY <2>1
  <2>2. PICK b \in Differ : Parent[b] \notin Differ
    <3>1. Differ \in SUBSET Blocks
      OBVIOUS
    <3> HIDE DEF Differ
    <3> QED
      BY <3>1, ChainsAssumption
  <2>3. Path[Parent[b]] = P[Parent[b]] /\ b # None
    BY <2>1, <2>2, NodeSyncAssumption
  <2>4. Path[b] = Append(Path[Parent[b]], b)
    BY <1>5, <2>3
  <2>5. P[b] = Append(P[Parent[b]], b)
    BY <1>2, <2>3
  <2> QED
    BY <2>3, <2>4, <2>5
<1>7. ASSUME NEW b \in Blocks
      PROVE  Parent[b] \in Blocks \cup {None} /\ Path[b] = Append(Path[Parent[b]], b)
  BY <1>2, <1>6, NodeSyncAssumption
<1>8. Path \in [Blocks \cup {None} -> Seq(Blocks)]
  <2>1. \A b \in Blocks \cup {None} : Path[b] \in Seq(Blocks)
    BY <1>2, <1>6
  <2>2. Path = [b \in Blocks \cup {None} |-> Path[b]]
    BY <1>5
  <2> QED
    BY <2>1, <2>2
<1>9. Path[None] = <<>>
  BY <1>2, <1>6
<1> QED
  BY <1>7, <1>8, <1>9 DEF PathOn

\* The chain of a block ends with it and begins with that of every block in it.
LEMMA PathFacts ==
    ASSUME NEW b \in Blocks \cup {None}
    PROVE  /\ Path[b] \in Seq(Blocks) /\ Number(b) \in Nat
           /\ b = None => Path[b] = <<>>
           /\ b # None => /\ Parent[b] \in Blocks \cup {None}
                          /\ Path[b] = Append(Path[Parent[b]], b)
                          /\ ToSet(Path[b]) = ToSet(Path[Parent[b]]) \cup {b}
<1>1. Path[b] \in Seq(Blocks) /\ Number(b) \in Nat
  BY PathIsPath DEF PathOn, Number
<1>2. b = None => Path[b] = <<>>
  BY PathIsPath DEF PathOn
<1>3. ASSUME b # None
      PROVE  /\ Parent[b] \in Blocks \cup {None}
             /\ Path[b] = Append(Path[Parent[b]], b)
             /\ ToSet(Path[b]) = ToSet(Path[Parent[b]]) \cup {b}
  <2>1. Parent[b] \in Blocks \cup {None} /\ Path[b] = Append(Path[Parent[b]], b)
    BY <1>3, PathIsPath DEF PathOn
  <2> DEFINE s == Path[Parent[b]]
  <2>2. s \in Seq(Blocks)
    BY <2>1, PathIsPath DEF PathOn
  <2> HIDE DEF s
  <2>3. ToSet(Append(s, b)) = ToSet(s) \cup {b}
    BY <2>2 DEF ToSet
  <2> QED
    BY <2>1, <2>3 DEF s
<1> QED
  BY <1>1, <1>2, <1>3

\* Its blocks have the numbers of their places, and build on the one before.
LEMMA PathElements ==
    ASSUME NEW b \in Blocks \cup {None}, NEW i \in 1 .. Number(b)
    PROVE  /\ Path[b][i] \in Blocks /\ Number(Path[b][i]) = i
           /\ Parent[Path[b][i]] = IF i = 1 THEN None ELSE Path[b][i - 1]
<1> DEFINE Holds(a, k) ==
             /\ Path[a][k] \in Blocks /\ Number(Path[a][k]) = k
             /\ Parent[Path[a][k]] = IF k = 1 THEN None ELSE Path[a][k - 1]
           Bad == {a \in Blocks : \E k \in 1 .. Number(a) : ~Holds(a, k)}
<1>1. ASSUME Bad # {} PROVE FALSE
  <2>1. PICK a \in Bad : Parent[a] \notin Bad
    <3>1. Bad \in SUBSET Blocks
      OBVIOUS
    <3> HIDE DEF Bad
    <3> QED
      BY <1>1, <3>1, ChainsAssumption
  <2>2. PICK k \in 1 .. Number(a) : ~Holds(a, k)
    OBVIOUS
  <2> DEFINE s == Path[Parent[a]]
  <2>3. /\ a \in Blocks /\ Parent[a] \in Blocks \cup {None} /\ s \in Seq(Blocks)
        /\ Path[a] = Append(s, a) /\ Number(Parent[a]) = Len(s) /\ Number(a) = Len(s) + 1
    <3>1. a \in Blocks /\ a # None
      BY NodeSyncAssumption
    <3>2. Path[a] = Append(s, a) /\ Parent[a] \in Blocks \cup {None}
      BY <3>1, PathFacts
    <3>3. s \in Seq(Blocks)
      BY <3>2, PathFacts
    <3> HIDE DEF s
    <3>4. Len(Append(s, a)) = Len(s) + 1
      BY <3>3
    <3> QED
      BY <3>1, <3>2, <3>3, <3>4 DEF Number, s
  <2>4. \A j \in 1 .. Len(s) : Holds(Parent[a], j)
    <3>1. CASE Parent[a] = None
      <4>1. Path[None] = <<>>
        BY PathFacts
      <4> QED
        BY <3>1, <4>1
    <3>2. CASE Parent[a] \in Blocks
      <4> HIDE DEF Holds, s
      <4> QED
        BY <2>1, <2>3, <3>2
    <3> QED
      BY <2>3, <3>1, <3>2
  <2>5. CASE k <= Len(s)
    <3>1. k \in 1 .. Len(s) /\ k - 1 \in 0 .. Len(s) /\ (k # 1 => k - 1 \in 1 .. Len(s))
      BY <2>3, <2>5
    <3>2. Path[a][k] = s[k] /\ (k # 1 => Path[a][k - 1] = s[k - 1])
      <4> HIDE DEF s
      <4> QED
        BY <2>3, <3>1
    <3>3. Holds(Parent[a], k)
      BY <2>4, <3>1
    <3> QED
      BY <2>2, <3>2, <3>3
  <2>6. CASE k = Len(s) + 1
    <3>1. Path[a][k] = a /\ (k # 1 => Path[a][k - 1] = s[k - 1])
      <4> HIDE DEF s
      <4> QED
        BY <2>3, <2>6
    <3>2. CASE k = 1
      <4>1. Parent[a] = None
        <5>1. CASE Parent[a] \in Blocks
          <6>1. Path[Parent[a]] = Append(Path[Parent[Parent[a]]], Parent[a])
                /\ Path[Parent[Parent[a]]] \in Seq(Blocks)
            BY <5>1, PathFacts, NodeSyncAssumption
          <6>2. Len(s) # 0
            BY <6>1
          <6> QED
            BY <2>6, <3>2, <6>2, <2>3
        <5> QED
          BY <2>3, <5>1
      <4> QED
        BY <2>2, <2>3, <2>6, <3>1, <3>2, <4>1
    <3>3. CASE k # 1
      <4>1. Len(s) \in 1 .. Len(s) /\ k - 1 = Len(s)
        <5> HIDE DEF s
        <5> QED
          BY <2>3, <2>6, <3>3
      <4>2. Parent[a] \in Blocks
        <5>1. Path[None] = <<>>
          BY PathFacts
        <5> QED
          BY <2>3, <4>1, <5>1
      <4>3. s[Len(s)] = Parent[a]
        <5>1. s = Append(Path[Parent[Parent[a]]], Parent[a])
              /\ Path[Parent[Parent[a]]] \in Seq(Blocks)
          BY <4>2, PathFacts, NodeSyncAssumption
        <5> HIDE DEF s
        <5> QED
          BY <5>1
      <4> QED
        BY <2>2, <2>3, <2>6, <3>1, <3>3, <4>1, <4>3
    <3> QED
      BY <3>2, <3>3
  <2> QED
    <3> HIDE DEF s
    <3> QED
      BY <2>2, <2>3, <2>5, <2>6
<1>2. \A a \in Blocks : \A k \in 1 .. Number(a) : Holds(a, k)
  BY <1>1
<1>3. b # None
  BY PathFacts DEF Number
<1> QED
  BY <1>2, <1>3

-----------------------------------------------------------------------------
(* Summaries of a chain and the answers to them *)

\* The next number of a summary is above the last one, up to one past the end,
\* which only the end is followed by.
LEMMA NextStep ==
    ASSUME NEW high \in Nat, NEW k \in 1 .. high
    PROVE  /\ k + (high - k + 2) \div 2 \in k + 1 .. high + 1
           /\ k < high => k + (high - k + 2) \div 2 \in k + 1 .. high
<1> DEFINE d == high - k + 2
           h == d \div 2
<1>1. d \in Nat /\ d >= 2
  OBVIOUS
<1>2. h \in Int /\ 2 * h <= d /\ d < 2 * h + 2
  <2> HIDE DEF d
  <2> QED
    BY <1>1
<1>3. h >= 1 /\ h <= d - 1 /\ (d >= 3 => h <= d - 2)
  <2> HIDE DEF h, d
  <2> QED
    BY <1>1, <1>2
<1> HIDE DEF h
<1> QED
  BY <1>2, <1>3 DEF h

\* A summary has numbers of blocks up to the last, the first and the last of them.
LEMMA StepsFacts ==
    ASSUME NEW high \in Nat
    PROVE  /\ Steps(high) \subseteq 1 .. high
           /\ high # 0 => 1 \in Steps(high) /\ high \in Steps(high)
<1> DEFINE D == 1 .. high + 1
           next(k) == k + (high - k + 2) \div 2
           At(f, k) == f[k] = IF k > high THEN {} ELSE {k} \cup f[next(k)]
           All(f) == f = [k \in D |-> IF k > high THEN {} ELSE {k} \cup f[next(k)]]
           Up(n) == \E f : /\ f = [k \in D |-> f[k]]
                          /\ \A k \in D : k > high + 1 - n => At(f, k)
           T == {n \in Nat : n <= high + 1 => Up(n)}
<1>1. \A k \in 1 .. high : next(k) \in k + 1 .. high + 1
  BY NextStep
<1>8. \A k \in 1 .. high : k < high => next(k) \in k + 1 .. high
  BY NextStep
<1> HIDE DEF next
<1>2. 0 \in T
  <2>1. \A k \in D : ~(k > high + 1 - 0)
    OBVIOUS
  <2>2. [k \in D |-> {}] = [k \in D |-> [j \in D |-> {}][k]]
    OBVIOUS
  <2> HIDE DEF At, D
  <2>3. Up(0)
    BY <2>1, <2>2
  <2> QED
    BY <2>3
<1>3. ASSUME NEW n \in Nat, n \in T PROVE n + 1 \in T
  <2> HIDE DEF Up
  <2>0. SUFFICES ASSUME n + 1 <= high + 1 PROVE Up(n + 1)
    OBVIOUS
  <2>6. Up(n)
    BY <1>3, <2>0
  <2> USE DEF Up
  <2> HIDE DEF T
  <2>1. PICK f : /\ f = [k \in D |-> f[k]]
                 /\ \A k \in D : k > high + 1 - n => At(f, k)
    BY <2>6
  <2> DEFINE m == high + 1 - n
             g == [k \in D |-> IF k # m THEN f[k]
                               ELSE IF m > high THEN {} ELSE {m} \cup f[next(m)]]
  <2>2. m \in D
    BY <2>0
  <2>3. ASSUME NEW k \in D, k > high - n PROVE At(g, k)
    <3>1. CASE k = m
      <4>1. g[m] = IF m > high THEN {} ELSE {m} \cup f[next(m)]
        BY <2>2
      <4>2. m <= high => g[next(m)] = f[next(m)]
        BY <1>1, <2>2
      <4>3. m \in Int /\ high \in Int
        BY <2>2
      <4>4. (m > high \/ m <= high) /\ ~(m > high /\ m <= high)
        <5> HIDE DEF m
        <5> QED
          BY <4>3
      <4> HIDE DEF g, m, D
      <4>5. At(g, m)
        BY <4>1, <4>2, <4>4
      <4> QED
        BY <3>1, <4>5
    <3>2. CASE k # m
      <4>1. k > high + 1 - n /\ k > m
        BY <2>3, <3>2
      <4>2. At(f, k) /\ g[k] = f[k]
        BY <2>1, <3>2, <4>1
      <4>3. k <= high => next(k) > m /\ next(k) \in D
        BY <1>1, <4>1
      <4>4. k <= high => g[next(k)] = f[next(k)]
        BY <4>3
      <4> HIDE DEF g, m, D
      <4>5. k \in Nat /\ high \in Nat
        BY DEF D
      <4> QED
        BY <4>2, <4>4, <4>5
    <3> QED
      BY <3>1, <3>2
  <2>4. g = [k \in D |-> g[k]]
    OBVIOUS
  <2>5. high + 1 - (n + 1) = high - n
    OBVIOUS
  <2> HIDE DEF g, At, D
  <2> QED
    BY <2>3, <2>4, <2>5
<1>4. \E f : All(f)
  <2>1. Up(high + 1)
    <3>1. high + 1 \in T
      <4> HIDE DEF T
      <4> QED
        BY <1>2, <1>3, Induct
    <3> HIDE DEF Up
    <3> QED
      BY <3>1
  <2>2. PICK f : /\ f = [k \in D |-> f[k]]
                 /\ \A k \in D : k > high + 1 - (high + 1) => At(f, k)
    BY <2>1
  <2>3. \A k \in D : At(f, k)
    BY <2>2
  <2> DEFINE g == [k \in D |-> IF k > high THEN {} ELSE {k} \cup f[next(k)]]
  <2>4. \A k \in D : f[k] = g[k]
    BY <2>3
  <2>5. f = g
    <3> HIDE DEF At
    <3> QED
      BY <2>2, <2>4
  <2> QED
    BY <2>5
<1>5. PICK f : All(f) /\ Steps(high) = f[1]
  <2>1. Steps(high) = (CHOOSE f : All(f))[1]
    BY DEF Steps, next
  <2> HIDE DEF All
  <2> QED
    BY <1>4, <2>1
<1>6. \A k \in D : f[k] \subseteq 1 .. high
  <2> DEFINE U == {n \in Nat : \A k \in D : k > high + 1 - n => f[k] \subseteq 1 .. high}
  <2>1. 0 \in U
    OBVIOUS
  <2>2. ASSUME NEW n \in Nat, n \in U PROVE n + 1 \in U
    <3> SUFFICES ASSUME NEW k \in D, k > high + 1 - (n + 1) PROVE f[k] \subseteq 1 .. high
      OBVIOUS
    <3>1. f[k] = IF k > high THEN {} ELSE {k} \cup f[next(k)]
      BY <1>5
    <3>2. CASE k > high
      BY <3>1, <3>2
    <3>3. CASE k <= high
      <4>1. next(k) \in D /\ next(k) > high + 1 - n
        BY <1>1, <3>3
      <4>2. f[next(k)] \subseteq 1 .. high
        BY <2>2, <4>1
      <4> QED
        BY <3>1, <3>3, <4>2
    <3> QED
      BY <3>2, <3>3
  <2> HIDE DEF U
  <2>3. high + 1 \in U
    BY <2>1, <2>2, Induct
  <2> USE DEF U
  <2> QED
    BY <2>3
<1>7. ASSUME high # 0 PROVE 1 \in f[1] /\ high \in f[1]
  <2> DEFINE U == {n \in Nat : \A k \in D : k > high - n /\ k <= high => high \in f[k]}
  <2>1. 0 \in U
    OBVIOUS
  <2>2. ASSUME NEW n \in Nat, n \in U PROVE n + 1 \in U
    <3> SUFFICES ASSUME NEW k \in D, k > high - (n + 1), k <= high PROVE high \in f[k]
      OBVIOUS
    <3>1. f[k] = IF k > high THEN {} ELSE {k} \cup f[next(k)]
      BY <1>5
    <3>4. k \in 1 .. high /\ ~(k > high)
      OBVIOUS
    <3>2. CASE k = high
      BY <3>1, <3>2, <3>4
    <3>3. CASE k < high
      <4>1. next(k) \in D /\ next(k) > high - n /\ next(k) <= high
        BY <1>8, <3>3, <3>4
      <4>2. high \in f[next(k)]
        BY <2>2, <4>1
      <4> QED
        BY <3>1, <3>4, <4>2
    <3> QED
      BY <3>2, <3>3
  <2> HIDE DEF U
  <2>3. high \in U
    BY <2>1, <2>2, Induct
  <2> USE DEF U
  <2>4. high \in f[1]
    BY <1>7, <2>3
  <2>7. 1 \in D
    OBVIOUS
  <2>8. \A k \in D : f[k] = IF k > high THEN {} ELSE {k} \cup f[next(k)]
    BY <1>5
  <2>5. f[1] = IF 1 > high THEN {} ELSE {1} \cup f[next(1)]
    <3> HIDE DEF D
    <3> QED
      BY <2>7, <2>8
  <2>6. ~(1 > high)
    BY <1>7
  <2> QED
    BY <2>4, <2>5, <2>6
<1> QED
  BY <1>5, <1>6, <1>7

LEMMA BlockNumber ==
    ASSUME NEW b \in Blocks
    PROVE  Number(b) \in Nat \ {0}
<1>1. Path[b] = Append(Path[Parent[b]], b) /\ Path[Parent[b]] \in Seq(Blocks)
  BY PathFacts, NodeSyncAssumption
<1> QED
  BY <1>1 DEF Number

LEMMA SynopsisType ==
    ASSUME NEW head \in Blocks \cup {None}, NEW q, q.toGet \in Seq(Blocks),
           q.seen \in Blocks \cup {None}
    PROVE  Synopsis(head, q) \subseteq Blocks
<1> DEFINE path  == Path[IF q.seen = None THEN head ELSE q.seen]
           first == Number(q.toGet[1])
           ours  == {k \in Steps(Len(path) + Len(q.toGet)) : k <= Len(path)}
           its   == {k \in Steps(first + Len(q.toGet) - 1) : k >= first}
<1>1. path \in Seq(Blocks)
  BY PathFacts
<1>2. \A k \in ours : path[k] \in Blocks
  <2> HIDE DEF path
  <2>1. Steps(Len(path) + Len(q.toGet)) \subseteq 1 .. Len(path) + Len(q.toGet)
    BY <1>1, StepsFacts
  <2> QED
    BY <1>1, <2>1
<1>3. ASSUME q.toGet # <<>>, NEW k \in its PROVE q.toGet[k - first + 1] \in Blocks
  <2>1. first \in Nat \ {0}
    BY <1>3, BlockNumber
  <2> HIDE DEF first
  <2>2. first + Len(q.toGet) - 1 \in Nat
    BY <2>1
  <2>3. Steps(first + Len(q.toGet) - 1) \subseteq 1 .. first + Len(q.toGet) - 1
    BY <2>2, StepsFacts
  <2>4. k \in 1 .. first + Len(q.toGet) - 1 /\ k >= first
    BY <2>3
  <2>5. k - first + 1 \in 1 .. Len(q.toGet)
    BY <2>1, <2>4
  <2> QED
    BY <2>5
<1>4. Synopsis(head, q) =
        {path[k] : k \in ours}
          \cup IF q.toGet = <<>> THEN {} ELSE {q.toGet[k - first + 1] : k \in its}
  BY DEF Synopsis
<1> HIDE DEF path, first, ours, its
<1> QED
  BY <1>2, <1>3, <1>4

\* The answer to a summary has blocks of the chain.
LEMMA ReplyFacts ==
    ASSUME NEW c \in Blocks \cup {None}, NEW synopsis
    PROVE  /\ Reply(Path[c], synopsis).ids \in Seq(Blocks)
           /\ ToSet(Reply(Path[c], synopsis).ids) \subseteq ToSet(Path[c])
           /\ Reply(Path[c], synopsis).left \in Nat
<1> DEFINE chain == Path[c]
           known == synopsis \cap ToSet(chain)
           numbers == {Number(b) : b \in known}
           from == IF synopsis = {} THEN 1 ELSE Max(numbers)
           to   == Min({Len(chain), from + IdsPerReply - 1})
           reply == Reply(chain, synopsis)
<1>1. chain \in Seq(Blocks) /\ Len(chain) \in Nat /\ IdsPerReply \in Nat \ {0}
  BY PathFacts, NodeSyncAssumption
<1>2. CASE synopsis # {} /\ known = {}
  <2>1. reply = [ids |-> <<>>, left |-> 0]
    BY <1>2 DEF Reply
  <2> QED
    BY <2>1 DEF ToSet
<1>3. CASE ~(synopsis # {} /\ known = {})
  <2>1. reply = [ids |-> SubSeq(chain, from, to), left |-> Len(chain) - to]
    BY <1>3 DEF Reply
  <2>2. numbers \subseteq 1 .. Len(chain)
    <3> SUFFICES ASSUME NEW b \in known PROVE Number(b) \in 1 .. Len(chain)
      OBVIOUS
    <3>1. PICK i \in 1 .. Len(chain) : b = chain[i]
      <4> HIDE DEF chain
      <4> QED
        BY <1>1 DEF ToSet
    <3>2. Number(b) = i
      BY <3>1, PathElements DEF Number
    <3> QED
      BY <3>1, <3>2
  <2>3. from \in Nat \ {0}
    <3>1. CASE synopsis = {}
      BY <3>1
    <3>2. CASE synopsis # {}
      <4>1. numbers # {}
        BY <1>3, <3>2
      <4> HIDE DEF numbers, chain
      <4>2. Max(numbers) \in numbers
        BY <1>1, <2>2, <4>1, MinMax
      <4>3. Max(numbers) \in Nat \ {0}
        <5> DEFINE m == Max(numbers)
        <5> HIDE DEF m
        <5>1. m \in 1 .. Len(chain)
          BY <2>2, <4>2 DEF m
        <5>2. m \in Nat \ {0}
          BY <1>1, <5>1
        <5> QED
          BY <5>2 DEF m
      <4> QED
        BY <3>2, <4>3
    <3> QED
      BY <3>1, <3>2
  <2> HIDE DEF from, chain
  <2>4. to \in Nat /\ to <= Len(chain)
    <3> DEFINE two == {Len(chain), from + IdsPerReply - 1}
               hi  == Len(chain) + from + IdsPerReply
    <3>1. hi \in Nat /\ two \subseteq 0 .. hi /\ two # {} /\ Len(chain) \in two
      BY <1>1, <2>3
    <3> HIDE DEF two, hi
    <3>2. Min(two) \in two /\ Min(two) <= Len(chain)
      BY <3>1, MinMax
    <3> QED
      BY <3>1, <3>2 DEF two
  <2> HIDE DEF to
  <2>5. SubSeq(chain, from, to) \in Seq(Blocks)
    BY <1>1, <2>3, <2>4
  <2>6. \A i \in 1 .. Len(SubSeq(chain, from, to)) :
           SubSeq(chain, from, to)[i] \in ToSet(chain)
    <3>1. Len(SubSeq(chain, from, to)) = IF from <= to THEN to - from + 1 ELSE 0
      BY <1>1, <2>3, <2>4
    <3> SUFFICES ASSUME NEW i \in 1 .. Len(SubSeq(chain, from, to))
                 PROVE  SubSeq(chain, from, to)[i] \in ToSet(chain)
      OBVIOUS
    <3>2. from <= to /\ i \in 1 .. to - from + 1
      BY <2>3, <2>4, <3>1
    <3>3. SubSeq(chain, from, to)[i] = chain[from + i - 1] /\ from + i - 1 \in 1 .. Len(chain)
      BY <1>1, <2>3, <2>4, <3>2
    <3> QED
      BY <1>1, <3>3 DEF ToSet
  <2>7. ToSet(SubSeq(chain, from, to)) \subseteq ToSet(chain)
    <3> DEFINE s == SubSeq(chain, from, to)
    <3>1. DOMAIN s = 1 .. Len(s)
      BY <2>5
    <3> HIDE DEF s
    <3>2. ToSet(s) = {s[i] : i \in DOMAIN s}
      BY DEF ToSet
    <3> QED
      BY <2>6, <3>1, <3>2 DEF s
  <2>8. Len(chain) - to \in Nat
    BY <1>1, <2>4
  <2> QED
    BY <2>1, <2>5, <2>7, <2>8 DEF chain
<1> QED
  BY <1>2, <1>3

-----------------------------------------------------------------------------
(* The invariant *)

Messages ==
    [kind : {"ids"}, synopsis : SUBSET Blocks] \cup [kind : {"block", "new"}, block : Blocks]

Connections ==
    [conn : {"none", "active", "closing"}, toGet : Seq(Blocks), processing : SUBSET Blocks,
     unfetched : Nat, theyNeed : BOOLEAN, weNeed : BOOLEAN, asked : SUBSET SUBSET Blocks,
     requested : SUBSET Blocks, seen : Blocks \cup {None}, out : Seq(Messages),
     offered : SUBSET Blocks, fetched : SUBSET Blocks, inSync : BOOLEAN,
     twice : BOOLEAN]

Nodes ==
    [peer : [Peers -> Connections], active : SUBSET Blocks, fresh : Seq(Blocks),
     received : Seq(Blocks), calls : Seq(Blocks), backlog : BOOLEAN, fetch : BOOLEAN,
     suspend : BOOLEAN, wanted : SUBSET Blocks, refetch : BOOLEAN, recent : SUBSET Blocks,
     have : SUBSET Blocks, head : Blocks \cup {None}]

\* Where a block asked for while synchronizing is on its way
BlocksIn(out) == {i \in DOMAIN out : out[i].kind = "block"}

\* Every block on its way was requested, once.
OwesEachOnce(q) ==
    \A i \in BlocksIn(q.out) :
        /\ q.out[i].block \in q.requested
        /\ \A j \in BlocksIn(q.out) : q.out[j].block = q.out[i].block => i = j

PeerOK(q, p) ==
    /\ q \in Connections
    /\ q.conn = "none" => q = NoConnection
    /\ ToSet(q.toGet) \subseteq ChainOf(p) /\ q.requested \subseteq ChainOf(p)
    /\ IsFiniteSet(q.requested) /\ Cardinality(q.requested) <= MaxPerPeer
    /\ OwesEachOnce(q)

\* RequestsAreOwned of a node
Owned(n) ==
    /\ n.active = UNION {n.peer[p].requested : p \in Peers}
    /\ \A p, q \in Peers : p # q => n.peer[p].requested \cap n.peer[q].requested = {}

NodeOK(n) ==
    /\ n \in Nodes
    /\ n.recent \subseteq n.have /\ n.head \in n.have \cup {None}
    /\ Len(n.calls) <= MaxCalls
    /\ \A p \in Peers : PeerOK(n.peer[p], p)
    /\ Owned(n)

WorldOK ==
    /\ world \in Worlds /\ tip \in [Peers -> Blocks \cup {None}]
    /\ losses \in 0 .. world.losses
    /\ \A p \in Peers : tip[p] \in ToSet(Path[world.last[p]]) \cup {None}

SyncInv == WorldOK /\ NodeOK(node)

LEMMA Constants ==
    /\ None \notin Blocks /\ IsFiniteSet(Peers) /\ Parent \in [Blocks -> Blocks \cup {None}]
    /\ MaxPerPeer \in Nat \ {0} /\ MaxCalls \in Nat \ {0} /\ MaxWaiting \in Nat \ {0}
    /\ IdsPerReply \in Nat \ {0} /\ MinPrefetch \in Nat
    /\ \A w \in Worlds : /\ w.first \in [Peers -> Blocks \cup {None}]
                         /\ w.last \in [Peers -> Blocks \cup {None}]
                         /\ w.own \in Blocks \cup {None} /\ w.losses \in Nat
BY NodeSyncAssumption

LEMMA NoConnectionOK ==
    ASSUME NEW p
    PROVE  PeerOK(NoConnection, p) /\ NoConnection.requested = {} /\ NoConnection \in Connections
<1>1. NoConnection \in Connections
  BY DEF NoConnection, Connections
<1>2. IsFiniteSet({}) /\ Cardinality({}) <= MaxPerPeer
  BY FS_EmptySet, Constants
<1>3. ToSet(<<>>) = {} /\ BlocksIn(<<>>) = {}
  BY DEF ToSet, BlocksIn
<1> QED
  BY <1>1, <1>2, <1>3 DEF PeerOK, OwesEachOnce, NoConnection

\* What the peers owe stays the same.
LEMMA PeersOK ==
    ASSUME NEW n, NodeOK(n), NEW m, m \in Nodes, m.active = n.active,
           m.recent \subseteq m.have, m.head \in m.have \cup {None}, Len(m.calls) <= MaxCalls,
           \A p \in Peers : PeerOK(m.peer[p], p) /\ m.peer[p].requested = n.peer[p].requested
    PROVE  NodeOK(m)
<1>1. Owned(m)
  <2>1. {m.peer[p].requested : p \in Peers} = {n.peer[p].requested : p \in Peers}
    OBVIOUS
  <2> QED
    BY <2>1 DEF NodeOK, Owned
<1> QED
  BY <1>1 DEF NodeOK

LEMMA PeerOKInNodes ==
    ASSUME NEW n, NodeOK(n), NEW p \in Peers
    PROVE  PeerOK(n.peer[p], p) /\ n.peer[p] \in Connections
BY DEF NodeOK, PeerOK

LEMMA OnePeer ==
    ASSUME NEW n, NodeOK(n), NEW p \in Peers, NEW r, PeerOK(r, p),
           r.requested = n.peer[p].requested
    PROVE  /\ NodeOK([n EXCEPT !.peer[p] = r])
           /\ [n EXCEPT !.peer[p] = r].peer[p] = r
<1> DEFINE m == [n EXCEPT !.peer[p] = r]
<1>1. n \in Nodes /\ r \in Connections
  BY DEF NodeOK, PeerOK
<1>2. m \in Nodes /\ m.peer = [n.peer EXCEPT ![p] = r] /\ m.active = n.active
      /\ m.recent = n.recent /\ m.have = n.have /\ m.head = n.head /\ m.calls = n.calls
  BY <1>1 DEF Nodes
<1>3. \A o \in Peers : m.peer[o] = IF o = p THEN r ELSE n.peer[o]
  BY <1>1, <1>2 DEF Nodes
<1> HIDE DEF m
<1>4. NodeOK(m)
  BY <1>2, <1>3, PeersOK DEF NodeOK
<1> QED
  BY <1>3, <1>4 DEF m

-----------------------------------------------------------------------------
(* The calls of the handlers *)

\* A connected peer
Joined(q, p) == PeerOK(q, p) /\ q.conn # "none"

\* A peer after a change that leaves what it owes
Kept(r, q, p) ==
    Joined(r, p) /\ r.conn = q.conn /\ r.requested = q.requested

\* A message that is no block to be synchronized changes nothing of what is owed.
LEMMA OtherMessage ==
    ASSUME NEW p, NEW q, Joined(q, p), NEW m \in Messages, m.kind # "block"
    PROVE  Kept([q EXCEPT !.out = Append(@, m)], q, p)
<1> DEFINE r == [q EXCEPT !.out = Append(@, m)]
<1>1. q \in Connections /\ q.out \in Seq(Messages)
  BY DEF Joined, PeerOK, Connections
<1> DEFINE out == Append(q.out, m)
<1>5. out \in Seq(Messages)
  BY <1>1
<1>6. r = [q EXCEPT !.out = out]
  BY <1>1 DEF Connections
<1>7. [q EXCEPT !.out = out] \in Connections
  <2> HIDE DEF out
  <2> QED
    BY <1>1, <1>5 DEF Connections
<1>2. r \in Connections /\ r.out = Append(q.out, m) /\ r.requested = q.requested
      /\ r.conn = q.conn /\ r.toGet = q.toGet
  BY <1>1, <1>6, <1>7 DEF Connections
<1>3. /\ BlocksIn(r.out) = BlocksIn(q.out)
      /\ \A i \in BlocksIn(q.out) : r.out[i] = q.out[i]
  BY <1>1, <1>2 DEF BlocksIn
<1> HIDE DEF r
<1>4. OwesEachOnce(r)
  BY <1>2, <1>3 DEF OwesEachOnce, Joined, PeerOK
<1> QED
  BY <1>2, <1>4 DEF Kept, Joined, PeerOK, r

\* Neither do the fields that are not about blocks asked for.
SameOwed(r, q) ==
    r.conn = q.conn /\ r.requested = q.requested /\ r.out = q.out

LEMMA OtherFields ==
    ASSUME NEW p, NEW q, Joined(q, p), NEW r \in Connections, SameOwed(r, q),
           ToSet(r.toGet) \subseteq ChainOf(p)
    PROVE  Kept(r, q, p)
BY DEF Kept, Joined, PeerOK, SameOwed, OwesEachOnce

LEMMA AskedIdsOK ==
    ASSUME NEW p, NEW q, Joined(q, p), NEW head \in Blocks \cup {None}
    PROVE  Kept(AskedIds(head, q), q, p)
<1> DEFINE synopsis == Synopsis(head, q)
           m == [kind |-> "ids", synopsis |-> synopsis]
           twice == q.twice \/ q.asked # {}
           r == [q EXCEPT !.twice = twice, !.asked = {synopsis}]
<1>1. q \in Connections /\ q.toGet \in Seq(Blocks) /\ q.seen \in Blocks \cup {None}
      /\ ToSet(q.toGet) \subseteq ChainOf(p)
  BY DEF Joined, PeerOK, Connections
<1>2. synopsis \subseteq Blocks /\ twice \in BOOLEAN
  BY <1>1, SynopsisType
<1> HIDE DEF synopsis, twice
<1> DEFINE asked == {synopsis}
<1>7. asked \subseteq SUBSET Blocks /\ r = [q EXCEPT !.twice = twice, !.asked = asked]
  BY <1>2
<1> HIDE DEF asked, r
<1>3. r \in Connections /\ SameOwed(r, q) /\ r.toGet = q.toGet
  BY <1>1, <1>2, <1>7 DEF Connections, SameOwed
<1>4. Kept(r, q, p)
  BY <1>1, <1>3, OtherFields
<1>5. m \in Messages /\ m.kind # "block"
  BY <1>2 DEF Messages
<1>6. AskedIds(head, q) = [r EXCEPT !.out = Append(@, m)]
  BY <1>1 DEF AskedIds, Connections, synopsis, twice, r
<1> HIDE DEF m
<1>8. Kept([r EXCEPT !.out = Append(@, m)], r, p)
  BY <1>4, <1>5, OtherMessage DEF Kept
<1> QED
  BY <1>4, <1>6, <1>8 DEF Kept

LEMMA SynchronizingOK ==
    ASSUME NEW p, NEW q, Joined(q, p), NEW head \in Blocks \cup {None}
    PROVE  Kept(Synchronizing(head, q), q, p)
<1> DEFINE r == [q EXCEPT !.toGet = <<>>, !.unfetched = 0, !.weNeed = TRUE, !.seen = None]
<1>1. q \in Connections /\ <<>> \in Seq(Blocks)
  BY DEF Joined, PeerOK
<1>6. r \in Connections
  BY <1>1 DEF Connections
<1>2. r \in Connections /\ SameOwed(r, q) /\ r.toGet = <<>>
  BY <1>1, <1>6 DEF Connections, SameOwed
<1>3. ToSet(<<>>) = {}
  BY DEF ToSet
<1> HIDE DEF r
<1>4. Kept(r, q, p)
  BY <1>2, <1>3, OtherFields
<1>5. Kept(AskedIds(head, r), r, p)
  BY <1>4, AskedIdsOK DEF Kept
<1> QED
  BY <1>4, <1>5 DEF Kept, Synchronizing, r

LEMMA ProcessedOK ==
    ASSUME NEW p, NEW q, Joined(q, p), NEW head \in Blocks \cup {None}, NEW b
    PROVE  Kept(Processed(head, q, b), q, p)
<1> DEFINE r == [q EXCEPT !.processing = @ \ {b}]
<1>1. q \in Connections /\ ToSet(q.toGet) \subseteq ChainOf(p)
  BY DEF Joined, PeerOK
<1>2. r \in Connections /\ SameOwed(r, q) /\ r.toGet = q.toGet
  BY <1>1 DEF Connections, SameOwed
<1>3. Processed(head, q, b) = r \/ Processed(head, q, b) = AskedIds(head, r)
  BY DEF Processed
<1> HIDE DEF r
<1>4. Kept(r, q, p)
  BY <1>1, <1>2, OtherFields
<1>5. Kept(AskedIds(head, r), r, p)
  BY <1>4, AskedIdsOK DEF Kept
<1> QED
  BY <1>3, <1>4, <1>5 DEF Kept

\* The first block of a list is taken off.
LEMMA PoppedOK ==
    ASSUME NEW p, NEW q, Joined(q, p), q.toGet # <<>>, NEW b \in Blocks
    PROVE  Kept([q EXCEPT !.toGet = Tail(@), !.processing = @ \cup {b}], q, p)
<1> DEFINE r == [q EXCEPT !.toGet = Tail(@), !.processing = @ \cup {b}]
<1>1. q \in Connections /\ ToSet(q.toGet) \subseteq ChainOf(p) /\ q.toGet \in Seq(Blocks)
  BY DEF Joined, PeerOK, Connections
<1>2. Tail(q.toGet) \in Seq(Blocks) /\ ToSet(Tail(q.toGet)) \subseteq ToSet(q.toGet)
  BY <1>1 DEF ToSet
<1>3. r \in Connections /\ SameOwed(r, q) /\ r.toGet = Tail(q.toGet)
  BY <1>1, <1>2 DEF Connections, SameOwed
<1> HIDE DEF r
<1>4. Kept(r, q, p)
  BY <1>1, <1>2, <1>3, OtherFields
<1> QED
  BY <1>4 DEF r

LEMMA SeenOK ==
    ASSUME NEW p, NEW q, Joined(q, p), NEW b \in Blocks
    PROVE  Kept([q EXCEPT !.seen = b], q, p)
<1>1. q \in Connections /\ ToSet(q.toGet) \subseteq ChainOf(p)
  BY DEF Joined, PeerOK
<1> QED
  BY <1>1, OtherFields DEF Connections, SameOwed

LEMMA ClosingOK ==
    ASSUME NEW p, NEW q, Joined(q, p)
    PROVE  /\ Joined([q EXCEPT !.conn = "closing"], p)
           /\ [q EXCEPT !.conn = "closing"].requested = q.requested
<1> DEFINE r == [q EXCEPT !.conn = "closing"]
<1>1. q \in Connections
  BY DEF Joined, PeerOK
<1>2. r \in Connections /\ r.requested = q.requested /\ r.out = q.out /\ r.toGet = q.toGet
      /\ r.conn = "closing"
  BY <1>1 DEF Connections
<1> HIDE DEF r
<1>3. Joined(r, p)
  BY <1>2 DEF Joined, PeerOK, OwesEachOnce
<1> QED
  BY <1>2, <1>3 DEF r

\* A node after a call that changes its peers only
Called(m, n) ==
    /\ NodeOK(m)
    /\ m = [n EXCEPT !.peer = m.peer]
    /\ \A p \in Peers : /\ n.peer[p].conn # "none" => m.peer[p].conn # "none"
                        /\ m.peer[p].requested = n.peer[p].requested

\* Some of its peers are changed.
LEMMA WithPeersOK ==
    ASSUME NEW n, NodeOK(n), NEW S, S \subseteq Peers, NEW f,
           \A p \in S : /\ Joined(f[p], p) /\ f[p].requested = n.peer[p].requested
    PROVE  Called([n EXCEPT !.peer = [p \in Peers |-> IF p \in S THEN f[p] ELSE n.peer[p]]], n)
<1> DEFINE peers == [p \in Peers |-> IF p \in S THEN f[p] ELSE n.peer[p]]
           m == [n EXCEPT !.peer = peers]
<1>1. n \in Nodes /\ \A p \in Peers : PeerOK(n.peer[p], p)
  BY DEF NodeOK
<1>2. \A p \in Peers : PeerOK(peers[p], p) /\ peers[p].requested = n.peer[p].requested
                       /\ (n.peer[p].conn # "none" => peers[p].conn # "none")
  BY <1>1 DEF Joined
<1>3. peers \in [Peers -> Connections]
  BY <1>2 DEF PeerOK
<1> HIDE DEF peers
<1>4. m \in Nodes /\ m.peer = peers /\ m.active = n.active
      /\ m.recent = n.recent /\ m.have = n.have /\ m.head = n.head /\ m.calls = n.calls
  BY <1>1, <1>3 DEF Nodes
<1>5. m = [n EXCEPT !.peer = m.peer]
  BY <1>4
<1> HIDE DEF m
<1>6. NodeOK(m)
  BY <1>2, <1>4, PeersOK DEF NodeOK
<1> QED
  BY <1>2, <1>4, <1>5, <1>6 DEF Called, m, peers

LEMMA JoinedPeer ==
    ASSUME NEW n, NodeOK(n), NEW p \in Peers, n.peer[p].conn # "none"
    PROVE  /\ Joined(n.peer[p], p) /\ n.head \in Blocks \cup {None}
           /\ n.peer \in [Peers -> Connections] /\ n.peer[p] \in Connections
BY DEF NodeOK, Joined, PeerOK, Nodes

LEMMA ActiveJoined ==
    ASSUME NEW n
    PROVE  /\ ActivePeers(n) \subseteq Peers
           /\ \A p \in ActivePeers(n) : n.peer[p].conn # "none"
BY DEF ActivePeers

LEMMA CalledTwice ==
    ASSUME NEW n, NEW m, NEW k, Called(m, n), Called(k, m)
    PROVE  Called(k, n)
BY DEF Called

LEMMA FetchNextBatchOK ==
    ASSUME NEW n, NodeOK(n), NEW p \in Peers, n.peer[p].conn # "none"
    PROVE  Called(FetchNextBatch(n, p), n)
<1> DEFINE f == [o \in {p} |-> AskedIds(n.head, n.peer[o])]
<1>1. Kept(f[p], n.peer[p], p)
  BY JoinedPeer, AskedIdsOK
<1>2. FetchNextBatch(n, p) =
        [n EXCEPT !.peer = [o \in Peers |-> IF o \in {p} THEN f[o] ELSE n.peer[o]]]
  BY DEF FetchNextBatch, WithPeers
<1> HIDE DEF f
<1>3. \A o \in {p} : Joined(f[o], o) /\ f[o].requested = n.peer[o].requested
  BY <1>1 DEF Kept
<1>4. Called([n EXCEPT !.peer = [o \in Peers |-> IF o \in {p} THEN f[o] ELSE n.peer[o]]], n)
  <2> DEFINE S == {p}
  <2>1. S \subseteq Peers /\ \A o \in S : Joined(f[o], o) /\ f[o].requested = n.peer[o].requested
    BY <1>3
  <2> HIDE DEF S
  <2>2. Called([n EXCEPT !.peer = [o \in Peers |-> IF o \in S THEN f[o] ELSE n.peer[o]]], n)
    BY <2>1, WithPeersOK
  <2> QED
    BY <2>2 DEF S
<1> QED
  BY <1>2, <1>4

LEMMA StartSynchronizingOK ==
    ASSUME NEW n, NodeOK(n), NEW p \in Peers, n.peer[p].conn # "none"
    PROVE  Called(StartSynchronizing(n, p), n)
<1> DEFINE f == [o \in {p} |-> Synchronizing(n.head, n.peer[o])]
<1>1. Kept(f[p], n.peer[p], p)
  BY JoinedPeer, SynchronizingOK
<1>2. StartSynchronizing(n, p) =
        [n EXCEPT !.peer = [o \in Peers |-> IF o \in {p} THEN f[o] ELSE n.peer[o]]]
  BY DEF StartSynchronizing, WithPeers
<1> HIDE DEF f
<1>3. \A o \in {p} : Joined(f[o], o) /\ f[o].requested = n.peer[o].requested
  BY <1>1 DEF Kept
<1>4. Called([n EXCEPT !.peer = [o \in Peers |-> IF o \in {p} THEN f[o] ELSE n.peer[o]]], n)
  <2> DEFINE S == {p}
  <2>1. S \subseteq Peers /\ \A o \in S : Joined(f[o], o) /\ f[o].requested = n.peer[o].requested
    BY <1>3
  <2> HIDE DEF S
  <2>2. Called([n EXCEPT !.peer = [o \in Peers |-> IF o \in S THEN f[o] ELSE n.peer[o]]], n)
    BY <2>1, WithPeersOK
  <2> QED
    BY <2>2 DEF S
<1> QED
  BY <1>2, <1>4

LEMMA DisconnectOK ==
    ASSUME NEW n, NodeOK(n), NEW S
    PROVE  Called(Disconnect(n, S), n)
<1> DEFINE A == S \cap ActivePeers(n)
           f == [o \in A |-> [n.peer[o] EXCEPT !.conn = "closing"]]
<1>1. A \subseteq Peers /\ \A o \in A : Joined(n.peer[o], o)
  BY ActiveJoined, JoinedPeer
<1>2. Disconnect(n, S) =
        [n EXCEPT !.peer = [o \in Peers |-> IF o \in A THEN f[o] ELSE n.peer[o]]]
  BY DEF Disconnect, WithPeers
<1> HIDE DEF A
<1>3. \A o \in A : Joined(f[o], o) /\ f[o].requested = n.peer[o].requested
  BY <1>1, ClosingOK
<1> HIDE DEF f
<1>4. Called([n EXCEPT !.peer = [o \in Peers |-> IF o \in A THEN f[o] ELSE n.peer[o]]], n)
  BY <1>1, <1>3, WithPeersOK
<1> QED
  BY <1>2, <1>4

LEMMA AcceptedOK ==
    ASSUME NEW n, NodeOK(n), NEW b \in Blocks
    PROVE  NodeOK(Accepted(n, b)) /\ Accepted(n, b).peer = n.peer
<1> DEFINE m == Accepted(n, b)
<1>1. n \in Nodes /\ n.recent \subseteq n.have /\ n.head \in n.have \cup {None}
      /\ Len(n.calls) <= MaxCalls /\ \A p \in Peers : PeerOK(n.peer[p], p)
  BY DEF NodeOK
<1>2. /\ m.peer = n.peer /\ m.active = n.active /\ m.calls = n.calls
      /\ m.have = n.have \cup {b} /\ m.recent = n.recent \cup {b}
      /\ m.head \in {n.head, b}
  BY <1>1 DEF Nodes, Accepted
<1>3. m \in Nodes
  BY <1>1 DEF Nodes, Accepted
<1> HIDE DEF m
<1>4. NodeOK(m)
  BY <1>1, <1>2, <1>3, PeersOK
<1> QED
  BY <1>2, <1>4 DEF m

LEMMA OnAcceptedOK ==
    ASSUME NEW n, NodeOK(n), NEW b \in Blocks
    PROVE  Called(OnAccepted(n, b), n)
<1> DEFINE H == Having(n, b)
           f == [o \in H |-> Processed(n.head, [n.peer[o] EXCEPT !.seen = b], b)]
           m == [n EXCEPT !.peer = [o \in Peers |-> IF o \in H THEN f[o] ELSE n.peer[o]]]
           idle == {p \in ActivePeers(n) :
                      LET q == n.peer[p] IN
                      q.toGet = <<>> /\ q.processing = {} /\ ~q.theyNeed /\ ~q.weNeed}
           g == [o \in idle |-> Synchronizing(n.head, m.peer[o])]
           k == [m EXCEPT !.peer = [o \in Peers |-> IF o \in idle THEN g[o] ELSE m.peer[o]]]
<1>0. n.head \in Blocks \cup {None} /\ n \in Nodes
  BY DEF NodeOK, Nodes
<1>1. H \subseteq Peers /\ \A o \in H : Joined(n.peer[o], o)
  BY ActiveJoined, JoinedPeer DEF Having
<1>2. \A o \in H : Joined(f[o], o) /\ f[o].requested = n.peer[o].requested
  <2> SUFFICES ASSUME NEW o \in H
               PROVE  Kept(Processed(n.head, [n.peer[o] EXCEPT !.seen = b], b), n.peer[o], o)
    BY DEF Kept
  <2> DEFINE r == [n.peer[o] EXCEPT !.seen = b]
  <2>1. Kept(r, n.peer[o], o)
    BY <1>1, SeenOK
  <2> HIDE DEF r, H
  <2>2. Kept(Processed(n.head, r, b), r, o)
    BY <1>0, <2>1, ProcessedOK DEF Kept
  <2> QED
    BY <2>1, <2>2 DEF Kept, r
<1>9. m = WithPeers(n, H, LAMBDA q : Processed(n.head, [q EXCEPT !.seen = b], b))
  <2> HIDE DEF H
  <2> QED
    BY DEF WithPeers
<1>10. OnAccepted(n, b) =
         WithPeers(WithPeers(n, H, LAMBDA q : Processed(n.head, [q EXCEPT !.seen = b], b)),
                   idle, LAMBDA q : Synchronizing(n.head, q))
  BY DEF OnAccepted
<1> HIDE DEF H, f
<1>3. Called(m, n)
  BY <1>1, <1>2, WithPeersOK
<1> HIDE DEF m
<1>5. idle \subseteq Peers /\ \A o \in idle : Joined(m.peer[o], o)
  <2>1. idle \subseteq ActivePeers(n) /\ ActivePeers(n) \subseteq Peers
    BY ActiveJoined
  <2> SUFFICES ASSUME NEW o \in idle PROVE Joined(m.peer[o], o)
    BY <2>1
  <2>2. m.peer[o].conn # "none"
    BY <1>3, <2>1, ActiveJoined DEF Called
  <2> QED
    BY <1>3, <2>1, <2>2, JoinedPeer DEF Called
<1> HIDE DEF idle
<1>6. \A o \in idle : Joined(g[o], o) /\ g[o].requested = m.peer[o].requested
  BY <1>0, <1>5, SynchronizingOK DEF Kept
<1>8. OnAccepted(n, b) = k
  BY <1>9, <1>10 DEF WithPeers
<1> HIDE DEF g
<1>7. Called(k, m)
  <2>1. NodeOK(m)
    BY <1>3 DEF Called
  <2> QED
    BY <2>1, <1>5, <1>6, WithPeersOK
<1> HIDE DEF k
<1> QED
  BY <1>3, <1>7, <1>8, CalledTwice

\* What a peer that goes away was asked for nobody is asked for.
LEMMA ClosedOK ==
    ASSUME NEW n, NodeOK(n), NEW p \in Peers
    PROVE  NodeOK(Closed(n, p))
<1> DEFINE q == n.peer[p]
           others == {b \in q.fetched : \E o \in ActivePeers(n) \ {p} : b \in n.peer[o].offered}
           m == Closed(n, p)
<1>1. n \in Nodes /\ q \in Connections /\ \A o \in Peers : PeerOK(n.peer[o], o)
  BY DEF NodeOK, Nodes
<1>2. others \subseteq Blocks /\ (q.requested # {}) \in BOOLEAN /\ (q.fetched # {}) \in BOOLEAN
  BY <1>1 DEF Connections
<1>3. m = [n EXCEPT !.active = @ \ q.requested, !.fetch = @ \/ q.requested # {},
                    !.wanted = @ \cup others, !.refetch = @ \/ q.fetched # {},
                    !.peer[p] = NoConnection]
  BY DEF Closed
<1> HIDE DEF others, q
<1>4. /\ m.active = n.active \ q.requested /\ m.calls = n.calls
      /\ m.have = n.have /\ m.recent = n.recent /\ m.head = n.head
      /\ \A o \in Peers : m.peer[o] = IF o = p THEN NoConnection ELSE n.peer[o]
  BY <1>1, <1>3 DEF Nodes
<1>5. m \in Nodes
  <2>1. NoConnection \in Connections
    BY NoConnectionOK
  <2>2. [n.peer EXCEPT ![p] = NoConnection] \in [Peers -> Connections]
    BY <1>1, <2>1 DEF Nodes
  <2>3. n.active \ q.requested \subseteq Blocks /\ n.wanted \cup others \subseteq Blocks
    BY <1>1, <1>2 DEF Nodes
  <2>4. (n.fetch \/ q.requested # {}) \in BOOLEAN /\ (n.refetch \/ q.fetched # {}) \in BOOLEAN
    OBVIOUS
  <2> DEFINE peers == [n.peer EXCEPT ![p] = NoConnection]
             active == n.active \ q.requested
             wanted == n.wanted \cup others
             fetch == n.fetch \/ q.requested # {}
             refetch == n.refetch \/ q.fetched # {}
  <2>5. m = [n EXCEPT !.active = active, !.fetch = fetch, !.wanted = wanted,
                      !.refetch = refetch, !.peer = peers]
    BY <1>1, <1>3 DEF Nodes
  <2> HIDE DEF peers, active, wanted, fetch, refetch, m
  <2>6. peers \in [Peers -> Connections] /\ active \subseteq Blocks /\ wanted \subseteq Blocks
        /\ fetch \in BOOLEAN /\ refetch \in BOOLEAN
    BY <2>2, <2>3, <2>4 DEF peers, active, wanted, fetch, refetch
  <2> QED
    BY <1>1, <2>5, <2>6 DEF Nodes
<1> HIDE DEF m
<1>6. \A o \in Peers : PeerOK(m.peer[o], o)
  BY <1>1, <1>4, NoConnectionOK
<1>7. Owned(m)
  <2>1. Owned(n)
    BY DEF NodeOK
  <2>2. \A o \in Peers : m.peer[o].requested = IF o = p THEN {} ELSE n.peer[o].requested
    BY <1>4, NoConnectionOK
  <2>3. m.active = UNION {m.peer[o].requested : o \in Peers}
    BY <1>4, <2>1, <2>2 DEF Owned, q
  <2>4. \A a, o \in Peers : a # o => m.peer[a].requested \cap m.peer[o].requested = {}
    BY <2>1, <2>2 DEF Owned
  <2> QED
    BY <2>3, <2>4 DEF Owned
<1> QED
  BY <1>4, <1>5, <1>6, <1>7 DEF NodeOK, m

LEMMA OnePeerCalled ==
    ASSUME NEW n, NodeOK(n), NEW p \in Peers, NEW r, Kept(r, n.peer[p], p)
    PROVE  Called([n EXCEPT !.peer[p] = r], n) /\ [n EXCEPT !.peer[p] = r].peer[p] = r
<1> DEFINE m == [n EXCEPT !.peer[p] = r]
<1>1. n \in Nodes
  BY DEF NodeOK
<1>2. NodeOK(m) /\ m.peer[p] = r
  BY OnePeer DEF Kept, Joined
<1>3. m = [n EXCEPT !.peer = m.peer] /\ \A o \in Peers : o # p => m.peer[o] = n.peer[o]
  BY <1>1 DEF Nodes
<1> HIDE DEF m
<1>4. Called(m, n)
  BY <1>2, <1>3 DEF Called, Kept, Joined
<1> QED
  BY <1>2, <1>4 DEF m

\* A node whose peers and chain stay the same
LEMMA OthersOK ==
    ASSUME NEW n, NodeOK(n), NEW m \in Nodes, m.peer = n.peer, m.active = n.active,
           m.have = n.have, m.recent = n.recent, m.head = n.head, Len(m.calls) <= MaxCalls
    PROVE  NodeOK(m)
BY PeersOK DEF NodeOK

LEMMA FetchFlag ==
    ASSUME NEW n, NodeOK(n), NEW b \in BOOLEAN
    PROVE  /\ NodeOK([n EXCEPT !.fetch = b]) /\ NodeOK([n EXCEPT !.backlog = b])
           /\ NodeOK([n EXCEPT !.refetch = b]) /\ NodeOK([n EXCEPT !.suspend = b])
<1>1. n \in Nodes /\ Len(n.calls) <= MaxCalls
  BY DEF NodeOK
<1>2. NodeOK([n EXCEPT !.fetch = b])
  <2> DEFINE m == [n EXCEPT !.fetch = b]
  <2>1. m \in Nodes /\ m.peer = n.peer /\ m.active = n.active /\ m.have = n.have
        /\ m.recent = n.recent /\ m.head = n.head /\ m.calls = n.calls
    BY <1>1 DEF Nodes
  <2> QED
    BY <1>1, <2>1, OthersOK
<1>3. NodeOK([n EXCEPT !.backlog = b])
  <2> DEFINE m == [n EXCEPT !.backlog = b]
  <2>1. m \in Nodes /\ m.peer = n.peer /\ m.active = n.active /\ m.have = n.have
        /\ m.recent = n.recent /\ m.head = n.head /\ m.calls = n.calls
    BY <1>1 DEF Nodes
  <2> QED
    BY <1>1, <2>1, OthersOK
<1>4. NodeOK([n EXCEPT !.refetch = b])
  <2> DEFINE m == [n EXCEPT !.refetch = b]
  <2>1. m \in Nodes /\ m.peer = n.peer /\ m.active = n.active /\ m.have = n.have
        /\ m.recent = n.recent /\ m.head = n.head /\ m.calls = n.calls
    BY <1>1 DEF Nodes
  <2> QED
    BY <1>1, <2>1, OthersOK
<1>5. NodeOK([n EXCEPT !.suspend = b])
  <2> DEFINE m == [n EXCEPT !.suspend = b]
  <2>1. m \in Nodes /\ m.peer = n.peer /\ m.active = n.active /\ m.have = n.have
        /\ m.recent = n.recent /\ m.head = n.head /\ m.calls = n.calls
    BY <1>1 DEF Nodes
  <2> QED
    BY <1>1, <2>1, OthersOK
<1> QED
  BY <1>2, <1>3, <1>4, <1>5

\* The list of a peer becomes another part of its chain.
LEMMA NewList ==
    ASSUME NEW n, NodeOK(n), NEW p \in Peers, n.peer[p].conn # "none",
           NEW s \in Seq(Blocks), ToSet(s) \subseteq ChainOf(p), NEW b \in Blocks \cup {None}
    PROVE  /\ Called([n EXCEPT !.peer[p].toGet = s], n)
           /\ Called([n EXCEPT !.peer[p].toGet = s, !.peer[p].seen = b], n)
<1> DEFINE q == n.peer[p]
<1>1. Joined(q, p) /\ q \in Connections /\ n \in Nodes
  BY JoinedPeer DEF NodeOK
<1>2. Called([n EXCEPT !.peer[p].toGet = s], n)
  <2> DEFINE r == [q EXCEPT !.toGet = s]
  <2>1. r \in Connections /\ SameOwed(r, q) /\ r.toGet = s
    BY <1>1 DEF Connections, SameOwed
  <2>2. [n EXCEPT !.peer[p].toGet = s] = [n EXCEPT !.peer[p] = r]
    BY <1>1 DEF Nodes, Connections
  <2> HIDE DEF r
  <2>3. Kept(r, q, p)
    BY <1>1, <2>1, OtherFields
  <2> QED
    BY <2>2, <2>3, OnePeerCalled
<1>3. Called([n EXCEPT !.peer[p].toGet = s, !.peer[p].seen = b], n)
  <2> DEFINE r == [q EXCEPT !.toGet = s, !.seen = b]
  <2>1. r \in Connections /\ SameOwed(r, q) /\ r.toGet = s
    BY <1>1 DEF Connections, SameOwed
  <2>2. [n EXCEPT !.peer[p].toGet = s, !.peer[p].seen = b] = [n EXCEPT !.peer[p] = r]
    BY <1>1 DEF Nodes, Connections
  <2> HIDE DEF r
  <2>3. Kept(r, q, p)
    BY <1>1, <2>1, OtherFields
  <2> QED
    BY <2>2, <2>3, OnePeerCalled
<1> QED
  BY <1>2, <1>3

\* A part of a sequence has its elements.
LEMMA PartOf ==
    ASSUME NEW s \in Seq(Blocks), NEW i \in 1 .. Len(s) + 1, NEW j \in 0 .. Len(s)
    PROVE  /\ SubSeq(s, i, j) \in Seq(Blocks) /\ ToSet(SubSeq(s, i, j)) \subseteq ToSet(s)
           /\ j < i => SubSeq(s, i, j) = <<>>
<1> DEFINE t == SubSeq(s, i, j)
<1>1. t \in Seq(Blocks) /\ Len(t) = IF i <= j THEN j - i + 1 ELSE 0
  OBVIOUS
<1>2. \A k \in 1 .. Len(t) : t[k] = s[i + k - 1] /\ i + k - 1 \in 1 .. Len(s)
  <2> SUFFICES ASSUME NEW k \in 1 .. Len(t)
               PROVE  t[k] = s[i + k - 1] /\ i + k - 1 \in 1 .. Len(s)
    OBVIOUS
  <2>1. i <= j /\ k \in 1 .. j - i + 1
    BY <1>1
  <2> QED
    BY <2>1
<1> HIDE DEF t
<1>3. ToSet(t) \subseteq ToSet(s)
  BY <1>1, <1>2 DEF ToSet
<1>4. j < i => t = <<>>
  BY <1>1
<1> QED
  BY <1>1, <1>3, <1>4 DEF t

LEMMA JoinedParts ==
    ASSUME NEW s \in Seq(Blocks), NEW t \in Seq(Blocks)
    PROVE  s \o t \in Seq(Blocks) /\ ToSet(s \o t) = ToSet(s) \cup ToSet(t)
<1>1. s \o t \in Seq(Blocks) /\ Len(s \o t) = Len(s) + Len(t)
  OBVIOUS
<1>2. \A k \in 1 .. Len(s) : (s \o t)[k] = s[k]
  OBVIOUS
<1>3. \A k \in 1 .. Len(t) : (s \o t)[Len(s) + k] = t[k]
  OBVIOUS
<1>4. \A k \in 1 .. Len(s \o t) : \/ k \in 1 .. Len(s)
                                  \/ k - Len(s) \in 1 .. Len(t) /\ k = Len(s) + (k - Len(s))
  BY <1>1
<1>5. \A k \in 1 .. Len(s) : k \in 1 .. Len(s \o t)
  BY <1>1
<1>6. \A k \in 1 .. Len(t) : Len(s) + k \in 1 .. Len(s \o t)
  BY <1>1
<1> DEFINE u == s \o t
<1>7. u \in Seq(Blocks)
  BY <1>1
<1>8. ToSet(u) \subseteq ToSet(s) \cup ToSet(t)
  <2> SUFFICES ASSUME NEW k \in 1 .. Len(u) PROVE u[k] \in ToSet(s) \cup ToSet(t)
    <3> HIDE DEF u
    <3> QED
      BY <1>7 DEF ToSet
  <2>1. CASE k \in 1 .. Len(s)
    BY <1>2, <2>1 DEF ToSet
  <2>2. CASE k - Len(s) \in 1 .. Len(t) /\ k = Len(s) + (k - Len(s))
    <3> DEFINE j == k - Len(s)
    <3>1. j \in 1 .. Len(t) /\ u[k] = u[Len(s) + j]
      BY <2>2
    <3> HIDE DEF j
    <3>2. u[k] = t[j]
      BY <1>3, <3>1
    <3> QED
      BY <3>1, <3>2 DEF ToSet
  <2> QED
    BY <1>4, <2>1, <2>2
<1>9. ToSet(s) \subseteq ToSet(u)
  <2> SUFFICES ASSUME NEW k \in 1 .. Len(s) PROVE s[k] \in ToSet(u)
    BY DEF ToSet
  <2>1. u[k] = s[k] /\ k \in 1 .. Len(u)
    BY <1>2, <1>5
  <2> HIDE DEF u
  <2> QED
    BY <1>7, <2>1 DEF ToSet
<1>10. ToSet(t) \subseteq ToSet(u)
  <2> SUFFICES ASSUME NEW k \in 1 .. Len(t) PROVE t[k] \in ToSet(u)
    BY DEF ToSet
  <2>1. u[Len(s) + k] = t[k] /\ Len(s) + k \in 1 .. Len(u)
    BY <1>3, <1>6
  <2> HIDE DEF u
  <2> QED
    BY <1>7, <2>1 DEF ToSet
<1> HIDE DEF u
<1>11. ToSet(u) = ToSet(s) \cup ToSet(t)
  BY <1>8, <1>9, <1>10
<1> QED
  BY <1>7, <1>11 DEF u

LEMMA ListedOK ==
    ASSUME NEW n, NodeOK(n), NEW p \in Peers, n.peer[p].conn # "none",
           NEW ids \in Seq(Blocks), ToSet(ids) \subseteq ChainOf(p)
    PROVE  Called(Listed(n, p, ids), n)
<1> DEFINE q == n.peer[p]
           T == {i \in 0 .. Len(ids) : \A j \in 1 .. i : ids[j] \in n.have}
           seen == Max(T)
           common == {i \in DOMAIN q.toGet : q.toGet[i] = ids[1]}
           firstOfOther == \E o \in ActivePeers(n) \ {p} :
                             n.peer[o].toGet # <<>> /\ n.peer[o].toGet[1] = ids[1]
<1>1. /\ q.toGet \in Seq(Blocks) /\ ToSet(q.toGet) \subseteq ChainOf(p)
      /\ Len(ids) \in Nat /\ Len(q.toGet) \in Nat
  BY JoinedPeer DEF Joined, PeerOK, Connections
<1>2. Listed(n, p, ids) =
        IF ids = <<>> THEN n
        ELSE IF q.toGet = <<>>
        THEN IF firstOfOther \/ seen = 0 THEN [n EXCEPT !.peer[p].toGet = ids]
             ELSE [n EXCEPT !.peer[p].toGet = SubSeq(ids, seen + 1, Len(ids)),
                            !.peer[p].seen = ids[seen]]
        ELSE IF common = {}
        THEN [n EXCEPT !.peer[p].toGet = Tail(ids), !.peer[p].seen = ids[1]]
        ELSE [n EXCEPT !.peer[p].toGet = SubSeq(q.toGet, 1, Max(common) - 1) \o ids]
  BY DEF Listed
<1> HIDE DEF firstOfOther
<1>3. seen \in 0 .. Len(ids)
  <2>1. T \subseteq 0 .. Len(ids) /\ 0 \in T
    BY <1>1
  <2> HIDE DEF T
  <2>2. Max(T) \in T
    BY <1>1, <2>1, MinMax
  <2> QED
    BY <2>1, <2>2
<1> HIDE DEF T, seen
<1>4. CASE ids = <<>>
  <2>1. n = [n EXCEPT !.peer = n.peer]
    BY DEF NodeOK, Nodes
  <2>2. Called(n, n)
    BY <2>1 DEF Called
  <2> QED
    BY <1>2, <1>4, <2>2
<1>5. Called([n EXCEPT !.peer[p].toGet = ids], n)
  BY NewList
<1>6. CASE ids # <<>> /\ q.toGet = <<>> /\ seen # 0
  <2>1. seen + 1 \in 1 .. Len(ids) + 1 /\ Len(ids) \in 0 .. Len(ids) /\ ids[seen] \in Blocks
    BY <1>1, <1>3, <1>6
  <2> DEFINE s == SubSeq(ids, seen + 1, Len(ids))
  <2>2. s \in Seq(Blocks) /\ ToSet(s) \subseteq ChainOf(p)
    BY <2>1, PartOf
  <2> HIDE DEF s
  <2>3. Called([n EXCEPT !.peer[p].toGet = s, !.peer[p].seen = ids[seen]], n)
    BY <2>1, <2>2, NewList
  <2> QED
    BY <1>2, <1>5, <1>6, <2>3 DEF s
<1>7. CASE ids # <<>> /\ q.toGet # <<>> /\ common = {}
  <2> DEFINE s == Tail(ids)
  <2>1. s \in Seq(Blocks) /\ ids[1] \in Blocks /\ ToSet(s) \subseteq ToSet(ids)
    BY <1>7 DEF ToSet
  <2> HIDE DEF s
  <2>2. Called([n EXCEPT !.peer[p].toGet = s, !.peer[p].seen = ids[1]], n)
    BY <2>1, NewList
  <2> QED
    BY <1>2, <1>7, <2>2 DEF s
<1>8. CASE ids # <<>> /\ q.toGet # <<>> /\ common # {}
  <2>1. Max(common) \in 1 .. Len(q.toGet)
    <3>1. common \subseteq 0 .. Len(q.toGet) /\ common \subseteq 1 .. Len(q.toGet)
      BY <1>1
    <3> HIDE DEF common, q
    <3>2. Max(common) \in common
      BY <1>1, <1>8, <3>1, MinMax
    <3> QED
      BY <3>1, <3>2
  <2> DEFINE m == Max(common)
             s == SubSeq(q.toGet, 1, m - 1)
  <2> HIDE DEF m, common
  <2>2. 1 \in 1 .. Len(q.toGet) + 1 /\ m - 1 \in 0 .. Len(q.toGet)
    BY <1>1, <2>1 DEF m
  <2>3. s \in Seq(Blocks) /\ ToSet(s) \subseteq ChainOf(p)
    BY <1>1, <2>2, PartOf
  <2> HIDE DEF s
  <2>4. s \o ids \in Seq(Blocks) /\ ToSet(s \o ids) \subseteq ChainOf(p)
    BY <2>3, JoinedParts
  <2>5. Called([n EXCEPT !.peer[p].toGet = s \o ids], n)
    BY <2>4, NewList
  <2> QED
    BY <1>2, <1>8, <2>5 DEF s, m
<1> QED
  BY <1>2, <1>4, <1>5, <1>6, <1>7, <1>8

LEMMA OnIdsOK ==
    ASSUME NEW n, NodeOK(n), NEW p \in Peers, n.peer[p].conn # "none",
           NEW reply, reply.ids \in Seq(Blocks), ToSet(reply.ids) \subseteq ChainOf(p),
           reply.left \in Nat
    PROVE  NodeOK(OnIds(n, p, reply))
<1> DEFINE q == n.peer[p]
           taken  == [n EXCEPT !.peer[p].asked = {}]
           list   == Listed(taken, p, reply.ids)
           listed == [list EXCEPT !.peer[p].unfetched = reply.left]
           idle   == [taken EXCEPT !.peer[p].weNeed = FALSE]
<1>1. /\ Joined(q, p) /\ q \in Connections /\ n \in Nodes /\ n.head \in Blocks \cup {None}
      /\ ToSet(q.toGet) \subseteq ChainOf(p)
  BY JoinedPeer DEF NodeOK, Joined, PeerOK
<1>2. Called(taken, n) /\ taken.peer[p].conn # "none"
  <2> DEFINE r == [q EXCEPT !.asked = {}]
  <2>1. r \in Connections /\ SameOwed(r, q) /\ r.toGet = q.toGet
    BY <1>1 DEF Connections, SameOwed
  <2>2. taken = [n EXCEPT !.peer[p] = r]
    BY <1>1 DEF Nodes, Connections
  <2> HIDE DEF r
  <2>3. Kept(r, q, p)
    BY <1>1, <2>1, OtherFields
  <2>4. Called(taken, n)
    BY <2>2, <2>3, OnePeerCalled
  <2> QED
    BY <2>4 DEF Called
<1> HIDE DEF taken
<1>3. NodeOK(taken) /\ taken \in Nodes
  BY <1>2 DEF Called, NodeOK
<1>4. NodeOK(idle)
  <2> DEFINE o == taken.peer[p]
             r == [o EXCEPT !.weNeed = FALSE]
  <2>1. Joined(o, p) /\ o \in Connections /\ ToSet(o.toGet) \subseteq ChainOf(p)
    BY <1>2, <1>3, JoinedPeer DEF Joined, PeerOK
  <2>2. r \in Connections /\ SameOwed(r, o) /\ r.toGet = o.toGet
    BY <2>1 DEF Connections, SameOwed
  <2>3. idle = [taken EXCEPT !.peer[p] = r]
    BY <1>3 DEF Nodes, Connections
  <2> HIDE DEF r
  <2>4. Kept(r, o, p)
    BY <2>1, <2>2, OtherFields
  <2> QED
    BY <1>3, <2>3, <2>4, OnePeerCalled DEF Called
<1>5. NodeOK(list) /\ list.peer[p].conn # "none" /\ list \in Nodes
  <2>1. Called(list, taken)
    BY <1>2, <1>3, ListedOK
  <2> QED
    BY <1>2, <2>1 DEF Called, NodeOK
<1> HIDE DEF list
<1>6. NodeOK(listed) /\ listed.peer[p].conn # "none"
  <2> DEFINE o == list.peer[p]
             r == [o EXCEPT !.unfetched = reply.left]
  <2>1. Joined(o, p) /\ o \in Connections /\ ToSet(o.toGet) \subseteq ChainOf(p)
    BY <1>5, JoinedPeer DEF Joined, PeerOK
  <2>2. r \in Connections /\ SameOwed(r, o) /\ r.toGet = o.toGet
    BY <2>1 DEF Connections, SameOwed
  <2>3. listed = [list EXCEPT !.peer[p] = r]
    BY <1>5 DEF Nodes, Connections
  <2> HIDE DEF r
  <2>4. Kept(r, o, p)
    BY <2>1, <2>2, OtherFields
  <2>5. Called(listed, list)
    BY <1>5, <2>3, <2>4, OnePeerCalled
  <2> QED
    BY <1>5, <2>5 DEF Called
<1>7. NodeOK(Disconnect(n, {p}))
  BY DisconnectOK DEF Called
<1> HIDE DEF listed, idle
<1>8. NodeOK([listed EXCEPT !.fetch = TRUE])
  BY <1>6, FetchFlag
<1>9. NodeOK(FetchNextBatch(listed, p))
  BY <1>6, FetchNextBatchOK DEF Called
<1>10. OnIds(n, p, reply) \in {n, Disconnect(n, {p}), idle, [listed EXCEPT !.fetch = TRUE],
                               FetchNextBatch(listed, p)}
  BY DEF OnIds, taken, list, listed, idle
<1> QED
  BY <1>4, <1>7, <1>8, <1>9, <1>10

\* A message is taken from a peer.
Taken(q) == [q EXCEPT !.out = Tail(@)]

LEMMA TakenOK ==
    ASSUME NEW p, NEW q, Joined(q, p), q.out # <<>>, NEW inSync \in BOOLEAN
    PROVE  /\ Head(q.out) \in Messages
           /\ Kept(Taken(q), q, p)
           /\ Kept([q EXCEPT !.out = Tail(@), !.inSync = inSync], q, p)
           /\ Head(q.out).kind = "block" =>
                /\ Head(q.out).block \in q.requested
                /\ \A i \in BlocksIn(Taken(q).out) :
                      Taken(q).out[i].block # Head(q.out).block
<1>1. /\ q \in Connections /\ q.out \in Seq(Messages) /\ Len(q.out) \in Nat
      /\ OwesEachOnce(q)
  BY DEF Joined, PeerOK, Connections
<1> DEFINE out == Tail(q.out)
<1>2. /\ Head(q.out) = q.out[1] /\ 1 \in DOMAIN q.out /\ Head(q.out) \in Messages
      /\ out \in Seq(Messages)
      /\ \A i \in DOMAIN out : /\ i \in Nat \ {0} /\ out[i] = q.out[i + 1]
                               /\ i + 1 \in DOMAIN q.out
  BY <1>1
<1> HIDE DEF out
<1>3. \A i \in BlocksIn(out) : i + 1 \in BlocksIn(q.out) /\ out[i] = q.out[i + 1] /\ i \in Nat \ {0}
  BY <1>2 DEF BlocksIn
<1>4. ASSUME NEW r \in Connections, r.conn = q.conn, r.requested = q.requested,
             r.toGet = q.toGet, r.out = out
      PROVE  Kept(r, q, p)
  <2>1. OwesEachOnce(r)
    <3> SUFFICES ASSUME NEW i \in BlocksIn(out)
                 PROVE  /\ out[i].block \in q.requested
                        /\ \A j \in BlocksIn(out) : out[j].block = out[i].block => i = j
      BY <1>4 DEF OwesEachOnce
    <3>1. out[i].block \in q.requested
      BY <1>1, <1>3 DEF OwesEachOnce
    <3>2. ASSUME NEW j \in BlocksIn(out), out[j].block = out[i].block PROVE i = j
      <4>1. j + 1 = i + 1
        BY <1>1, <1>3, <3>2 DEF OwesEachOnce
      <4> QED
        BY <1>3, <4>1
    <3> QED
      BY <3>1, <3>2
  <2> QED
    BY <1>4, <2>1 DEF Kept, Joined, PeerOK
<1>5. Kept(Taken(q), q, p) /\ Taken(q).out = out
  <2>1. Taken(q) = [q EXCEPT !.out = out]
    BY DEF Taken, out
  <2>2. [q EXCEPT !.out = out] \in Connections
    BY <1>1, <1>2 DEF Connections
  <2> QED
    BY <1>1, <1>4, <2>1, <2>2 DEF Connections
<1>6. Kept([q EXCEPT !.out = Tail(@), !.inSync = inSync], q, p)
  <2> DEFINE r == [q EXCEPT !.out = out, !.inSync = inSync]
  <2>1. [q EXCEPT !.out = Tail(@), !.inSync = inSync] = r
    BY DEF out
  <2>2. r \in Connections /\ r.conn = q.conn /\ r.requested = q.requested
        /\ r.toGet = q.toGet /\ r.out = out
    BY <1>1, <1>2 DEF Connections
  <2> HIDE DEF r
  <2> QED
    BY <1>4, <2>1, <2>2
<1>7. ASSUME Head(q.out).kind = "block"
      PROVE  /\ Head(q.out).block \in q.requested
             /\ \A i \in BlocksIn(out) : out[i].block # Head(q.out).block
  <2>1. 1 \in BlocksIn(q.out)
    BY <1>2, <1>7 DEF BlocksIn
  <2>2. ASSUME NEW i \in BlocksIn(out), out[i].block = q.out[1].block PROVE FALSE
    <3>1. 1 = i + 1 /\ i \in Nat \ {0}
      BY <1>1, <1>3, <2>1, <2>2 DEF OwesEachOnce
    <3> QED
      BY <3>1
  <2> QED
    BY <1>1, <1>2, <2>1, <2>2 DEF OwesEachOnce
<1> QED
  BY <1>2, <1>5, <1>6, <1>7

\* A block that was requested is received,
BlockArrived(n, p, b) ==
    [n EXCEPT !.peer[p].requested = @ \ {b}, !.active = @ \ {b},
              !.fresh = <<b>> \o @, !.backlog = TRUE]

LEMMA OnSyncBlockOK ==
    ASSUME NEW n, NodeOK(n), NEW p \in Peers, n.peer[p].conn # "none",
           NEW b \in n.peer[p].requested,
           \A i \in BlocksIn(n.peer[p].out) : n.peer[p].out[i].block # b
    PROVE  NodeOK(OnSyncBlock(n, p, b)) /\ NodeOK(BlockArrived(n, p, b))
<1> DEFINE q == n.peer[p]
           r == [q EXCEPT !.requested = @ \ {b}]
           active == n.active \ {b}
           fresh == <<b>> \o n.fresh
           m == [n EXCEPT !.peer[p].requested = @ \ {b}, !.active = @ \ {b},
                          !.fresh = <<b>> \o @, !.backlog = TRUE]
<1>1. /\ n \in Nodes /\ PeerOK(q, p) /\ q \in Connections /\ Owned(n) /\ b \in Blocks
      /\ n.recent \subseteq n.have /\ n.head \in n.have \cup {None} /\ Len(n.calls) <= MaxCalls
      /\ \A o \in Peers : PeerOK(n.peer[o], o)
  BY DEF NodeOK, PeerOK, Connections
<1>2. fresh \in Seq(Blocks) /\ active \subseteq Blocks
  BY <1>1 DEF Nodes
<1>3. /\ r \in Connections /\ r.requested = q.requested \ {b} /\ r.conn = q.conn
      /\ r.toGet = q.toGet /\ r.out = q.out
  BY <1>1 DEF Connections
<1> HIDE DEF r, fresh, active
<1>4. m = [n EXCEPT !.peer[p] = r, !.active = active, !.fresh = fresh, !.backlog = TRUE]
  BY <1>1 DEF Nodes, Connections, r, active, fresh
<1> HIDE DEF m
<1>5. /\ m \in Nodes /\ m.active = active /\ m.recent = n.recent /\ m.have = n.have
      /\ m.head = n.head /\ m.calls = n.calls
      /\ \A o \in Peers : m.peer[o] = IF o = p THEN r ELSE n.peer[o]
  BY <1>1, <1>2, <1>3, <1>4 DEF Nodes
<1>6. PeerOK(r, p)
  <2>1. IsFiniteSet(q.requested) /\ Cardinality(q.requested) <= MaxPerPeer
    BY <1>1 DEF PeerOK
  <2>2. /\ IsFiniteSet(q.requested \ {b})
        /\ Cardinality(q.requested \ {b}) = Cardinality(q.requested) - 1
    BY <2>1, FS_RemoveElement
  <2>3. Cardinality(q.requested) \in Nat
    BY <2>1, FS_CardinalityType
  <2>4. Cardinality(r.requested) <= MaxPerPeer /\ IsFiniteSet(r.requested)
    BY <1>3, <2>1, <2>2, <2>3, Constants
  <2>5. OwesEachOnce(r)
    BY <1>1, <1>3 DEF PeerOK, OwesEachOnce
  <2> QED
    BY <1>1, <1>3, <2>4, <2>5 DEF PeerOK
<1>7. Owned(m)
  <2>1. \A o \in Peers : m.peer[o].requested =
           IF o = p THEN q.requested \ {b} ELSE n.peer[o].requested
    BY <1>3, <1>5
  <2>2. \A o \in Peers : o # p => b \notin n.peer[o].requested
    BY <1>1 DEF Owned
  <2>3. m.active = UNION {m.peer[o].requested : o \in Peers}
    BY <1>1, <1>5, <2>1, <2>2 DEF Owned, active
  <2>4. \A a, o \in Peers : a # o => m.peer[a].requested \cap m.peer[o].requested = {}
    BY <1>1, <2>1 DEF Owned
  <2> QED
    BY <2>3, <2>4 DEF Owned
<1>8. NodeOK(m) /\ m.peer[p].conn # "none"
  BY <1>1, <1>3, <1>5, <1>6, <1>7 DEF NodeOK
<1>9. NodeOK(FetchNextBatch(m, p)) /\ NodeOK([m EXCEPT !.fetch = TRUE])
  BY <1>8, FetchNextBatchOK, FetchFlag DEF Called
<1>10. OnSyncBlock(n, p, b) \in {m, FetchNextBatch(m, p), [m EXCEPT !.fetch = TRUE]}
  BY DEF OnSyncBlock, m
<1> QED
  BY <1>8, <1>9, <1>10 DEF m, BlockArrived

-----------------------------------------------------------------------------
(* One round of fetch_sync_items_loop() *)

\* What a peer may be asked for: different blocks of its list that nobody was
\* asked for
Items(n, p) ==
    {items \in Seq(Blocks) :
        /\ Len(items) <= MaxPerPeer
        /\ \A i \in DOMAIN items : items[i] \in ToSet(n.peer[p].toGet) \ n.active
        /\ \A i, j \in DOMAIN items : items[i] = items[j] => i = j}

LEMMA ScheduleOK ==
    ASSUME NEW n, NEW p, NEW items \in Items(n, p), NEW b \in Blocks,
           b \in ToSet(n.peer[p].toGet)
    PROVE  Schedule(n, items, b) \in Items(n, p)
<1>1. /\ items \in Seq(Blocks) /\ Len(items) \in Nat /\ Len(items) <= MaxPerPeer
      /\ \A i \in DOMAIN items : items[i] \in ToSet(n.peer[p].toGet) \ n.active
      /\ \A i, j \in DOMAIN items : items[i] = items[j] => i = j
  BY DEF Items
<1>2. CASE /\ Len(items) < MaxPerPeer
           /\ b \notin n.active \cup ToSet(n.received) \cup ToSet(n.fresh) \cup ToSet(items)
  <2> DEFINE t == Append(items, b)
  <2>1. t \in Seq(Blocks) /\ Len(t) = Len(items) + 1 /\ DOMAIN t = 1 .. Len(items) + 1
    BY <1>1
  <2>2. /\ \A i \in 1 .. Len(items) : t[i] = items[i] /\ i \in DOMAIN items
        /\ t[Len(items) + 1] = b
    BY <1>1
  <2>3. \A i \in DOMAIN items : items[i] # b
    BY <1>2 DEF ToSet
  <2>4. \A i \in DOMAIN t : i \in 1 .. Len(items) \/ i = Len(items) + 1
    BY <1>1, <2>1
  <2>5. Len(t) <= MaxPerPeer
    BY <1>1, <1>2, <2>1, Constants
  <2> HIDE DEF t
  <2>6. \A i \in DOMAIN t : t[i] \in ToSet(n.peer[p].toGet) \ n.active
    BY <1>1, <1>2, <2>2, <2>4
  <2>7. \A i, j \in DOMAIN t : t[i] = t[j] => i = j
    BY <1>1, <2>2, <2>3, <2>4
  <2>8. t \in Items(n, p)
    BY <2>1, <2>5, <2>6, <2>7 DEF Items
  <2> QED
    BY <1>2, <2>8 DEF Schedule, t
<1>3. CASE ~(/\ Len(items) < MaxPerPeer
             /\ b \notin n.active \cup ToSet(n.received) \cup ToSet(n.fresh) \cup ToSet(items))
  BY <1>3 DEF Schedule
<1> QED
  BY <1>2, <1>3

ItemsOf(n, p) == FoldLeft(LAMBDA s, b : Schedule(n, s, b), <<>>, n.peer[p].toGet)

LEMMA ItemsOfOK ==
    ASSUME NEW n, NEW p, n.peer[p].toGet \in Seq(Blocks)
    PROVE  ItemsOf(n, p) \in Items(n, p)
<1> DEFINE list == n.peer[p].toGet
           S == DOMAIN list
           V == Items(n, p)
           pick == [s \in SUBSET S |-> Max(s)]
           op(i, e) == Schedule(n, e, list[i])
           step == [d \in S \X V |-> op(d[1], d[2])]
           Good == [s \in SUBSET S |-> V]
           Iter(h) == h = [s \in SUBSET S |->
                             IF s = {} THEN <<>> ELSE op(Max(s), h[s \ {Max(s)}])]
<1>1. S = 1 .. Len(list) /\ Len(list) \in Nat /\ IsFiniteSet(S)
  <2>1. S = 1 .. Len(list) /\ Len(list) \in Nat
    OBVIOUS
  <2> QED
    BY <2>1, FS_Interval
<1>2. \A s \in SUBSET S : s # {} => Max(s) \in s
  <2> SUFFICES ASSUME NEW s \in SUBSET S, s # {} PROVE Max(s) \in s
    OBVIOUS
  <2>1. s \subseteq 0 .. Len(list)
    BY <1>1
  <2> QED
    BY <1>1, <2>1, MinMax
<1>3. \A i \in S, e \in V : op(i, e) \in V
  <2> SUFFICES ASSUME NEW i \in S, NEW e \in V PROVE op(i, e) \in V
    OBVIOUS
  <2>1. list[i] \in Blocks /\ list[i] \in ToSet(list)
    BY DEF ToSet
  <2> QED
    BY <2>1, ScheduleOK
<1>4. <<>> \in V
  <2>1. <<>> \in Seq(Blocks) /\ Len(<<>>) <= MaxPerPeer /\ DOMAIN <<>> = {}
    BY Constants
  <2> QED
    BY <2>1 DEF Items
<1> HIDE DEF op, V
<1>5. \A i \in S, e \in V : step[<<i, e>>] = op(i, e)
  OBVIOUS
<1>6. \A s \in SUBSET S : pick[s] = Max(s) /\ Good[s] = V
  OBVIOUS
<1> HIDE DEF step, pick, Good, S
<1>7. Folding(S, pick, <<>>, step, Good)
  <2>1. ASSUME NEW s \in SUBSET S, s # {}, NEW e \in Good[s \ {pick[s]}]
        PROVE  step[<<pick[s], e>>] \in Good[s]
    <3>1. s \ {pick[s]} \in SUBSET S /\ pick[s] \in S
      BY <1>2, <1>6, <2>1
    <3>2. e \in V
      BY <1>6, <2>1, <3>1
    <3> QED
      BY <1>3, <1>5, <1>6, <3>1, <3>2
  <2>2. {} \in SUBSET S
    OBVIOUS
  <2>3. <<>> \in Good[{}]
    BY <1>4, <1>6, <2>2
  <2> QED
    BY <1>1, <1>2, <1>6, <2>1, <2>3 DEF Folding
<1>8. PICK h : h = [s \in SUBSET S |-> h[s]] /\ FoldOf(h, S, pick, <<>>, step)
  BY <1>7, FoldExists
<1>9. \A s \in SUBSET S : h[s] \in V
  BY <1>6, <1>7, <1>8, FoldGood
<1>10. Iter(h)
  <2>1. ASSUME NEW s \in SUBSET S
        PROVE  h[s] = IF s = {} THEN <<>> ELSE op(Max(s), h[s \ {Max(s)}])
    <3>1. h[s] = IF s = {} THEN <<>> ELSE step[<<pick[s], h[s \ {pick[s]}]>>]
      BY <1>8 DEF FoldOf
    <3>2. CASE s # {}
      <4>1. Max(s) \in S /\ s \ {Max(s)} \in SUBSET S /\ pick[s] = Max(s)
        BY <1>2, <1>6, <3>2
      <4>2. step[<<Max(s), h[s \ {Max(s)}]>>] = op(Max(s), h[s \ {Max(s)}])
        BY <1>5, <1>9, <4>1
      <4> QED
        BY <3>1, <3>2, <4>1, <4>2
    <3> QED
      BY <3>1, <3>2
  <2> DEFINE k == [s \in SUBSET S |-> IF s = {} THEN <<>> ELSE op(Max(s), h[s \ {Max(s)}])]
  <2>2. \A s \in SUBSET S : h[s] = k[s]
    BY <2>1
  <2>3. h = k
    BY <1>8, <2>2
  <2> QED
    BY <2>3
<1>11. ItemsOf(n, p) = (CHOOSE h_1 : Iter(h_1))[S]
  BY DEF ItemsOf, FoldLeft, MapThenFoldSet, op, S
<1> HIDE DEF Iter
<1>12. PICK k : Iter(k) /\ ItemsOf(n, p) = k[S]
  BY <1>10, <1>11
<1> USE DEF Iter
<1>13. k[S] \in Good[S]
  <2>1. \A s \in SUBSET S : k[s] = IF s = {} THEN <<>> ELSE op(Max(s), k[s \ {Max(s)}])
    BY <1>12
  <2>2. k[{}] \in Good[{}]
    <3>1. {} \in SUBSET S
      OBVIOUS
    <3>2. k[{}] = <<>> /\ Good[{}] = V
      BY <1>6, <2>1, <3>1
    <3> QED
      BY <1>4, <3>2
  <2>3. ASSUME NEW s \in SUBSET S, s # {}, k[s \ {pick[s]}] \in Good[s \ {pick[s]}]
        PROVE  k[s] \in Good[s]
    <3>1. pick[s] = Max(s) /\ Max(s) \in S /\ s \ {Max(s)} \in SUBSET S /\ Good[s] = V
      BY <1>2, <1>6, <2>3
    <3>2. k[s \ {Max(s)}] \in V
      BY <1>6, <2>3, <3>1
    <3> QED
      BY <1>3, <2>1, <2>3, <3>1, <3>2
  <2>4. \A s \in SUBSET S : s # {} => pick[s] \in s
    BY <1>2, <1>6
  <2> QED
    BY <1>1, <2>2, <2>3, <2>4, FoldKeeps
<1> QED
  BY <1>6, <1>12, <1>13 DEF V

LEMMA RequestSyncItemsOK ==
    ASSUME NEW n, NodeOK(n), NEW p \in Peers
    PROVE  NodeOK(RequestSyncItems(n, p))
<1> DEFINE q == n.peer[p]
           items == ItemsOf(n, p)
           more == [i \in DOMAIN items |-> [kind |-> "block", block |-> items[i]]]
           out == q.out \o more
           active == n.active \cup ToSet(items)
           r == [q EXCEPT !.requested = ToSet(items), !.out = @ \o more]
           m == [n EXCEPT !.active = @ \cup ToSet(items), !.peer[p].requested = ToSet(items),
                          !.peer[p].out = @ \o more]
<1>1. /\ n \in Nodes /\ PeerOK(q, p) /\ q \in Connections /\ Owned(n)
      /\ n.recent \subseteq n.have /\ n.head \in n.have \cup {None} /\ Len(n.calls) <= MaxCalls
      /\ q.toGet \in Seq(Blocks) /\ q.out \in Seq(Messages) /\ Len(q.out) \in Nat
      /\ \A o \in Peers : PeerOK(n.peer[o], o)
  BY DEF NodeOK, PeerOK, Connections
<1>2. RequestSyncItems(n, p) = IF ~q.weNeed \/ Busy(q) THEN n ELSE m
  BY DEF RequestSyncItems, ItemsOf
<1>3. items \in Items(n, p)
  BY <1>1, ItemsOfOK
<1> HIDE DEF items
<1>4. /\ items \in Seq(Blocks) /\ Len(items) \in Nat /\ DOMAIN items = 1 .. Len(items)
      /\ Len(items) <= MaxPerPeer
      /\ ToSet(items) \subseteq ToSet(q.toGet) \ n.active /\ ToSet(items) \subseteq Blocks
      /\ \A i, j \in DOMAIN items : items[i] = items[j] => i = j
  BY <1>3 DEF Items, ToSet
<1>5. /\ more \in Seq(Messages) /\ Len(more) = Len(items)
      /\ \A i \in 1 .. Len(items) : more[i].kind = "block" /\ more[i].block = items[i]
  <2>1. \A i \in 1 .. Len(items) : [kind |-> "block", block |-> items[i]] \in Messages
    BY <1>4 DEF Messages
  <2> QED
    BY <1>4, <2>1
<1> SUFFICES ASSUME ~(~q.weNeed \/ Busy(q)) PROVE NodeOK(m)
  BY <1>2
<1>6. q.requested = {} /\ q.conn # "none" /\ BlocksIn(q.out) = {}
  <2>1. q.requested = {} /\ q.conn # "none"
    BY <1>1 DEF Busy, PeerOK, NoConnection
  <2> QED
    BY <1>1, <2>1 DEF PeerOK, OwesEachOnce
<1> HIDE DEF more
<1>7. /\ out \in Seq(Messages) /\ Len(out) = Len(q.out) + Len(items)
      /\ \A i \in 1 .. Len(q.out) : out[i] = q.out[i]
      /\ \A i \in 1 .. Len(items) : out[Len(q.out) + i] = more[i]
  <2> DEFINE old == q.out
  <2>1. old \in Seq(Messages) /\ more \in Seq(Messages)
    BY <1>1, <1>5
  <2> HIDE DEF old
  <2>2. /\ old \o more \in Seq(Messages) /\ Len(old \o more) = Len(old) + Len(more)
        /\ \A i \in 1 .. Len(old) : (old \o more)[i] = old[i]
        /\ \A i \in 1 .. Len(more) : (old \o more)[Len(old) + i] = more[i]
    BY <2>1
  <2> QED
    BY <1>5, <2>2 DEF old
<1> HIDE DEF out
<1>8. ASSUME NEW i \in BlocksIn(out)
      PROVE  i - Len(q.out) \in 1 .. Len(items) /\ out[i].block = items[i - Len(q.out)]
  <2>1. i \in 1 .. Len(q.out) + Len(items) /\ out[i].kind = "block"
    BY <1>7 DEF BlocksIn
  <2>2. i \notin 1 .. Len(q.out)
    <3>1. \A k \in 1 .. Len(q.out) : q.out[k].kind # "block"
      BY <1>1, <1>6 DEF BlocksIn
    <3> QED
      BY <1>7, <2>1, <3>1
  <2> DEFINE k == i - Len(q.out)
  <2>3. k \in 1 .. Len(items) /\ i = Len(q.out) + k
    BY <1>1, <1>4, <2>1, <2>2
  <2> HIDE DEF k
  <2>4. out[i].block = items[k]
    BY <1>5, <1>7, <2>3
  <2> QED
    BY <2>3, <2>4 DEF k
<1>9. r \in Connections /\ r.requested = ToSet(items) /\ r.out = out /\ r.conn = q.conn
      /\ r.toGet = q.toGet
  <2>1. r = [q EXCEPT !.requested = ToSet(items), !.out = out]
    BY DEF out
  <2> HIDE DEF r
  <2> QED
    BY <1>1, <1>4, <1>7, <2>1 DEF Connections
<1> HIDE DEF r
<1>10. OwesEachOnce(r)
  <2> SUFFICES ASSUME NEW i \in BlocksIn(out)
               PROVE  /\ out[i].block \in ToSet(items)
                      /\ \A j \in BlocksIn(out) : out[j].block = out[i].block => i = j
    BY <1>9 DEF OwesEachOnce
  <2>1. out[i].block \in ToSet(items)
    BY <1>4, <1>8 DEF ToSet
  <2>2. ASSUME NEW j \in BlocksIn(out), out[j].block = out[i].block PROVE i = j
    <3>1. i - Len(q.out) = j - Len(q.out)
      BY <1>4, <1>8, <2>2
    <3>2. i \in Int /\ j \in Int
      BY <1>7 DEF BlocksIn
    <3> QED
      BY <1>1, <3>1, <3>2
  <2> QED
    BY <2>1, <2>2
<1>11. IsFiniteSet(ToSet(items)) /\ Cardinality(ToSet(items)) <= MaxPerPeer
  <2>1. IsFiniteSet(1 .. Len(items)) /\ Cardinality(1 .. Len(items)) = Len(items)
    <3> DEFINE l == Len(items)
    <3> HIDE DEF l
    <3>1. l \in Nat /\ 1 \in Int /\ l \in Int
      BY <1>4 DEF l
    <3>2. /\ IsFiniteSet(1 .. l)
          /\ Cardinality(1 .. l) = IF 1 > l THEN 0 ELSE l - 1 + 1
      BY <3>1, FS_Interval
    <3>3. (IF 1 > l THEN 0 ELSE l - 1 + 1) = l
      BY <3>1
    <3> QED
      BY <3>2, <3>3 DEF l
  <2>2. /\ IsFiniteSet(ToSet(items))
        /\ Cardinality(ToSet(items)) <= Cardinality(1 .. Len(items))
    <3>1. items \in Surjection(1 .. Len(items), ToSet(items))
      BY <1>4 DEF ToSet, Surjection
    <3> QED
      BY <2>1, <3>1, FS_Surjection
  <2>3. Cardinality(ToSet(items)) \in Nat
    BY <2>2, FS_CardinalityType
  <2> QED
    BY <1>4, <2>1, <2>2, <2>3, Constants
<1>12. PeerOK(r, p)
  BY <1>1, <1>4, <1>6, <1>9, <1>10, <1>11 DEF PeerOK
<1>13. m = [n EXCEPT !.active = active, !.peer[p] = r]
  BY <1>1 DEF Nodes, Connections, r
<1>14. active \subseteq Blocks
  BY <1>1, <1>4 DEF Nodes
<1> HIDE DEF m, active
<1>15. /\ m \in Nodes /\ m.active = active /\ m.recent = n.recent /\ m.have = n.have
       /\ m.head = n.head /\ m.calls = n.calls
       /\ \A o \in Peers : m.peer[o] = IF o = p THEN r ELSE n.peer[o]
  BY <1>1, <1>9, <1>13, <1>14 DEF Nodes
<1>16. Owned(m)
  <2>1. \A o \in Peers : m.peer[o].requested =
           IF o = p THEN ToSet(items) ELSE n.peer[o].requested
    BY <1>9, <1>15
  <2>2. \A o \in Peers : n.peer[o].requested \cap ToSet(items) = {}
    BY <1>1, <1>4 DEF Owned
  <2>3. m.active = UNION {m.peer[o].requested : o \in Peers}
    <3>1. n.active = UNION {n.peer[o].requested : o \in Peers}
      BY <1>1 DEF Owned
    <3>2. \A b : b \in m.active <=> \E o \in Peers : b \in m.peer[o].requested
      BY <1>6, <1>15, <2>1, <3>1 DEF active
    <3> QED
      BY <3>2
  <2>4. \A a, o \in Peers : a # o => m.peer[a].requested \cap m.peer[o].requested = {}
    BY <1>1, <2>1, <2>2 DEF Owned
  <2> QED
    BY <2>3, <2>4 DEF Owned
<1> QED
  BY <1>1, <1>12, <1>15, <1>16 DEF NodeOK

\* A round of the loop asks the peers one after the other: it does not leave the
\* nodes that asking one of them does not leave.
LEMMA AllRequests ==
    ASSUME NEW V, \A e \in V, p \in Peers : RequestSyncItems(e, p) \in V,
           NEW n \in V, NEW order \in Seq(Peers)
    PROVE  FoldLeft(RequestSyncItems, n, order) \in V
<1> DEFINE S == DOMAIN order
           pick == [s \in SUBSET S |-> Max(s)]
           op(i, e) == RequestSyncItems(e, order[i])
           step == [d \in S \X V |-> op(d[1], d[2])]
           Good == [s \in SUBSET S |-> V]
           Iter(h) == h = [s \in SUBSET S |->
                             IF s = {} THEN n ELSE op(Max(s), h[s \ {Max(s)}])]
<1>1. S = 1 .. Len(order) /\ Len(order) \in Nat /\ IsFiniteSet(S)
  <2>1. S = 1 .. Len(order) /\ Len(order) \in Nat
    OBVIOUS
  <2> QED
    BY <2>1, FS_Interval
<1>2. \A s \in SUBSET S : s # {} => Max(s) \in s
  <2> SUFFICES ASSUME NEW s \in SUBSET S, s # {} PROVE Max(s) \in s
    OBVIOUS
  <2>1. s \subseteq 0 .. Len(order)
    BY <1>1
  <2> QED
    BY <1>1, <2>1, MinMax
<1>3. \A i \in S, e \in V : op(i, e) \in V
  OBVIOUS
<1>4. n \in V
  OBVIOUS
<1> HIDE DEF op
<1>5. \A i \in S, e \in V : step[<<i, e>>] = op(i, e)
  OBVIOUS
<1>6. \A s \in SUBSET S : pick[s] = Max(s) /\ Good[s] = V
  OBVIOUS
<1> HIDE DEF step, pick, Good, S
<1>7. Folding(S, pick, n, step, Good)
  <2>1. ASSUME NEW s \in SUBSET S, s # {}, NEW e \in Good[s \ {pick[s]}]
        PROVE  step[<<pick[s], e>>] \in Good[s]
    <3>1. s \ {pick[s]} \in SUBSET S /\ pick[s] \in S
      BY <1>2, <1>6, <2>1
    <3>2. e \in V
      BY <1>6, <2>1, <3>1
    <3> QED
      BY <1>3, <1>5, <1>6, <3>1, <3>2
  <2>2. {} \in SUBSET S
    OBVIOUS
  <2>3. n \in Good[{}]
    BY <1>4, <1>6, <2>2
  <2> QED
    BY <1>1, <1>2, <1>6, <2>1, <2>3 DEF Folding
<1>8. PICK h : h = [s \in SUBSET S |-> h[s]] /\ FoldOf(h, S, pick, n, step)
  BY <1>7, FoldExists
<1>9. \A s \in SUBSET S : h[s] \in V
  BY <1>6, <1>7, <1>8, FoldGood
<1>10. Iter(h)
  <2>1. ASSUME NEW s \in SUBSET S
        PROVE  h[s] = IF s = {} THEN n ELSE op(Max(s), h[s \ {Max(s)}])
    <3>1. h[s] = IF s = {} THEN n ELSE step[<<pick[s], h[s \ {pick[s]}]>>]
      BY <1>8 DEF FoldOf
    <3>2. CASE s # {}
      <4>1. Max(s) \in S /\ s \ {Max(s)} \in SUBSET S /\ pick[s] = Max(s)
        BY <1>2, <1>6, <3>2
      <4>2. step[<<Max(s), h[s \ {Max(s)}]>>] = op(Max(s), h[s \ {Max(s)}])
        BY <1>5, <1>9, <4>1
      <4> QED
        BY <3>1, <3>2, <4>1, <4>2
    <3> QED
      BY <3>1, <3>2
  <2> DEFINE k == [s \in SUBSET S |-> IF s = {} THEN n ELSE op(Max(s), h[s \ {Max(s)}])]
  <2>2. \A s \in SUBSET S : h[s] = k[s]
    BY <2>1
  <2>3. h = k
    BY <1>8, <2>2
  <2> QED
    BY <2>3
<1>11. FoldLeft(RequestSyncItems, n, order) = (CHOOSE h_1 : Iter(h_1))[S]
  BY DEF FoldLeft, MapThenFoldSet, op, S
<1> HIDE DEF Iter
<1>12. PICK k : Iter(k) /\ FoldLeft(RequestSyncItems, n, order) = k[S]
  BY <1>10, <1>11
<1> USE DEF Iter
<1>13. k[S] \in Good[S]
  <2>1. \A s \in SUBSET S : k[s] = IF s = {} THEN n ELSE op(Max(s), k[s \ {Max(s)}])
    BY <1>12
  <2>2. k[{}] \in Good[{}]
    <3>1. {} \in SUBSET S
      OBVIOUS
    <3>2. k[{}] = n /\ Good[{}] = V
      BY <1>6, <2>1, <3>1
    <3> QED
      BY <1>4, <3>2
  <2>3. ASSUME NEW s \in SUBSET S, s # {}, k[s \ {pick[s]}] \in Good[s \ {pick[s]}]
        PROVE  k[s] \in Good[s]
    <3>1. pick[s] = Max(s) /\ Max(s) \in S /\ s \ {Max(s)} \in SUBSET S /\ Good[s] = V
      BY <1>2, <1>6, <2>3
    <3>2. k[s \ {Max(s)}] \in V
      BY <1>6, <2>3, <3>1
    <3> QED
      BY <1>3, <2>1, <2>3, <3>1, <3>2
  <2>4. \A s \in SUBSET S : s # {} => pick[s] \in s
    BY <1>2, <1>6
  <2> QED
    BY <1>1, <2>2, <2>3, <2>4, FoldKeeps
<1> QED
  BY <1>6, <1>12, <1>13

LEMMA AllRequestsOK ==
    ASSUME NEW n, NodeOK(n), NEW order \in Seq(Peers)
    PROVE  NodeOK(FoldLeft(RequestSyncItems, n, order))
<1> DEFINE V == {m \in Nodes : NodeOK(m)}
<1>1. n \in V
  BY DEF NodeOK
<1>2. \A e \in V, p \in Peers : RequestSyncItems(e, p) \in V
  <2> SUFFICES ASSUME NEW e \in V, NEW p \in Peers PROVE RequestSyncItems(e, p) \in V
    OBVIOUS
  <2>1. NodeOK(RequestSyncItems(e, p))
    BY RequestSyncItemsOK
  <2> QED
    BY <2>1 DEF NodeOK
<1> HIDE DEF V
<1>3. FoldLeft(RequestSyncItems, n, order) \in V
  BY <1>1, <1>2, AllRequests
<1> QED
  BY <1>3 DEF V

-----------------------------------------------------------------------------
(* process_backlog_of_sync_blocks() *)

LEMMA PoppedPeersOK ==
    ASSUME NEW n, NodeOK(n), NEW b \in Blocks
    PROVE  Called(WithPeers(n, Offering(n, b), LAMBDA q :
                      [q EXCEPT !.toGet = Tail(@), !.processing = @ \cup {b}]), n)
<1> DEFINE S == Offering(n, b)
           f == [o \in S |-> [n.peer[o] EXCEPT !.toGet = Tail(@), !.processing = @ \cup {b}]]
<1>1. S \subseteq Peers /\ \A o \in S : Joined(n.peer[o], o) /\ n.peer[o].toGet # <<>>
  BY ActiveJoined, JoinedPeer DEF Offering
<1> HIDE DEF S
<1>2. WithPeers(n, S, LAMBDA q : [q EXCEPT !.toGet = Tail(@), !.processing = @ \cup {b}])
        = [n EXCEPT !.peer = [o \in Peers |-> IF o \in S THEN f[o] ELSE n.peer[o]]]
  BY DEF WithPeers
<1>3. \A o \in S : Joined(f[o], o) /\ f[o].requested = n.peer[o].requested
  <2> SUFFICES ASSUME NEW o \in S
               PROVE  Joined(f[o], o) /\ f[o].requested = n.peer[o].requested
    OBVIOUS
  <2> DEFINE q == n.peer[o]
             r == [q EXCEPT !.toGet = Tail(@), !.processing = @ \cup {b}]
  <2>1. Joined(q, o) /\ q.toGet # <<>>
    BY <1>1
  <2>2. f[o] = r
    OBVIOUS
  <2> HIDE DEF q, f
  <2>3. Kept(r, q, o)
    BY <2>1, PoppedOK
  <2> QED
    BY <2>2, <2>3 DEF Kept, q
<1> HIDE DEF f
<1>4. Called([n EXCEPT !.peer = [o \in Peers |-> IF o \in S THEN f[o] ELSE n.peer[o]]], n)
  BY <1>1, <1>3, WithPeersOK
<1>5. Called(WithPeers(n, S, LAMBDA q :
                         [q EXCEPT !.toGet = Tail(@), !.processing = @ \cup {b}]), n)
  BY <1>2, <1>4
<1> QED
  BY <1>5 DEF S

LEMMA ProcessedPeersOK ==
    ASSUME NEW n, NodeOK(n), NEW b \in Blocks, NEW head \in Blocks \cup {None}
    PROVE  Called(WithPeers(n, Having(n, b), LAMBDA q : Processed(head, q, b)), n)
<1> DEFINE S == Having(n, b)
           f == [o \in S |-> Processed(head, n.peer[o], b)]
<1>1. S \subseteq Peers /\ \A o \in S : Joined(n.peer[o], o)
  BY ActiveJoined, JoinedPeer DEF Having
<1> HIDE DEF S
<1>2. WithPeers(n, S, LAMBDA q : Processed(head, q, b))
        = [n EXCEPT !.peer = [o \in Peers |-> IF o \in S THEN f[o] ELSE n.peer[o]]]
  BY DEF WithPeers
<1>3. \A o \in S : Joined(f[o], o) /\ f[o].requested = n.peer[o].requested
  BY <1>1, ProcessedOK DEF Kept
<1> HIDE DEF f
<1>4. Called([n EXCEPT !.peer = [o \in Peers |-> IF o \in S THEN f[o] ELSE n.peer[o]]], n)
  BY <1>1, <1>3, WithPeersOK
<1>5. Called(WithPeers(n, S, LAMBDA q : Processed(head, q, b)), n)
  BY <1>2, <1>4
<1> QED
  BY <1>5 DEF S

LEMMA WithoutOne ==
    ASSUME NEW s \in Seq(Blocks), NEW i \in DOMAIN s
    PROVE  RemoveAt(s, i) \in Seq(Blocks) /\ ToSet(RemoveAt(s, i)) \subseteq ToSet(s)
<1>1. i \in 1 .. Len(s)
  OBVIOUS
<1> DEFINE a == SubSeq(s, 1, i - 1)
           c == SubSeq(s, i + 1, Len(s))
<1>2. 1 \in 1 .. Len(s) + 1 /\ i - 1 \in 0 .. Len(s)
      /\ i + 1 \in 1 .. Len(s) + 1 /\ Len(s) \in 0 .. Len(s)
  BY <1>1
<1>3. a \in Seq(Blocks) /\ ToSet(a) \subseteq ToSet(s)
      /\ c \in Seq(Blocks) /\ ToSet(c) \subseteq ToSet(s)
  BY <1>2, PartOf
<1> HIDE DEF a, c
<1>4. a \o c \in Seq(Blocks) /\ ToSet(a \o c) = ToSet(a) \cup ToSet(c)
  BY <1>3, JoinedParts
<1>5. RemoveAt(s, i) = a \o c
  BY DEF RemoveAt, a, c
<1> QED
  BY <1>3, <1>4, <1>5

\* A block is handed to the chain only while there is room for its task.
LEMMA HandOnOK ==
    ASSUME NEW n, NodeOK(n), Len(n.calls) < MaxCalls, NEW i \in DOMAIN n.received
    PROVE  NodeOK(HandOn(n, i))
<1> DEFINE b == n.received[i]
           popped == WithPeers(n, Offering(n, b), LAMBDA q :
                         [q EXCEPT !.toGet = Tail(@), !.processing = @ \cup {b}])
           treated == WithPeers(popped, Having(popped, b), LAMBDA q : Processed(n.head, q, b))
           received == RemoveAt(n.received, i)
           calls == Append(n.calls, b)
           handed == [popped EXCEPT !.received = RemoveAt(@, i), !.calls = Append(@, b)]
<1>1. n \in Nodes /\ b \in Blocks /\ n.head \in Blocks \cup {None}
      /\ n.received \in Seq(Blocks) /\ n.calls \in Seq(Blocks)
  BY DEF NodeOK, Nodes
<1>2. HandOn(n, i) = IF b \in n.recent THEN treated ELSE handed
  BY DEF HandOn
<1>3. Called(popped, n)
  BY <1>1, PoppedPeersOK
<1> HIDE DEF popped, b
<1>4. NodeOK(popped) /\ popped \in Nodes
      /\ popped.received = n.received /\ popped.calls = n.calls
  <2>1. NodeOK(popped) /\ popped = [n EXCEPT !.peer = popped.peer]
    BY <1>3 DEF Called
  <2> QED
    BY <1>1, <2>1 DEF NodeOK, Nodes
<1>5. NodeOK(treated)
  <2>1. Called(treated, popped)
    BY <1>1, <1>4, ProcessedPeersOK
  <2> QED
    BY <2>1 DEF Called
<1>6. NodeOK(handed)
  <2>1. received \in Seq(Blocks)
    BY <1>1, WithoutOne
  <2>2. calls \in Seq(Blocks) /\ Len(calls) <= MaxCalls
    BY <1>1, Constants
  <2> HIDE DEF received, calls
  <2>3. handed = [popped EXCEPT !.received = received, !.calls = calls]
    BY <1>4 DEF received, calls
  <2> HIDE DEF handed
  <2>4. handed \in Nodes /\ handed.peer = popped.peer /\ handed.active = popped.active
        /\ handed.have = popped.have /\ handed.recent = popped.recent
        /\ handed.head = popped.head /\ handed.calls = calls
    BY <1>4, <2>1, <2>2, <2>3 DEF Nodes
  <2> QED
    BY <1>4, <2>2, <2>4, OthersOK
<1> HIDE DEF treated, handed
<1> QED
  BY <1>2, <1>5, <1>6

\* The turns of its loop, which goes on only while there is room
Turns ==
    {turn \in [node : Nodes, more : BOOLEAN] :
        NodeOK(turn.node) /\ (turn.more => Len(turn.node.calls) < MaxCalls)}

\* A turn begins with the blocks received since the last one.
Gathered(old) ==
    [old EXCEPT !.received = Reverse(old.fresh) \o @, !.fresh = <<>>]

LEMMA GatheredOK ==
    ASSUME NEW old, NodeOK(old)
    PROVE  /\ NodeOK(Gathered(old)) /\ Gathered(old) \in Nodes
           /\ Gathered(old).calls = old.calls /\ Gathered(old).have = old.have
           /\ Gathered(old).head = old.head /\ Gathered(old).peer = old.peer
<1> DEFINE n == Gathered(old)
<1>0. old \in Nodes /\ Len(old.calls) <= MaxCalls
  BY DEF NodeOK
<1> DEFINE received == Reverse(old.fresh) \o old.received
           fresh == Reverse(old.fresh)
<1>1. received \in Seq(Blocks)
  <2>1. old.fresh \in Seq(Blocks) /\ old.received \in Seq(Blocks)
    BY <1>0 DEF Nodes
  <2>2. fresh \in Seq(Blocks)
    <3>1. \A i \in 1 .. Len(old.fresh) : old.fresh[Len(old.fresh) - i + 1] \in Blocks
      BY <2>1
    <3>2. [i \in 1 .. Len(old.fresh) |-> old.fresh[Len(old.fresh) - i + 1]] \in Seq(Blocks)
      BY <2>1, <3>1
    <3> QED
      BY <3>2 DEF Reverse
  <2> HIDE DEF fresh
  <2>3. fresh \o old.received \in Seq(Blocks)
    BY <2>1, <2>2
  <2> QED
    BY <2>3 DEF fresh
<1>2. n = [old EXCEPT !.received = received, !.fresh = <<>>]
  BY <1>0 DEF Nodes, Gathered
<1>4. <<>> \in Seq(Blocks)
  OBVIOUS
<1> HIDE DEF received, n
<1>3. n \in Nodes /\ n.peer = old.peer /\ n.active = old.active /\ n.have = old.have
      /\ n.recent = old.recent /\ n.head = old.head /\ n.calls = old.calls
  BY <1>0, <1>1, <1>2, <1>4 DEF Nodes
<1>5. NodeOK(n)
  BY <1>0, <1>3, OthersOK
<1> QED
  BY <1>3, <1>5 DEF n

LEMMA TurnOK ==
    ASSUME NEW turn \in Turns
    PROVE  BacklogTurn(turn) \subseteq Turns
<1> DEFINE old     == turn.node
           n       == [old EXCEPT !.received = Reverse(old.fresh) \o @, !.fresh = <<>>]
           first   == {i \in DOMAIN n.received : Offering(n, n.received[i]) # {}}
           full(m) == Len(m.calls) >= MaxCalls
           end(m)  == [m EXCEPT !.suspend = @ \/ (full(m) /\ Len(m.received) >= MaxWaiting)]
           m       == HandOn(n, Min(first))
           last    == [node |-> end(n), more |-> FALSE]
           next    == [node |-> end(m), more |-> m.calls # n.calls /\ ~full(m)]
<1>1. /\ old \in Nodes /\ NodeOK(old) /\ Len(old.calls) <= MaxCalls
      /\ turn.more => Len(old.calls) < MaxCalls
  BY DEF Turns, NodeOK
<1>2. BacklogTurn(turn) = IF ~turn.more THEN {turn} ELSE IF first = {} THEN {last} ELSE {next}
  BY DEF BacklogTurn
<1> HIDE DEF old
<1>3. NodeOK(n) /\ n.calls = old.calls /\ n \in Nodes
  BY <1>1, GatheredOK DEF Gathered
<1> HIDE DEF n
<1>4. ASSUME NEW k, NodeOK(k)
      PROVE  NodeOK(end(k)) /\ end(k) \in Nodes /\ end(k).calls = k.calls
  <2> DEFINE suspend == k.suspend \/ (full(k) /\ Len(k.received) >= MaxWaiting)
  <2>1. k \in Nodes /\ suspend \in BOOLEAN
    BY <1>4 DEF NodeOK
  <2> HIDE DEF suspend
  <2>2. NodeOK([k EXCEPT !.suspend = suspend])
    BY <1>4, <2>1, FetchFlag
  <2>3. end(k) = [k EXCEPT !.suspend = suspend]
    BY <2>1 DEF Nodes, suspend
  <2> HIDE DEF end
  <2> QED
    BY <2>1, <2>2, <2>3 DEF NodeOK, Nodes
<1> HIDE DEF end
<1>5. last \in Turns
  BY <1>3, <1>4 DEF Turns
<1>6. ASSUME turn.more, first # {} PROVE next \in Turns
  <2>1. Min(first) \in DOMAIN n.received
    <3>1. first \subseteq DOMAIN n.received
      OBVIOUS
    <3>2. DOMAIN n.received = 1 .. Len(n.received) /\ Len(n.received) \in Nat
      BY <1>3 DEF Nodes
    <3>3. first \subseteq 0 .. Len(n.received)
      BY <3>1, <3>2
    <3> HIDE DEF first
    <3>4. Min(first) \in first
      BY <1>6, <3>2, <3>3, MinMax
    <3> QED
      BY <3>1, <3>4
  <2> HIDE DEF first
  <2>2. NodeOK(m)
    BY <1>1, <1>3, <1>6, <2>1, HandOnOK
  <2> HIDE DEF m
  <2>3. NodeOK(end(m)) /\ end(m) \in Nodes /\ end(m).calls = m.calls
    BY <1>4, <2>2
  <2>4. ~full(m) => Len(m.calls) < MaxCalls
    <3>1. Len(m.calls) \in Nat
      BY <2>2 DEF NodeOK, Nodes
    <3> QED
      BY <3>1, Constants
  <2> QED
    BY <2>3, <2>4 DEF Turns
<1> HIDE DEF first, next, last
<1> QED
  BY <1>2, <1>5, <1>6

\* What the loop ends with
Backlog(start, k) ==
    FoldSet(LAMBDA i, S : UNION {BacklogTurn(turn) : turn \in S}, {start}, 1 .. k)

\* is among the turns that one does not leave.
LEMMA Turning ==
    ASSUME NEW W, \A turn \in W : BacklogTurn(turn) \subseteq W,
           NEW start \in W, NEW l \in Nat
    PROVE  Backlog(start, l) \subseteq W
<1> DEFINE S == 1 .. l
           V == SUBSET W
           elem(s) == CHOOSE x \in s : TRUE
           pick == [s \in SUBSET S |-> elem(s)]
           op(e) == UNION {BacklogTurn(turn) : turn \in e}
           step == [d \in S \X V |-> op(d[2])]
           Good == [s \in SUBSET S |-> V]
           Iter(h) == h = [s \in SUBSET S |->
                             IF s = {} THEN {start} ELSE op(h[s \ {elem(s)}])]
<1>1. IsFiniteSet(S)
  BY FS_Interval
<1>2. \A s \in SUBSET S : s # {} => elem(s) \in s
  OBVIOUS
<1>3. \A e \in V : op(e) \in V
  OBVIOUS
<1>4. {start} \in V
  OBVIOUS
<1> HIDE DEF op, V, elem
<1>5. \A i \in S, e \in V : step[<<i, e>>] = op(e)
  OBVIOUS
<1>6. \A s \in SUBSET S : pick[s] = elem(s) /\ Good[s] = V
  OBVIOUS
<1> HIDE DEF step, pick, Good, S
<1>7. Folding(S, pick, {start}, step, Good)
  <2>1. ASSUME NEW s \in SUBSET S, s # {}, NEW e \in Good[s \ {pick[s]}]
        PROVE  step[<<pick[s], e>>] \in Good[s]
    <3>1. s \ {pick[s]} \in SUBSET S /\ pick[s] \in S
      BY <1>2, <1>6, <2>1
    <3>2. e \in V
      BY <1>6, <2>1, <3>1
    <3> QED
      BY <1>3, <1>5, <1>6, <3>1, <3>2
  <2>2. {} \in SUBSET S
    OBVIOUS
  <2>3. {start} \in Good[{}]
    BY <1>4, <1>6, <2>2
  <2> QED
    BY <1>1, <1>2, <1>6, <2>1, <2>3 DEF Folding
<1>8. PICK h : h = [s \in SUBSET S |-> h[s]] /\ FoldOf(h, S, pick, {start}, step)
  BY <1>7, FoldExists
<1>9. \A s \in SUBSET S : h[s] \in V
  BY <1>6, <1>7, <1>8, FoldGood
<1>10. Iter(h)
  <2>1. ASSUME NEW s \in SUBSET S
        PROVE  h[s] = IF s = {} THEN {start} ELSE op(h[s \ {elem(s)}])
    <3>1. h[s] = IF s = {} THEN {start} ELSE step[<<pick[s], h[s \ {pick[s]}]>>]
      BY <1>8 DEF FoldOf
    <3>2. CASE s # {}
      <4>1. elem(s) \in S /\ s \ {elem(s)} \in SUBSET S /\ pick[s] = elem(s)
        BY <1>2, <1>6, <3>2
      <4>2. step[<<elem(s), h[s \ {elem(s)}]>>] = op(h[s \ {elem(s)}])
        BY <1>5, <1>9, <4>1
      <4> QED
        BY <3>1, <3>2, <4>1, <4>2
    <3> QED
      BY <3>1, <3>2
  <2> DEFINE k == [s \in SUBSET S |-> IF s = {} THEN {start} ELSE op(h[s \ {elem(s)}])]
  <2>2. \A s \in SUBSET S : h[s] = k[s]
    BY <2>1
  <2>3. h = k
    BY <1>8, <2>2
  <2> QED
    BY <2>3
<1>11. Backlog(start, l) = (CHOOSE h_1 : Iter(h_1))[S]
  BY DEF Backlog, FoldSet, MapThenFoldSet, op, elem, S
<1> HIDE DEF Iter
<1>12. PICK k : Iter(k) /\ Backlog(start, l) = k[S]
  BY <1>10, <1>11
<1> USE DEF Iter
<1>13. k[S] \in Good[S]
  <2>1. \A s \in SUBSET S : k[s] = IF s = {} THEN {start} ELSE op(k[s \ {elem(s)}])
    BY <1>12
  <2>2. k[{}] \in Good[{}]
    <3>1. {} \in SUBSET S
      OBVIOUS
    <3>2. k[{}] = {start} /\ Good[{}] = V
      BY <1>6, <2>1, <3>1
    <3> QED
      BY <1>4, <3>2
  <2>3. ASSUME NEW s \in SUBSET S, s # {}, k[s \ {pick[s]}] \in Good[s \ {pick[s]}]
        PROVE  k[s] \in Good[s]
    <3>1. pick[s] = elem(s) /\ s \ {elem(s)} \in SUBSET S /\ Good[s] = V
      BY <1>6, <2>3
    <3>2. k[s \ {elem(s)}] \in V
      BY <1>6, <2>3, <3>1
    <3> QED
      BY <1>3, <2>1, <2>3, <3>1, <3>2
  <2>4. \A s \in SUBSET S : s # {} => pick[s] \in s
    BY <1>2, <1>6
  <2> QED
    BY <1>1, <2>2, <2>3, <2>4, FoldKeeps
<1> QED
  BY <1>6, <1>12, <1>13 DEF V

LEMMA BacklogOK ==
    ASSUME NEW start \in Turns, NEW l \in Nat
    PROVE  Backlog(start, l) \subseteq Turns
<1>1. \A turn \in Turns : BacklogTurn(turn) \subseteq Turns
  BY TurnOK
<1> QED
  BY <1>1, Turning

LEMMA ProcessBacklogOK ==
    ASSUME NEW n, NodeOK(n), NEW k \in ProcessBacklog(n)
    PROVE  NodeOK(k)
<1> DEFINE l == Len(n.received) + Len(n.fresh) + 1
           start == [node |-> [n EXCEPT !.suspend = FALSE], more |-> TRUE]
<1>1. CASE Len(n.calls) >= MaxCalls
  <2>1. ProcessBacklog(n) = {n}
    BY <1>1 DEF ProcessBacklog
  <2> QED
    BY <2>1
<1>2. CASE ~(Len(n.calls) >= MaxCalls)
  <2>1. ProcessBacklog(n) =
          {[turn.node EXCEPT !.fetch = @ \/ ~turn.node.suspend] : turn \in Backlog(start, l)}
    BY <1>2 DEF ProcessBacklog, Backlog
  <2>2. l \in Nat /\ Len(n.calls) \in Nat /\ n \in Nodes
    BY DEF NodeOK, Nodes
  <2>3. start \in Turns
    <3> DEFINE m == [n EXCEPT !.suspend = FALSE]
    <3>1. NodeOK(m) /\ m \in Nodes /\ m.calls = n.calls
      BY <2>2, FetchFlag DEF NodeOK, Nodes
    <3> HIDE DEF m
    <3>2. Len(m.calls) < MaxCalls
      BY <1>2, <2>2, <3>1, Constants
    <3>3. start = [node |-> m, more |-> TRUE]
      BY DEF m
    <3> HIDE DEF start
    <3> QED
      BY <3>1, <3>2, <3>3 DEF Turns
  <2> HIDE DEF start, l
  <2>4. PICK turn \in Backlog(start, l) :
               k = [turn.node EXCEPT !.fetch = @ \/ ~turn.node.suspend]
    BY <2>1
  <2>5. NodeOK(turn.node) /\ turn.node \in Nodes
    BY <2>2, <2>3, <2>4, BacklogOK DEF Turns
  <2> DEFINE m == turn.node
             fetch == m.fetch \/ ~m.suspend
  <2>6. k = [m EXCEPT !.fetch = fetch]
    BY <2>4, <2>5 DEF Nodes
  <2>7. fetch \in BOOLEAN
    OBVIOUS
  <2> HIDE DEF m, fetch
  <2> QED
    BY <2>5, <2>6, <2>7, FetchFlag DEF m
<1> QED
  BY <1>1, <1>2

-----------------------------------------------------------------------------
(* The actions *)

\* Other fields of one peer are set.
LEMMA OneFieldOK ==
    ASSUME NEW n, NodeOK(n), NEW p \in Peers, n.peer[p].conn # "none",
           NEW r \in Connections, SameOwed(r, n.peer[p]), r.toGet = n.peer[p].toGet
    PROVE  Called([n EXCEPT !.peer[p] = r], n)
<1>1. Joined(n.peer[p], p) /\ ToSet(n.peer[p].toGet) \subseteq ChainOf(p)
  BY JoinedPeer DEF Joined, PeerOK
<1>2. Kept(r, n.peer[p], p)
  BY <1>1, OtherFields
<1> QED
  BY <1>2, OnePeerCalled

LEMMA OnNewBlockOK ==
    ASSUME NEW n, NodeOK(n), NEW p \in Peers, n.peer[p].conn # "none", NEW b \in Blocks
    PROVE  NodeOK(OnNewBlock(n, p, b))
<1> DEFINE q == n.peer[p]
           r == [q EXCEPT !.fetched = {}]
           m == [n EXCEPT !.peer[p].fetched = {}]
           offering == {o \in ActivePeers(m) : b \in m.peer[o].offered}
           base == IF b \in m.recent THEN m ELSE Accepted(m, b)
           f == [o \in offering |-> [base.peer[o] EXCEPT !.seen = b]]
           told == [base EXCEPT !.peer =
                      [o \in Peers |-> IF o \in offering THEN f[o] ELSE base.peer[o]]]
           refused == Disconnect(m, {p} \cup Offering(m, b))
           behind == StartSynchronizing(m, p)
           handled ==
             IF b \in m.recent \/ Accepts(m, b) THEN told
             ELSE IF Parent[b] \in m.have \cup {None} THEN refused ELSE behind
<1>1. n \in Nodes /\ q \in Connections
  BY DEF NodeOK, Nodes
<1>2. NodeOK(m) /\ m.peer[p].conn # "none"
  <2>1. r \in Connections /\ SameOwed(r, q) /\ r.toGet = q.toGet
    BY <1>1 DEF Connections, SameOwed
  <2>2. m = [n EXCEPT !.peer[p] = r]
    BY <1>1 DEF Nodes, Connections
  <2> HIDE DEF r, m
  <2>3. Called(m, n)
    BY <2>1, <2>2, OneFieldOK
  <2> QED
    BY <2>3 DEF Called
<1>3. OnNewBlock(n, p, b) = [handled EXCEPT !.refetch = @ \/ ~Busy(handled.peer[p])]
  <2>1. told = WithPeers(base, offering, LAMBDA s : [s EXCEPT !.seen = b])
    <3> HIDE DEF base, offering
    <3> QED
      BY DEF WithPeers
  <2> DEFINE asking == WithPeers(base, offering, LAMBDA s : [s EXCEPT !.seen = b])
             answer == IF b \in m.recent \/ Accepts(m, b) THEN asking
                       ELSE IF Parent[b] \in m.have \cup {None} THEN refused ELSE behind
  <2>2. OnNewBlock(n, p, b) = [answer EXCEPT !.refetch = @ \/ ~Busy(answer.peer[p])]
    BY DEF OnNewBlock
  <2>3. answer = handled
    <3> HIDE DEF told, refused, behind, base, offering, m
    <3> QED
      BY <2>1
  <2> HIDE DEF answer, handled
  <2> QED
    BY <2>2, <2>3
<1> HIDE DEF m
<1>4. NodeOK(base) /\ base.peer = m.peer
  BY <1>2, AcceptedOK
<1>5. offering \subseteq Peers /\ \A o \in offering : base.peer[o].conn # "none"
  BY <1>4, ActiveJoined
<1> HIDE DEF base, offering
<1>6. \A o \in offering : Joined(f[o], o) /\ f[o].requested = base.peer[o].requested
  <2> SUFFICES ASSUME NEW o \in offering
               PROVE  Kept([base.peer[o] EXCEPT !.seen = b], base.peer[o], o)
    BY DEF Kept
  <2>1. Joined(base.peer[o], o)
    BY <1>4, <1>5, JoinedPeer
  <2> QED
    BY <2>1, SeenOK
<1> HIDE DEF f
<1>7. NodeOK(told)
  <2>1. Called(told, base)
    BY <1>4, <1>5, <1>6, WithPeersOK
  <2> QED
    BY <2>1 DEF Called
<1>8. NodeOK(refused)
  BY <1>2, DisconnectOK DEF Called
<1>9. NodeOK(behind)
  BY <1>2, StartSynchronizingOK DEF Called
<1> HIDE DEF told, refused, behind
<1>10. NodeOK(handled)
  BY <1>7, <1>8, <1>9
<1> HIDE DEF handled
<1> DEFINE flag == handled.refetch \/ ~Busy(handled.peer[p])
<1>11. flag \in BOOLEAN
  OBVIOUS
<1>12. OnNewBlock(n, p, b) = [handled EXCEPT !.refetch = flag]
  BY <1>3
<1> HIDE DEF flag
<1>13. NodeOK([handled EXCEPT !.refetch = flag])
  BY <1>10, <1>11, FetchFlag
<1> QED
  BY <1>12, <1>13

\* A connected peer is the only one with messages.
LEMMA Sending ==
    ASSUME SyncInv, NEW p \in Peers, node.peer[p].out # <<>>
    PROVE  /\ Joined(node.peer[p], p) /\ NodeOK(node) /\ node.peer[p] \in Connections
           /\ node.peer[p].conn # "none" /\ node \in Nodes
<1>1. PeerOK(node.peer[p], p) /\ NodeOK(node) /\ node.peer[p] \in Connections /\ node \in Nodes
  BY PeerOKInNodes DEF SyncInv, NodeOK
<1>2. node.peer[p].conn # "none"
  BY <1>1 DEF PeerOK, NoConnection
<1> QED
  BY <1>1, <1>2 DEF Joined

LEMMA ConnectStep ==
    ASSUME SyncInv, NEW p \in Peers, Connect(p)
    PROVE  NodeOK(node')
<1> DEFINE r == [NoConnection EXCEPT !.conn = "active", !.theyNeed = TRUE]
           n == [node EXCEPT !.peer[p] = r]
<1>1. NodeOK(node) /\ node.peer[p] = NoConnection
  BY DEF SyncInv, NodeOK, PeerOK, Connect
<1>2. PeerOK(NoConnection, p) /\ NoConnection.requested = {} /\ NoConnection \in Connections
  BY NoConnectionOK
<1>3. /\ r \in Connections /\ r.conn = "active" /\ r.requested = {}
      /\ r.out = NoConnection.out /\ r.toGet = NoConnection.toGet
  BY <1>2 DEF Connections, NoConnection
<1> HIDE DEF r
<1>4. PeerOK(r, p)
  BY <1>2, <1>3 DEF PeerOK, OwesEachOnce
<1>5. NodeOK(n) /\ n.peer[p] = r
  <2>1. r.requested = node.peer[p].requested
    BY <1>1, <1>2, <1>3
  <2> QED
    BY <1>1, <1>4, <2>1, OnePeer
<1>6. node' = StartSynchronizing(n, p)
  BY DEF Connect, r
<1> HIDE DEF n
<1>7. Called(StartSynchronizing(n, p), n)
  BY <1>3, <1>5, StartSynchronizingOK
<1> QED
  BY <1>6, <1>7 DEF Called

LEMMA ReceiveIdsStep ==
    ASSUME SyncInv, NEW p \in Peers, ReceiveIds(p)
    PROVE  NodeOK(node')
<1> DEFINE q == node.peer[p]
           reply == Reply(Path[tip[p]], Head(q.out).synopsis)
           inSync == InSync(reply, Head(q.out).synopsis)
           r == [q EXCEPT !.out = Tail(@), !.inSync = inSync]
           n == [node EXCEPT !.peer[p].out = Tail(@), !.peer[p].inSync = inSync]
<1>1. Joined(q, p) /\ q.out # <<>> /\ NodeOK(node) /\ q \in Connections /\ node \in Nodes
      /\ q.conn # "none" /\ tip[p] \in Blocks \cup {None}
  BY Sending DEF ReceiveIds, SyncInv, WorldOK
<1>2. node' = OnIds(n, p, reply)
  BY DEF ReceiveIds
<1>3. reply.ids \in Seq(Blocks) /\ ToSet(reply.ids) \subseteq ChainOf(p) /\ reply.left \in Nat
  BY <1>1, ReplyFacts DEF ChainOf
<1>4. inSync \in BOOLEAN
  BY DEF InSync
<1>5. n = [node EXCEPT !.peer[p] = r]
  BY <1>1 DEF Nodes, Connections
<1> HIDE DEF reply, inSync
<1>6. Kept(r, q, p)
  BY <1>1, <1>4, TakenOK
<1> HIDE DEF r, n
<1>7. Called(n, node)
  BY <1>1, <1>5, <1>6, OnePeerCalled
<1>8. NodeOK(n) /\ n.peer[p].conn # "none"
  BY <1>1, <1>7 DEF Called
<1> QED
  BY <1>2, <1>3, <1>8, OnIdsOK

LEMMA ReceiveBlockStep ==
    ASSUME SyncInv, NEW p \in Peers, ReceiveBlock(p)
    PROVE  NodeOK(node')
<1> DEFINE q == node.peer[p]
           b == Head(q.out).block
           n == [node EXCEPT !.peer[p].out = Tail(@)]
<1>1. /\ Joined(q, p) /\ q.out # <<>> /\ NodeOK(node) /\ q \in Connections /\ node \in Nodes
      /\ Head(q.out).kind = "block"
  BY Sending DEF ReceiveBlock
<1>2. node' = OnSyncBlock(n, p, b)
  BY DEF ReceiveBlock
<1>3. n = [node EXCEPT !.peer[p] = Taken(q)]
  BY <1>1 DEF Nodes, Connections, Taken
<1>4. /\ Kept(Taken(q), q, p) /\ b \in q.requested
      /\ \A i \in BlocksIn(Taken(q).out) : Taken(q).out[i].block # b
  <2>1. TRUE \in BOOLEAN
    OBVIOUS
  <2> QED
    BY <1>1, <2>1, TakenOK
<1> HIDE DEF n, b
<1>5. Called(n, node) /\ n.peer[p] = Taken(q)
  BY <1>1, <1>3, <1>4, OnePeerCalled
<1>6. /\ NodeOK(n) /\ n.peer[p].conn # "none" /\ b \in n.peer[p].requested
      /\ \A i \in BlocksIn(n.peer[p].out) : n.peer[p].out[i].block # b
  BY <1>4, <1>5 DEF Called, Kept, Joined
<1> QED
  BY <1>2, <1>6, OnSyncBlockOK

LEMMA ReceiveNewBlockStep ==
    ASSUME SyncInv, NEW p \in Peers, ReceiveNewBlock(p)
    PROVE  NodeOK(node')
<1> DEFINE q == node.peer[p]
           b == Head(q.out).block
           n == [node EXCEPT !.peer[p].out = Tail(@)]
<1>1. /\ Joined(q, p) /\ q.out # <<>> /\ NodeOK(node) /\ q \in Connections /\ node \in Nodes
      /\ Head(q.out).kind = "new"
  BY Sending DEF ReceiveNewBlock
<1>2. node' = OnNewBlock(n, p, b)
  BY DEF ReceiveNewBlock
<1>3. n = [node EXCEPT !.peer[p] = Taken(q)]
  BY <1>1 DEF Nodes, Connections, Taken
<1>4. Kept(Taken(q), q, p) /\ Head(q.out) \in Messages
  <2>1. TRUE \in BOOLEAN
    OBVIOUS
  <2> QED
    BY <1>1, <2>1, TakenOK
<1>5. b \in Blocks
  BY <1>1, <1>4 DEF Messages
<1> HIDE DEF n, b
<1>6. Called(n, node) /\ n.peer[p] = Taken(q)
  BY <1>1, <1>3, <1>4, OnePeerCalled
<1>7. NodeOK(n) /\ n.peer[p].conn # "none"
  BY <1>4, <1>6 DEF Called, Kept, Joined
<1> QED
  BY <1>2, <1>5, <1>7, OnNewBlockOK

LEMMA ServeIdsStep ==
    ASSUME SyncInv, NEW p \in Peers, ServeIds(p)
    PROVE  NodeOK(node')
<1> DEFINE q == node.peer[p]
           synopsis == {Path[tip[p]][k] : k \in Steps(Number(tip[p]))}
           they == ~InSync(Reply(Path[node.head], synopsis), synopsis)
           r == [q EXCEPT !.theyNeed = they]
           n == [node EXCEPT !.peer[p].theyNeed = they]
<1>1. NodeOK(node) /\ node \in Nodes /\ q \in Connections /\ q.conn # "none"
  BY PeerOKInNodes DEF SyncInv, NodeOK, ServeIds
<1>2. node' = StartSynchronizing(n, p) \/ node' = n
  BY DEF ServeIds
<1>3. they \in BOOLEAN
  BY DEF InSync
<1> HIDE DEF they
<1>4. r \in Connections /\ SameOwed(r, q) /\ r.toGet = q.toGet
  BY <1>1, <1>3 DEF Connections, SameOwed
<1>5. n = [node EXCEPT !.peer[p] = r]
  BY <1>1 DEF Nodes, Connections
<1> HIDE DEF n, r
<1>6. Called(n, node)
  BY <1>1, <1>4, <1>5, OneFieldOK
<1>7. NodeOK(n) /\ n.peer[p].conn # "none"
  BY <1>1, <1>6 DEF Called
<1> QED
  BY <1>2, <1>7, StartSynchronizingOK DEF Called

LEMMA ServeBlockStep ==
    ASSUME SyncInv, NEW p \in Peers, NEW b \in Blocks, ServeBlock(p, b)
    PROVE  NodeOK(node')
<1> DEFINE q == node.peer[p]
           r == [q EXCEPT !.seen = b]
<1>1. NodeOK(node) /\ node \in Nodes /\ q \in Connections /\ q.conn # "none"
  BY PeerOKInNodes DEF SyncInv, NodeOK, ServeBlock
<1>2. r \in Connections /\ SameOwed(r, q) /\ r.toGet = q.toGet
  BY <1>1 DEF Connections, SameOwed
<1>3. node' = [node EXCEPT !.peer[p] = r]
  BY <1>1 DEF Nodes, Connections, ServeBlock
<1> HIDE DEF r
<1> QED
  BY <1>1, <1>2, <1>3, OneFieldOK DEF Called

LEMMA AskedForOK ==
    ASSUME NEW p, NEW q, Joined(q, p), NEW b \in Blocks
    PROVE  Kept(AskedFor(q, b), q, p)
<1> DEFINE r == [q EXCEPT !.fetched = {b}]
           m == [kind |-> "new", block |-> b]
<1>1. q \in Connections /\ ToSet(q.toGet) \subseteq ChainOf(p)
  BY DEF Joined, PeerOK
<1>2. r \in Connections /\ SameOwed(r, q) /\ r.toGet = q.toGet
  BY <1>1 DEF Connections, SameOwed
<1>3. m \in Messages /\ m.kind # "block"
  BY DEF Messages
<1>4. AskedFor(q, b) = [r EXCEPT !.out = Append(@, m)]
  BY <1>1 DEF AskedFor, Connections
<1> HIDE DEF r, m
<1>5. Kept(r, q, p)
  BY <1>1, <1>2, OtherFields
<1>6. Kept([r EXCEPT !.out = Append(@, m)], r, p)
  BY <1>3, <1>5, OtherMessage DEF Kept
<1> QED
  BY <1>4, <1>5, <1>6 DEF Kept

LEMMA FetchItemsStep ==
    ASSUME SyncInv, FetchItems
    PROVE  NodeOK(node')
<1>1. PICK ask \in SUBSET {bp \in node.wanted \X ActivePeers(node) :
                     ~Busy(node.peer[bp[2]]) /\ bp[1] \in node.peer[bp[2]].offered} :
         LET of(p) == {bp[1] : bp \in {x \in ask : x[2] = p}}
             asked == {bp[1] : bp \in ask}
         IN  node' = [node EXCEPT
                  !.refetch = FALSE,
                  !.wanted = @ \ asked,
                  !.peer = [p \in Peers |->
                      IF of(p) = {} THEN @[p]
                      ELSE AskedFor(@[p], CHOOSE b \in of(p) : TRUE)]]
  BY DEF FetchItems
<1> DEFINE of(p) == {bp[1] : bp \in {x \in ask : x[2] = p}}
           item(p) == CHOOSE b \in of(p) : TRUE
           wanted == node.wanted \ {bp[1] : bp \in ask}
           asking == {p \in Peers : of(p) # {}}
           f == [p \in asking |-> AskedFor(node.peer[p], item(p))]
           peers == [p \in Peers |-> IF p \in asking THEN f[p] ELSE node.peer[p]]
           k == [node EXCEPT !.peer = peers]
<1>2. NodeOK(node) /\ node \in Nodes /\ Len(node.calls) <= MaxCalls
  BY DEF SyncInv, NodeOK
<1>3. node' = [node EXCEPT !.refetch = FALSE, !.wanted = wanted, !.peer = peers]
  <2> DEFINE told == [p \in Peers |->
                        IF of(p) = {} THEN node.peer[p] ELSE AskedFor(node.peer[p], item(p))]
  <2>1. node' = [node EXCEPT !.refetch = FALSE, !.wanted = wanted, !.peer = told]
    BY <1>1, <1>2 DEF Nodes
  <2>2. told = peers
    <3> HIDE DEF of, item
    <3> QED
      OBVIOUS
  <2> QED
    BY <2>1, <2>2
<1>4. wanted \subseteq Blocks /\ ask \subseteq Blocks \X ActivePeers(node)
  BY <1>2 DEF Nodes
<1>5. \A p \in asking : p \in Peers /\ Joined(node.peer[p], p) /\ item(p) \in Blocks
  <2> SUFFICES ASSUME NEW p \in asking
               PROVE  p \in Peers /\ Joined(node.peer[p], p) /\ item(p) \in Blocks
    OBVIOUS
  <2>1. p \in ActivePeers(node) /\ of(p) \subseteq Blocks /\ of(p) # {} /\ p \in Peers
    BY <1>4
  <2>2. item(p) \in Blocks
    <3> HIDE DEF of
    <3> QED
      BY <2>1
  <2> QED
    BY <1>2, <2>1, <2>2, ActiveJoined, JoinedPeer
<1> HIDE DEF of, asking, wanted, item
<1>6. asking \subseteq Peers
        /\ \A p \in asking : Joined(f[p], p) /\ f[p].requested = node.peer[p].requested
  BY <1>5, AskedForOK DEF Kept
<1> HIDE DEF f
<1>8. Called(k, node)
  BY <1>2, <1>6, WithPeersOK
<1> HIDE DEF peers
<1>9. NodeOK(k) /\ k \in Nodes /\ Len(k.calls) <= MaxCalls
  BY <1>8 DEF Called, NodeOK
<1>10. node' = [k EXCEPT !.refetch = FALSE, !.wanted = wanted]
  BY <1>2, <1>3 DEF Nodes
<1> HIDE DEF k
<1>11. /\ node' \in Nodes /\ node'.peer = k.peer /\ node'.active = k.active
       /\ node'.have = k.have /\ node'.recent = k.recent /\ node'.head = k.head
       /\ node'.calls = k.calls
  BY <1>4, <1>9, <1>10 DEF Nodes
<1> QED
  BY <1>9, <1>11, OthersOK

LEMMA FetchSyncItemsStep ==
    ASSUME SyncInv, FetchSyncItems
    PROVE  NodeOK(node')
<1> DEFINE n == [node EXCEPT !.fetch = FALSE]
           active == ActivePeers(node)
<1>1. NodeOK(node)
  BY DEF SyncInv
<1>2. NodeOK(n)
  BY <1>1, FetchFlag
<1>3. PICK order \in SetToSeqs(ActivePeers(node)) :
         node' = IF n.suspend THEN n ELSE FoldLeft(RequestSyncItems, n, order)
  BY DEF FetchSyncItems
<1>4. order \in Seq(Peers)
  <2>1. active \subseteq Peers
    BY ActiveJoined
  <2>2. Cardinality(active) \in Nat
    BY <2>1, FS_Subset, FS_CardinalityType, Constants
  <2>3. order \in [1 .. Cardinality(active) -> active]
    BY <1>3 DEF SetToSeqs
  <2> HIDE DEF active
  <2>4. order \in [1 .. Cardinality(active) -> Peers]
    BY <2>1, <2>3
  <2> QED
    BY <2>2, <2>4
<1> HIDE DEF n
<1>5. NodeOK(FoldLeft(RequestSyncItems, n, order))
  BY <1>2, <1>4, AllRequestsOK
<1> QED
  BY <1>2, <1>3, <1>5

LEMMA RunBacklogStep ==
    ASSUME SyncInv, RunBacklog
    PROVE  NodeOK(node')
<1> DEFINE n == [node EXCEPT !.backlog = FALSE]
<1>1. NodeOK(n)
  BY FetchFlag DEF SyncInv
<1>2. node' \in ProcessBacklog(n)
  BY DEF RunBacklog
<1> HIDE DEF n
<1> QED
  BY <1>1, <1>2, ProcessBacklogOK

LEMMA SendBlockStep ==
    ASSUME SyncInv, SendBlockToDelegate
    PROVE  NodeOK(node')
<1> DEFINE b == Head(node.calls)
           calls == Tail(node.calls)
           n == [node EXCEPT !.calls = Tail(@), !.backlog = TRUE]
<1>1. /\ NodeOK(node) /\ node \in Nodes /\ node.calls # <<>> /\ node.calls \in Seq(Blocks)
      /\ Len(node.calls) <= MaxCalls
  BY DEF SyncInv, NodeOK, Nodes, SendBlockToDelegate
<1>2. b \in Blocks /\ calls \in Seq(Blocks) /\ Len(calls) <= MaxCalls
  BY <1>1, Constants
<1>3. n = [node EXCEPT !.calls = calls, !.backlog = TRUE]
  OBVIOUS
<1>4. node' = OnAccepted(Accepted(n, b), b) \/ node' = OnRefused(n, b)
  BY DEF SendBlockToDelegate
<1> HIDE DEF n, b, calls
<1>5. /\ n \in Nodes /\ n.peer = node.peer /\ n.active = node.active
      /\ n.have = node.have /\ n.recent = node.recent /\ n.head = node.head
      /\ n.calls = calls
  BY <1>1, <1>2, <1>3 DEF Nodes
<1>6. NodeOK(n)
  BY <1>1, <1>2, <1>5, OthersOK
<1>7. NodeOK(Accepted(n, b))
  BY <1>2, <1>6, AcceptedOK
<1>8. NodeOK(OnAccepted(Accepted(n, b), b))
  BY <1>2, <1>7, OnAcceptedOK DEF Called
<1>9. NodeOK(OnRefused(n, b))
  BY <1>6, DisconnectOK DEF Called, OnRefused
<1> QED
  BY <1>4, <1>8, <1>9

\* A peer that gets a block gets one that builds on those it has.
LEMMA NextBlock ==
    ASSUME SyncInv, NEW p \in Peers, tip[p] # world.last[p],
           NEW b, b = CHOOSE x \in ToSet(Path[world.last[p]]) : Parent[x] = tip[p]
    PROVE  /\ b \in ToSet(Path[world.last[p]]) /\ b \in Blocks /\ Parent[b] = tip[p]
           /\ ToSet(Path[tip[p]]) \subseteq ToSet(Path[b])
<1> DEFINE last == world.last[p]
<1>1. last \in Blocks \cup {None} /\ tip[p] \in ToSet(Path[last]) \cup {None}
  BY Constants DEF SyncInv, WorldOK
<1>2. /\ Path[last] \in Seq(Blocks) /\ Number(last) \in Nat /\ Number(last) = Len(Path[last])
      /\ last # None => /\ Number(last) \in Nat \ {0} /\ Path[last][Number(last)] = last
  <2>1. Path[last] \in Seq(Blocks) /\ Number(last) \in Nat /\ Number(last) = Len(Path[last])
    BY <1>1, PathFacts DEF Number
  <2>2. ASSUME last # None
        PROVE  Number(last) \in Nat \ {0} /\ Path[last][Number(last)] = last
    <3>1. Parent[last] \in Blocks \cup {None} /\ Path[last] = Append(Path[Parent[last]], last)
      BY <1>1, <2>2, PathFacts
    <3>2. Path[Parent[last]] \in Seq(Blocks)
      BY <3>1, PathFacts
    <3> HIDE DEF last
    <3> QED
      BY <2>1, <3>1, <3>2
  <2> QED
    BY <2>1, <2>2
<1>3. \E x \in ToSet(Path[last]) : Parent[x] = tip[p]
  <2>1. CASE tip[p] = None
    <3>1. 1 \in 1 .. Number(last)
      BY <1>1, <1>2, <2>1
    <3>2. Parent[Path[last][1]] = None
      BY <1>1, <3>1, PathElements
    <3> QED
      BY <1>2, <2>1, <3>1, <3>2 DEF ToSet
  <2>2. CASE tip[p] # None
    <3>1. PICK i \in 1 .. Number(last) : tip[p] = Path[last][i]
      BY <1>1, <1>2, <2>2 DEF ToSet
    <3>2. last # None
      BY <1>1, <1>2, <3>1, PathFacts DEF Number
    <3>3. i # Number(last) /\ i \in Nat
      BY <1>2, <3>1, <3>2
    <3>4. i + 1 \in 1 .. Number(last) /\ i + 1 # 1 /\ i + 1 - 1 = i
      BY <1>2, <3>1, <3>3
    <3>5. Parent[Path[last][i + 1]] = Path[last][i + 1 - 1]
      BY <1>1, <3>4, PathElements
    <3>6. Parent[Path[last][i + 1]] = tip[p]
      BY <3>1, <3>4, <3>5
    <3> QED
      BY <1>2, <3>4, <3>6 DEF ToSet
  <2> QED
    BY <2>1, <2>2
<1>4. b \in ToSet(Path[last]) /\ Parent[b] = tip[p]
  BY <1>3
<1>5. b \in Blocks
  <2>1. ToSet(Path[last]) \subseteq Blocks
    BY <1>2 DEF ToSet
  <2> QED
    BY <1>4, <2>1
<1>6. ToSet(Path[b]) = ToSet(Path[Parent[b]]) \cup {b}
  BY <1>5, PathFacts, Constants
<1> QED
  BY <1>4, <1>5, <1>6

LEMMA GrowStep ==
    ASSUME SyncInv, NEW p \in Peers, Grow(p)
    PROVE  /\ NodeOK(node') /\ WorldOK'
           /\ \A o \in Peers : ToSet(Path[tip[o]]) \subseteq ToSet(Path[tip'[o]])
<1> DEFINE b == CHOOSE b \in ToSet(Path[world.last[p]]) : Parent[b] = tip[p]
           q == node.peer[p]
           r == [q EXCEPT !.offered = @ \cup {b}]
           offer == [node EXCEPT !.peer[p].offered = @ \cup {b}]
           wanted == [offer EXCEPT !.wanted = @ \cup {b},
                                   !.refetch = @ \/ b \notin node.wanted]
<1>1. /\ NodeOK(node) /\ node \in Nodes /\ q \in Connections
      /\ tip[p] # world.last[p] /\ tip' = [tip EXCEPT ![p] = b]
      /\ tip \in [Peers -> Blocks \cup {None}] /\ UNCHANGED <<world, losses>>
  BY PeerOKInNodes DEF SyncInv, NodeOK, WorldOK, Grow
<1>2. /\ b \in ToSet(Path[world.last[p]]) /\ b \in Blocks
      /\ ToSet(Path[tip[p]]) \subseteq ToSet(Path[b])
  BY <1>1, NextBlock
<1>3. node' = node \/ (q.conn = "active" /\ (node' = offer \/ node' = wanted))
  BY DEF Grow
<1> HIDE DEF b
<1>4. WorldOK' /\ \A o \in Peers : ToSet(Path[tip[o]]) \subseteq ToSet(Path[tip'[o]])
  BY <1>1, <1>2 DEF SyncInv, WorldOK
<1>5. CASE q.conn = "active"
  <2>1. r \in Connections /\ SameOwed(r, q) /\ r.toGet = q.toGet
    BY <1>1, <1>2 DEF Connections, SameOwed
  <2>2. offer = [node EXCEPT !.peer[p] = r]
    BY <1>1 DEF Nodes, Connections
  <2> DEFINE refetch == offer.refetch \/ b \notin node.wanted
             more == offer.wanted \cup {b}
  <2>6. wanted = [offer EXCEPT !.wanted = more, !.refetch = refetch]
    OBVIOUS
  <2> HIDE DEF offer, r
  <2>3. Called(offer, node)
    BY <1>1, <1>5, <2>1, <2>2, OneFieldOK
  <2>4. NodeOK(offer) /\ offer \in Nodes /\ Len(offer.calls) <= MaxCalls
    BY <2>3 DEF Called, NodeOK
  <2>5. refetch \in BOOLEAN /\ more \subseteq Blocks
    BY <1>2, <2>4 DEF Nodes
  <2> HIDE DEF refetch, more, wanted
  <2>7. /\ wanted \in Nodes /\ wanted.peer = offer.peer /\ wanted.active = offer.active
        /\ wanted.have = offer.have /\ wanted.recent = offer.recent
        /\ wanted.head = offer.head /\ wanted.calls = offer.calls
    BY <2>4, <2>5, <2>6 DEF Nodes
  <2>8. NodeOK(wanted)
    BY <2>4, <2>7, OthersOK
  <2> QED
    BY <1>1, <1>3, <1>4, <2>4, <2>8
<1>6. CASE q.conn # "active"
  BY <1>1, <1>3, <1>4, <1>6
<1> QED
  BY <1>5, <1>6

LEMMA InitHolds ==
    ASSUME Init
    PROVE  SyncInv
<1> DEFINE peers == [p \in Peers |-> NoConnection]
<1>1. WorldOK
  <2>1. world \in Worlds /\ tip = world.first /\ losses = 0
    BY DEF Init
  <2>2. \A p \in Peers : world.first[p] \in ToSet(Path[world.last[p]]) \cup {None}
    BY <2>1, ChainsAssumption
  <2>3. tip \in [Peers -> Blocks \cup {None}] /\ world.losses \in Nat
    BY <2>1, Constants
  <2> QED
    BY <2>1, <2>2, <2>3 DEF WorldOK
<1>2. world.own \in Blocks \cup {None} /\ Path[world.own] \in Seq(Blocks)
      /\ MaxCalls \in Nat \ {0}
  BY <1>1, PathFacts, Constants DEF WorldOK
<1>3. ToSet(Path[world.own]) \subseteq Blocks
  BY <1>2 DEF ToSet
<1>4. world.own \in ToSet(Path[world.own]) \cup {None}
  BY <1>2, PathFacts
<1>5. \A p \in Peers : /\ peers[p] = NoConnection /\ PeerOK(peers[p], p)
                       /\ peers[p].requested = {} /\ peers[p] \in Connections
  BY NoConnectionOK
<1> HIDE DEF peers
<1>6. node = [peer |-> peers, active |-> {}, fresh |-> <<>>, received |-> <<>>,
              calls |-> <<>>, backlog |-> FALSE, fetch |-> FALSE, suspend |-> FALSE,
              wanted |-> {}, refetch |-> FALSE, recent |-> {},
              have |-> ToSet(Path[world.own]), head |-> world.own]
  BY DEF Init, peers
<1>7. peers \in [Peers -> Connections]
  BY <1>5 DEF peers
<1>8. /\ node \in Nodes /\ node.recent \subseteq node.have
      /\ node.head \in node.have \cup {None} /\ Len(node.calls) <= MaxCalls
      /\ node.peer = peers /\ node.active = {}
  BY <1>2, <1>3, <1>4, <1>6, <1>7 DEF Nodes
<1>9. Owned(node)
  BY <1>5, <1>8 DEF Owned
<1>10. NodeOK(node)
  BY <1>5, <1>8, <1>9 DEF NodeOK
<1> QED
  BY <1>1, <1>10 DEF SyncInv

\* What holds of a node as long as the peers keep their blocks
LEMMA NodeKept ==
    ASSUME NodeOK(node'),
           \A p \in Peers : ToSet(Path[tip[p]]) \subseteq ToSet(Path[tip'[p]])
    PROVE  NodeOK(node)'
BY DEF NodeOK, PeerOK, ChainOf, Owned, OwesEachOnce, BlocksIn, NoConnection

LEMMA StepKeeps ==
    ASSUME SyncInv, [Next]_vars
    PROVE  SyncInv'
<1>1. ASSUME NodeOK(node'), WorldOK',
             \A p \in Peers : ToSet(Path[tip[p]]) \subseteq ToSet(Path[tip'[p]])
      PROVE  SyncInv'
  BY <1>1, NodeKept DEF SyncInv
<1>2. ASSUME NodeOK(node'), UNCHANGED <<world, tip, losses>> PROVE SyncInv'
  <2>1. WorldOK'
    BY <1>2 DEF SyncInv, WorldOK
  <2> QED
    BY <1>1, <1>2, <2>1
<1>3. ASSUME NodeOK(node'), UNCHANGED <<world, tip>>, losses < world.losses,
             losses' = losses + 1
      PROVE  SyncInv'
  <2>1. WorldOK'
    <3>1. losses + 1 \in 0 .. world.losses
      BY <1>3, Constants DEF SyncInv, WorldOK
    <3> QED
      BY <1>3, <3>1 DEF SyncInv, WorldOK
  <2> QED
    BY <1>1, <1>3, <2>1
<1>4. NodeOK(node)
  BY DEF SyncInv
<1>5. ASSUME NEW p \in Peers, Connect(p) PROVE SyncInv'
  BY <1>2, <1>5, ConnectStep DEF Connect
<1>6. ASSUME NEW p \in Peers, Close(p) PROVE SyncInv'
  BY <1>2, <1>4, <1>6, ClosedOK DEF Close
<1>7. ASSUME NEW p \in Peers, Lose(p) PROVE SyncInv'
  BY <1>3, <1>4, <1>7, ClosedOK DEF Lose
<1>8. ASSUME NEW p \in Peers, TimeOut(p) PROVE SyncInv'
  <2>1. NodeOK(Disconnect(node, {p}))
    BY <1>4, DisconnectOK DEF Called
  <2> QED
    BY <1>3, <1>8, <2>1 DEF TimeOut
<1>9. ASSUME NEW p \in Peers, EndStalled(p) PROVE SyncInv'
  <2>1. NodeOK(Disconnect(node, {p}))
    BY <1>4, DisconnectOK DEF Called
  <2> QED
    BY <1>2, <1>9, <2>1 DEF EndStalled
<1>10. ASSUME NEW p \in Peers, ReceiveIds(p) PROVE SyncInv'
  BY <1>2, <1>10, ReceiveIdsStep DEF ReceiveIds
<1>11. ASSUME NEW p \in Peers, ReceiveBlock(p) PROVE SyncInv'
  BY <1>2, <1>11, ReceiveBlockStep DEF ReceiveBlock
<1>12. ASSUME NEW p \in Peers, ReceiveNewBlock(p) PROVE SyncInv'
  BY <1>2, <1>12, ReceiveNewBlockStep DEF ReceiveNewBlock
<1>13. ASSUME NEW p \in Peers, Grow(p) PROVE SyncInv'
  BY <1>1, <1>13, GrowStep
<1>14. ASSUME NEW p \in Peers, ServeIds(p) PROVE SyncInv'
  BY <1>2, <1>14, ServeIdsStep DEF ServeIds
<1>15. ASSUME NEW p \in Peers, NEW b \in Blocks, ServeBlock(p, b) PROVE SyncInv'
  BY <1>2, <1>15, ServeBlockStep DEF ServeBlock
<1>16. CASE FetchSyncItems
  BY <1>2, <1>16, FetchSyncItemsStep DEF FetchSyncItems
<1>17. CASE RunBacklog
  BY <1>2, <1>17, RunBacklogStep DEF RunBacklog
<1>18. CASE SendBlockToDelegate
  BY <1>2, <1>18, SendBlockStep DEF SendBlockToDelegate
<1>19. CASE FetchItems
  BY <1>2, <1>19, FetchItemsStep DEF FetchItems
<1>20. CASE UNCHANGED vars
  BY <1>2, <1>4, <1>20 DEF vars
<1> QED
  BY <1>5, <1>6, <1>7, <1>8, <1>9, <1>10, <1>11, <1>12, <1>13, <1>14, <1>15,
     <1>16, <1>17, <1>18, <1>19, <1>20 DEF Next

-----------------------------------------------------------------------------
(* In order, and with nothing left: what is known of the blocks on the lists *)

\* The blocks that with those before them the chain has, was given or will
\* never take
Settled(n) ==
    {b \in Blocks : ToSet(Path[b]) \subseteq n.have \cup ToSet(n.calls) \cup Doomed}

\* Blocks each on the one before, the first on one of K
Follow(s, K) ==
    /\ \A i \in 1 .. Len(s) - 1 : Parent[s[i + 1]] = s[i]
    /\ s # <<>> => Parent[s[1]] \in K \cup {None}

\* The list of a peer goes on where settled blocks end,
PlaceOK(q, K) == Follow(q.toGet, K) /\ q.seen \in K \cup {None}

\* and what it is asked with are such blocks and those of the list.
ListOK(q, K) ==
    /\ PlaceOK(q, K)
    /\ \A s \in q.asked : s \subseteq K \cup ToSet(q.toGet) /\ (s = {} => q.toGet = <<>>)

\* Where a summary is on its way
IdsIn(out) == {i \in DOMAIN out : out[i].kind = "ids"}

\* A summary has a block the peer knows, unless it has none at all.
SummaryOK(s, p, H) ==
    /\ s \subseteq H \cup ChainOf(p)
    /\ s = {} \/ s \cap ChainOf(p) # {} \/ \E r \in s : Parent[r] = None
    /\ world.own # None => s # {}

\* The summaries a peer has to answer:
SentOK(q, p, H) ==
    /\ q.seen \in H \cup ChainOf(p) \cup {None}
    /\ \A i \in IdsIn(q.out) : SummaryOK(q.out[i].synopsis, p, H)

\* the one it was asked with last, or others too when it was asked twice.
OnceOK(q) ==
    q.conn = "active" /\ ~q.twice =>
      \/ q.asked = {} /\ IdsIn(q.out) = {}
      \/ \E i \in IdsIn(q.out) : IdsIn(q.out) = {i} /\ q.asked = {q.out[i].synopsis}

SummariesOK(q, p, H) == SentOK(q, p, H) /\ OnceOK(q)

\* InSyncHasAll, and why a late answer does not end it
IdleOK(q, p, H) ==
    q.conn = "active" /\ Idle(q) =>
      /\ \A i \in IdsIn(q.out) : q.out[i].synopsis \subseteq H
      /\ IF q.inSync THEN tip[p] \in H \cup q.offered \cup {None}
         ELSE q.twice \/ world.own = None

PeerGood(q, p, H, K) == ListOK(q, K) /\ SummariesOK(q, p, H) /\ IdleOK(q, p, H)

\* HandedInOrder of a node
InOrder(n) ==
    \A i \in DOMAIN n.calls :
        \/ Parent[n.calls[i]] \in n.have \cup {None} \cup Doomed
        \/ \E j \in 1 .. i - 1 : n.calls[j] = Parent[n.calls[i]]

ChainGood(n) ==
    /\ \A b \in n.have : Parent[b] \in n.have \cup {None}
    /\ world.own # None => n.head # None
    /\ InOrder(n)

Good(n) ==
    /\ NodeOK(n) /\ ChainGood(n)
    /\ \A p \in Peers : PeerGood(n.peer[p], p, n.have, Settled(n))

\* The blocks of the chain and the settled ones come with those before them.
Ground(head, H, K) ==
    /\ H \subseteq K /\ K \subseteq Blocks /\ head \in H \cup {None}
    /\ world.own # None => head # None
    /\ \A b \in H : ToSet(Path[b]) \subseteq H
    /\ \A b \in K : ToSet(Path[b]) \subseteq K

\* What has the block before each of its blocks has all before them.
LEMMA AllBefore ==
    ASSUME NEW H, H \subseteq Blocks, \A b \in H : Parent[b] \in H \cup {None}
    PROVE  \A b \in H : b \in ToSet(Path[b]) /\ ToSet(Path[b]) \subseteq H
<1> DEFINE Bad == {b \in H : ~(ToSet(Path[b]) \subseteq H)}
<1>1. ASSUME Bad # {} PROVE FALSE
  <2>1. PICK b \in Bad : Parent[b] \notin Bad
    <3>1. Bad \in SUBSET Blocks
      OBVIOUS
    <3> HIDE DEF Bad
    <3> QED
      BY <1>1, <3>1, ChainsAssumption
  <2>2. b \in H /\ b \in Blocks /\ b # None /\ ~(ToSet(Path[b]) \subseteq H)
    BY NodeSyncAssumption
  <2>3. ToSet(Path[b]) = ToSet(Path[Parent[b]]) \cup {b}
    BY <2>2, PathFacts
  <2>4. ToSet(Path[None]) = {}
    <3>1. Path[None] = <<>>
      BY PathFacts
    <3> QED
      BY <3>1 DEF ToSet
  <2>5. ToSet(Path[Parent[b]]) \subseteq H
    BY <2>1, <2>2, <2>4
  <2> QED
    BY <2>2, <2>3, <2>5
<1>2. \A b \in H : b \in Blocks /\ b # None
  BY NodeSyncAssumption
<1>3. \A b \in H : b \in ToSet(Path[b])
  BY <1>2, PathFacts
<1> QED
  BY <1>1, <1>3

\* The chain of a block of a chain is a part of it.
LEMMA Ancestors ==
    ASSUME NEW c \in Blocks \cup {None}
    PROVE  /\ ToSet(Path[c]) \subseteq Blocks
           /\ \A b \in ToSet(Path[c]) :
                 /\ Parent[b] \in ToSet(Path[c]) \cup {None}
                 /\ b \in ToSet(Path[b]) /\ ToSet(Path[b]) \subseteq ToSet(Path[c])
<1> DEFINE H == ToSet(Path[c])
<1>1. Path[c] \in Seq(Blocks) /\ DOMAIN Path[c] = 1 .. Number(c) /\ Number(c) \in Nat
  BY PathFacts DEF Number
<1>2. H \subseteq Blocks
  BY <1>1 DEF ToSet
<1>3. \A b \in H : Parent[b] \in H \cup {None}
  <2> SUFFICES ASSUME NEW b \in H PROVE Parent[b] \in H \cup {None}
    OBVIOUS
  <2>1. PICK i \in 1 .. Number(c) : b = Path[c][i]
    BY <1>1 DEF ToSet
  <2>2. Parent[b] = IF i = 1 THEN None ELSE Path[c][i - 1]
    BY <2>1, PathElements
  <2>3. CASE i = 1
    BY <2>2, <2>3
  <2>4. CASE i # 1
    <3>1. i - 1 \in 1 .. Number(c)
      BY <1>1, <2>4
    <3> QED
      BY <1>1, <2>2, <2>4, <3>1 DEF ToSet
  <2> QED
    BY <2>3, <2>4
<1> HIDE DEF H
<1>4. \A b \in H : b \in ToSet(Path[b]) /\ ToSet(Path[b]) \subseteq H
  BY <1>2, <1>3, AllBefore
<1> QED
  BY <1>2, <1>3, <1>4 DEF H

LEMMA SettledFacts ==
    ASSUME NEW n
    PROVE  /\ Settled(n) \subseteq Blocks
           /\ \A b \in Settled(n) : /\ ToSet(Path[b]) \subseteq Settled(n)
                                    /\ Parent[b] \in Settled(n) \cup {None}
                                    /\ b \in n.have \cup ToSet(n.calls) \cup Doomed
<1>1. Settled(n) \subseteq Blocks
  BY DEF Settled
<1>2. ASSUME NEW b \in Settled(n)
      PROVE  /\ ToSet(Path[b]) \subseteq Settled(n)
             /\ b \in n.have \cup ToSet(n.calls) \cup Doomed
             /\ Parent[b] \in Settled(n) \cup {None}
  <2>1. b \in Blocks /\ b # None /\ ToSet(Path[b]) \subseteq n.have \cup ToSet(n.calls) \cup Doomed
    BY NodeSyncAssumption DEF Settled
  <2>2. ToSet(Path[b]) = ToSet(Path[Parent[b]]) \cup {b}
    BY <2>1, PathFacts
  <2>3. \A a \in ToSet(Path[b]) : a \in Blocks /\ ToSet(Path[a]) \subseteq ToSet(Path[b])
    BY <2>1, Ancestors
  <2>4. ToSet(Path[b]) \subseteq Settled(n)
    BY <2>1, <2>3 DEF Settled
  <2>5. Parent[b] \in ToSet(Path[b]) \cup {None}
    BY <2>1, <2>2, Ancestors
  <2> QED
    BY <2>1, <2>2, <2>4, <2>5
<1> QED
  BY <1>1, <1>2

LEMMA ChainGround ==
    ASSUME NEW n, NodeOK(n), ChainGood(n)
    PROVE  Ground(n.head, n.have, Settled(n)) /\ n \in Nodes /\ n.have \subseteq Blocks
<1>1. n \in Nodes /\ n.have \subseteq Blocks /\ n.head \in n.have \cup {None}
  BY DEF NodeOK, Nodes
<1>2. \A b \in n.have : ToSet(Path[b]) \subseteq n.have
  BY <1>1, AllBefore DEF ChainGood
<1>3. n.have \subseteq Settled(n)
  BY <1>1, <1>2 DEF Settled
<1> QED
  BY <1>1, <1>2, <1>3, SettledFacts DEF Ground, ChainGood

LEMMA GoodGround ==
    ASSUME NEW n, Good(n)
    PROVE  Ground(n.head, n.have, Settled(n)) /\ n \in Nodes /\ n.have \subseteq Blocks
BY ChainGround DEF Good

\* A summary has settled blocks and blocks of the list, and one the peer knows.
LEMMA SynopsisGood ==
    ASSUME WorldOK, NEW p \in Peers, NEW head, NEW H, NEW K, Ground(head, H, K),
           NEW q \in Connections, PlaceOK(q, K), q.seen \in H \cup ChainOf(p) \cup {None},
           ToSet(q.toGet) \subseteq ChainOf(p)
    PROVE  /\ Synopsis(head, q) \subseteq K \cup ToSet(q.toGet)
           /\ Synopsis(head, q) = {} => q.toGet = <<>>
           /\ SummaryOK(Synopsis(head, q), p, H)
<1> DEFINE c == IF q.seen = None THEN head ELSE q.seen
           path  == Path[c]
           l == Len(q.toGet)
           first == Number(q.toGet[1])
           ours  == {k \in Steps(Len(path) + l) : k <= Len(path)}
           its   == {k \in Steps(first + l - 1) : k >= first}
           A == {path[k] : k \in ours}
           B == {q.toGet[k - first + 1] : k \in its}
           s == Synopsis(head, q)
<1>1. s = A \cup IF q.toGet = <<>> THEN {} ELSE B
  BY DEF Synopsis
<1>2. q.toGet \in Seq(Blocks) /\ l \in Nat /\ (q.toGet # <<>> => l # 0)
  BY DEF Connections
<1>3. /\ c \in K \cup {None} /\ c \in H \cup ChainOf(p) \cup {None} /\ K \subseteq Blocks
      /\ c \in Blocks \cup {None}
      /\ c = None => world.own = None
  BY DEF Ground, PlaceOK
<1> HIDE DEF c
<1>4. path \in Seq(Blocks) /\ Len(path) \in Nat /\ Number(c) = Len(path)
  BY <1>3, PathFacts DEF Number
<1>5. ToSet(path) \subseteq K /\ ToSet(path) \subseteq H \cup ChainOf(p)
  <2>1. c = None => ToSet(path) = {}
    <3>1. c = None => path = <<>>
      BY PathFacts
    <3> QED
      BY <3>1 DEF ToSet
  <2>2. c \in K => ToSet(path) \subseteq K
    BY DEF Ground
  <2>3. c \in H => ToSet(path) \subseteq H
    BY DEF Ground
  <2>4. c \in ChainOf(p) => ToSet(path) \subseteq ChainOf(p)
    BY Ancestors DEF WorldOK, ChainOf
  <2> QED
    BY <1>3, <2>1, <2>2, <2>3, <2>4
<1> HIDE DEF path
<1>6. A \subseteq ToSet(path)
  <2> SUFFICES ASSUME NEW k \in ours PROVE path[k] \in ToSet(path)
    OBVIOUS
  <2>1. Len(path) + l \in Nat
    BY <1>2, <1>4
  <2>2. k \in 1 .. Len(path) + l /\ k <= Len(path)
    <3> HIDE DEF l
    <3> QED
      BY <2>1, StepsFacts
  <2>3. k \in DOMAIN path
    BY <1>2, <1>4, <2>2
  <2> QED
    BY <2>3 DEF ToSet
<1>7. ASSUME Len(path) # 0 PROVE path[1] \in A /\ Parent[path[1]] = None
  <2>1. Len(path) + l \in Nat /\ Len(path) + l # 0 /\ 1 <= Len(path)
    BY <1>2, <1>4, <1>7
  <2>2. 1 \in Steps(Len(path) + l)
    <3> HIDE DEF l
    <3> QED
      BY <2>1, StepsFacts
  <2>3. 1 \in 1 .. Number(c)
    BY <1>4, <2>1
  <2>4. Parent[Path[c][1]] = None
    BY <1>3, <2>3, PathElements
  <2> QED
    BY <2>1, <2>2, <2>4 DEF path
<1>8. ASSUME Len(path) = 0 PROVE world.own = None
  <2>1. c = None
    <3>1. c # None => Number(c) \in Nat \ {0}
      BY <1>3, BlockNumber
    <3> QED
      BY <1>4, <1>8, <3>1
  <2> QED
    BY <1>3, <2>1
<1>9. ASSUME q.toGet # <<>>
      PROVE  B \subseteq ToSet(q.toGet) /\ q.toGet[l] \in B /\ q.toGet[l] \in ToSet(q.toGet)
  <2>1. first \in Nat \ {0}
    BY <1>2, <1>9, BlockNumber
  <2> HIDE DEF first, l
  <2>2. first + l - 1 \in Nat /\ first + l - 1 # 0 /\ first + l - 1 >= first
    BY <1>2, <1>9, <2>1
  <2>3. /\ Steps(first + l - 1) \subseteq 1 .. first + l - 1
        /\ first + l - 1 \in Steps(first + l - 1)
    BY <2>2, StepsFacts
  <2>4. \A k \in its : k - first + 1 \in 1 .. l
    BY <1>2, <2>1, <2>3
  <2>5. first + l - 1 \in its /\ (first + l - 1) - first + 1 = l
    BY <1>2, <2>1, <2>2, <2>3
  <2>6. DOMAIN q.toGet = 1 .. l
    BY <1>2 DEF l
  <2>7. \A k \in its : q.toGet[k - first + 1] \in ToSet(q.toGet)
    BY <2>4, <2>6 DEF ToSet
  <2>8. q.toGet[l] \in B
    BY <2>5
  <2> QED
    BY <2>7, <2>8
<1> HIDE DEF A, B, s, l
<1>10. s \subseteq K \cup ToSet(q.toGet) /\ (s = {} => q.toGet = <<>>)
  BY <1>1, <1>5, <1>6, <1>9
<1>11. s \subseteq H \cup ChainOf(p)
  BY <1>1, <1>5, <1>6, <1>9
<1>12. /\ s = {} \/ s \cap ChainOf(p) # {} \/ \E r \in s : Parent[r] = None
       /\ world.own # None => s # {}
  <2>1. CASE Len(path) # 0
    BY <1>1, <1>7, <2>1
  <2>2. CASE q.toGet # <<>>
    BY <1>1, <1>8, <1>9, <2>2
  <2>3. CASE Len(path) = 0 /\ q.toGet = <<>>
    <3>1. ToSet(path) = {}
      BY <1>4, <2>3 DEF ToSet
    <3>2. s = {}
      BY <1>1, <1>6, <2>3, <3>1
    <3> QED
      BY <1>8, <2>3, <3>2
  <2> QED
    BY <2>1, <2>2, <2>3
<1> QED
  BY <1>10, <1>11, <1>12 DEF SummaryOK, s

\* A peer that is asked for ids is not done with.
LEMMA AskedIdsGood ==
    ASSUME WorldOK, NEW p \in Peers, NEW head, NEW H, NEW K, Ground(head, H, K),
           NEW q \in Connections, PlaceOK(q, K), SummariesOK(q, p, H),
           ToSet(q.toGet) \subseteq ChainOf(p)
    PROVE  PeerGood(AskedIds(head, q), p, H, K)
<1> DEFINE s == Synopsis(head, q)
           m == [kind |-> "ids", synopsis |-> s]
           out == Append(q.out, m)
           l == Len(q.out)
           r == AskedIds(head, q)
<1>1. /\ s \subseteq K \cup ToSet(q.toGet) /\ (s = {} => q.toGet = <<>>)
      /\ SummaryOK(s, p, H)
  BY SynopsisGood DEF SummariesOK, SentOK, OnceOK
<1>2. q.out \in Seq(Messages) /\ l \in Nat
  BY DEF Connections
<1>3. r = [q EXCEPT !.twice = q.twice \/ q.asked # {}, !.asked = {s}, !.out = out]
  BY DEF AskedIds, Connections
<1> HIDE DEF s
<1>4. DOMAIN out = 1 .. l + 1 /\ out[l + 1] = m /\ \A i \in 1 .. l : out[i] = q.out[i]
  BY <1>2
<1> HIDE DEF out
<1>5. IdsIn(out) = IdsIn(q.out) \cup {l + 1} /\ \A i \in IdsIn(q.out) : out[i] = q.out[i]
  BY <1>2, <1>4 DEF IdsIn
<1>6. /\ r.toGet = q.toGet /\ r.seen = q.seen /\ r.asked = {s} /\ r.out = out
      /\ r.twice = (q.twice \/ q.asked # {}) /\ r.conn = q.conn
  BY <1>3 DEF Connections
<1> HIDE DEF r
<1>7. ListOK(r, K)
  BY <1>1, <1>6 DEF ListOK, PlaceOK
<1>8. ASSUME NEW i \in IdsIn(out) PROVE SummaryOK(out[i].synopsis, p, H)
  <2>1. CASE i = l + 1
    BY <1>1, <1>4, <2>1
  <2>2. CASE i \in IdsIn(q.out)
    BY <1>5, <2>2 DEF SummariesOK, SentOK, OnceOK
  <2> QED
    BY <1>5, <2>1, <2>2
<1>9. ASSUME ~r.twice, r.conn = "active"
      PROVE  \E i \in IdsIn(out) : IdsIn(out) = {i} /\ r.asked = {out[i].synopsis}
  <2>1. q.asked = {} /\ ~q.twice /\ q.conn = "active"
    BY <1>6, <1>9
  <2>2. IdsIn(q.out) = {}
    BY <2>1 DEF SummariesOK, SentOK, OnceOK
  <2> QED
    BY <1>4, <1>5, <1>6, <2>2
<1>10. SummariesOK(r, p, H)
  BY <1>6, <1>8, <1>9 DEF SummariesOK, SentOK, OnceOK
<1>11. IdleOK(r, p, H)
  BY <1>6 DEF IdleOK, Idle
<1> QED
  BY <1>7, <1>10, <1>11 DEF PeerGood, r

\* More blocks may come to the chain and be settled.
LEMMA StillGood ==
    ASSUME NEW q, NEW p, NEW H, NEW K, PeerGood(q, p, H, K),
           NEW H2, NEW K2, H \subseteq H2, K \subseteq K2
    PROVE  PeerGood(q, p, H2, K2)
<1>1. ListOK(q, K2)
  BY DEF PeerGood, ListOK, PlaceOK, Follow
<1>2. SummariesOK(q, p, H2)
  BY DEF PeerGood, SummariesOK, SentOK, OnceOK, SummaryOK
<1>3. IdleOK(q, p, H2)
  BY DEF PeerGood, IdleOK
<1> QED
  BY <1>1, <1>2, <1>3 DEF PeerGood

\* The fields that are not about its list and what was asked of it
SameList(r, q) ==
    /\ r.toGet = q.toGet /\ r.asked = q.asked /\ r.twice = q.twice
    /\ r.seen = q.seen /\ (r.conn = "active" => q.conn = "active")
    /\ IdsIn(r.out) = IdsIn(q.out) /\ \A i \in IdsIn(q.out) : r.out[i] = q.out[i]

LEMMA OthersGood ==
    ASSUME NEW q, NEW p, NEW H, NEW K, NEW r, SameList(r, q)
    PROVE  /\ ListOK(q, K) => ListOK(r, K)
           /\ SummariesOK(q, p, H) => SummariesOK(r, p, H)
           /\ PeerGood(q, p, H, K) /\ (r.conn = "active" /\ Idle(r) =>
                 /\ q.conn = "active" /\ Idle(q) /\ r.inSync = q.inSync
                 /\ q.offered \subseteq r.offered)
              => PeerGood(r, p, H, K)
<1>1. ListOK(q, K) => ListOK(r, K)
  BY DEF SameList, ListOK, PlaceOK
<1>2. SummariesOK(q, p, H) => SummariesOK(r, p, H)
  BY DEF SameList, SummariesOK, SentOK, OnceOK
<1>3. ASSUME IdleOK(q, p, H),
             r.conn = "active" /\ Idle(r) =>
                 /\ q.conn = "active" /\ Idle(q) /\ r.inSync = q.inSync
                 /\ q.offered \subseteq r.offered
      PROVE  IdleOK(r, p, H)
  BY <1>3 DEF IdleOK, SameList
<1> QED
  BY <1>1, <1>2, <1>3 DEF PeerGood

LEMMA SynchronizingGood ==
    ASSUME WorldOK, NEW p \in Peers, NEW head, NEW H, NEW K, Ground(head, H, K),
           NEW q \in Connections, SummariesOK(q, p, H)
    PROVE  PeerGood(Synchronizing(head, q), p, H, K)
<1> DEFINE r == [q EXCEPT !.toGet = <<>>, !.unfetched = 0, !.weNeed = TRUE, !.seen = None]
<1>1. <<>> \in Seq(Blocks) /\ None \in Blocks \cup {None}
  OBVIOUS
<1>2. /\ r \in Connections /\ r.toGet = <<>> /\ r.seen = None /\ r.asked = q.asked
      /\ r.out = q.out /\ r.twice = q.twice /\ r.conn = q.conn
  BY <1>1 DEF Connections
<1>3. Synchronizing(head, q) = AskedIds(head, r)
  BY DEF Synchronizing
<1> HIDE DEF r
<1>4. ToSet(<<>>) = {}
  BY DEF ToSet
<1>5. SummariesOK(r, p, H)
  BY <1>2 DEF SummariesOK, SentOK, OnceOK
<1>6. PlaceOK(r, K) /\ ToSet(r.toGet) \subseteq ChainOf(p)
  BY <1>2, <1>4 DEF PlaceOK, Follow
<1> QED
  BY <1>2, <1>3, <1>5, <1>6, AskedIdsGood

\* After the last block of its list a peer is asked for more.
LEMMA ProcessedGood ==
    ASSUME WorldOK, NEW p \in Peers, NEW head, NEW H, NEW K, Ground(head, H, K),
           NEW q \in Connections, ListOK(q, K), SummariesOK(q, p, H),
           ToSet(q.toGet) \subseteq ChainOf(p), NEW b
    PROVE  PeerGood(Processed(head, q, b), p, H, K)
<1> DEFINE r == [q EXCEPT !.processing = @ \ {b}]
<1>1. /\ r \in Connections /\ SameList(r, q)
  BY DEF Connections, SameList
<1>2. Processed(head, q, b) = IF r.toGet = <<>> /\ r.unfetched = 0 /\ r.processing = {}
                              THEN AskedIds(head, r) ELSE r
  BY DEF Processed
<1> HIDE DEF r
<1>3. ListOK(r, K) /\ SummariesOK(r, p, H)
  BY <1>1, OthersGood
<1>4. PeerGood(AskedIds(head, r), p, H, K)
  BY <1>1, <1>3, AskedIdsGood DEF ListOK, SameList
<1>5. ASSUME ~(r.toGet = <<>> /\ r.unfetched = 0 /\ r.processing = {})
      PROVE  PeerGood(r, p, H, K)
  <2>1. IdleOK(r, p, H)
    BY <1>5 DEF IdleOK, Idle
  <2> QED
    BY <1>3, <2>1 DEF PeerGood
<1> QED
  BY <1>2, <1>4, <1>5

\* The first block of a list is taken off when it is settled.
LEMMA PoppedGood ==
    ASSUME NEW p, NEW H, NEW K, NEW q \in Connections, PeerGood(q, p, H, K),
           q.toGet # <<>>, q.toGet[1] \in K
    PROVE  PeerGood([q EXCEPT !.toGet = Tail(@), !.processing = @ \cup {q.toGet[1]}],
                    p, H, K)
<1> DEFINE b == q.toGet[1]
           list == q.toGet
           t == Tail(q.toGet)
           r == [q EXCEPT !.toGet = Tail(@), !.processing = @ \cup {b}]
<1>1. list \in Seq(Blocks) /\ Len(list) \in Nat /\ Len(list) >= 1 /\ b \in Blocks
  BY DEF Connections
<1>2. /\ r.toGet = t /\ r.processing = q.processing \cup {b} /\ r.asked = q.asked
      /\ r.seen = q.seen /\ r.out = q.out /\ r.twice = q.twice /\ r.conn = q.conn
  BY DEF Connections
<1> HIDE DEF r
<1>3. /\ t \in Seq(Blocks) /\ Len(t) = Len(list) - 1
      /\ \A i \in 1 .. Len(list) - 1 : t[i] = list[i + 1]
  BY <1>1
<1>4. ToSet(list) \subseteq ToSet(t) \cup {b}
  <2> SUFFICES ASSUME NEW i \in 1 .. Len(list) PROVE list[i] \in ToSet(t) \cup {b}
    BY <1>1 DEF ToSet
  <2>1. CASE i = 1
    BY <2>1
  <2>2. CASE i # 1
    <3>1. i - 1 \in 1 .. Len(list) - 1 /\ i - 1 + 1 = i
      BY <1>1, <2>2
    <3>2. t[i - 1] = list[i] /\ i - 1 \in DOMAIN t
      BY <1>3, <3>1
    <3> QED
      BY <3>2 DEF ToSet
  <2> QED
    BY <2>1, <2>2
<1> HIDE DEF t
<1>5. Follow(list, K)
  BY DEF PeerGood, ListOK, PlaceOK
<1>6. Follow(t, K)
  <2>1. ASSUME NEW i \in 1 .. Len(t) - 1 PROVE Parent[t[i + 1]] = t[i]
    <3>1. i \in 1 .. Len(list) - 1 /\ i + 1 \in 1 .. Len(list) - 1
      BY <1>1, <1>3
    <3>2. t[i] = list[i + 1] /\ t[i + 1] = list[i + 1 + 1]
      BY <1>3, <3>1
    <3>3. Parent[list[i + 1 + 1]] = list[i + 1]
      BY <1>5, <3>1 DEF Follow
    <3> QED
      BY <3>2, <3>3
  <2>2. ASSUME t # <<>> PROVE Parent[t[1]] = b
    <3>1. 1 \in 1 .. Len(list) - 1
      BY <1>1, <1>3, <2>2
    <3>2. t[1] = list[1 + 1] /\ Parent[list[1 + 1]] = list[1]
      BY <1>3, <1>5, <3>1 DEF Follow
    <3> QED
      BY <3>2
  <2> QED
    BY <2>1, <2>2 DEF Follow
<1>7. ListOK(r, K)
  BY <1>2, <1>4, <1>6 DEF PeerGood, ListOK, PlaceOK
<1>8. SummariesOK(r, p, H)
  BY <1>2 DEF PeerGood, SummariesOK, SentOK, OnceOK
<1>9. IdleOK(r, p, H)
  BY <1>2 DEF IdleOK, Idle
<1> QED
  BY <1>7, <1>8, <1>9 DEF PeerGood, r

\* A block of the chain is the last one a peer is known to have.
LEMMA SeenGood ==
    ASSUME NEW p, NEW head, NEW H, NEW K, Ground(head, H, K),
           NEW q \in Connections, PeerGood(q, p, H, K), NEW b \in H
    PROVE  PeerGood([q EXCEPT !.seen = b], p, H, K)
<1> DEFINE r == [q EXCEPT !.seen = b]
<1>1. /\ r.toGet = q.toGet /\ r.asked = q.asked /\ r.out = q.out /\ r.twice = q.twice
      /\ r.seen = b /\ r.conn = q.conn /\ r.inSync = q.inSync /\ r.offered = q.offered
      /\ (Idle(r) <=> Idle(q))
  BY DEF Connections, Idle
<1> HIDE DEF r
<1>2. b \in K
  BY DEF Ground
<1>3. ListOK(r, K)
  BY <1>1, <1>2 DEF PeerGood, ListOK, PlaceOK
<1>4. SummariesOK(r, p, H)
  BY <1>1 DEF PeerGood, SummariesOK, SentOK, OnceOK
<1>5. IdleOK(r, p, H)
  BY <1>1 DEF PeerGood, IdleOK
<1> QED
  BY <1>3, <1>4, <1>5 DEF PeerGood, r

-----------------------------------------------------------------------------
(* The calls again, with what is settled *)

LEMMA GoodPeer ==
    ASSUME NEW n, Good(n), NEW p \in Peers
    PROVE  /\ PeerGood(n.peer[p], p, n.have, Settled(n)) /\ n.peer[p] \in Connections
           /\ ListOK(n.peer[p], Settled(n)) /\ PlaceOK(n.peer[p], Settled(n))
           /\ SummariesOK(n.peer[p], p, n.have)
           /\ ToSet(n.peer[p].toGet) \subseteq ChainOf(p)
<1>1. PeerGood(n.peer[p], p, n.have, Settled(n)) /\ PeerOK(n.peer[p], p)
  BY DEF Good, NodeOK
<1> QED
  BY <1>1 DEF PeerGood, ListOK, PeerOK

\* The chain and the calls stay the same.
SameChain(m, n) ==
    m.have = n.have /\ m.calls = n.calls /\ m.head = n.head

LEMMA SameSettled ==
    ASSUME NEW n, NEW m, SameChain(m, n)
    PROVE  Settled(m) = Settled(n) /\ (ChainGood(n) => ChainGood(m))
BY DEF SameChain, Settled, ChainGood, InOrder

\* What a handler does to the peers only
LEMMA CalledChain ==
    ASSUME NEW n, n \in Nodes, NEW m, Called(m, n)
    PROVE  SameChain(m, n) /\ NodeOK(m) /\ m \in Nodes
<1>1. m = [n EXCEPT !.peer = m.peer] /\ NodeOK(m)
  BY DEF Called
<1>2. m.have = n.have /\ m.calls = n.calls /\ m.head = n.head
  BY <1>1 DEF Nodes
<1> QED
  BY <1>1, <1>2 DEF SameChain, NodeOK

LEMMA ChangedGood ==
    ASSUME NEW n, Good(n), NEW m, NodeOK(m), SameChain(m, n),
           \A p \in Peers : PeerGood(m.peer[p], p, n.have, Settled(n))
    PROVE  Good(m)
<1>1. Settled(m) = Settled(n) /\ ChainGood(m) /\ m.have = n.have
  BY SameSettled DEF Good, SameChain
<1> QED
  BY <1>1 DEF Good

\* Blocks come to the chain or are given to it.
LEMMA GrownGood ==
    ASSUME NEW n, Good(n), NEW m, NodeOK(m), ChainGood(m), n.have \subseteq m.have,
           Settled(n) \subseteq Settled(m),
           \A p \in Peers : PeerGood(m.peer[p], p, n.have, Settled(n))
    PROVE  Good(m)
<1>1. ASSUME NEW p \in Peers PROVE PeerGood(m.peer[p], p, m.have, Settled(m))
  <2>1. PeerGood(m.peer[p], p, n.have, Settled(n))
    OBVIOUS
  <2> QED
    BY <2>1, StillGood
<1> QED
  BY <1>1 DEF Good

\* Some of the peers are changed.
LEMMA WithPeersGood ==
    ASSUME NEW n, Good(n), NEW S, S \subseteq Peers, NEW f,
           \A p \in S : /\ Joined(f[p], p) /\ f[p].requested = n.peer[p].requested
                        /\ PeerGood(f[p], p, n.have, Settled(n))
    PROVE  /\ Good([n EXCEPT !.peer = [p \in Peers |-> IF p \in S THEN f[p] ELSE n.peer[p]]])
           /\ SameChain([n EXCEPT !.peer = [p \in Peers |->
                                              IF p \in S THEN f[p] ELSE n.peer[p]]], n)
<1> DEFINE peers == [p \in Peers |-> IF p \in S THEN f[p] ELSE n.peer[p]]
           m == [n EXCEPT !.peer = peers]
<1>1. n \in Nodes /\ NodeOK(n)
  BY DEF Good, NodeOK
<1>2. Called(m, n)
  BY <1>1, WithPeersOK
<1>3. \A p \in Peers : PeerGood(peers[p], p, n.have, Settled(n))
  BY GoodPeer
<1> HIDE DEF peers
<1>4. m.peer = peers
  BY <1>1 DEF Nodes
<1> HIDE DEF m
<1>5. SameChain(m, n) /\ NodeOK(m)
  BY <1>1, <1>2, CalledChain
<1>6. Good(m)
  BY <1>3, <1>4, <1>5, ChangedGood
<1> QED
  BY <1>5, <1>6 DEF m, peers

\* A node in which one peer is in the middle of a handler
GoodBut(n, p) ==
    /\ NodeOK(n) /\ ChainGood(n)
    /\ \A o \in Peers \ {p} : PeerGood(n.peer[o], o, n.have, Settled(n))
    /\ ListOK(n.peer[p], Settled(n)) /\ SummariesOK(n.peer[p], p, n.have)

LEMMA ButGood ==
    ASSUME NEW n, Good(n), NEW p \in Peers
    PROVE  GoodBut(n, p)
BY GoodPeer DEF Good, GoodBut

LEMMA FetchNextBatchGood ==
    ASSUME WorldOK, NEW n, NEW p \in Peers, GoodBut(n, p), n.peer[p].conn # "none"
    PROVE  Good(FetchNextBatch(n, p))
<1> DEFINE m == FetchNextBatch(n, p)
           q == n.peer[p]
<1>1. NodeOK(n) /\ ChainGood(n) /\ n \in Nodes /\ q \in Connections
      /\ ToSet(q.toGet) \subseteq ChainOf(p)
  BY PeerOKInNodes DEF GoodBut, NodeOK, PeerOK
<1>2. Ground(n.head, n.have, Settled(n))
  BY <1>1, ChainGround
<1>3. PeerGood(AskedIds(n.head, q), p, n.have, Settled(n))
  BY <1>1, <1>2, AskedIdsGood DEF GoodBut, ListOK
<1>4. \A o \in Peers : m.peer[o] = IF o = p THEN AskedIds(n.head, q) ELSE n.peer[o]
  BY <1>1 DEF FetchNextBatch, WithPeers, Nodes
<1>5. Called(m, n)
  BY <1>1, FetchNextBatchOK
<1> HIDE DEF m
<1>6. SameChain(m, n) /\ NodeOK(m)
  BY <1>1, <1>5, CalledChain
<1>7. Settled(m) = Settled(n) /\ ChainGood(m) /\ m.have = n.have
  BY <1>1, <1>6, SameSettled DEF SameChain
<1>8. \A o \in Peers : PeerGood(m.peer[o], o, n.have, Settled(n))
  BY <1>3, <1>4 DEF GoodBut
<1>9. Good(m)
  BY <1>6, <1>7, <1>8 DEF Good
<1> QED
  BY <1>9 DEF m

LEMMA StartSynchronizingGood ==
    ASSUME WorldOK, NEW n, NEW p \in Peers, NodeOK(n), ChainGood(n),
           \A o \in Peers \ {p} : PeerGood(n.peer[o], o, n.have, Settled(n)),
           SummariesOK(n.peer[p], p, n.have), n.peer[p].conn # "none"
    PROVE  Good(StartSynchronizing(n, p))
<1> DEFINE m == StartSynchronizing(n, p)
           q == n.peer[p]
<1>1. n \in Nodes /\ q \in Connections
  BY PeerOKInNodes DEF NodeOK
<1>2. Ground(n.head, n.have, Settled(n))
  BY <1>1, ChainGround
<1>3. PeerGood(Synchronizing(n.head, q), p, n.have, Settled(n))
  BY <1>1, <1>2, SynchronizingGood
<1>4. \A o \in Peers : m.peer[o] = IF o = p THEN Synchronizing(n.head, q) ELSE n.peer[o]
  BY <1>1 DEF StartSynchronizing, WithPeers, Nodes
<1>5. Called(m, n)
  BY <1>1, StartSynchronizingOK
<1> HIDE DEF m
<1>6. SameChain(m, n) /\ NodeOK(m)
  BY <1>1, <1>5, CalledChain
<1>7. Settled(m) = Settled(n) /\ ChainGood(m) /\ m.have = n.have
  BY <1>1, <1>6, SameSettled DEF SameChain
<1>8. \A o \in Peers : PeerGood(m.peer[o], o, n.have, Settled(n))
  BY <1>3, <1>4
<1>9. Good(m)
  BY <1>6, <1>7, <1>8 DEF Good
<1> QED
  BY <1>9 DEF m

\* A peer that is given up may owe any answer.
LEMMA DisconnectGood ==
    ASSUME NEW n, NodeOK(n), ChainGood(n), NEW S,
           \A o \in Peers : ListOK(n.peer[o], Settled(n)) /\ SentOK(n.peer[o], o, n.have),
           \A o \in Peers \ S : PeerGood(n.peer[o], o, n.have, Settled(n))
    PROVE  Good(Disconnect(n, S)) /\ SameChain(Disconnect(n, S), n)
<1> DEFINE m == Disconnect(n, S)
           A == S \cap ActivePeers(n)
           H == n.have
           K == Settled(n)
<1>1. n \in Nodes /\ \A o \in Peers : n.peer[o] \in Connections
  BY PeerOKInNodes DEF NodeOK
<1>2. \A o \in Peers : m.peer[o] = IF o \in A THEN [n.peer[o] EXCEPT !.conn = "closing"]
                                   ELSE n.peer[o]
  BY <1>1 DEF Disconnect, WithPeers, Nodes
<1>3. Called(m, n)
  BY DisconnectOK
<1> HIDE DEF m
<1>4. SameChain(m, n) /\ NodeOK(m)
  BY <1>1, <1>3, CalledChain
<1>5. Settled(m) = Settled(n) /\ ChainGood(m) /\ m.have = n.have
  BY <1>4, SameSettled DEF SameChain
<1> HIDE DEF H, K
<1>6. ASSUME NEW o \in Peers, NEW r, r.conn # "active", ListOK(r, K), SentOK(r, o, H)
      PROVE  PeerGood(r, o, H, K)
  BY <1>6 DEF PeerGood, SummariesOK, OnceOK, IdleOK
<1>7. ASSUME NEW o \in Peers PROVE PeerGood(m.peer[o], o, H, K)
  <2> DEFINE q == n.peer[o]
             r == [q EXCEPT !.conn = "closing"]
  <2>1. ListOK(q, K) /\ SentOK(q, o, H) /\ q \in Connections
    BY <1>1 DEF H, K
  <2>2. CASE o \in A
    <3>1. /\ r.conn = "closing" /\ r.toGet = q.toGet /\ r.asked = q.asked
          /\ r.seen = q.seen /\ r.out = q.out
      BY <2>1 DEF Connections
    <3>2. m.peer[o] = r
      BY <1>2, <2>2
    <3> HIDE DEF r, q
    <3>3. ListOK(r, K) /\ SentOK(r, o, H)
      BY <2>1, <3>1 DEF ListOK, PlaceOK, SentOK
    <3> QED
      BY <1>6, <3>1, <3>2, <3>3
  <2>3. CASE o \notin A /\ o \in S
    <3>1. q.conn # "active" /\ m.peer[o] = q
      BY <1>2, <2>3 DEF ActivePeers
    <3> HIDE DEF q
    <3> QED
      BY <1>6, <2>1, <3>1
  <2>4. CASE o \notin S
    BY <1>2, <2>4 DEF H, K
  <2> QED
    BY <2>2, <2>3, <2>4
<1>8. Good(m)
  BY <1>4, <1>5, <1>7 DEF Good, H, K
<1> QED
  BY <1>4, <1>8 DEF m

LEMMA GivenUpGood ==
    ASSUME NEW n, Good(n), NEW S
    PROVE  Good(Disconnect(n, S)) /\ SameChain(Disconnect(n, S), n)
<1>1. \A o \in Peers : /\ ListOK(n.peer[o], Settled(n)) /\ SentOK(n.peer[o], o, n.have)
                       /\ PeerGood(n.peer[o], o, n.have, Settled(n))
  BY GoodPeer DEF SummariesOK
<1> QED
  BY <1>1, DisconnectGood DEF Good

\* A block that builds on the chain is accepted.
LEMMA AcceptedGood ==
    ASSUME NEW n, Good(n), NEW b \in Blocks,
           b \in n.have \/ Parent[b] \in n.have \cup {None}
    PROVE  /\ Good(Accepted(n, b)) /\ b \in Accepted(n, b).have
           /\ Accepted(n, b).peer = n.peer
<1> DEFINE m == Accepted(n, b)
<1>1. n \in Nodes /\ NodeOK(n) /\ ChainGood(n)
  BY DEF Good, NodeOK
<1>2. m.have = n.have \cup {b} /\ m.calls = n.calls /\ m.head \in {n.head, b}
      /\ m.peer = n.peer
  BY <1>1 DEF Nodes, Accepted
<1>3. NodeOK(m)
  BY <1>1, AcceptedOK
<1> HIDE DEF m
<1>4. b # None
  BY NodeSyncAssumption
<1>5. ChainGood(m)
  BY <1>1, <1>2, <1>4 DEF ChainGood, InOrder
<1>6. Settled(n) \subseteq Settled(m)
  BY <1>2 DEF Settled
<1>7. \A p \in Peers : PeerGood(m.peer[p], p, n.have, Settled(n))
  BY <1>2, GoodPeer
<1>8. Good(m)
  BY <1>2, <1>3, <1>5, <1>6, <1>7, GrownGood
<1> QED
  BY <1>2, <1>8 DEF m

LEMMA OnAcceptedGood ==
    ASSUME WorldOK, NEW n, Good(n), NEW b \in n.have
    PROVE  Good(OnAccepted(n, b))
<1> DEFINE S == Having(n, b)
           f == [o \in S |-> Processed(n.head, [n.peer[o] EXCEPT !.seen = b], b)]
           m == [n EXCEPT !.peer = [o \in Peers |-> IF o \in S THEN f[o] ELSE n.peer[o]]]
           idle == {p \in ActivePeers(n) :
                      LET q == n.peer[p] IN
                      q.toGet = <<>> /\ q.processing = {} /\ ~q.theyNeed /\ ~q.weNeed}
           g == [o \in idle |-> Synchronizing(n.head, m.peer[o])]
           k == [m EXCEPT !.peer = [o \in Peers |-> IF o \in idle THEN g[o] ELSE m.peer[o]]]
           H == n.have
           K == Settled(n)
<1>0. /\ n.head \in Blocks \cup {None} /\ n \in Nodes /\ NodeOK(n) /\ b \in Blocks
      /\ Ground(n.head, H, K)
  BY GoodGround DEF Good, NodeOK, Nodes
<1> HIDE DEF H, K
<1>1. S \subseteq Peers /\ \A o \in S : Joined(n.peer[o], o)
  BY <1>0, ActiveJoined, JoinedPeer DEF Having
<1>2. \A o \in S : /\ Joined(f[o], o) /\ f[o].requested = n.peer[o].requested
                   /\ PeerGood(f[o], o, H, K)
  <2> SUFFICES ASSUME NEW o \in S
               PROVE  /\ Kept(Processed(n.head, [n.peer[o] EXCEPT !.seen = b], b),
                              n.peer[o], o)
                      /\ PeerGood(Processed(n.head, [n.peer[o] EXCEPT !.seen = b], b), o, H, K)
    BY DEF Kept
  <2> DEFINE q == n.peer[o]
             r == [q EXCEPT !.seen = b]
  <2>1. Kept(r, q, o)
    BY <1>0, <1>1, SeenOK
  <2>2. o \in Peers /\ q \in Connections /\ PeerGood(q, o, H, K)
    BY <1>1, GoodPeer DEF H, K
  <2>3. PeerGood(r, o, H, K)
    <3>1. b \in H
      BY DEF H
    <3> QED
      BY <1>0, <2>2, <3>1, SeenGood
  <2> HIDE DEF r, q, S
  <2>4. Kept(Processed(n.head, r, b), r, o)
    BY <1>0, <2>1, ProcessedOK DEF Kept
  <2>5. PeerGood(Processed(n.head, r, b), o, H, K)
    <3>1. r \in Connections /\ ToSet(r.toGet) \subseteq ChainOf(o)
      BY <2>1 DEF Kept, Joined, PeerOK
    <3>2. ListOK(r, K) /\ SummariesOK(r, o, H)
      BY <2>3 DEF PeerGood
    <3> QED
      BY <1>0, <2>2, <3>1, <3>2, ProcessedGood
  <2>6. Kept(Processed(n.head, r, b), q, o)
    BY <2>1, <2>4 DEF Kept
  <2> QED
    BY <2>5, <2>6 DEF r, q
<1>9. m = WithPeers(n, S, LAMBDA q : Processed(n.head, [q EXCEPT !.seen = b], b))
  <2> HIDE DEF S
  <2> QED
    BY DEF WithPeers
<1>10. OnAccepted(n, b) =
         WithPeers(WithPeers(n, S, LAMBDA q : Processed(n.head, [q EXCEPT !.seen = b], b)),
                   idle, LAMBDA q : Synchronizing(n.head, q))
  BY DEF OnAccepted
<1> HIDE DEF S, f
<1>3. Good(m) /\ SameChain(m, n)
  <2>1. \A o \in S : PeerGood(f[o], o, n.have, Settled(n))
    BY <1>2 DEF H, K
  <2> QED
    BY <1>1, <1>2, <2>1, WithPeersGood
<1>11. Called(m, n)
  BY <1>0, <1>1, <1>2, WithPeersOK
<1> HIDE DEF m
<1>5. idle \subseteq Peers /\ \A o \in idle : Joined(m.peer[o], o)
  <2>1. idle \subseteq ActivePeers(n) /\ ActivePeers(n) \subseteq Peers
    BY ActiveJoined
  <2> SUFFICES ASSUME NEW o \in idle PROVE Joined(m.peer[o], o)
    BY <2>1
  <2>2. m.peer[o].conn # "none"
    BY <1>11, <2>1, ActiveJoined DEF Called
  <2> QED
    BY <1>11, <2>1, <2>2, JoinedPeer DEF Called
<1> HIDE DEF idle
<1>6. \A o \in idle : /\ Joined(g[o], o) /\ g[o].requested = m.peer[o].requested
                      /\ PeerGood(g[o], o, m.have, Settled(m))
  <2> SUFFICES ASSUME NEW o \in idle
               PROVE  /\ Kept(Synchronizing(n.head, m.peer[o]), m.peer[o], o)
                      /\ PeerGood(Synchronizing(n.head, m.peer[o]), o, m.have, Settled(m))
    BY DEF Kept
  <2>1. Kept(Synchronizing(n.head, m.peer[o]), m.peer[o], o)
    BY <1>0, <1>5, SynchronizingOK
  <2>2. Ground(m.head, m.have, Settled(m)) /\ m.head = n.head
    BY <1>3, GoodGround DEF SameChain
  <2>3. o \in Peers /\ m.peer[o] \in Connections /\ SummariesOK(m.peer[o], o, m.have)
    BY <1>3, <1>5, GoodPeer
  <2>4. PeerGood(Synchronizing(n.head, m.peer[o]), o, m.have, Settled(m))
    BY <2>2, <2>3, SynchronizingGood
  <2> QED
    BY <2>1, <2>4
<1>8. OnAccepted(n, b) = k
  BY <1>9, <1>10 DEF WithPeers
<1> HIDE DEF g
<1>7. Good(k)
  BY <1>3, <1>5, <1>6, WithPeersGood
<1> QED
  BY <1>7, <1>8

\* One peer is changed.
LEMMA OneGood ==
    ASSUME NEW n, Good(n), NEW p \in Peers, NEW r, NodeOK([n EXCEPT !.peer[p] = r]),
           PeerGood(r, p, n.have, Settled(n))
    PROVE  Good([n EXCEPT !.peer[p] = r]) /\ SameChain([n EXCEPT !.peer[p] = r], n)
<1> DEFINE m == [n EXCEPT !.peer[p] = r]
<1>1. n \in Nodes
  BY DEF Good, NodeOK
<1>2. SameChain(m, n) /\ \A o \in Peers : m.peer[o] = IF o = p THEN r ELSE n.peer[o]
  BY <1>1 DEF Nodes, SameChain
<1> HIDE DEF m
<1>3. \A o \in Peers : PeerGood(m.peer[o], o, n.have, Settled(n))
  BY <1>2, GoodPeer
<1>4. NodeOK(m)
  BY DEF m
<1>5. Good(m)
  BY <1>2, <1>3, <1>4, ChangedGood
<1> QED
  BY <1>2, <1>5 DEF m

\* None is.
LEMMA OthersSame ==
    ASSUME NEW n, Good(n), NEW m, NodeOK(m), m.peer = n.peer, SameChain(m, n)
    PROVE  Good(m)
<1>1. \A o \in Peers : PeerGood(m.peer[o], o, n.have, Settled(n))
  BY GoodPeer
<1> QED
  BY <1>1, ChangedGood

LEMMA FlagGood ==
    ASSUME NEW n, Good(n), NEW b \in BOOLEAN
    PROVE  /\ Good([n EXCEPT !.fetch = b]) /\ Good([n EXCEPT !.backlog = b])
           /\ Good([n EXCEPT !.refetch = b]) /\ Good([n EXCEPT !.suspend = b])
<1>1. n \in Nodes /\ NodeOK(n)
  BY DEF Good, NodeOK
<1>2. Good([n EXCEPT !.fetch = b])
  <2> DEFINE m == [n EXCEPT !.fetch = b]
  <2>1. m.peer = n.peer /\ SameChain(m, n) /\ NodeOK(m)
    BY <1>1, FetchFlag DEF Nodes, SameChain
  <2> QED
    BY <2>1, OthersSame
<1>3. Good([n EXCEPT !.backlog = b])
  <2> DEFINE m == [n EXCEPT !.backlog = b]
  <2>1. m.peer = n.peer /\ SameChain(m, n) /\ NodeOK(m)
    BY <1>1, FetchFlag DEF Nodes, SameChain
  <2> QED
    BY <2>1, OthersSame
<1>4. Good([n EXCEPT !.refetch = b])
  <2> DEFINE m == [n EXCEPT !.refetch = b]
  <2>1. m.peer = n.peer /\ SameChain(m, n) /\ NodeOK(m)
    BY <1>1, FetchFlag DEF Nodes, SameChain
  <2> QED
    BY <2>1, OthersSame
<1>5. Good([n EXCEPT !.suspend = b])
  <2> DEFINE m == [n EXCEPT !.suspend = b]
  <2>1. m.peer = n.peer /\ SameChain(m, n) /\ NodeOK(m)
    BY <1>1, FetchFlag DEF Nodes, SameChain
  <2> QED
    BY <2>1, OthersSame
<1> QED
  BY <1>2, <1>3, <1>4, <1>5

\* Nothing is known of a peer that is not connected.
LEMMA NoConnectionGood ==
    ASSUME NEW p, NEW H, NEW K
    PROVE  PeerGood(NoConnection, p, H, K)
<1>1. /\ NoConnection.toGet = <<>> /\ NoConnection.asked = {} /\ NoConnection.seen = None
      /\ NoConnection.out = <<>> /\ NoConnection.conn = "none"
  BY DEF NoConnection
<1>2. ListOK(NoConnection, K)
  BY <1>1 DEF ListOK, PlaceOK, Follow
<1>3. IdsIn(NoConnection.out) = {}
  BY <1>1 DEF IdsIn
<1>4. SummariesOK(NoConnection, p, H)
  BY <1>1, <1>3 DEF SummariesOK, SentOK, OnceOK
<1>5. IdleOK(NoConnection, p, H)
  BY <1>1 DEF IdleOK
<1> QED
  BY <1>2, <1>4, <1>5 DEF PeerGood

LEMMA ClosedGood ==
    ASSUME NEW n, Good(n), NEW p \in Peers
    PROVE  Good(Closed(n, p))
<1> DEFINE m == Closed(n, p)
<1>1. n \in Nodes /\ NodeOK(n)
  BY DEF Good, NodeOK
<1>2. SameChain(m, n) /\ \A o \in Peers : m.peer[o] = IF o = p THEN NoConnection ELSE n.peer[o]
  BY <1>1 DEF Nodes, SameChain, Closed
<1>3. NodeOK(m)
  BY <1>1, ClosedOK
<1> HIDE DEF m
<1>4. \A o \in Peers : PeerGood(m.peer[o], o, n.have, Settled(n))
  BY <1>2, GoodPeer, NoConnectionGood
<1>5. Good(m)
  BY <1>2, <1>3, <1>4, ChangedGood
<1> QED
  BY <1>5 DEF m

-----------------------------------------------------------------------------
(* The ids a peer sends *)

\* Blocks each on the one before
InRow(s) == \A i \in 1 .. Len(s) - 1 : Parent[s[i + 1]] = s[i]

\* The chain of a block is in order; one id is that of the last block, and no ids
\* are sent by a peer without blocks, or one that knows none of the summary.
LEMMA ReplyOrder ==
    ASSUME NEW c \in Blocks \cup {None}, NEW synopsis
    PROVE  LET ids == Reply(Path[c], synopsis).ids IN
           /\ InRow(ids)
           /\ ids = <<>> => c = None \/ (synopsis # {} /\ synopsis \cap ToSet(Path[c]) = {})
           /\ Len(ids) = 1 => ids[1] = c
<1> DEFINE chain == Path[c]
           known == synopsis \cap ToSet(chain)
           numbers == {Number(b) : b \in known}
           from == IF synopsis = {} THEN 1 ELSE Max(numbers)
           to   == Min({Len(chain), from + IdsPerReply - 1})
           reply == Reply(chain, synopsis)
           ids == reply.ids
<1>1. /\ chain \in Seq(Blocks) /\ Len(chain) \in Nat /\ Number(c) = Len(chain)
      /\ IdsPerReply \in Nat /\ IdsPerReply > 1
  BY PathFacts, NodeSyncAssumption DEF Number
<1>2. CASE synopsis # {} /\ known = {}
  <2>1. reply = [ids |-> <<>>, left |-> 0]
    BY <1>2 DEF Reply
  <2>2. ids = <<>> /\ Len(ids) = 0
    BY <2>1
  <2>3. InRow(ids)
    <3> HIDE DEF ids
    <3> QED
      BY <2>2 DEF InRow
  <2> QED
    BY <1>2, <2>2, <2>3
<1>3. CASE ~(synopsis # {} /\ known = {}) /\ c # None
  <2>1. reply = [ids |-> SubSeq(chain, from, to), left |-> Len(chain) - to]
    BY <1>3 DEF Reply
  <2>5. ids = SubSeq(chain, from, to)
    <3> HIDE DEF from, to
    <3>1. reply = [ids |-> SubSeq(chain, from, to), left |-> Len(chain) - to]
      BY <1>3 DEF Reply, from, to
    <3> HIDE DEF reply, chain
    <3> QED
      BY <3>1
  <2>0. Len(chain) # 0
    BY <1>1, <1>3, BlockNumber
  <2>2. numbers \subseteq 1 .. Len(chain)
    <3> SUFFICES ASSUME NEW b \in known PROVE Number(b) \in 1 .. Len(chain)
      OBVIOUS
    <3>1. PICK i \in 1 .. Len(chain) : b = chain[i]
      <4> HIDE DEF chain
      <4> QED
        BY <1>1 DEF ToSet
    <3>2. Number(b) = i
      BY <3>1, PathElements DEF Number
    <3> QED
      BY <3>1, <3>2
  <2>3. from \in 1 .. Len(chain)
    <3>1. CASE synopsis = {}
      <4> HIDE DEF chain
      <4> QED
        BY <1>1, <2>0, <3>1
    <3>2. CASE synopsis # {}
      <4>1. numbers # {}
        BY <1>3, <3>2
      <4>2. numbers \subseteq 0 .. Len(chain)
        BY <2>2
      <4> HIDE DEF numbers, chain
      <4>3. Max(numbers) \in numbers
        BY <1>1, <4>2, <4>1, MinMax
      <4> QED
        BY <2>2, <3>2, <4>3
    <3> QED
      BY <3>1, <3>2
  <2> HIDE DEF from, chain
  <2>4. to \in from .. Len(chain) /\ (to = from => to = Len(chain))
    <3> DEFINE two == {Len(chain), from + IdsPerReply - 1}
               hi  == Len(chain) + from + IdsPerReply
    <3>1. hi \in Nat /\ two \subseteq 0 .. hi /\ two # {} /\ Len(chain) \in two
      BY <1>1, <2>3
    <3> HIDE DEF two, hi
    <3>2. Min(two) \in two /\ Min(two) <= Len(chain)
      BY <3>1, MinMax
    <3>3. Min(two) = Len(chain) \/ Min(two) = from + IdsPerReply - 1
      BY <3>2 DEF two
    <3> DEFINE t == Min(two)
    <3> HIDE DEF t
    <3>4. t \in from .. Len(chain) /\ (t = from => t = Len(chain))
      BY <1>1, <2>3, <3>2, <3>3 DEF t
    <3> QED
      BY <3>4 DEF t, two
  <2> HIDE DEF to
  <2> HIDE DEF ids
  <2>6. Len(ids) = to - from + 1 /\ ids \in Seq(Blocks)
    BY <1>1, <2>3, <2>4, <2>5
  <2>7. \A i \in 1 .. to - from + 1 : ids[i] = chain[from + i - 1]
    BY <1>1, <2>3, <2>4, <2>5
  <2>8. ASSUME NEW i \in 1 .. Len(ids) - 1 PROVE Parent[ids[i + 1]] = ids[i]
    <3> DEFINE j == from + i
    <3>1. /\ i \in 1 .. to - from + 1 /\ i + 1 \in 1 .. to - from + 1
          /\ j \in 1 .. Len(chain) /\ j # 1 /\ from + (i + 1) - 1 = j /\ from + i - 1 = j - 1
      BY <1>1, <2>3, <2>4, <2>6
    <3> HIDE DEF j
    <3>2. ids[i] = chain[j - 1] /\ ids[i + 1] = chain[j]
      BY <2>7, <3>1
    <3>3. Parent[chain[j]] = chain[j - 1]
      BY <1>1, <3>1, PathElements DEF chain
    <3> QED
      BY <3>2, <3>3
  <2>9. ASSUME Len(ids) = 1 PROVE ids[1] = c
    <3>0. to = from /\ 1 \in 1 .. to - from + 1 /\ from \in Nat
      <4>1. Len(ids) = 1
        BY <2>9
      <4>2. to - from + 1 = 1
        BY <2>6, <4>1
      <4>3. from \in Nat /\ to \in Nat
        BY <1>1, <2>3, <2>4
      <4> QED
        BY <4>2, <4>3
    <3>5. ids[1] = chain[from + 1 - 1] /\ from + 1 - 1 = from
      BY <2>7, <3>0
    <3>1. from = Len(chain) /\ ids[1] = chain[from]
      BY <2>4, <3>0, <3>5
    <3>2. chain = Append(Path[Parent[c]], c) /\ Parent[c] \in Blocks \cup {None}
      BY <1>3, PathFacts DEF chain
    <3>3. Path[Parent[c]] \in Seq(Blocks)
      BY <3>2, PathFacts
    <3>4. chain[Len(chain)] = c
      BY <3>2, <3>3
    <3> QED
      BY <3>1, <3>4
  <2>10. ids # <<>>
    BY <2>3, <2>4, <2>6
  <2>11. InRow(ids)
    BY <2>8 DEF InRow
  <2> QED
    BY <2>9, <2>10, <2>11 DEF ids, chain
<1>4. CASE ~(synopsis # {} /\ known = {}) /\ c = None
  <2>1. chain = <<>> /\ ToSet(chain) = {}
    BY <1>4, PathFacts DEF ToSet
  <2>2. synopsis = {} /\ from = 1
    BY <1>4, <2>1
  <2>3. ids = SubSeq(chain, 1, to)
    BY <1>4, <2>2 DEF Reply
  <2>4. to \in {0, IdsPerReply} /\ to <= 0
    <3> DEFINE two == {0, IdsPerReply}
    <3>1. Len(chain) = 0 /\ from + IdsPerReply - 1 = IdsPerReply
      BY <1>1, <2>1, <2>2
    <3>2. to = Min(two)
      BY <3>1
    <3>3. two \subseteq 0 .. IdsPerReply /\ two # {} /\ 0 \in two
      BY <1>1
    <3> HIDE DEF two, to
    <3>4. Min(two) \in two /\ Min(two) <= 0
      BY <1>1, <3>3, MinMax
    <3> QED
      BY <3>2, <3>4 DEF two
  <2> HIDE DEF to
  <2>5. to = 0
    BY <1>1, <2>4
  <2>6. ids = <<>>
    <3> HIDE DEF ids, chain
    <3> QED
      BY <2>1, <2>3, <2>5
  <2>7. Len(ids) = 0
    BY <2>6
  <2>8. InRow(ids)
    <3> HIDE DEF ids
    <3> QED
      BY <2>7 DEF InRow
  <2> QED
    BY <1>4, <2>6, <2>7, <2>8
<1> QED
  BY <1>2, <1>3, <1>4

\* A peer that knows a summary, or has the same first block, sends ids if it has any.
LEMMA SummaryAnswered ==
    ASSUME WorldOK, NEW p \in Peers, NEW H, H \subseteq Blocks, NEW s, SummaryOK(s, p, H),
           Reply(Path[tip[p]], s).ids = <<>>
    PROVE  tip[p] = None
<1> DEFINE c == tip[p]
<1>1. c \in Blocks \cup {None}
  BY DEF WorldOK
<1> SUFFICES ASSUME c # None PROVE FALSE
  OBVIOUS
<1>2. s # {} /\ s \cap ChainOf(p) = {}
  BY <1>1, ReplyOrder DEF ChainOf
<1>3. PICK r \in s : Parent[r] = None
  BY <1>2 DEF SummaryOK
<1>4. r \in Blocks
  BY <1>2 DEF SummaryOK
<1>5. Path[c][1] \in ChainOf(p) /\ Path[c][1] \in Blocks /\ Parent[Path[c][1]] = None
  <2>1. 1 \in 1 .. Number(c)
    BY <1>1, BlockNumber
  <2>2. Path[c] \in Seq(Blocks) /\ Number(c) = Len(Path[c])
    BY <1>1, PathFacts DEF Number
  <2>3. Path[c][1] \in Blocks /\ Parent[Path[c][1]] = None
    BY <1>1, <2>1, PathElements
  <2>4. 1 \in DOMAIN Path[c]
    BY <2>1, <2>2
  <2> QED
    BY <2>3, <2>4 DEF ChainOf, ToSet
<1>6. r = Path[c][1]
  BY <1>3, <1>4, <1>5, OneFirstBlock
<1> QED
  BY <1>2, <1>5, <1>6

LEMMA PartFollows ==
    ASSUME NEW s \in Seq(Blocks), InRow(s), NEW i \in 1 .. Len(s) + 1, NEW j \in 0 .. Len(s),
           NEW K, i <= j => Parent[s[i]] \in K \cup {None}
    PROVE  Follow(SubSeq(s, i, j), K)
<1> DEFINE t == SubSeq(s, i, j)
           l == Len(t)
<1>1. t \in Seq(Blocks) /\ l = IF i <= j THEN j - i + 1 ELSE 0
  OBVIOUS
<1>2. \A k \in 1 .. l : t[k] = s[i + k - 1]
  <2> SUFFICES ASSUME NEW k \in 1 .. l PROVE t[k] = s[i + k - 1]
    OBVIOUS
  <2>1. i <= j /\ k \in 1 .. j - i + 1
    BY <1>1
  <2> QED
    BY <2>1
<1> HIDE DEF t
<1>3. l \in Nat
  BY <1>1
<1>4. ASSUME NEW k \in 1 .. l - 1 PROVE Parent[t[k + 1]] = t[k]
  <2> DEFINE a == i + k - 1
  <2>1. /\ a \in 1 .. Len(s) - 1 /\ k \in 1 .. l /\ k + 1 \in 1 .. l
        /\ i + (k + 1) - 1 = a + 1
    BY <1>1
  <2> HIDE DEF a, l
  <2>2. t[k + 1] = s[a + 1]
    BY <1>2, <2>1
  <2>3. t[k] = s[a]
    BY <1>2, <2>1 DEF a
  <2>4. Parent[s[a + 1]] = s[a]
    BY <2>1 DEF InRow
  <2> QED
    BY <2>2, <2>3, <2>4
<1>5. ASSUME t # <<>> PROVE Parent[t[1]] \in K \cup {None}
  <2>1. 1 \in 1 .. l /\ i <= j /\ i + 1 - 1 = i
    BY <1>1, <1>5
  <2> HIDE DEF l
  <2>2. t[1] = s[i]
    BY <1>2, <2>1
  <2> QED
    BY <2>1, <2>2
<1>6. Follow(t, K)
  BY <1>4, <1>5 DEF Follow
<1> QED
  BY <1>6 DEF t

LEMMA TailFollows ==
    ASSUME NEW s \in Seq(Blocks), InRow(s), s # <<>>, NEW K, s[1] \in K
    PROVE  Follow(Tail(s), K)
<1> DEFINE t == Tail(s)
<1>1. Len(s) \in Nat /\ Len(s) >= 1
  OBVIOUS
<1>2. /\ t \in Seq(Blocks) /\ Len(t) = Len(s) - 1
      /\ \A i \in 1 .. Len(s) - 1 : t[i] = s[i + 1]
  BY <1>1
<1> HIDE DEF t
<1>3. ASSUME NEW i \in 1 .. Len(t) - 1 PROVE Parent[t[i + 1]] = t[i]
  <2>1. i \in 1 .. Len(s) - 1 /\ i + 1 \in 1 .. Len(s) - 1
    BY <1>1, <1>2
  <2>2. t[i] = s[i + 1] /\ t[i + 1] = s[i + 1 + 1]
    BY <1>2, <2>1
  <2>3. Parent[s[i + 1 + 1]] = s[i + 1]
    BY <2>1 DEF InRow
  <2> QED
    BY <2>2, <2>3
<1>4. ASSUME t # <<>> PROVE Parent[t[1]] \in K \cup {None}
  <2>1. 1 \in 1 .. Len(s) - 1
    BY <1>1, <1>2, <1>4
  <2>2. t[1] = s[1 + 1] /\ Parent[s[1 + 1]] = s[1]
    BY <1>2, <2>1 DEF InRow
  <2> QED
    BY <2>2
<1>5. Follow(t, K)
  BY <1>3, <1>4 DEF Follow
<1> QED
  BY <1>5 DEF t

LEMMA JoinFollows ==
    ASSUME NEW s \in Seq(Blocks), NEW t \in Seq(Blocks), NEW K, Follow(s, K), InRow(t), t # <<>>,
           IF s = <<>> THEN Parent[t[1]] \in K \cup {None} ELSE Parent[t[1]] = s[Len(s)]
    PROVE  Follow(s \o t, K)
<1> DEFINE u == s \o t
           l == Len(s)
<1>1. u \in Seq(Blocks) /\ Len(u) = l + Len(t) /\ l \in Nat /\ Len(t) \in Nat /\ Len(t) >= 1
  OBVIOUS
<1>2. \A k \in 1 .. l : u[k] = s[k]
  OBVIOUS
<1>3. \A k \in 1 .. Len(t) : u[l + k] = t[k]
  OBVIOUS
<1>0. s = <<>> <=> l = 0
  OBVIOUS
<1> HIDE DEF u, l
<1>4. ASSUME NEW k \in 1 .. Len(u) - 1 PROVE Parent[u[k + 1]] = u[k]
  <2>1. CASE k < l
    <3>1. k \in 1 .. l - 1 /\ k \in 1 .. l /\ k + 1 \in 1 .. l
      BY <1>1, <2>1
    <3>2. Parent[s[k + 1]] = s[k]
      BY <3>1 DEF Follow, l
    <3> QED
      BY <1>2, <3>1, <3>2
  <2>2. CASE k = l
    <3>1. l \in 1 .. l /\ 1 \in 1 .. Len(t) /\ s # <<>>
      BY <1>0, <1>1, <2>2
    <3>2. u[l] = s[l] /\ u[l + 1] = t[1]
      BY <1>2, <1>3, <3>1
    <3>3. Parent[t[1]] = s[l]
      BY <3>1 DEF l
    <3> QED
      BY <2>2, <3>2, <3>3
  <2>3. CASE k > l
    <3> DEFINE j == k - l
    <3>1. /\ j \in 1 .. Len(t) - 1 /\ j \in 1 .. Len(t) /\ j + 1 \in 1 .. Len(t)
          /\ k = l + j /\ k + 1 = l + (j + 1)
      BY <1>1, <2>3
    <3> HIDE DEF j
    <3>2. u[k] = t[j] /\ u[k + 1] = t[j + 1]
      BY <1>3, <3>1
    <3>3. Parent[t[j + 1]] = t[j]
      BY <3>1 DEF InRow
    <3> QED
      BY <3>2, <3>3
  <2> QED
    BY <1>1, <2>1, <2>2, <2>3
<1>5. Parent[u[1]] \in K \cup {None}
  <2>1. CASE l = 0
    <3>1. 1 \in 1 .. Len(t) /\ l + 1 = 1
      BY <1>1, <2>1
    <3>2. u[1] = t[1]
      BY <1>3, <3>1
    <3> QED
      BY <1>0, <2>1, <3>2
  <2>2. CASE l # 0
    <3>1. 1 \in 1 .. l /\ s # <<>>
      BY <1>0, <1>1, <2>2
    <3>2. u[1] = s[1] /\ Parent[s[1]] \in K \cup {None}
      BY <1>2, <3>1 DEF Follow
    <3> QED
      BY <3>2
  <2> QED
    BY <2>1, <2>2
<1>6. Follow(u, K)
  BY <1>4, <1>5 DEF Follow
<1> QED
  BY <1>6 DEF u

\* The new list goes on where settled blocks end, whichever of its forms it takes.
Follows(n, p, ids) ==
    ids # <<>> => \/ ids[1] \in Settled(n) \cup ToSet(n.peer[p].toGet)
                  \/ n.peer[p].toGet = <<>> /\ Parent[ids[1]] = None

\* A node in which the list of one peer is another one
Relisted(m, n, p, list, seen) ==
    /\ SameChain(m, n) /\ m \in Nodes
    /\ \A o \in Peers : o # p => m.peer[o] = n.peer[o]
    /\ LET r == m.peer[p]
           q == n.peer[p]
       IN  /\ r.toGet = list /\ r.seen = seen /\ r.asked = q.asked /\ r.out = q.out
           /\ r.twice = q.twice /\ r.conn = q.conn
           /\ r.processing = q.processing /\ r.offered = q.offered

LEMMA NewLists ==
    ASSUME NEW n \in Nodes, NEW p \in Peers, NEW list \in Seq(Blocks),
           NEW b \in Blocks \cup {None}
    PROVE  /\ Relisted(n, n, p, n.peer[p].toGet, n.peer[p].seen)
           /\ Relisted([n EXCEPT !.peer[p].toGet = list], n, p, list, n.peer[p].seen)
           /\ Relisted([n EXCEPT !.peer[p].toGet = list, !.peer[p].seen = b], n, p, list, b)
<1> DEFINE q == n.peer[p]
           r == [q EXCEPT !.toGet = list]
           s == [q EXCEPT !.toGet = list, !.seen = b]
           k == [n EXCEPT !.peer[p].toGet = list]
           m == [n EXCEPT !.peer[p].toGet = list, !.peer[p].seen = b]
<1>1. q \in Connections
  BY DEF Nodes
<1>2. r \in Connections /\ s \in Connections
  BY <1>1 DEF Connections
<1>3. /\ r.toGet = list /\ r.seen = q.seen /\ r.asked = q.asked /\ r.out = q.out
      /\ r.twice = q.twice /\ r.conn = q.conn
      /\ r.processing = q.processing /\ r.offered = q.offered
  BY <1>1 DEF Connections
<1>4. /\ s.toGet = list /\ s.seen = b /\ s.asked = q.asked /\ s.out = q.out
      /\ s.twice = q.twice /\ s.conn = q.conn
      /\ s.processing = q.processing /\ s.offered = q.offered
  BY <1>1 DEF Connections
<1>5. k = [n EXCEPT !.peer[p] = r] /\ m = [n EXCEPT !.peer[p] = s]
  BY DEF Nodes, Connections
<1> HIDE DEF r, s, k, m
<1>6. /\ k \in Nodes /\ m \in Nodes /\ SameChain(k, n) /\ SameChain(m, n)
      /\ \A o \in Peers : o # p => k.peer[o] = n.peer[o] /\ m.peer[o] = n.peer[o]
      /\ k.peer[p] = r /\ m.peer[p] = s
  BY <1>2, <1>5 DEF Nodes, SameChain
<1>7. Relisted(k, n, p, list, q.seen)
  BY <1>3, <1>6 DEF Relisted
<1>8. Relisted(m, n, p, list, b)
  BY <1>4, <1>6 DEF Relisted
<1>9. Relisted(n, n, p, q.toGet, q.seen)
  BY DEF Relisted, SameChain
<1> QED
  BY <1>7, <1>8, <1>9 DEF k, m

LEMMA ListedPlaced ==
    ASSUME NEW n, NodeOK(n), ChainGood(n), NEW p \in Peers, n.peer[p].conn # "none",
           PlaceOK(n.peer[p], Settled(n)),
           n.peer[p].seen \in n.have \cup ChainOf(p) \cup {None},
           NEW ids \in Seq(Blocks), InRow(ids), ToSet(ids) \subseteq ChainOf(p),
           Follows(n, p, ids)
    PROVE  \E list, seen :
              /\ Relisted(Listed(n, p, ids), n, p, list, seen)
              /\ Follow(list, Settled(n)) /\ seen \in Settled(n) \cup {None}
              /\ seen \in n.have \cup ChainOf(p) \cup {None}
<1> DEFINE q == n.peer[p]
           K == Settled(n)
           T == {i \in 0 .. Len(ids) : \A j \in 1 .. i : ids[j] \in n.have}
           seen == Max(T)
           common == {i \in DOMAIN q.toGet : q.toGet[i] = ids[1]}
           firstOfOther == \E o \in ActivePeers(n) \ {p} :
                             n.peer[o].toGet # <<>> /\ n.peer[o].toGet[1] = ids[1]
           m == Listed(n, p, ids)
           Placed(list, last) == /\ Relisted(m, n, p, list, last) /\ Follow(list, K)
                                 /\ last \in K \cup {None}
                                 /\ last \in n.have \cup ChainOf(p) \cup {None}
<1>1. /\ q \in Connections /\ q.toGet \in Seq(Blocks) /\ n \in Nodes
      /\ Len(ids) \in Nat /\ Len(q.toGet) \in Nat /\ q.seen \in Blocks \cup {None}
  BY JoinedPeer DEF Joined, PeerOK, Connections, NodeOK
<1>2. m = IF ids = <<>> THEN n
        ELSE IF q.toGet = <<>>
        THEN IF firstOfOther \/ seen = 0 THEN [n EXCEPT !.peer[p].toGet = ids]
             ELSE [n EXCEPT !.peer[p].toGet = SubSeq(ids, seen + 1, Len(ids)),
                            !.peer[p].seen = ids[seen]]
        ELSE IF common = {}
        THEN [n EXCEPT !.peer[p].toGet = Tail(ids), !.peer[p].seen = ids[1]]
        ELSE [n EXCEPT !.peer[p].toGet = SubSeq(q.toGet, 1, Max(common) - 1) \o ids]
  BY DEF Listed
<1> HIDE DEF firstOfOther
<1>3. /\ Follow(q.toGet, K) /\ q.seen \in K \cup {None}
      /\ q.seen \in n.have \cup ChainOf(p) \cup {None}
  BY DEF PlaceOK
<1>4. /\ K \subseteq Blocks /\ \A b \in K : Parent[b] \in K \cup {None}
      /\ n.have \subseteq K
  BY SettledFacts, ChainGround DEF Ground
<1>5. seen \in 0 .. Len(ids) /\ \A j \in 1 .. seen : ids[j] \in n.have
  <2>1. T \subseteq 0 .. Len(ids) /\ 0 \in T
    BY <1>1
  <2>2. \A i \in T : \A j \in 1 .. i : ids[j] \in n.have
    OBVIOUS
  <2> HIDE DEF T
  <2>3. Max(T) \in T
    BY <1>1, <2>1, MinMax
  <2> QED
    BY <2>1, <2>2, <2>3
<1> HIDE DEF T, seen, m, K
<1>6. \A list \in Seq(Blocks), b \in Blocks \cup {None} :
        /\ Relisted(n, n, p, q.toGet, q.seen)
        /\ Relisted([n EXCEPT !.peer[p].toGet = list], n, p, list, q.seen)
        /\ Relisted([n EXCEPT !.peer[p].toGet = list, !.peer[p].seen = b], n, p, list, b)
  BY <1>1, NewLists
<1>7. ids # <<>> => ids[1] \in ToSet(ids) /\ ids[1] \in Blocks /\ 1 \in 1 .. Len(ids)
  BY <1>1 DEF ToSet
<1>8. CASE ids = <<>>
  <2>1. Relisted(n, n, p, q.toGet, q.seen)
    BY <1>1, <1>6
  <2>2. Placed(q.toGet, q.seen)
    BY <1>2, <1>3, <1>8, <2>1
  <2> QED
    BY <2>2 DEF K, m
<1>9. CASE ids # <<>> /\ q.toGet = <<>> /\ (firstOfOther \/ seen = 0)
  <2>1. m = [n EXCEPT !.peer[p].toGet = ids]
    BY <1>2, <1>9
  <2>2. Relisted(m, n, p, ids, q.seen)
    BY <1>1, <1>6, <2>1
  <2>3. ToSet(q.toGet) = {}
    BY <1>9 DEF ToSet
  <2>4. Parent[ids[1]] \in K \cup {None}
    BY <1>4, <1>9, <2>3 DEF Follows, K
  <2>5. Follow(ids, K)
    BY <2>4 DEF Follow, InRow
  <2>6. Placed(ids, q.seen)
    BY <1>3, <2>2, <2>5
  <2> QED
    BY <2>6 DEF K, m
<1>10. CASE ids # <<>> /\ q.toGet = <<>> /\ ~(firstOfOther \/ seen = 0)
  <2> DEFINE s == SubSeq(ids, seen + 1, Len(ids))
             b == ids[seen]
  <2>1. /\ seen + 1 \in 1 .. Len(ids) + 1 /\ Len(ids) \in 0 .. Len(ids) /\ seen \in 1 .. seen
        /\ (seen + 1 <= Len(ids) => seen \in 1 .. Len(ids) - 1)
    BY <1>1, <1>5, <1>10
  <2>2. b \in n.have
    BY <1>5, <2>1
  <2>3. seen + 1 <= Len(ids) => Parent[ids[seen + 1]] = b
    BY <2>1 DEF InRow
  <2>4. seen + 1 <= Len(ids) => Parent[ids[seen + 1]] \in K \cup {None}
    BY <1>4, <2>2, <2>3
  <2>5. Follow(s, K)
    BY <2>1, <2>4, PartFollows
  <2>6. s \in Seq(Blocks) /\ b \in Blocks \cup {None} /\ b \in K
    BY <1>4, <2>1, <2>2, PartOf
  <2>7. m = [n EXCEPT !.peer[p].toGet = s, !.peer[p].seen = b]
    BY <1>2, <1>10
  <2> HIDE DEF s, b
  <2>8. Relisted(m, n, p, s, b)
    BY <1>6, <2>6, <2>7
  <2>9. Placed(s, b)
    BY <2>2, <2>5, <2>6, <2>8
  <2> QED
    BY <2>9 DEF K, m
<1>11. CASE ids # <<>> /\ q.toGet # <<>> /\ common = {}
  <2> DEFINE s == Tail(ids)
             b == ids[1]
  <2>1. b \notin ToSet(q.toGet)
    BY <1>1, <1>11 DEF ToSet
  <2>2. b \in K /\ b \in ChainOf(p)
    BY <1>7, <1>11, <2>1 DEF Follows, K
  <2>3. s \in Seq(Blocks)
    BY <1>11
  <2>7. Follow(s, K)
    BY <1>11, <2>2, TailFollows
  <2>8. m = [n EXCEPT !.peer[p].toGet = s, !.peer[p].seen = b]
    BY <1>2, <1>11
  <2> HIDE DEF s, b
  <2>9. Relisted(m, n, p, s, b)
    BY <1>4, <1>6, <2>2, <2>3, <2>8
  <2>10. Placed(s, b)
    BY <2>2, <2>7, <2>9
  <2> QED
    BY <2>10 DEF K, m
<1>12. CASE ids # <<>> /\ q.toGet # <<>> /\ common # {}
  <2> DEFINE e == Max(common)
             s == SubSeq(q.toGet, 1, e - 1)
  <2>1. e \in 1 .. Len(q.toGet) /\ q.toGet[e] = ids[1]
    <3>1. common \subseteq 0 .. Len(q.toGet) /\ common \subseteq 1 .. Len(q.toGet)
      BY <1>1
    <3>2. \A i \in common : q.toGet[i] = ids[1]
      OBVIOUS
    <3> HIDE DEF common, q
    <3>3. Max(common) \in common
      BY <1>1, <1>12, <3>1, MinMax
    <3> QED
      BY <3>1, <3>2, <3>3
  <2>2. m = [n EXCEPT !.peer[p].toGet = s \o ids]
    BY <1>2, <1>12
  <2> HIDE DEF e, common
  <2>3. 1 \in 1 .. Len(q.toGet) + 1 /\ e - 1 \in 0 .. Len(q.toGet)
    BY <1>1, <2>1
  <2>4. s \in Seq(Blocks)
    BY <1>1, <2>3, PartOf
  <2>5. InRow(q.toGet) /\ Parent[q.toGet[1]] \in K \cup {None}
    BY <1>3, <1>12 DEF Follow, InRow
  <2>6. Follow(s, K)
    BY <1>1, <2>3, <2>5, PartFollows
  <2>7. IF s = <<>> THEN Parent[ids[1]] \in K \cup {None} ELSE Parent[ids[1]] = s[Len(s)]
    <3>1. CASE e = 1
      <4>1. e - 1 < 1
        BY <3>1
      <4>2. s = <<>>
        BY <1>1, <2>3, <4>1, PartOf
      <4> QED
        BY <2>1, <2>5, <3>1, <4>2
    <3>2. CASE e # 1
      <4>1. e - 1 \in 1 .. Len(q.toGet) - 1 /\ (e - 1) + 1 = e
        BY <1>1, <2>1, <3>2
      <4>2. Len(s) = e - 1 /\ s # <<>> /\ s[e - 1] = q.toGet[e - 1]
        BY <1>1, <2>1, <4>1
      <4>3. Parent[q.toGet[e]] = q.toGet[e - 1]
        BY <2>5, <4>1 DEF InRow
      <4> QED
        BY <2>1, <4>2, <4>3
    <3> QED
      BY <3>1, <3>2
  <2> HIDE DEF s, q
  <2>8. Follow(s \o ids, K)
    BY <1>12, <2>4, <2>6, <2>7, JoinFollows
  <2>9. s \o ids \in Seq(Blocks)
    BY <2>4
  <2>10. Relisted(m, n, p, s \o ids, q.seen)
    BY <1>1, <1>6, <2>2, <2>9
  <2>11. Placed(s \o ids, q.seen)
    BY <1>3, <2>8, <2>10
  <2> QED
    BY <2>11 DEF K, m
<1> QED
  BY <1>8, <1>9, <1>10, <1>11, <1>12

LEMMA FirstBlock ==
    ASSUME NEW b \in Blocks, Number(b) = 1
    PROVE  Parent[b] = None
<1> DEFINE a == Parent[b]
<1>1. b # None /\ a \in Blocks \cup {None} /\ Path[b] = Append(Path[a], b)
  BY NodeSyncAssumption, PathFacts
<1> HIDE DEF a
<1>2. Path[a] \in Seq(Blocks)
  BY <1>1, PathFacts
<1>3. Number(a) = 0
  BY <1>1, <1>2 DEF Number
<1>4. a \in Blocks => Number(a) # 0
  BY BlockNumber
<1> QED
  BY <1>1, <1>3, <1>4 DEF a

LEMMA DoneGood ==
    ASSUME NEW n, NEW p \in Peers, GoodBut(n, p), IdleOK(n.peer[p], p, n.have)
    PROVE  Good(n)
<1>1. PeerGood(n.peer[p], p, n.have, Settled(n))
  BY DEF PeerGood, GoodBut
<1> QED
  BY <1>1 DEF Good, GoodBut

\* A peer whose answer is taken
AnswerTaken(n, p, s, reply) ==
    LET q == n.peer[p] IN
    /\ NodeOK(n) /\ ChainGood(n) /\ q.conn # "none"
    /\ \A o \in Peers \ {p} : PeerGood(n.peer[o], o, n.have, Settled(n))
    /\ ListOK(q, Settled(n)) /\ SentOK(q, p, n.have) /\ SummaryOK(s, p, n.have)
    /\ q.conn = "active" /\ ~q.twice => q.asked = {s} /\ IdsIn(q.out) = {}
    /\ q.conn = "active" /\ Idle(q) =>
         s \subseteq n.have /\ \A i \in IdsIn(q.out) : q.out[i].synopsis \subseteq n.have
    /\ reply = Reply(Path[tip[p]], s) /\ q.inSync = InSync(reply, s)

\* The peer tells of one block the chain has, or has none.
LEMMA NothingNew ==
    ASSUME WorldOK, NEW n, NEW p \in Peers, NEW s, NEW reply, AnswerTaken(n, p, s, reply),
           \/ reply.ids = <<>>
           \/ Len(reply.ids) = 1 /\ reply.ids[1] \in n.have
    PROVE  tip[p] \in n.have \cup {None} /\ ChainOf(p) \subseteq n.have
<1>1. n.have \subseteq Blocks /\ Ground(n.head, n.have, Settled(n))
  BY ChainGround DEF AnswerTaken
<1>2. tip[p] \in Blocks \cup {None}
  BY DEF WorldOK
<1>3. tip[p] \in n.have \cup {None}
  <2>1. CASE reply.ids = <<>>
    BY <1>1, <2>1, SummaryAnswered DEF AnswerTaken
  <2>2. CASE Len(reply.ids) = 1 /\ reply.ids[1] \in n.have
    BY <1>2, <2>2, ReplyOrder DEF AnswerTaken
  <2> QED
    BY <2>1, <2>2
<1>4. tip[p] = None => ChainOf(p) = {}
  <2>1. tip[p] = None => Path[tip[p]] = <<>>
    BY PathFacts
  <2> QED
    BY <2>1 DEF ChainOf, ToSet
<1> QED
  BY <1>1, <1>3, <1>4 DEF Ground, ChainOf

\* An answer nobody waits for
LEMMA LateAnswer ==
    ASSUME WorldOK, NEW n, NEW p \in Peers, NEW s, NEW reply, AnswerTaken(n, p, s, reply),
           n.peer[p].asked = {}
    PROVE  Good(n)
<1> DEFINE q == n.peer[p]
<1>1. /\ NodeOK(n) /\ ChainGood(n) /\ ListOK(q, Settled(n)) /\ SentOK(q, p, n.have)
      /\ q.conn = "active" => q.twice
      /\ q.inSync = InSync(reply, s)
      /\ \A o \in Peers \ {p} : PeerGood(n.peer[o], o, n.have, Settled(n))
  BY DEF AnswerTaken
<1>2. SummariesOK(q, p, n.have)
  BY <1>1 DEF SummariesOK, OnceOK
<1>3. ASSUME q.conn = "active", Idle(q) PROVE q.inSync => tip[p] \in n.have \cup {None}
  <2>1. s \subseteq n.have
    BY <1>3 DEF AnswerTaken
  <2>2. q.inSync => \/ reply.ids = <<>>
                    \/ Len(reply.ids) = 1 /\ reply.ids[1] \in n.have
    BY <1>1, <2>1 DEF InSync
  <2> QED
    BY <2>2, NothingNew
<1>4. IdleOK(q, p, n.have)
  BY <1>1, <1>3 DEF IdleOK, AnswerTaken
<1> QED
  BY <1>1, <1>2, <1>4, DoneGood DEF GoodBut

LEMMA OnIdsGood ==
    ASSUME WorldOK, NEW n, NEW p \in Peers, NEW s, NEW reply, AnswerTaken(n, p, s, reply)
    PROVE  Good(OnIds(n, p, reply))
<1> DEFINE q == n.peer[p]
           ids == reply.ids
           asked == CHOOSE x \in q.asked : TRUE
           valid == ids # <<>> => IF asked = {} THEN Number(ids[1]) = 1 ELSE ids[1] \in asked
           taken  == [n EXCEPT !.peer[p].asked = {}]
           list   == Listed(taken, p, reply.ids)
           listed == [list EXCEPT !.peer[p].unfetched = reply.left]
           idle   == [taken EXCEPT !.peer[p].weNeed = FALSE]
           enough == IF reply.left # 0 THEN Len(listed.peer[p].toGet) > MinPrefetch
                     ELSE listed.peer[p].toGet # <<>>
           H == n.have
           K == Settled(n)
<1>1. /\ NodeOK(n) /\ ChainGood(n) /\ ListOK(q, K) /\ SentOK(q, p, H) /\ n \in Nodes
      /\ q \in Connections /\ Joined(q, p) /\ q.conn # "none" /\ SummaryOK(s, p, H)
      /\ reply = Reply(Path[tip[p]], s) /\ ToSet(q.toGet) \subseteq ChainOf(p)
      /\ q.inSync = InSync(reply, s)
      /\ q.conn = "active" /\ ~q.twice => q.asked = {s} /\ IdsIn(q.out) = {}
      /\ \A o \in Peers \ {p} : PeerGood(n.peer[o], o, n.have, Settled(n))
  BY JoinedPeer DEF AnswerTaken, NodeOK, Joined, PeerOK
<1>2. /\ ids \in Seq(Blocks) /\ InRow(ids) /\ ToSet(ids) \subseteq ChainOf(p)
      /\ reply.left \in Nat
  <2>1. tip[p] \in Blocks \cup {None}
    BY DEF WorldOK
  <2>2. ids \in Seq(Blocks) /\ ToSet(ids) \subseteq ChainOf(p) /\ reply.left \in Nat
    BY <1>1, <2>1, ReplyFacts DEF ChainOf
  <2>3. InRow(ids)
    BY <1>1, <2>1, ReplyOrder
  <2> QED
    BY <2>2, <2>3
<1>3. q.asked # {} => asked \in q.asked
  OBVIOUS
<1> HIDE DEF asked
<1> DEFINE r == [q EXCEPT !.asked = {}]
           r2 == [q EXCEPT !.asked = {}, !.weNeed = FALSE]
<1>4. /\ taken \in Nodes /\ SameChain(taken, n) /\ taken.peer[p] = r
      /\ \A o \in Peers : o # p => taken.peer[o] = n.peer[o]
      /\ idle = [n EXCEPT !.peer[p] = r2]
  <2>1. r \in Connections /\ taken = [n EXCEPT !.peer[p] = r]
    BY <1>1 DEF Nodes, Connections
  <2>2. idle = [n EXCEPT !.peer[p] = r2]
    BY <1>1 DEF Nodes, Connections
  <2> HIDE DEF r, taken, idle
  <2>3. /\ taken \in Nodes /\ SameChain(taken, n) /\ taken.peer[p] = r
        /\ \A o \in Peers : o # p => taken.peer[o] = n.peer[o]
    BY <1>1, <2>1 DEF Nodes, SameChain
  <2> QED
    BY <2>2, <2>3
<1>5. /\ r.toGet = q.toGet /\ r.seen = q.seen /\ r.asked = {} /\ r.out = q.out
      /\ r.twice = q.twice /\ r.conn = q.conn /\ r.unfetched = q.unfetched
      /\ r \in Connections /\ SameOwed(r, q)
  BY <1>1 DEF Connections, SameOwed
<1>6. /\ r2.toGet = q.toGet /\ r2.seen = q.seen /\ r2.asked = {} /\ r2.out = q.out
      /\ r2.twice = q.twice /\ r2.conn = q.conn /\ r2.inSync = q.inSync
      /\ r2 \in Connections /\ SameOwed(r2, q)
  BY <1>1 DEF Connections, SameOwed
<1>7. taken = [n EXCEPT !.peer[p] = r]
  BY <1>1 DEF Nodes, Connections
<1> HIDE DEF r, r2
<1>8. NodeOK(taken) /\ NodeOK(idle)
  <2>1. Kept(r, q, p) /\ Kept(r2, q, p)
    BY <1>1, <1>5, <1>6, OtherFields
  <2>2. Called([n EXCEPT !.peer[p] = r], n) /\ Called([n EXCEPT !.peer[p] = r2], n)
    BY <1>1, <2>1, OnePeerCalled
  <2> QED
    BY <1>4, <1>7, <2>2 DEF Called
<1>9. OnIds(n, p, reply) =
        IF q.asked = {} THEN n
        ELSE IF ~valid THEN Disconnect(n, {p})
        ELSE IF UpToDate(taken, p, reply) THEN idle
        ELSE IF enough THEN [listed EXCEPT !.fetch = TRUE]
        ELSE FetchNextBatch(listed, p)
  BY DEF OnIds, asked
<1> HIDE DEF taken, idle
<1>10. CASE q.asked = {}
  BY <1>9, <1>10, LateAnswer
<1>11. CASE q.asked # {} /\ ~valid
  <2>1. OnIds(n, p, reply) = Disconnect(n, {p})
    BY <1>9, <1>11
  <2>2. \A o \in Peers : ListOK(n.peer[o], Settled(n)) /\ SentOK(n.peer[o], o, n.have)
    BY <1>1 DEF PeerGood, SummariesOK
  <2>3. Good(Disconnect(n, {p}))
    BY <1>1, <2>2, DisconnectGood
  <2> QED
    BY <2>1, <2>3
<1>12. CASE q.asked # {} /\ valid /\ UpToDate(taken, p, reply)
  <2>1. OnIds(n, p, reply) = [n EXCEPT !.peer[p] = r2]
    BY <1>4, <1>9, <1>12
  <2>2. ids = <<>> \/ (Len(ids) = 1 /\ ids[1] \in n.have)
    BY <1>4, <1>12 DEF UpToDate, SameChain
  <2>3. tip[p] \in H \cup {None} /\ ChainOf(p) \subseteq H
    BY <2>2, NothingNew
  <2>4. ListOK(r2, K)
    BY <1>1, <1>6 DEF ListOK, PlaceOK
  <2>5. SummariesOK(r2, p, H)
    BY <1>1, <1>6 DEF SummariesOK, SentOK, OnceOK
  <2>6. \A i \in IdsIn(r2.out) : r2.out[i].synopsis \subseteq H
    BY <2>3, <2>5 DEF SummariesOK, SentOK, SummaryOK
  <2>7. ASSUME q.conn = "active", ~q.inSync, ~q.twice PROVE world.own = None
    <3>1. asked = s
      BY <1>1, <1>3, <2>7
    <3>2. ids # <<>> /\ Len(ids) = 1 /\ ids[1] \notin s
      BY <1>1, <2>2, <2>7 DEF InSync
    <3>3. s = {}
      BY <1>12, <3>1, <3>2
    <3> QED
      BY <1>1, <3>3 DEF SummaryOK
  <2>8. IdleOK(r2, p, H)
    BY <1>6, <2>3, <2>6, <2>7 DEF IdleOK
  <2>9. PeerGood(r2, p, H, K)
    BY <2>4, <2>5, <2>8 DEF PeerGood
  <2>10. idle.have = H /\ Settled(idle) = K /\ ChainGood(idle)
         /\ \A o \in Peers : idle.peer[o] = IF o = p THEN r2 ELSE n.peer[o]
    <3>1. SameChain(idle, n) /\ \A o \in Peers : idle.peer[o] = IF o = p THEN r2 ELSE n.peer[o]
      BY <1>1, <1>4 DEF Nodes, SameChain
    <3> QED
      BY <1>1, <3>1, SameSettled DEF SameChain
  <2>11. \A o \in Peers : PeerGood(idle.peer[o], o, idle.have, Settled(idle))
    BY <1>1, <2>9, <2>10
  <2> QED
    BY <1>4, <1>8, <2>1, <2>10, <2>11 DEF Good
<1>13. CASE q.asked # {} /\ valid /\ ~UpToDate(taken, p, reply)
  <2>1. /\ taken.have = H /\ Settled(taken) = K /\ ChainGood(taken) /\ taken.peer[p].conn # "none"
        /\ PlaceOK(taken.peer[p], K) /\ taken.peer[p].seen \in H \cup ChainOf(p) \cup {None}
    BY <1>1, <1>4, <1>5, SameSettled DEF SameChain, ListOK, PlaceOK, SentOK
  <2>2. Follows(taken, p, ids)
    <3> SUFFICES ASSUME ids # <<>>
                 PROVE  \/ ids[1] \in K \cup ToSet(q.toGet)
                        \/ q.toGet = <<>> /\ Parent[ids[1]] = None
      BY <1>4, <1>5, <2>1 DEF Follows
    <3>1. asked \subseteq K \cup ToSet(q.toGet) /\ (asked = {} => q.toGet = <<>>)
      BY <1>1, <1>3, <1>13 DEF ListOK
    <3>2. CASE asked = {}
      <4>1. Number(ids[1]) = 1 /\ ids[1] \in Blocks
        BY <1>2, <1>13, <3>2
      <4> QED
        BY <3>1, <3>2, <4>1, FirstBlock
    <3>3. CASE asked # {}
      BY <1>13, <3>1, <3>3
    <3> QED
      BY <3>2, <3>3
  <2>3. PICK l, seen : /\ Relisted(list, taken, p, l, seen)
                       /\ Follow(l, K) /\ seen \in K \cup {None}
                       /\ seen \in H \cup ChainOf(p) \cup {None}
    BY <1>2, <1>8, <2>1, <2>2, ListedPlaced
  <2>4. Called(list, taken)
    BY <1>2, <1>8, <2>1, ListedOK
  <2>5. NodeOK(list) /\ list.peer[p].conn # "none" /\ list \in Nodes
    BY <2>1, <2>4 DEF Called, NodeOK
  <2> HIDE DEF list
  <2> DEFINE o2 == list.peer[p]
             u == [o2 EXCEPT !.unfetched = reply.left]
  <2>6. Joined(o2, p) /\ o2 \in Connections /\ ToSet(o2.toGet) \subseteq ChainOf(p)
    BY <2>5, JoinedPeer DEF Joined, PeerOK
  <2>7. /\ u \in Connections /\ SameOwed(u, o2) /\ u.toGet = l /\ u.seen = seen
        /\ u.asked = {} /\ u.out = q.out /\ u.twice = q.twice /\ u.conn = q.conn
        /\ u.toGet = o2.toGet
    <3>1. /\ u \in Connections /\ SameOwed(u, o2) /\ u.toGet = o2.toGet /\ u.seen = o2.seen
          /\ u.asked = o2.asked /\ u.out = o2.out /\ u.twice = o2.twice /\ u.conn = o2.conn
      BY <1>2, <2>6 DEF Connections, SameOwed
    <3> HIDE DEF u
    <3> QED
      BY <1>4, <1>5, <2>3, <3>1 DEF Relisted
  <2>8. listed = [list EXCEPT !.peer[p] = u]
    BY <2>5 DEF Nodes, Connections
  <2> HIDE DEF u, o2
  <2>9. Called(listed, list)
    <3>1. Kept(u, o2, p)
      BY <2>6, <2>7, OtherFields
    <3> QED
      BY <2>5, <2>8, <3>1, OnePeerCalled DEF o2
  <2>10. /\ listed.peer[p] = u /\ SameChain(listed, list)
         /\ \A o \in Peers : o # p => listed.peer[o] = list.peer[o]
    BY <2>5, <2>8 DEF Nodes, SameChain
  <2> HIDE DEF listed
  <2>11. /\ NodeOK(listed) /\ listed.peer[p].conn # "none" /\ listed.have = H
         /\ Settled(listed) = K /\ ChainGood(listed)
         /\ \A o \in Peers : o # p => listed.peer[o] = n.peer[o]
    <3>1. SameChain(listed, n)
      BY <1>4, <2>3, <2>10 DEF Relisted, SameChain
    <3>2. NodeOK(listed) /\ listed.peer[p].conn # "none"
      BY <2>5, <2>9 DEF Called
    <3>3. \A o \in Peers : o # p => listed.peer[o] = n.peer[o]
      BY <1>4, <2>3, <2>10 DEF Relisted
    <3> QED
      BY <1>1, <3>1, <3>2, <3>3, SameSettled DEF SameChain
  <2>12. ListOK(u, K)
    BY <2>3, <2>7 DEF ListOK, PlaceOK
  <2>13. SummariesOK(u, p, H)
    BY <1>1, <2>3, <2>7 DEF SummariesOK, SentOK, OnceOK
  <2>14. GoodBut(listed, p)
    BY <1>1, <2>10, <2>11, <2>12, <2>13 DEF GoodBut
  <2>15. CASE enough
    <3>1. listed.peer[p].toGet # <<>>
      <4>1. CASE reply.left = 0
        BY <2>15, <4>1
      <4>2. CASE reply.left # 0
        <5>1. Len(listed.peer[p].toGet) > MinPrefetch /\ MinPrefetch \in Nat
          BY <2>15, <4>2, NodeSyncAssumption
        <5>2. listed.peer[p].toGet = <<>> => Len(listed.peer[p].toGet) = 0
          OBVIOUS
        <5> QED
          BY <5>1, <5>2
      <4> QED
        BY <4>1, <4>2
    <3>2. IdleOK(listed.peer[p], p, listed.have)
      BY <3>1 DEF IdleOK, Idle
    <3>3. Good(listed)
      BY <2>14, <3>2, DoneGood
    <3>4. Good([listed EXCEPT !.fetch = TRUE])
      BY <3>3, FlagGood
    <3> QED
      BY <1>9, <1>13, <2>15, <3>4
  <2>16. CASE ~enough
    <3>1. Good(FetchNextBatch(listed, p))
      BY <2>11, <2>14, FetchNextBatchGood
    <3> QED
      BY <1>9, <1>13, <2>16, <3>1
  <2> QED
    BY <2>15, <2>16
<1> QED
  BY <1>10, <1>11, <1>12, <1>13

\* The rest of what a peer sends, after its first message
LEMMA RestOut ==
    ASSUME NEW q \in Connections, q.out # <<>>
    PROVE  /\ \A i \in IdsIn(Tail(q.out)) : i + 1 \in IdsIn(q.out) /\ i \in Nat \ {0}
                                             /\ Tail(q.out)[i] = q.out[i + 1]
           /\ \A i \in IdsIn(q.out) : i # 1 => i - 1 \in IdsIn(Tail(q.out)) /\ i \in Nat
           /\ 1 \in IdsIn(q.out) <=> Head(q.out).kind = "ids"
           /\ Head(q.out) = q.out[1]
<1> DEFINE out == q.out
           t == Tail(out)
<1>1. out \in Seq(Messages) /\ Len(out) \in Nat /\ Len(out) >= 1 /\ Head(out) = out[1]
      /\ DOMAIN out = 1 .. Len(out)
  BY DEF Connections
<1>2. /\ t \in Seq(Messages) /\ Len(t) = Len(out) - 1 /\ DOMAIN t = 1 .. Len(out) - 1
      /\ \A i \in 1 .. Len(out) - 1 : t[i] = out[i + 1]
  BY <1>1
<1> HIDE DEF t, out
<1>3. ASSUME NEW i \in IdsIn(t)
      PROVE  i + 1 \in IdsIn(out) /\ i \in Nat \ {0} /\ t[i] = out[i + 1]
  <2>1. i \in 1 .. Len(out) - 1 /\ t[i].kind = "ids"
    BY <1>2, <1>3 DEF IdsIn
  <2>2. i + 1 \in DOMAIN out /\ i \in Nat \ {0} /\ t[i] = out[i + 1]
    BY <1>1, <1>2, <2>1
  <2> QED
    BY <2>1, <2>2 DEF IdsIn
<1>4. ASSUME NEW i \in IdsIn(out), i # 1 PROVE i - 1 \in IdsIn(t) /\ i \in Nat
  <2>1. i \in 1 .. Len(out) /\ out[i].kind = "ids"
    BY <1>1 DEF IdsIn
  <2>2. i - 1 \in 1 .. Len(out) - 1 /\ (i - 1) + 1 = i /\ i \in Nat
    BY <1>1, <1>4, <2>1
  <2>3. t[i - 1] = out[i]
    BY <1>2, <2>2
  <2> QED
    BY <1>2, <2>1, <2>2, <2>3 DEF IdsIn
<1>5. 1 \in IdsIn(out) <=> Head(out).kind = "ids"
  <2>1. 1 \in DOMAIN out
    BY <1>1
  <2> QED
    BY <1>1, <2>1 DEF IdsIn
<1> QED
  BY <1>1, <1>3, <1>4, <1>5 DEF t, out

\* Where it has no ids, nothing changes of the summaries that are on their way.
LEMMA TakenGood ==
    ASSUME NEW p, NEW H, NEW K, NEW q \in Connections, PeerGood(q, p, H, K), q.out # <<>>,
           Head(q.out).kind # "ids"
    PROVE  PeerGood(Taken(q), p, H, K)
<1> DEFINE t == Tail(q.out)
           r == Taken(q)
<1>1. /\ \A i \in IdsIn(t) : i + 1 \in IdsIn(q.out) /\ i \in Nat \ {0} /\ t[i] = q.out[i + 1]
      /\ \A i \in IdsIn(q.out) : i - 1 \in IdsIn(t) /\ i \in Nat
  <2>1. 1 \notin IdsIn(q.out)
    BY RestOut
  <2> QED
    BY <2>1, RestOut
<1>2. /\ r.toGet = q.toGet /\ r.asked = q.asked /\ r.twice = q.twice /\ r.seen = q.seen
      /\ r.conn = q.conn /\ r.out = t /\ r.inSync = q.inSync /\ r.offered = q.offered
      /\ (Idle(r) <=> Idle(q))
  BY DEF Connections, Taken, Idle
<1> HIDE DEF r, t
<1>3. ListOK(r, K)
  BY <1>2 DEF PeerGood, ListOK, PlaceOK
<1>4. SentOK(r, p, H)
  BY <1>1, <1>2 DEF PeerGood, SummariesOK, SentOK
<1>5. ASSUME r.conn = "active", ~r.twice
      PROVE  \/ r.asked = {} /\ IdsIn(r.out) = {}
             \/ \E i \in IdsIn(r.out) : IdsIn(r.out) = {i} /\ r.asked = {r.out[i].synopsis}
  <2>1. CASE q.asked = {} /\ IdsIn(q.out) = {}
    BY <1>1, <1>2, <2>1
  <2>2. ASSUME NEW i \in IdsIn(q.out), IdsIn(q.out) = {i}, q.asked = {q.out[i].synopsis}
        PROVE  \E j \in IdsIn(t) : IdsIn(t) = {j} /\ q.asked = {t[j].synopsis}
    <3>1. i - 1 \in IdsIn(t) /\ i \in Nat /\ (i - 1) + 1 = i
      BY <1>1
    <3>2. t[i - 1] = q.out[i]
      BY <1>1, <3>1
    <3>3. \A j \in IdsIn(t) : j = i - 1
      BY <1>1, <2>2, <3>1
    <3>4. IdsIn(t) = {i - 1}
      BY <3>1, <3>3
    <3> QED
      BY <2>2, <3>1, <3>2, <3>4
  <2> QED
    BY <1>2, <1>5, <2>1, <2>2 DEF PeerGood, SummariesOK, OnceOK
<1>6. IdleOK(r, p, H)
  BY <1>1, <1>2 DEF PeerGood, IdleOK
<1> QED
  BY <1>3, <1>4, <1>5, <1>6 DEF PeerGood, SummariesOK, OnceOK, r

-----------------------------------------------------------------------------
(* The actions again *)

\* The answer to a summary is taken from what a peer sends.
LEMMA AnswerArrived ==
    ASSUME SyncInv, Good(node), NEW p \in Peers, ReceiveIds(p)
    PROVE  \E n, s, reply :
              /\ node' = OnIds(n, p, reply) /\ AnswerTaken(n, p, s, reply)
              /\ \A o \in Peers : o # p => n.peer[o] = node.peer[o]
              /\ n.peer[p] = [node.peer[p] EXCEPT !.out = Tail(@), !.inSync = InSync(reply, s)]
<1> DEFINE q == node.peer[p]
           s == Head(q.out).synopsis
           reply == Reply(Path[tip[p]], s)
           inSync == InSync(reply, s)
           r == [q EXCEPT !.out = Tail(@), !.inSync = inSync]
           n == [node EXCEPT !.peer[p].out = Tail(@), !.peer[p].inSync = inSync]
           H == node.have
           K == Settled(node)
<1>1. Joined(q, p) /\ q.out # <<>> /\ NodeOK(node) /\ q \in Connections /\ node \in Nodes
      /\ q.conn # "none" /\ Head(q.out).kind = "ids" /\ WorldOK /\ ChainGood(node)
      /\ PeerGood(q, p, H, K)
  BY Sending, GoodPeer DEF ReceiveIds, SyncInv, Good
<1>2. node' = OnIds(n, p, reply)
  BY DEF ReceiveIds
<1>3. inSync \in BOOLEAN
  BY DEF InSync
<1>4. n = [node EXCEPT !.peer[p] = r]
  BY <1>1 DEF Nodes, Connections
<1> HIDE DEF inSync
<1>5. /\ \A i \in IdsIn(Tail(q.out)) : i + 1 \in IdsIn(q.out) /\ i \in Nat \ {0}
                                        /\ Tail(q.out)[i] = q.out[i + 1]
      /\ 1 \in IdsIn(q.out) /\ s = q.out[1].synopsis
  BY <1>1, RestOut
<1>6. Kept(r, q, p)
  BY <1>1, <1>3, TakenOK
<1>7. /\ r.toGet = q.toGet /\ r.asked = q.asked /\ r.twice = q.twice /\ r.seen = q.seen
      /\ r.conn = q.conn /\ r.out = Tail(q.out) /\ r.inSync = inSync
      /\ (Idle(r) <=> Idle(q))
  BY <1>1 DEF Connections, Idle
<1>16. r \in Connections
  BY <1>6 DEF Kept, Joined, PeerOK
<1> HIDE DEF r, n
<1>8. /\ n.peer[p] = r /\ SameChain(n, node)
      /\ \A o \in Peers : o # p => n.peer[o] = node.peer[o]
  BY <1>1, <1>4, <1>16 DEF Nodes, SameChain
<1>9. Called(n, node)
  BY <1>1, <1>4, <1>6, OnePeerCalled
<1> HIDE DEF s
<1>10. /\ NodeOK(n) /\ n.peer[p].conn # "none" /\ n.have = H /\ Settled(n) = K /\ ChainGood(n)
  BY <1>1, <1>8, <1>9, SameSettled DEF Called, SameChain
<1>11. ListOK(r, K) /\ SentOK(r, p, H) /\ SummaryOK(s, p, H)
  <2>1. ListOK(q, K) /\ SentOK(q, p, H)
    BY <1>1 DEF PeerGood, SummariesOK
  <2> HIDE DEF q, H, K
  <2>2. ListOK(r, K)
    BY <1>7, <2>1 DEF ListOK, PlaceOK
  <2>3. SentOK(r, p, H)
    BY <1>5, <1>7, <2>1 DEF SentOK
  <2>4. SummaryOK(s, p, H)
    BY <1>5, <2>1 DEF SentOK
  <2> QED
    BY <2>2, <2>3, <2>4
<1>12. r.conn = "active" /\ ~r.twice => r.asked = {s} /\ IdsIn(r.out) = {}
  <2> SUFFICES ASSUME q.conn = "active", ~q.twice
               PROVE  q.asked = {s} /\ IdsIn(Tail(q.out)) = {}
    BY <1>7
  <2>1. PICK i \in IdsIn(q.out) : IdsIn(q.out) = {i} /\ q.asked = {q.out[i].synopsis}
    BY <1>1, <1>5 DEF PeerGood, SummariesOK, OnceOK
  <2>2. i = 1
    BY <1>5, <2>1
  <2>3. ASSUME NEW j \in IdsIn(Tail(q.out)) PROVE FALSE
    <3>1. j + 1 = 1 /\ j \in Nat \ {0}
      BY <1>5, <2>1, <2>2
    <3> QED
      BY <3>1
  <2> QED
    BY <1>5, <2>1, <2>2, <2>3
<1>13. r.conn = "active" /\ Idle(r) =>
         s \subseteq H /\ \A i \in IdsIn(r.out) : r.out[i].synopsis \subseteq H
  BY <1>1, <1>5, <1>7 DEF PeerGood, IdleOK
<1>14. AnswerTaken(n, p, s, reply)
  <2>1. \A o \in Peers \ {p} : PeerGood(n.peer[o], o, n.have, Settled(n))
    BY <1>8, <1>10, GoodPeer
  <2> QED
    BY <1>7, <1>8, <1>10, <1>11, <1>12, <1>13, <2>1 DEF AnswerTaken, inSync
<1>15. n.peer[p] = [q EXCEPT !.out = Tail(@), !.inSync = InSync(reply, s)]
  BY <1>8 DEF r, inSync
<1> HIDE DEF q
<1> QED
  BY <1>2, <1>8, <1>14, <1>15 DEF q

LEMMA ReceiveIdsGood ==
    ASSUME SyncInv, Good(node), NEW p \in Peers, ReceiveIds(p)
    PROVE  Good(node')
<1>1. PICK n, s, reply : node' = OnIds(n, p, reply) /\ AnswerTaken(n, p, s, reply)
  BY AnswerArrived
<1> QED
  BY <1>1, OnIdsGood DEF SyncInv

\* A message is taken from a peer: the node in between
LEMMA TakenNode ==
    ASSUME SyncInv, Good(node), NEW p \in Peers, node.peer[p].out # <<>>,
           Head(node.peer[p].out).kind # "ids"
    PROVE  /\ Good([node EXCEPT !.peer[p].out = Tail(@)])
           /\ [node EXCEPT !.peer[p].out = Tail(@)].peer[p] = Taken(node.peer[p])
           /\ [node EXCEPT !.peer[p].out = Tail(@)].peer[p].conn # "none"
<1> DEFINE q == node.peer[p]
           n == [node EXCEPT !.peer[p].out = Tail(@)]
<1>1. Joined(q, p) /\ NodeOK(node) /\ q \in Connections /\ node \in Nodes
  BY Sending
<1>2. n = [node EXCEPT !.peer[p] = Taken(q)]
  BY <1>1 DEF Nodes, Connections, Taken
<1>3. Kept(Taken(q), q, p)
  <2>1. TRUE \in BOOLEAN
    OBVIOUS
  <2> QED
    BY <1>1, <2>1, TakenOK
<1> HIDE DEF n
<1>4. Called(n, node) /\ n.peer[p] = Taken(q)
  BY <1>1, <1>2, <1>3, OnePeerCalled
<1>5. PeerGood(Taken(q), p, node.have, Settled(node))
  BY <1>1, GoodPeer, TakenGood
<1>6. Good(n) /\ n.peer[p].conn # "none"
  BY <1>2, <1>3, <1>4, <1>5, OneGood DEF Called, Kept, Joined
<1> QED
  BY <1>4, <1>6 DEF n

LEMMA OnSyncBlockGood ==
    ASSUME WorldOK, NEW n, Good(n), NEW p \in Peers, n.peer[p].conn # "none",
           NEW b \in n.peer[p].requested,
           \A i \in BlocksIn(n.peer[p].out) : n.peer[p].out[i].block # b
    PROVE  Good(OnSyncBlock(n, p, b))
<1> DEFINE q == n.peer[p]
           r == [q EXCEPT !.requested = @ \ {b}]
           m == BlockArrived(n, p, b)
<1>1. n \in Nodes /\ NodeOK(n) /\ q \in Connections /\ PeerGood(q, p, n.have, Settled(n))
  BY GoodPeer DEF Good, NodeOK
<1>2. NodeOK(m)
  BY <1>1, OnSyncBlockOK
<1>3. SameChain(m, n) /\ \A o \in Peers : m.peer[o] = IF o = p THEN r ELSE n.peer[o]
  <2>1. r \in Connections /\ m = [n EXCEPT !.peer[p] = r, !.active = @ \ {b},
                                           !.fresh = <<b>> \o @, !.backlog = TRUE]
    BY <1>1 DEF Nodes, Connections, BlockArrived
  <2> HIDE DEF r, m
  <2> QED
    BY <1>1, <2>1 DEF Nodes, SameChain
<1>4. SameList(r, q) /\ r.conn = q.conn /\ (Idle(r) <=> Idle(q)) /\ r.inSync = q.inSync
      /\ r.offered = q.offered
  BY <1>1 DEF Connections, SameList, Idle
<1>5. OnSyncBlock(n, p, b) =
        IF Busy(m.peer[p]) THEN m
        ELSE IF m.peer[p].unfetched > 0 /\ Len(m.peer[p].toGet) < MinPrefetch
        THEN FetchNextBatch(m, p) ELSE [m EXCEPT !.fetch = TRUE]
  BY DEF OnSyncBlock, BlockArrived
<1> HIDE DEF m, r
<1>6. PeerGood(r, p, n.have, Settled(n))
  BY <1>1, <1>4, OthersGood
<1>7. \A o \in Peers : PeerGood(m.peer[o], o, n.have, Settled(n))
  BY <1>3, <1>6, GoodPeer
<1>8. Good(m) /\ m.peer[p].conn # "none"
  BY <1>2, <1>3, <1>4, <1>7, ChangedGood
<1>9. Good(FetchNextBatch(m, p)) /\ Good([m EXCEPT !.fetch = TRUE])
  BY <1>8, ButGood, FetchNextBatchGood, FlagGood
<1> QED
  BY <1>5, <1>8, <1>9

LEMMA ReceiveBlockGood ==
    ASSUME SyncInv, Good(node), NEW p \in Peers, ReceiveBlock(p)
    PROVE  Good(node')
<1> DEFINE q == node.peer[p]
           b == Head(q.out).block
           n == [node EXCEPT !.peer[p].out = Tail(@)]
<1>1. /\ Joined(q, p) /\ q.out # <<>> /\ Head(q.out).kind = "block" /\ WorldOK
  BY Sending DEF ReceiveBlock, SyncInv
<1>2. node' = OnSyncBlock(n, p, b)
  BY DEF ReceiveBlock
<1>3. b \in q.requested /\ \A i \in BlocksIn(Taken(q).out) : Taken(q).out[i].block # b
  <2>1. TRUE \in BOOLEAN
    OBVIOUS
  <2> QED
    BY <1>1, <2>1, TakenOK
<1>4. Good(n) /\ n.peer[p] = Taken(q) /\ n.peer[p].conn # "none"
  BY <1>1, TakenNode
<1>5. Taken(q).requested = q.requested
  BY <1>1 DEF Taken, Joined, PeerOK, Connections
<1> HIDE DEF n, b
<1>6. Good(OnSyncBlock(n, p, b))
  BY <1>1, <1>3, <1>4, <1>5, OnSyncBlockGood
<1> QED
  BY <1>2, <1>6

\* Blocks asked of a peer change nothing of what it was asked with.
LEMMA RequestSyncItemsGood ==
    ASSUME NEW n, Good(n), NEW p \in Peers
    PROVE  Good(RequestSyncItems(n, p))
<1> DEFINE q == n.peer[p]
           items == ItemsOf(n, p)
           more == [i \in DOMAIN items |-> [kind |-> "block", block |-> items[i]]]
           out == q.out \o more
           r == [q EXCEPT !.requested = ToSet(items), !.out = out]
           m == [n EXCEPT !.active = @ \cup ToSet(items), !.peer[p].requested = ToSet(items),
                          !.peer[p].out = @ \o more]
<1>1. /\ n \in Nodes /\ NodeOK(n) /\ q \in Connections /\ PeerGood(q, p, n.have, Settled(n))
      /\ q.out \in Seq(Messages) /\ Len(q.out) \in Nat /\ q.toGet \in Seq(Blocks)
  BY GoodPeer DEF Good, NodeOK, Connections
<1>2. RequestSyncItems(n, p) = IF ~q.weNeed \/ Busy(q) THEN n ELSE m
  BY DEF RequestSyncItems, ItemsOf
<1>3. items \in Seq(Blocks)
  BY <1>1, ItemsOfOK DEF Items
<1>4. NodeOK(RequestSyncItems(n, p))
  BY <1>1, RequestSyncItemsOK
<1> SUFFICES ASSUME ~(~q.weNeed \/ Busy(q)) PROVE Good(m)
  BY <1>2
<1>5. NodeOK(m)
  BY <1>2, <1>4
<1> HIDE DEF items
<1>6. /\ Len(more) \in Nat /\ more \in Seq(Messages)
      /\ \A i \in 1 .. Len(more) : more[i].kind = "block"
  <2>1. \A i \in DOMAIN items : [kind |-> "block", block |-> items[i]] \in Messages
    BY <1>3 DEF Messages
  <2> QED
    BY <1>3, <2>1
<1> HIDE DEF more
<1>7. IdsIn(out) = IdsIn(q.out) /\ \A i \in IdsIn(q.out) : out[i] = q.out[i]
  <2>1. /\ DOMAIN out = 1 .. Len(q.out) + Len(more)
        /\ \A i \in 1 .. Len(q.out) : out[i] = q.out[i]
        /\ DOMAIN q.out = 1 .. Len(q.out)
    <3> DEFINE s == q.out
    <3>1. s \in Seq(Messages)
      BY <1>1
    <3> HIDE DEF s
    <3>2. s \o more \in Seq(Messages) /\ Len(s \o more) = Len(s) + Len(more)
      BY <1>6, <3>1
    <3>3. \A i \in 1 .. Len(s) : (s \o more)[i] = s[i]
      BY <1>6, <3>1
    <3>4. DOMAIN (s \o more) = 1 .. Len(s) + Len(more) /\ DOMAIN s = 1 .. Len(s)
      BY <3>1, <3>2
    <3> QED
      BY <3>3, <3>4 DEF s
  <2>2. \A i \in 1 .. Len(more) : out[Len(q.out) + i] = more[i]
    <3> DEFINE s == q.out
    <3>1. s \in Seq(Messages)
      BY <1>1
    <3> HIDE DEF s
    <3>2. \A i \in 1 .. Len(more) : (s \o more)[Len(s) + i] = more[i]
      BY <1>6, <3>1
    <3> QED
      BY <3>2 DEF s
  <2> HIDE DEF out
  <2>3. ASSUME NEW i \in IdsIn(out) PROVE i \in 1 .. Len(q.out)
    <3>1. i \in 1 .. Len(q.out) + Len(more) /\ out[i].kind = "ids"
      BY <2>1 DEF IdsIn
    <3>2. ASSUME i > Len(q.out) PROVE FALSE
      <4> DEFINE j == i - Len(q.out)
      <4>1. j \in 1 .. Len(more) /\ i = Len(q.out) + j
        BY <1>1, <1>6, <3>1, <3>2
      <4> HIDE DEF j
      <4>2. out[i] = more[j]
        BY <2>2, <4>1
      <4>3. out[i].kind = "block"
        BY <1>6, <4>1, <4>2
      <4> QED
        BY <3>1, <4>3
    <3> QED
      BY <1>1, <1>6, <3>1, <3>2
  <2>4. \A i \in IdsIn(out) : i \in IdsIn(q.out)
    BY <2>1, <2>3 DEF IdsIn
  <2>5. \A i \in IdsIn(q.out) : i \in IdsIn(out)
    <3> SUFFICES ASSUME NEW i \in IdsIn(q.out) PROVE i \in IdsIn(out)
      OBVIOUS
    <3>1. i \in 1 .. Len(q.out) /\ q.out[i].kind = "ids"
      BY <2>1 DEF IdsIn
    <3>2. i \in DOMAIN out
      BY <1>1, <1>6, <2>1, <3>1
    <3> QED
      BY <2>1, <3>1, <3>2 DEF IdsIn
  <2> QED
    BY <2>1, <2>4, <2>5 DEF IdsIn
<1>8. r.toGet = q.toGet /\ r.asked = q.asked /\ r.twice = q.twice /\ r.seen = q.seen
      /\ r.conn = q.conn /\ r.out = out /\ (Idle(r) <=> Idle(q)) /\ r.inSync = q.inSync
      /\ r.offered = q.offered
  <2> HIDE DEF out
  <2> QED
    BY <1>1 DEF Connections, Idle
<1>9. SameChain(m, n) /\ \A o \in Peers : m.peer[o] = IF o = p THEN r ELSE n.peer[o]
  <2>1. m = [n EXCEPT !.active = @ \cup ToSet(items), !.peer[p] = r]
    BY <1>1 DEF Nodes, Connections
  <2> HIDE DEF m, r
  <2> QED
    BY <1>1, <2>1 DEF Nodes, SameChain
<1> HIDE DEF m, r, out
<1>10. SameList(r, q)
  BY <1>7, <1>8 DEF SameList
<1>11. PeerGood(r, p, n.have, Settled(n))
  BY <1>1, <1>8, <1>10, OthersGood
<1>12. \A o \in Peers : PeerGood(m.peer[o], o, n.have, Settled(n))
  BY <1>9, <1>11, GoodPeer
<1> QED
  BY <1>5, <1>9, <1>12, ChangedGood

LEMMA FetchSyncItemsGood ==
    ASSUME SyncInv, Good(node), FetchSyncItems
    PROVE  Good(node')
<1> DEFINE n == [node EXCEPT !.fetch = FALSE]
           active == ActivePeers(node)
           V == {m \in Nodes : Good(m)}
<1>1. Good(n) /\ n \in Nodes
  <2>1. Good(n)
    BY FlagGood
  <2> QED
    BY <2>1 DEF Good, NodeOK
<1>3. PICK order \in SetToSeqs(ActivePeers(node)) :
         node' = IF n.suspend THEN n ELSE FoldLeft(RequestSyncItems, n, order)
  BY DEF FetchSyncItems
<1>4. order \in Seq(Peers)
  <2>1. active \subseteq Peers
    BY ActiveJoined
  <2>2. Cardinality(active) \in Nat
    BY <2>1, FS_Subset, FS_CardinalityType, Constants
  <2>3. order \in [1 .. Cardinality(active) -> active]
    BY <1>3 DEF SetToSeqs
  <2> HIDE DEF active
  <2>4. order \in [1 .. Cardinality(active) -> Peers]
    BY <2>1, <2>3
  <2> QED
    BY <2>2, <2>4
<1> HIDE DEF n
<1>5. \A e \in V, p \in Peers : RequestSyncItems(e, p) \in V
  BY RequestSyncItemsGood DEF Good, NodeOK
<1>6. n \in V
  BY <1>1
<1> HIDE DEF V
<1>7. FoldLeft(RequestSyncItems, n, order) \in V
  BY <1>4, <1>5, <1>6, AllRequests
<1>8. Good(FoldLeft(RequestSyncItems, n, order))
  BY <1>7 DEF V
<1> QED
  BY <1>1, <1>3, <1>8

\* A settled block is taken off the lists it comes first on.
LEMMA PoppedPeersGood ==
    ASSUME NEW n, Good(n), NEW b \in Blocks, NEW K, Settled(n) \subseteq K, b \in K
    PROVE  \A p \in Peers :
              PeerGood(WithPeers(n, Offering(n, b), LAMBDA q :
                  [q EXCEPT !.toGet = Tail(@), !.processing = @ \cup {b}]).peer[p],
                  p, n.have, K)
<1> DEFINE S == Offering(n, b)
           m == WithPeers(n, S, LAMBDA q :
                    [q EXCEPT !.toGet = Tail(@), !.processing = @ \cup {b}])
<1>1. n \in Nodes /\ \A o \in S : n.peer[o].toGet # <<>> /\ n.peer[o].toGet[1] = b
  BY DEF Good, NodeOK, Offering
<1> HIDE DEF S
<1>2. \A o \in Peers :
         m.peer[o] = IF o \in S
                     THEN [n.peer[o] EXCEPT !.toGet = Tail(@), !.processing = @ \cup {b}]
                     ELSE n.peer[o]
  BY <1>1 DEF WithPeers, Nodes
<1> HIDE DEF m
<1>3. ASSUME NEW o \in Peers PROVE PeerGood(m.peer[o], o, n.have, K)
  <2> DEFINE q == n.peer[o]
             r == [q EXCEPT !.toGet = Tail(@), !.processing = @ \cup {b}]
  <2>1. q \in Connections /\ PeerGood(q, o, n.have, K)
    BY GoodPeer, StillGood
  <2>2. CASE o \in S
    <3>1. q.toGet # <<>> /\ q.toGet[1] = b /\ m.peer[o] = r
      BY <1>1, <1>2, <2>2
    <3> HIDE DEF q
    <3>2. PeerGood([q EXCEPT !.toGet = Tail(@), !.processing = @ \cup {q.toGet[1]}],
                   o, n.have, K)
      BY <2>1, <3>1, PoppedGood
    <3> QED
      BY <3>1, <3>2
  <2>3. CASE o \notin S
    BY <1>2, <2>1, <2>3
  <2> QED
    BY <2>2, <2>3
<1> QED
  BY <1>3 DEF m, S

\* Nothing is left to do with a block of which a peer had told.
AllProcessed(n, b) == WithPeers(n, Having(n, b), LAMBDA q : Processed(n.head, q, b))

LEMMA ProcessedPeersGood ==
    ASSUME WorldOK, NEW n, Good(n), NEW b \in Blocks
    PROVE  Good(AllProcessed(n, b))
<1> DEFINE S == Having(n, b)
           m == WithPeers(n, S, LAMBDA q : Processed(n.head, q, b))
<1>1. n \in Nodes /\ NodeOK(n) /\ n.head \in Blocks \cup {None}
      /\ Ground(n.head, n.have, Settled(n))
  BY GoodGround DEF Good, NodeOK, Nodes
<1>2. Called(m, n)
  BY <1>1, ProcessedPeersOK
<1> HIDE DEF S
<1>3. \A o \in Peers :
         m.peer[o] = IF o \in S THEN Processed(n.head, n.peer[o], b) ELSE n.peer[o]
  BY <1>1 DEF WithPeers, Nodes
<1> HIDE DEF m
<1>4. ASSUME NEW o \in Peers PROVE PeerGood(m.peer[o], o, n.have, Settled(n))
  <2>1. n.peer[o] \in Connections /\ PeerGood(n.peer[o], o, n.have, Settled(n))
        /\ ListOK(n.peer[o], Settled(n)) /\ SummariesOK(n.peer[o], o, n.have)
        /\ ToSet(n.peer[o].toGet) \subseteq ChainOf(o)
    BY GoodPeer
  <2>2. PeerGood(Processed(n.head, n.peer[o], b), o, n.have, Settled(n))
    BY <1>1, <2>1, ProcessedGood
  <2> QED
    BY <1>3, <2>1, <2>2
<1>5. SameChain(m, n) /\ NodeOK(m)
  BY <1>1, <1>2, CalledChain
<1>6. Good(m)
  BY <1>4, <1>5, ChangedGood
<1> QED
  BY <1>6 DEF m, S, AllProcessed

\* A block that is first on a list has its place after those handed on before.
LEMMA HandOnGood ==
    ASSUME WorldOK, NEW n, Good(n), Len(n.calls) < MaxCalls, NEW i \in DOMAIN n.received,
           Offering(n, n.received[i]) # {}
    PROVE  Good(HandOn(n, i))
<1> DEFINE b == n.received[i]
           popped == WithPeers(n, Offering(n, b), LAMBDA q :
                         [q EXCEPT !.toGet = Tail(@), !.processing = @ \cup {b}])
           treated == WithPeers(popped, Having(popped, b), LAMBDA q : Processed(n.head, q, b))
           handed == [popped EXCEPT !.received = RemoveAt(@, i), !.calls = Append(@, b)]
           K == Settled(n)
           l == Len(n.calls)
<1>1. n \in Nodes /\ NodeOK(n) /\ ChainGood(n) /\ b \in Blocks /\ n.calls \in Seq(Blocks)
      /\ l \in Nat /\ n.recent \subseteq n.have /\ n.have \subseteq K
  BY GoodGround DEF Good, NodeOK, Nodes, Ground
<1>2. HandOn(n, i) = IF b \in n.recent THEN treated ELSE handed
  BY DEF HandOn
<1>3. Called(popped, n)
  BY <1>1, PoppedPeersOK
<1>4. NodeOK(HandOn(n, i))
  BY <1>1, HandOnOK
<1>5. \A L : K \subseteq L /\ b \in L =>
         \A p \in Peers : PeerGood(popped.peer[p], p, n.have, L)
  BY <1>1, PoppedPeersGood
<1>6. Parent[b] \in K \cup {None}
  <2>1. PICK p \in Peers : n.peer[p].toGet # <<>> /\ n.peer[p].toGet[1] = b
    BY ActiveJoined DEF Offering
  <2> QED
    BY <2>1, GoodPeer DEF PlaceOK, Follow
<1> HIDE DEF popped, b
<1>7. SameChain(popped, n) /\ NodeOK(popped) /\ popped \in Nodes
  BY <1>1, <1>3, CalledChain
<1>8. CASE b \in n.recent
  <2>1. \A p \in Peers : PeerGood(popped.peer[p], p, n.have, K)
    BY <1>1, <1>5, <1>8
  <2>2. Good(popped)
    BY <1>7, <2>1, ChangedGood
  <2>3. Good(AllProcessed(popped, b))
    BY <1>1, <2>2, ProcessedPeersGood
  <2>4. AllProcessed(popped, b) = treated
    <3>1. popped.head = n.head
      BY <1>7 DEF SameChain
    <3> QED
      BY <3>1 DEF AllProcessed, WithPeers
  <2> QED
    BY <1>2, <1>8, <2>3, <2>4
<1>9. CASE b \notin n.recent
  <2> DEFINE m == handed
  <2>1. /\ m.have = n.have /\ m.head = n.head /\ m.calls = Append(n.calls, b)
        /\ m.peer = popped.peer
    BY <1>7 DEF Nodes, SameChain
  <2> HIDE DEF m
  <2>2. /\ ToSet(m.calls) = ToSet(n.calls) \cup {b} /\ Len(m.calls) = l + 1
        /\ m.calls[l + 1] = b /\ \A j \in 1 .. l : m.calls[j] = n.calls[j]
        /\ DOMAIN n.calls = 1 .. l /\ DOMAIN m.calls = 1 .. l + 1
    <3> DEFINE c == n.calls
               d == Append(c, b)
    <3>1. c \in Seq(Blocks) /\ DOMAIN c = 1 .. l /\ l = Len(c)
      BY <1>1
    <3> HIDE DEF c, l
    <3>2. /\ Len(d) = l + 1 /\ DOMAIN d = 1 .. l + 1 /\ d[l + 1] = b
          /\ \A j \in 1 .. l : d[j] = c[j]
      BY <1>1, <3>1
    <3> HIDE DEF d
    <3>3. ToSet(d) = ToSet(c) \cup {b}
      <4>1. \A j \in 1 .. l + 1 : d[j] \in ToSet(c) \cup {b}
        BY <1>1, <3>1, <3>2 DEF ToSet
      <4>2. \A j \in 1 .. l : c[j] \in ToSet(d)
        <5>1. \A j \in 1 .. l : j \in 1 .. l + 1
          BY <1>1
        <5> QED
          BY <3>2, <5>1 DEF ToSet
      <4>3. b \in ToSet(d)
        <5>1. l + 1 \in 1 .. l + 1
          BY <1>1
        <5> QED
          BY <3>2, <5>1 DEF ToSet
      <4> QED
        BY <3>1, <3>2, <4>1, <4>2, <4>3 DEF ToSet
    <3> QED
      BY <2>1, <3>1, <3>2, <3>3 DEF c, d
  <2>3. NodeOK(m)
    BY <1>2, <1>4, <1>9 DEF m
  <2>4. K \subseteq Settled(m)
    BY <2>1, <2>2 DEF Settled
  <2>5. b \in Settled(m)
    <3>1. b # None /\ ToSet(Path[b]) = ToSet(Path[Parent[b]]) \cup {b}
      BY <1>1, NodeSyncAssumption, PathFacts
    <3>2. Parent[b] \in K => ToSet(Path[Parent[b]]) \subseteq Settled(m)
      BY <2>4, SettledFacts
    <3>3. ToSet(Path[None]) = {}
      <4>1. Path[None] = <<>>
        BY PathFacts
      <4> QED
        BY <4>1 DEF ToSet
    <3>4. ToSet(Path[Parent[b]]) \subseteq m.have \cup ToSet(m.calls) \cup Doomed
      BY <1>6, <3>2, <3>3, SettledFacts
    <3> QED
      BY <1>1, <2>2, <3>1, <3>4 DEF Settled
  <2>6. InOrder(m)
    <3> SUFFICES ASSUME NEW j \in 1 .. l + 1
                 PROVE  \/ Parent[m.calls[j]] \in m.have \cup {None} \cup Doomed
                        \/ \E k \in 1 .. j - 1 : m.calls[k] = Parent[m.calls[j]]
      BY <2>2 DEF InOrder
    <3>1. CASE j \in 1 .. l
      <4>1. m.calls[j] = n.calls[j] /\ \A k \in 1 .. j - 1 : m.calls[k] = n.calls[k]
        BY <1>1, <2>2, <3>1
      <4>2. \/ Parent[n.calls[j]] \in n.have \cup {None} \cup Doomed
            \/ \E k \in 1 .. j - 1 : n.calls[k] = Parent[n.calls[j]]
        BY <1>1, <2>2, <3>1 DEF ChainGood, InOrder
      <4> QED
        BY <2>1, <4>1, <4>2
    <3>2. CASE j = l + 1
      <4>1. m.calls[j] = b /\ j - 1 = l
        BY <1>1, <2>2, <3>2
      <4>2. CASE Parent[b] \in ToSet(n.calls)
        <5>1. PICK k \in 1 .. l : n.calls[k] = Parent[b]
          BY <2>2, <4>2 DEF ToSet
        <5> QED
          BY <2>2, <4>1, <5>1
      <4>3. CASE Parent[b] \notin ToSet(n.calls)
        BY <1>6, <2>1, <4>1, <4>3, SettledFacts
      <4> QED
        BY <4>2, <4>3
    <3> QED
      BY <1>1, <3>1, <3>2
  <2>7. ChainGood(m)
    BY <1>1, <2>1, <2>6 DEF ChainGood
  <2>8. \A p \in Peers : PeerGood(m.peer[p], p, m.have, Settled(m))
    BY <1>5, <2>1, <2>4, <2>5
  <2>9. Good(m)
    BY <2>3, <2>7, <2>8 DEF Good
  <2> QED
    BY <1>2, <1>9, <2>9 DEF m
<1> QED
  BY <1>8, <1>9

GoodTurns == {turn \in Turns : Good(turn.node)}

LEMMA TurnGood ==
    ASSUME WorldOK, NEW turn \in GoodTurns
    PROVE  BacklogTurn(turn) \subseteq GoodTurns
<1> DEFINE old     == turn.node
           n       == Gathered(old)
           first   == {i \in DOMAIN n.received : Offering(n, n.received[i]) # {}}
           full(m) == Len(m.calls) >= MaxCalls
           end(m)  == [m EXCEPT !.suspend = @ \/ (full(m) /\ Len(m.received) >= MaxWaiting)]
           m       == HandOn(n, Min(first))
           last    == [node |-> end(n), more |-> FALSE]
           next    == [node |-> end(m), more |-> m.calls # n.calls /\ ~full(m)]
<1>1. /\ old \in Nodes /\ NodeOK(old) /\ Good(old) /\ turn \in Turns
      /\ turn.more => Len(old.calls) < MaxCalls
  BY DEF GoodTurns, Turns
<1>2. BacklogTurn(turn) = IF ~turn.more THEN {turn} ELSE IF first = {} THEN {last} ELSE {next}
  BY DEF BacklogTurn, Gathered
<1>0. BacklogTurn(turn) \subseteq Turns
  BY <1>1, TurnOK
<1> HIDE DEF old
<1>3. NodeOK(n) /\ n \in Nodes /\ n.calls = old.calls /\ n.peer = old.peer /\ SameChain(n, old)
  BY <1>1, GatheredOK DEF SameChain
<1> HIDE DEF n
<1>4. Good(n)
  BY <1>1, <1>3, OthersSame
<1>5. ASSUME NEW k, Good(k) PROVE Good(end(k))
  <2> DEFINE suspend == k.suspend \/ (full(k) /\ Len(k.received) >= MaxWaiting)
  <2>1. k \in Nodes /\ suspend \in BOOLEAN
    BY <1>5 DEF Good, NodeOK
  <2> HIDE DEF suspend
  <2>2. Good([k EXCEPT !.suspend = suspend])
    BY <1>5, <2>1, FlagGood
  <2>3. end(k) = [k EXCEPT !.suspend = suspend]
    BY <2>1 DEF Nodes, suspend
  <2> HIDE DEF end
  <2> QED
    BY <2>2, <2>3
<1> HIDE DEF end
<1>6. CASE ~turn.more
  BY <1>2, <1>6
<1>7. CASE turn.more /\ first = {}
  <2>1. BacklogTurn(turn) = {last}
    BY <1>2, <1>7
  <2>2. Good(last.node)
    BY <1>4, <1>5
  <2> HIDE DEF last
  <2> QED
    BY <1>0, <2>1, <2>2 DEF GoodTurns
<1>8. CASE turn.more /\ first # {}
  <2>1. Min(first) \in DOMAIN n.received /\ Offering(n, n.received[Min(first)]) # {}
    <3>1. first \subseteq DOMAIN n.received /\ \A i \in first : Offering(n, n.received[i]) # {}
      OBVIOUS
    <3>2. DOMAIN n.received = 1 .. Len(n.received) /\ Len(n.received) \in Nat
      BY <1>3 DEF Nodes
    <3>3. first \subseteq 0 .. Len(n.received)
      BY <3>1, <3>2
    <3> HIDE DEF first
    <3>4. Min(first) \in first
      BY <1>8, <3>2, <3>3, MinMax
    <3> QED
      BY <3>1, <3>4
  <2>2. BacklogTurn(turn) = {next}
    BY <1>2, <1>8
  <2> HIDE DEF first
  <2>3. Good(m)
    BY <1>1, <1>3, <1>4, <1>8, <2>1, HandOnGood
  <2> HIDE DEF m
  <2>4. Good(next.node)
    BY <1>5, <2>3
  <2> HIDE DEF next
  <2> QED
    BY <1>0, <2>2, <2>4 DEF GoodTurns
<1> QED
  BY <1>6, <1>7, <1>8

LEMMA ProcessBacklogGood ==
    ASSUME WorldOK, NEW n, Good(n), NEW k \in ProcessBacklog(n)
    PROVE  Good(k)
<1> DEFINE start == [node |-> [n EXCEPT !.suspend = FALSE], more |-> TRUE]
           l == Len(n.received) + Len(n.fresh) + 1
<1>1. n \in Nodes /\ NodeOK(n) /\ n.received \in Seq(Blocks) /\ n.fresh \in Seq(Blocks)
      /\ n.calls \in Seq(Blocks)
  BY DEF Good, NodeOK, Nodes
<1>2. l \in Nat
  <2> DEFINE s == n.received
             t == n.fresh
  <2>1. s \in Seq(Blocks) /\ t \in Seq(Blocks)
    BY <1>1
  <2> HIDE DEF s, t, start
  <2>2. Len(s) + Len(t) + 1 \in Nat
    BY <2>1
  <2> QED
    BY <2>2 DEF s, t
<1>3. CASE Len(n.calls) >= MaxCalls
  BY <1>3 DEF ProcessBacklog
<1>4. CASE ~(Len(n.calls) >= MaxCalls)
  <2>1. PICK turn \in Backlog(start, l) :
           k = [turn.node EXCEPT !.fetch = @ \/ ~turn.node.suspend]
    BY <1>4 DEF ProcessBacklog, Backlog
  <2>2. start \in GoodTurns
    <3> DEFINE m == [n EXCEPT !.suspend = FALSE]
    <3>1. Good(m)
      BY FlagGood
    <3>2. m \in Nodes /\ m.calls = n.calls
      BY <1>1 DEF Nodes
    <3>3. Len(n.calls) < MaxCalls
      BY <1>1, <1>4, Constants
    <3> HIDE DEF m
    <3>4. start.node = m /\ start.more = TRUE /\ start \in [node : Nodes, more : BOOLEAN]
      BY <3>2 DEF m
    <3> HIDE DEF start
    <3> QED
      BY <3>1, <3>2, <3>3, <3>4 DEF GoodTurns, Turns, Good
  <2> HIDE DEF start, l
  <2>3. \A u \in GoodTurns : BacklogTurn(u) \subseteq GoodTurns
    BY TurnGood
  <2>4. Backlog(start, l) \subseteq GoodTurns
    BY <1>2, <2>2, <2>3, Turning
  <2>5. turn \in GoodTurns
    BY <2>1, <2>4
  <2> DEFINE o == turn.node
             fetch == o.fetch \/ ~o.suspend
  <2>6. Good(o) /\ o \in Nodes /\ fetch \in BOOLEAN
    BY <2>5 DEF GoodTurns, Turns
  <2>7. k = [o EXCEPT !.fetch = fetch]
    BY <2>1, <2>6 DEF Nodes
  <2> HIDE DEF o, fetch
  <2>8. Good([o EXCEPT !.fetch = fetch])
    BY <2>6, FlagGood
  <2> QED
    BY <2>7, <2>8
<1> QED
  BY <1>3, <1>4

LEMMA RunBacklogGood ==
    ASSUME SyncInv, Good(node), RunBacklog
    PROVE  Good(node')
<1> DEFINE n == [node EXCEPT !.backlog = FALSE]
<1>1. Good(n)
  BY FlagGood
<1>2. node' \in ProcessBacklog(n)
  BY DEF RunBacklog
<1>3. WorldOK
  BY DEF SyncInv
<1> HIDE DEF n
<1> QED
  BY <1>1, <1>2, <1>3, ProcessBacklogGood

\* A field of a peer that is not looked at changed.
LEMMA FieldGood ==
    ASSUME NEW n, Good(n), NEW p \in Peers, n.peer[p].conn # "none",
           NEW r \in Connections, SameOwed(r, n.peer[p]), SameList(r, n.peer[p]),
           (Idle(r) => Idle(n.peer[p])) /\ r.inSync = n.peer[p].inSync,
           n.peer[p].offered \subseteq r.offered
    PROVE  Good([n EXCEPT !.peer[p] = r]) /\ [n EXCEPT !.peer[p] = r].peer[p] = r
<1>1. NodeOK(n) /\ n \in Nodes /\ PeerGood(n.peer[p], p, n.have, Settled(n))
  BY GoodPeer DEF Good, NodeOK
<1>2. NodeOK([n EXCEPT !.peer[p] = r])
  <2>1. r.toGet = n.peer[p].toGet
    BY DEF SameList
  <2> QED
    BY <1>1, <2>1, OneFieldOK DEF Called
<1>3. PeerGood(r, p, n.have, Settled(n))
  <2>1. r.conn = n.peer[p].conn
    BY DEF SameOwed
  <2> QED
    BY <1>1, <2>1, OthersGood
<1>4. [n EXCEPT !.peer[p] = r].peer[p] = r
  BY <1>1 DEF Nodes
<1> QED
  BY <1>2, <1>3, <1>4, OneGood

\* A block that was offered: the chain takes it, or its peer is behind or ahead.
LEMMA OnNewBlockGood ==
    ASSUME WorldOK, NEW n, Good(n), NEW p \in Peers, n.peer[p].conn # "none",
           NEW b \in Blocks
    PROVE  Good(OnNewBlock(n, p, b))
<1> DEFINE q == n.peer[p]
           r == [q EXCEPT !.fetched = {}]
           m == [n EXCEPT !.peer[p].fetched = {}]
           offering == {o \in ActivePeers(m) : b \in m.peer[o].offered}
           base == IF b \in m.recent THEN m ELSE Accepted(m, b)
           f == [o \in offering |-> [base.peer[o] EXCEPT !.seen = b]]
           told == [base EXCEPT !.peer =
                      [o \in Peers |-> IF o \in offering THEN f[o] ELSE base.peer[o]]]
           refused == Disconnect(m, {p} \cup Offering(m, b))
           behind == StartSynchronizing(m, p)
           handled ==
             IF b \in m.recent \/ Accepts(m, b) THEN told
             ELSE IF Parent[b] \in m.have \cup {None} THEN refused ELSE behind
<1>1. n \in Nodes /\ q \in Connections
  BY GoodPeer DEF Good, NodeOK
<1>2. Good(m) /\ m.peer[p].conn # "none"
  <2>1. /\ r \in Connections /\ SameOwed(r, q) /\ SameList(r, q) /\ (Idle(r) => Idle(q))
        /\ r.inSync = q.inSync /\ q.offered \subseteq r.offered /\ r.conn = q.conn
    BY <1>1 DEF Connections, SameOwed, SameList, Idle
  <2>2. m = [n EXCEPT !.peer[p] = r]
    BY <1>1 DEF Nodes, Connections
  <2> HIDE DEF r, m
  <2> QED
    BY <2>1, <2>2, FieldGood
<1>3. OnNewBlock(n, p, b) = [handled EXCEPT !.refetch = @ \/ ~Busy(handled.peer[p])]
  <2>1. told = WithPeers(base, offering, LAMBDA s : [s EXCEPT !.seen = b])
    <3> HIDE DEF base, offering
    <3> QED
      BY DEF WithPeers
  <2> DEFINE asking == WithPeers(base, offering, LAMBDA s : [s EXCEPT !.seen = b])
             answer == IF b \in m.recent \/ Accepts(m, b) THEN asking
                       ELSE IF Parent[b] \in m.have \cup {None} THEN refused ELSE behind
  <2>2. OnNewBlock(n, p, b) = [answer EXCEPT !.refetch = @ \/ ~Busy(answer.peer[p])]
    BY DEF OnNewBlock
  <2>3. answer = handled
    <3> HIDE DEF told, refused, behind, base, offering, m
    <3> QED
      BY <2>1
  <2> HIDE DEF answer, handled
  <2> QED
    BY <2>2, <2>3
<1> HIDE DEF m
<1>4. ASSUME b \in m.recent \/ Accepts(m, b) PROVE Good(told)
  <2>1. Good(base) /\ base.peer = m.peer /\ b \in base.have
    <3>1. m.recent \subseteq m.have
      BY <1>2 DEF Good, NodeOK
    <3>2. Accepts(m, b) => b \in m.have \/ Parent[b] \in m.have \cup {None}
      BY DEF Accepts
    <3> QED
      BY <1>2, <1>4, <3>1, <3>2, AcceptedGood
  <2>2. offering \subseteq Peers /\ \A o \in offering : base.peer[o].conn # "none"
    BY <2>1, ActiveJoined
  <2>3. NodeOK(base)
    BY <2>1 DEF Good
  <2> HIDE DEF base, offering
  <2>4. ASSUME NEW o \in offering
        PROVE  /\ Kept([base.peer[o] EXCEPT !.seen = b], base.peer[o], o)
               /\ PeerGood([base.peer[o] EXCEPT !.seen = b], o, base.have, Settled(base))
    <3>1. o \in Peers /\ Joined(base.peer[o], o)
      BY <2>2, <2>3, JoinedPeer
    <3>2. Kept([base.peer[o] EXCEPT !.seen = b], base.peer[o], o)
      BY <3>1, SeenOK
    <3>3. Ground(base.head, base.have, Settled(base))
      BY <2>1, GoodGround
    <3>4. base.peer[o] \in Connections /\ PeerGood(base.peer[o], o, base.have, Settled(base))
      BY <2>1, <3>1, GoodPeer
    <3> QED
      BY <2>1, <3>2, <3>3, <3>4, SeenGood
  <2>5. \A o \in offering : /\ Joined(f[o], o) /\ f[o].requested = base.peer[o].requested
                            /\ PeerGood(f[o], o, base.have, Settled(base))
    BY <2>4 DEF Kept
  <2> HIDE DEF f
  <2> QED
    BY <2>1, <2>2, <2>5, WithPeersGood
<1>5. Good(refused)
  BY <1>2, GivenUpGood
<1>6. Good(behind)
  <2>1. /\ NodeOK(m) /\ ChainGood(m) /\ SummariesOK(m.peer[p], p, m.have)
        /\ \A o \in Peers \ {p} : PeerGood(m.peer[o], o, m.have, Settled(m))
    BY <1>2, GoodPeer DEF Good
  <2> QED
    BY <1>2, <2>1, StartSynchronizingGood
<1> HIDE DEF told, refused, behind
<1>10. Good(handled)
  BY <1>4, <1>5, <1>6
<1> HIDE DEF handled
<1> DEFINE flag == handled.refetch \/ ~Busy(handled.peer[p])
<1>11. flag \in BOOLEAN
  OBVIOUS
<1>12. OnNewBlock(n, p, b) = [handled EXCEPT !.refetch = flag]
  BY <1>3
<1> HIDE DEF flag
<1>13. Good([handled EXCEPT !.refetch = flag])
  BY <1>10, <1>11, FlagGood
<1> QED
  BY <1>12, <1>13

LEMMA ReceiveNewBlockGood ==
    ASSUME SyncInv, Good(node), NEW p \in Peers, ReceiveNewBlock(p)
    PROVE  Good(node')
<1> DEFINE q == node.peer[p]
           b == Head(q.out).block
           n == [node EXCEPT !.peer[p].out = Tail(@)]
<1>1. Joined(q, p) /\ q.out # <<>> /\ Head(q.out).kind = "new" /\ WorldOK
  BY Sending DEF ReceiveNewBlock, SyncInv
<1>2. node' = OnNewBlock(n, p, b)
  BY DEF ReceiveNewBlock
<1>3. b \in Blocks
  <2>1. TRUE \in BOOLEAN
    OBVIOUS
  <2>2. Head(q.out) \in Messages
    BY <1>1, <2>1, TakenOK
  <2> QED
    BY <1>1, <2>2 DEF Messages
<1>4. Good(n) /\ n.peer[p].conn # "none"
  BY <1>1, TakenNode
<1> HIDE DEF n, b
<1>5. Good(OnNewBlock(n, p, b))
  BY <1>1, <1>3, <1>4, OnNewBlockGood
<1> QED
  BY <1>2, <1>5

LEMMA ServeIdsGood ==
    ASSUME SyncInv, Good(node), NEW p \in Peers, ServeIds(p)
    PROVE  Good(node')
<1> DEFINE q == node.peer[p]
           synopsis == {Path[tip[p]][k] : k \in Steps(Number(tip[p]))}
           they == ~InSync(Reply(Path[node.head], synopsis), synopsis)
           r == [q EXCEPT !.theyNeed = they]
           n == [node EXCEPT !.peer[p].theyNeed = they]
<1>1. NodeOK(node) /\ node \in Nodes /\ q \in Connections /\ q.conn # "none" /\ WorldOK
  BY PeerOKInNodes DEF SyncInv, NodeOK, ServeIds
<1>2. node' = StartSynchronizing(n, p) \/ node' = n
  BY DEF ServeIds
<1>3. they \in BOOLEAN
  BY DEF InSync
<1> HIDE DEF they
<1>4. /\ r \in Connections /\ SameOwed(r, q) /\ SameList(r, q) /\ (Idle(r) => Idle(q))
      /\ r.inSync = q.inSync /\ q.offered \subseteq r.offered /\ r.conn = q.conn
  BY <1>1, <1>3 DEF Connections, SameOwed, SameList, Idle
<1>5. n = [node EXCEPT !.peer[p] = r]
  BY <1>1 DEF Nodes, Connections
<1> HIDE DEF n, r
<1>6. Good(n) /\ n.peer[p].conn # "none"
  BY <1>1, <1>4, <1>5, FieldGood
<1>7. Good(StartSynchronizing(n, p))
  <2>1. /\ NodeOK(n) /\ ChainGood(n) /\ SummariesOK(n.peer[p], p, n.have)
        /\ \A o \in Peers \ {p} : PeerGood(n.peer[o], o, n.have, Settled(n))
    BY <1>6, GoodPeer DEF Good
  <2> QED
    BY <1>1, <1>6, <2>1, StartSynchronizingGood
<1> QED
  BY <1>2, <1>6, <1>7

LEMMA ServeBlockGood ==
    ASSUME SyncInv, Good(node), NEW p \in Peers, NEW b \in Blocks, ServeBlock(p, b)
    PROVE  Good(node')
<1> DEFINE q == node.peer[p]
           r == [q EXCEPT !.seen = b]
<1>1. NodeOK(node) /\ node \in Nodes /\ q \in Connections /\ q.conn # "none"
  BY PeerOKInNodes DEF SyncInv, NodeOK, ServeBlock
<1>2. r \in Connections /\ SameOwed(r, q) /\ r.toGet = q.toGet
  BY <1>1 DEF Connections, SameOwed
<1>3. node' = [node EXCEPT !.peer[p] = r]
  BY <1>1 DEF Nodes, Connections, ServeBlock
<1>4. Ground(node.head, node.have, Settled(node))
  BY GoodGround
<1>5. b \in node.have
  <2>1. b \in ToSet(Path[node.head])
    BY DEF ServeBlock
  <2>2. node.head # None
    <3>1. Path[None] = <<>>
      BY PathFacts
    <3> QED
      BY <2>1, <3>1 DEF ToSet
  <2> QED
    BY <1>4, <2>1, <2>2 DEF Ground
<1>6. PeerGood(r, p, node.have, Settled(node))
  <2>1. PeerGood(q, p, node.have, Settled(node))
    BY GoodPeer
  <2> QED
    BY <1>1, <1>4, <1>5, <2>1, SeenGood
<1> HIDE DEF r
<1>7. NodeOK([node EXCEPT !.peer[p] = r])
  BY <1>1, <1>2, OneFieldOK DEF Called
<1> QED
  BY <1>3, <1>6, <1>7, OneGood

LEMMA ConnectGood ==
    ASSUME SyncInv, Good(node), NEW p \in Peers, Connect(p)
    PROVE  Good(node')
<1> DEFINE r == [NoConnection EXCEPT !.conn = "active", !.theyNeed = TRUE]
           n == [node EXCEPT !.peer[p] = r]
<1>1. NodeOK(node) /\ node \in Nodes /\ WorldOK /\ node.peer[p] = NoConnection
  BY DEF SyncInv, NodeOK, PeerOK, Connect
<1>2. PeerOK(NoConnection, p) /\ NoConnection.requested = {} /\ NoConnection \in Connections
  BY NoConnectionOK
<1>3. /\ r \in Connections /\ r.conn = "active" /\ r.requested = {}
      /\ r.out = <<>> /\ r.toGet = NoConnection.toGet /\ r.out = NoConnection.out
      /\ r.asked = {} /\ r.seen = None
  BY <1>2 DEF Connections, NoConnection
<1> HIDE DEF r
<1>4. PeerOK(r, p)
  BY <1>2, <1>3 DEF PeerOK, OwesEachOnce
<1>5. NodeOK(n) /\ n.peer[p] = r
  <2>1. r.requested = node.peer[p].requested
    BY <1>1, <1>2, <1>3
  <2> QED
    BY <1>1, <1>4, <2>1, OnePeer
<1>6. node' = StartSynchronizing(n, p)
  BY DEF Connect, r
<1>7. SameChain(n, node) /\ \A o \in Peers \ {p} : n.peer[o] = node.peer[o]
  BY <1>1 DEF Nodes, SameChain
<1> HIDE DEF n
<1>8. Settled(n) = Settled(node) /\ n.have = node.have /\ ChainGood(n)
  BY <1>7, SameSettled DEF SameChain, Good
<1>9. \A o \in Peers \ {p} : PeerGood(n.peer[o], o, n.have, Settled(n))
  BY <1>7, <1>8, GoodPeer
<1>10. SummariesOK(r, p, n.have)
  BY <1>3 DEF SummariesOK, SentOK, OnceOK, IdsIn
<1>11. Good(StartSynchronizing(n, p))
  BY <1>1, <1>3, <1>5, <1>8, <1>9, <1>10, StartSynchronizingGood
<1> QED
  BY <1>6, <1>11

\* The chain takes or refuses the block it was handed first.
LEMMA SendBlockGood ==
    ASSUME SyncInv, Good(node), SendBlockToDelegate
    PROVE  Good(node')
<1> DEFINE b == Head(node.calls)
           calls == Tail(node.calls)
           n == [node EXCEPT !.calls = Tail(@), !.backlog = TRUE]
           m == Accepted(n, b)
<1>1. /\ NodeOK(node) /\ node \in Nodes /\ node.calls # <<>> /\ node.calls \in Seq(Blocks)
      /\ Len(node.calls) <= MaxCalls /\ WorldOK /\ ChainGood(node)
  BY DEF SyncInv, NodeOK, Nodes, SendBlockToDelegate, Good
<1>2. b \in Blocks /\ calls \in Seq(Blocks) /\ Len(calls) <= MaxCalls
  BY <1>1, Constants
<1>3. n = [node EXCEPT !.calls = calls, !.backlog = TRUE]
  OBVIOUS
<1>4. node' = IF Accepts(n, b) THEN OnAccepted(m, b) ELSE OnRefused(n, b)
  BY DEF SendBlockToDelegate
<1>5. /\ \A i \in DOMAIN calls : i + 1 \in DOMAIN node.calls /\ calls[i] = node.calls[i + 1]
      /\ \A i \in DOMAIN node.calls : i # 1 => i - 1 \in DOMAIN calls
      /\ node.calls[1] = b /\ 1 \in DOMAIN node.calls
      /\ DOMAIN node.calls \subseteq Nat \ {0} /\ DOMAIN calls \subseteq Nat \ {0}
  <2> DEFINE s == node.calls
             l == Len(s)
  <2>1. s \in Seq(Blocks) /\ l \in Nat /\ s # <<>>
    BY <1>1
  <2>2. DOMAIN s = 1 .. l /\ l # 0
    BY <2>1
  <2>3. /\ DOMAIN Tail(s) = 1 .. l - 1
        /\ \A i \in 1 .. l - 1 : Tail(s)[i] = s[i + 1]
        /\ Head(s) = s[1]
    BY <2>1
  <2> HIDE DEF l, s
  <2>4. \A i \in 1 .. l - 1 : i + 1 \in 1 .. l
    BY <2>1
  <2>5. \A i \in 1 .. l : i # 1 => i - 1 \in 1 .. l - 1
    BY <2>1
  <2>6. 1 \in 1 .. l /\ 1 .. l \subseteq Nat \ {0} /\ 1 .. l - 1 \subseteq Nat \ {0}
    BY <2>1, <2>2
  <2> QED
    BY <2>2, <2>3, <2>4, <2>5, <2>6 DEF s
<1> HIDE DEF b, calls
<1>6. ToSet(node.calls) \subseteq ToSet(calls) \cup {b}
  <2> SUFFICES ASSUME NEW i \in DOMAIN node.calls
               PROVE  node.calls[i] \in ToSet(calls) \cup {b}
    BY DEF ToSet
  <2>1. CASE i = 1
    BY <1>5, <2>1
  <2>2. CASE i # 1
    <3>1. i - 1 \in DOMAIN calls /\ calls[i - 1] = node.calls[(i - 1) + 1] /\ (i - 1) + 1 = i
      BY <1>5, <2>2
    <3> QED
      BY <3>1 DEF ToSet
  <2> QED
    BY <2>1, <2>2
\* What was handed on after b still is in order, with b in a chain or doomed.
<1>7. ASSUME NEW k, k.calls = calls, node.have \subseteq k.have,
             b \in k.have \cup Doomed
      PROVE  InOrder(k) /\ Settled(node) \subseteq Settled(k)
  <2>1. ASSUME NEW i \in DOMAIN calls
        PROVE  \/ Parent[calls[i]] \in k.have \cup {None} \cup Doomed
               \/ \E j \in 1 .. i - 1 : calls[j] = Parent[calls[i]]
    <3>1. i + 1 \in DOMAIN node.calls /\ calls[i] = node.calls[i + 1] /\ i \in Nat \ {0}
      BY <1>5
    <3>2. CASE Parent[calls[i]] \in node.have \cup {None} \cup Doomed
      BY <1>7, <3>2
    <3>3. CASE \E j \in 1 .. (i + 1) - 1 : node.calls[j] = Parent[calls[i]]
      <4>1. PICK j \in 1 .. (i + 1) - 1 : node.calls[j] = Parent[calls[i]]
        BY <3>3
      <4>2. CASE j = 1
        BY <1>5, <1>7, <4>1, <4>2
      <4>3. CASE j # 1
        <5>1. j \in DOMAIN node.calls
          <6>1. DOMAIN node.calls = 1 .. Len(node.calls) /\ Len(node.calls) \in Nat
            BY <1>1
          <6> HIDE DEF b
          <6> QED
            BY <3>1, <4>1, <6>1
        <5>2. j - 1 \in DOMAIN calls /\ calls[j - 1] = node.calls[(j - 1) + 1]
              /\ (j - 1) + 1 = j /\ j - 1 \in 1 .. i - 1
          BY <1>5, <3>1, <4>1, <4>3, <5>1
        <5> QED
          BY <4>1, <5>2
      <4> QED
        BY <4>2, <4>3
    <3>4. \/ Parent[node.calls[i + 1]] \in node.have \cup {None} \cup Doomed
          \/ \E j \in 1 .. (i + 1) - 1 : node.calls[j] = Parent[node.calls[i + 1]]
      BY <1>1, <3>1 DEF ChainGood, InOrder
    <3> QED
      BY <3>1, <3>2, <3>3, <3>4
  <2>2. InOrder(k)
    BY <1>7, <2>1 DEF InOrder
  <2>3. Settled(node) \subseteq Settled(k)
    <3> SUFFICES ASSUME NEW a \in Settled(node) PROVE a \in Settled(k)
      OBVIOUS
    <3>1. a \in Blocks /\ ToSet(Path[a]) \subseteq node.have \cup ToSet(node.calls) \cup Doomed
      BY DEF Settled
    <3>2. ToSet(Path[a]) \subseteq k.have \cup ToSet(k.calls) \cup Doomed
      BY <1>6, <1>7, <3>1
    <3> QED
      BY <3>1, <3>2 DEF Settled
  <2> QED
    BY <2>2, <2>3
<1>8. /\ n \in Nodes /\ n.peer = node.peer /\ n.active = node.active
      /\ n.have = node.have /\ n.recent = node.recent /\ n.head = node.head
      /\ n.calls = calls
  BY <1>1, <1>2, <1>3 DEF Nodes
<1>9. \A p \in Peers : PeerGood(node.peer[p], p, node.have, Settled(node))
  BY GoodPeer
<1> HIDE DEF n
<1>10. NodeOK(n)
  BY <1>1, <1>2, <1>8, OthersOK
<1>11. CASE Accepts(n, b)
  <2>1. b \in n.have \/ Parent[b] \in n.have \cup {None}
    BY <1>11 DEF Accepts
  <2>2. m.have = n.have \cup {b} /\ m.calls = n.calls /\ m.head \in {n.head, b}
        /\ m.peer = n.peer
    BY <1>8 DEF Nodes, Accepted
  <2>3. NodeOK(m)
    BY <1>2, <1>10, AcceptedOK
  <2> HIDE DEF m
  <2>4. b # None
    BY <1>2, NodeSyncAssumption
  <2>5. InOrder(m) /\ Settled(node) \subseteq Settled(m)
    BY <1>7, <1>8, <2>2
  <2>6. ChainGood(m)
    BY <1>1, <1>8, <2>1, <2>2, <2>4, <2>5 DEF ChainGood
  <2>7. Good(m) /\ b \in m.have
    <3>1. \A p \in Peers : PeerGood(m.peer[p], p, node.have, Settled(node))
      BY <1>8, <1>9, <2>2
    <3> QED
      BY <1>8, <2>2, <2>3, <2>5, <2>6, <3>1, GrownGood
  <2>8. Good(OnAccepted(m, b))
    BY <1>1, <2>7, OnAcceptedGood
  <2> QED
    BY <1>4, <1>11, <2>8
<1>12. CASE ~Accepts(n, b)
  <2>1. b \notin n.have /\ (b \in world.refused \/ Parent[b] \notin n.have \cup {None})
    BY <1>12 DEF Accepts
  <2>2. Parent[b] \in node.have \cup {None} \cup Doomed
    <3>1. ~ \E j \in 1 .. 1 - 1 : node.calls[j] = Parent[node.calls[1]]
      OBVIOUS
    <3> QED
      BY <1>1, <1>5, <3>1 DEF ChainGood, InOrder
  <2>3. ToSet(Path[b]) = ToSet(Path[Parent[b]]) \cup {b}
    BY <1>2, PathFacts, Constants
  <2>4. b \in Doomed
    BY <1>2, <1>8, <2>1, <2>2, <2>3 DEF Doomed
  <2>5. InOrder(n) /\ Settled(node) \subseteq Settled(n)
    BY <1>7, <1>8, <2>4
  <2>6. ChainGood(n)
    BY <1>1, <1>8, <2>5 DEF ChainGood
  <2>7. Good(n)
    BY <1>8, <1>9, <1>10, <2>5, <2>6, GrownGood
  <2>8. Good(OnRefused(n, b))
    BY <2>7, GivenUpGood DEF OnRefused
  <2> QED
    BY <1>4, <1>12, <2>8
<1> QED
  BY <1>11, <1>12

LEMMA AskedForGood ==
    ASSUME NEW p, NEW H, NEW K, NEW q, Joined(q, p), PeerGood(q, p, H, K), NEW b \in Blocks
    PROVE  PeerGood(AskedFor(q, b), p, H, K)
<1> DEFINE m == [kind |-> "new", block |-> b]
           out == Append(q.out, m)
           r == AskedFor(q, b)
           l == Len(q.out)
<1>1. q \in Connections /\ q.out \in Seq(Messages) /\ l \in Nat /\ m \in Messages
  BY DEF Joined, PeerOK, Connections, Messages
<1>2. /\ r.toGet = q.toGet /\ r.asked = q.asked /\ r.twice = q.twice /\ r.seen = q.seen
      /\ r.conn = q.conn /\ r.out = out /\ r.inSync = q.inSync /\ r.offered = q.offered
      /\ (Idle(r) <=> Idle(q))
  BY <1>1 DEF AskedFor, Connections, Idle
<1>3. IdsIn(out) = IdsIn(q.out) /\ \A i \in IdsIn(q.out) : out[i] = q.out[i]
  <2>1. DOMAIN q.out = 1 .. l
    BY <1>1
  <2>2. /\ DOMAIN out = 1 .. l + 1 /\ out[l + 1] = m
        /\ \A i \in 1 .. l : out[i] = q.out[i]
    BY <1>1
  <2>3. m.kind # "ids" /\ 1 .. l + 1 = (1 .. l) \cup {l + 1}
    BY <1>1
  <2> HIDE DEF out, m, l
  <2> QED
    BY <2>1, <2>2, <2>3 DEF IdsIn
<1> HIDE DEF r, out
<1>4. SameList(r, q)
  BY <1>2, <1>3 DEF SameList
<1>5. PeerGood(r, p, H, K)
  BY <1>2, <1>4, OthersGood
<1> QED
  BY <1>5 DEF r

LEMMA FetchItemsGood ==
    ASSUME SyncInv, Good(node), FetchItems
    PROVE  Good(node')
<1>1. PICK ask \in SUBSET {bp \in node.wanted \X ActivePeers(node) :
                     ~Busy(node.peer[bp[2]]) /\ bp[1] \in node.peer[bp[2]].offered} :
         LET of(p) == {bp[1] : bp \in {x \in ask : x[2] = p}}
             asked == {bp[1] : bp \in ask}
         IN  node' = [node EXCEPT
                  !.refetch = FALSE,
                  !.wanted = @ \ asked,
                  !.peer = [p \in Peers |->
                      IF of(p) = {} THEN @[p]
                      ELSE AskedFor(@[p], CHOOSE b \in of(p) : TRUE)]]
  BY DEF FetchItems
<1> DEFINE of(p) == {bp[1] : bp \in {x \in ask : x[2] = p}}
           item(p) == CHOOSE b \in of(p) : TRUE
           wanted == node.wanted \ {bp[1] : bp \in ask}
           asking == {p \in Peers : of(p) # {}}
           f == [p \in asking |-> AskedFor(node.peer[p], item(p))]
           peers == [p \in Peers |-> IF p \in asking THEN f[p] ELSE node.peer[p]]
           k == [node EXCEPT !.peer = peers]
<1>2. NodeOK(node) /\ node \in Nodes
  BY DEF SyncInv, NodeOK
<1>3. node' = [node EXCEPT !.refetch = FALSE, !.wanted = wanted, !.peer = peers]
  <2> DEFINE told == [p \in Peers |->
                        IF of(p) = {} THEN node.peer[p] ELSE AskedFor(node.peer[p], item(p))]
  <2>1. node' = [node EXCEPT !.refetch = FALSE, !.wanted = wanted, !.peer = told]
    BY <1>1, <1>2 DEF Nodes
  <2>2. told = peers
    <3> HIDE DEF of, item
    <3> QED
      OBVIOUS
  <2> QED
    BY <2>1, <2>2
<1>4. wanted \subseteq Blocks /\ ask \subseteq Blocks \X ActivePeers(node)
  BY <1>2 DEF Nodes
<1>5. \A p \in asking : p \in Peers /\ Joined(node.peer[p], p) /\ item(p) \in Blocks
  <2> SUFFICES ASSUME NEW p \in asking
               PROVE  p \in Peers /\ Joined(node.peer[p], p) /\ item(p) \in Blocks
    OBVIOUS
  <2>1. p \in ActivePeers(node) /\ of(p) \subseteq Blocks /\ of(p) # {} /\ p \in Peers
    BY <1>4
  <2>2. item(p) \in Blocks
    <3> HIDE DEF of
    <3> QED
      BY <2>1
  <2> QED
    BY <1>2, <2>1, <2>2, ActiveJoined, JoinedPeer
<1> HIDE DEF of, asking, wanted, item
<1>6. asking \subseteq Peers
  BY <1>5
<1>7. \A p \in asking : /\ Joined(f[p], p) /\ f[p].requested = node.peer[p].requested
                        /\ PeerGood(f[p], p, node.have, Settled(node))
  <2> SUFFICES ASSUME NEW p \in asking
               PROVE  /\ Kept(AskedFor(node.peer[p], item(p)), node.peer[p], p)
                      /\ PeerGood(AskedFor(node.peer[p], item(p)), p, node.have, Settled(node))
    BY DEF Kept
  <2>1. PeerGood(node.peer[p], p, node.have, Settled(node))
    BY <1>5, GoodPeer
  <2> QED
    BY <1>5, <2>1, AskedForOK, AskedForGood
<1> HIDE DEF f
<1>8. Good(k)
  BY <1>6, <1>7, WithPeersGood
<1> HIDE DEF peers
<1>9. node' = [k EXCEPT !.refetch = FALSE, !.wanted = wanted]
  BY <1>2, <1>3 DEF Nodes
<1> HIDE DEF k
<1>10. k \in Nodes /\ NodeOK(node')
  BY <1>8, FetchItemsStep DEF Good, NodeOK
<1>11. node'.peer = k.peer /\ SameChain(node', k)
  BY <1>9, <1>10 DEF Nodes, SameChain
<1> QED
  BY <1>8, <1>10, <1>11, OthersSame

\* A peer gets a block: what is known of the peers still holds when the new
\* block is among those it offered or the chain has, or it may not be in sync.
LEMMA GrownKept ==
    ASSUME Good(node'), NodeOK(node)', UNCHANGED world,
           \A p \in Peers :
              /\ ToSet(Path[tip[p]]) \subseteq ToSet(Path[tip'[p]])
              /\ \/ tip'[p] = tip[p]
                 \/ tip'[p] \in node'.have \cup node'.peer[p].offered
                 \/ ~(node'.peer[p].conn = "active" /\ node'.peer[p].inSync)
    PROVE  Good(node)'
<1>1. Settled(node)' = Settled(node')
  BY DEF Settled, Doomed
<1>2. ChainGood(node)'
  BY DEF Good, ChainGood, InOrder, Doomed
<1>3. ASSUME NEW p \in Peers
      PROVE  PeerGood(node.peer[p], p, node.have, Settled(node))'
  <2> DEFINE q == node'.peer[p]
  <2>1. PeerGood(q, p, node'.have, Settled(node'))
    BY DEF Good
  <2>2. ListOK(node.peer[p], Settled(node))'
    BY <1>1, <2>1 DEF PeerGood, ListOK, PlaceOK, Follow
  <2>3. SummariesOK(node.peer[p], p, node.have)'
    <3>1. SentOK(node.peer[p], p, node.have)'
      BY <2>1 DEF PeerGood, SummariesOK, SentOK, SummaryOK, ChainOf, IdsIn
    <3>2. OnceOK(node.peer[p])'
      BY <2>1 DEF PeerGood, SummariesOK, OnceOK, IdsIn
    <3> QED
      BY <3>1, <3>2 DEF SummariesOK
  <2>4. IdleOK(node.peer[p], p, node.have)'
    BY <2>1 DEF PeerGood, IdleOK, Idle, IdsIn
  <2> QED
    BY <2>2, <2>3, <2>4 DEF PeerGood
<1> QED
  BY <1>2, <1>3 DEF Good

LEMMA GrowGood ==
    ASSUME SyncInv, Good(node), NEW p \in Peers, Grow(p)
    PROVE  Good(node)'
<1> DEFINE b == CHOOSE b \in ToSet(Path[world.last[p]]) : Parent[b] = tip[p]
           q == node.peer[p]
           r == [q EXCEPT !.offered = @ \cup {b}]
           offer == [node EXCEPT !.peer[p].offered = @ \cup {b}]
           wanted == [offer EXCEPT !.wanted = @ \cup {b},
                                   !.refetch = @ \/ b \notin node.wanted]
<1>1. /\ NodeOK(node) /\ node \in Nodes /\ q \in Connections
      /\ tip[p] # world.last[p] /\ tip' = [tip EXCEPT ![p] = b]
      /\ tip \in [Peers -> Blocks \cup {None}] /\ UNCHANGED <<world, losses>>
  BY PeerOKInNodes DEF SyncInv, NodeOK, WorldOK, Grow
<1>2. b \in Blocks
  BY <1>1, NextBlock
<1>3. \/ q.conn = "active" /\ (node' = offer \/ node' = wanted)
      \/ node' = node /\ (b \in node.have \/ ~(q.conn = "active" /\ q.inSync))
  BY DEF Grow
<1> HIDE DEF b
<1>4. /\ NodeOK(node') /\ WorldOK'
      /\ \A o \in Peers : ToSet(Path[tip[o]]) \subseteq ToSet(Path[tip'[o]])
  BY GrowStep
<1>5. NodeOK(node)'
  BY <1>4, NodeKept
<1>6. tip'[p] = b /\ \A o \in Peers \ {p} : tip'[o] = tip[o]
  BY <1>1
<1>7. CASE q.conn = "active" /\ (node' = offer \/ node' = wanted)
  <2>1. /\ r \in Connections /\ SameOwed(r, q) /\ SameList(r, q) /\ (Idle(r) => Idle(q))
        /\ r.inSync = q.inSync /\ q.offered \subseteq r.offered /\ b \in r.offered
    BY <1>1, <1>2 DEF Connections, SameOwed, SameList, Idle
  <2>2. offer = [node EXCEPT !.peer[p] = r]
    BY <1>1 DEF Nodes, Connections
  <2> DEFINE refetch == offer.refetch \/ b \notin node.wanted
             more == offer.wanted \cup {b}
  <2>3. wanted = [offer EXCEPT !.wanted = more, !.refetch = refetch]
    OBVIOUS
  <2> HIDE DEF offer, r
  <2>4. Good(offer) /\ offer.peer[p] = r
    <3>1. q.conn # "none"
      BY <1>7
    <3> QED
      BY <2>1, <2>2, <3>1, FieldGood
  <2> HIDE DEF refetch, more, wanted
  <2>5. offer \in Nodes
    BY <2>4 DEF Good, NodeOK
  <2>6. wanted.peer = offer.peer /\ SameChain(wanted, offer)
    BY <2>3, <2>5 DEF Nodes, SameChain
  <2>7. Good(node') /\ b \in node'.peer[p].offered
    <3>1. CASE node' = offer
      BY <2>1, <2>4, <3>1
    <3>2. CASE node' = wanted
      BY <1>4, <2>1, <2>4, <2>6, <3>2, OthersSame
    <3> QED
      BY <1>7, <3>1, <3>2
  <2> QED
    BY <1>1, <1>4, <1>5, <1>6, <2>7, GrownKept
<1>8. CASE node' = node /\ (b \in node.have \/ ~(q.conn = "active" /\ q.inSync))
  <2>1. Good(node')
    BY <1>8
  <2> QED
    BY <1>1, <1>4, <1>5, <1>6, <1>8, <2>1, GrownKept
<1> QED
  BY <1>3, <1>7, <1>8

LEMMA GoodStart ==
    ASSUME Init
    PROVE  Good(node)
<1>1. SyncInv
  BY InitHolds
<1>2. /\ node.peer = [p \in Peers |-> NoConnection] /\ node.calls = <<>>
      /\ node.have = ToSet(Path[world.own]) /\ node.head = world.own
      /\ world.own \in Blocks \cup {None}
  BY <1>1, Constants DEF Init, SyncInv, WorldOK
<1>3. ChainGood(node)
  <2>1. \A b \in node.have : Parent[b] \in node.have \cup {None}
    BY <1>2, Ancestors
  <2>2. InOrder(node)
    BY <1>2 DEF InOrder
  <2> QED
    BY <1>2, <2>1, <2>2 DEF ChainGood
<1>4. ASSUME NEW p \in Peers PROVE PeerGood(node.peer[p], p, node.have, Settled(node))
  <2>1. node.peer[p] = NoConnection
    BY <1>2
  <2> QED
    BY <2>1, NoConnectionGood
<1> QED
  BY <1>1, <1>3, <1>4 DEF Good, SyncInv

LEMMA StepGood ==
    ASSUME SyncInv, Good(node), [Next]_vars
    PROVE  Good(node)'
<1>1. SyncInv'
  BY StepKeeps
<1>2. ASSUME Good(node'), UNCHANGED <<world, tip>> PROVE Good(node)'
  BY <1>1, <1>2, GrownKept DEF SyncInv
<1>3. ASSUME NEW S PROVE Good(Disconnect(node, S))
  BY GivenUpGood
<1>4. ASSUME NEW p \in Peers, Connect(p) PROVE Good(node)'
  BY <1>2, <1>4, ConnectGood DEF Connect
<1>5. ASSUME NEW p \in Peers, Close(p) PROVE Good(node)'
  BY <1>2, <1>5, ClosedGood DEF Close
<1>6. ASSUME NEW p \in Peers, Lose(p) PROVE Good(node)'
  BY <1>2, <1>6, ClosedGood DEF Lose
<1>7. ASSUME NEW p \in Peers, TimeOut(p) PROVE Good(node)'
  BY <1>2, <1>3, <1>7 DEF TimeOut
<1>8. ASSUME NEW p \in Peers, EndStalled(p) PROVE Good(node)'
  BY <1>2, <1>3, <1>8 DEF EndStalled
<1>9. ASSUME NEW p \in Peers, ReceiveIds(p) PROVE Good(node)'
  BY <1>2, <1>9, ReceiveIdsGood DEF ReceiveIds
<1>10. ASSUME NEW p \in Peers, ReceiveBlock(p) PROVE Good(node)'
  BY <1>2, <1>10, ReceiveBlockGood DEF ReceiveBlock
<1>11. ASSUME NEW p \in Peers, ReceiveNewBlock(p) PROVE Good(node)'
  BY <1>2, <1>11, ReceiveNewBlockGood DEF ReceiveNewBlock
<1>12. ASSUME NEW p \in Peers, Grow(p) PROVE Good(node)'
  BY <1>12, GrowGood
<1>13. ASSUME NEW p \in Peers, ServeIds(p) PROVE Good(node)'
  BY <1>2, <1>13, ServeIdsGood DEF ServeIds
<1>14. ASSUME NEW p \in Peers, NEW b \in Blocks, ServeBlock(p, b) PROVE Good(node)'
  BY <1>2, <1>14, ServeBlockGood DEF ServeBlock
<1>15. CASE FetchSyncItems
  BY <1>2, <1>15, FetchSyncItemsGood DEF FetchSyncItems
<1>16. CASE RunBacklog
  BY <1>2, <1>16, RunBacklogGood DEF RunBacklog
<1>17. CASE SendBlockToDelegate
  BY <1>2, <1>17, SendBlockGood DEF SendBlockToDelegate
<1>18. CASE FetchItems
  BY <1>2, <1>18, FetchItemsGood DEF FetchItems
<1>19. CASE UNCHANGED vars
  BY <1>2, <1>19 DEF vars
<1> QED
  BY <1>4, <1>5, <1>6, <1>7, <1>8, <1>9, <1>10, <1>11, <1>12, <1>13, <1>14,
     <1>15, <1>16, <1>17, <1>18, <1>19 DEF Next

-----------------------------------------------------------------------------
(* Who is blamed: what the peers showed that they have *)

NewIn(out) == {i \in DOMAIN out : out[i].kind = "new"}

\* Blocks handed on from the list of a peer, those it offered and those it sends
Shown(q) == q.processing \cup q.offered \cup {q.out[i].block : i \in NewIn(q.out)}

Honest(n) == \A p \in Peers : Shown(n.peer[p]) \subseteq ChainOf(p)

\* A peer showed no more than before, and is not given up.
NoMore(r, q) ==
    Shown(r) \subseteq Shown(q) /\ (r.conn = "closing" => q.conn = "closing")

NoneMore(m, n) == \A p \in Peers : NoMore(m.peer[p], n.peer[p])

LEMMA MoreTwice ==
    ASSUME NEW n, NEW m, NEW k, NoneMore(m, n), NoneMore(k, m)
    PROVE  NoneMore(k, n)
BY DEF NoneMore, NoMore

LEMMA StillHonest ==
    ASSUME NEW n, NEW m, NoneMore(m, n), Honest(n)
    PROVE  Honest(m)
BY DEF NoneMore, NoMore, Honest

LEMMA SameMail ==
    ASSUME NEW q, NEW r, r.processing \subseteq q.processing, r.offered \subseteq q.offered,
           r.out = q.out, r.conn = q.conn
    PROVE  NoMore(r, q)
BY DEF NoMore, Shown

LEMMA SamePeers ==
    ASSUME NEW n, NEW m, m.peer = n.peer
    PROVE  NoneMore(m, n)
BY DEF NoneMore, NoMore

\* Messages that are sent to a peer
LEMMA OutShown ==
    ASSUME NEW q \in Connections, NEW r, r.processing \subseteq q.processing,
           r.offered \subseteq q.offered, r.conn = q.conn,
           NEW m \in Messages, r.out = Append(q.out, m),
           m.kind = "new" => m.block \in q.offered
    PROVE  NoMore(r, q)
<1> DEFINE out == Append(q.out, m)
           l == Len(q.out)
<1>1. q.out \in Seq(Messages) /\ l \in Nat /\ DOMAIN q.out = 1 .. l
  BY DEF Connections
<1>2. DOMAIN out = 1 .. l + 1 /\ out[l + 1] = m /\ \A i \in 1 .. l : out[i] = q.out[i]
  BY <1>1
<1> HIDE DEF l, out
<1>3. ASSUME NEW i \in NewIn(out) PROVE out[i].block \in Shown(q)
  <2>1. i \in 1 .. l + 1 /\ out[i].kind = "new"
    BY <1>2 DEF NewIn
  <2>2. CASE i = l + 1
    BY <1>2, <2>1, <2>2 DEF Shown
  <2>3. CASE i # l + 1
    <3>1. i \in 1 .. l
      BY <1>1, <2>1, <2>3
    <3>2. i \in NewIn(q.out)
      BY <1>1, <1>2, <2>1, <3>1 DEF NewIn
    <3> QED
      BY <1>2, <3>1, <3>2 DEF Shown
  <2> QED
    BY <2>2, <2>3
<1>4. r.out = out
  BY DEF out
<1>5. Shown(r) \subseteq Shown(q)
  BY <1>3, <1>4 DEF Shown
<1> QED
  BY <1>5 DEF NoMore

LEMMA AskedIdsShown ==
    ASSUME NEW p, NEW q, Joined(q, p), NEW head \in Blocks \cup {None}
    PROVE  NoMore(AskedIds(head, q), q)
<1> DEFINE r == AskedIds(head, q)
           s == Synopsis(head, q)
           m == [kind |-> "ids", synopsis |-> s]
<1>1. q \in Connections
  BY DEF Joined, PeerOK
<1>2. s \subseteq Blocks
  BY <1>1, SynopsisType DEF Connections
<1>3. /\ r.processing = q.processing /\ r.offered = q.offered /\ r.conn = q.conn
      /\ r.out = Append(q.out, m)
  BY <1>1 DEF AskedIds, Connections
<1> HIDE DEF s, r
<1>4. m \in Messages /\ m.kind # "new"
  BY <1>2 DEF Messages
<1> HIDE DEF m
<1>5. NoMore(r, q)
  BY <1>1, <1>3, <1>4, OutShown
<1> QED
  BY <1>5 DEF r

LEMMA SynchronizingShown ==
    ASSUME NEW p, NEW q, Joined(q, p), NEW head \in Blocks \cup {None}
    PROVE  NoMore(Synchronizing(head, q), q)
<1> DEFINE r == [q EXCEPT !.toGet = <<>>, !.unfetched = 0, !.weNeed = TRUE, !.seen = None]
<1>1. q \in Connections /\ <<>> \in Seq(Blocks)
  BY DEF Joined, PeerOK
<1>2. r \in Connections
  BY <1>1 DEF Connections
<1>3. /\ SameOwed(r, q) /\ r.toGet = <<>>
      /\ r.processing = q.processing /\ r.offered = q.offered
  BY <1>1, <1>2 DEF Connections, SameOwed
<1>4. ToSet(<<>>) = {}
  BY DEF ToSet
<1> HIDE DEF r
<1>5. Joined(r, p) /\ NoMore(r, q)
  BY <1>2, <1>3, <1>4, OtherFields, SameMail DEF Kept, SameOwed
<1>6. NoMore(AskedIds(head, r), r)
  BY <1>5, AskedIdsShown
<1> QED
  BY <1>5, <1>6 DEF NoMore, Synchronizing, r

LEMMA ProcessedShown ==
    ASSUME NEW p, NEW q, Joined(q, p), NEW head \in Blocks \cup {None}, NEW b
    PROVE  NoMore(Processed(head, q, b), q)
<1> DEFINE r == [q EXCEPT !.processing = @ \ {b}]
<1>1. q \in Connections /\ ToSet(q.toGet) \subseteq ChainOf(p)
  BY DEF Joined, PeerOK
<1>2. /\ r \in Connections /\ SameOwed(r, q) /\ r.toGet = q.toGet
      /\ r.processing \subseteq q.processing /\ r.offered = q.offered
  BY <1>1 DEF Connections, SameOwed
<1>3. Processed(head, q, b) = r \/ Processed(head, q, b) = AskedIds(head, r)
  BY DEF Processed
<1> HIDE DEF r
<1>4. Joined(r, p) /\ NoMore(r, q)
  BY <1>1, <1>2, OtherFields, SameMail DEF Kept, SameOwed
<1>5. NoMore(AskedIds(head, r), r)
  BY <1>4, AskedIdsShown
<1> QED
  BY <1>3, <1>4, <1>5 DEF NoMore

\* One peer of a node, or some, changed.
LEMMA OneShown ==
    ASSUME NEW n \in Nodes, NEW p \in Peers, NEW r, NoMore(r, n.peer[p])
    PROVE  NoneMore([n EXCEPT !.peer[p] = r], n)
<1> DEFINE m == [n EXCEPT !.peer[p] = r]
<1>1. \A o \in Peers : m.peer[o] = IF o = p THEN r ELSE n.peer[o]
  BY DEF Nodes
<1> HIDE DEF m
<1>2. NoneMore(m, n)
  BY <1>1 DEF NoneMore, NoMore
<1> QED
  BY <1>2 DEF m

LEMMA SomeShown ==
    ASSUME NEW n \in Nodes, NEW S, NEW f, \A p \in S : NoMore(f[p], n.peer[p])
    PROVE  NoneMore([n EXCEPT !.peer = [p \in Peers |-> IF p \in S THEN f[p] ELSE n.peer[p]]], n)
<1> DEFINE m == [n EXCEPT !.peer = [p \in Peers |-> IF p \in S THEN f[p] ELSE n.peer[p]]]
<1>1. \A o \in Peers : m.peer[o] = IF o \in S THEN f[o] ELSE n.peer[o]
  BY DEF Nodes
<1> HIDE DEF m
<1>2. NoneMore(m, n)
  BY <1>1 DEF NoneMore, NoMore
<1> QED
  BY <1>2 DEF m

LEMMA NextIdsShown ==
    ASSUME NEW n, NodeOK(n), NEW p \in Peers, n.peer[p].conn # "none"
    PROVE  NoneMore(FetchNextBatch(n, p), n) /\ NoneMore(StartSynchronizing(n, p), n)
<1>1. n \in Nodes /\ Joined(n.peer[p], p) /\ n.head \in Blocks \cup {None}
  BY JoinedPeer DEF NodeOK
<1>2. \A o \in Peers :
         /\ FetchNextBatch(n, p).peer[o] =
              IF o = p THEN AskedIds(n.head, n.peer[o]) ELSE n.peer[o]
         /\ StartSynchronizing(n, p).peer[o] =
              IF o = p THEN Synchronizing(n.head, n.peer[o]) ELSE n.peer[o]
  BY <1>1 DEF FetchNextBatch, StartSynchronizing, WithPeers, Nodes
<1>3. NoMore(AskedIds(n.head, n.peer[p]), n.peer[p])
      /\ NoMore(Synchronizing(n.head, n.peer[p]), n.peer[p])
  BY <1>1, AskedIdsShown, SynchronizingShown
<1> QED
  BY <1>2, <1>3 DEF NoneMore, NoMore

LEMMA ClosedShown ==
    ASSUME NEW n \in Nodes, NEW p \in Peers
    PROVE  NoneMore(Closed(n, p), n)
<1>1. \A o \in Peers : Closed(n, p).peer[o] = IF o = p THEN NoConnection ELSE n.peer[o]
  BY DEF Closed, Nodes
<1>2. Shown(NoConnection) = {} /\ NoConnection.conn # "closing"
  BY DEF Shown, NewIn, NoConnection
<1> QED
  BY <1>1, <1>2 DEF NoneMore, NoMore

\* Peers that are given up showed what they did before.
LEMMA GivenUpShown ==
    ASSUME NEW n \in Nodes, NEW S
    PROVE  \A p \in Peers :
              /\ Shown(Disconnect(n, S).peer[p]) = Shown(n.peer[p])
              /\ Disconnect(n, S).peer[p].conn = "closing" =>
                   n.peer[p].conn = "closing" \/ p \in S
<1>1. \A p \in Peers :
         Disconnect(n, S).peer[p] =
           IF p \in S \cap ActivePeers(n) THEN [n.peer[p] EXCEPT !.conn = "closing"]
           ELSE n.peer[p]
  BY DEF Disconnect, WithPeers, Nodes
<1>2. ASSUME NEW p \in Peers
      PROVE  Shown([n.peer[p] EXCEPT !.conn = "closing"]) = Shown(n.peer[p])
  <2>1. n.peer[p] \in Connections
    BY DEF Nodes
  <2> QED
    BY <2>1 DEF Shown, NewIn, Connections
<1> QED
  BY <1>1, <1>2

\* An answer begins with the last block of the summary that the peer knows.
LEMMA ReplyStarts ==
    ASSUME NEW c \in Blocks \cup {None}, NEW s, Reply(Path[c], s).ids # <<>>
    PROVE  IF s = {} THEN Number(Reply(Path[c], s).ids[1]) = 1
           ELSE Reply(Path[c], s).ids[1] \in s
<1> DEFINE chain == Path[c]
           known == s \cap ToSet(chain)
           numbers == {Number(b) : b \in known}
           from == IF s = {} THEN 1 ELSE Max(numbers)
           to   == Min({Len(chain), from + IdsPerReply - 1})
           ids == Reply(chain, s).ids
<1>1. /\ chain \in Seq(Blocks) /\ Len(chain) \in Nat /\ Number(c) = Len(chain)
      /\ IdsPerReply \in Nat /\ IdsPerReply > 1
  BY PathFacts, NodeSyncAssumption DEF Number
<1>2. ~(s # {} /\ known = {})
  <2>1. s # {} /\ known = {} => Reply(chain, s) = [ids |-> <<>>, left |-> 0]
    BY DEF Reply
  <2>2. Reply(chain, s).ids # <<>>
    OBVIOUS
  <2> HIDE DEF chain, known
  <2> QED
    BY <2>1, <2>2
<1>3. ids = SubSeq(chain, from, to)
  <2> HIDE DEF from, to
  <2>1. Reply(chain, s) = [ids |-> SubSeq(chain, from, to), left |-> Len(chain) - to]
    BY <1>2 DEF Reply, from, to
  <2>2. [ids |-> SubSeq(chain, from, to), left |-> Len(chain) - to].ids = SubSeq(chain, from, to)
    OBVIOUS
  <2> QED
    BY <2>1, <2>2
<1>4. \A b \in known : Number(b) \in 1 .. Len(chain) /\ chain[Number(b)] = b
  <2> SUFFICES ASSUME NEW b \in known
               PROVE  Number(b) \in 1 .. Len(chain) /\ chain[Number(b)] = b
    OBVIOUS
  <2>1. PICK i \in 1 .. Len(chain) : b = chain[i]
    <3> HIDE DEF chain
    <3> QED
      BY <1>1 DEF ToSet
  <2>2. Number(b) = i
    BY <2>1, PathElements DEF Number
  <2> QED
    BY <2>1, <2>2
<1>5. s # {} => from \in numbers
  <2>1. s # {} => numbers # {}
    BY <1>2
  <2>2. numbers \subseteq 0 .. Len(chain)
    BY <1>1, <1>4
  <2> HIDE DEF numbers, chain
  <2> QED
    BY <1>1, <2>1, <2>2, MinMax
<1>6. from \in Nat \ {0} /\ to \in Nat /\ to <= Len(chain)
  <2>1. from \in Nat \ {0}
    <3>1. numbers \subseteq Nat \ {0}
      BY <1>1, <1>4
    <3>2. CASE s = {}
      BY <3>2
    <3>3. CASE s # {}
      <4>1. from \in numbers
        BY <1>5, <3>3
      <4> HIDE DEF from, numbers
      <4> QED
        BY <3>1, <4>1
    <3> QED
      BY <3>2, <3>3
  <2> HIDE DEF from, chain
  <2> DEFINE two == {Len(chain), from + IdsPerReply - 1}
             hi  == Len(chain) + from + IdsPerReply
  <2>2. hi \in Nat /\ two \subseteq 0 .. hi /\ two # {} /\ Len(chain) \in two
    BY <1>1, <2>1
  <2>3. to = Min(two)
    OBVIOUS
  <2> HIDE DEF two, hi, to
  <2>4. to \in two /\ to <= Len(chain)
    BY <2>2, <2>3, MinMax
  <2>5. to \in Nat
    BY <2>2, <2>4
  <2> QED
    BY <2>1, <2>4, <2>5
<1> DEFINE part == SubSeq(chain, from, to)
<1> HIDE DEF from, to, numbers
<1>7. from <= to /\ part[1] = chain[from] /\ from \in 1 .. Len(chain)
  <2>1. part # <<>>
    <3> HIDE DEF part, ids
    <3>1. ids = part /\ ids # <<>>
      BY <1>3 DEF part, ids
    <3> QED
      BY <3>1
  <2> HIDE DEF chain
  <2>2. Len(part) = IF from <= to THEN to - from + 1 ELSE 0
    BY <1>1, <1>6
  <2>3. part \in Seq(Blocks)
    BY <1>1, <1>6
  <2>4. from <= to
    <3> HIDE DEF part
    <3> QED
      BY <2>1, <2>2, <2>3
  <2>5. part[1] = chain[from + 1 - 1] /\ from + 1 - 1 = from
    BY <1>1, <1>6, <2>4
  <2> QED
    BY <1>1, <1>6, <2>4, <2>5
<1>8. CASE s = {}
  <2>1. from = 1
    BY <1>8 DEF from
  <2>2. Number(chain[1]) = 1
    <3>1. 1 \in 1 .. Number(c)
      BY <1>1, <1>7, <2>1
    <3> QED
      BY <3>1, PathElements
  <2>3. ids[1] = chain[1]
    <3> HIDE DEF chain, ids
    <3> QED
      BY <1>3, <1>7, <2>1 DEF part
  <2> HIDE DEF chain
  <2> QED
    BY <1>8, <2>2, <2>3 DEF chain
<1>9. CASE s # {}
  <2>1. PICK b \in known : from = Number(b)
    BY <1>5, <1>9 DEF numbers
  <2>2. ids[1] = b
    <3>1. chain[from] = b
      BY <1>4, <2>1
    <3> HIDE DEF chain, ids, known
    <3> QED
      BY <1>3, <1>7, <3>1 DEF part
  <2> QED
    BY <1>9, <2>1, <2>2
<1> QED
  BY <1>8, <1>9

\* Only a peer that was asked twice at a time may be taken to send what was not
\* asked for.
BlamedTwice(m, n, p) ==
    \A o \in Peers :
        /\ Shown(m.peer[o]) \subseteq Shown(n.peer[o])
        /\ m.peer[o].conn = "closing" =>
             n.peer[o].conn = "closing" \/ (o = p /\ n.peer[o].twice)

LEMMA OnIdsShown ==
    ASSUME WorldOK, NEW n, NEW p \in Peers, NEW s, NEW reply, AnswerTaken(n, p, s, reply)
    PROVE  BlamedTwice(OnIds(n, p, reply), n, p)
<1> DEFINE q == n.peer[p]
           ids == reply.ids
           asked == CHOOSE x \in q.asked : TRUE
           valid == ids # <<>> => IF asked = {} THEN Number(ids[1]) = 1 ELSE ids[1] \in asked
           taken  == [n EXCEPT !.peer[p].asked = {}]
           list   == Listed(taken, p, reply.ids)
           listed == [list EXCEPT !.peer[p].unfetched = reply.left]
           idle   == [taken EXCEPT !.peer[p].weNeed = FALSE]
           enough == IF reply.left # 0 THEN Len(listed.peer[p].toGet) > MinPrefetch
                     ELSE listed.peer[p].toGet # <<>>
           m == OnIds(n, p, reply)
<1>1. /\ NodeOK(n) /\ ChainGood(n) /\ n \in Nodes /\ q \in Connections /\ Joined(q, p)
      /\ q.conn # "none" /\ PlaceOK(q, Settled(n)) /\ ListOK(q, Settled(n))
      /\ q.seen \in n.have \cup ChainOf(p) \cup {None} /\ tip[p] \in Blocks \cup {None}
      /\ reply = Reply(Path[tip[p]], s) /\ ToSet(q.toGet) \subseteq ChainOf(p)
      /\ q.conn = "active" /\ ~q.twice => q.asked = {s}
  BY JoinedPeer DEF AnswerTaken, NodeOK, Joined, PeerOK, ListOK, SentOK, WorldOK
<1>2. /\ ids \in Seq(Blocks) /\ InRow(ids) /\ ToSet(ids) \subseteq ChainOf(p)
      /\ reply.left \in Nat
  BY <1>1, ReplyFacts, ReplyOrder DEF ChainOf
<1>3. q.asked # {} => asked \in q.asked
  OBVIOUS
<1> HIDE DEF asked
<1> DEFINE r == [q EXCEPT !.asked = {}]
           r2 == [q EXCEPT !.asked = {}, !.weNeed = FALSE]
<1>4. /\ r \in Connections /\ SameOwed(r, q) /\ r.toGet = q.toGet /\ r.seen = q.seen
      /\ r.processing = q.processing /\ r.offered = q.offered /\ r.out = q.out
      /\ r.conn = q.conn
  BY <1>1 DEF Connections, SameOwed
<1>5. /\ r2.processing = q.processing /\ r2.offered = q.offered /\ r2.out = q.out
      /\ r2.conn = q.conn
  BY <1>1 DEF Connections
<1>6. taken = [n EXCEPT !.peer[p] = r] /\ idle = [n EXCEPT !.peer[p] = r2]
  <2>1. taken = [n EXCEPT !.peer[p] = r]
    BY <1>1 DEF Nodes, Connections
  <2>2. idle = [n EXCEPT !.peer[p] = r2]
    BY <1>1 DEF Nodes, Connections
  <2> QED
    BY <2>1, <2>2
<1>7. m = IF q.asked = {} THEN n
          ELSE IF ~valid THEN Disconnect(n, {p})
          ELSE IF UpToDate(taken, p, reply) THEN idle
          ELSE IF enough THEN [listed EXCEPT !.fetch = TRUE]
          ELSE FetchNextBatch(listed, p)
  BY DEF OnIds, asked
<1> HIDE DEF m, r, r2, taken, idle
<1>8. NoMore(r, q) /\ NoMore(r2, q)
  BY <1>4, <1>5, SameMail
<1>9. NoneMore(taken, n) /\ NoneMore(idle, n)
  BY <1>1, <1>6, <1>8, OneShown
<1>10. SUFFICES ASSUME ~NoneMore(m, n) PROVE BlamedTwice(m, n, p)
  BY DEF NoneMore, NoMore, BlamedTwice, m
<1>11. NoneMore(n, n)
  BY SamePeers
<1>12. CASE q.asked # {} /\ ~valid
  <2>1. m = Disconnect(n, {p})
    BY <1>7, <1>12
  <2>2. q.conn = "active" => q.twice
    <3> SUFFICES ASSUME q.conn = "active", ~q.twice PROVE FALSE
      OBVIOUS
    <3>1. asked = s /\ ids # <<>>
      BY <1>1, <1>3, <1>12
    <3>2. IF s = {} THEN Number(ids[1]) = 1 ELSE ids[1] \in s
      BY <1>1, <3>1, ReplyStarts
    <3> QED
      BY <1>12, <3>1, <3>2
  <2>3. q.conn \in {"none", "active", "closing"}
    BY <1>1 DEF Connections
  <2> QED
    BY <1>1, <2>1, <2>2, <2>3, GivenUpShown DEF BlamedTwice
<1>13. CASE q.asked # {} /\ valid /\ ~UpToDate(taken, p, reply)
  <2>1. /\ NodeOK(taken) /\ ChainGood(taken) /\ Settled(taken) = Settled(n)
        /\ taken.have = n.have /\ taken.peer[p] = r /\ taken \in Nodes
    <3>1. Kept(r, q, p)
      BY <1>1, <1>4, OtherFields
    <3>2. NodeOK(taken) /\ taken.peer[p] = r /\ taken \in Nodes /\ SameChain(taken, n)
      BY <1>1, <1>4, <1>6, <3>1, OnePeerCalled DEF Called, Nodes, SameChain
    <3> QED
      BY <1>1, <3>2, SameSettled DEF SameChain
  <2>2. Follows(taken, p, ids)
    <3> SUFFICES ASSUME ids # <<>>
                 PROVE  \/ ids[1] \in Settled(n) \cup ToSet(q.toGet)
                        \/ q.toGet = <<>> /\ Parent[ids[1]] = None
      BY <1>4, <2>1 DEF Follows
    <3>1. asked \subseteq Settled(n) \cup ToSet(q.toGet) /\ (asked = {} => q.toGet = <<>>)
      BY <1>1, <1>3, <1>13 DEF ListOK
    <3>2. CASE asked = {}
      <4>1. Number(ids[1]) = 1 /\ ids[1] \in Blocks
        BY <1>2, <1>13, <3>2
      <4> QED
        BY <3>1, <3>2, <4>1, FirstBlock
    <3> QED
      BY <1>13, <3>1, <3>2
  <2>3. taken.peer[p].conn # "none" /\ PlaceOK(taken.peer[p], Settled(taken))
        /\ taken.peer[p].seen \in taken.have \cup ChainOf(p) \cup {None}
    BY <1>1, <1>4, <2>1 DEF PlaceOK
  <2>4. PICK l, seen : Relisted(list, taken, p, l, seen)
    BY <1>2, <2>1, <2>2, <2>3, ListedPlaced
  <2>5. NodeOK(list) /\ list \in Nodes /\ list.peer[p].conn # "none"
    <3>1. Called(list, taken)
      BY <1>2, <2>1, <2>3, ListedOK
    <3> QED
      BY <2>3, <3>1 DEF Called, NodeOK
  <2> HIDE DEF list
  <2>6. NoneMore(list, taken)
    <3>1. NoMore(list.peer[p], taken.peer[p])
      BY <2>4, SameMail DEF Relisted
    <3> QED
      BY <2>4, <3>1 DEF Relisted, NoneMore, NoMore
  <2> DEFINE o2 == list.peer[p]
             u == [o2 EXCEPT !.unfetched = reply.left]
  <2>7. o2 \in Connections /\ Joined(o2, p) /\ ToSet(o2.toGet) \subseteq ChainOf(p)
    BY <2>5, JoinedPeer DEF Joined, PeerOK
  <2>8. u \in Connections /\ SameOwed(u, o2) /\ u.toGet = o2.toGet
        /\ u.processing = o2.processing /\ u.offered = o2.offered
    BY <1>2, <2>7 DEF Connections, SameOwed
  <2>9. listed = [list EXCEPT !.peer[p] = u]
    BY <2>5 DEF Nodes, Connections
  <2> HIDE DEF u, o2, listed
  <2>10. Kept(u, o2, p) /\ NoMore(u, o2)
    BY <2>7, <2>8, OtherFields, SameMail DEF SameOwed
  <2>11. NoneMore(listed, list) /\ NodeOK(listed) /\ listed.peer[p].conn # "none"
    <3>1. Called(listed, list)
      BY <2>5, <2>9, <2>10, OnePeerCalled DEF o2
    <3>2. NoneMore(listed, list)
      BY <2>5, <2>9, <2>10, OneShown DEF o2
    <3> QED
      BY <2>5, <2>9, <2>10, <3>1, <3>2 DEF Called
  <2>12. NoneMore(listed, n)
    BY <1>9, <2>6, <2>11, MoreTwice
  <2>13. NoneMore([listed EXCEPT !.fetch = TRUE], listed)
    <3>1. [listed EXCEPT !.fetch = TRUE].peer = listed.peer
      BY <2>11 DEF NodeOK, Nodes
    <3> QED
      BY <3>1, SamePeers
  <2>14. NoneMore(FetchNextBatch(listed, p), listed)
    BY <2>11, NextIdsShown
  <2>15. NoneMore(m, n)
    <3>1. m = [listed EXCEPT !.fetch = TRUE] \/ m = FetchNextBatch(listed, p)
      BY <1>7, <1>13
    <3>2. NoneMore([listed EXCEPT !.fetch = TRUE], n)
      BY <2>12, <2>13, MoreTwice
    <3>3. NoneMore(FetchNextBatch(listed, p), n)
      BY <2>12, <2>14, MoreTwice
    <3> QED
      BY <3>1, <3>2, <3>3
  <2> QED
    BY <1>10, <2>15
<1> QED
  BY <1>7, <1>9, <1>10, <1>11, <1>12, <1>13

\* Nobody is given up.
NobodyBlamed(m, n) ==
    Honest(m) /\ \A p \in Peers : m.peer[p].conn = "closing" => n.peer[p].conn = "closing"

LEMMA BlamesNobody ==
    ASSUME NEW n, Honest(n)
    PROVE  /\ \A m : NoneMore(m, n) => NobodyBlamed(m, n)
           /\ \A m : m.peer = n.peer => NobodyBlamed(m, n)
BY SamePeers, StillHonest DEF NobodyBlamed, NoneMore, NoMore

LEMMA BlamesTwice ==
    ASSUME NEW n, NEW m, NEW k, NobodyBlamed(m, n), NobodyBlamed(k, m)
    PROVE  NobodyBlamed(k, n)
BY DEF NobodyBlamed

\* What is left of the messages of a peer
LEMMA RestShown ==
    ASSUME NEW q \in Connections, q.out # <<>>
    PROVE  /\ {Tail(q.out)[i].block : i \in NewIn(Tail(q.out))} \subseteq Shown(q)
           /\ Head(q.out).kind = "new" => Head(q.out).block \in Shown(q)
<1> DEFINE out == q.out
           t == Tail(out)
<1>1. out \in Seq(Messages) /\ Len(out) \in Nat /\ Len(out) >= 1 /\ Head(out) = out[1]
      /\ DOMAIN out = 1 .. Len(out)
  BY DEF Connections
<1>2. /\ DOMAIN t = 1 .. Len(out) - 1
      /\ \A i \in 1 .. Len(out) - 1 : t[i] = out[i + 1]
  <2>1. t \in Seq(Messages) /\ Len(t) = Len(out) - 1
        /\ \A i \in 1 .. Len(out) - 1 : t[i] = out[i + 1]
    BY <1>1
  <2> HIDE DEF t, out
  <2> QED
    BY <2>1
<1> HIDE DEF t, out
<1>3. ASSUME NEW i \in NewIn(t) PROVE i + 1 \in NewIn(out) /\ t[i] = out[i + 1]
  <2>1. i \in 1 .. Len(out) - 1 /\ t[i].kind = "new"
    BY <1>2, <1>3 DEF NewIn
  <2>2. i + 1 \in DOMAIN out /\ t[i] = out[i + 1]
    BY <1>1, <1>2, <2>1
  <2> QED
    BY <2>1, <2>2 DEF NewIn
<1>4. Head(out).kind = "new" => 1 \in NewIn(out)
  <2>1. 1 \in DOMAIN out
    BY <1>1
  <2> QED
    BY <1>1, <2>1 DEF NewIn
<1>5. \A i \in NewIn(out) : out[i].block \in Shown(q)
  BY DEF Shown, out
<1> QED
  BY <1>1, <1>3, <1>4, <1>5 DEF t, out

LEMMA TakenShown ==
    ASSUME NEW q \in Connections, q.out # <<>>, NEW inSync
    PROVE  NoMore([q EXCEPT !.out = Tail(@), !.inSync = inSync], q) /\ NoMore(Taken(q), q)
<1> DEFINE r == [q EXCEPT !.out = Tail(@), !.inSync = inSync]
<1>1. /\ r.processing = q.processing /\ r.offered = q.offered /\ r.conn = q.conn
      /\ r.out = Tail(q.out)
      /\ Taken(q).processing = q.processing /\ Taken(q).offered = q.offered
      /\ Taken(q).conn = q.conn /\ Taken(q).out = Tail(q.out)
  BY DEF Connections, Taken
<1> HIDE DEF r
<1>2. {Tail(q.out)[i].block : i \in NewIn(Tail(q.out))} \subseteq Shown(q)
  BY RestShown
<1>3. q.processing \subseteq Shown(q) /\ q.offered \subseteq Shown(q)
  BY DEF Shown
<1>4. Shown(r) \subseteq Shown(q)
  BY <1>1, <1>2, <1>3 DEF Shown
<1>5. Shown(Taken(q)) \subseteq Shown(q)
  BY <1>1, <1>2, <1>3 DEF Shown
<1>6. NoMore(r, q) /\ NoMore(Taken(q), q)
  BY <1>1, <1>4, <1>5 DEF NoMore
<1> QED
  BY <1>6 DEF r

LEMMA OnSyncBlockShown ==
    ASSUME NEW n, NodeOK(n), NEW p \in Peers, n.peer[p].conn # "none",
           NEW b \in n.peer[p].requested,
           \A i \in BlocksIn(n.peer[p].out) : n.peer[p].out[i].block # b
    PROVE  NoneMore(OnSyncBlock(n, p, b), n)
<1> DEFINE q == n.peer[p]
           r == [q EXCEPT !.requested = @ \ {b}]
           m == BlockArrived(n, p, b)
<1>1. n \in Nodes /\ q \in Connections
  BY DEF NodeOK, Nodes
<1>2. NodeOK(m)
  BY OnSyncBlockOK
<1>3. \A o \in Peers : m.peer[o] = IF o = p THEN r ELSE n.peer[o]
  BY <1>1 DEF Nodes, BlockArrived
<1>4. r.processing = q.processing /\ r.offered = q.offered /\ r.conn = q.conn /\ r.out = q.out
  BY <1>1 DEF Connections
<1>5. OnSyncBlock(n, p, b) =
        IF Busy(m.peer[p]) THEN m
        ELSE IF m.peer[p].unfetched > 0 /\ Len(m.peer[p].toGet) < MinPrefetch
        THEN FetchNextBatch(m, p) ELSE [m EXCEPT !.fetch = TRUE]
  BY DEF OnSyncBlock, BlockArrived
<1> HIDE DEF m, r
<1>6. NoneMore(m, n) /\ m.peer[p].conn # "none"
  BY <1>3, <1>4, SameMail DEF NoneMore, NoMore
<1>7. NoneMore(FetchNextBatch(m, p), m)
  BY <1>2, <1>6, NextIdsShown
<1>8. NoneMore([m EXCEPT !.fetch = TRUE], m)
  <2>1. [m EXCEPT !.fetch = TRUE].peer = m.peer
    BY <1>2 DEF NodeOK, Nodes
  <2> QED
    BY <2>1, SamePeers
<1>9. NoneMore(FetchNextBatch(m, p), n) /\ NoneMore([m EXCEPT !.fetch = TRUE], n)
  <2>1. NoneMore(FetchNextBatch(m, p), n)
    BY <1>6, <1>7, MoreTwice
  <2>2. NoneMore([m EXCEPT !.fetch = TRUE], n)
    BY <1>6, <1>8, MoreTwice
  <2> QED
    BY <2>1, <2>2
<1> QED
  BY <1>5, <1>6, <1>9

LEMMA BlocksAsked ==
    ASSUME NEW out \in Seq(Messages), NEW more \in Seq(Messages),
           \A i \in 1 .. Len(more) : more[i].kind = "block"
    PROVE  {(out \o more)[i].block : i \in NewIn(out \o more)}
             \subseteq {out[i].block : i \in NewIn(out)}
<1> DEFINE all == out \o more
<1>1. Len(out) \in Nat /\ Len(more) \in Nat /\ DOMAIN out = 1 .. Len(out)
  OBVIOUS
<1>2. /\ DOMAIN all = 1 .. Len(out) + Len(more)
      /\ \A i \in 1 .. Len(out) : all[i] = out[i]
      /\ \A i \in 1 .. Len(more) : all[Len(out) + i] = more[i]
  <2>1. all \in Seq(Messages) /\ Len(all) = Len(out) + Len(more)
    OBVIOUS
  <2>2. \A i \in 1 .. Len(out) : all[i] = out[i]
    OBVIOUS
  <2>3. \A i \in 1 .. Len(more) : all[Len(out) + i] = more[i]
    OBVIOUS
  <2> HIDE DEF all
  <2>4. DOMAIN all = 1 .. Len(out) + Len(more)
    BY <2>1
  <2> QED
    BY <2>2, <2>3, <2>4
<1> HIDE DEF all
<1>3. ASSUME NEW i \in NewIn(all) PROVE i \in NewIn(out) /\ all[i] = out[i]
  <2>1. i \in 1 .. Len(out) + Len(more) /\ all[i].kind = "new"
    BY <1>2 DEF NewIn
  <2>2. ASSUME i > Len(out) PROVE FALSE
    <3> DEFINE j == i - Len(out)
    <3>1. j \in 1 .. Len(more) /\ i = Len(out) + j
      BY <1>1, <2>1, <2>2
    <3> HIDE DEF j
    <3>2. all[i] = more[j] /\ more[j].kind = "block"
      BY <1>2, <3>1
    <3> QED
      BY <2>1, <3>2
  <2>3. i \in 1 .. Len(out)
    BY <1>1, <2>1, <2>2
  <2> QED
    BY <1>1, <1>2, <2>1, <2>3 DEF NewIn
<1>4. {all[i].block : i \in NewIn(all)} \subseteq {out[i].block : i \in NewIn(out)}
  BY <1>3
<1> QED
  BY <1>4 DEF all

LEMMA RequestSyncItemsShown ==
    ASSUME NEW n, NodeOK(n), NEW p \in Peers
    PROVE  NoneMore(RequestSyncItems(n, p), n)
<1> DEFINE q == n.peer[p]
           items == ItemsOf(n, p)
           more == [i \in DOMAIN items |-> [kind |-> "block", block |-> items[i]]]
           out == q.out \o more
           r == [q EXCEPT !.requested = ToSet(items), !.out = out]
           m == [n EXCEPT !.active = @ \cup ToSet(items), !.peer[p].requested = ToSet(items),
                          !.peer[p].out = @ \o more]
<1>1. n \in Nodes /\ q \in Connections /\ q.out \in Seq(Messages) /\ q.toGet \in Seq(Blocks)
  BY DEF NodeOK, Nodes, Connections
<1>2. RequestSyncItems(n, p) = IF ~q.weNeed \/ Busy(q) THEN n ELSE m
  BY DEF RequestSyncItems, ItemsOf
<1>3. items \in Seq(Blocks)
  BY <1>1, ItemsOfOK DEF Items
<1> HIDE DEF items
<1>4. more \in Seq(Messages) /\ \A i \in 1 .. Len(more) : more[i].kind = "block"
  <2>1. \A i \in DOMAIN items : [kind |-> "block", block |-> items[i]] \in Messages
    BY <1>3 DEF Messages
  <2> QED
    BY <1>3, <2>1
<1> HIDE DEF more
<1>5. {out[i].block : i \in NewIn(out)} \subseteq {q.out[i].block : i \in NewIn(q.out)}
  BY <1>1, <1>4, BlocksAsked
<1> HIDE DEF out
<1>6. r.processing = q.processing /\ r.offered = q.offered /\ r.conn = q.conn /\ r.out = out
  BY <1>1 DEF Connections
<1>7. \A o \in Peers : m.peer[o] = IF o = p THEN r ELSE n.peer[o]
  <2>1. m = [n EXCEPT !.active = @ \cup ToSet(items), !.peer[p] = r]
    BY <1>1 DEF Nodes, Connections, out
  <2> HIDE DEF m, r
  <2> QED
    BY <1>1, <2>1 DEF Nodes
<1> HIDE DEF m, r
<1>8. NoMore(r, q)
  BY <1>5, <1>6 DEF NoMore, Shown
<1>9. NoneMore(m, n) /\ NoneMore(n, n)
  BY <1>7, <1>8 DEF NoneMore, NoMore
<1> QED
  BY <1>2, <1>9

LEMMA FetchSyncItemsShown ==
    ASSUME SyncInv, FetchSyncItems
    PROVE  NoneMore(node', node)
<1> DEFINE n == [node EXCEPT !.fetch = FALSE]
           active == ActivePeers(node)
           V == {m \in Nodes : NodeOK(m) /\ NoneMore(m, n)}
<1>1. NodeOK(n) /\ n \in Nodes /\ n.peer = node.peer
  BY FetchFlag DEF SyncInv, NodeOK, Nodes
<1>2. PICK order \in SetToSeqs(ActivePeers(node)) :
         node' = IF n.suspend THEN n ELSE FoldLeft(RequestSyncItems, n, order)
  BY DEF FetchSyncItems
<1>3. order \in Seq(Peers)
  <2>1. active \subseteq Peers
    BY ActiveJoined
  <2>2. Cardinality(active) \in Nat
    BY <2>1, FS_Subset, FS_CardinalityType, Constants
  <2>3. order \in [1 .. Cardinality(active) -> active]
    BY <1>2 DEF SetToSeqs
  <2> HIDE DEF active
  <2>4. order \in [1 .. Cardinality(active) -> Peers]
    BY <2>1, <2>3
  <2> QED
    BY <2>2, <2>4
<1> HIDE DEF n
<1>4. \A e \in V, p \in Peers : RequestSyncItems(e, p) \in V
  <2> SUFFICES ASSUME NEW e \in V, NEW p \in Peers PROVE RequestSyncItems(e, p) \in V
    OBVIOUS
  <2>1. NodeOK(RequestSyncItems(e, p)) /\ NoneMore(RequestSyncItems(e, p), e)
    BY RequestSyncItemsOK, RequestSyncItemsShown
  <2>2. NoneMore(RequestSyncItems(e, p), n)
    BY <2>1, MoreTwice
  <2> QED
    BY <2>1, <2>2 DEF NodeOK
<1>5. n \in V
  BY <1>1, SamePeers
<1> HIDE DEF V
<1>6. FoldLeft(RequestSyncItems, n, order) \in V
  BY <1>3, <1>4, <1>5, AllRequests
<1>7. NoneMore(FoldLeft(RequestSyncItems, n, order), n) /\ NoneMore(n, n)
  BY <1>5, <1>6 DEF V
<1>8. NoneMore(node', n)
  BY <1>2, <1>7
<1>9. NoneMore(n, node)
  BY <1>1, SamePeers
<1> QED
  BY <1>8, <1>9, MoreTwice

\* A block on the list of a peer is a block it has.
LEMMA PoppedShown ==
    ASSUME NEW n, NodeOK(n), Honest(n), NEW b \in Blocks
    PROVE  NobodyBlamed(WithPeers(n, Offering(n, b), LAMBDA q :
                  [q EXCEPT !.toGet = Tail(@), !.processing = @ \cup {b}]), n)
<1> DEFINE S == Offering(n, b)
           m == WithPeers(n, S, LAMBDA q :
                    [q EXCEPT !.toGet = Tail(@), !.processing = @ \cup {b}])
<1>1. n \in Nodes /\ \A o \in S : n.peer[o].toGet # <<>> /\ n.peer[o].toGet[1] = b
  BY DEF NodeOK, Offering
<1> HIDE DEF S
<1>2. \A o \in Peers :
         m.peer[o] = IF o \in S
                     THEN [n.peer[o] EXCEPT !.toGet = Tail(@), !.processing = @ \cup {b}]
                     ELSE n.peer[o]
  BY <1>1 DEF WithPeers, Nodes
<1> HIDE DEF m
<1>3. ASSUME NEW o \in Peers
      PROVE  /\ Shown(m.peer[o]) \subseteq ChainOf(o)
             /\ m.peer[o].conn = n.peer[o].conn
  <2> DEFINE q == n.peer[o]
             r == [q EXCEPT !.toGet = Tail(@), !.processing = @ \cup {b}]
  <2>1. q \in Connections /\ Shown(q) \subseteq ChainOf(o) /\ ToSet(q.toGet) \subseteq ChainOf(o)
    BY DEF NodeOK, PeerOK, Honest
  <2>2. CASE o \in S
    <3>1. q.toGet # <<>> /\ q.toGet[1] = b /\ m.peer[o] = r
      BY <1>1, <1>2, <2>2
    <3>2. b \in ChainOf(o)
      <4>1. 1 \in DOMAIN q.toGet
        BY <2>1, <3>1 DEF Connections
      <4> QED
        BY <2>1, <3>1, <4>1 DEF ToSet
    <3>3. r.processing = q.processing \cup {b} /\ r.offered = q.offered
          /\ r.out = q.out /\ r.conn = q.conn
      BY <2>1 DEF Connections
    <3> HIDE DEF r, q
    <3>4. Shown(r) = Shown(q) \cup {b}
      BY <3>3 DEF Shown
    <3> QED
      BY <2>1, <3>1, <3>2, <3>3, <3>4 DEF q
  <2>3. CASE o \notin S
    BY <1>2, <2>1, <2>3
  <2> QED
    BY <2>2, <2>3
<1>4. NobodyBlamed(m, n)
  BY <1>3 DEF NobodyBlamed, Honest
<1> QED
  BY <1>4 DEF m, S

LEMMA AllProcessedShown ==
    ASSUME NEW n, NodeOK(n), NEW b \in Blocks
    PROVE  NoneMore(AllProcessed(n, b), n)
<1> DEFINE S == Having(n, b)
           m == WithPeers(n, S, LAMBDA q : Processed(n.head, q, b))
<1>1. n \in Nodes /\ n.head \in Blocks \cup {None} /\ \A o \in S : Joined(n.peer[o], o)
  BY ActiveJoined, JoinedPeer DEF NodeOK, Nodes, Having
<1> HIDE DEF S
<1>2. \A o \in Peers :
         m.peer[o] = IF o \in S THEN Processed(n.head, n.peer[o], b) ELSE n.peer[o]
  BY <1>1 DEF WithPeers, Nodes
<1> HIDE DEF m
<1>3. \A o \in S : NoMore(Processed(n.head, n.peer[o], b), n.peer[o])
  BY <1>1, ProcessedShown
<1>4. NoneMore(m, n)
  BY <1>2, <1>3 DEF NoneMore, NoMore
<1> QED
  BY <1>4 DEF m, S, AllProcessed

LEMMA HandOnShown ==
    ASSUME NEW n, NodeOK(n), Honest(n), NEW i \in DOMAIN n.received
    PROVE  NobodyBlamed(HandOn(n, i), n)
<1> DEFINE b == n.received[i]
           popped == WithPeers(n, Offering(n, b), LAMBDA q :
                         [q EXCEPT !.toGet = Tail(@), !.processing = @ \cup {b}])
           treated == WithPeers(popped, Having(popped, b), LAMBDA q : Processed(n.head, q, b))
           handed == [popped EXCEPT !.received = RemoveAt(@, i), !.calls = Append(@, b)]
<1>1. n \in Nodes /\ b \in Blocks
  BY DEF NodeOK, Nodes
<1>2. HandOn(n, i) = IF b \in n.recent THEN treated ELSE handed
  BY DEF HandOn
<1>3. Called(popped, n) /\ NobodyBlamed(popped, n)
  BY <1>1, PoppedPeersOK, PoppedShown
<1> HIDE DEF popped, b
<1>4. NodeOK(popped) /\ popped \in Nodes /\ popped.head = n.head
  BY <1>1, <1>3, CalledChain DEF SameChain
<1>5. treated = AllProcessed(popped, b)
  BY <1>4 DEF AllProcessed, WithPeers
<1> HIDE DEF treated
<1>6. NobodyBlamed(treated, popped) /\ NobodyBlamed(handed, popped)
  <2>1. NoneMore(treated, popped)
    BY <1>1, <1>4, <1>5, AllProcessedShown
  <2>2. handed.peer = popped.peer
    BY <1>4 DEF Nodes
  <2>3. Honest(popped)
    BY <1>3 DEF NobodyBlamed
  <2> QED
    BY <2>1, <2>2, <2>3, BlamesNobody
<1> HIDE DEF handed
<1>7. NobodyBlamed(treated, n) /\ NobodyBlamed(handed, n)
  <2>1. NobodyBlamed(treated, n)
    BY <1>3, <1>6, BlamesTwice
  <2>2. NobodyBlamed(handed, n)
    BY <1>3, <1>6, BlamesTwice
  <2> QED
    BY <2>1, <2>2
<1> QED
  BY <1>2, <1>7

HonestTurns(n) == {turn \in Turns : NobodyBlamed(turn.node, n)}

LEMMA TurnShown ==
    ASSUME NEW k, NEW turn \in HonestTurns(k)
    PROVE  BacklogTurn(turn) \subseteq HonestTurns(k)
<1> DEFINE old     == turn.node
           n       == Gathered(old)
           first   == {i \in DOMAIN n.received : Offering(n, n.received[i]) # {}}
           full(m) == Len(m.calls) >= MaxCalls
           end(m)  == [m EXCEPT !.suspend = @ \/ (full(m) /\ Len(m.received) >= MaxWaiting)]
           m       == HandOn(n, Min(first))
           last    == [node |-> end(n), more |-> FALSE]
           next    == [node |-> end(m), more |-> m.calls # n.calls /\ ~full(m)]
<1>1. /\ old \in Nodes /\ NodeOK(old) /\ NobodyBlamed(old, k) /\ turn \in Turns
      /\ turn.more => Len(old.calls) < MaxCalls
  BY DEF HonestTurns, Turns
<1>2. BacklogTurn(turn) = IF ~turn.more THEN {turn} ELSE IF first = {} THEN {last} ELSE {next}
  BY DEF BacklogTurn, Gathered
<1>3. BacklogTurn(turn) \subseteq Turns
  BY <1>1, TurnOK
<1> HIDE DEF old
<1>4. NodeOK(n) /\ n \in Nodes /\ n.calls = old.calls /\ n.peer = old.peer
  BY <1>1, GatheredOK
<1> HIDE DEF n
<1>5. NobodyBlamed(n, k)
  BY <1>1, <1>4 DEF NobodyBlamed, Honest
<1>6. ASSUME NEW o \in Nodes, NobodyBlamed(o, k) PROVE NobodyBlamed(end(o), k)
  <2>1. end(o).peer = o.peer
    BY DEF Nodes
  <2> HIDE DEF end
  <2> QED
    BY <1>6, <2>1 DEF NobodyBlamed, Honest
<1> HIDE DEF end
<1>7. CASE ~turn.more
  BY <1>2, <1>7
<1>8. CASE turn.more /\ first = {}
  <2>1. BacklogTurn(turn) = {last}
    BY <1>2, <1>8
  <2>2. NobodyBlamed(last.node, k)
    BY <1>4, <1>5, <1>6
  <2> HIDE DEF last
  <2> QED
    BY <1>3, <2>1, <2>2 DEF HonestTurns
<1>9. CASE turn.more /\ first # {}
  <2>1. Min(first) \in DOMAIN n.received
    <3>1. first \subseteq DOMAIN n.received
      OBVIOUS
    <3>2. DOMAIN n.received = 1 .. Len(n.received) /\ Len(n.received) \in Nat
      BY <1>4 DEF Nodes
    <3>3. first \subseteq 0 .. Len(n.received)
      BY <3>1, <3>2
    <3> HIDE DEF first
    <3>4. Min(first) \in first
      BY <1>9, <3>2, <3>3, MinMax
    <3> QED
      BY <3>1, <3>4
  <2>2. BacklogTurn(turn) = {next}
    BY <1>2, <1>9
  <2> HIDE DEF first
  <2>3. NodeOK(m) /\ NobodyBlamed(m, n)
    BY <1>1, <1>4, <1>5, <1>9, <2>1, HandOnOK, HandOnShown DEF NobodyBlamed
  <2> HIDE DEF m
  <2>4. m \in Nodes /\ NobodyBlamed(m, k)
    BY <1>5, <2>3, BlamesTwice DEF NodeOK
  <2>5. NobodyBlamed(next.node, k)
    BY <1>6, <2>4
  <2> HIDE DEF next
  <2> QED
    BY <1>3, <2>2, <2>5 DEF HonestTurns
<1> QED
  BY <1>7, <1>8, <1>9

LEMMA RunBacklogShown ==
    ASSUME SyncInv, Honest(node), RunBacklog
    PROVE  NobodyBlamed(node', node)
<1> DEFINE n == [node EXCEPT !.backlog = FALSE]
           k == node'
           m == [n EXCEPT !.suspend = FALSE]
           start == [node |-> m, more |-> TRUE]
           l == Len(n.received) + Len(n.fresh) + 1
<1>1. n \in Nodes /\ NodeOK(n) /\ n.received \in Seq(Blocks) /\ n.fresh \in Seq(Blocks)
      /\ n.calls \in Seq(Blocks) /\ n.peer = node.peer
  BY FetchFlag DEF SyncInv, NodeOK, Nodes
<1>2. k \in ProcessBacklog(n)
  BY DEF RunBacklog
<1>3. NobodyBlamed(n, node)
  BY <1>1, BlamesNobody
<1> HIDE DEF n, k
<1>4. l \in Nat
  <2> DEFINE s == n.received
             t == n.fresh
  <2>1. s \in Seq(Blocks) /\ t \in Seq(Blocks)
    BY <1>1
  <2> HIDE DEF s, t
  <2>2. Len(s) + Len(t) + 1 \in Nat
    BY <2>1
  <2> QED
    BY <2>2 DEF s, t
<1>5. CASE Len(n.calls) >= MaxCalls
  BY <1>2, <1>3, <1>5 DEF ProcessBacklog, k
<1>6. CASE ~(Len(n.calls) >= MaxCalls)
  <2>1. PICK turn \in Backlog(start, l) :
           k = [turn.node EXCEPT !.fetch = @ \/ ~turn.node.suspend]
    BY <1>2, <1>6 DEF ProcessBacklog, Backlog
  <2>2. start \in HonestTurns(node)
    <3>1. NodeOK(m) /\ m \in Nodes /\ m.calls = n.calls /\ m.peer = n.peer
      BY <1>1, FetchFlag DEF NodeOK, Nodes
    <3>2. Len(n.calls) < MaxCalls
      BY <1>1, <1>6, Constants
    <3> HIDE DEF m
    <3>3. NobodyBlamed(m, node)
      BY <1>3, <3>1 DEF NobodyBlamed, Honest
    <3>4. start.node = m /\ start.more = TRUE /\ start \in [node : Nodes, more : BOOLEAN]
      BY <3>1
    <3> HIDE DEF start
    <3> QED
      BY <3>1, <3>2, <3>3, <3>4 DEF HonestTurns, Turns
  <2> HIDE DEF start, l
  <2>3. \A t \in HonestTurns(node) : BacklogTurn(t) \subseteq HonestTurns(node)
    BY TurnShown
  <2>4. Backlog(start, l) \subseteq HonestTurns(node)
    BY <1>4, <2>2, <2>3, Turning
  <2>5. turn \in HonestTurns(node)
    BY <2>1, <2>4
  <2>6. turn.node \in Nodes /\ NobodyBlamed(turn.node, node)
    BY <2>5 DEF HonestTurns, Turns
  <2>7. k.peer = turn.node.peer
    BY <2>1, <2>6 DEF Nodes
  <2> QED
    BY <2>6, <2>7 DEF NobodyBlamed, Honest, k
<1> QED
  BY <1>5, <1>6

\* Peers in normal operation are asked what they have.
LEMMA OnAcceptedShown ==
    ASSUME NEW n, NodeOK(n), NEW b \in Blocks
    PROVE  NoneMore(OnAccepted(n, b), n)
<1> DEFINE S == Having(n, b)
           m == WithPeers(n, S, LAMBDA q : Processed(n.head, [q EXCEPT !.seen = b], b))
           idle == {p \in ActivePeers(n) :
                      LET q == n.peer[p] IN
                      q.toGet = <<>> /\ q.processing = {} /\ ~q.theyNeed /\ ~q.weNeed}
           k == WithPeers(m, idle, LAMBDA q : Synchronizing(n.head, q))
<1>1. n \in Nodes /\ n.head \in Blocks \cup {None}
      /\ \A o \in ActivePeers(n) : Joined(n.peer[o], o)
  BY ActiveJoined, JoinedPeer DEF NodeOK, Nodes
<1>2. OnAccepted(n, b) = k
  BY DEF OnAccepted
<1>3. \A o \in S \cup idle : o \in ActivePeers(n)
  BY DEF Having
<1> HIDE DEF S, idle
<1>4. \A o \in Peers :
         m.peer[o] = IF o \in S THEN Processed(n.head, [n.peer[o] EXCEPT !.seen = b], b)
                     ELSE n.peer[o]
  BY <1>1 DEF WithPeers, Nodes
<1>5. \A o \in Peers :
         k.peer[o] = IF o \in idle THEN Synchronizing(n.head, m.peer[o]) ELSE m.peer[o]
  BY <1>1 DEF WithPeers, Nodes
<1> HIDE DEF m, k
<1>6. ASSUME NEW o \in Peers
      PROVE  /\ NoMore(m.peer[o], n.peer[o])
             /\ o \in ActivePeers(n) => Joined(m.peer[o], o)
  <2> DEFINE q == n.peer[o]
             r == [q EXCEPT !.seen = b]
  <2>1. CASE o \in S
    <3>1. Joined(q, o) /\ q \in Connections
      BY <1>1, <1>3, <2>1 DEF Joined, PeerOK
    <3>2. Kept(r, q, o)
      BY <3>1, SeenOK
    <3>3. r.processing = q.processing /\ r.offered = q.offered /\ r.out = q.out
          /\ r.conn = q.conn
      BY <3>1 DEF Connections
    <3>4. m.peer[o] = Processed(n.head, r, b)
      BY <1>4, <2>1
    <3> HIDE DEF r, q
    <3>5. Joined(r, o)
      BY <3>2 DEF Kept
    <3>6. NoMore(r, q)
      BY <3>3, SameMail
    <3>7. NoMore(Processed(n.head, r, b), r) /\ Kept(Processed(n.head, r, b), r, o)
      BY <1>1, <3>5, ProcessedShown, ProcessedOK
    <3>8. NoMore(m.peer[o], q) /\ Joined(m.peer[o], o)
      BY <3>4, <3>6, <3>7 DEF NoMore, Kept
    <3> QED
      BY <3>8 DEF q
  <2>2. CASE o \notin S
    BY <1>1, <1>4, <2>2 DEF NoMore
  <2> QED
    BY <2>1, <2>2
<1>7. ASSUME NEW o \in Peers PROVE NoMore(k.peer[o], n.peer[o])
  <2>1. CASE o \in idle
    <3>1. NoMore(Synchronizing(n.head, m.peer[o]), m.peer[o])
      BY <1>1, <1>3, <1>6, <2>1, SynchronizingShown
    <3> QED
      BY <1>5, <1>6, <2>1, <3>1 DEF NoMore
  <2>2. CASE o \notin idle
    BY <1>5, <1>6, <2>2
  <2> QED
    BY <2>1, <2>2
<1> QED
  BY <1>2, <1>7 DEF NoneMore

-----------------------------------------------------------------------------
(* Who is blamed by the actions *)

\* A peer that has a block the chain refuses
Guilty(p) == ChainOf(p) \cap world.refused # {}

Just(m, n) ==
    /\ Honest(m)
    /\ \A p \in Peers :
          m.peer[p].conn = "closing" =>
            n.peer[p].conn = "closing" \/ n.peer[p].twice \/ Guilty(p)

LEMMA NobodyJust ==
    ASSUME NEW n, Honest(n)
    PROVE  \A m : NobodyBlamed(m, n) \/ NoneMore(m, n) => Just(m, n)
BY BlamesNobody DEF NobodyBlamed, Just

\* Peers that have a doomed block are given up.
LEMMA GivenUpJust ==
    ASSUME NEW n \in Nodes, Honest(n), WorldOK, NEW b \in Doomed, NEW S,
           \A p \in S \cap Peers : b \in ChainOf(p)
    PROVE  Just(Disconnect(n, S), n)
<1>1. \A p \in S \cap Peers : Guilty(p)
  <2> SUFFICES ASSUME NEW p \in S \cap Peers PROVE Guilty(p)
    OBVIOUS
  <2>1. ToSet(Path[b]) \subseteq ChainOf(p)
    BY Ancestors DEF ChainOf, WorldOK
  <2> QED
    BY <2>1 DEF Guilty, Doomed
<1> QED
  BY <1>1, GivenUpShown DEF Just, Honest

LEMMA FirstOnList ==
    ASSUME NEW n, NodeOK(n), NEW b
    PROVE  \A o \in Offering(n, b) : o \in Peers /\ b \in ChainOf(o)
<1> SUFFICES ASSUME NEW o \in Offering(n, b) PROVE o \in Peers /\ b \in ChainOf(o)
  OBVIOUS
<1>1. o \in Peers /\ n.peer[o].toGet # <<>> /\ n.peer[o].toGet[1] = b
  BY DEF Offering, ActivePeers
<1>2. n.peer[o].toGet \in Seq(Blocks) /\ ToSet(n.peer[o].toGet) \subseteq ChainOf(o)
  BY <1>1 DEF NodeOK, PeerOK, Connections
<1>3. 1 \in DOMAIN n.peer[o].toGet
  BY <1>1, <1>2
<1> QED
  BY <1>1, <1>2, <1>3 DEF ToSet

LEMMA ReceiveIdsJust ==
    ASSUME SyncInv, Good(node), Honest(node), NEW p \in Peers, ReceiveIds(p)
    PROVE  Just(node', node)
<1> DEFINE q == node.peer[p]
           k == node'
<1>1. PICK n, s, reply :
         /\ k = OnIds(n, p, reply) /\ AnswerTaken(n, p, s, reply)
         /\ \A o \in Peers : o # p => n.peer[o] = node.peer[o]
         /\ n.peer[p] = [q EXCEPT !.out = Tail(@), !.inSync = InSync(reply, s)]
  BY AnswerArrived
<1>2. q \in Connections /\ q.out # <<>> /\ WorldOK
  BY PeerOKInNodes DEF ReceiveIds, SyncInv, NodeOK
<1>3. NoMore(n.peer[p], q) /\ n.peer[p].twice = q.twice /\ n.peer[p].conn = q.conn
  <2>1. NoMore(n.peer[p], q)
    <3> HIDE DEF q
    <3>1. NoMore([q EXCEPT !.out = Tail(@), !.inSync = InSync(reply, s)], q)
      BY <1>2, TakenShown
    <3> QED
      BY <1>1, <3>1
  <2>2. n.peer[p].twice = q.twice /\ n.peer[p].conn = q.conn
    BY <1>1, <1>2 DEF Connections
  <2> QED
    BY <2>1, <2>2
<1>4. NoneMore(n, node)
  BY <1>1, <1>3 DEF NoneMore, NoMore
<1> HIDE DEF k, q
<1>5. BlamedTwice(k, n, p)
  BY <1>1, <1>2, OnIdsShown
<1>6. Just(k, node)
  BY <1>3, <1>4, <1>5 DEF BlamedTwice, Just, Honest, NoneMore, NoMore, q
<1> QED
  BY <1>6 DEF k

LEMMA ReceiveBlockJust ==
    ASSUME SyncInv, Good(node), Honest(node), NEW p \in Peers, ReceiveBlock(p)
    PROVE  Just(node', node)
<1> DEFINE q == node.peer[p]
           b == Head(q.out).block
           n == [node EXCEPT !.peer[p].out = Tail(@)]
<1>1. /\ Joined(q, p) /\ q.out # <<>> /\ Head(q.out).kind = "block"
      /\ node \in Nodes /\ q \in Connections
  BY Sending DEF ReceiveBlock, SyncInv
<1>2. node' = OnSyncBlock(n, p, b)
  BY DEF ReceiveBlock
<1>3. b \in q.requested /\ \A i \in BlocksIn(Taken(q).out) : Taken(q).out[i].block # b
  <2>1. TRUE \in BOOLEAN
    OBVIOUS
  <2> QED
    BY <1>1, <2>1, TakenOK
<1>4. NodeOK(n) /\ n.peer[p] = Taken(q) /\ n.peer[p].conn # "none"
  BY <1>1, TakenNode DEF Good
<1>5. Taken(q).requested = q.requested
  BY <1>1 DEF Taken, Connections
<1>6. NoneMore(n, node)
  <2>1. NoMore(Taken(q), q)
    BY <1>1, TakenShown
  <2>2. \A o \in Peers : o # p => n.peer[o] = node.peer[o]
    BY <1>1 DEF Nodes
  <2> HIDE DEF n
  <2> QED
    BY <1>4, <2>1, <2>2 DEF NoneMore, NoMore
<1> HIDE DEF n, b
<1>7. NoneMore(OnSyncBlock(n, p, b), n)
  BY <1>3, <1>4, <1>5, OnSyncBlockShown
<1>8. NoneMore(OnSyncBlock(n, p, b), node)
  BY <1>6, <1>7, MoreTwice
<1> QED
  BY <1>2, <1>8, NobodyJust

\* A block that is refused was sent by a peer that offered it and comes first on
\* the lists of others that have it.
LEMMA OnNewBlockJust ==
    ASSUME WorldOK, NEW n, NodeOK(n), Honest(n), NEW p \in Peers, n.peer[p].conn # "none",
           NEW b \in Blocks, b \in ChainOf(p)
    PROVE  Just(OnNewBlock(n, p, b), n)
<1> DEFINE q == n.peer[p]
           r == [q EXCEPT !.fetched = {}]
           m == [n EXCEPT !.peer[p].fetched = {}]
           offering == {o \in ActivePeers(m) : b \in m.peer[o].offered}
           base == IF b \in m.recent THEN m ELSE Accepted(m, b)
           told == WithPeers(base, offering, LAMBDA s : [s EXCEPT !.seen = b])
           refused == Disconnect(m, {p} \cup Offering(m, b))
           behind == StartSynchronizing(m, p)
           handled ==
             IF b \in m.recent \/ Accepts(m, b) THEN told
             ELSE IF Parent[b] \in m.have \cup {None} THEN refused ELSE behind
<1>1. n \in Nodes /\ q \in Connections /\ Joined(q, p)
  BY JoinedPeer DEF NodeOK, Joined, PeerOK
<1>2. /\ r \in Connections /\ SameOwed(r, q) /\ r.toGet = q.toGet /\ r.twice = q.twice
      /\ r.processing = q.processing /\ r.offered = q.offered /\ r.out = q.out
      /\ r.conn = q.conn
  BY <1>1 DEF Connections, SameOwed
<1>3. m = [n EXCEPT !.peer[p] = r]
  BY <1>1 DEF Nodes, Connections
<1>4. OnNewBlock(n, p, b) = [handled EXCEPT !.refetch = @ \/ ~Busy(handled.peer[p])]
  BY DEF OnNewBlock
<1> HIDE DEF m, r
<1>5. /\ NodeOK(m) /\ m \in Nodes /\ NoneMore(m, n) /\ m.peer[p].conn # "none"
      /\ \A o \in Peers : m.peer[o].twice = n.peer[o].twice
  <2>1. NodeOK(m)
    BY <1>1, <1>2, <1>3, OneFieldOK DEF Called
  <2>2. \A o \in Peers : m.peer[o] = IF o = p THEN r ELSE n.peer[o]
    BY <1>1, <1>3 DEF Nodes
  <2>3. NoMore(r, q)
    BY <1>2, SameMail
  <2> QED
    BY <1>2, <2>1, <2>2, <2>3 DEF NodeOK, NoneMore, NoMore
<1>6. Honest(m)
  BY <1>5, StillHonest
<1>7. NoneMore(told, m) /\ \A flag : [told EXCEPT !.refetch = flag].peer = told.peer
  <2>1. NodeOK(base) /\ base \in Nodes /\ base.peer = m.peer
    BY <1>5, AcceptedOK DEF NodeOK
  <2> HIDE DEF base, offering
  <2>2. \A o \in Peers :
           told.peer[o] = IF o \in offering THEN [m.peer[o] EXCEPT !.seen = b] ELSE m.peer[o]
    BY <2>1 DEF WithPeers, Nodes
  <2> HIDE DEF told
  <2>3. \A o \in Peers : NoMore([m.peer[o] EXCEPT !.seen = b], m.peer[o])
    <3> SUFFICES ASSUME NEW o \in Peers PROVE NoMore([m.peer[o] EXCEPT !.seen = b], m.peer[o])
      OBVIOUS
    <3> DEFINE s == m.peer[o]
               t == [s EXCEPT !.seen = b]
    <3>1. s \in Connections
      BY <1>5 DEF Nodes
    <3>2. t.processing = s.processing /\ t.offered = s.offered /\ t.out = s.out
          /\ t.conn = s.conn
      BY <3>1 DEF Connections
    <3> HIDE DEF t, s
    <3>3. NoMore(t, s)
      BY <3>2, SameMail
    <3> QED
      BY <3>3 DEF s, t
  <2>4. \A flag : [told EXCEPT !.refetch = flag].peer = told.peer
    BY <2>1 DEF WithPeers, Nodes, told
  <2> QED
    BY <2>2, <2>3, <2>4 DEF NoneMore, NoMore
<1>8. NoneMore(behind, m) /\ \A flag : [behind EXCEPT !.refetch = flag].peer = behind.peer
  <2>1. \A flag : [behind EXCEPT !.refetch = flag].peer = behind.peer
    BY <1>5 DEF StartSynchronizing, WithPeers, Nodes
  <2> QED
    BY <1>5, <2>1, NextIdsShown
<1>9. ASSUME ~(b \in m.recent \/ Accepts(m, b)), Parent[b] \in m.have \cup {None}
      PROVE  Just(refused, m)
  <2>1. b \in world.refused
    BY <1>9 DEF Accepts
  <2>2. b \in Doomed
    <3>1. b \in ToSet(Path[b])
      BY PathFacts, Constants
    <3> QED
      BY <2>1, <3>1 DEF Doomed
  <2>3. \A o \in ({p} \cup Offering(m, b)) \cap Peers : b \in ChainOf(o)
    BY <1>5, FirstOnList
  <2> QED
    BY <1>5, <1>6, <2>2, <2>3, GivenUpJust
<1>13. \A flag : [refused EXCEPT !.refetch = flag].peer = refused.peer
  BY <1>5 DEF Disconnect, WithPeers, Nodes
<1> HIDE DEF told, refused, behind
<1>10. Just(told, m) /\ Just(behind, m)
  BY <1>6, <1>7, <1>8, NobodyJust
<1>11. Just(handled, m) /\ \A flag : [handled EXCEPT !.refetch = flag].peer = handled.peer
  BY <1>7, <1>8, <1>9, <1>10, <1>13
<1> HIDE DEF handled
<1>12. OnNewBlock(n, p, b).peer = handled.peer
  <2> DEFINE flag == handled.refetch \/ ~Busy(handled.peer[p])
  <2>1. OnNewBlock(n, p, b) = [handled EXCEPT !.refetch = flag]
    BY <1>4
  <2> HIDE DEF flag
  <2> QED
    BY <1>11, <2>1
<1> QED
  BY <1>5, <1>11, <1>12 DEF Just, Honest, NoneMore, NoMore

LEMMA ReceiveNewBlockJust ==
    ASSUME SyncInv, Good(node), Honest(node), NEW p \in Peers, ReceiveNewBlock(p)
    PROVE  Just(node', node)
<1> DEFINE q == node.peer[p]
           b == Head(q.out).block
           n == [node EXCEPT !.peer[p].out = Tail(@)]
           k == node'
<1>1. /\ Joined(q, p) /\ q.out # <<>> /\ Head(q.out).kind = "new" /\ WorldOK
      /\ node \in Nodes /\ q \in Connections
  BY Sending DEF ReceiveNewBlock, SyncInv
<1>2. k = OnNewBlock(n, p, b)
  BY DEF ReceiveNewBlock
<1>3. b \in Blocks
  <2>1. TRUE \in BOOLEAN
    OBVIOUS
  <2>2. Head(q.out) \in Messages
    BY <1>1, <2>1, TakenOK
  <2> QED
    BY <1>1, <2>2 DEF Messages
<1>4. b \in ChainOf(p)
  <2>1. b \in Shown(q)
    BY <1>1, RestShown
  <2> QED
    BY <2>1 DEF Honest
<1>5. NodeOK(n) /\ n.peer[p] = Taken(q) /\ n.peer[p].conn # "none"
  BY <1>1, TakenNode DEF Good
<1>6. NoneMore(n, node) /\ \A o \in Peers : n.peer[o].twice = node.peer[o].twice
  <2>1. NoMore(Taken(q), q) /\ Taken(q).twice = q.twice
    <3>1. Taken(q).twice = q.twice
      BY <1>1 DEF Taken, Connections
    <3> QED
      BY <1>1, <3>1, TakenShown
  <2>2. \A o \in Peers : o # p => n.peer[o] = node.peer[o]
    BY <1>1 DEF Nodes
  <2> HIDE DEF n
  <2> QED
    BY <1>5, <2>1, <2>2 DEF NoneMore, NoMore
<1> HIDE DEF n, b, k
<1>7. Just(OnNewBlock(n, p, b), n)
  <2>1. Honest(n)
    BY <1>6, StillHonest
  <2> QED
    BY <1>1, <1>3, <1>4, <1>5, <2>1, OnNewBlockJust
<1>8. Just(k, node)
  BY <1>2, <1>6, <1>7 DEF Just, NoneMore, NoMore
<1> QED
  BY <1>8 DEF k

\* A block that is refused when its turn comes builds on doomed ones, and each
\* peer that has it has them.
LEMMA SendBlockJust ==
    ASSUME SyncInv, Good(node), Honest(node), SendBlockToDelegate
    PROVE  Just(node', node)
<1> DEFINE b == Head(node.calls)
           calls == Tail(node.calls)
           n == [node EXCEPT !.calls = Tail(@), !.backlog = TRUE]
           m == Accepted(n, b)
<1>1. /\ NodeOK(node) /\ node \in Nodes /\ node.calls # <<>> /\ node.calls \in Seq(Blocks)
      /\ Len(node.calls) <= MaxCalls /\ WorldOK /\ ChainGood(node)
  BY DEF SyncInv, NodeOK, Nodes, SendBlockToDelegate, Good
<1>2. b \in Blocks /\ calls \in Seq(Blocks) /\ Len(calls) <= MaxCalls
      /\ b = node.calls[1] /\ 1 \in DOMAIN node.calls
  BY <1>1, Constants
<1>3. node' = IF Accepts(n, b) THEN OnAccepted(m, b) ELSE OnRefused(n, b)
  BY DEF SendBlockToDelegate
<1>4. /\ n \in Nodes /\ n.peer = node.peer /\ n.active = node.active
      /\ n.have = node.have /\ n.recent = node.recent /\ n.head = node.head
      /\ n.calls = calls
  <2>1. n = [node EXCEPT !.calls = calls, !.backlog = TRUE]
    OBVIOUS
  <2> HIDE DEF calls, n
  <2> QED
    BY <1>1, <1>2, <2>1 DEF Nodes
<1> HIDE DEF n, b, calls
<1>5. NodeOK(n)
  BY <1>1, <1>2, <1>4, OthersOK
<1>6. Honest(n)
  BY <1>4 DEF Honest
<1>7. CASE Accepts(n, b)
  <2>1. NodeOK(m) /\ m.peer = node.peer
    BY <1>2, <1>4, <1>5, AcceptedOK
  <2> HIDE DEF m
  <2>2. NoneMore(OnAccepted(m, b), m)
    BY <1>2, <2>1, OnAcceptedShown
  <2>3. NoneMore(OnAccepted(m, b), node)
    BY <2>1, <2>2 DEF NoneMore
  <2> QED
    BY <1>3, <1>7, <2>3, NobodyJust
<1>8. CASE ~Accepts(n, b)
  <2>1. b \notin n.have /\ (b \in world.refused \/ Parent[b] \notin n.have \cup {None})
    BY <1>8 DEF Accepts
  <2>2. Parent[b] \in node.have \cup {None} \cup Doomed
    <3>1. ~ \E j \in 1 .. 1 - 1 : node.calls[j] = Parent[node.calls[1]]
      OBVIOUS
    <3> QED
      BY <1>1, <1>2, <3>1 DEF ChainGood, InOrder
  <2>3. ToSet(Path[b]) = ToSet(Path[Parent[b]]) \cup {b}
    BY <1>2, PathFacts, Constants
  <2>4. b \in Doomed
    BY <1>2, <1>4, <2>1, <2>2, <2>3 DEF Doomed
  <2>5. \A o \in Having(n, b) \cap Peers : b \in ChainOf(o)
    BY <1>6 DEF Having, Honest, Shown
  <2>6. Just(OnRefused(n, b), n)
    BY <1>1, <1>4, <1>6, <2>4, <2>5, GivenUpJust DEF OnRefused
  <2> QED
    BY <1>3, <1>4, <1>8, <2>6 DEF Just
<1> QED
  BY <1>7, <1>8

\* A peer is asked for blocks it offered.
LEMMA FetchItemsJust ==
    ASSUME SyncInv, Honest(node), FetchItems
    PROVE  Just(node', node)
<1>1. PICK ask \in SUBSET {bp \in node.wanted \X ActivePeers(node) :
                     ~Busy(node.peer[bp[2]]) /\ bp[1] \in node.peer[bp[2]].offered} :
         LET of(p) == {bp[1] : bp \in {x \in ask : x[2] = p}}
             asked == {bp[1] : bp \in ask}
         IN  node' = [node EXCEPT
                  !.refetch = FALSE,
                  !.wanted = @ \ asked,
                  !.peer = [p \in Peers |->
                      IF of(p) = {} THEN @[p]
                      ELSE AskedFor(@[p], CHOOSE b \in of(p) : TRUE)]]
  BY DEF FetchItems
<1> DEFINE of(p) == {bp[1] : bp \in {x \in ask : x[2] = p}}
           item(p) == CHOOSE b \in of(p) : TRUE
           k == node'
<1>2. node \in Nodes
  BY DEF SyncInv, NodeOK
<1>3. \A p \in Peers :
         k.peer[p] = IF of(p) = {} THEN node.peer[p] ELSE AskedFor(node.peer[p], item(p))
  BY <1>1, <1>2 DEF Nodes
<1>4. \A p \in Peers : of(p) # {} => item(p) \in of(p)
  OBVIOUS
<1>5. \A p \in Peers : of(p) \subseteq node.peer[p].offered
  <2> SUFFICES ASSUME NEW p \in Peers, NEW x \in ask, x[2] = p
               PROVE  x[1] \in node.peer[p].offered
    OBVIOUS
  <2> QED
    OBVIOUS
<1> HIDE DEF of, item, k
<1>6. ASSUME NEW p \in Peers, of(p) # {}
      PROVE  NoMore(AskedFor(node.peer[p], item(p)), node.peer[p])
  <2> DEFINE q == node.peer[p]
             b == item(p)
             r == AskedFor(q, b)
             m == [kind |-> "new", block |-> b]
  <2>1. q \in Connections /\ b \in q.offered /\ b \in Blocks
    BY <1>2, <1>4, <1>5, <1>6 DEF Nodes, Connections
  <2>2. m \in Messages /\ m.block = b
    BY <2>1 DEF Messages
  <2>3. r.processing = q.processing /\ r.offered = q.offered /\ r.conn = q.conn
        /\ r.out = Append(q.out, m)
    BY <2>1 DEF AskedFor, Connections
  <2> HIDE DEF r, m, b, q
  <2>4. NoMore(r, q)
    BY <2>1, <2>2, <2>3, OutShown
  <2> QED
    BY <2>4 DEF r, b, q
<1>7. NoneMore(k, node)
  BY <1>3, <1>6 DEF NoneMore, NoMore
<1>8. Just(k, node)
  BY <1>7, NobodyJust
<1> QED
  BY <1>8 DEF k

LEMMA ServeIdsJust ==
    ASSUME SyncInv, Honest(node), NEW p \in Peers, ServeIds(p)
    PROVE  Just(node', node)
<1> DEFINE q == node.peer[p]
           synopsis == {Path[tip[p]][k] : k \in Steps(Number(tip[p]))}
           they == ~InSync(Reply(Path[node.head], synopsis), synopsis)
           r == [q EXCEPT !.theyNeed = they]
           n == [node EXCEPT !.peer[p].theyNeed = they]
<1>1. NodeOK(node) /\ node \in Nodes /\ q \in Connections /\ q.conn # "none"
  BY PeerOKInNodes DEF SyncInv, NodeOK, ServeIds
<1>2. node' = StartSynchronizing(n, p) \/ node' = n
  BY DEF ServeIds
<1>3. they \in BOOLEAN
  BY DEF InSync
<1> HIDE DEF they
<1>4. /\ r \in Connections /\ SameOwed(r, q) /\ r.toGet = q.toGet /\ r.conn = q.conn
      /\ r.processing = q.processing /\ r.offered = q.offered /\ r.out = q.out
  BY <1>1, <1>3 DEF Connections, SameOwed
<1>5. n = [node EXCEPT !.peer[p] = r]
  BY <1>1 DEF Nodes, Connections
<1> HIDE DEF n, r
<1>6. NodeOK(n) /\ n.peer[p].conn # "none" /\ NoneMore(n, node)
  <2>1. NodeOK(n)
    BY <1>1, <1>4, <1>5, OneFieldOK DEF Called
  <2>2. n.peer[p] = r
    BY <1>1, <1>5 DEF Nodes
  <2>3. NoMore(r, q)
    BY <1>4, SameMail
  <2>4. NoneMore(n, node)
    BY <1>1, <1>5, <2>3, OneShown
  <2> QED
    BY <1>1, <1>4, <2>1, <2>2, <2>4
<1>7. NoneMore(StartSynchronizing(n, p), n)
  BY <1>6, NextIdsShown
<1>8. NoneMore(StartSynchronizing(n, p), node)
  BY <1>6, <1>7, MoreTwice
<1> QED
  BY <1>2, <1>6, <1>8, NobodyJust

LEMMA ServeBlockJust ==
    ASSUME SyncInv, Honest(node), NEW p \in Peers, NEW b \in Blocks, ServeBlock(p, b)
    PROVE  Just(node', node)
<1> DEFINE q == node.peer[p]
           r == [q EXCEPT !.seen = b]
<1>1. node \in Nodes /\ q \in Connections
  BY PeerOKInNodes DEF SyncInv, NodeOK
<1>2. r.processing = q.processing /\ r.offered = q.offered /\ r.out = q.out /\ r.conn = q.conn
  BY <1>1 DEF Connections
<1>3. node' = [node EXCEPT !.peer[p] = r]
  BY <1>1 DEF Nodes, Connections, ServeBlock
<1> HIDE DEF r
<1>4. NoMore(r, q)
  BY <1>2, SameMail
<1>5. NoneMore([node EXCEPT !.peer[p] = r], node)
  BY <1>1, <1>4, OneShown
<1> QED
  BY <1>3, <1>5, NobodyJust

LEMMA ConnectJust ==
    ASSUME SyncInv, Honest(node), NEW p \in Peers, Connect(p)
    PROVE  Just(node', node)
<1> DEFINE r == [NoConnection EXCEPT !.conn = "active", !.theyNeed = TRUE]
           n == [node EXCEPT !.peer[p] = r]
<1>1. NodeOK(node) /\ node \in Nodes /\ node.peer[p] = NoConnection
  BY DEF SyncInv, NodeOK, PeerOK, Connect
<1>2. PeerOK(NoConnection, p) /\ NoConnection.requested = {} /\ NoConnection \in Connections
  BY NoConnectionOK
<1>3. /\ r \in Connections /\ r.conn = "active" /\ r.requested = {}
      /\ r.out = <<>> /\ r.toGet = NoConnection.toGet /\ r.out = NoConnection.out
      /\ r.processing = {} /\ r.offered = {}
  BY <1>2 DEF Connections, NoConnection
<1> HIDE DEF r
<1>4. PeerOK(r, p)
  BY <1>2, <1>3 DEF PeerOK, OwesEachOnce
<1>5. NodeOK(n) /\ n.peer[p] = r
  <2>1. r.requested = node.peer[p].requested
    BY <1>1, <1>2, <1>3
  <2> QED
    BY <1>1, <1>4, <2>1, OnePeer
<1>6. node' = StartSynchronizing(n, p)
  BY DEF Connect, r
<1>7. NoneMore(n, node)
  <2>1. NoMore(r, node.peer[p])
    BY <1>3 DEF NoMore, Shown, NewIn
  <2> QED
    BY <1>1, <2>1, OneShown
<1> HIDE DEF n
<1>8. NoneMore(StartSynchronizing(n, p), n)
  BY <1>3, <1>5, NextIdsShown
<1>9. NoneMore(StartSynchronizing(n, p), node)
  BY <1>7, <1>8, MoreTwice
<1> QED
  BY <1>6, <1>9, NobodyJust

LEMMA GrowHonest ==
    ASSUME SyncInv, Honest(node), NEW p \in Peers, Grow(p)
    PROVE  /\ Honest(node)'
           /\ \A o \in Peers : node'.peer[o].conn = node.peer[o].conn
<1> DEFINE b == CHOOSE b \in ToSet(Path[world.last[p]]) : Parent[b] = tip[p]
           q == node.peer[p]
           r == [q EXCEPT !.offered = @ \cup {b}]
           offer == [node EXCEPT !.peer[p].offered = @ \cup {b}]
           wanted == [offer EXCEPT !.wanted = @ \cup {b},
                                   !.refetch = @ \/ b \notin node.wanted]
<1>1. /\ NodeOK(node) /\ node \in Nodes /\ q \in Connections
      /\ tip[p] # world.last[p] /\ tip' = [tip EXCEPT ![p] = b]
      /\ tip \in [Peers -> Blocks \cup {None}]
  BY PeerOKInNodes DEF SyncInv, NodeOK, WorldOK, Grow
<1>2. b \in Blocks
  BY <1>1, NextBlock DEF SyncInv
<1>3. node' = offer \/ node' = wanted \/ node' = node
  BY DEF Grow
<1> HIDE DEF b
<1>4. \A o \in Peers : ChainOf(o) \subseteq ToSet(Path[tip'[o]])
  BY GrowStep DEF ChainOf
<1>5. b \in ToSet(Path[tip'[p]])
  <2>1. tip'[p] = b /\ b # None
    BY <1>1, <1>2, Constants
  <2> QED
    BY <1>2, <2>1, PathFacts
<1>6. Shown(r) \subseteq Shown(q) \cup {b} /\ r.conn = q.conn
  <2>1. /\ r.processing = q.processing /\ r.out = q.out /\ r.conn = q.conn
        /\ r.offered = q.offered \cup {b}
    BY <1>1 DEF Connections
  <2> HIDE DEF r
  <2> QED
    BY <2>1 DEF Shown
<1>7. offer = [node EXCEPT !.peer[p] = r]
  BY <1>1 DEF Nodes, Connections
<1>8. wanted.peer = offer.peer
  BY <1>1 DEF Nodes
<1> HIDE DEF offer, r, wanted
<1>9. \A o \in Peers : node'.peer[o] = node.peer[o] \/ (o = p /\ node'.peer[o] = r)
  BY <1>1, <1>3, <1>7, <1>8 DEF Nodes
<1>10. ASSUME NEW o \in Peers
       PROVE  /\ Shown(node'.peer[o]) \subseteq ToSet(Path[tip'[o]])
              /\ node'.peer[o].conn = node.peer[o].conn
  <2>1. Shown(node.peer[o]) \subseteq ChainOf(o)
    BY DEF Honest
  <2> QED
    BY <1>4, <1>5, <1>6, <1>9, <2>1
<1> QED
  BY <1>10 DEF Honest, ChainOf, Shown, NewIn

LEMMA HonestStart ==
    ASSUME Init
    PROVE  Honest(node)
BY DEF Init, Honest, Shown, NewIn, NoConnection

LEMMA StepHonest ==
    ASSUME SyncInv, Good(node), Honest(node), [Next]_vars
    PROVE  /\ Honest(node)'
           /\ \A p \in Peers : Dropped(p) /\ ~node.peer[p].twice => Guilty(p)
<1> DEFINE Goal == /\ Honest(node)'
                   /\ \A p \in Peers : Dropped(p) /\ ~node.peer[p].twice => Guilty(p)
<1>1. NodeOK(node) /\ node \in Nodes
  BY DEF SyncInv, NodeOK
<1>2. ASSUME Just(node', node), UNCHANGED <<world, tip>> PROVE Goal
  BY <1>2 DEF Just, Dropped, Honest, ChainOf, Shown, NewIn
<1>3. ASSUME NEW p \in Peers, Connect(p) PROVE Goal
  BY <1>2, <1>3, ConnectJust DEF Connect
<1>4. ASSUME NEW p \in Peers, Close(p) PROVE Goal
  BY <1>1, <1>2, <1>4, ClosedShown, NobodyJust DEF Close
<1>5. ASSUME NEW p \in Peers, Lose(p) PROVE Goal
  BY <1>1, <1>2, <1>5, ClosedShown, NobodyJust DEF Lose
<1>6. ASSUME NEW p \in Peers, TimeOut(p) \/ EndStalled(p) PROVE Goal
  <2>1. node' = Disconnect(node, {p}) /\ UNCHANGED <<world, tip>>
    BY <1>6 DEF TimeOut, EndStalled
  <2>2. \A o \in Peers :
           /\ Shown(node'.peer[o]) = Shown(node.peer[o])
           /\ node'.peer[o].conn = "closing" => node.peer[o].conn = "closing" \/ o = p
    BY <1>1, <2>1, GivenUpShown
  <2>3. Honest(node)'
    BY <2>1, <2>2 DEF Honest, ChainOf, Shown, NewIn
  <2>4. \A o \in Peers : ~Dropped(o)
    BY <1>6, <2>2 DEF Dropped
  <2> QED
    BY <2>3, <2>4
<1>7. ASSUME NEW p \in Peers, ReceiveIds(p) PROVE Goal
  BY <1>2, <1>7, ReceiveIdsJust DEF ReceiveIds
<1>8. ASSUME NEW p \in Peers, ReceiveBlock(p) PROVE Goal
  BY <1>2, <1>8, ReceiveBlockJust DEF ReceiveBlock
<1>9. ASSUME NEW p \in Peers, ReceiveNewBlock(p) PROVE Goal
  BY <1>2, <1>9, ReceiveNewBlockJust DEF ReceiveNewBlock
<1>10. ASSUME NEW p \in Peers, Grow(p) PROVE Goal
  BY <1>10, GrowHonest DEF Dropped
<1>11. ASSUME NEW p \in Peers, ServeIds(p) PROVE Goal
  BY <1>2, <1>11, ServeIdsJust DEF ServeIds
<1>12. ASSUME NEW p \in Peers, NEW b \in Blocks, ServeBlock(p, b) PROVE Goal
  BY <1>2, <1>12, ServeBlockJust DEF ServeBlock
<1>13. CASE FetchSyncItems
  BY <1>2, <1>13, FetchSyncItemsShown, NobodyJust DEF FetchSyncItems
<1>14. CASE RunBacklog
  BY <1>2, <1>14, RunBacklogShown, NobodyJust DEF RunBacklog
<1>15. CASE SendBlockToDelegate
  BY <1>2, <1>15, SendBlockJust DEF SendBlockToDelegate
<1>16. CASE FetchItems
  BY <1>2, <1>16, FetchItemsJust DEF FetchItems
<1>17. CASE UNCHANGED vars
  BY <1>17 DEF vars, Honest, ChainOf, Shown, NewIn, Dropped
<1> QED
  BY <1>3, <1>4, <1>5, <1>6, <1>7, <1>8, <1>9, <1>10, <1>11, <1>12, <1>13, <1>14, <1>15,
     <1>16, <1>17 DEF Next

-----------------------------------------------------------------------------
(* The theorems *)

\* The fields of the node and of its peers keep to their types and to what they
\* owe each other, whichever handlers, rounds and tasks run in whichever order.
THEOREM SyncInvariant == Spec => []SyncInv
<1>1. Init => SyncInv
  BY InitHolds
<1>2. SyncInv /\ [Next]_vars => SyncInv'
  BY StepKeeps
<1> QED
  BY <1>1, <1>2, PTL DEF Spec

\* The fields have the values the code gives them, a peer that is not connected
\* keeps none, and no peer is asked for more blocks at a time, or for others, than
\* it has (peer_connection.hpp, node.cpp).
THEOREM TypeCorrect == Spec => []TypeOK
<1>1. SyncInv => TypeOK
  <2> SUFFICES ASSUME SyncInv PROVE TypeOK
    OBVIOUS
  <2>1. /\ node \in Nodes /\ node.recent \subseteq node.have
        /\ node.head \in node.have \cup {None} /\ Len(node.calls) <= MaxCalls
        /\ \A p \in Peers : PeerOK(node.peer[p], p)
        /\ world \in Worlds /\ tip \in [Peers -> Blocks \cup {None}]
        /\ losses \in 0 .. world.losses
    BY DEF SyncInv, NodeOK, WorldOK
  <2>2. \A p \in Peers :
          LET q == node.peer[p] IN
          /\ q.conn \in {"none", "active", "closing"}
          /\ q.conn = "none" => q = NoConnection
          /\ q.toGet \in Seq(Blocks) /\ q.processing \subseteq Blocks
          /\ q.requested \subseteq ChainOf(p)
          /\ Cardinality(q.requested) <= MaxPerPeer
    BY <2>1 DEF PeerOK, Connections
  <2> QED
    BY <2>1, <2>2 DEF TypeOK, Nodes
<1> QED
  BY <1>1, SyncInvariant, PTL

\* A block is being fetched exactly when one connected peer was asked for it and
\* has not answered: connections that break, peers that are given up, lists that
\* change and answers in any order lose none of the requests and double none
\* (_active_sync_requests and sync_items_requested_from_peer, node.cpp).
THEOREM RequestsOwned == Spec => []RequestsAreOwned
<1>1. SyncInv => RequestsAreOwned
  BY DEF SyncInv, NodeOK, Owned, RequestsAreOwned
<1> QED
  BY <1>1, SyncInvariant, PTL

\* What handlers, loops and tasks rely on between any two of them: the lists of
\* the peers, the summaries sent to them and the calls of the chain agree with
\* its blocks and with those the peers have (peer_connection.hpp, node.cpp).
THEOREM OrderInvariant == Spec => [](SyncInv /\ Good(node))
<1> DEFINE Inv == SyncInv /\ Good(node)
<1>1. Init => Inv
  BY InitHolds, GoodStart
<1>2. Inv /\ [Next]_vars => Inv'
  BY StepKeeps, StepGood
<1> QED
  BY <1>1, <1>2, PTL DEF Spec

\* Whatever peers, lists and answers there are and in whatever order blocks
\* arrive: process_backlog_of_sync_blocks() hands a block to the chain after the
\* one it builds on, unless the chain refused that one or a block before it.
THEOREM BlocksHandedInOrder == Spec => []HandedInOrder
<1>1. SyncInv /\ Good(node) => HandedInOrder
  BY DEF Good, ChainGood, InOrder, HandedInOrder
<1> QED
  BY <1>1, OrderInvariant, PTL

\* A peer with which nothing is going on has no block that the chain lacks and
\* that it did not offer: on_blockchain_item_ids_inventory_message() takes no
\* peer for done that still has blocks for us, with an answer that crossed
\* another question, a new block or blocks from other peers.
THEOREM NothingIsMissed == Spec => []InSyncHasAll
<1>1. SyncInv /\ Good(node) => InSyncHasAll
  <2> SUFFICES ASSUME Good(node), NEW p \in ActivePeers(node), Idle(node.peer[p])
               PROVE  IF node.peer[p].inSync
                      THEN tip[p] \in node.have \cup node.peer[p].offered \cup {None}
                      ELSE node.peer[p].twice \/ world.own = None
    BY DEF InSyncHasAll
  <2>1. p \in Peers /\ node.peer[p].conn = "active"
    BY DEF ActivePeers
  <2> QED
    BY <2>1, GoodPeer DEF PeerGood, IdleOK
<1> QED
  BY <1>1, OrderInvariant, PTL

\* A peer that answers each request for ids before the next one and whose chain
\* the node takes is never given up because of what it or another peer sends:
\* the blame for a block that is refused (send_sync_block_to_node_delegate(),
\* process_block_during_normal_operation()) falls on peers that have the block,
\* and no answer of such a peer is taken for one that was not asked for.
THEOREM BlameIsJust == Spec => BlamedForCause
<1> DEFINE Inv == SyncInv /\ Good(node)
           Cause == \A p \in Peers : Dropped(p) /\ ~node.peer[p].twice =>
                                       ChainOf(p) \cap world.refused # {}
<1>1. Init => Honest(node)
  BY HonestStart
<1>2. Inv /\ Honest(node) /\ [Next]_vars => Honest(node)'
  BY StepHonest
<1>3. Inv /\ Honest(node) /\ [Next]_vars => [Cause]_vars
  BY StepHonest DEF Guilty
<1>4. Spec => []Inv
  BY OrderInvariant
<1>5. BlamedForCause <=> [][Cause]_vars
  BY DEF BlamedForCause
<1> QED
  BY <1>1, <1>2, <1>3, <1>4, <1>5, PTL DEF Spec

=============================================================================
