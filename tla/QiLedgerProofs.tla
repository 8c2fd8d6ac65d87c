-------------------------- MODULE QiLedgerProofs --------------------------
(***************************************************************************)
(* The ledger keeps its accounts, for any users, amounts and constants.    *)
(*                                                                         *)
(* QiInv is the inductive invariant: what TypeOK, SupplyAccounted and      *)
(* DelegationsBalance say, for every withdrawal that the rate is the one   *)
(* of what was asked for and that full intervals were paid so far          *)
(* (WithdrawalsBounded does not say it, and is not inductive without it),  *)
(* and Counted: a level of proxied qi is what the accounts right below     *)
(* pass on, the adores of a siming are the weights of its adorers, only    *)
(* accounts without a proxy adore, and no chain of proxies is a loop.      *)
(* WeightsRecount speaks of whole chains; it follows from Counted level by *)
(* level (CountedLevels), but a handler that moves an account with all     *)
(* that hangs below it is followed only in the terms of its neighbours     *)
(* (LevelsBalance, AdoresBalance).                                         *)
(* A handler is followed through the calls it makes: the tables in between *)
(* are of the set Ledger, where an assertion may have failed and an amount *)
(* may be negative, and Sound is proved of the result if none failed.      *)
(*                                                                         *)
(* The module starts with what it needs of induction. Sets of smaller sets *)
(* or numbers take the place of predicates: a set that contains {} and, for*)
(* every set, what follows from a smaller one contains all of them         *)
(* (SubsetInduction). From it come the folds of the handlers (FoldExists,  *)
(* FoldKeeps) and the sums over the accounts (SumStep to SumSplit).        *)
(***************************************************************************)
EXTENDS QiLedger, FiniteSetTheorems, WellFoundedInduction, TLAPS

-----------------------------------------------------------------------------
(* Induction over finite sets, and what it gives for folds and sums. *)

\* The element of a set that the folds of the library take out first.
Elem(s) == CHOOSE x \in s : TRUE

\* A set of natural numbers has a least one.
LEMMA Least ==
    ASSUME NEW T, T \subseteq Nat, T # {}
    PROVE  \E x \in T : \A y \in T : x <= y
<1> DEFINE R == {p \in Nat \X Nat : p[1] < p[2]}
<1>1. IsWellFoundedOn(R, Nat)
  BY NatLessThanWellFounded DEF OpToRel
<1>2. \A x \in Nat, y \in Nat : y < x => <<y, x>> \in R
  OBVIOUS
<1> HIDE DEF R
<1>3. PICK x \in T : \A y \in T : ~(<<y, x>> \in R)
  BY <1>1, WFMin
<1>4. ASSUME NEW y \in T PROVE x <= y
  <2>1. x \in Nat /\ y \in Nat
    OBVIOUS
  <2>2. ~(y < x)
    BY <1>2, <1>3, <2>1
  <2> QED
    BY <2>1, <2>2
<1> QED
  BY <1>4

\* What passes from the smaller sets to a set holds for all subsets.
Inductive(S, T) ==
    \A s \in SUBSET S : (\A u \in SUBSET s : u # s => u \in T) => s \in T

LEMMA SubsetInduction ==
    ASSUME NEW S, IsFiniteSet(S), NEW T, Inductive(S, T)
    PROVE  SUBSET S \subseteq T
<1> USE DEF Inductive
<1> DEFINE Bad  == {s \in SUBSET S : s \notin T}
           Size == {n \in Nat : \E s \in Bad : Cardinality(s) = n}
<1>1. \A s \in SUBSET S : IsFiniteSet(s) /\ Cardinality(s) \in Nat
  BY FS_Subset, FS_CardinalityType
<1> SUFFICES ASSUME Bad # {} PROVE FALSE
  OBVIOUS
<1>2. Size # {}
  BY <1>1
<1>3. PICK n \in Size : \A m \in Size : n <= m
  <2> HIDE DEF Size
  <2>1. Size \subseteq Nat
    BY DEF Size
  <2> QED
    BY <1>2, <2>1, Least
<1>4. PICK s \in Bad : Cardinality(s) = n
  OBVIOUS
<1>5. ASSUME NEW u \in SUBSET s, u # s PROVE u \in T
  <2>1. Cardinality(u) <= n /\ Cardinality(u) # n /\ Cardinality(u) \in Nat
    BY <1>1, <1>4, <1>5, FS_Subset
  <2>2. Cardinality(u) \notin Size
    BY <1>3, <2>1
  <2> QED
    BY <2>1, <2>2
<1> QED
  BY <1>5

\* What passes from a set without its first element to the set holds for it.
LEMMA SetInduction ==
    ASSUME NEW S, IsFiniteSet(S), NEW T, {} \in T,
           \A s \in SUBSET S : s # {} /\ s \ {Elem(s)} \in T => s \in T
    PROVE  S \in T
<1>1. ASSUME NEW s \in SUBSET S, \A u \in SUBSET s : u # s => u \in T
      PROVE  s \in T
  <2>1. s # {} => s \ {Elem(s)} \in SUBSET s /\ s \ {Elem(s)} # s
    BY DEF Elem
  <2> QED
    BY <1>1, <2>1
<1>2. Inductive(S, T)
  BY <1>1 DEF Inductive
<1> QED
  BY <1>2, SubsetInduction

\* What passes from a number to the next one holds for all.
LEMMA NumberInduction ==
    ASSUME NEW T, 0 \in T, \A n \in Nat : n \in T => n + 1 \in T
    PROVE  Nat \subseteq T
<1> SUFFICES ASSUME Nat \ T # {} PROVE FALSE
  OBVIOUS
<1>1. PICK n \in Nat \ T : \A m \in Nat \ T : n <= m
  BY Least
<1>2. n # 0 /\ n - 1 \in Nat
  BY <1>1
<1>3. n - 1 \in T
  BY <1>1, <1>2
<1>4. n - 1 + 1 \in T
  BY <1>2, <1>3
<1> QED
  BY <1>1, <1>4

\* A fold over the elements of a finite set, one after the other, is defined,
\* and what every step keeps it has. Good[s] is what may be there after s.
Foldable(S, V, base, step, Good) ==
    /\ \A s \in SUBSET S : Good[s] \subseteq V
    /\ base \in Good[{}]
    /\ \A s \in SUBSET S : s # {} =>
          \A e \in Good[s \ {Elem(s)}] : step[<<Elem(s), e>>] \in Good[s]

Folded(h, S, V, base, step, Good) ==
    /\ h \in [SUBSET S -> V]
    /\ \A s \in SUBSET S :
          /\ h[s] \in Good[s]
          /\ h[s] = IF s = {} THEN base ELSE step[<<Elem(s), h[s \ {Elem(s)}]>>]

LEMMA FoldExists ==
    ASSUME NEW S, IsFiniteSet(S), NEW V, NEW base, NEW step, NEW Good,
           Foldable(S, V, base, step, Good)
    PROVE  \E h : Folded(h, S, V, base, step, Good)
<1> USE DEF Foldable
<1> DEFINE Right(h, s) ==
             /\ h[s] \in Good[s]
             /\ h[s] = IF s = {} THEN base ELSE step[<<Elem(s), h[s \ {Elem(s)}]>>]
           T == {n \in Nat : \E h \in [SUBSET S -> V] :
                               \A s \in SUBSET S : Cardinality(s) <= n => Right(h, s)}
<1>1. \A s \in SUBSET S : IsFiniteSet(s) /\ Cardinality(s) \in Nat
  BY FS_Subset, FS_CardinalityType
<1>2. \A s \in SUBSET S : s # {} =>
         /\ Elem(s) \in s /\ s \ {Elem(s)} \in SUBSET S
         /\ Cardinality(s \ {Elem(s)}) = Cardinality(s) - 1
  <2>1. \A s : s # {} => Elem(s) \in s
    BY DEF Elem
  <2> QED
    BY <1>1, <2>1, FS_RemoveElement
<1>3. \A s \in SUBSET S : Cardinality(s) = 0 <=> s = {}
  BY <1>1, FS_EmptySet
<1>4. 0 \in T
  <2> DEFINE h == [s \in SUBSET S |-> base]
  <2>1. h \in [SUBSET S -> V]
    OBVIOUS
  <2>2. ASSUME NEW s \in SUBSET S, Cardinality(s) <= 0 PROVE Right(h, s)
    <3>1. s = {}
      BY <1>1, <1>3, <2>2
    <3> QED
      BY <3>1
  <2> HIDE DEF h, Right
  <2> QED
    BY <2>1, <2>2
<1>5. ASSUME NEW n \in Nat, n \in T PROVE n + 1 \in T
  <2>1. PICK h \in [SUBSET S -> V] :
               \A s \in SUBSET S : Cardinality(s) <= n => Right(h, s)
    BY <1>5
  <2> DEFINE k == [s \in SUBSET S |->
                     IF Cardinality(s) = n + 1 THEN step[<<Elem(s), h[s \ {Elem(s)}]>>]
                     ELSE h[s]]
  <2>2. ASSUME NEW s \in SUBSET S, Cardinality(s) = n + 1
        PROVE  k[s] \in Good[s] /\ Right(k, s)
    <3>1. s # {}
      BY <1>3, <2>2
    <3> DEFINE r == s \ {Elem(s)}
    <3>2. r \in SUBSET S /\ Cardinality(r) = n
      <4>1. r \in SUBSET S /\ Cardinality(r) = Cardinality(s) - 1
        BY <1>2, <3>1
      <4> HIDE DEF r, T
      <4> QED
        BY <2>2, <4>1
    <3>3. h[r] \in Good[r]
      <4>1. Cardinality(r) <= n
        <5> HIDE DEF r, T
        <5> QED
          BY <3>2
      <4>2. Right(h, r)
        <5> HIDE DEF r, T, Right
        <5> QED
          BY <2>1, <3>2, <4>1
      <4> HIDE DEF r, T
      <4> QED
        BY <4>2
    <3>4. k[s] = step[<<Elem(s), h[s \ {Elem(s)}]>>] /\ k[s \ {Elem(s)}] = h[s \ {Elem(s)}]
      BY <2>2, <3>2
    <3>5. k[s] \in Good[s]
      BY <3>1, <3>3, <3>4
    <3> QED
      BY <3>1, <3>4, <3>5
  <2>3. ASSUME NEW s \in SUBSET S, Cardinality(s) <= n PROVE Right(k, s)
    <3>1. k[s] = h[s]
      BY <1>1, <2>3
    <3>2. s # {} => k[s \ {Elem(s)}] = h[s \ {Elem(s)}]
      BY <1>1, <1>2, <2>3
    <3> QED
      BY <2>1, <2>3, <3>1, <3>2
  <2>4. k \in [SUBSET S -> V]
    BY <2>2
  <2>5. \A s \in SUBSET S : Cardinality(s) <= n + 1 => Right(k, s)
    <3> HIDE DEF k, Right
    <3> QED
      BY <1>1, <2>2, <2>3
  <2> HIDE DEF k, Right
  <2> QED
    BY <2>4, <2>5
<1>6. Cardinality(S) \in T
  <2> HIDE DEF T
  <2> QED
    BY <1>1, <1>4, <1>5, NumberInduction
<1>7. PICK h \in [SUBSET S -> V] :
             \A s \in SUBSET S : Cardinality(s) <= Cardinality(S) => Right(h, s)
  BY <1>6
<1>8. \A s \in SUBSET S : Cardinality(s) <= Cardinality(S)
  BY FS_Subset
<1> HIDE DEF Right
<1>9. \A s \in SUBSET S : Right(h, s)
  BY <1>7, <1>8
<1> QED
  BY <1>7, <1>9 DEF Right, Folded

\* A sum is the fold of its set.
LEMMA SumIsFold ==
    ASSUME NEW S, IsFiniteSet(S), NEW f, \A x \in S : f[x] \in Int
    PROVE  \E h \in [SUBSET S -> Int] :
              /\ \A s \in SUBSET S :
                    h[s] = IF s = {} THEN 0 ELSE f[Elem(s)] + h[s \ {Elem(s)}]
              /\ SumFunctionOnSet(f, S) = h[S]
<1> DEFINE step == [p \in S \X Int |-> f[p[1]] + p[2]]
           Good == [s \in SUBSET S |-> Int]
           Iter(h) == h = [s \in SUBSET S |->
                             IF s = {} THEN 0 ELSE f[Elem(s)] + h[s \ {Elem(s)}]]
<1>1. \A s \in SUBSET S : s # {} => Elem(s) \in S /\ s \ {Elem(s)} \in SUBSET S
  BY DEF Elem
<1>2. \A x \in S, e \in Int : step[<<x, e>>] = f[x] + e /\ f[x] + e \in Int
  OBVIOUS
<1>3. \A s \in SUBSET S : Good[s] = Int
  OBVIOUS
<1>4. PICK h : Folded(h, S, Int, 0, step, Good)
  <2>1. \A s \in SUBSET S : Good[s] \subseteq Int
    BY <1>3
  <2>2. 0 \in Good[{}]
    OBVIOUS
  <2>3. \A s \in SUBSET S : s # {} =>
           \A e \in Good[s \ {Elem(s)}] : step[<<Elem(s), e>>] \in Good[s]
    <3> HIDE DEF step, Good
    <3> QED
      BY <1>1, <1>2, <1>3
  <2> HIDE DEF step, Good
  <2>4. Foldable(S, Int, 0, step, Good)
    BY <2>1, <2>2, <2>3 DEF Foldable
  <2> QED
    BY <2>4, FoldExists
<1> HIDE DEF step, Good
<1>5. Iter(h)
  <2>1. h \in [SUBSET S -> Int]
    BY <1>4 DEF Folded
  <2>2. ASSUME NEW s \in SUBSET S
        PROVE  h[s] = IF s = {} THEN 0 ELSE f[Elem(s)] + h[s \ {Elem(s)}]
    <3>1. h[s] = IF s = {} THEN 0 ELSE step[<<Elem(s), h[s \ {Elem(s)}]>>]
      BY <1>4 DEF Folded
    <3> QED
      BY <1>1, <1>2, <2>1, <3>1
  <2> QED
    BY <2>1, <2>2
<1> HIDE DEF Iter
<1>6. PICK k : Iter(k) /\ SumFunctionOnSet(f, S) = k[S]
  <2>1. SumFunctionOnSet(f, S) = (CHOOSE k : Iter(k))[S]
    BY DEF Iter, Elem, SumFunctionOnSet, FoldFunctionOnSet, MapThenFoldSet
  <2> QED
    BY <1>5, <2>1
<1>7. DOMAIN k = SUBSET S
  BY <1>6 DEF Iter
<1>8. \A s \in SUBSET S : k[s] = IF s = {} THEN 0 ELSE f[Elem(s)] + k[s \ {Elem(s)}]
  BY <1>6 DEF Iter
<1>9. SUBSET S \subseteq {s \in SUBSET S : k[s] \in Int}
  <2> DEFINE T == {s \in SUBSET S : k[s] \in Int}
  <2>1. ASSUME NEW s \in SUBSET S, \A u \in SUBSET s : u # s => u \in T
        PROVE  s \in T
    <3>1. CASE s = {}
      <4>1. k[s] = 0
        BY <1>8, <3>1
      <4> QED
        BY <4>1
    <3>2. CASE s # {}
      <4>1. Elem(s) \in s /\ s \ {Elem(s)} \in SUBSET s /\ s \ {Elem(s)} # s
        BY <3>2 DEF Elem
      <4>2. k[s \ {Elem(s)}] \in Int
        BY <2>1, <4>1
      <4>3. k[s] = f[Elem(s)] + k[s \ {Elem(s)}]
        BY <1>8, <3>2
      <4> QED
        BY <4>1, <4>2, <4>3
    <3> QED
      BY <3>1, <3>2
  <2> HIDE DEF T
  <2>2. SUBSET S \subseteq T
    BY <2>1, SubsetInduction DEF Inductive
  <2> QED
    BY <2>2 DEF T
<1>10. k \in [SUBSET S -> Int]
  <2>1. k = [s \in SUBSET S |-> k[s]]
    BY <1>6 DEF Iter
  <2> QED
    BY <1>9, <2>1
<1> QED
  BY <1>6, <1>8, <1>10

\* A sum over no element is zero, over others it is what its first element adds
\* to the sum over the rest.
LEMMA SumStep ==
    ASSUME NEW S, IsFiniteSet(S), NEW f, \A x \in S : f[x] \in Int
    PROVE  /\ SumFunctionOnSet(f, S) \in Int
           /\ S = {} => SumFunctionOnSet(f, S) = 0
           /\ S # {} => SumFunctionOnSet(f, S)
                          = f[Elem(S)] + SumFunctionOnSet(f, S \ {Elem(S)})
<1>1. PICK h \in [SUBSET S -> Int] :
             /\ \A s \in SUBSET S :
                   h[s] = IF s = {} THEN 0 ELSE f[Elem(s)] + h[s \ {Elem(s)}]
             /\ SumFunctionOnSet(f, S) = h[S]
  BY SumIsFold
<1>2. ASSUME S # {} PROVE SumFunctionOnSet(f, S \ {Elem(S)}) = h[S \ {Elem(S)}]
  <2> DEFINE R == S \ {Elem(S)}
  <2>1. R \in SUBSET S /\ IsFiniteSet(R)
    BY FS_RemoveElement
  <2>2. PICK k \in [SUBSET R -> Int] :
               /\ \A s \in SUBSET R :
                     k[s] = IF s = {} THEN 0 ELSE f[Elem(s)] + k[s \ {Elem(s)}]
               /\ SumFunctionOnSet(f, R) = k[R]
    <3> HIDE DEF R
    <3>1. \A x \in R : f[x] \in Int
      BY <2>1
    <3> QED
      BY <2>1, <3>1, SumIsFold
  <2> HIDE DEF R
  <2> DEFINE T == {s \in SUBSET R : k[s] = h[s]}
  <2>3. ASSUME NEW s \in SUBSET R, \A u \in SUBSET s : u # s => u \in T
        PROVE  s \in T
    <3>1. s # {} => s \ {Elem(s)} \in SUBSET s /\ s \ {Elem(s)} # s
      BY DEF Elem
    <3>2. s # {} => k[s \ {Elem(s)}] = h[s \ {Elem(s)}]
      BY <2>3, <3>1
    <3>3. s \in SUBSET S
      BY <2>1
    <3> QED
      BY <1>1, <2>2, <3>2, <3>3
  <2> HIDE DEF T
  <2>4. SUBSET R \subseteq T
    <3>1. Inductive(R, T)
      BY <2>3 DEF Inductive
    <3> QED
      BY <2>1, <3>1, SubsetInduction
  <2>5. k[R] = h[R]
    BY <2>4 DEF T
  <2> QED
    BY <2>2, <2>5 DEF R
<1> QED
  BY <1>1, <1>2

\* Any element can be taken out of a sum.
LEMMA SumTakeOut ==
    ASSUME NEW S, IsFiniteSet(S), NEW f, \A x \in S : f[x] \in Int, NEW x \in S
    PROVE  SumFunctionOnSet(f, S) = f[x] + SumFunctionOnSet(f, S \ {x})
<1> DEFINE Z(s) == SumFunctionOnSet(f, s)
           T == {s \in SUBSET S : \A y \in s : Z(s) = f[y] + Z(s \ {y})}
<1>1. \A s \in SUBSET S : /\ Z(s) \in Int
                          /\ s # {} => Z(s) = f[Elem(s)] + Z(s \ {Elem(s)})
  BY FS_Subset, SumStep
<1> HIDE DEF Z
<1>2. ASSUME NEW s \in SUBSET S, \A u \in SUBSET s : u # s => u \in T
      PROVE  s \in T
  <2> SUFFICES ASSUME NEW y \in s PROVE Z(s) = f[y] + Z(s \ {y})
    OBVIOUS
  <2> DEFINE c == Elem(s)
  <2>1. c \in s
    BY DEF Elem
  <2>2. Z(s) = f[c] + Z(s \ {c})
    BY <1>1
  <2> HIDE DEF c
  <2>3. CASE c = y
    BY <2>2, <2>3
  <2>4. CASE c # y
    <3>1. s \ {c} \in T /\ s \ {y} \in T
      BY <1>2, <2>1
    <3>2. Z(s \ {c}) = f[y] + Z((s \ {c}) \ {y})
      BY <2>4, <3>1
    <3>3. Z(s \ {y}) = f[c] + Z((s \ {y}) \ {c})
      BY <2>1, <2>4, <3>1
    <3>4. (s \ {c}) \ {y} = (s \ {y}) \ {c}
      OBVIOUS
    <3>5. /\ f[c] \in Int /\ f[y] \in Int /\ Z((s \ {c}) \ {y}) \in Int
      BY <1>1, <2>1
    <3> QED
      <4> DEFINE rest == Z((s \ {c}) \ {y})
      <4>1. Z(s) = f[c] + (f[y] + rest) /\ f[y] + Z(s \ {y}) = f[y] + (f[c] + rest)
        BY <2>2, <3>2, <3>3, <3>4
      <4>2. rest \in Int
        BY <3>5
      <4> HIDE DEF rest
      <4> QED
        BY <3>5, <4>1, <4>2
  <2> QED
    BY <2>3, <2>4
<1> HIDE DEF T
<1>3. SUBSET S \subseteq T
  BY <1>2, SubsetInduction DEF Inductive
<1> QED
  BY <1>3 DEF T, Z

\* A sum is of the values on its set only.
LEMMA SumSame ==
    ASSUME NEW S, IsFiniteSet(S), NEW f, NEW g,
           \A x \in S : f[x] \in Int /\ f[x] = g[x]
    PROVE  SumFunctionOnSet(f, S) = SumFunctionOnSet(g, S)
<1> DEFINE T == {s \in SUBSET S : SumFunctionOnSet(f, s) = SumFunctionOnSet(g, s)}
<1>1. ASSUME NEW s \in SUBSET S, \A u \in SUBSET s : u # s => u \in T
      PROVE  s \in T
  <2>1. IsFiniteSet(s) /\ (\A x \in s : f[x] \in Int) /\ (\A x \in s : g[x] \in Int)
    BY FS_Subset
  <2>2. CASE s = {}
    BY <2>1, <2>2, SumStep
  <2>3. CASE s # {}
    <3>1. Elem(s) \in s /\ s \ {Elem(s)} \in SUBSET s /\ s \ {Elem(s)} # s
      BY <2>3 DEF Elem
    <3>2. s \ {Elem(s)} \in T
      BY <1>1, <3>1
    <3> HIDE DEF T
    <3>3. SumFunctionOnSet(f, s) = f[Elem(s)] + SumFunctionOnSet(f, s \ {Elem(s)})
      BY <2>1, <2>3, SumStep
    <3>4. SumFunctionOnSet(g, s) = g[Elem(s)] + SumFunctionOnSet(g, s \ {Elem(s)})
      BY <2>1, <2>3, SumStep
    <3> QED
      BY <3>1, <3>2, <3>3, <3>4 DEF T
  <2> QED
    BY <2>2, <2>3
<1> HIDE DEF T
<1>2. SUBSET S \subseteq T
  BY <1>1, SubsetInduction DEF Inductive
<1> QED
  BY <1>2 DEF T

\* One value more changes a sum by what it differs.
LEMMA SumUpdate ==
    ASSUME NEW S, IsFiniteSet(S), NEW f, NEW g, NEW x \in S,
           \A y \in S : f[y] \in Int, g[x] \in Int,
           \A y \in S \ {x} : g[y] = f[y]
    PROVE  SumFunctionOnSet(g, S) = SumFunctionOnSet(f, S) + g[x] - f[x]
<1> DEFINE R == S \ {x}
<1>1. IsFiniteSet(R)
  BY FS_RemoveElement
<1>2. SumFunctionOnSet(f, S) = f[x] + SumFunctionOnSet(f, R)
  BY SumTakeOut
<1>3. \A y \in S : g[y] \in Int
  OBVIOUS
<1>4. SumFunctionOnSet(g, S) = g[x] + SumFunctionOnSet(g, R)
  BY <1>3, SumTakeOut
<1>5. \A y \in R : f[y] \in Int /\ f[y] = g[y]
  OBVIOUS
<1> HIDE DEF R
<1>6. SumFunctionOnSet(f, R) = SumFunctionOnSet(g, R)
  BY <1>1, <1>5, SumSame
<1>7. SumFunctionOnSet(f, R) \in Int
  BY <1>1, <1>5, SumStep
<1> QED
  BY <1>2, <1>4, <1>6, <1>7

\* A sum of natural numbers is one, and no less than any of them.
LEMMA SumNat ==
    ASSUME NEW S, IsFiniteSet(S), NEW f, \A x \in S : f[x] \in Nat
    PROVE  /\ SumFunctionOnSet(f, S) \in Nat
           /\ \A x \in S : f[x] <= SumFunctionOnSet(f, S)
<1> DEFINE T == {s \in SUBSET S : SumFunctionOnSet(f, s) \in Nat}
<1>1. ASSUME NEW s \in SUBSET S, \A u \in SUBSET s : u # s => u \in T
      PROVE  s \in T
  <2>1. IsFiniteSet(s) /\ (\A x \in s : f[x] \in Int)
    BY FS_Subset
  <2>2. CASE s = {}
    <3>1. SumFunctionOnSet(f, s) = 0
      BY <2>1, <2>2, SumStep
    <3> QED
      BY <3>1
  <2>3. CASE s # {}
    <3>1. Elem(s) \in s /\ s \ {Elem(s)} \in SUBSET s /\ s \ {Elem(s)} # s
      BY <2>3 DEF Elem
    <3>2. SumFunctionOnSet(f, s \ {Elem(s)}) \in Nat
      BY <1>1, <3>1
    <3>3. SumFunctionOnSet(f, s) = f[Elem(s)] + SumFunctionOnSet(f, s \ {Elem(s)})
      BY <2>1, <2>3, SumStep
    <3> QED
      BY <3>1, <3>2, <3>3
  <2> QED
    BY <2>2, <2>3
<1> HIDE DEF T
<1>2. SUBSET S \subseteq T
  BY <1>1, SubsetInduction DEF Inductive
<1>3. ASSUME NEW x \in S PROVE f[x] <= SumFunctionOnSet(f, S)
  <2>1. S \ {x} \in T
    BY <1>2
  <2>2. SumFunctionOnSet(f, S) = f[x] + SumFunctionOnSet(f, S \ {x})
    BY SumTakeOut
  <2> QED
    BY <2>1, <2>2 DEF T
<1> QED
  BY <1>2, <1>3 DEF T

\* A sum of zeros is zero.
LEMMA SumZero ==
    ASSUME NEW S, IsFiniteSet(S), NEW f, \A x \in S : f[x] = 0
    PROVE  SumFunctionOnSet(f, S) = 0
<1> DEFINE T == {s \in SUBSET S : SumFunctionOnSet(f, s) = 0}
<1>1. ASSUME NEW s \in SUBSET S, \A u \in SUBSET s : u # s => u \in T
      PROVE  s \in T
  <2>1. IsFiniteSet(s) /\ (\A x \in s : f[x] \in Int)
    BY FS_Subset
  <2>2. CASE s = {}
    BY <2>1, <2>2, SumStep
  <2>3. CASE s # {}
    <3>1. Elem(s) \in s /\ s \ {Elem(s)} \in SUBSET s /\ s \ {Elem(s)} # s
      BY <2>3 DEF Elem
    <3>2. SumFunctionOnSet(f, s \ {Elem(s)}) = 0
      BY <1>1, <3>1
    <3>3. SumFunctionOnSet(f, s) = f[Elem(s)] + SumFunctionOnSet(f, s \ {Elem(s)})
      BY <2>1, <2>3, SumStep
    <3> QED
      BY <3>1, <3>2, <3>3
  <2> QED
    BY <2>2, <2>3
<1> HIDE DEF T
<1>2. SUBSET S \subseteq T
  BY <1>1, SubsetInduction DEF Inductive
<1> QED
  BY <1>2 DEF T

\* A sum is the sum over a part of its set and over the rest.
LEMMA SumSplit ==
    ASSUME NEW S, IsFiniteSet(S), NEW f, \A x \in S : f[x] \in Int, NEW A \in SUBSET S
    PROVE  SumFunctionOnSet(f, S) = SumFunctionOnSet(f, A) + SumFunctionOnSet(f, S \ A)
<1> DEFINE Z(s) == SumFunctionOnSet(f, s)
           T == {s \in SUBSET A : Z(S) = Z(s) + Z(S \ s)}
<1>1. \A s \in SUBSET S : Z(s) \in Int
  BY FS_Subset, SumStep
<1>2. ASSUME NEW s \in SUBSET A, \A u \in SUBSET s : u # s => u \in T
      PROVE  s \in T
  <2>1. CASE s = {}
    <3>1. Z(s) = 0
      BY <2>1, FS_EmptySet, SumStep
    <3>2. S \ s = S
      BY <2>1
    <3>3. Z(S) = Z(s) + Z(S \ s)
      <4>1. Z(S) \in Int
        BY <1>1
      <4>2. Z(S \ s) = Z(S)
        BY <3>2
      <4> QED
        BY <3>1, <4>1, <4>2
    <3> QED
      BY <3>3
  <2>2. CASE s # {}
    <3> DEFINE x == Elem(s)
               r == s \ {x}
    <3>1. x \in s /\ r \in SUBSET s /\ r # s /\ (S \ r) \ {x} = S \ s
      BY <2>2 DEF Elem
    <3>2. Z(S) = Z(r) + Z(S \ r)
      BY <1>2, <3>1
    <3>3. IsFiniteSet(s) /\ IsFiniteSet(S \ r)
      BY FS_Subset
    <3> HIDE DEF r, x, T
    <3>4. Z(s) = f[x] + Z(s \ {x})
      BY <3>1, <3>3, SumTakeOut
    <3>5. Z(S \ r) = f[x] + Z((S \ r) \ {x})
      <4>1. x \in S \ r
        BY <3>1 DEF r
      <4> QED
        BY <3>3, <4>1, SumTakeOut
    <3>6. /\ Z(r) \in Int /\ Z(S \ s) \in Int /\ f[x] \in Int
          /\ s \ {x} = r
      BY <1>1, <3>1 DEF r
    <3>7. Z(S) = Z(s) + Z(S \ s)
      <4> DEFINE zr == Z(r)
                 rest == Z(S \ s)
      <4>1. Z(s) = f[x] + zr /\ Z(S) = zr + (f[x] + rest)
        BY <3>1, <3>2, <3>4, <3>5, <3>6
      <4>2. zr \in Int /\ rest \in Int
        BY <3>6
      <4>3. zr + (f[x] + rest) = (f[x] + zr) + rest
        <5> HIDE DEF zr, rest
        <5> QED
          BY <3>6, <4>2
      <4> QED
        BY <4>1, <4>3
    <3> QED
      BY <3>7 DEF T
  <2> QED
    BY <2>1, <2>2
<1>3. IsFiniteSet(A)
  BY FS_Subset
<1> HIDE DEF T
<1>4. SUBSET A \subseteq T
  BY <1>2, <1>3, SubsetInduction DEF Inductive
<1> QED
  BY <1>4 DEF T

-----------------------------------------------------------------------------
(* Constants and ledgers. *)

LEMMA Finite ==
    /\ IsFiniteSet(Accounts) /\ IsFiniteSet(Levels) /\ IsFiniteSet(Times)
    /\ \A i \in Int, j \in Int : IsFiniteSet(i .. j)
<1>1. IsFiniteSet(Accounts)
  BY QiLedgerAssumption, FS_AddElement DEF Accounts
<1>2. \A i \in Int, j \in Int : IsFiniteSet(i .. j)
  BY FS_Interval
<1>3. MaxProxyDepth - 1 \in Int /\ Never \in Int
  BY QiLedgerAssumption DEF Never
<1> QED
  BY <1>1, <1>2, <1>3 DEF Levels, Times

\* Blocks of a behaviour, and what they make due, are before Never.
LEMMA Clock ==
    /\ Never \in Nat /\ MaxBlocks \in Nat /\ MaxBlocks < Never
    /\ \A t \in 0 .. MaxBlocks + 1 :
                                 /\ t \in Times /\ t + WithdrawInterval \in Times
                                 /\ t + ReturnPeriod \in Times /\ t + DeclinePeriod \in Times
                                 /\ t + WithdrawInterval # Never
BY QiLedgerAssumption DEF Never, Times

LEMMA AccountTypes ==
    /\ Dao \in Accounts /\ Users \subseteq Accounts /\ Simings \subseteq Accounts
    /\ None \notin Accounts
BY QiLedgerAssumption DEF Accounts

LEMMA DivExact ==
    ASSUME NEW q \in Nat \ {0}, NEW x \in Int, NEW y \in Int
    PROVE  (x + y * q) \div q = (x \div q) + y
<1>1. x \div q \in Int /\ q * (x \div q) <= x /\ x < q * (x \div q) + q
  OBVIOUS
<1> DEFINE k == (x \div q) + y
<1>2. k \in Int /\ q * k <= x + y * q /\ x + y * q < q * k + q
  BY <1>1
<1>3. x + y * q \in Int
  OBVIOUS
<1> DEFINE z == x + y * q
<1> HIDE DEF k, z
<1>4. z \div q = k
  BY <1>2, <1>3 DEF z
<1> QED
  BY <1>4 DEF z, k

\* The YANG of some qi.
LEMMA AsYangType ==
    ASSUME NEW x \in Int
    PROVE  AsYang(x) \in Int /\ (x >= 0 => AsYang(x) >= 0)
BY QiLedgerAssumption DEF AsYang

\* Qi that divides comes on top of the worth of any other.
LEMMA AsYangParts ==
    ASSUME NEW x \in Int, NEW y \in Int
    PROVE  AsYang(x + y * QiPerYang) = AsYang(x) + y
<1>1. QiPerYang \in Nat \ {0}
  BY QiLedgerAssumption
<1> QED
  BY <1>1, DivExact DEF AsYang

LEMMA DivRest ==
    ASSUME NEW q \in Nat \ {0}, NEW x \in Int
    PROVE  (x % q) \in Nat /\ x = (x \div q) * q + (x % q)
<1>1. /\ (x % q) \in 0 .. q - 1 /\ x \div q \in Int
      /\ x = q * (x \div q) + (x % q)
  OBVIOUS
<1> DEFINE k == x \div q
           m == x % q
<1>2. k \in Int /\ m \in 0 .. q - 1 /\ x = q * k + m
  BY <1>1
<1> HIDE DEF k, m
<1>3. x = k * q + m /\ m \in Nat
  BY <1>2
<1> QED
  BY <1>3 DEF k, m

\* Of some qi a conversion takes what the YANG is worth and what it drops, and
\* so the rest is worth less by that YANG while what it drops is added to it.
LEMMA AsYangRest ==
    ASSUME NEW x \in Int, NEW m \in Int
    PROVE  /\ Dropped(x) \in Nat
           /\ AsYang(m + Dropped(x)) = AsYang(m + x) - AsYang(x)
<1> DEFINE k == AsYang(x)
           y == Dropped(x)
           z == k * QiPerYang
<1>1. QiPerYang \in Nat \ {0}
  BY QiLedgerAssumption
<1>2. y \in Nat /\ x = z + y
  BY <1>1, DivRest DEF AsYang, Dropped
<1>3. k \in Int
  BY AsYangType
<1>4. z \in Int
  <2> HIDE DEF k
  <2> QED
    BY <1>1, <1>3
<1>5. m + y \in Int /\ AsYang(m + y) \in Int
  <2> HIDE DEF y
  <2> QED
    BY <1>2, AsYangType
<1>6. AsYang((m + y) + z) = AsYang(m + y) + k
  <2> HIDE DEF k, y
  <2> QED
    BY <1>3, <1>5, AsYangParts
<1>7. (m + y) + z = m + x
  <2> HIDE DEF k, y, z
  <2> QED
    BY <1>2, <1>4
<1> HIDE DEF k, z
<1> QED
  BY <1>2, <1>3, <1>5, <1>6, <1>7 DEF k

Routes == [from : Users, to : Users, percent : 1 .. Percent100, auto_vest : BOOLEAN]

\* What the tables are at any moment of a handler: an assertion may have failed.
Ledger ==
    [balance : [Accounts -> Int], qi : [Accounts -> Int],
     proxy : [Accounts -> Accounts \cup {None}],
     proxied : [Accounts -> [Levels -> Int]],
     adored : SUBSET (Users \X Simings), adores : [Simings -> Int],
     can_adore : [Accounts -> BOOLEAN], decline : [Accounts -> Times],
     delegated : [Accounts -> Int], received : [Accounts -> Int],
     feigang : [Accounts -> Int],
     delegation : [Accounts \X Accounts -> Nat],
     returning : [Accounts -> [Times -> Nat]],
     rate : [Accounts -> Nat], next : [Accounts -> Times],
     to_withdraw : [Accounts -> Nat], withdrawn : [Accounts -> Int],
     routes : SUBSET Routes, fund_yang : Nat, fund_qi : Nat, supply : Nat, lost : Nat,
     total_qi : Int, pending_feigang : Int, ok : BOOLEAN]

\* What one part of a handler leaves alone.
SameYang(d, e) ==
    /\ e.balance = d.balance /\ e.fund_yang = d.fund_yang
    /\ e.supply = d.supply /\ e.lost = d.lost
SameQi(d, e) ==
    /\ e.qi = d.qi /\ e.feigang = d.feigang /\ e.fund_qi = d.fund_qi
    /\ e.total_qi = d.total_qi /\ e.pending_feigang = d.pending_feigang
SameDelegations(d, e) ==
    /\ e.delegated = d.delegated /\ e.received = d.received
    /\ e.delegation = d.delegation /\ e.returning = d.returning
SameWithdrawals(d, e) ==
    /\ e.rate = d.rate /\ e.next = d.next /\ e.routes = d.routes
    /\ e.to_withdraw = d.to_withdraw /\ e.withdrawn = d.withdrawn
SameVotes(d, e) ==
    /\ e.proxy = d.proxy /\ e.adored = d.adored
    /\ e.can_adore = d.can_adore /\ e.decline = d.decline

\* What the adjustment of adores does to a ledger.
OnlyAdores(d, e) ==
    /\ e \in Ledger /\ (e.ok => d.ok)
    /\ SameYang(d, e) /\ SameQi(d, e) /\ SameDelegations(d, e)
    /\ SameWithdrawals(d, e) /\ SameVotes(d, e)

LEMMA AdjustSimingsKeeps ==
    ASSUME NEW d \in Ledger, NEW a, NEW x \in Int
    PROVE  OnlyAdores(d, AdjustSimings(d, a, x))
<1> DEFINE v == [s \in Simings |-> d.adores[s] + IF <<a, s>> \in d.adored THEN x ELSE 0]
           o == d.ok /\ \A s \in Simings : <<a, s>> \in d.adored => v[s] <= d.total_qi
           e == [d EXCEPT !.adores = v, !.ok = o]
<1>1. v \in [Simings -> Int]
  BY DEF Ledger
<1>2. o \in BOOLEAN /\ (o => d.ok)
  BY DEF Ledger
<1>3. AdjustSimings(d, a, x) = e
  BY DEF AdjustSimings
<1> HIDE DEF v, o
<1>4. e \in Ledger
  BY <1>1, <1>2 DEF Ledger
<1>5. /\ SameYang(d, e) /\ SameQi(d, e) /\ SameDelegations(d, e)
      /\ SameWithdrawals(d, e) /\ SameVotes(d, e) /\ e.ok = o
  BY <1>1, <1>2 DEF Ledger, SameYang, SameQi, SameDelegations, SameWithdrawals, SameVotes
<1> HIDE DEF e
<1> QED
  BY <1>2, <1>3, <1>4, <1>5 DEF OnlyAdores

LEMMA OnlyAdoresTransitive ==
    ASSUME NEW d, NEW e, NEW f, OnlyAdores(d, e), OnlyAdores(e, f)
    PROVE  OnlyAdores(d, f)
BY DEF OnlyAdores, SameYang, SameQi, SameDelegations, SameWithdrawals, SameVotes

Deltas == [0 .. MaxProxyDepth -> Int]

LEMMA AdjustProxiedKeeps ==
    ASSUME NEW d \in Ledger, NEW a, NEW delta \in Deltas
    PROVE  OnlyAdores(d, AdjustProxied(d, a, delta))
<1> DEFINE up  == Up(d, a)
           top == {n \in 0 .. MaxProxyDepth : up[n] # None /\ d.proxy[up[n]] = None}
           gain(n, i) == IF i >= n - 1 THEN delta[i - (n - 1)] ELSE 0
           above(b) == {n \in 1 .. MaxProxyDepth : up[n] = b}
           p == [b \in Accounts |-> [i \in Levels |->
                   d.proxied[b][i] + SumFunction([n \in above(b) |-> gain(n, i)])]]
           raised == [d EXCEPT !.proxied = p]
           part(n) == SumFunction([i \in 0 .. MaxProxyDepth - n |-> delta[i]])
<1>0. MaxProxyDepth \in Nat
  BY QiLedgerAssumption
<1>1. p \in [Accounts -> [Levels -> Int]]
  <2>1. ASSUME NEW b \in Accounts, NEW i \in Levels
        PROVE  d.proxied[b][i] + SumFunction([n \in above(b) |-> gain(n, i)]) \in Int
    <3> DEFINE g == [n \in above(b) |-> gain(n, i)]
    <3>1. \A n \in above(b) : g[n] \in Int
      BY <1>0 DEF Levels, Deltas
    <3>2. IsFiniteSet(above(b))
      <4>1. IsFiniteSet(1 .. MaxProxyDepth)
        BY <1>0, Finite
      <4> QED
        BY <4>1, FS_Subset
    <3>3. SumFunction(g) = SumFunctionOnSet(g, above(b))
      BY DEF SumFunction
    <3>4. SumFunctionOnSet(g, above(b)) \in Int
      <4> HIDE DEF g, above
      <4> QED
        BY <3>1, <3>2, SumStep
    <3>5. d.proxied[b][i] \in Int
      BY DEF Ledger
    <3> HIDE DEF g
    <3> QED
      BY <3>3, <3>4, <3>5 DEF g
  <2> HIDE DEF gain, above
  <2> QED
    BY <2>1
<1>2. ASSUME NEW n \in 0 .. MaxProxyDepth PROVE part(n) \in Int
  <2> DEFINE I == 0 .. MaxProxyDepth - n
             f == [i \in I |-> delta[i]]
  <2>1. \A i \in I : f[i] \in Int
    BY <1>0 DEF Deltas
  <2>2. IsFiniteSet(I)
    BY <1>0, Finite
  <2>3. SumFunction(f) = SumFunctionOnSet(f, I)
    BY DEF SumFunction
  <2> HIDE DEF f, I
  <2>4. SumFunctionOnSet(f, I) \in Int
    BY <2>1, <2>2, SumStep
  <2> QED
    BY <2>3, <2>4 DEF f, I
<1>3. OnlyAdores(d, raised)
  <2> HIDE DEF p
  <2>1. raised \in Ledger
    BY <1>1 DEF Ledger
  <2> QED
    BY <1>1, <2>1 DEF Ledger, OnlyAdores, SameYang, SameQi, SameDelegations, SameWithdrawals, SameVotes
<1>4. AdjustProxied(d, a, delta) =
         IF top = {} THEN raised
         ELSE AdjustSimings(raised, up[CHOOSE n \in top : TRUE], part(CHOOSE n \in top : TRUE))
  <2>1. [d EXCEPT !.proxied = [b \in Accounts |->
             [i \in Levels |-> @[b][i] + SumFunction([n \in above(b) |-> gain(n, i)])]]] = raised
    OBVIOUS
  <2> QED
    BY <2>1 DEF AdjustProxied
<1> HIDE DEF p
<1>5. CASE top = {}
  <2> HIDE DEF raised, part
  <2> QED
    BY <1>3, <1>4, <1>5
<1>6. CASE top # {}
  <2> DEFINE n == CHOOSE n \in top : TRUE
  <2>1. n \in 0 .. MaxProxyDepth
    BY <1>6
  <2> HIDE DEF n
  <2>2. part(n) \in Int /\ raised \in Ledger
    BY <1>2, <1>3, <2>1 DEF OnlyAdores
  <2> HIDE DEF raised, part
  <2>3. OnlyAdores(raised, AdjustSimings(raised, up[n], part(n)))
    BY <2>2, AdjustSimingsKeeps
  <2>4. AdjustProxied(d, a, delta) = AdjustSimings(raised, up[n], part(n))
    BY <1>4, <1>6 DEF n
  <2> QED
    BY <1>3, <2>3, <2>4, OnlyAdoresTransitive
<1> QED
  BY <1>5, <1>6

LEMMA AdjustWeightKeeps ==
    ASSUME NEW d \in Ledger, NEW a, NEW x \in Int
    PROVE  OnlyAdores(d, AdjustWeight(d, a, x))
<1>1. [i \in 0 .. MaxProxyDepth |-> IF i = 0 THEN x ELSE 0] \in Deltas
  BY DEF Deltas
<1> QED
  BY <1>1, AdjustProxiedKeeps DEF AdjustWeight

LEMMA WholeWeightType ==
    ASSUME NEW d \in Ledger, NEW a \in Accounts, NEW sign \in {-1, 1}
    PROVE  WholeWeight(d, a, sign) \in Deltas
<1>1. ASSUME NEW i \in 0 .. MaxProxyDepth, i # 0 PROVE i - 1 \in Levels
  BY <1>1, QiLedgerAssumption DEF Levels
<1>2. d.qi[a] \in Int /\ d.proxied[a] \in [Levels -> Int]
  BY DEF Ledger
<1>3. ASSUME NEW x \in Int PROVE sign * x \in Int
  OBVIOUS
<1>4. ASSUME NEW i \in 0 .. MaxProxyDepth
      PROVE  sign * (IF i = 0 THEN d.qi[a] ELSE d.proxied[a][i-1]) \in Int
  BY <1>1, <1>2, <1>3
<1> QED
  BY <1>4 DEF WholeWeight, Deltas

\* A column of the accounts and its total.
LEMMA Total ==
    ASSUME NEW f \in [Accounts -> Int]
    PROVE  /\ SumFunction(f) \in Int
           /\ f \in [Accounts -> Nat] => /\ SumFunction(f) \in Nat
                                         /\ \A a \in Accounts : f[a] <= SumFunction(f)
<1>1. SumFunction(f) = SumFunctionOnSet(f, Accounts)
  BY DEF SumFunction
<1>2. \A a \in Accounts : f[a] \in Int
  OBVIOUS
<1>3. f \in [Accounts -> Nat] => \A a \in Accounts : f[a] \in Nat
  OBVIOUS
<1>4. SumFunctionOnSet(f, Accounts) \in Int
  BY <1>2, Finite, SumStep
<1>5. ASSUME f \in [Accounts -> Nat]
      PROVE  /\ SumFunctionOnSet(f, Accounts) \in Nat
             /\ \A a \in Accounts : f[a] <= SumFunctionOnSet(f, Accounts)
  BY <1>3, <1>5, Finite, SumNat
<1> QED
  BY <1>1, <1>4, <1>5

LEMMA TotalUpdate ==
    ASSUME NEW f \in [Accounts -> Int], NEW a \in Accounts, NEW y \in Int
    PROVE  /\ [f EXCEPT ![a] = y] \in [Accounts -> Int]
           /\ SumFunction([f EXCEPT ![a] = y]) = SumFunction(f) + y - f[a]
<1> DEFINE g == [f EXCEPT ![a] = y]
<1>1. g \in [Accounts -> Int] /\ g[a] = y /\ \A b \in Accounts \ {a} : g[b] = f[b]
  OBVIOUS
<1> HIDE DEF g
<1>2. SumFunction(f) = SumFunctionOnSet(f, Accounts) /\ SumFunction(g) = SumFunctionOnSet(g, Accounts)
  BY <1>1 DEF SumFunction
<1>3. \A b \in Accounts : f[b] \in Int
  OBVIOUS
<1>4. SumFunctionOnSet(g, Accounts) = SumFunctionOnSet(f, Accounts) + g[a] - f[a]
  BY <1>1, <1>3, Finite, SumUpdate
<1> QED
  BY <1>1, <1>2, <1>4 DEF g

-----------------------------------------------------------------------------
(* The chain of proxies above an account. *)

\* Up climbs one proxy at a time.
LEMMA UpSteps ==
    ASSUME NEW d, d.proxy \in [Accounts -> Accounts \cup {None}], NEW a \in Accounts
    PROVE  /\ Up(d, a) \in [0 .. MaxProxyDepth -> Accounts \cup {None}]
           /\ Up(d, a)[0] = a
           /\ \A n \in 1 .. MaxProxyDepth :
                 Up(d, a)[n] = IF Up(d, a)[n-1] = None THEN None ELSE d.proxy[Up(d, a)[n-1]]
<1> DEFINE M == MaxProxyDepth
           V == Accounts \cup {None}
           nextUp(x) == IF x = None THEN None ELSE d.proxy[x]
           Climbs(f, k) == f[0] = a /\ \A n \in 1 .. M : n <= k => f[n] = nextUp(f[n-1])
           T == {k \in Nat : \E f \in [0 .. M -> V] : Climbs(f, k)}
           Iter(f) == f = [n \in 0 .. M |-> IF n = 0 THEN a
                                            ELSE LET x == f[n-1]
                                                 IN  IF x = None THEN None ELSE d.proxy[x]]
<1>0. M \in Nat \ {0} /\ \A x \in V : nextUp(x) \in V
  BY QiLedgerAssumption
<1> HIDE DEF nextUp, V, M
<1>1. 0 \in T
  <2>1. [n \in 0 .. M |-> a] \in [0 .. M -> V] /\ Climbs([n \in 0 .. M |-> a], 0)
    BY <1>0 DEF V
  <2> HIDE DEF Climbs
  <2> QED
    BY <2>1
<1>2. ASSUME NEW k \in Nat, k \in T PROVE k + 1 \in T
  <2>1. PICK f \in [0 .. M -> V] : Climbs(f, k)
    BY <1>2
  <2> DEFINE g == [n \in 0 .. M |-> IF n = k + 1 THEN nextUp(f[k]) ELSE f[n]]
  <2>2. g \in [0 .. M -> V]
    BY <1>0
  <2>3. g[0] = a
    BY <1>0, <2>1
  <2>4. ASSUME NEW n \in 1 .. M, n <= k + 1 PROVE g[n] = nextUp(g[n-1])
    <3>1. n \in 0 .. M /\ n - 1 \in 0 .. M /\ n - 1 # k + 1
      BY <1>0, <2>4
    <3>2. g[n-1] = f[n-1]
      BY <3>1
    <3>3. CASE n = k + 1
      BY <3>1, <3>2, <3>3
    <3>4. CASE n # k + 1
      <4>1. n <= k
        BY <2>4, <3>4
      <4>2. g[n] = f[n]
        BY <3>1, <3>4
      <4> HIDE DEF g
      <4> QED
        BY <2>1, <3>2, <4>1, <4>2
    <3> QED
      BY <3>3, <3>4
  <2> HIDE DEF g
  <2>5. Climbs(g, k + 1)
    BY <2>3, <2>4
  <2> HIDE DEF Climbs
  <2> QED
    BY <2>2, <2>5
<1>3. M \in T
  <2> HIDE DEF T
  <2>1. Nat \subseteq T
    BY <1>1, <1>2, NumberInduction
  <2> QED
    BY <1>0, <2>1
<1>4. PICK f \in [0 .. M -> V] : Climbs(f, M)
  BY <1>3
<1>5. Iter(f)
  BY <1>0, <1>4 DEF nextUp
<1> DEFINE up == CHOOSE g : Iter(g)
<1>6. Iter(up)
  BY <1>5
<1>7. Up(d, a) = [n \in 0 .. M |-> up[n]]
  BY DEF Up, M
<1> HIDE DEF up
<1>8. up[0] = a /\ \A n \in 1 .. M : up[n] = nextUp(up[n-1])
  <2>1. ASSUME NEW n \in 0 .. M
        PROVE  up[n] = IF n = 0 THEN a ELSE nextUp(up[n-1])
    BY <1>6 DEF nextUp
  <2> HIDE DEF Iter
  <2> QED
    BY <1>0, <2>1
<1>9. \A n \in 0 .. M : up[n] \in V
  <2> DEFINE R == {k \in Nat : k <= M => up[k] \in V}
  <2>1. 0 \in R
    BY <1>8 DEF V
  <2>2. ASSUME NEW k \in Nat, k \in R PROVE k + 1 \in R
    <3>1. CASE k + 1 <= M
      <4>1. up[k] \in V /\ k + 1 \in 1 .. M /\ (k + 1) - 1 = k
        BY <1>0, <2>2, <3>1
      <4>2. up[k+1] = nextUp(up[k])
        BY <1>8, <4>1
      <4> QED
        BY <1>0, <4>1, <4>2
    <3>2. CASE ~(k + 1 <= M)
      BY <3>2
    <3> QED
      BY <3>1, <3>2
  <2> HIDE DEF R
  <2>3. Nat \subseteq R
    BY <2>1, <2>2, NumberInduction
  <2> QED
    BY <1>0, <2>3 DEF R
<1> HIDE DEF Iter
<1>10. Up(d, a) \in [0 .. M -> V] /\ \A n \in 0 .. M : Up(d, a)[n] = up[n]
  BY <1>7, <1>9
<1>11. Up(d, a)[0] = a /\ \A n \in 1 .. M : Up(d, a)[n] = nextUp(Up(d, a)[n-1])
  BY <1>0, <1>8, <1>10
<1> QED
  BY <1>10, <1>11 DEF nextUp, M, V

\* The chain above an account is the same from every account of it.
LEMMA UpComposes ==
    ASSUME NEW d, d.proxy \in [Accounts -> Accounts \cup {None}], NEW a \in Accounts,
           NEW n \in 0 .. MaxProxyDepth, Up(d, a)[n] # None
    PROVE  /\ Up(d, a)[n] \in Accounts
           /\ \A k \in 0 .. MaxProxyDepth : n + k <= MaxProxyDepth =>
                 Up(d, Up(d, a)[n])[k] = Up(d, a)[n + k]
<1> DEFINE M == MaxProxyDepth
           u == Up(d, a)
           b == u[n]
           w == Up(d, b)
           T == {k \in Nat : n + k <= M => w[k] = u[n + k]}
<1>0. M \in Nat \ {0}
  BY QiLedgerAssumption
<1>1. /\ u \in [0 .. M -> Accounts \cup {None}]
      /\ \A m \in 1 .. M : u[m] = IF u[m-1] = None THEN None ELSE d.proxy[u[m-1]]
  BY UpSteps
<1>2. b \in Accounts
  BY <1>1
<1> HIDE DEF u, b, M
<1>3. w[0] = b /\ \A m \in 1 .. M : w[m] = IF w[m-1] = None THEN None ELSE d.proxy[w[m-1]]
  BY <1>2, UpSteps DEF M
<1> HIDE DEF w
<1>4. 0 \in T
  BY <1>3 DEF b
<1>5. ASSUME NEW k \in Nat, k \in T PROVE k + 1 \in T
  <2>1. CASE n + (k + 1) <= M
    <3>1. /\ k + 1 \in 1 .. M /\ (k + 1) - 1 = k /\ n + (k + 1) \in 1 .. M
          /\ (n + (k + 1)) - 1 = n + k
      BY <1>0, <2>1 DEF M
    <3>2. w[k] = u[n + k]
      <4>1. n + k <= M
        BY <1>0, <2>1 DEF M
      <4> QED
        BY <1>5, <4>1
    <3>3. w[k+1] = IF w[k] = None THEN None ELSE d.proxy[w[k]]
      BY <1>3, <3>1
    <3>4. u[n + (k + 1)] = IF u[n + k] = None THEN None ELSE d.proxy[u[n + k]]
      BY <1>1, <3>1
    <3> QED
      BY <3>2, <3>3, <3>4
  <2>2. CASE ~(n + (k + 1) <= M)
    BY <2>2
  <2> QED
    BY <2>1, <2>2
<1> HIDE DEF T
<1>6. Nat \subseteq T
  BY <1>4, <1>5, NumberInduction
<1>7. \A k \in 0 .. M : k \in Nat
  BY <1>0
<1>8. \A k \in 0 .. M : n + k <= M => w[k] = u[n + k]
  BY <1>6, <1>7 DEF T
<1> QED
  BY <1>2, <1>8 DEF w, b, u, M

\* No account is above itself, as far as the adores climb.
Loopless(d) == \A a \in Accounts, n \in 1 .. MaxProxyDepth : Up(d, a)[n] # a

\* Then no account is twice in the chain above another.
LEMMA UpOnce ==
    ASSUME NEW d, d.proxy \in [Accounts -> Accounts \cup {None}], Loopless(d),
           NEW a \in Accounts, NEW n \in 0 .. MaxProxyDepth, NEW m \in 0 .. MaxProxyDepth,
           Up(d, a)[n] = Up(d, a)[m], Up(d, a)[n] # None
    PROVE  n = m
<1>0. MaxProxyDepth \in Nat
  BY QiLedgerAssumption
<1>1. ASSUME NEW x \in 0 .. MaxProxyDepth, NEW y \in 0 .. MaxProxyDepth, x < y,
             Up(d, a)[x] = Up(d, a)[y], Up(d, a)[x] # None
      PROVE  FALSE
  <2> DEFINE b == Up(d, a)[x]
             k == y - x
  <2>1. k \in 1 .. MaxProxyDepth /\ k \in 0 .. MaxProxyDepth /\ x + k = y /\ y <= MaxProxyDepth
    BY <1>0, <1>1
  <2>2. b \in Accounts /\ \A j \in 0 .. MaxProxyDepth : x + j <= MaxProxyDepth =>
                             Up(d, b)[j] = Up(d, a)[x + j]
    BY <1>1, UpComposes
  <2> HIDE DEF b, k
  <2>3. Up(d, b)[k] = Up(d, a)[y]
    BY <2>1, <2>2
  <2> QED
    BY <1>1, <2>1, <2>2, <2>3 DEF Loopless, b
<1>2. ~(n < m) /\ ~(m < n)
  BY <1>1
<1> QED
  BY <1>0, <1>2

\* Once there is no proxy any more, there is none further up.
LEMMA UpEnds ==
    ASSUME NEW d, d.proxy \in [Accounts -> Accounts \cup {None}], NEW a \in Accounts,
           NEW n \in 0 .. MaxProxyDepth, Up(d, a)[n] = None
    PROVE  \A m \in 0 .. MaxProxyDepth : n <= m => Up(d, a)[m] = None
<1> DEFINE u == Up(d, a)
           T == {k \in Nat : n + k <= MaxProxyDepth => u[n + k] = None}
<1>0. MaxProxyDepth \in Nat
  BY QiLedgerAssumption
<1>1. \A m \in 1 .. MaxProxyDepth : u[m] = IF u[m-1] = None THEN None ELSE d.proxy[u[m-1]]
  BY UpSteps
<1>2. u[n] = None
  OBVIOUS
<1> HIDE DEF u
<1>3. 0 \in T
  BY <1>2
<1>4. ASSUME NEW k \in Nat, k \in T PROVE k + 1 \in T
  BY <1>0, <1>1, <1>4
<1> HIDE DEF T
<1>5. Nat \subseteq T
  BY <1>3, <1>4, NumberInduction
<1>6. ASSUME NEW m \in 0 .. MaxProxyDepth, n <= m PROVE u[m] = None
  <2>1. m - n \in Nat /\ n + (m - n) = m
    BY <1>6
  <2>2. m - n \in T
    BY <1>5, <2>1
  <2> QED
    BY <1>0, <2>1, <2>2 DEF T
<1> QED
  BY <1>6 DEF u

\* The chain depends on the proxies alone.
LEMMA UpSame ==
    ASSUME NEW d, NEW e, e.proxy = d.proxy, NEW a
    PROVE  Up(e, a) = Up(d, a)
BY DEF Up

-----------------------------------------------------------------------------
(* More about sums. *)

LEMMA SumMoved ==
    ASSUME NEW S, IsFiniteSet(S), NEW f, NEW g, NEW x,
           \A y \in S : f[y] \in Int /\ g[y] \in Int,
           \A y \in S \ {x} : g[y] = f[y]
    PROVE  SumFunctionOnSet(g, S)
             = SumFunctionOnSet(f, S) + IF x \in S THEN g[x] - f[x] ELSE 0
<1>1. CASE x \in S
  <2>1. SumFunctionOnSet(g, S) = SumFunctionOnSet(f, S) + g[x] - f[x]
    BY <1>1, SumUpdate
  <2>2. SumFunctionOnSet(f, S) \in Int /\ f[x] \in Int /\ g[x] \in Int
    BY <1>1, SumStep
  <2> QED
    BY <1>1, <2>1, <2>2
<1>2. CASE x \notin S
  <2>1. \A y \in S : f[y] \in Int /\ f[y] = g[y]
    BY <1>2
  <2>2. SumFunctionOnSet(f, S) = SumFunctionOnSet(g, S)
    BY <2>1, SumSame
  <2>3. SumFunctionOnSet(f, S) \in Int
    BY <2>1, SumStep
  <2> QED
    BY <1>2, <2>2, <2>3
<1> QED
  BY <1>1, <1>2

\* Only one element counts.
LEMMA SumOne ==
    ASSUME NEW S, IsFiniteSet(S), NEW f, NEW x \in S, f[x] \in Int,
           \A y \in S \ {x} : f[y] = 0
    PROVE  SumFunctionOnSet(f, S) = f[x]
<1>1. \A y \in S : f[y] \in Int
  OBVIOUS
<1>2. SumFunctionOnSet(f, S) = f[x] + SumFunctionOnSet(f, S \ {x})
  BY <1>1, SumTakeOut
<1>3. IsFiniteSet(S \ {x})
  BY FS_RemoveElement
<1>4. SumFunctionOnSet(f, S \ {x}) = 0
  BY <1>3, SumZero
<1> QED
  BY <1>2, <1>4

\* The same amounts at other indices.
LEMMA SumShift ==
    ASSUME NEW n \in Nat, NEW c \in Int, NEW f, NEW h,
           \A j \in 0 .. n : h[j] \in Int /\ f[j + c] = h[j]
    PROVE  SumFunctionOnSet(f, c .. c + n) = SumFunctionOnSet(h, 0 .. n)
<1> DEFINE F(k) == SumFunctionOnSet(f, c .. c + k)
           H(k) == SumFunctionOnSet(h, 0 .. k)
           T == {k \in Nat : k <= n => F(k) = H(k)}
<1>1. ASSUME NEW k \in Nat, k <= n
      PROVE  /\ F(k) = f[c + k] + SumFunctionOnSet(f, c .. c + k - 1)
             /\ H(k) = h[k] + SumFunctionOnSet(h, 0 .. k - 1)
             /\ f[c + k] = h[k] /\ h[k] \in Int
  <2>1. IsFiniteSet(c .. c + k) /\ IsFiniteSet(0 .. k)
    BY Finite
  <2>2. \A i \in c .. c + k : f[i] \in Int
    <3> SUFFICES ASSUME NEW i \in c .. c + k PROVE f[i] \in Int
      OBVIOUS
    <3>1. i - c \in 0 .. n /\ (i - c) + c = i
      BY <1>1
    <3> QED
      BY <3>1
  <2>3. \A i \in 0 .. k : h[i] \in Int
    BY <1>1
  <2>4. /\ c + k \in c .. c + k /\ (c .. c + k) \ {c + k} = c .. c + k - 1
        /\ k \in 0 .. k /\ (0 .. k) \ {k} = 0 .. k - 1
    OBVIOUS
  <2>5. F(k) = f[c + k] + SumFunctionOnSet(f, (c .. c + k) \ {c + k})
    BY <2>1, <2>2, <2>4, SumTakeOut
  <2>6. H(k) = h[k] + SumFunctionOnSet(h, (0 .. k) \ {k})
    BY <2>1, <2>3, <2>4, SumTakeOut
  <2>7. k \in 0 .. n /\ k + c = c + k
    BY <1>1
  <2> QED
    BY <2>4, <2>5, <2>6, <2>7
<1>2. 0 \in T
  <2>1. c .. c + 0 - 1 = {} /\ 0 .. 0 - 1 = {} /\ IsFiniteSet({})
    BY FS_EmptySet
  <2>2. SumFunctionOnSet(f, {}) = 0 /\ SumFunctionOnSet(h, {}) = 0
    BY <2>1, SumStep
  <2>3. F(0) = H(0)
    <3> HIDE DEF F, H
    <3> QED
      BY <1>1, <2>1, <2>2
  <2> QED
    BY <2>3
<1>3. ASSUME NEW k \in Nat, k \in T PROVE k + 1 \in T
  <2>1. CASE k + 1 <= n
    <3>1. c + (k + 1) - 1 = c + k /\ (k + 1) - 1 = k /\ F(k) = H(k)
      BY <1>3, <2>1
    <3>2. F(k + 1) = f[c + (k + 1)] + F(k) /\ H(k + 1) = h[k + 1] + H(k) /\ f[c + (k + 1)] = h[k + 1]
      <4>1. /\ F(k + 1) = f[c + (k + 1)] + SumFunctionOnSet(f, c .. c + (k + 1) - 1)
            /\ H(k + 1) = h[k + 1] + SumFunctionOnSet(h, 0 .. (k + 1) - 1)
            /\ f[c + (k + 1)] = h[k + 1]
        <5> HIDE DEF F, H
        <5> QED
          BY <1>1, <2>1
      <4> QED
        BY <3>1, <4>1
    <3> HIDE DEF F, H
    <3> QED
      BY <3>1, <3>2
  <2>2. CASE ~(k + 1 <= n)
    BY <2>2
  <2> QED
    BY <2>1, <2>2
<1> HIDE DEF T
<1>4. Nat \subseteq T
  BY <1>2, <1>3, NumberInduction
<1> QED
  BY <1>4 DEF T

\* A sum in parts: one part for every value of g.
Where(S, g, c) == {x \in S : g[x] = c}
Within(S, g, C) == {x \in S : g[x] \in C}

LEMMA SumParts ==
    ASSUME NEW S, IsFiniteSet(S), NEW f, \A x \in S : f[x] \in Int,
           NEW C, IsFiniteSet(C), NEW g, NEW part,
           \A c \in C : part[c] = SumFunctionOnSet(f, Where(S, g, c))
    PROVE  SumFunctionOnSet(f, Within(S, g, C)) = SumFunctionOnSet(part, C)
<1> USE DEF Where, Within
<1> DEFINE In(s) == {x \in S : g[x] \in s}
           T == {s \in SUBSET C : SumFunctionOnSet(f, In(s)) = SumFunctionOnSet(part, s)}
<1>1. \A s : In(s) \in SUBSET S /\ IsFiniteSet(In(s)) /\ \A x \in In(s) : f[x] \in Int
  BY FS_Subset
<1>2. ASSUME NEW c \in C PROVE part[c] \in Int
  <2> DEFINE A == {x \in S : g[x] = c}
  <2>1. IsFiniteSet(A) /\ \A x \in A : f[x] \in Int
    BY FS_Subset
  <2>2. part[c] = SumFunctionOnSet(f, A)
    OBVIOUS
  <2> HIDE DEF A
  <2> QED
    BY <2>1, <2>2, SumStep
<1>3. {} \in T
  <2>1. In({}) = {}
    OBVIOUS
  <2> HIDE DEF In
  <2>2. SumFunctionOnSet(f, {}) = 0 /\ SumFunctionOnSet(part, {}) = 0
    BY FS_EmptySet, SumStep
  <2> QED
    BY <2>1, <2>2
<1>4. ASSUME NEW s \in SUBSET C, s # {}, s \ {Elem(s)} \in T PROVE s \in T
  <2> DEFINE c == Elem(s)
             A == {x \in S : g[x] = c}
  <2>1. c \in s
    BY <1>4 DEF Elem
  <2>2. A \in SUBSET In(s) /\ In(s) \ A = In(s \ {c})
    BY <2>1
  <2>3. SumFunctionOnSet(f, In(s)) = SumFunctionOnSet(f, A) + SumFunctionOnSet(f, In(s) \ A)
    <3> HIDE DEF In, A
    <3> QED
      BY <1>1, <2>2, SumSplit
  <2>4. SumFunctionOnSet(f, A) = part[c]
    BY <2>1
  <2>5. SumFunctionOnSet(f, In(s \ {c})) = SumFunctionOnSet(part, s \ {c})
    BY <1>4
  <2>6. SumFunctionOnSet(part, s) = part[c] + SumFunctionOnSet(part, s \ {c})
    <3>1. IsFiniteSet(s) /\ \A x \in s : part[x] \in Int
      BY <1>2, FS_Subset
    <3> HIDE DEF c
    <3> QED
      BY <2>1, <3>1, SumTakeOut
  <2> HIDE DEF In, A, c
  <2> QED
    BY <2>2, <2>3, <2>4, <2>5, <2>6
<1> HIDE DEF T
<1>5. C \in T
  BY <1>3, <1>4, SetInduction
<1> QED
  BY <1>5 DEF T

\* Larger amounts have a larger sum.
LEMMA SumLeq ==
    ASSUME NEW S, IsFiniteSet(S), NEW f, NEW g,
           \A x \in S : f[x] \in Int /\ g[x] \in Int /\ f[x] <= g[x]
    PROVE  SumFunctionOnSet(f, S) <= SumFunctionOnSet(g, S)
<1> DEFINE T == {s \in SUBSET S : SumFunctionOnSet(f, s) <= SumFunctionOnSet(g, s)}
<1>1. {} \in T
  <2>1. SumFunctionOnSet(f, {}) = 0 /\ SumFunctionOnSet(g, {}) = 0
    BY FS_EmptySet, SumStep
  <2> QED
    BY <2>1
<1>2. ASSUME NEW s \in SUBSET S, s # {}, s \ {Elem(s)} \in T PROVE s \in T
  <2> DEFINE c == Elem(s)
  <2>1. c \in s
    BY <1>2 DEF Elem
  <2>2. IsFiniteSet(s) /\ IsFiniteSet(s \ {c})
    BY FS_Subset, FS_RemoveElement
  <2>3. /\ SumFunctionOnSet(f, s) = f[c] + SumFunctionOnSet(f, s \ {c})
        /\ SumFunctionOnSet(g, s) = g[c] + SumFunctionOnSet(g, s \ {c})
    <3> HIDE DEF c
    <3> QED
      BY <2>1, <2>2, SumTakeOut
  <2>4. SumFunctionOnSet(f, s \ {c}) \in Int /\ SumFunctionOnSet(g, s \ {c}) \in Int
    <3>1. (\A x \in s \ {c} : f[x] \in Int) /\ (\A x \in s \ {c} : g[x] \in Int)
      OBVIOUS
    <3> HIDE DEF c
    <3> QED
      BY <2>2, <3>1, SumStep
  <2>5. SumFunctionOnSet(f, s \ {c}) <= SumFunctionOnSet(g, s \ {c})
    BY <1>2
  <2>6. f[c] \in Int /\ g[c] \in Int /\ f[c] <= g[c]
    BY <2>1
  <2>7. SumFunctionOnSet(f, s) <= SumFunctionOnSet(g, s)
    <3> HIDE DEF c
    <3> QED
      BY <2>3, <2>4, <2>5, <2>6
  <2> QED
    BY <2>7
<1> HIDE DEF T
<1>3. S \in T
  BY <1>1, <1>2, SetInduction
<1> QED
  BY <1>3 DEF T

-----------------------------------------------------------------------------
(* What the adjustment of a chain of proxies does. *)

\* The part of the array that is left for the simings of the account n proxies
\* above the one that changed.
LeftOver(delta, n) == SumFunction([i \in 0 .. MaxProxyDepth - n |-> delta[i]])

\* The account n proxies above a gains the array from the level n - 1 on.
Climbed(d, e, a, delta) ==
    /\ \A n \in 1 .. MaxProxyDepth, i \in Levels : Up(d, a)[n] # None =>
          e.proxied[Up(d, a)[n]][i] =
             d.proxied[Up(d, a)[n]][i] + IF i >= n - 1 THEN delta[i - (n - 1)] ELSE 0
    /\ \A b \in Accounts : (\A n \in 1 .. MaxProxyDepth : Up(d, a)[n] # b) =>
          \A i \in Levels : e.proxied[b][i] = d.proxied[b][i]

\* The account at the top, if the array reaches it, passes on what is left.
Reached(d, e, a, delta) ==
    /\ \A n \in 0 .. MaxProxyDepth : Up(d, a)[n] # None /\ d.proxy[Up(d, a)[n]] = None =>
          \A s \in Simings : e.adores[s] =
             d.adores[s] + IF <<Up(d, a)[n], s>> \in d.adored THEN LeftOver(delta, n) ELSE 0
    /\ (\A n \in 0 .. MaxProxyDepth : Up(d, a)[n] # None => d.proxy[Up(d, a)[n]] # None) =>
          e.adores = d.adores
    /\ d.ok /\ (\A s \in Simings : e.adores[s] <= d.total_qi) => e.ok

LEMMA AdjustProxiedDoes ==
    ASSUME NEW d \in Ledger, Loopless(d), NEW a \in Accounts, NEW delta \in Deltas
    PROVE  /\ Climbed(d, AdjustProxied(d, a, delta), a, delta)
           /\ Reached(d, AdjustProxied(d, a, delta), a, delta)
<1> DEFINE M == MaxProxyDepth
           up == Up(d, a)
           top == {n \in 0 .. M : up[n] # None /\ d.proxy[up[n]] = None}
           gain(n, i) == IF i >= n - 1 THEN delta[i - (n - 1)] ELSE 0
           above(b) == {n \in 1 .. M : up[n] = b}
           gains(b, i) == [n \in above(b) |-> gain(n, i)]
           p == [b \in Accounts |-> [i \in Levels |->
                   d.proxied[b][i] + SumFunction(gains(b, i))]]
           raised == [d EXCEPT !.proxied = p]
           t == CHOOSE n \in top : TRUE
           e == AdjustProxied(d, a, delta)
<1>0. M \in Nat \ {0} /\ Levels = 0 .. M - 1
  BY QiLedgerAssumption DEF Levels
<1>1. /\ d.proxy \in [Accounts -> Accounts \cup {None}] /\ d.ok \in BOOLEAN
      /\ d.proxied \in [Accounts -> [Levels -> Int]] /\ d.adores \in [Simings -> Int]
      /\ d.total_qi \in Int
  BY DEF Ledger
<1>2. /\ up \in [0 .. M -> Accounts \cup {None}]
      /\ \A n \in 1 .. M : up[n] = IF up[n-1] = None THEN None ELSE d.proxy[up[n-1]]
  BY <1>1, UpSteps
<1>3. ASSUME NEW n \in 0 .. M, NEW m \in 0 .. M, up[n] = up[m], up[n] # None
      PROVE  n = m
  BY <1>1, <1>3, UpOnce
<1>4. ASSUME NEW n \in 0 .. M, NEW m \in 0 .. M, n <= m, up[n] = None
      PROVE  up[m] = None
  BY <1>1, <1>4, UpEnds
<1>5. e = IF top = {} THEN raised ELSE AdjustSimings(raised, up[t], LeftOver(delta, t))
  <2>1. [d EXCEPT !.proxied = [b \in Accounts |->
             [i \in Levels |-> @[b][i] + SumFunction([n \in above(b) |-> gain(n, i)])]]] = raised
    OBVIOUS
  <2> QED
    BY <2>1 DEF AdjustProxied, LeftOver
<1> HIDE DEF up, e, M
<1>6. ASSUME NEW n \in 1 .. M, NEW i \in Levels PROVE gain(n, i) \in Int
  <2>1. i >= n - 1 => i - (n - 1) \in 0 .. M
    BY <1>0
  <2> QED
    BY <2>1 DEF Deltas, M
<1>7. ASSUME NEW b \in Accounts, NEW i \in Levels
      PROVE  /\ \A n \in 1 .. M : up[n] = b => SumFunction(gains(b, i)) = gain(n, i)
             /\ (\A n \in 1 .. M : up[n] # b) => SumFunction(gains(b, i)) = 0
  <2> HIDE DEF gain
  <2>1. SumFunction(gains(b, i)) = SumFunctionOnSet(gains(b, i), above(b))
    BY DEF SumFunction
  <2>2. IsFiniteSet(above(b))
    <3>1. IsFiniteSet(1 .. M)
      BY <1>0, Finite
    <3> QED
      BY <3>1, FS_Subset
  <2>3. ASSUME NEW n \in 1 .. M, up[n] = b
        PROVE  SumFunctionOnSet(gains(b, i), above(b)) = gain(n, i)
    <3>1. n \in above(b) /\ gains(b, i)[n] = gain(n, i) /\ gain(n, i) \in Int
      BY <1>6, <2>3
    <3>2. above(b) \ {n} = {}
      <4> SUFFICES ASSUME NEW m \in above(b) PROVE m = n
        OBVIOUS
      <4>1. n \in 0 .. M /\ m \in 0 .. M /\ up[n] = up[m] /\ up[n] # None
        BY <1>0, <2>3, AccountTypes
      <4> QED
        BY <1>3, <4>1
    <3> HIDE DEF gains, above
    <3> QED
      BY <2>2, <3>1, <3>2, SumOne
  <2>4. ASSUME \A n \in 1 .. M : up[n] # b
        PROVE  SumFunctionOnSet(gains(b, i), above(b)) = 0
    <3>1. above(b) = {}
      BY <2>4
    <3> HIDE DEF gains, above
    <3> QED
      BY <2>2, <3>1, SumZero
  <2> HIDE DEF gains, above
  <2> QED
    BY <2>1, <2>3, <2>4
<1>8. e.proxied = p /\ raised.adores = d.adores /\ raised.adored = d.adored
      /\ raised.ok = d.ok /\ raised.total_qi = d.total_qi /\ raised.proxied = p
  <2> HIDE DEF p
  <2>1. raised.proxied = p /\ raised.adores = d.adores /\ raised.adored = d.adored
        /\ raised.ok = d.ok /\ raised.total_qi = d.total_qi
    BY DEF Ledger
  <2>2. \A x, y : AdjustSimings(raised, x, y).proxied = raised.proxied
    BY DEF AdjustSimings, Ledger
  <2> HIDE DEF raised
  <2> QED
    BY <1>5, <2>1, <2>2
<1>9. Climbed(d, e, a, delta)
  <2>1. ASSUME NEW n \in 1 .. M, NEW i \in Levels, up[n] # None
        PROVE  e.proxied[up[n]][i] = d.proxied[up[n]][i] + gain(n, i)
    <3>1. up[n] \in Accounts
      BY <1>0, <1>2, <2>1
    <3>2. p[up[n]][i] = d.proxied[up[n]][i] + SumFunction(gains(up[n], i))
      BY <3>1
    <3> HIDE DEF p, gains, gain
    <3> QED
      BY <1>7, <1>8, <3>1, <3>2
  <2>2. ASSUME NEW b \in Accounts, \A n \in 1 .. M : up[n] # b, NEW i \in Levels
        PROVE  e.proxied[b][i] = d.proxied[b][i]
    <3>1. p[b][i] = d.proxied[b][i] + SumFunction(gains(b, i)) /\ d.proxied[b][i] \in Int
      BY <1>1
    <3> HIDE DEF p, gains, gain
    <3> QED
      BY <1>7, <1>8, <2>2, <3>1
  <2> QED
    BY <2>1, <2>2 DEF Climbed, M, up
<1>10. ASSUME top # {}
       PROVE  /\ t \in top
              /\ \A s \in Simings : e.adores[s] =
                    d.adores[s] + IF <<up[t], s>> \in d.adored THEN LeftOver(delta, t) ELSE 0
              /\ d.ok /\ (\A s \in Simings : e.adores[s] <= d.total_qi) => e.ok
  <2> HIDE DEF top
  <2>1. t \in top
    BY <1>10
  <2> HIDE DEF p, t
  <2> DEFINE x == LeftOver(delta, t)
             v == [s \in Simings |->
                     raised.adores[s] + IF <<up[t], s>> \in raised.adored THEN x ELSE 0]
             o == raised.ok /\ \A s \in Simings :
                                 <<up[t], s>> \in raised.adored => v[s] <= raised.total_qi
  <2>2. e = [raised EXCEPT !.adores = v, !.ok = o]
    BY <1>5, <1>10 DEF AdjustSimings
  <2> HIDE DEF v, o
  <2>3. e.adores = v /\ e.ok = o
    BY <2>2 DEF Ledger
  <2> HIDE DEF raised, x
  <2>4. \A s \in Simings : v[s] = d.adores[s] + IF <<up[t], s>> \in d.adored THEN x ELSE 0
    BY <1>8 DEF v
  <2>5. d.ok /\ (\A s \in Simings : v[s] <= d.total_qi) => o
    BY <1>8 DEF o
  <2> QED
    BY <2>1, <2>3, <2>4, <2>5 DEF x
<1>11. ASSUME NEW n \in top PROVE n = t
  <2>1. t \in top
    OBVIOUS
  <2> HIDE DEF t
  <2>2. ASSUME NEW k \in top, NEW m \in top, k < m PROVE FALSE
    <3>1. k + 1 \in 1 .. M /\ (k + 1) - 1 = k /\ k + 1 <= m /\ k + 1 \in 0 .. M /\ m \in 0 .. M
      BY <1>0, <2>2
    <3>2. up[k+1] = None
      BY <1>2, <3>1
    <3> QED
      BY <1>4, <3>1, <3>2
  <2>3. ~(n < t) /\ ~(t < n)
    BY <2>1, <2>2
  <2> QED
    BY <1>0, <2>1, <2>3
<1>12. Reached(d, e, a, delta)
  <2>1. ASSUME NEW n \in 0 .. M, up[n] # None, d.proxy[up[n]] = None, NEW s \in Simings
        PROVE  e.adores[s] =
                 d.adores[s] + IF <<up[n], s>> \in d.adored THEN LeftOver(delta, n) ELSE 0
    <3>1. n \in top
      BY <2>1
    <3> HIDE DEF top, t
    <3>2. n = t
      BY <1>11, <3>1
    <3> QED
      BY <1>10, <3>1, <3>2
  <2>2. ASSUME \A n \in 0 .. M : up[n] # None => d.proxy[up[n]] # None
        PROVE  e.adores = d.adores
    <3>1. top = {}
      BY <2>2
    <3> HIDE DEF top, raised
    <3> QED
      BY <1>5, <1>8, <3>1
  <2>3. ASSUME d.ok, \A s \in Simings : e.adores[s] <= d.total_qi PROVE e.ok
    <3> HIDE DEF top, raised, t
    <3> QED
      BY <1>5, <1>8, <1>10, <2>3
  <2> HIDE DEF top
  <2> QED
    BY <2>1, <2>2, <2>3 DEF Reached, M, up
<1> QED
  BY <1>9, <1>12 DEF e

LEMMA SumAdd ==
    ASSUME NEW S, IsFiniteSet(S), NEW f, NEW g, NEW h,
           \A x \in S : f[x] \in Int /\ g[x] \in Int /\ h[x] = f[x] + g[x]
    PROVE  SumFunctionOnSet(h, S) = SumFunctionOnSet(f, S) + SumFunctionOnSet(g, S)
<1> DEFINE T == {s \in SUBSET S : SumFunctionOnSet(h, s)
                                    = SumFunctionOnSet(f, s) + SumFunctionOnSet(g, s)}
<1>1. {} \in T
  <2>1. /\ SumFunctionOnSet(f, {}) = 0 /\ SumFunctionOnSet(g, {}) = 0
        /\ SumFunctionOnSet(h, {}) = 0
    BY FS_EmptySet, SumStep
  <2> QED
    BY <2>1
<1>2. ASSUME NEW s \in SUBSET S, s # {}, s \ {Elem(s)} \in T PROVE s \in T
  <2> DEFINE c == Elem(s)
  <2>1. c \in s
    BY <1>2 DEF Elem
  <2>2. IsFiniteSet(s) /\ IsFiniteSet(s \ {c})
    BY FS_Subset, FS_RemoveElement
  <2>3. (\A x \in s : f[x] \in Int) /\ (\A x \in s : g[x] \in Int) /\ \A x \in s : h[x] \in Int
    OBVIOUS
  <2>4. /\ SumFunctionOnSet(f, s) = f[c] + SumFunctionOnSet(f, s \ {c})
        /\ SumFunctionOnSet(g, s) = g[c] + SumFunctionOnSet(g, s \ {c})
        /\ SumFunctionOnSet(h, s) = h[c] + SumFunctionOnSet(h, s \ {c})
    <3> HIDE DEF c
    <3> QED
      BY <2>1, <2>2, <2>3, SumTakeOut
  <2>5. SumFunctionOnSet(f, s \ {c}) \in Int /\ SumFunctionOnSet(g, s \ {c}) \in Int
    <3>1. (\A x \in s \ {c} : f[x] \in Int) /\ (\A x \in s \ {c} : g[x] \in Int)
      OBVIOUS
    <3> HIDE DEF c
    <3> QED
      BY <2>2, <3>1, SumStep
  <2>6. SumFunctionOnSet(h, s \ {c}) = SumFunctionOnSet(f, s \ {c}) + SumFunctionOnSet(g, s \ {c})
    BY <1>2
  <2>7. f[c] \in Int /\ g[c] \in Int /\ h[c] = f[c] + g[c]
    BY <2>1
  <2>8. SumFunctionOnSet(h, s) = SumFunctionOnSet(f, s) + SumFunctionOnSet(g, s)
    <3> HIDE DEF c
    <3> QED
      BY <2>4, <2>5, <2>6, <2>7
  <2> QED
    BY <2>8
<1> HIDE DEF T
<1>3. S \in T
  BY <1>1, <1>2, SetInduction
<1> QED
  BY <1>3 DEF T
-----------------------------------------------------------------------------
(* How far the adores are from a recount. *)

\* What an account counts for at the level i of the account it proxies to.
Passed(d, b, i) == IF i = 0 THEN d.qi[b] ELSE d.proxied[b][i-1]
Below(d, c) == {b \in Accounts : d.proxy[b] = c}
Adorers(d, s) == {a \in Accounts : <<a, s>> \in d.adored}

\* What a level, or a siming, has more than that.
LevelOver(d, c, i) ==
    d.proxied[c][i] - SumFunctionOnSet([b \in Accounts |-> Passed(d, b, i)], Below(d, c))
AdoreOver(d, s) ==
    d.adores[s] - SumFunctionOnSet([a \in Accounts |-> Weight(d, a)], Adorers(d, s))

\* Only an account without a proxy adores.
RootsAdore(d) == \A v \in d.adored : d.proxy[v[1]] = None

LEMMA PassedType ==
    ASSUME NEW d \in Ledger
    PROVE  /\ \A b \in Accounts, i \in 0 .. MaxProxyDepth : Passed(d, b, i) \in Int
           /\ \A b \in Accounts : Weight(d, b) \in Int
           /\ \A c \in Accounts, i \in Levels : LevelOver(d, c, i) \in Int
           /\ \A s \in Simings : AdoreOver(d, s) \in Int
<1>1. /\ d.qi \in [Accounts -> Int] /\ d.proxied \in [Accounts -> [Levels -> Int]]
      /\ d.adores \in [Simings -> Int]
  BY DEF Ledger
<1>2. MaxProxyDepth \in Nat \ {0} /\ Levels = 0 .. MaxProxyDepth - 1
  BY QiLedgerAssumption DEF Levels
<1>3. ASSUME NEW b \in Accounts, NEW i \in 0 .. MaxProxyDepth PROVE Passed(d, b, i) \in Int
  <2>1. CASE i = 0
    BY <1>1, <2>1 DEF Passed
  <2>2. CASE i # 0
    <3>1. i - 1 \in Levels
      BY <1>2, <2>2
    <3> QED
      BY <1>1, <2>2, <3>1 DEF Passed
  <2> QED
    BY <2>1, <2>2
<1>4. ASSUME NEW b \in Accounts PROVE Weight(d, b) \in Int
  <2>1. d.proxied[b] \in [Levels -> Int] /\ d.qi[b] \in Int
    BY <1>1
  <2>2. SumFunction(d.proxied[b]) = SumFunctionOnSet(d.proxied[b], Levels)
    BY <2>1 DEF SumFunction
  <2>3. \A i \in Levels : d.proxied[b][i] \in Int
    BY <2>1
  <2>4. SumFunctionOnSet(d.proxied[b], Levels) \in Int
    BY <2>3, Finite, SumStep
  <2> QED
    BY <2>1, <2>2, <2>4 DEF Weight
<1>5. ASSUME NEW f, \A b \in Accounts : f[b] \in Int, NEW S \in SUBSET Accounts
      PROVE  SumFunctionOnSet(f, S) \in Int
  <2>1. IsFiniteSet(S) /\ \A b \in S : f[b] \in Int
    BY <1>5, Finite, FS_Subset
  <2> QED
    BY <2>1, SumStep
<1>6. ASSUME NEW c \in Accounts, NEW i \in Levels PROVE LevelOver(d, c, i) \in Int
  <2> DEFINE f == [b \in Accounts |-> Passed(d, b, i)]
  <2>1. i \in 0 .. MaxProxyDepth
    BY <1>2
  <2>2. \A b \in Accounts : f[b] \in Int
    BY <1>3, <2>1
  <2>3. Below(d, c) \in SUBSET Accounts
    BY DEF Below
  <2> HIDE DEF f
  <2>4. SumFunctionOnSet(f, Below(d, c)) \in Int
    BY <1>5, <2>2, <2>3
  <2>5. d.proxied[c][i] \in Int
    BY <1>1
  <2>6. LevelOver(d, c, i) = d.proxied[c][i] - SumFunctionOnSet(f, Below(d, c))
    BY DEF LevelOver, f
  <2> QED
    BY <2>4, <2>5, <2>6
<1>7. ASSUME NEW s \in Simings PROVE AdoreOver(d, s) \in Int
  <2> DEFINE f == [b \in Accounts |-> Weight(d, b)]
  <2>1. \A b \in Accounts : f[b] \in Int
    BY <1>4
  <2>2. Adorers(d, s) \in SUBSET Accounts
    BY DEF Adorers
  <2> HIDE DEF f
  <2>3. SumFunctionOnSet(f, Adorers(d, s)) \in Int
    BY <1>5, <2>1, <2>2
  <2>4. d.adores[s] \in Int
    BY <1>1
  <2>5. AdoreOver(d, s) = d.adores[s] - SumFunctionOnSet(f, Adorers(d, s))
    BY DEF AdoreOver, f
  <2> QED
    BY <2>3, <2>4, <2>5
<1> QED
  BY <1>3, <1>4, <1>6, <1>7

\* An account that climbs gains exactly what is left of the array above it.
LEMMA ClimbedWeight ==
    ASSUME NEW d \in Ledger, NEW e \in Ledger, e.qi = d.qi, NEW a \in Accounts,
           NEW delta \in Deltas, Climbed(d, e, a, delta), NEW n \in 1 .. MaxProxyDepth,
           NEW u \in Accounts, u = Up(d, a)[n]
    PROVE  LeftOver(delta, n) \in Int /\ Weight(e, u) = Weight(d, u) + LeftOver(delta, n)
<1> DEFINE M == MaxProxyDepth
           f == d.proxied[u]
           h == e.proxied[u]
           g == [i \in Levels |-> IF i >= n - 1 THEN delta[i - (n - 1)] ELSE 0]
           k == [i \in 0 .. M - n |-> delta[i]]
           High == n - 1 .. (n - 1) + (M - n)
<1>1. M \in Nat \ {0} /\ Levels = 0 .. M - 1 /\ n \in 1 .. M
  BY QiLedgerAssumption DEF Levels
<1>2. f \in [Levels -> Int] /\ h \in [Levels -> Int]
  BY DEF Ledger
<1>3. \A i \in Levels : h[i] = f[i] + g[i]
  BY AccountTypes DEF Climbed
<1>4. \A i \in Levels : i >= n - 1 => i - (n - 1) \in 0 .. M
  BY <1>1
<1>5. \A i \in Levels : g[i] \in Int
  BY <1>4 DEF Deltas
<1> HIDE DEF f, h
<1>6. SumFunctionOnSet(h, Levels) = SumFunctionOnSet(f, Levels) + SumFunctionOnSet(g, Levels)
  <2> HIDE DEF g
  <2> QED
    BY <1>2, <1>3, <1>5, Finite, SumAdd
<1>7. SumFunctionOnSet(g, Levels) = SumFunctionOnSet(g, High)
  <2>1. High \in SUBSET Levels
    BY <1>1
  <2>2. \A i \in Levels \ High : g[i] = 0
    BY <1>1
  <2> HIDE DEF g, High
  <2>3. SumFunctionOnSet(g, Levels)
          = SumFunctionOnSet(g, High) + SumFunctionOnSet(g, Levels \ High)
    BY <1>5, <2>1, Finite, SumSplit
  <2>4. IsFiniteSet(Levels \ High) /\ IsFiniteSet(High)
    BY <2>1, Finite, FS_Subset
  <2>5. SumFunctionOnSet(g, Levels \ High) = 0
    BY <2>2, <2>4, SumZero
  <2>6. SumFunctionOnSet(g, High) \in Int
    BY <1>5, <2>1, <2>4, SumStep
  <2> QED
    BY <2>3, <2>5, <2>6
<1>8. SumFunctionOnSet(g, High) = SumFunctionOnSet(k, 0 .. M - n)
  <2>1. M - n \in Nat /\ n - 1 \in Int
    BY <1>1
  <2>2. ASSUME NEW j \in 0 .. M - n
        PROVE  k[j] \in Int /\ g[j + (n - 1)] = k[j]
    <3>1. j \in 0 .. M /\ j + (n - 1) \in Levels /\ (j + (n - 1)) - (n - 1) = j /\ j + (n - 1) >= n - 1
      BY <1>1
    <3>2. g[j + (n - 1)] = delta[(j + (n - 1)) - (n - 1)]
      BY <3>1
    <3> QED
      BY <3>1, <3>2 DEF Deltas
  <2> DEFINE m == M - n
             c == n - 1
  <2>3. m \in Nat /\ c \in Int /\ \A j \in 0 .. m : k[j] \in Int /\ g[j + c] = k[j]
    BY <2>1, <2>2
  <2> HIDE DEF g, k, m, c
  <2>4. SumFunctionOnSet(g, c .. c + m) = SumFunctionOnSet(k, 0 .. m)
    BY <2>3, SumShift
  <2> QED
    BY <2>4 DEF m, c
<1>9. SumFunction(k) = SumFunctionOnSet(k, 0 .. M - n)
  BY DEF SumFunction
<1>10. SumFunction(f) = SumFunctionOnSet(f, Levels) /\ SumFunction(h) = SumFunctionOnSet(h, Levels)
  BY <1>2 DEF SumFunction
<1>11. LeftOver(delta, n) = SumFunction(k)
  BY DEF LeftOver
<1> HIDE DEF g, k, High
<1>12. SumFunctionOnSet(f, Levels) \in Int /\ SumFunctionOnSet(g, Levels) \in Int
  <2>1. \A i \in Levels : f[i] \in Int
    BY <1>2
  <2> QED
    BY <1>5, <2>1, Finite, SumStep
<1>13. Weight(e, u) = d.qi[u] + SumFunction(h) /\ Weight(d, u) = d.qi[u] + SumFunction(f)
       /\ d.qi[u] \in Int
  BY DEF Weight, f, h, Ledger
<1> QED
  BY <1>6, <1>7, <1>8, <1>9, <1>10, <1>11, <1>12, <1>13

\* What account a leads its proxy, or the simings it adores, to gain.
Balancing(d, e, a, delta) ==
    /\ \A i \in Levels : e.proxied[a][i] = d.proxied[a][i]
    /\ \A c \in Accounts, i \in Levels :
          LevelOver(e, c, i) = LevelOver(d, c, i) + IF d.proxy[a] = c THEN delta[i] ELSE 0
    /\ \A s \in Simings :
          AdoreOver(e, s)
            = AdoreOver(d, s) + IF <<a, s>> \in d.adored THEN LeftOver(delta, 0) ELSE 0

\* An adjustment leaves the accounts on the way as balanced as they were.
LEMMA LevelsBalance ==
    ASSUME NEW d \in Ledger, NEW e \in Ledger, e.qi = d.qi, e.proxy = d.proxy, Loopless(d),
           NEW a \in Accounts, NEW delta \in Deltas, Climbed(d, e, a, delta),
           NEW c \in Accounts, NEW i \in Levels
    PROVE  LevelOver(e, c, i) = LevelOver(d, c, i) + IF d.proxy[a] = c THEN delta[i] ELSE 0
<1> DEFINE M == MaxProxyDepth
           up == Up(d, a)
           gain(n, j) == IF j >= n - 1 THEN delta[j - (n - 1)] ELSE 0
           f == [b \in Accounts |-> Passed(d, b, i)]
           g == [b \in Accounts |-> Passed(e, b, i)]
           S == Below(d, c)
<1>0. M \in Nat \ {0} /\ Levels = 0 .. M - 1 /\ i \in 0 .. M - 1
  BY QiLedgerAssumption DEF Levels
<1>1. /\ d.proxy \in [Accounts -> Accounts \cup {None}] /\ d.proxied \in [Accounts -> [Levels -> Int]]
  BY DEF Ledger
<1>2. /\ up \in [0 .. M -> Accounts \cup {None}] /\ up[0] = a
      /\ \A n \in 1 .. M : up[n] = IF up[n-1] = None THEN None ELSE d.proxy[up[n-1]]
  BY <1>1, UpSteps
<1>3. ASSUME NEW n \in 0 .. M, NEW m \in 0 .. M, up[n] = up[m], up[n] # None
      PROVE  n = m
  BY <1>1, <1>3, UpOnce
<1>4. /\ \A n \in 1 .. M : up[n] # None =>
            \A j \in Levels : e.proxied[up[n]][j] = d.proxied[up[n]][j] + gain(n, j)
      /\ \A b \in Accounts : (\A n \in 1 .. M : up[n] # b) =>
            \A j \in Levels : e.proxied[b][j] = d.proxied[b][j]
  BY DEF Climbed
<1>5. /\ LevelOver(d, c, i) = d.proxied[c][i] - SumFunctionOnSet(f, S)
      /\ LevelOver(e, c, i) = e.proxied[c][i] - SumFunctionOnSet(g, S)
  BY DEF LevelOver, Below
<1>6. /\ i \in 0 .. M /\ \A b \in Accounts : f[b] \in Int /\ g[b] \in Int
      /\ S \in SUBSET Accounts /\ IsFiniteSet(S) /\ \A b \in S : d.proxy[b] = c
  <2>1. i \in 0 .. M
    BY <1>0
  <2>2. S \in SUBSET Accounts /\ \A b \in S : d.proxy[b] = c
    BY DEF Below
  <2>3. IsFiniteSet(S)
    BY <2>2, Finite, FS_Subset
  <2> QED
    BY <2>1, <2>2, <2>3, PassedType
<1>7. delta[i] \in Int /\ \A n \in 1 .. M, j \in Levels : gain(n, j) \in Int
  <2>1. \A n \in 1 .. M, j \in Levels : j >= n - 1 => j - (n - 1) \in 0 .. M
    BY <1>0
  <2>2. i \in 0 .. M
    BY <1>0
  <2> QED
    BY <2>1, <2>2 DEF Deltas
<1> HIDE DEF M, up, S
\* An account of the chain passes on what it gained; the others the same.
<1>8. ASSUME NEW n \in 1 .. M, up[n] # None
      PROVE  up[n] \in Accounts /\ g[up[n]] = f[up[n]] + IF i >= n THEN delta[i - n] ELSE 0
  <2>1. up[n] \in Accounts
    BY <1>0, <1>2, <1>8
  <2>2. CASE i = 0
    BY <1>0, <1>6, <2>1, <2>2 DEF Passed
  <2>3. CASE i # 0
    <3>1. i - 1 \in Levels /\ ((i - 1) >= n - 1 <=> i >= n) /\ (i - 1) - (n - 1) = i - n
      BY <1>0, <2>3
    <3>2. e.proxied[up[n]][i-1] = d.proxied[up[n]][i-1] + gain(n, i - 1)
      BY <1>4, <1>8, <3>1
    <3> QED
      BY <2>1, <2>3, <3>1, <3>2 DEF Passed
  <2> QED
    BY <2>2, <2>3
<1>9. ASSUME NEW b \in Accounts, \A n \in 1 .. M : up[n] # b
      PROVE  g[b] = f[b]
  <2>1. CASE i = 0
    BY <2>1 DEF Passed
  <2>2. CASE i # 0
    <3>1. i - 1 \in Levels
      BY <1>0, <2>2
    <3> QED
      BY <1>4, <1>9, <2>2, <3>1 DEF Passed
  <2> QED
    BY <2>1, <2>2
<1> HIDE DEF f, g, gain
<1>10. ASSUME NEW b \in S, NEW n \in 1 .. M, up[n] = b, g[b] # f[b]
       PROVE  n + 1 \in 1 .. M /\ up[n + 1] = c
  <2>1. b \in Accounts /\ b # None /\ d.proxy[b] = c
    BY <1>6, AccountTypes
  <2>2. i >= n
    BY <1>6, <1>8, <1>10, <2>1
  <2>3. n + 1 \in 1 .. M /\ (n + 1) - 1 = n
    BY <1>0, <2>2
  <2> QED
    BY <1>2, <1>10, <2>1, <2>3
<1>11. d.proxied[c][i] \in Int /\ SumFunctionOnSet(f, S) \in Int
  <2>1. \A b \in S : f[b] \in Int
    BY <1>6
  <2> QED
    BY <1>1, <1>6, <2>1, SumStep
<1>12. CASE \E m \in 1 .. M : up[m] = c
  <2>1. PICK m \in 1 .. M : up[m] = c
    BY <1>12
  <2> DEFINE x == up[m-1]
  <2>2. m \in 0 .. M /\ m - 1 \in 0 .. M /\ up[m] # None
    BY <1>0, <2>1, AccountTypes
  <2>3. x \in Accounts /\ d.proxy[x] = c /\ x \in S
    BY <1>2, <2>1, <2>2 DEF S, Below
  <2>4. ASSUME NEW b \in S \ {x} PROVE g[b] = f[b]
    <3> SUFFICES ASSUME g[b] # f[b] PROVE FALSE
      OBVIOUS
    <3>1. b \in S /\ b \in Accounts
      BY <1>6
    <3>2. PICK n \in 1 .. M : up[n] = b
      BY <1>9, <3>1
    <3>3. n + 1 \in 1 .. M /\ up[n + 1] = c
      BY <1>10, <3>1, <3>2
    <3>4. n + 1 = m
      BY <1>0, <1>3, <2>1, <2>2, <3>3
    <3>5. m - 1 = n
      BY <3>4
    <3> QED
      BY <3>2, <3>5
  <2>5. SumFunctionOnSet(g, S) = SumFunctionOnSet(f, S) + (g[x] - f[x])
    <3>1. \A b \in S : f[b] \in Int /\ g[b] \in Int
      BY <1>6
    <3> HIDE DEF x
    <3>2. SumFunctionOnSet(g, S) = SumFunctionOnSet(f, S) + IF x \in S THEN g[x] - f[x] ELSE 0
      BY <1>6, <2>4, <3>1, SumMoved
    <3> QED
      BY <2>3, <3>2
  <2>6. e.proxied[c][i] = d.proxied[c][i] + gain(m, i) /\ gain(m, i) \in Int
    BY <1>4, <1>7, <2>1, <2>2
  <2>7. CASE m = 1
    <3>1. x = a /\ d.proxy[a] = c
      BY <1>2, <2>3, <2>7
    <3>2. \A n \in 1 .. M : up[n] # a
      BY DEF Loopless, M, up
    <3>3. g[a] = f[a]
      BY <1>9, <3>2
    <3>4. gain(m, i) = delta[i]
      BY <1>0, <2>7 DEF gain
    <3>5. f[a] \in Int
      BY <1>6
    <3> HIDE DEF x
    <3> QED
      BY <1>5, <1>11, <2>5, <2>6, <3>1, <3>3, <3>4, <3>5
  <2>8. CASE m # 1
    <3>1. m - 1 \in 1 .. M /\ up[m-1] # None
      BY <1>0, <2>3, <2>8, AccountTypes
    <3>2. g[x] = f[x] + IF i >= m - 1 THEN delta[i - (m - 1)] ELSE 0
      BY <1>8, <3>1
    <3>3. d.proxy[a] # c
      <4> SUFFICES ASSUME d.proxy[a] = c PROVE FALSE
        OBVIOUS
      <4>1. 1 \in 1 .. M /\ 1 \in 0 .. M /\ 1 - 1 = 0 /\ a # None
        BY <1>0, AccountTypes
      <4>2. up[1] = c
        BY <1>2, <4>1
      <4> QED
        BY <1>3, <2>1, <2>2, <2>8, <4>1, <4>2
    <3>4. g[x] - f[x] = gain(m, i)
      <4>1. f[x] \in Int /\ g[x] \in Int
        BY <1>6, <2>3
      <4> HIDE DEF x
      <4>2. g[x] = f[x] + gain(m, i)
        BY <3>2 DEF gain
      <4> QED
        BY <2>6, <4>1, <4>2
    <3> HIDE DEF x
    <3> QED
      BY <1>5, <1>11, <2>5, <2>6, <3>3, <3>4
  <2> QED
    BY <2>7, <2>8
<1>13. CASE ~\E m \in 1 .. M : up[m] = c
  <2>1. e.proxied[c][i] = d.proxied[c][i]
    BY <1>4, <1>13
  <2>2. d.proxy[a] # c
    <3> SUFFICES ASSUME d.proxy[a] = c PROVE FALSE
      OBVIOUS
    <3>1. 1 \in 1 .. M /\ 1 - 1 = 0 /\ a # None
      BY <1>0, AccountTypes
    <3> QED
      BY <1>2, <1>13, <3>1
  <2>3. \A b \in S : f[b] \in Int /\ f[b] = g[b]
    BY <1>6, <1>9, <1>10, <1>13
  <2>4. SumFunctionOnSet(f, S) = SumFunctionOnSet(g, S)
    BY <1>6, <2>3, SumSame
  <2> QED
    BY <1>5, <1>11, <2>1, <2>2, <2>4
<1> QED
  BY <1>12, <1>13

LEMMA AdoresBalance ==
    ASSUME NEW d \in Ledger, NEW e \in Ledger, e.qi = d.qi, e.proxy = d.proxy,
           e.adored = d.adored, Loopless(d), RootsAdore(d),
           NEW a \in Accounts, NEW delta \in Deltas,
           Climbed(d, e, a, delta), Reached(d, e, a, delta), NEW s \in Simings
    PROVE  AdoreOver(e, s)
             = AdoreOver(d, s) + IF <<a, s>> \in d.adored THEN LeftOver(delta, 0) ELSE 0
<1> DEFINE M == MaxProxyDepth
           up == Up(d, a)
           f == [b \in Accounts |-> Weight(d, b)]
           g == [b \in Accounts |-> Weight(e, b)]
           S == Adorers(d, s)
<1>0. M \in Nat \ {0}
  BY QiLedgerAssumption
<1>1. d.proxy \in [Accounts -> Accounts \cup {None}] /\ d.adores \in [Simings -> Int]
  BY DEF Ledger
<1>2. /\ up \in [0 .. M -> Accounts \cup {None}] /\ up[0] = a
      /\ \A n \in 1 .. M : up[n] = IF up[n-1] = None THEN None ELSE d.proxy[up[n-1]]
  BY <1>1, UpSteps
<1>3. ASSUME NEW n \in 0 .. M, NEW m \in 0 .. M, n <= m, up[n] = None
      PROVE  up[m] = None
  BY <1>1, <1>3, UpEnds
<1>4. /\ AdoreOver(d, s) = d.adores[s] - SumFunctionOnSet(f, S)
      /\ AdoreOver(e, s) = e.adores[s] - SumFunctionOnSet(g, S)
  BY DEF AdoreOver, Adorers
<1>5. /\ \A b \in Accounts : f[b] \in Int /\ g[b] \in Int
      /\ S \in SUBSET Accounts /\ IsFiniteSet(S)
      /\ \A b \in S : d.proxy[b] = None /\ <<b, s>> \in d.adored
      /\ \A b \in Accounts : <<b, s>> \in d.adored => b \in S
  <2>1. /\ S \in SUBSET Accounts /\ \A b \in S : <<b, s>> \in d.adored
        /\ \A b \in Accounts : <<b, s>> \in d.adored => b \in S
    BY DEF Adorers
  <2>2. IsFiniteSet(S)
    BY <2>1, Finite, FS_Subset
  <2>3. \A b \in S : d.proxy[b] = None
    BY <2>1 DEF RootsAdore
  <2> QED
    BY <2>1, <2>2, <2>3, PassedType
<1>6. SumFunctionOnSet(f, S) \in Int /\ d.adores[s] \in Int
  <2>1. \A b \in S : f[b] \in Int
    BY <1>5
  <2> HIDE DEF f, S
  <2> QED
    BY <1>1, <1>5, <2>1, SumStep
<1>7. ASSUME NEW b \in Accounts, \A n \in 1 .. M : up[n] # b PROVE g[b] = f[b]
  <2>1. \A j \in Levels : e.proxied[b][j] = d.proxied[b][j]
    BY <1>7 DEF Climbed
  <2>2. e.proxied[b] \in [Levels -> Int] /\ d.proxied[b] \in [Levels -> Int]
    BY DEF Ledger
  <2>3. e.proxied[b] = d.proxied[b]
    BY <2>1, <2>2
  <2> QED
    BY <2>3 DEF Weight
<1>8. ASSUME NEW n \in 1 .. M, up[n] # None
      PROVE  up[n] \in Accounts /\ g[up[n]] = f[up[n]] + LeftOver(delta, n) /\ LeftOver(delta, n) \in Int
  <2>1. up[n] \in Accounts
    BY <1>0, <1>2, <1>8
  <2> DEFINE u == up[n]
  <2>2. u \in Accounts /\ u = Up(d, a)[n]
    BY <2>1
  <2> HIDE DEF u
  <2>3. Weight(e, u) = Weight(d, u) + LeftOver(delta, n) /\ LeftOver(delta, n) \in Int
    BY <2>2, ClimbedWeight
  <2> QED
    BY <2>2, <2>3 DEF u
<1> HIDE DEF f, g, S, up, M
<1>9. CASE \E n \in 0 .. M : up[n] # None /\ d.proxy[up[n]] = None
  <2>1. PICK n \in 0 .. M : up[n] # None /\ d.proxy[up[n]] = None
    BY <1>9
  <2> DEFINE u == up[n]
  <2>2. u \in Accounts
    BY <1>2, <2>1
  <2>3. e.adores[s] = d.adores[s] + IF <<u, s>> \in d.adored THEN LeftOver(delta, n) ELSE 0
    BY <2>1 DEF Reached, up, M
  <2>4. ASSUME NEW k \in 0 .. M, up[k] # None, d.proxy[up[k]] = None PROVE k = n
    <3>1. ASSUME NEW x \in 0 .. M, NEW y \in 0 .. M, x < y, up[x] # None,
                 d.proxy[up[x]] = None, up[y] # None
          PROVE  FALSE
      <4>1. x + 1 \in 1 .. M /\ x + 1 \in 0 .. M /\ (x + 1) - 1 = x /\ x + 1 <= y
        BY <1>0, <3>1
      <4>2. up[x + 1] = None
        BY <1>2, <3>1, <4>1
      <4> QED
        BY <1>3, <3>1, <4>1, <4>2
    <3>2. ~(k < n) /\ ~(n < k)
      BY <2>1, <2>4, <3>1
    <3> QED
      BY <1>0, <3>2
  <2>5. ASSUME NEW b \in S \ {u} PROVE g[b] = f[b]
    <3>1. b \in Accounts /\ d.proxy[b] = None
      BY <1>5
    <3>2. ASSUME NEW k \in 1 .. M, up[k] = b PROVE FALSE
      <4>1. k \in 0 .. M /\ b # None
        BY <1>0, <3>1, AccountTypes
      <4>2. k = n
        BY <2>4, <3>1, <3>2, <4>1
      <4> QED
        BY <3>2, <4>2
    <3> QED
      BY <1>7, <3>1, <3>2
  <2>6. SumFunctionOnSet(g, S) = SumFunctionOnSet(f, S) + IF u \in S THEN g[u] - f[u] ELSE 0
    <3>1. \A b \in S : f[b] \in Int /\ g[b] \in Int
      BY <1>5
    <3> HIDE DEF u
    <3> QED
      BY <1>5, <2>5, <3>1, SumMoved
  <2>7. u \in S <=> <<u, s>> \in d.adored
    BY <1>5, <2>2
  <2>8. f[u] \in Int
    BY <1>5, <2>2
  <2>9. CASE n = 0
    <3>1. u = a /\ g[u] = f[u]
      <4>1. u = a
        BY <1>2, <2>9
      <4>2. \A k \in 1 .. M : up[k] # a
        BY DEF Loopless, up, M
      <4> QED
        BY <1>7, <4>1, <4>2
    <3>2. AdoreOver(d, s) \in Int
      BY PassedType
    <3>3. SumFunctionOnSet(g, S) = SumFunctionOnSet(f, S)
      BY <1>6, <2>6, <2>8, <3>1
    <3>4. e.adores[s] = d.adores[s] + IF <<a, s>> \in d.adored THEN LeftOver(delta, 0) ELSE 0
      BY <2>3, <2>9, <3>1
    <3>5. LeftOver(delta, 0) \in Int
      <4> DEFINE k == [i \in 0 .. MaxProxyDepth - 0 |-> delta[i]]
      <4>1. MaxProxyDepth - 0 = MaxProxyDepth /\ MaxProxyDepth \in Int
        BY <1>0 DEF M
      <4>2. \A i \in 0 .. MaxProxyDepth - 0 : k[i] \in Int
        BY <4>1 DEF Deltas
      <4>3. SumFunction(k) = SumFunctionOnSet(k, 0 .. MaxProxyDepth - 0)
        BY DEF SumFunction
      <4>4. LeftOver(delta, 0) = SumFunction(k)
        BY DEF LeftOver
      <4>5. IsFiniteSet(0 .. MaxProxyDepth - 0)
        BY <4>1, Finite
      <4> HIDE DEF k
      <4> QED
        BY <4>2, <4>3, <4>4, <4>5, SumStep
    <3> QED
      BY <1>4, <1>6, <3>3, <3>4, <3>5
  <2>10. CASE n # 0
    <3>1. n \in 1 .. M
      BY <1>0, <2>10
    <3>2. g[u] = f[u] + LeftOver(delta, n) /\ LeftOver(delta, n) \in Int
      BY <1>8, <2>1, <3>1
    <3>3. <<a, s>> \notin d.adored
      <4> SUFFICES ASSUME <<a, s>> \in d.adored PROVE FALSE
        OBVIOUS
      <4>1. d.proxy[a] = None /\ a # None /\ 0 \in 0 .. M
        BY <1>0, <1>5, AccountTypes
      <4> QED
        BY <1>2, <2>4, <2>10, <4>1
    <3> HIDE DEF u
    <3>4. e.adores[s] - d.adores[s] = SumFunctionOnSet(g, S) - SumFunctionOnSet(f, S)
      BY <1>6, <2>3, <2>6, <2>7, <2>8, <3>2
    <3>5. e.adores[s] \in Int /\ SumFunctionOnSet(g, S) \in Int
      BY <1>6, <2>3, <2>6, <2>8, <3>2
    <3> QED
      BY <1>4, <1>6, <3>3, <3>4, <3>5
  <2> QED
    BY <2>9, <2>10
<1>10. CASE ~\E n \in 0 .. M : up[n] # None /\ d.proxy[up[n]] = None
  <2>1. e.adores = d.adores
    BY <1>10 DEF Reached, up, M
  <2>2. ASSUME NEW b \in S PROVE f[b] \in Int /\ f[b] = g[b]
    <3>1. b \in Accounts /\ d.proxy[b] = None /\ b # None
      BY <1>5, AccountTypes
    <3>2. \A n \in 1 .. M : n \in 0 .. M
      BY <1>0
    <3>3. \A n \in 1 .. M : up[n] # b
      BY <1>10, <3>1, <3>2
    <3> QED
      BY <1>5, <1>7, <3>1, <3>3
  <2>3. SumFunctionOnSet(f, S) = SumFunctionOnSet(g, S)
    BY <1>5, <2>2, SumSame
  <2>4. <<a, s>> \notin d.adored
    <3>1. a # None /\ 0 \in 0 .. M
      BY <1>0, AccountTypes
    <3> QED
      BY <1>2, <1>5, <1>10, <3>1
  <2> QED
    BY <1>4, <1>6, <2>1, <2>3, <2>4
<1> QED
  BY <1>9, <1>10

\* An adjustment fails only if a siming would have more than all qi.
Passes(d, e) == d.ok /\ (\A s \in Simings : e.adores[s] <= d.total_qi) => e.ok

LEMMA AdjustProxiedBalances ==
    ASSUME NEW d \in Ledger, Loopless(d), RootsAdore(d), NEW a \in Accounts,
           NEW delta \in Deltas
    PROVE  /\ OnlyAdores(d, AdjustProxied(d, a, delta))
           /\ Balancing(d, AdjustProxied(d, a, delta), a, delta)
           /\ Passes(d, AdjustProxied(d, a, delta))
<1> DEFINE e == AdjustProxied(d, a, delta)
<1>1. OnlyAdores(d, e)
  BY AdjustProxiedKeeps
<1>2. Climbed(d, e, a, delta) /\ Reached(d, e, a, delta)
  BY AdjustProxiedDoes
<1> HIDE DEF e
<1>3. e \in Ledger /\ e.qi = d.qi /\ e.proxy = d.proxy /\ e.adored = d.adored
  BY <1>1 DEF OnlyAdores, SameQi, SameVotes
<1>4. \A n \in 1 .. MaxProxyDepth : Up(d, a)[n] # a
  BY DEF Loopless
<1>5. \A i \in Levels : e.proxied[a][i] = d.proxied[a][i]
  BY <1>2, <1>4 DEF Climbed
<1>6. \A c \in Accounts, i \in Levels :
         LevelOver(e, c, i) = LevelOver(d, c, i) + IF d.proxy[a] = c THEN delta[i] ELSE 0
  BY <1>2, <1>3, LevelsBalance
<1>7. \A s \in Simings :
         AdoreOver(e, s)
           = AdoreOver(d, s) + IF <<a, s>> \in d.adored THEN LeftOver(delta, 0) ELSE 0
  BY <1>2, <1>3, AdoresBalance
<1>8. Passes(d, e)
  BY <1>2 DEF Reached, Passes
<1> QED
  BY <1>1, <1>5, <1>6, <1>7, <1>8 DEF Balancing, e

\* An array of one amount, and one of a whole weight.
LEMMA AmountLeft ==
    ASSUME NEW x \in Int
    PROVE  LET delta == [i \in 0 .. MaxProxyDepth |-> IF i = 0 THEN x ELSE 0]
           IN  delta \in Deltas /\ LeftOver(delta, 0) = x
<1> DEFINE delta == [i \in 0 .. MaxProxyDepth |-> IF i = 0 THEN x ELSE 0]
           I == 0 .. MaxProxyDepth - 0
           k == [i \in I |-> delta[i]]
<1>1. MaxProxyDepth \in Nat /\ MaxProxyDepth - 0 = MaxProxyDepth
  BY QiLedgerAssumption
<1>2. 0 \in I /\ k[0] = x /\ \A i \in I \ {0} : k[i] = 0
  BY <1>1
<1>3. IsFiniteSet(I)
  BY <1>1, Finite
<1>4. SumFunction(k) = SumFunctionOnSet(k, I)
  BY DEF SumFunction
<1>5. LeftOver(delta, 0) = SumFunction(k)
  BY DEF LeftOver
<1>6. delta \in Deltas
  BY DEF Deltas
<1> HIDE DEF k, I, delta
<1>7. SumFunctionOnSet(k, I) = x
  BY <1>2, <1>3, SumOne
<1> QED
  BY <1>4, <1>5, <1>6, <1>7 DEF delta

LEMMA WholeWeightLeft ==
    ASSUME NEW d \in Ledger, NEW a \in Accounts
    PROVE  LeftOver(WholeWeight(d, a, -1), 0) = -Weight(d, a)
<1> DEFINE M == MaxProxyDepth
           I == 0 .. MaxProxyDepth - 0
           delta == WholeWeight(d, a, -1)
           k == [i \in I |-> delta[i]]
           g == [i \in I |-> Passed(d, a, i)]
           z == [i \in I |-> 0]
           f == d.proxied[a]
<1>1. M \in Nat \ {0} /\ M - 0 = M /\ Levels = 0 .. M - 1 /\ I = 0 .. M
  BY QiLedgerAssumption DEF Levels
<1>2. \A i \in I : g[i] \in Int
  BY <1>1, PassedType
<1>3. \A i \in I : k[i] = -g[i]
  <2> SUFFICES ASSUME NEW i \in I PROVE k[i] = -g[i]
    OBVIOUS
  <2>1. delta[i] = (-1) * Passed(d, a, i)
    <3>1. i \in 0 .. MaxProxyDepth
      BY <1>1
    <3>2. delta[i] = (-1) * (IF i = 0 THEN d.qi[a] ELSE d.proxied[a][i-1])
      BY <3>1 DEF WholeWeight
    <3> QED
      BY <3>2 DEF Passed
  <2>2. Passed(d, a, i) \in Int
    BY <1>1, PassedType
  <2> QED
    BY <2>1, <2>2
<1>4. \A i \in I : z[i] = 0
  OBVIOUS
<1>5. IsFiniteSet(I)
  BY <1>1, Finite
<1>6. LeftOver(delta, 0) = SumFunction(k) /\ SumFunction(k) = SumFunctionOnSet(k, I)
  BY DEF LeftOver, SumFunction
<1>7. f \in [Levels -> Int] /\ d.qi[a] \in Int
  BY DEF Ledger
<1>8. Weight(d, a) = d.qi[a] + SumFunctionOnSet(f, Levels)
  BY <1>7 DEF Weight, SumFunction
<1>9. g[0] = d.qi[a] /\ \A j \in Levels : g[j + 1] = f[j]
  <2>1. 0 \in I /\ \A j \in Levels : j + 1 \in I /\ j + 1 # 0 /\ (j + 1) - 1 = j
    BY <1>1
  <2> QED
    BY <2>1 DEF Passed
<1> HIDE DEF g, k, z, f, delta
<1>10. SumFunctionOnSet(k, I) = -SumFunctionOnSet(g, I)
  <2>1. \A i \in I : g[i] \in Int /\ k[i] \in Int /\ z[i] = g[i] + k[i]
    BY <1>2, <1>3, <1>4
  <2> HIDE DEF I
  <2>2. SumFunctionOnSet(z, I) = SumFunctionOnSet(g, I) + SumFunctionOnSet(k, I)
    BY <1>5, <2>1, SumAdd
  <2>3. SumFunctionOnSet(z, I) = 0
    BY <1>4, <1>5, SumZero
  <2>4. (\A i \in I : g[i] \in Int) /\ (\A i \in I : k[i] \in Int)
    BY <2>1
  <2>5. SumFunctionOnSet(g, I) \in Int /\ SumFunctionOnSet(k, I) \in Int
    BY <1>5, <2>4, SumStep
  <2> QED
    BY <2>2, <2>3, <2>5
<1>11. SumFunctionOnSet(g, I) = d.qi[a] + SumFunctionOnSet(f, Levels)
  <2>1. 0 \in I /\ I \ {0} = 1 .. 1 + (M - 1)
    BY <1>1
  <2>2. SumFunctionOnSet(g, I) = g[0] + SumFunctionOnSet(g, I \ {0})
    <3> HIDE DEF I
    <3> QED
      BY <1>2, <1>5, <2>1, SumTakeOut
  <2> DEFINE m == M - 1
  <2> DEFINE c == 1
  <2>3. /\ m \in Nat /\ c \in Int /\ 0 .. m = Levels
        /\ \A j \in 0 .. m : f[j] \in Int /\ g[j + c] = f[j]
    BY <1>1, <1>7, <1>9
  <2> HIDE DEF m, c
  <2>4. SumFunctionOnSet(g, c .. c + m) = SumFunctionOnSet(f, 0 .. m)
    BY <2>3, SumShift
  <2> QED
    BY <1>9, <2>1, <2>2, <2>3, <2>4 DEF m, c
<1> QED
  BY <1>6, <1>8, <1>10, <1>11 DEF delta

-----------------------------------------------------------------------------
(* The invariant of the adores, and what the calls of a handler do to it. *)

\* Until feigang is claimed nothing is counted too much, and never too little.
Fits(c, x) == IF c THEN x >= 0 ELSE x = 0

Counted(d, c) ==
    /\ \A a \in Accounts, i \in Levels : Fits(c, LevelOver(d, a, i))
    /\ \A s \in Simings : Fits(c, AdoreOver(d, s))
    /\ RootsAdore(d) /\ Loopless(d)

\* What the count depends on.
SameCount(d, e) ==
    /\ e.qi = d.qi /\ e.proxy = d.proxy /\ e.proxied = d.proxied
    /\ e.adored = d.adored /\ e.adores = d.adores

LEMMA SameCounted ==
    ASSUME NEW d, NEW e, SameCount(d, e), NEW c, Counted(d, c)
    PROVE  Counted(e, c)
<1>1. /\ \A a, i : LevelOver(e, a, i) = LevelOver(d, a, i)
      /\ \A s : AdoreOver(e, s) = AdoreOver(d, s)
  BY DEF SameCount, LevelOver, AdoreOver, Below, Adorers, Passed, Weight
<1>2. \A a : Up(e, a) = Up(d, a)
  BY UpSame DEF SameCount
<1> QED
  BY <1>1, <1>2 DEF Counted, SameCount, RootsAdore, Loopless

\* An adjustment keeps who adores and who proxies.
LEMMA AdjustedRoots ==
    ASSUME NEW d, NEW e, OnlyAdores(d, e), RootsAdore(d), Loopless(d)
    PROVE  RootsAdore(e) /\ Loopless(e)
<1>1. e.proxy = d.proxy /\ e.adored = d.adored
  BY DEF OnlyAdores, SameVotes
<1>2. \A a : Up(e, a) = Up(d, a)
  BY <1>1, UpSame
<1> QED
  BY <1>1, <1>2 DEF RootsAdore, Loopless

\* The qi of one account changes: its proxy and its simings are off by as much.
LEMMA QiMoves ==
    ASSUME NEW d \in Ledger, NEW e \in Ledger, NEW a \in Accounts, NEW x \in Int,
           e.qi = [d.qi EXCEPT ![a] = @ + x],
           e.proxy = d.proxy, e.proxied = d.proxied, e.adored = d.adored, e.adores = d.adores
    PROVE  /\ \A c \in Accounts, i \in Levels :
                 LevelOver(e, c, i)
                   = LevelOver(d, c, i) - IF d.proxy[a] = c /\ i = 0 THEN x ELSE 0
           /\ \A s \in Simings :
                 AdoreOver(e, s) = AdoreOver(d, s) - IF <<a, s>> \in d.adored THEN x ELSE 0
<1>1. d.qi \in [Accounts -> Int] /\ d.proxied \in [Accounts -> [Levels -> Int]]
      /\ d.adores \in [Simings -> Int]
  BY DEF Ledger
<1>2. e.qi[a] = d.qi[a] + x /\ \A b \in Accounts \ {a} : e.qi[b] = d.qi[b]
  BY <1>1
<1>3. ASSUME NEW f, NEW g, NEW S \in SUBSET Accounts,
             \A b \in Accounts : f[b] \in Int /\ g[b] \in Int,
             \A b \in Accounts \ {a} : g[b] = f[b]
      PROVE  /\ SumFunctionOnSet(g, S)
                  = SumFunctionOnSet(f, S) + IF a \in S THEN g[a] - f[a] ELSE 0
             /\ SumFunctionOnSet(f, S) \in Int
  <2>1. /\ IsFiniteSet(S) /\ \A b \in S : f[b] \in Int /\ g[b] \in Int
        /\ \A b \in S \ {a} : g[b] = f[b]
    BY <1>3, Finite, FS_Subset
  <2> QED
    BY <2>1, SumMoved, SumStep
<1>4. ASSUME NEW c \in Accounts, NEW i \in Levels
      PROVE  LevelOver(e, c, i) = LevelOver(d, c, i) - IF d.proxy[a] = c /\ i = 0 THEN x ELSE 0
  <2> DEFINE f == [b \in Accounts |-> Passed(d, b, i)]
             g == [b \in Accounts |-> Passed(e, b, i)]
             S == Below(d, c)
  <2>1. i \in 0 .. MaxProxyDepth
    BY QiLedgerAssumption DEF Levels
  <2>2. /\ \A b \in Accounts : f[b] \in Int /\ g[b] \in Int
        /\ S \in SUBSET Accounts /\ (a \in S <=> d.proxy[a] = c)
    BY <2>1, PassedType DEF Below
  <2>3. \A b \in Accounts \ {a} : g[b] = f[b]
    BY <1>2 DEF Passed
  <2>4. g[a] - f[a] = IF i = 0 THEN x ELSE 0
    <3>1. g[a] = f[a] + IF i = 0 THEN x ELSE 0
      BY <1>1, <1>2, <2>2 DEF Passed
    <3>2. f[a] \in Int
      BY <2>2
    <3> HIDE DEF f, g
    <3> QED
      BY <3>1, <3>2
  <2>5. /\ LevelOver(d, c, i) = d.proxied[c][i] - SumFunctionOnSet(f, S)
        /\ LevelOver(e, c, i) = d.proxied[c][i] - SumFunctionOnSet(g, S)
    BY DEF LevelOver, Below
  <2> HIDE DEF f, g, S
  <2>6. /\ SumFunctionOnSet(g, S) = SumFunctionOnSet(f, S) + IF a \in S THEN g[a] - f[a] ELSE 0
        /\ SumFunctionOnSet(f, S) \in Int
    BY <1>3, <2>2, <2>3
  <2>7. d.proxied[c][i] \in Int
    BY <1>1
  <2> QED
    BY <2>2, <2>4, <2>5, <2>6, <2>7
<1>5. ASSUME NEW s \in Simings
      PROVE  AdoreOver(e, s) = AdoreOver(d, s) - IF <<a, s>> \in d.adored THEN x ELSE 0
  <2> DEFINE f == [b \in Accounts |-> Weight(d, b)]
             g == [b \in Accounts |-> Weight(e, b)]
             S == Adorers(d, s)
  <2>1. /\ \A b \in Accounts : f[b] \in Int /\ g[b] \in Int
        /\ S \in SUBSET Accounts /\ (a \in S <=> <<a, s>> \in d.adored)
    BY PassedType DEF Adorers
  <2>2. \A b \in Accounts \ {a} : g[b] = f[b]
    BY <1>2 DEF Weight
  <2>3. g[a] - f[a] = x
    <3> DEFINE y == SumFunction(d.proxied[a])
    <3>1. y \in Int
      <4>1. d.proxied[a] \in [Levels -> Int]
        BY <1>1
      <4>2. y = SumFunctionOnSet(d.proxied[a], Levels)
        BY <4>1 DEF SumFunction
      <4>3. \A i \in Levels : d.proxied[a][i] \in Int
        BY <4>1
      <4> HIDE DEF y
      <4> QED
        BY <4>2, <4>3, Finite, SumStep
    <3>2. f[a] = d.qi[a] + y /\ g[a] = (d.qi[a] + x) + y
      BY <1>2 DEF Weight
    <3>3. d.qi[a] \in Int
      BY <1>1
    <3> HIDE DEF y, f, g
    <3> QED
      BY <3>1, <3>2, <3>3
  <2>4. /\ AdoreOver(d, s) = d.adores[s] - SumFunctionOnSet(f, S)
        /\ AdoreOver(e, s) = d.adores[s] - SumFunctionOnSet(g, S)
    BY DEF AdoreOver, Adorers
  <2> HIDE DEF f, g, S
  <2>5. /\ SumFunctionOnSet(g, S) = SumFunctionOnSet(f, S) + IF a \in S THEN g[a] - f[a] ELSE 0
        /\ SumFunctionOnSet(f, S) \in Int
    BY <1>3, <2>1, <2>2
  <2>6. d.adores[s] \in Int
    BY <1>1
  <2> QED
    BY <2>1, <2>3, <2>4, <2>5, <2>6
<1> QED
  BY <1>4, <1>5

\* A balance that changes together with the adores of the account.
Gains(d, c, a, x) ==
    /\ c \in Ledger
    /\ c.qi = [d.qi EXCEPT ![a] = @ + x]
    /\ c.proxy = d.proxy /\ c.proxied = d.proxied
    /\ c.adored = d.adored /\ c.adores = d.adores

LEMMA GainCounted ==
    ASSUME NEW d \in Ledger, NEW c, NEW a \in Accounts, NEW x \in Int, Gains(d, c, a, x),
           NEW l, Counted(d, l)
    PROVE  Counted(AdjustWeight(c, a, x), l) /\ Passes(c, AdjustWeight(c, a, x))
<1> DEFINE delta == [i \in 0 .. MaxProxyDepth |-> IF i = 0 THEN x ELSE 0]
           e == AdjustProxied(c, a, delta)
<1>1. c \in Ledger /\ c.proxy = d.proxy /\ c.adored = d.adored
  BY DEF Gains
<1>2. RootsAdore(c) /\ Loopless(c)
  <2>1. \A b : Up(c, b) = Up(d, b)
    BY <1>1, UpSame
  <2> QED
    BY <1>1, <2>1 DEF Counted, RootsAdore, Loopless
<1>3. delta \in Deltas /\ LeftOver(delta, 0) = x
  BY AmountLeft
<1>4. \A i \in Levels : delta[i] = IF i = 0 THEN x ELSE 0
  BY QiLedgerAssumption DEF Levels
<1>5. e = AdjustWeight(c, a, x)
  BY DEF AdjustWeight
<1> HIDE DEF delta
<1>6. OnlyAdores(c, e) /\ Balancing(c, e, a, delta) /\ Passes(c, e)
  BY <1>1, <1>2, <1>3, AdjustProxiedBalances
<1> HIDE DEF e
<1>7. /\ \A b \in Accounts, i \in Levels :
            LevelOver(c, b, i) = LevelOver(d, b, i) - IF d.proxy[a] = b /\ i = 0 THEN x ELSE 0
      /\ \A s \in Simings :
            AdoreOver(c, s) = AdoreOver(d, s) - IF <<a, s>> \in d.adored THEN x ELSE 0
  BY QiMoves DEF Gains
<1>8. /\ \A b \in Accounts, i \in Levels : LevelOver(d, b, i) \in Int
      /\ \A s \in Simings : AdoreOver(d, s) \in Int
  BY PassedType
<1>9. \A b \in Accounts, i \in Levels : LevelOver(e, b, i) = LevelOver(d, b, i)
  BY <1>1, <1>4, <1>6, <1>7, <1>8 DEF Balancing
<1>10. \A s \in Simings : AdoreOver(e, s) = AdoreOver(d, s)
  <2> SUFFICES ASSUME NEW s \in Simings PROVE AdoreOver(e, s) = AdoreOver(d, s)
    OBVIOUS
  <2>1. AdoreOver(e, s) = AdoreOver(c, s) + IF <<a, s>> \in d.adored THEN x ELSE 0
    BY <1>1, <1>3, <1>6 DEF Balancing
  <2>2. AdoreOver(c, s) = AdoreOver(d, s) - IF <<a, s>> \in d.adored THEN x ELSE 0
    BY <1>7
  <2> QED
    BY <1>8, <2>1, <2>2
<1>11. RootsAdore(e) /\ Loopless(e)
  BY <1>2, <1>6, AdjustedRoots
<1> QED
  BY <1>5, <1>6, <1>9, <1>10, <1>11 DEF Counted

\* An adjustment without a balance leaves more than the count.
LEMMA AgainCounted ==
    ASSUME NEW d \in Ledger, NEW a \in Accounts, NEW x \in Nat, NEW l \in BOOLEAN, Counted(d, l)
    PROVE  Counted(AdjustWeight(d, a, x), TRUE)
<1> DEFINE delta == [i \in 0 .. MaxProxyDepth |-> IF i = 0 THEN x ELSE 0]
           e == AdjustProxied(d, a, delta)
<1>1. RootsAdore(d) /\ Loopless(d)
  BY DEF Counted
<1>2. delta \in Deltas /\ LeftOver(delta, 0) = x
  BY AmountLeft
<1>3. \A i \in Levels : delta[i] = IF i = 0 THEN x ELSE 0
  BY QiLedgerAssumption DEF Levels
<1>4. e = AdjustWeight(d, a, x)
  BY DEF AdjustWeight
<1> HIDE DEF delta
<1>5. OnlyAdores(d, e) /\ Balancing(d, e, a, delta)
  BY <1>1, <1>2, AdjustProxiedBalances
<1> HIDE DEF e
<1>6. /\ \A b \in Accounts, i \in Levels : LevelOver(d, b, i) \in Int /\ LevelOver(d, b, i) >= 0
      /\ \A s \in Simings : AdoreOver(d, s) \in Int /\ AdoreOver(d, s) >= 0
  BY PassedType DEF Counted, Fits
<1>7. \A b \in Accounts, i \in Levels : LevelOver(e, b, i) >= 0
  BY <1>3, <1>5, <1>6 DEF Balancing
<1>8. \A s \in Simings : AdoreOver(e, s) >= 0
  <2> SUFFICES ASSUME NEW s \in Simings PROVE AdoreOver(e, s) >= 0
    OBVIOUS
  <2>1. AdoreOver(e, s) = AdoreOver(d, s) + IF <<a, s>> \in d.adored THEN x ELSE 0
    BY <1>2, <1>5 DEF Balancing
  <2> QED
    BY <1>6, <2>1
<1>9. RootsAdore(e) /\ Loopless(e)
  BY <1>1, <1>5, AdjustedRoots
<1> QED
  BY <1>4, <1>7, <1>8, <1>9 DEF Counted, Fits

-----------------------------------------------------------------------------
(* An account that changes its proxy. *)

\* The account a has the proxy p, or none, from now on, and adores nobody.
Rehung(d, e, a, p) ==
    /\ e \in Ledger
    /\ e.qi = d.qi /\ e.proxied = d.proxied /\ e.adores = d.adores
    /\ e.proxy = [d.proxy EXCEPT ![a] = p]
    /\ e.adored = {v \in d.adored : v[1] # a}

\* The old proxy has too much now, the new one too little.
LEMMA ProxyMoves ==
    ASSUME NEW d \in Ledger, NEW e, NEW a \in Accounts, NEW p \in Accounts \cup {None},
           Rehung(d, e, a, p)
    PROVE  /\ \A c \in Accounts, i \in Levels :
                 LevelOver(e, c, i) = LevelOver(d, c, i)
                                        + (IF d.proxy[a] = c THEN Passed(d, a, i) ELSE 0)
                                        - (IF p = c THEN Passed(d, a, i) ELSE 0)
           /\ \A s \in Simings :
                 AdoreOver(e, s)
                   = AdoreOver(d, s) + IF <<a, s>> \in d.adored THEN Weight(d, a) ELSE 0
           /\ RootsAdore(d) => RootsAdore(e)
<1>1. /\ d.proxy \in [Accounts -> Accounts \cup {None}]
      /\ d.proxied \in [Accounts -> [Levels -> Int]] /\ d.adores \in [Simings -> Int]
  BY DEF Ledger
<1>2. e.proxy[a] = p /\ \A b \in Accounts \ {a} : e.proxy[b] = d.proxy[b]
  BY <1>1 DEF Rehung
<1>3. ASSUME NEW f, \A b \in Accounts : f[b] \in Int,
             NEW S \in SUBSET Accounts, NEW T \in SUBSET Accounts, S \ {a} = T \ {a}
      PROVE  /\ SumFunctionOnSet(f, S) \in Int
             /\ SumFunctionOnSet(f, T) = SumFunctionOnSet(f, S)
                                           - (IF a \in S THEN f[a] ELSE 0)
                                           + (IF a \in T THEN f[a] ELSE 0)
  <2>1. ASSUME NEW R \in SUBSET Accounts
        PROVE  /\ SumFunctionOnSet(f, R) \in Int
               /\ SumFunctionOnSet(f, R)
                    = SumFunctionOnSet(f, R \ {a}) + IF a \in R THEN f[a] ELSE 0
    <3>1. IsFiniteSet(R) /\ \A b \in R : f[b] \in Int
      BY <1>3, Finite, FS_Subset
    <3>2. SumFunctionOnSet(f, R) \in Int
      BY <3>1, SumStep
    <3>3. CASE a \in R
      <4>1. SumFunctionOnSet(f, R) = f[a] + SumFunctionOnSet(f, R \ {a})
        BY <3>1, <3>3, SumTakeOut
      <4>2. IsFiniteSet(R \ {a}) /\ \A b \in R \ {a} : f[b] \in Int
        BY <3>1, FS_RemoveElement
      <4>3. SumFunctionOnSet(f, R \ {a}) \in Int
        BY <4>2, SumStep
      <4> QED
        BY <3>1, <3>2, <3>3, <4>1, <4>3
    <3>4. CASE a \notin R
      <4>1. R \ {a} = R
        BY <3>4
      <4> QED
        BY <3>2, <3>4, <4>1
    <3> QED
      BY <3>3, <3>4
  <2>2. /\ SumFunctionOnSet(f, S) \in Int /\ SumFunctionOnSet(f, S \ {a}) \in Int
        /\ f[a] \in Int
    BY <1>3, <2>1
  <2>3. /\ SumFunctionOnSet(f, S)
             = SumFunctionOnSet(f, S \ {a}) + IF a \in S THEN f[a] ELSE 0
        /\ SumFunctionOnSet(f, T)
             = SumFunctionOnSet(f, T \ {a}) + IF a \in T THEN f[a] ELSE 0
    BY <2>1
  <2>4. SumFunctionOnSet(f, T \ {a}) = SumFunctionOnSet(f, S \ {a})
    BY <1>3
  <2> QED
    BY <2>2, <2>3, <2>4
<1>4. ASSUME NEW c \in Accounts, NEW i \in Levels
      PROVE  LevelOver(e, c, i) = LevelOver(d, c, i)
                                    + (IF d.proxy[a] = c THEN Passed(d, a, i) ELSE 0)
                                    - (IF p = c THEN Passed(d, a, i) ELSE 0)
  <2> DEFINE f == [b \in Accounts |-> Passed(d, b, i)]
             S == Below(d, c)
             T == Below(e, c)
  <2>1. i \in 0 .. MaxProxyDepth
    BY QiLedgerAssumption DEF Levels
  <2>2. \A b \in Accounts : f[b] \in Int
    BY <2>1, PassedType
  <2>3. /\ S \in SUBSET Accounts /\ T \in SUBSET Accounts /\ S \ {a} = T \ {a}
        /\ (a \in S <=> d.proxy[a] = c) /\ (a \in T <=> p = c)
    BY <1>2 DEF Below
  <2>4. f[a] = Passed(d, a, i)
    OBVIOUS
  <2>5. [b \in Accounts |-> Passed(e, b, i)] = f
    BY DEF Passed, Rehung
  <2>6. /\ LevelOver(d, c, i) = d.proxied[c][i] - SumFunctionOnSet(f, S)
        /\ LevelOver(e, c, i) = d.proxied[c][i] - SumFunctionOnSet(f, T)
    BY <2>5 DEF LevelOver, Rehung
  <2> HIDE DEF f, S, T
  <2>7. /\ SumFunctionOnSet(f, S) \in Int
        /\ SumFunctionOnSet(f, T) = SumFunctionOnSet(f, S) - (IF a \in S THEN f[a] ELSE 0)
                                                           + (IF a \in T THEN f[a] ELSE 0)
    BY <1>3, <2>2, <2>3
  <2>8. d.proxied[c][i] \in Int /\ f[a] \in Int
    BY <1>1, <2>2
  <2> QED
    BY <2>3, <2>4, <2>6, <2>7, <2>8
<1>5. ASSUME NEW s \in Simings
      PROVE  AdoreOver(e, s)
               = AdoreOver(d, s) + IF <<a, s>> \in d.adored THEN Weight(d, a) ELSE 0
  <2> DEFINE f == [b \in Accounts |-> Weight(d, b)]
             S == Adorers(d, s)
             T == Adorers(e, s)
  <2>1. \A b \in Accounts : f[b] \in Int
    BY PassedType
  <2>2. /\ S \in SUBSET Accounts /\ T \in SUBSET Accounts /\ S \ {a} = T \ {a}
        /\ (a \in S <=> <<a, s>> \in d.adored) /\ a \notin T
    BY DEF Adorers, Rehung
  <2>3. f[a] = Weight(d, a)
    OBVIOUS
  <2>4. [b \in Accounts |-> Weight(e, b)] = f
    BY DEF Weight, Rehung
  <2>5. /\ AdoreOver(d, s) = d.adores[s] - SumFunctionOnSet(f, S)
        /\ AdoreOver(e, s) = d.adores[s] - SumFunctionOnSet(f, T)
    BY <2>4 DEF AdoreOver, Rehung
  <2> HIDE DEF f, S, T
  <2>6. /\ SumFunctionOnSet(f, S) \in Int
        /\ SumFunctionOnSet(f, T) = SumFunctionOnSet(f, S) - (IF a \in S THEN f[a] ELSE 0)
                                                           + (IF a \in T THEN f[a] ELSE 0)
    BY <1>3, <2>1, <2>2
  <2>7. d.adores[s] \in Int /\ f[a] \in Int
    BY <1>1, <2>1
  <2> QED
    BY <2>2, <2>3, <2>5, <2>6, <2>7
<1>6. ASSUME RootsAdore(d) PROVE RootsAdore(e)
  <2>1. \A v \in d.adored : v[1] \in Accounts
    BY AccountTypes DEF Ledger
  <2> QED
    BY <1>2, <1>6, <2>1 DEF RootsAdore, Rehung
<1> QED
  BY <1>4, <1>5, <1>6

\* Only the proxy of a changes; a is not among the first k of a chain.
ProxyOf(d, e, a) ==
    /\ d.proxy \in [Accounts -> Accounts \cup {None}]
    /\ e.proxy \in [Accounts -> Accounts \cup {None}]
    /\ \A x \in Accounts \ {a} : e.proxy[x] = d.proxy[x]

Avoids(d, b, a, k) == \A j \in 0 .. MaxProxyDepth : j < k => Up(d, b)[j] # a

\* Up to the first time that a chain comes by a, it is not changed.
LEMMA UpAgrees ==
    ASSUME NEW d, NEW e, NEW a \in Accounts, NEW b \in Accounts, ProxyOf(d, e, a),
           NEW k \in 0 .. MaxProxyDepth, Avoids(d, b, a, k)
    PROVE  \A j \in 0 .. MaxProxyDepth : j <= k => Up(e, b)[j] = Up(d, b)[j]
<1> USE DEF ProxyOf, Avoids
<1> DEFINE M == MaxProxyDepth
           u == Up(d, b)
           w == Up(e, b)
           T == {j \in Nat : j <= k => w[j] = u[j]}
<1>0. M \in Nat \ {0} /\ k \in 0 .. M
  BY QiLedgerAssumption
<1>1. /\ u \in [0 .. M -> Accounts \cup {None}] /\ u[0] = b
      /\ \A n \in 1 .. M : u[n] = IF u[n-1] = None THEN None ELSE d.proxy[u[n-1]]
  BY UpSteps
<1>2. /\ w[0] = b
      /\ \A n \in 1 .. M : w[n] = IF w[n-1] = None THEN None ELSE e.proxy[w[n-1]]
  BY UpSteps
<1>3. \A j \in 0 .. M : j < k => u[j] # a
  OBVIOUS
<1> HIDE DEF u, w, M
<1>4. 0 \in T
  BY <1>1, <1>2
<1>5. ASSUME NEW j \in Nat, j \in T PROVE j + 1 \in T
  <2> SUFFICES ASSUME j + 1 <= k PROVE w[j + 1] = u[j + 1]
    OBVIOUS
  <2>1. j < k /\ j \in 0 .. M /\ j + 1 \in 1 .. M /\ (j + 1) - 1 = j
    BY <1>0
  <2>2. w[j] = u[j] /\ u[j] # a /\ u[j] \in Accounts \cup {None}
    BY <1>1, <1>3, <1>5, <2>1
  <2> QED
    BY <1>1, <1>2, <2>1, <2>2
<1> HIDE DEF T
<1>6. Nat \subseteq T
  BY <1>4, <1>5, NumberInduction
<1>7. \A j \in 0 .. M : j <= k => w[j] = u[j]
  BY <1>6 DEF T
<1> QED
  BY <1>7 DEF u, w, M

\* Without the proxy of a, the chains are the same or end at a.
LEMMA UpCut ==
    ASSUME NEW d, NEW e, NEW a \in Accounts, NEW b \in Accounts,
           d.proxy \in [Accounts -> Accounts \cup {None}],
           e.proxy \in [Accounts -> Accounts \cup {None}],
           e.proxy[a] = None, \A x \in Accounts \ {a} : e.proxy[x] = d.proxy[x]
    PROVE  \A j \in 0 .. MaxProxyDepth : Up(e, b)[j] \in {None, Up(d, b)[j]}
<1> DEFINE M == MaxProxyDepth
           u == Up(d, b)
           w == Up(e, b)
           T == {j \in Nat : j <= M => w[j] \in {None, u[j]}}
<1>0. M \in Nat \ {0}
  BY QiLedgerAssumption
<1>1. /\ u \in [0 .. M -> Accounts \cup {None}] /\ u[0] = b
      /\ \A n \in 1 .. M : u[n] = IF u[n-1] = None THEN None ELSE d.proxy[u[n-1]]
  BY UpSteps
<1>2. /\ e.proxy[a] = None /\ \A x \in Accounts \ {a} : e.proxy[x] = d.proxy[x]
  OBVIOUS
<1>3. /\ w[0] = b
      /\ \A n \in 1 .. M : w[n] = IF w[n-1] = None THEN None ELSE e.proxy[w[n-1]]
  BY UpSteps
<1> HIDE DEF u, w, M
<1>4. 0 \in T
  BY <1>1, <1>3
<1>5. ASSUME NEW j \in Nat, j \in T PROVE j + 1 \in T
  <2> SUFFICES ASSUME j + 1 <= M PROVE w[j + 1] \in {None, u[j + 1]}
    OBVIOUS
  <2>1. j \in 0 .. M /\ j + 1 \in 1 .. M /\ (j + 1) - 1 = j
    BY <1>0
  <2>2. w[j] \in {None, u[j]} /\ u[j] \in Accounts \cup {None}
    BY <1>1, <1>5, <2>1
  <2>3. /\ w[j + 1] = IF w[j] = None THEN None ELSE e.proxy[w[j]]
        /\ u[j + 1] = IF u[j] = None THEN None ELSE d.proxy[u[j]]
    BY <1>1, <1>3, <2>1
  <2> QED
    BY <1>2, <2>2, <2>3
<1> HIDE DEF T
<1>6. Nat \subseteq T
  BY <1>4, <1>5, NumberInduction
<1>7. \A j \in 0 .. M : w[j] \in {None, u[j]}
  BY <1>0, <1>6 DEF T
<1> QED
  BY <1>7 DEF u, w, M

LEMMA CutLoopless ==
    ASSUME NEW d, NEW e, NEW a \in Accounts,
           d.proxy \in [Accounts -> Accounts \cup {None}],
           e.proxy \in [Accounts -> Accounts \cup {None}],
           e.proxy[a] = None, \A x \in Accounts \ {a} : e.proxy[x] = d.proxy[x], Loopless(d)
    PROVE  Loopless(e)
<1> SUFFICES ASSUME NEW b \in Accounts, NEW n \in 1 .. MaxProxyDepth, Up(e, b)[n] = b
             PROVE  FALSE
  BY DEF Loopless
<1>1. n \in 0 .. MaxProxyDepth
  BY QiLedgerAssumption
<1>2. Up(e, b)[n] \in {None, Up(d, b)[n]}
  BY <1>1, UpCut
<1> QED
  BY <1>2, AccountTypes DEF Loopless

\* A new proxy that is not below the account makes no loop.
LEMMA HungLoopless ==
    ASSUME NEW d, NEW e, NEW a \in Accounts, NEW p \in Accounts,
           d.proxy \in [Accounts -> Accounts \cup {None}], d.proxy[a] = None,
           e.proxy \in [Accounts -> Accounts \cup {None}],
           e.proxy[a] = p, \A x \in Accounts \ {a} : e.proxy[x] = d.proxy[x], Loopless(d),
           \A j \in 0 .. MaxProxyDepth : Up(d, p)[j] # a
    PROVE  Loopless(e)
<1>a. ASSUME NEW x \in Accounts, NEW k \in 0 .. MaxProxyDepth,
             \A j \in 0 .. MaxProxyDepth : j < k => Up(d, x)[j] # a
      PROVE  \A j \in 0 .. MaxProxyDepth : j <= k => Up(e, x)[j] = Up(d, x)[j]
  <2>1. ProxyOf(d, e, a) /\ Avoids(d, x, a, k)
    BY <1>a DEF ProxyOf, Avoids
  <2> QED
    BY <2>1, UpAgrees
<1>b. ASSUME NEW x \in Accounts, NEW k \in 0 .. MaxProxyDepth, Up(e, x)[k] # None
      PROVE  \A i \in 0 .. MaxProxyDepth : k + i <= MaxProxyDepth =>
                Up(e, Up(e, x)[k])[i] = Up(e, x)[k + i]
  BY <1>b, UpComposes
<1> SUFFICES ASSUME NEW b \in Accounts, NEW n \in 1 .. MaxProxyDepth, Up(e, b)[n] = b
             PROVE  FALSE
  BY DEF Loopless
<1> DEFINE M == MaxProxyDepth
<1>0. M \in Nat \ {0} /\ n \in 0 .. M
  BY QiLedgerAssumption
<1>1. /\ e.proxy \in [Accounts -> Accounts \cup {None}] /\ e.proxy[a] = p
      /\ \A x \in Accounts \ {a} : e.proxy[x] = d.proxy[x]
  OBVIOUS
<1>2. CASE \A j \in 0 .. M : j < n => Up(d, b)[j] # a
  <2>1. \A j \in 0 .. M : j <= n => Up(e, b)[j] = Up(d, b)[j]
    BY <1>0, <1>2, <1>a
  <2>2. Up(e, b)[n] = Up(d, b)[n]
    BY <1>0, <2>1
  <2> QED
    BY <2>2 DEF Loopless
<1>3. CASE ~\A j \in 0 .. M : j < n => Up(d, b)[j] # a
  <2>1. PICK k \in 0 .. M : k < n /\ Up(d, b)[k] = a
    BY <1>3
  <2>2. k + 1 \in 1 .. M /\ k + 1 \in 0 .. M /\ (k + 1) - 1 = k /\ a # None
    BY <1>0, <2>1, AccountTypes
  <2>3. ASSUME NEW j \in 0 .. M, j < k PROVE Up(d, b)[j] # a
    <3> SUFFICES ASSUME Up(d, b)[j] = a PROVE FALSE
      OBVIOUS
    <3>1. Up(d, b)[j] = Up(d, b)[k] /\ Up(d, b)[j] # None
      BY <2>1, <2>2
    <3>2. j = k
      BY <3>1, UpOnce
    <3> QED
      BY <2>3, <3>2
  <2>4. Up(e, b)[k] = a
    <3>1. \A j \in 0 .. M : j <= k => Up(e, b)[j] = Up(d, b)[j]
      BY <2>3, <1>a
    <3> QED
      BY <1>0, <2>1, <3>1
  <2>5. Up(e, b)[k + 1] = p
    <3>0. \A i \in 1 .. M :
             Up(e, b)[i] = IF Up(e, b)[i-1] = None THEN None ELSE e.proxy[Up(e, b)[i-1]]
      BY <1>1, UpSteps
    <3>1. Up(e, b)[k + 1] = IF Up(e, b)[k] = None THEN None ELSE e.proxy[Up(e, b)[k]]
      BY <2>2, <3>0
    <3> QED
      BY <1>1, <2>2, <2>4, <3>1
  <2> DEFINE j == n - (k + 1)
  <2>6. j \in 0 .. M /\ (k + 1) + j = n /\ j + k = n - 1 /\ n - 1 \in 0 .. M /\ (k + 1) + j <= M
        /\ j + k <= M
    BY <1>0, <2>1, <2>2
  <2> HIDE DEF j
  <2>7. Up(e, p)[j] = Up(e, b)[n]
    <3>1. Up(e, b)[k + 1] # None
      BY <2>5, AccountTypes
    <3>2. \A i \in 0 .. M : (k + 1) + i <= M =>
             Up(e, Up(e, b)[k + 1])[i] = Up(e, b)[(k + 1) + i]
      BY <2>2, <3>1, <1>b
    <3>3. Up(e, Up(e, b)[k + 1])[j] = Up(e, b)[(k + 1) + j]
      BY <2>6, <3>2
    <3> QED
      BY <2>5, <2>6, <3>3
  <2>8. Up(e, p)[j] = Up(d, p)[j]
    <3>1. \A i \in 0 .. M : i < j => Up(d, p)[i] # a
      OBVIOUS
    <3>2. \A i \in 0 .. M : i <= j => Up(e, p)[i] = Up(d, p)[i]
      BY <2>6, <3>1, <1>a
    <3> QED
      BY <2>6, <3>2
  <2>9. Up(d, p)[j] = b
    BY <2>7, <2>8
  <2>10. Up(d, b)[k] = Up(d, p)[j + k]
    <3>1. Up(d, p)[j] # None
      BY <2>9, AccountTypes
    <3>2. \A i \in 0 .. M : j + i <= M => Up(d, Up(d, p)[j])[i] = Up(d, p)[j + i]
      BY <2>6, <3>1, UpComposes
    <3>3. Up(d, Up(d, p)[j])[k] = Up(d, p)[j + k]
      BY <2>6, <3>2
    <3> QED
      BY <2>9, <3>3
  <2> QED
    BY <2>1, <2>6, <2>10
<1> QED
  BY <1>2, <1>3

\* An account that leaves its proxy and its simings with all its weight.
LEMMA LeftCounted ==
    ASSUME NEW d \in Ledger, NEW a \in Accounts, NEW r,
           r = AdjustProxied(d, a, WholeWeight(d, a, -1)), NEW e, Rehung(r, e, a, None),
           NEW l, Counted(d, l)
    PROVE  /\ OnlyAdores(d, r) /\ Passes(d, r) /\ Counted(e, l)
           /\ r.proxied[a] = d.proxied[a]
<1> DEFINE delta == WholeWeight(d, a, -1)
<1>1. delta \in Deltas
  BY WholeWeightType
<1>2. RootsAdore(d) /\ Loopless(d)
  BY DEF Counted
<1>3. OnlyAdores(d, r) /\ Balancing(d, r, a, delta) /\ Passes(d, r)
  BY <1>1, <1>2, AdjustProxiedBalances
<1>4. RootsAdore(r) /\ Loopless(r)
  BY <1>2, <1>3, AdjustedRoots
<1>5. r \in Ledger /\ r.qi = d.qi /\ r.proxy = d.proxy /\ r.adored = d.adored
  BY <1>3 DEF OnlyAdores, SameQi, SameVotes
<1>6. r.proxied[a] = d.proxied[a]
  <2>1. r.proxied[a] \in [Levels -> Int] /\ d.proxied[a] \in [Levels -> Int]
    BY <1>5 DEF Ledger
  <2> QED
    BY <1>3, <2>1 DEF Balancing
<1>7. \A i \in Levels : delta[i] = -Passed(d, a, i)
  <2> SUFFICES ASSUME NEW i \in Levels PROVE delta[i] = -Passed(d, a, i)
    OBVIOUS
  <2>1. i \in 0 .. MaxProxyDepth
    BY QiLedgerAssumption DEF Levels
  <2>2. delta[i] = (-1) * (IF i = 0 THEN d.qi[a] ELSE d.proxied[a][i-1])
    BY <2>1 DEF WholeWeight
  <2>3. delta[i] = (-1) * Passed(d, a, i)
    BY <2>2 DEF Passed
  <2>4. Passed(d, a, i) \in Int
    BY <2>1, PassedType
  <2> QED
    BY <2>3, <2>4
<1>8. LeftOver(delta, 0) = -Weight(d, a)
  BY WholeWeightLeft
<1>9. /\ \A i \in Levels : Passed(r, a, i) = Passed(d, a, i) /\ Passed(d, a, i) \in Int
      /\ Weight(r, a) = Weight(d, a) /\ Weight(d, a) \in Int
  <2>1. \A i \in Levels : i \in 0 .. MaxProxyDepth
    BY QiLedgerAssumption DEF Levels
  <2> QED
    BY <1>5, <1>6, <2>1, PassedType DEF Passed, Weight
<1> HIDE DEF delta
<1>10. /\ \A c \in Accounts, i \in Levels :
             LevelOver(e, c, i) = LevelOver(r, c, i)
                                    + (IF r.proxy[a] = c THEN Passed(r, a, i) ELSE 0)
                                    - (IF None = c THEN Passed(r, a, i) ELSE 0)
       /\ \A s \in Simings :
             AdoreOver(e, s) = AdoreOver(r, s) + IF <<a, s>> \in r.adored THEN Weight(r, a) ELSE 0
       /\ RootsAdore(e)
  BY <1>4, <1>5, ProxyMoves
<1>11. /\ \A b \in Accounts, i \in Levels : LevelOver(d, b, i) \in Int
       /\ \A s \in Simings : AdoreOver(d, s) \in Int
  BY PassedType
<1>12. ASSUME NEW c \in Accounts, NEW i \in Levels PROVE LevelOver(e, c, i) = LevelOver(d, c, i)
  <2>1. LevelOver(r, c, i) = LevelOver(d, c, i) + IF d.proxy[a] = c THEN -Passed(d, a, i) ELSE 0
    BY <1>3, <1>7 DEF Balancing
  <2>2. LevelOver(e, c, i) = LevelOver(r, c, i) + IF d.proxy[a] = c THEN Passed(d, a, i) ELSE 0
    <3>1. LevelOver(r, c, i) \in Int /\ Passed(d, a, i) \in Int
      BY <1>5, <1>9, PassedType
    <3>2. c # None
      BY AccountTypes
    <3> QED
      BY <1>5, <1>9, <1>10, <3>1, <3>2
  <2> QED
    BY <1>9, <1>11, <2>1, <2>2
<1>13. ASSUME NEW s \in Simings PROVE AdoreOver(e, s) = AdoreOver(d, s)
  <2>1. AdoreOver(r, s) = AdoreOver(d, s) + IF <<a, s>> \in d.adored THEN -Weight(d, a) ELSE 0
    BY <1>3, <1>8 DEF Balancing
  <2>2. AdoreOver(e, s) = AdoreOver(r, s) + IF <<a, s>> \in d.adored THEN Weight(d, a) ELSE 0
    BY <1>5, <1>9, <1>10
  <2> QED
    BY <1>9, <1>11, <2>1, <2>2
<1>14. Loopless(e)
  <2>1. /\ r.proxy \in [Accounts -> Accounts \cup {None}]
        /\ e.proxy \in [Accounts -> Accounts \cup {None}]
        /\ e.proxy[a] = None /\ \A x \in Accounts \ {a} : e.proxy[x] = r.proxy[x]
    BY <1>5 DEF Ledger, Rehung
  <2> QED
    BY <1>4, <2>1, CutLoopless
<1> QED
  BY <1>3, <1>6, <1>10, <1>12, <1>13, <1>14 DEF Counted

\* An account without proxy and simings that takes its weight to a proxy.
LEMMA JoinedCounted ==
    ASSUME NEW d \in Ledger, NEW a \in Accounts, NEW p \in Accounts, NEW m, Rehung(d, m, a, p),
           d.proxy[a] = None, \A v \in d.adored : v[1] # a,
           \A j \in 0 .. MaxProxyDepth : Up(d, p)[j] # a,
           NEW delta \in Deltas, \A i \in Levels : delta[i] = Passed(d, a, i),
           NEW l, Counted(d, l)
    PROVE  /\ OnlyAdores(m, AdjustProxied(m, a, delta)) /\ Passes(m, AdjustProxied(m, a, delta))
           /\ Counted(AdjustProxied(m, a, delta), l)
<1> DEFINE e == AdjustProxied(m, a, delta)
<1>1. /\ \A c \in Accounts, i \in Levels :
            LevelOver(m, c, i) = LevelOver(d, c, i)
                                   + (IF d.proxy[a] = c THEN Passed(d, a, i) ELSE 0)
                                   - (IF p = c THEN Passed(d, a, i) ELSE 0)
      /\ \A s \in Simings :
            AdoreOver(m, s) = AdoreOver(d, s) + IF <<a, s>> \in d.adored THEN Weight(d, a) ELSE 0
      /\ RootsAdore(m)
  BY ProxyMoves DEF Counted
<1>2. Loopless(m)
  <2>1. /\ d.proxy \in [Accounts -> Accounts \cup {None}]
        /\ m.proxy \in [Accounts -> Accounts \cup {None}]
        /\ m.proxy[a] = p /\ \A x \in Accounts \ {a} : m.proxy[x] = d.proxy[x]
        /\ Loopless(d)
    BY DEF Ledger, Rehung, Counted
  <2> QED
    BY <2>1, HungLoopless
<1>3. m \in Ledger /\ m.proxy[a] = p /\ \A s : <<a, s>> \notin m.adored /\ <<a, s>> \notin d.adored
  <2>1. m \in Ledger /\ m.proxy[a] = p
    BY DEF Ledger, Rehung
  <2>2. \A s : <<a, s>>[1] = a
    OBVIOUS
  <2>3. m.adored = {v \in d.adored : v[1] # a}
    BY DEF Rehung
  <2> QED
    BY <2>1, <2>2, <2>3
<1>4. OnlyAdores(m, e) /\ Balancing(m, e, a, delta) /\ Passes(m, e)
  BY <1>1, <1>2, <1>3, AdjustProxiedBalances
<1>5. RootsAdore(e) /\ Loopless(e)
  BY <1>1, <1>2, <1>4, AdjustedRoots
<1> HIDE DEF e
<1>6. /\ \A b \in Accounts, i \in Levels : LevelOver(d, b, i) \in Int /\ Passed(d, a, i) \in Int
      /\ \A s \in Simings : AdoreOver(d, s) \in Int
  <2>1. \A i \in Levels : i \in 0 .. MaxProxyDepth
    BY QiLedgerAssumption DEF Levels
  <2> QED
    BY <2>1, PassedType
<1>7. ASSUME NEW c \in Accounts, NEW i \in Levels PROVE LevelOver(e, c, i) = LevelOver(d, c, i)
  <2>1. LevelOver(e, c, i) = LevelOver(m, c, i) + IF p = c THEN Passed(d, a, i) ELSE 0
    BY <1>3, <1>4 DEF Balancing
  <2>2. LevelOver(m, c, i) = LevelOver(d, c, i) - IF p = c THEN Passed(d, a, i) ELSE 0
    BY <1>1, <1>6, AccountTypes
  <2> QED
    BY <1>6, <2>1, <2>2
<1>8. ASSUME NEW s \in Simings PROVE AdoreOver(e, s) = AdoreOver(d, s)
  <2>1. AdoreOver(m, s) = AdoreOver(d, s)
    <3>1. AdoreOver(m, s) = AdoreOver(d, s) + 0
      BY <1>1, <1>3
    <3> QED
      BY <1>6, <3>1
  <2>2. AdoreOver(e, s) = AdoreOver(m, s) + 0
    BY <1>3, <1>4 DEF Balancing
  <2> QED
    BY <1>6, <2>1, <2>2
<1> QED
  BY <1>4, <1>5, <1>7, <1>8 DEF Counted, e

-----------------------------------------------------------------------------
(* What the levels and the adores are, if they are counted. *)

\* The level i of an account is the qi of the accounts i + 1 proxies below it.
Level(d, c, i) == SumFunctionOnSet(d.qi, {b \in Accounts : Up(d, b)[i + 1] = c})

\* It is that of the accounts right below it, one level down.
LEMMA LevelParts ==
    ASSUME NEW d \in Ledger, NEW c \in Accounts
    PROVE  /\ Level(d, c, 0) = SumFunctionOnSet(d.qi, Below(d, c))
           /\ \A i \in Levels \ {0} :
                 Level(d, c, i)
                   = SumFunctionOnSet([b \in Accounts |-> Level(d, b, i - 1)], Below(d, c))
           /\ \A i \in Levels : Level(d, c, i) \in Int
<1>1. /\ d.proxy \in [Accounts -> Accounts \cup {None}] /\ \A b \in Accounts : d.qi[b] \in Int
      /\ c # None
  BY AccountTypes DEF Ledger
<1>2. MaxProxyDepth \in Nat \ {0}
  BY QiLedgerAssumption
<1>3. ASSUME NEW b \in Accounts, NEW n \in 1 .. MaxProxyDepth
      PROVE  (Up(d, b)[n] = c) = (Up(d, b)[n-1] \in Below(d, c))
  <2>1. /\ Up(d, b) \in [0 .. MaxProxyDepth -> Accounts \cup {None}]
        /\ Up(d, b)[n] = IF Up(d, b)[n-1] = None THEN None ELSE d.proxy[Up(d, b)[n-1]]
    BY <1>1, UpSteps
  <2>2. n - 1 \in 0 .. MaxProxyDepth
    BY <1>2
  <2>3. Up(d, b)[n-1] \in Accounts \cup {None}
    BY <2>1, <2>2
  <2> QED
    BY <1>1, <2>1, <2>3, AccountTypes DEF Below
<1>4. Level(d, c, 0) = SumFunctionOnSet(d.qi, Below(d, c))
  <2>1. ASSUME NEW b \in Accounts PROVE (Up(d, b)[0 + 1] = c) = (b \in Below(d, c))
    <3>1. 0 + 1 \in 1 .. MaxProxyDepth /\ 0 + 1 - 1 = 0
      BY <1>2
    <3>2. Up(d, b)[0] = b
      BY <1>1, UpSteps
    <3>3. (Up(d, b)[0 + 1] = c) = (Up(d, b)[0 + 1 - 1] \in Below(d, c))
      BY <1>3, <3>1
    <3> QED
      BY <3>1, <3>2, <3>3
  <2>2. {b \in Accounts : Up(d, b)[0 + 1] = c} = Below(d, c)
    BY <2>1 DEF Below
  <2> QED
    BY <2>2 DEF Level
<1>5. ASSUME NEW i \in Levels \ {0}
      PROVE  Level(d, c, i)
               = SumFunctionOnSet([b \in Accounts |-> Level(d, b, i - 1)], Below(d, c))
  <2> DEFINE g == [b \in Accounts |-> Up(d, b)[i]]
             part == [b \in Accounts |-> Level(d, b, i - 1)]
             f == d.qi
             C == Below(d, c)
  <2>1. i \in 1 .. MaxProxyDepth /\ i + 1 \in 1 .. MaxProxyDepth /\ i + 1 - 1 = i /\ i - 1 + 1 = i
    BY <1>2 DEF Levels
  <2>2. {b \in Accounts : Up(d, b)[i + 1] = c} = {b \in Accounts : g[b] \in C}
    <3> HIDE DEF C
    <3>1. \A b \in Accounts : (Up(d, b)[i + 1] = c) = (Up(d, b)[i + 1 - 1] \in C)
      BY <1>3, <2>1 DEF C
    <3> QED
      BY <2>1, <3>1
  <2>3. C \subseteq Accounts /\ IsFiniteSet(C)
    BY Finite, FS_Subset DEF Below
  <2>4. \A b \in C : part[b] = SumFunctionOnSet(f, {x \in Accounts : g[x] = b})
    <3> SUFFICES ASSUME NEW b \in C
                 PROVE  part[b] = SumFunctionOnSet(f, {x \in Accounts : g[x] = b})
      OBVIOUS
    <3>1. {x \in Accounts : g[x] = b} = {x \in Accounts : Up(d, x)[i - 1 + 1] = b}
      BY <2>1
    <3>2. part[b] = Level(d, b, i - 1)
      BY <2>3
    <3> HIDE DEF g, C, part
    <3> QED
      BY <3>1, <3>2 DEF Level
  <2> HIDE DEF g, part, C, f
  <2>5. \A b \in Accounts : f[b] \in Int
    BY <1>1 DEF f
  <2>6. SumFunctionOnSet(f, {x \in Accounts : g[x] \in C}) = SumFunctionOnSet(part, C)
    <3> DEFINE S == Accounts
    <3>1. IsFiniteSet(S) /\ (\A b \in S : f[b] \in Int) /\ IsFiniteSet(C)
      BY <2>3, <2>5, Finite
    <3>2. \A b \in C : part[b] = SumFunctionOnSet(f, Where(S, g, b))
      BY <2>4 DEF Where
    <3>3. {x \in Accounts : g[x] \in C} = Within(S, g, C)
      BY DEF Within
    <3> HIDE DEF S
    <3>4. SumFunctionOnSet(f, Within(S, g, C)) = SumFunctionOnSet(part, C)
      BY <3>1, <3>2, SumParts
    <3> QED
      BY <3>3, <3>4
  <2> QED
    BY <2>2, <2>6 DEF Level, part, C, f
<1>6. ASSUME NEW i \in Levels PROVE Level(d, c, i) \in Int
  <2> DEFINE A == {b \in Accounts : Up(d, b)[i + 1] = c}
  <2>1. IsFiniteSet(A) /\ \A b \in A : d.qi[b] \in Int
    BY <1>1, Finite, FS_Subset
  <2> HIDE DEF A
  <2>2. SumFunctionOnSet(d.qi, A) \in Int
    BY <2>1, SumStep
  <2> QED
    BY <2>2 DEF Level, A
<1> QED
  BY <1>4, <1>5, <1>6

\* What is passed on, level by level.
LEMMA CountedLevels ==
    ASSUME NEW d \in Ledger, NEW l, Counted(d, l)
    PROVE  \A i \in Levels, c \in Accounts : Fits(l, d.proxied[c][i] - Level(d, c, i))
<1> DEFINE Right(i) == \A c \in Accounts : Fits(l, d.proxied[c][i] - Level(d, c, i))
           T == {n \in Nat : n \in Levels => Right(n)}
<1>1. MaxProxyDepth \in Nat \ {0} /\ \A i \in Levels : i \in Nat /\ (i # 0 => i - 1 \in Levels)
  BY QiLedgerAssumption DEF Levels
<1>2. ASSUME NEW i \in Levels, i # 0 => Right(i - 1) PROVE Right(i)
  <2> SUFFICES ASSUME NEW c \in Accounts PROVE Fits(l, d.proxied[c][i] - Level(d, c, i))
    OBVIOUS
  <2> DEFINE f == [b \in Accounts |-> Passed(d, b, i)]
             g == [b \in Accounts |-> IF i = 0 THEN d.qi[b] ELSE Level(d, b, i - 1)]
             C == Below(d, c)
  <2>1. C \subseteq Accounts /\ IsFiniteSet(C)
    BY Finite, FS_Subset DEF Below
  <2>2. i \in 0 .. MaxProxyDepth /\ d.proxied[c][i] \in Int
    BY <1>1 DEF Levels, Ledger
  <2>3. \A b \in Accounts : f[b] \in Int /\ g[b] \in Int
    <3>1. \A b \in Accounts : Passed(d, b, i) \in Int
      BY <2>2, PassedType
    <3>2. \A b \in Accounts : i # 0 => Level(d, b, i - 1) \in Int
      BY <1>1, LevelParts
    <3>3. \A b \in Accounts : d.qi[b] \in Int
      BY DEF Ledger
    <3> QED
      BY <3>1, <3>2, <3>3
  <2>4. Level(d, c, i) = SumFunctionOnSet(g, C)
    <3>1. CASE i = 0
      <4>1. SumFunctionOnSet(d.qi, C) = SumFunctionOnSet(g, C)
        <5>1. \A b \in C : d.qi[b] \in Int /\ d.qi[b] = g[b]
          BY <2>1, <3>1 DEF Ledger
        <5> HIDE DEF g, C
        <5> QED
          BY <2>1, <5>1, SumSame
      <4> QED
        BY <3>1, <4>1, LevelParts
    <3>2. CASE i # 0
      <4>1. g = [b \in Accounts |-> Level(d, b, i - 1)]
        BY <3>2
      <4> QED
        BY <3>2, <4>1, LevelParts
    <3> QED
      BY <3>1, <3>2
  <2>5. \A b \in Accounts : Fits(l, f[b] - g[b])
    <3> SUFFICES ASSUME NEW b \in Accounts PROVE Fits(l, f[b] - g[b])
      OBVIOUS
    <3>1. CASE i = 0
      <4>1. f[b] = g[b] /\ f[b] \in Int
        BY <2>3, <3>1 DEF Passed
      <4> HIDE DEF f, g
      <4> QED
        BY <4>1 DEF Fits
    <3>2. CASE i # 0
      <4>1. f[b] = d.proxied[b][i - 1] /\ g[b] = Level(d, b, i - 1)
        BY <3>2 DEF Passed
      <4>2. Fits(l, d.proxied[b][i - 1] - Level(d, b, i - 1))
        BY <1>2, <3>2
      <4> QED
        BY <4>1, <4>2
    <3> QED
      BY <3>1, <3>2
  <2>6. Fits(l, d.proxied[c][i] - SumFunctionOnSet(f, C))
    <3>1. Fits(l, LevelOver(d, c, i))
      BY DEF Counted
    <3> QED
      BY <3>1 DEF LevelOver
  <2> HIDE DEF f, g, C
  <2>7. SumFunctionOnSet(f, C) \in Int /\ SumFunctionOnSet(g, C) \in Int
    <3>1. (\A b \in C : f[b] \in Int) /\ (\A b \in C : g[b] \in Int)
      BY <2>1, <2>3
    <3> QED
      BY <2>1, <3>1, SumStep
  <2>8. CASE l
    <3>1. \A b \in C : g[b] \in Int /\ f[b] \in Int /\ g[b] <= f[b]
      BY <2>1, <2>3, <2>5, <2>8 DEF Fits
    <3>2. SumFunctionOnSet(g, C) <= SumFunctionOnSet(f, C)
      BY <2>1, <3>1, SumLeq
    <3> QED
      BY <2>2, <2>4, <2>6, <2>7, <2>8, <3>2 DEF Fits
  <2>9. CASE ~l
    <3>1. \A b \in C : g[b] \in Int /\ f[b] \in Int
      BY <2>1, <2>3
    <3>2. \A b \in C : f[b] - g[b] = 0
      BY <2>1, <2>5, <2>9 DEF Fits
    <3>3. \A b \in C : g[b] \in Int /\ g[b] = f[b]
      BY <3>1, <3>2
    <3>4. SumFunctionOnSet(g, C) = SumFunctionOnSet(f, C)
      BY <2>1, <3>3, SumSame
    <3> QED
      BY <2>2, <2>4, <2>6, <2>7, <2>9, <3>4 DEF Fits
  <2> QED
    BY <2>8, <2>9
<1> HIDE DEF Right
<1>3. 0 \in T
  <2>1. 0 \in Levels
    BY <1>1 DEF Levels
  <2> QED
    BY <1>2, <2>1
<1>4. ASSUME NEW n \in Nat, n \in T PROVE n + 1 \in T
  <2>1. CASE n + 1 \in Levels
    <3>1. n \in Levels /\ n + 1 - 1 = n
      BY <1>1, <2>1 DEF Levels
    <3>2. Right(n)
      BY <1>4, <3>1
    <3>3. Right(n + 1)
      BY <1>2, <2>1, <3>1, <3>2
    <3> QED
      BY <3>3
  <2>2. CASE n + 1 \notin Levels
    BY <2>2
  <2> QED
    BY <2>1, <2>2
<1> HIDE DEF T
<1>5. Nat \subseteq T
  BY <1>3, <1>4, NumberInduction
<1> QED
  BY <1>1, <1>5 DEF T, Right

\* An account and all whose proxies lead to it.
Under(d, c) == {b \in Accounts : \E n \in 0 .. MaxProxyDepth : Up(d, b)[n] = c}

\* Whose qi is the weight of an account.
LEMMA WeightIs ==
    ASSUME NEW d \in Ledger, Counted(d, FALSE), NEW c \in Accounts
    PROVE  Weight(d, c) = SumFunctionOnSet(d.qi, Under(d, c))
<1> DEFINE M == MaxProxyDepth
           I == 0 .. MaxProxyDepth
           U == Under(d, c)
           g == [b \in Accounts |-> IF b \in U THEN CHOOSE n \in I : Up(d, b)[n] = c ELSE -1]
           part == [n \in I |-> IF n = 0 THEN d.qi[c] ELSE Level(d, c, n - 1)]
           f == d.proxied[c]
<1>1. M \in Nat \ {0} /\ Levels = 0 .. M - 1 /\ I = 0 .. M /\ 0 \in I
  BY QiLedgerAssumption DEF Levels
<1>2. /\ d.proxy \in [Accounts -> Accounts \cup {None}] /\ Loopless(d)
      /\ d.qi \in [Accounts -> Int] /\ f \in [Levels -> Int] /\ c # None
  BY AccountTypes DEF Ledger, Counted
<1>3. ASSUME NEW n \in I PROVE Where(Accounts, g, n) = {b \in Accounts : Up(d, b)[n] = c}
  <2>1. ASSUME NEW b \in Accounts PROVE (g[b] = n) = (Up(d, b)[n] = c)
    <3>1. ASSUME b \in U PROVE g[b] \in I /\ Up(d, b)[g[b]] = c
      <4>1. \E m \in I : Up(d, b)[m] = c
        BY <3>1 DEF Under
      <4>2. g[b] = CHOOSE m \in I : Up(d, b)[m] = c
        BY <3>1
      <4> QED
        BY <4>1, <4>2
    <3>2. Up(d, b)[n] = c => b \in U
      BY DEF Under
    <3>3. b \notin U => g[b] = -1
      OBVIOUS
    <3>4. n # -1
      BY <1>1
    <3>5. ASSUME NEW m \in I, Up(d, b)[n] = c, Up(d, b)[m] = c PROVE n = m
      BY <1>2, <3>5, UpOnce
    <3> HIDE DEF g, U, I
    <3> QED
      BY <3>1, <3>2, <3>3, <3>4, <3>5
  <2> QED
    BY <2>1 DEF Where
<1>4. Within(Accounts, g, I) = U
  <2>1. \A b \in Accounts : (g[b] \in I) = (b \in U)
    <3> SUFFICES ASSUME NEW b \in Accounts PROVE (g[b] \in I) = (b \in U)
      OBVIOUS
    <3>1. b \in U => \E m \in I : Up(d, b)[m] = c
      BY DEF Under
    <3>2. b \in U => g[b] \in I
      BY <3>1
    <3>3. b \notin U => g[b] = -1
      OBVIOUS
    <3>4. -1 \notin I
      BY <1>1
    <3> HIDE DEF g, U, I
    <3> QED
      BY <3>2, <3>3, <3>4
  <2>2. U \subseteq Accounts
    BY DEF Under
  <2> HIDE DEF g, U, I
  <2> QED
    BY <2>1, <2>2 DEF Within
<1>5. \A n \in I : part[n] = SumFunctionOnSet(d.qi, Where(Accounts, g, n))
  <2> SUFFICES ASSUME NEW n \in I
               PROVE  part[n] = SumFunctionOnSet(d.qi, Where(Accounts, g, n))
    OBVIOUS
  <2>1. CASE n = 0
    <3>1. \A b \in Accounts : Up(d, b)[0] = b
      BY <1>2, UpSteps
    <3>2. {b \in Accounts : Up(d, b)[n] = c} = {c}
      BY <2>1, <3>1
    <3> DEFINE q == d.qi
               C == {c}
    <3>3. IsFiniteSet(C) /\ c \in C /\ q[c] \in Int /\ \A y \in C \ {c} : q[y] = 0
      BY <1>2, FS_Singleton
    <3> HIDE DEF C, q
    <3>4. SumFunctionOnSet(q, C) = q[c]
      BY <3>3, SumOne
    <3>5. part[n] = q[c]
      BY <2>1 DEF q
    <3> QED
      BY <1>3, <3>2, <3>4, <3>5 DEF C, q
  <2>2. CASE n # 0
    <3>1. n - 1 + 1 = n
      BY <1>1
    <3>2. Level(d, c, n - 1) = SumFunctionOnSet(d.qi, {b \in Accounts : Up(d, b)[n] = c})
      BY <3>1 DEF Level
    <3> HIDE DEF g
    <3> QED
      BY <1>3, <2>2, <3>2
  <2> QED
    BY <2>1, <2>2
<1>6. \A j \in Levels : f[j] = Level(d, c, j)
  <2>1. \A j \in Levels : d.proxied[c][j] - Level(d, c, j) = 0 /\ Level(d, c, j) \in Int
    BY CountedLevels, LevelParts DEF Fits
  <2>2. \A j \in Levels : f[j] \in Int
    BY <1>2
  <2> QED
    BY <2>1, <2>2
<1>7. part[0] = d.qi[c] /\ \A j \in Levels : part[j + 1] = f[j]
  <2>1. \A j \in Levels : j + 1 \in I /\ j + 1 # 0 /\ (j + 1) - 1 = j
    BY <1>1
  <2>2. \A j \in Levels : part[j + 1] = Level(d, c, j)
    BY <2>1
  <2> QED
    BY <1>1, <1>6, <2>2
<1> HIDE DEF g, U, part
<1>8. SumFunctionOnSet(d.qi, U) = SumFunctionOnSet(part, I)
  <2> DEFINE S == Accounts
             q == d.qi
  <2>1. /\ IsFiniteSet(S) /\ IsFiniteSet(I) /\ \A x \in S : q[x] \in Int
        /\ \A n \in I : part[n] = SumFunctionOnSet(q, Where(S, g, n))
    BY <1>1, <1>2, <1>5, Finite
  <2> HIDE DEF S, I, q
  <2>2. SumFunctionOnSet(q, Within(S, g, I)) = SumFunctionOnSet(part, I)
    BY <2>1, SumParts
  <2> QED
    BY <1>4, <2>2 DEF S, q
<1>9. SumFunctionOnSet(part, I) = d.qi[c] + SumFunctionOnSet(f, Levels)
  <2>1. I \ {0} = 1 .. 1 + (M - 1) /\ IsFiniteSet(I)
    BY <1>1, Finite
  <2>2. \A n \in I : part[n] \in Int
    <3>1. \A j \in Levels : part[j + 1] \in Int
      BY <1>2, <1>7
    <3>2. \A n \in I \ {0} : n - 1 \in Levels /\ n - 1 + 1 = n
      BY <1>1
    <3>3. d.qi[c] \in Int
      BY <1>2
    <3> HIDE DEF I
    <3>4. ASSUME NEW n \in I \ {0} PROVE part[n] \in Int
      <4>1. part[n - 1 + 1] \in Int
        BY <3>1, <3>2
      <4> QED
        BY <3>2, <4>1
    <3> QED
      BY <1>7, <3>3, <3>4
  <2>3. SumFunctionOnSet(part, I) = part[0] + SumFunctionOnSet(part, I \ {0})
    <3> HIDE DEF I
    <3> QED
      BY <1>1, <2>1, <2>2, SumTakeOut
  <2> DEFINE m == M - 1
             k == 1
  <2>4. /\ m \in Nat /\ k \in Int /\ 0 .. m = Levels
        /\ \A j \in 0 .. m : f[j] \in Int /\ part[j + k] = f[j]
    BY <1>1, <1>2, <1>7
  <2> HIDE DEF m, k, f
  <2>5. SumFunctionOnSet(part, k .. k + m) = SumFunctionOnSet(f, 0 .. m)
    BY <2>4, SumShift
  <2> QED
    BY <1>7, <2>1, <2>3, <2>4, <2>5 DEF m, k
<1>10. Weight(d, c) = d.qi[c] + SumFunctionOnSet(f, Levels)
  BY <1>2 DEF Weight, SumFunction
<1> QED
  BY <1>8, <1>9, <1>10 DEF U

\* No account is under two that have no proxy.
LEMMA OneRoot ==
    ASSUME NEW d \in Ledger, NEW b \in Accounts, NEW x \in Accounts, NEW y \in Accounts,
           d.proxy[x] = None, d.proxy[y] = None, b \in Under(d, x), b \in Under(d, y)
    PROVE  x = y
<1>1. d.proxy \in [Accounts -> Accounts \cup {None}] /\ MaxProxyDepth \in Nat
  BY QiLedgerAssumption DEF Ledger
<1>2. ASSUME NEW u \in Accounts, NEW w \in Accounts, d.proxy[u] = None,
             NEW n \in 0 .. MaxProxyDepth, NEW m \in 0 .. MaxProxyDepth, n < m,
             Up(d, b)[n] = u, Up(d, b)[m] = w
      PROVE  FALSE
  <2>1. n + 1 \in 1 .. MaxProxyDepth /\ n + 1 \in 0 .. MaxProxyDepth /\ n + 1 - 1 = n /\ n + 1 <= m
    BY <1>1, <1>2
  <2>2. \A k \in 1 .. MaxProxyDepth :
           Up(d, b)[k] = IF Up(d, b)[k-1] = None THEN None ELSE d.proxy[Up(d, b)[k-1]]
    BY <1>1, UpSteps
  <2>3. Up(d, b)[n + 1] = None
    <3>1. Up(d, b)[n + 1] = IF Up(d, b)[n + 1 - 1] = None THEN None
                            ELSE d.proxy[Up(d, b)[n + 1 - 1]]
      BY <2>1, <2>2
    <3> QED
      BY <1>2, <2>1, <3>1
  <2>4. Up(d, b)[m] = None
    BY <1>1, <2>1, <2>3, UpEnds
  <2> QED
    BY <1>2, <2>4, AccountTypes
<1>3. PICK n \in 0 .. MaxProxyDepth : Up(d, b)[n] = x
  BY DEF Under
<1>4. PICK m \in 0 .. MaxProxyDepth : Up(d, b)[m] = y
  BY DEF Under
<1>5. n < m \/ m < n \/ n = m
  BY <1>1
<1> QED
  BY <1>2, <1>3, <1>4, <1>5

-----------------------------------------------------------------------------
(* The calls of the handlers. *)

\* A handler keeps what is counted, and its assertions on the adores hold if no
\* siming has more than all qi at the end.
Keeps(d, e) == \A l : Counted(d, l) => Counted(e, l)
Fine(e) == \A s \in Simings : e.adores[s] <= e.total_qi
Accepts(d, e) == \A l : Counted(d, l) /\ d.ok /\ Fine(e) => e.ok

LEMMA SameKeeps ==
    ASSUME NEW d, NEW e, SameCount(d, e)
    PROVE  Keeps(d, e)
BY SameCounted DEF Keeps

LEMMA KeepsTransitive ==
    ASSUME NEW d, NEW e, NEW f, Keeps(d, e), Keeps(e, f)
    PROVE  Keeps(d, f)
BY DEF Keeps

\* Qi of one account becomes feigang of another, or the other way round.
Moved(d, e, to, from, x) ==
    /\ e \in Ledger
    /\ e.qi = [d.qi EXCEPT ![from] = @ - x]
    /\ e.feigang = [d.feigang EXCEPT ![to] = @ + x]
    /\ e.total_qi = d.total_qi - x /\ e.pending_feigang = d.pending_feigang + x
    /\ e.fund_qi = d.fund_qi
    /\ SameYang(d, e) /\ SameDelegations(d, e) /\ SameWithdrawals(d, e) /\ SameVotes(d, e)

\* What reward_feigang() does.
Rewarded(d, e, to, from, x) ==
    /\ Moved(d, e, to, from, x) /\ Keeps(d, e)
    /\ e.ok => d.ok /\ x > 0 /\ d.qi[from] >= x

LEMMA RewardFeigangDoes ==
    ASSUME NEW d \in Ledger, NEW to \in Accounts, NEW from \in Accounts, NEW x \in Int
    PROVE  Rewarded(d, RewardFeigang(d, to, from, x), to, from, x)
<1> DEFINE q == [d.qi EXCEPT ![from] = @ - x]
           c == [d EXCEPT !.qi = q]
           p == AdjustWeight(c, from, -x)
           g == [p.feigang EXCEPT ![to] = @ + x]
           o == p.ok /\ x > 0 /\ d.qi[from] >= x
           e == [p EXCEPT !.feigang = g, !.pending_feigang = @ + x, !.total_qi = @ - x, !.ok = o]
<1>1. q \in [Accounts -> Int] /\ q = [d.qi EXCEPT ![from] = @ + (-x)] /\ -x \in Int
  <2>1. d.qi \in [Accounts -> Int] /\ d.qi[from] \in Int
    BY DEF Ledger
  <2>2. d.qi[from] - x = d.qi[from] + (-x) /\ d.qi[from] - x \in Int
    BY <2>1
  <2> QED
    BY <2>1, <2>2
<1>2. RewardFeigang(d, to, from, x) = e
  BY DEF RewardFeigang
<1> HIDE DEF q
<1>3. /\ c \in Ledger /\ c.qi = q /\ c.feigang = d.feigang /\ c.fund_qi = d.fund_qi
      /\ c.total_qi = d.total_qi /\ c.pending_feigang = d.pending_feigang /\ c.ok = d.ok
      /\ SameYang(d, c) /\ SameDelegations(d, c) /\ SameWithdrawals(d, c) /\ SameVotes(d, c)
  BY <1>1 DEF Ledger, SameYang, SameDelegations, SameWithdrawals, SameVotes
<1>3a. c.proxied = d.proxied /\ c.adores = d.adores
  BY <1>1 DEF Ledger
<1> HIDE DEF c
<1>3b. Gains(d, c, from, -x)
  BY <1>1, <1>3, <1>3a DEF Gains, SameVotes
<1>4. OnlyAdores(c, p)
  BY <1>3, AdjustWeightKeeps
<1>4a. Keeps(d, p)
  BY <1>1, <1>3b, GainCounted DEF Keeps
<1> HIDE DEF p
<1>5. p \in Ledger
  BY <1>4 DEF OnlyAdores
<1> DEFINE m == p.pending_feigang + x
           n == p.total_qi - x
<1>6. g \in [Accounts -> Int] /\ o \in BOOLEAN /\ m \in Int /\ n \in Int
  BY <1>5 DEF Ledger
<1>6a. e = [p EXCEPT !.feigang = g, !.pending_feigang = m, !.total_qi = n, !.ok = o]
  OBVIOUS
<1> HIDE DEF g, o, m, n
<1>7. e \in Ledger
  <2> HIDE DEF e
  <2> QED
    BY <1>5, <1>6, <1>6a DEF Ledger
<1>8. /\ e.qi = p.qi /\ e.feigang = g /\ e.fund_qi = p.fund_qi
      /\ e.total_qi = p.total_qi - x /\ e.pending_feigang = p.pending_feigang + x /\ e.ok = o
      /\ SameYang(p, e) /\ SameDelegations(p, e) /\ SameWithdrawals(p, e) /\ SameVotes(p, e)
  BY <1>5 DEF Ledger, SameYang, SameDelegations, SameWithdrawals, SameVotes
<1>8a. SameCount(p, e)
  BY <1>5 DEF Ledger, SameCount
<1> HIDE DEF e
<1>9. /\ p.qi = q /\ p.feigang = d.feigang /\ p.fund_qi = d.fund_qi
      /\ p.total_qi = d.total_qi /\ p.pending_feigang = d.pending_feigang /\ (p.ok => d.ok)
  BY <1>3, <1>4 DEF OnlyAdores, SameQi
<1>10. /\ SameYang(d, e) /\ SameDelegations(d, e) /\ SameWithdrawals(d, e) /\ SameVotes(d, e)
  BY <1>3, <1>4, <1>8 DEF OnlyAdores, SameYang, SameDelegations, SameWithdrawals, SameVotes
<1>11. Keeps(d, e)
  BY <1>4a, <1>8a, SameKeeps, KeepsTransitive
<1> QED
  BY <1>2, <1>7, <1>8, <1>9, <1>10, <1>11 DEF Rewarded, Moved, q, g, o

\* What create_qi2() does.
Created(d, e, to, y) ==
    /\ e \in Ledger /\ (e.ok => d.ok) /\ Keeps(d, e) /\ Accepts(d, e)
    /\ e.qi = [d.qi EXCEPT ![to] = @ + y * QiPerYang]
    /\ e.total_qi = d.total_qi + y * QiPerYang
    /\ e.feigang = d.feigang /\ e.pending_feigang = d.pending_feigang /\ e.fund_qi = d.fund_qi
    /\ SameYang(d, e) /\ SameDelegations(d, e) /\ SameWithdrawals(d, e) /\ SameVotes(d, e)

LEMMA CreateQiDoes ==
    ASSUME NEW d \in Ledger, NEW to \in Accounts, NEW y \in Int
    PROVE  Created(d, CreateQi(d, to, y), to, y)
<1> DEFINE x == y * QiPerYang
           q == [d.qi EXCEPT ![to] = @ + x]
           n == d.total_qi + x
           c == [d EXCEPT !.qi = q, !.total_qi = n]
           e == AdjustWeight(c, to, x)
<1>0. x \in Int
  BY QiLedgerAssumption
<1>1. CreateQi(d, to, y) = e
  BY DEF CreateQi
<1> HIDE DEF x
<1>2. q \in [Accounts -> Int] /\ n \in Int
  BY <1>0 DEF Ledger
<1>2a. q = [d.qi EXCEPT ![to] = @ + x]
  OBVIOUS
<1> HIDE DEF q, n
<1>3. /\ c \in Ledger /\ c.qi = q /\ c.feigang = d.feigang /\ c.fund_qi = d.fund_qi
      /\ c.total_qi = n /\ c.pending_feigang = d.pending_feigang /\ c.ok = d.ok
      /\ SameYang(d, c) /\ SameDelegations(d, c) /\ SameWithdrawals(d, c) /\ SameVotes(d, c)
  BY <1>0, <1>2 DEF Ledger, SameYang, SameDelegations, SameWithdrawals, SameVotes
<1>3a. c.proxied = d.proxied /\ c.adores = d.adores
  BY <1>2 DEF Ledger
<1> HIDE DEF c
<1>3b. Gains(d, c, to, x)
  BY <1>2a, <1>3, <1>3a DEF Gains, SameVotes
<1>4. OnlyAdores(c, e)
  BY <1>0, <1>3, AdjustWeightKeeps
<1>4a. Keeps(d, e) /\ \A l : Counted(d, l) => Passes(c, e)
  BY <1>0, <1>3b, GainCounted DEF Keeps
<1> HIDE DEF e
<1>5. /\ e.qi = q /\ e.feigang = d.feigang /\ e.fund_qi = d.fund_qi /\ e \in Ledger
      /\ e.total_qi = n /\ e.pending_feigang = d.pending_feigang /\ (e.ok => d.ok)
  BY <1>3, <1>4 DEF OnlyAdores, SameQi
<1>6. /\ SameYang(d, e) /\ SameDelegations(d, e) /\ SameWithdrawals(d, e) /\ SameVotes(d, e)
  BY <1>3, <1>4 DEF OnlyAdores, SameYang, SameDelegations, SameWithdrawals, SameVotes
<1>7. Accepts(d, e)
  BY <1>3, <1>4a, <1>5 DEF Passes, Fine, Accepts
<1> QED
  BY <1>1, <1>4a, <1>5, <1>6, <1>7 DEF Created, q, x, n

-----------------------------------------------------------------------------
(* The invariant. *)

Positive(d) ==
    /\ d.balance \in [Accounts -> Nat] /\ d.qi \in [Accounts -> Nat]
    /\ d.feigang \in [Accounts -> Nat] /\ d.withdrawn \in [Accounts -> Nat]

Worth(d) ==
    SumFunction(d.balance) + d.fund_yang
      + AsYang(d.total_qi + d.pending_feigang + d.fund_qi + d.lost)

Accounted(d) ==
    /\ d.total_qi = SumFunction(d.qi)
    /\ d.pending_feigang = SumFunction(d.feigang)
    /\ Worth(d) = d.supply

Given(d, a) == SumFunction([b \in Accounts |-> d.delegation[<<a, b>>]])
Received(d, a) == SumFunction([b \in Accounts |-> d.delegation[<<b, a>>]])

Balanced(d) ==
    \A a \in Accounts :
      /\ d.delegated[a] = Given(d, a) + SumFunction(d.returning[a])
      /\ d.received[a] = Received(d, a)

\* A withdrawal that runs has the rate of what was asked for and something
\* left. Unless the account can pay itself, it has paid full intervals so far.
WithdrawalOK(d, a, l) ==
    /\ (d.next[a] = Never) = (d.rate[a] = 0)
    /\ d.rate[a] # 0 =>
         /\ d.rate[a] = WithdrawRate(d.to_withdraw[a])
         /\ d.withdrawn[a] < d.to_withdraw[a]
         /\ a \in l \/ \E k \in 0 .. d.withdrawn[a] : d.withdrawn[a] = k * d.rate[a]
    /\ \/ d.withdrawn[a] <= d.to_withdraw[a]
       \/ /\ a \in l
          /\ d.withdrawn[a] < d.to_withdraw[a] + WithdrawRate(d.to_withdraw[a])

Bounded(d, l) == \A a \in Accounts : WithdrawalOK(d, a, l)

\* What the routes of an account take of a withdrawal.
Granted(d, a) == SumFunction([r \in {r \in d.routes : r.from = a} |-> r.percent])

RoutesOK(d, l) ==
    /\ IsFiniteSet(d.routes)
    /\ \A a \in Accounts : Granted(d, a) <= Percent100
    /\ \A r \in d.routes : r.auto_vest /\ r.to = r.from => r.from \in l

Sound(d, l) ==
    Positive(d) /\ Accounted(d) /\ Balanced(d) /\ Bounded(d, l) /\ RoutesOK(d, l)

QiInv ==
    /\ db \in Ledger /\ db.ok /\ now \in 0 .. MaxBlocks /\ claimed \in BOOLEAN
    /\ Sound(db, looped) /\ Counted(db, claimed)

LEMMA SameBalanced ==
    ASSUME NEW d, NEW e, SameDelegations(d, e), Balanced(d)
    PROVE  Balanced(e)
BY DEF SameDelegations, Balanced, Given, Received

LEMMA SameBounded ==
    ASSUME NEW d, NEW e, NEW l, SameWithdrawals(d, e), Bounded(d, l), RoutesOK(d, l)
    PROVE  Bounded(e, l) /\ RoutesOK(e, l)
BY DEF SameWithdrawals, Bounded, WithdrawalOK, RoutesOK, Granted

\* Proxies and adores move nothing that the invariant speaks of.
Voted(d, e) ==
    /\ e \in Ledger /\ (e.ok => d.ok)
    /\ SameYang(d, e) /\ SameQi(d, e) /\ SameDelegations(d, e) /\ SameWithdrawals(d, e)

LEMMA VotedTransitive ==
    ASSUME NEW d, NEW e, NEW f, Voted(d, e), Voted(e, f)
    PROVE  Voted(d, f)
BY DEF Voted, SameYang, SameQi, SameDelegations, SameWithdrawals

LEMMA AdoresVoted ==
    ASSUME NEW d, NEW e, OnlyAdores(d, e)
    PROVE  Voted(d, e)
BY DEF OnlyAdores, Voted

LEMMA VotedSound ==
    ASSUME NEW d, NEW e, NEW l, Voted(d, e), Sound(d, l)
    PROVE  Sound(e, l)
<1>1. Positive(e) /\ Accounted(e)
  BY DEF Voted, SameYang, SameQi, SameWithdrawals, Sound, Positive, Accounted, Worth
<1>2. Balanced(e) /\ Bounded(e, l) /\ RoutesOK(e, l)
  BY SameBalanced, SameBounded DEF Voted, Sound
<1> QED
  BY <1>1, <1>2 DEF Sound

\* While nothing is counted too much, no siming has more than all qi.
LEMMA AdoresFit ==
    ASSUME NEW d \in Ledger, Positive(d), Accounted(d), Counted(d, FALSE)
    PROVE  Fine(d)
<1> SUFFICES ASSUME NEW s \in Simings PROVE d.adores[s] <= d.total_qi
  BY DEF Fine
<1> DEFINE A == Adorers(d, s)
           S == Accounts
           q == d.qi
           Over(b) == {a \in A : b \in Under(d, a)}
           g == [b \in Accounts |-> IF Over(b) = {} THEN None ELSE CHOOSE a \in Over(b) : TRUE]
           w == [a \in Accounts |-> Weight(d, a)]
           W == Within(S, g, A)
<1>1. /\ A \in SUBSET S /\ IsFiniteSet(S) /\ IsFiniteSet(A) /\ \A b \in S : q[b] \in Nat
      /\ S = Accounts
  BY Finite, FS_Subset DEF Adorers, Positive
<1>2. \A a \in A : d.proxy[a] = None
  <2> SUFFICES ASSUME NEW a \in A PROVE d.proxy[a] = None
    OBVIOUS
  <2>1. <<a, s>> \in d.adored /\ <<a, s>>[1] = a
    BY DEF Adorers
  <2> QED
    BY <2>1 DEF Counted, RootsAdore
<1>3. \A a \in A : w[a] = SumFunctionOnSet(q, Where(S, g, a))
  <2> SUFFICES ASSUME NEW a \in A PROVE w[a] = SumFunctionOnSet(q, Where(S, g, a))
    OBVIOUS
  <2>1. ASSUME NEW b \in Accounts PROVE (g[b] = a) = (b \in Under(d, a))
    <3>1. CASE b \in Under(d, a)
      <4>1. a \in Over(b)
        BY <3>1
      <4>2. g[b] \in Over(b)
        BY <4>1
      <4>3. g[b] \in A /\ b \in Under(d, g[b])
        BY <4>2
      <4> HIDE DEF g, A
      <4> QED
        BY <1>1, <1>2, <3>1, <4>3, OneRoot
    <3>2. CASE b \notin Under(d, a)
      <4>1. a \notin Over(b) /\ a # None
        BY <1>1, <3>2, AccountTypes
      <4>2. g[b] = None \/ g[b] \in Over(b)
        OBVIOUS
      <4> HIDE DEF g, Over
      <4> QED
        BY <3>2, <4>1, <4>2
    <3> QED
      BY <3>1, <3>2
  <2>2. Where(S, g, a) = Under(d, a)
    <3> HIDE DEF g
    <3> QED
      BY <2>1 DEF Where, Under
  <2>3. a \in Accounts /\ w[a] = Weight(d, a)
    BY <1>1
  <2> HIDE DEF g, A
  <2> QED
    BY <2>2, <2>3, WeightIs
<1>4. d.adores[s] = SumFunctionOnSet(w, A)
  <2>1. AdoreOver(d, s) = 0
    BY DEF Counted, Fits
  <2>2. AdoreOver(d, s) = d.adores[s] - SumFunctionOnSet(w, A)
    BY DEF AdoreOver
  <2>3. d.adores[s] \in Int
    BY DEF Ledger
  <2>4. SumFunctionOnSet(w, A) \in Int
    <3>1. \A a \in A : w[a] \in Int
      BY <1>1, PassedType
    <3> HIDE DEF A, w
    <3> QED
      BY <1>1, <3>1, SumStep
  <2> HIDE DEF w, A
  <2> QED
    BY <2>1, <2>2, <2>3, <2>4
<1> HIDE DEF A, g, w
<1>5. SumFunctionOnSet(q, W) = SumFunctionOnSet(w, A)
  <2>1. \A b \in S : q[b] \in Int
    BY <1>1
  <2> HIDE DEF S, q
  <2> QED
    BY <1>1, <1>3, <2>1, SumParts
<1>6. W \in SUBSET S
  BY DEF Within
<1> HIDE DEF W, S
<1>7. SumFunctionOnSet(q, S) = SumFunctionOnSet(q, W) + SumFunctionOnSet(q, S \ W)
  <2>1. \A b \in S : q[b] \in Int
    BY <1>1
  <2> HIDE DEF q
  <2> QED
    BY <1>1, <1>6, <2>1, SumSplit
<1>8. SumFunctionOnSet(q, W) \in Nat /\ SumFunctionOnSet(q, S \ W) \in Nat
  <2>1. /\ IsFiniteSet(W) /\ IsFiniteSet(S \ W)
        /\ (\A b \in W : q[b] \in Nat) /\ \A b \in S \ W : q[b] \in Nat
    BY <1>1, <1>6, FS_Subset
  <2> HIDE DEF q
  <2> QED
    BY <2>1, SumNat
<1>9. d.total_qi = SumFunctionOnSet(q, S)
  <2>1. d.qi \in [Accounts -> Int]
    BY DEF Ledger
  <2> QED
    BY <2>1, <1>1 DEF Accounted, SumFunction, q
<1> QED
  BY <1>4, <1>5, <1>7, <1>8, <1>9

\* A call of a block keeps the invariant and what is counted. Without claims and
\* routes that deposit qi, it does not fail.
Plain(d) == \A r \in d.routes : ~r.auto_vest

Kept(d, e, l) ==
    /\ e \in Ledger /\ (e.ok => d.ok) /\ Sound(e, l) /\ Keeps(d, e) /\ e.routes = d.routes
    /\ d.ok /\ Counted(d, FALSE) /\ Plain(d) => e.ok

LEMMA KeptTransitive ==
    ASSUME NEW d, NEW e, NEW f, NEW l, Kept(d, e, l), Kept(e, f, l)
    PROVE  Kept(d, f, l)
<1>1. Plain(d) => Plain(e)
  BY DEF Kept, Plain
<1> QED
  BY <1>1, KeepsTransitive DEF Kept, Keeps

LEMMA AcceptedKept ==
    ASSUME NEW d, NEW e \in Ledger, NEW l, e.ok => d.ok, Sound(e, l), Keeps(d, e),
           e.routes = d.routes, Accepts(d, e)
    PROVE  Kept(d, e, l)
<1>1. Counted(d, FALSE) => Fine(e)
  BY AdoresFit DEF Keeps, Sound
<1> QED
  BY <1>1 DEF Kept, Accepts

\* A change that the count does not depend on may come first.
LEMMA SameAccepts ==
    ASSUME NEW d, NEW c, NEW e, SameCount(d, c), c.ok = d.ok, Keeps(c, e), Accepts(c, e)
    PROVE  Keeps(d, e) /\ Accepts(d, e)
<1>1. Keeps(d, c)
  BY SameKeeps
<1> QED
  BY <1>1, KeepsTransitive DEF Keeps, Accepts

\* A fee, or the pay for a call, is qi before and feigang after; a claim turns it
\* back.
LEMMA MovedSound ==
    ASSUME NEW d \in Ledger, NEW e, NEW l, NEW to \in Accounts, NEW from \in Accounts,
           NEW x \in Int, Moved(d, e, to, from, x),
           d.qi[from] - x >= 0, d.feigang[to] + x >= 0, Sound(d, l)
    PROVE  Sound(e, l)
<1>1. /\ d.qi \in [Accounts -> Nat] /\ d.feigang \in [Accounts -> Nat]
  BY DEF Sound, Positive
<1>2. e.qi \in [Accounts -> Nat] /\ e.feigang \in [Accounts -> Nat]
  BY <1>1 DEF Moved
<1>3. Positive(e)
  BY <1>2 DEF Moved, Sound, Positive, SameYang, SameWithdrawals
<1>4. SumFunction(e.qi) = SumFunction(d.qi) - x
  <2>1. d.qi \in [Accounts -> Int] /\ d.qi[from] \in Int /\ d.qi[from] - x \in Int
    BY <1>1
  <2>2. SumFunction(e.qi) = SumFunction(d.qi) + (d.qi[from] - x) - d.qi[from]
    BY <2>1, TotalUpdate DEF Moved
  <2>3. SumFunction(d.qi) \in Int
    BY <2>1, Total
  <2> QED
    BY <2>1, <2>2, <2>3
<1>5. SumFunction(e.feigang) = SumFunction(d.feigang) + x
  <2>1. d.feigang \in [Accounts -> Int] /\ d.feigang[to] \in Int /\ d.feigang[to] + x \in Int
    BY <1>1
  <2>2. SumFunction(e.feigang) = SumFunction(d.feigang) + (d.feigang[to] + x) - d.feigang[to]
    BY <2>1, TotalUpdate DEF Moved
  <2>3. SumFunction(d.feigang) \in Int
    BY <2>1, Total
  <2> QED
    BY <2>1, <2>2, <2>3
<1>6. Accounted(e)
  <2>1. e.total_qi + e.pending_feigang + e.fund_qi + e.lost
          = d.total_qi + d.pending_feigang + d.fund_qi + d.lost
    BY DEF Moved, Ledger, SameYang
  <2>2. Worth(e) = Worth(d)
    BY <2>1 DEF Worth, Moved, SameYang
  <2> QED
    BY <1>4, <1>5, <2>2 DEF Accounted, Sound, Moved, SameYang
<1>7. Balanced(e) /\ Bounded(e, l) /\ RoutesOK(e, l)
  BY SameBalanced, SameBounded DEF Moved, Sound
<1> QED
  BY <1>3, <1>6, <1>7 DEF Sound

LEMMA RewardSound ==
    ASSUME NEW d \in Ledger, NEW e, NEW l, NEW to \in Accounts, NEW from \in Accounts,
           NEW x \in Int, Rewarded(d, e, to, from, x), e.ok, Sound(d, l)
    PROVE  Sound(e, l)
<1>1. d.feigang[to] \in Nat /\ d.qi[from] \in Nat
  BY DEF Sound, Positive
<1>2. d.qi[from] - x >= 0 /\ d.feigang[to] + x >= 0
  BY <1>1 DEF Rewarded
<1> QED
  BY <1>2, MovedSound DEF Rewarded

\* YANG that leaves a balance and becomes qi: the balance pays here, the qi is
\* created next.
Paid(d, e, from, x) ==
    /\ e \in Ledger /\ e.ok = d.ok
    /\ e.balance = [d.balance EXCEPT ![from] = @ - x]
    /\ e.fund_yang = d.fund_yang /\ e.supply = d.supply /\ e.lost = d.lost
    /\ SameQi(d, e) /\ SameDelegations(d, e) /\ SameWithdrawals(d, e) /\ SameVotes(d, e)
    /\ SameCount(d, e)

LEMMA PaidDoes ==
    ASSUME NEW d \in Ledger, NEW from \in Accounts, NEW x \in Int
    PROVE  Paid(d, [d EXCEPT !.balance[from] = @ - x], from, x)
<1> DEFINE b == [d.balance EXCEPT ![from] = @ - x]
<1>1. b \in [Accounts -> Int]
  BY DEF Ledger
<1>2. [d EXCEPT !.balance[from] = @ - x] = [d EXCEPT !.balance = b]
  OBVIOUS
<1> HIDE DEF b
<1>3. [d EXCEPT !.balance = b] \in Ledger
  BY <1>1 DEF Ledger
<1>4. Paid(d, [d EXCEPT !.balance = b], from, x) <=> b = [d.balance EXCEPT ![from] = @ - x]
  BY <1>1, <1>3 DEF Ledger, Paid, SameQi, SameDelegations, SameWithdrawals, SameVotes, SameCount
<1> QED
  BY <1>2, <1>4 DEF b

LEMMA ConvertSound ==
    ASSUME NEW d \in Ledger, NEW c, NEW e, NEW l, NEW to \in Accounts, NEW from \in Accounts,
           NEW x \in Nat, Paid(d, c, from, x), Created(c, e, to, x), d.balance[from] >= x,
           Sound(d, l)
    PROVE  Sound(e, l)
<1> DEFINE y == x * QiPerYang
<1>0. y \in Nat
  BY QiLedgerAssumption
<1>1. /\ d.qi \in [Accounts -> Nat] /\ d.feigang \in [Accounts -> Nat]
      /\ d.balance \in [Accounts -> Nat]
  BY DEF Sound, Positive
<1>2. /\ e.balance = [d.balance EXCEPT ![from] = @ - x]
      /\ e.qi = [d.qi EXCEPT ![to] = @ + y]
      /\ e.total_qi = d.total_qi + y /\ e.pending_feigang = d.pending_feigang
      /\ e.feigang = d.feigang /\ e.fund_qi = d.fund_qi /\ e.fund_yang = d.fund_yang
      /\ e.supply = d.supply /\ e.lost = d.lost /\ e.withdrawn = d.withdrawn
  BY DEF Paid, Created, SameQi, SameYang, SameWithdrawals
<1>3. Positive(e)
  <2> HIDE DEF y
  <2>1. e.balance \in [Accounts -> Nat] /\ e.qi \in [Accounts -> Nat]
    BY <1>0, <1>1, <1>2
  <2> QED
    BY <1>2, <2>1 DEF Sound, Positive
<1>4. SumFunction(e.qi) = SumFunction(d.qi) + y
  <2> HIDE DEF y
  <2>1. d.qi \in [Accounts -> Int] /\ d.qi[to] \in Int /\ d.qi[to] + y \in Int
    BY <1>0, <1>1
  <2>2. SumFunction(e.qi) = SumFunction(d.qi) + (d.qi[to] + y) - d.qi[to]
    BY <1>2, <2>1, TotalUpdate
  <2>3. SumFunction(d.qi) \in Int
    BY <2>1, Total
  <2> QED
    BY <1>0, <2>1, <2>2, <2>3
<1>5. SumFunction(e.balance) = SumFunction(d.balance) - x /\ SumFunction(d.balance) \in Int
  <2>1. d.balance \in [Accounts -> Int] /\ d.balance[from] \in Int /\ d.balance[from] - x \in Int
    BY <1>1
  <2>2. SumFunction(e.balance) = SumFunction(d.balance) + (d.balance[from] - x) - d.balance[from]
    BY <1>2, <2>1, TotalUpdate
  <2>3. SumFunction(d.balance) \in Int
    BY <2>1, Total
  <2> QED
    BY <2>1, <2>2, <2>3
<1>6. Accounted(e)
  <2> DEFINE q == d.total_qi + d.pending_feigang + d.fund_qi + d.lost
  <2>1. q \in Int /\ e.total_qi + e.pending_feigang + e.fund_qi + e.lost = q + y
    <3> HIDE DEF y
    <3> QED
      BY <1>0, <1>2 DEF Ledger
  <2> HIDE DEF q
  <2>2. AsYang(q + y) = AsYang(q) + x /\ AsYang(q) \in Int
    BY <2>1, AsYangParts, AsYangType
  <2>3. Worth(e) = (SumFunction(d.balance) - x) + d.fund_yang + AsYang(q + y)
    BY <1>2, <1>5, <2>1 DEF Worth
  <2>4. Worth(d) = SumFunction(d.balance) + d.fund_yang + AsYang(q)
    BY DEF Worth, q
  <2>5. d.fund_yang \in Int
    BY DEF Ledger
  <2>6. Worth(e) = Worth(d)
    BY <1>5, <2>2, <2>3, <2>4, <2>5
  <2> HIDE DEF y
  <2> QED
    BY <1>2, <1>4, <2>6 DEF Accounted, Sound
<1>7. SameDelegations(d, e) /\ SameWithdrawals(d, e)
  BY DEF Paid, Created, SameDelegations, SameWithdrawals
<1>8. Balanced(e) /\ Bounded(e, l) /\ RoutesOK(e, l)
  BY <1>7, SameBalanced, SameBounded DEF Sound
<1> QED
  BY <1>3, <1>6, <1>8 DEF Sound

-----------------------------------------------------------------------------
(* The operations. *)

LEMMA Becomes ==
    ASSUME NEW e \in Ledger, e.ok, db' = e, Sound(e, looped'), Counted(e, claimed'),
           now' \in 0 .. MaxBlocks, claimed' \in BOOLEAN
    PROVE  QiInv'
BY DEF QiInv

LEMMA KeepsBecomes ==
    ASSUME QiInv, NEW e \in Ledger, e.ok, db' = e, Sound(e, looped'), Keeps(db, e),
           now' \in 0 .. MaxBlocks, claimed' = claimed
    PROVE  QiInv'
BY Becomes DEF QiInv, Keeps

\* The fee, if it can be paid.
LEMMA FeePaid ==
    ASSUME NEW d \in Ledger, NEW a \in Accounts
    PROVE  /\ Rewarded(d, PayFee(d, a), Dao, a, Fee)
           /\ PayFee(d, a) \in Ledger
           /\ \A l : PayFee(d, a).ok /\ Sound(d, l) => Sound(PayFee(d, a), l)
<1>1. Fee \in Int
  BY QiLedgerAssumption
<1>2. Rewarded(d, PayFee(d, a), Dao, a, Fee)
  BY <1>1, AccountTypes, RewardFeigangDoes DEF PayFee
<1> QED
  BY <1>1, <1>2, AccountTypes, RewardSound DEF Rewarded, Moved

LEMMA TransferStep ==
    ASSUME QiInv, NEW from \in Users, NEW to \in Accounts, NEW x \in Amounts,
           Transfer(from, to, x)
    PROVE  QiInv'
<1> DEFINE p == PayFee(db, from)
           b == [p.balance EXCEPT ![from] = @ - x]
           c == [b EXCEPT ![to] = @ + x]
           e == [p EXCEPT !.balance = c]
<1>1. x \in Nat /\ from \in Accounts /\ from # to /\ db.balance[from] >= x
  BY QiLedgerAssumption, AccountTypes DEF Transfer
<1>2. db \in Ledger /\ Sound(db, looped) /\ now \in 0 .. MaxBlocks
  BY DEF QiInv
<1>3. p \in Ledger /\ Rewarded(db, p, Dao, from, Fee)
  BY <1>1, <1>2, FeePaid
<1>4. e.ok /\ db' = e /\ now' = now /\ looped' = looped /\ claimed' = claimed
  <2>1. [p EXCEPT !.balance[from] = @ - x, !.balance[to] = @ + x] = e
    <3> HIDE DEF p
    <3> DEFINE m == [p EXCEPT !.balance = b]
    <3>1. [p EXCEPT !.balance[from] = @ - x] = m
      OBVIOUS
    <3>2. m.balance = b
      BY <1>3 DEF Ledger
    <3>3. [m EXCEPT !.balance = c] = e
      <4> HIDE DEF b, c
      <4> QED
        BY <1>3 DEF Ledger
    <3>4. [m EXCEPT !.balance[to] = @ + x] = [m EXCEPT !.balance = [m.balance EXCEPT ![to] = @ + x]]
      <4> HIDE DEF m
      <4> QED
        OBVIOUS
    <3>5. [m EXCEPT !.balance[to] = @ + x] = e
      <4> HIDE DEF m, b, e
      <4> QED
        BY <3>2, <3>3, <3>4
    <3>6. (m.balance)[to] = (p.balance)[to]
      BY <1>1, <3>2
    <3> HIDE DEF m, e
    <3> QED
      BY <3>1, <3>5, <3>6
  <2> HIDE DEF e
  <2> QED
    BY <2>1 DEF Transfer, Apply, history
<1>5. p.balance = db.balance
  BY <1>3 DEF Rewarded, Moved, SameYang
<1>6. p.balance \in [Accounts -> Nat]
  BY <1>2, <1>5 DEF Sound, Positive
<1>7. /\ b \in [Accounts -> Nat] /\ c \in [Accounts -> Nat]
      /\ SumFunction(c) = SumFunction(p.balance)
  <2>1. b \in [Accounts -> Nat]
    BY <1>1, <1>5, <1>6
  <2>2. c \in [Accounts -> Nat]
    BY <1>1, <2>1
  <2>3. p.balance \in [Accounts -> Int] /\ p.balance[from] - x \in Int /\ p.balance[from] \in Int
    BY <1>1, <1>6
  <2>4. SumFunction(b) = SumFunction(p.balance) + (p.balance[from] - x) - p.balance[from]
    BY <1>1, <2>3, TotalUpdate
  <2> HIDE DEF b
  <2>5. b \in [Accounts -> Int] /\ b[to] + x \in Int /\ b[to] \in Int
    BY <1>1, <2>1
  <2>6. SumFunction(c) = SumFunction(b) + (b[to] + x) - b[to]
    BY <1>1, <2>5, TotalUpdate
  <2>7. SumFunction(p.balance) \in Int
    BY <2>3, Total
  <2>8. x \in Int
    BY <1>1
  <2> QED
    BY <2>1, <2>2, <2>3, <2>4, <2>5, <2>6, <2>7, <2>8
<1> HIDE DEF p, c
<1>8. e \in Ledger
  <2>1. c \in [Accounts -> Int]
    BY <1>7
  <2> QED
    BY <1>3, <2>1 DEF Ledger
<1>9. /\ e.ok = p.ok /\ e.balance = c /\ e.fund_yang = p.fund_yang
      /\ e.supply = p.supply /\ e.lost = p.lost
      /\ SameQi(p, e) /\ SameDelegations(p, e) /\ SameWithdrawals(p, e) /\ SameCount(p, e)
  BY <1>3 DEF Ledger, SameQi, SameDelegations, SameWithdrawals, SameCount
<1> HIDE DEF e
<1>9a. Keeps(db, e)
  BY <1>3, <1>9, SameKeeps, KeepsTransitive DEF Rewarded
<1>10. Sound(p, looped)
  BY <1>1, <1>2, <1>4, <1>9, FeePaid DEF p
<1>11. Positive(e) /\ Accounted(e)
  BY <1>7, <1>9, <1>10 DEF Sound, Positive, Accounted, Worth, SameQi, SameWithdrawals
<1>12. Balanced(e) /\ Bounded(e, looped) /\ RoutesOK(e, looped)
  BY <1>9, <1>10, SameBalanced, SameBounded DEF Sound
<1> QED
  BY <1>2, <1>4, <1>8, <1>9a, <1>11, <1>12, KeepsBecomes DEF Sound

LEMMA TransferToQiStep ==
    ASSUME QiInv, NEW from \in Users, NEW to \in Accounts, NEW x \in Amounts,
           TransferToQi(from, to, x)
    PROVE  QiInv'
<1> DEFINE p == PayFee(db, from)
           c == [p EXCEPT !.balance[from] = @ - x]
           e == CreateQi(c, to, x)
<1>1. x \in Nat /\ from \in Accounts /\ db.balance[from] >= x
  BY QiLedgerAssumption, AccountTypes DEF TransferToQi
<1>2. db \in Ledger /\ Sound(db, looped) /\ now \in 0 .. MaxBlocks
  BY DEF QiInv
<1>3. e.ok /\ db' = e /\ now' = now /\ looped' = looped /\ claimed' = claimed
  <2> HIDE DEF e
  <2> QED
    BY DEF TransferToQi, Apply, history, e
<1>4. p \in Ledger /\ Rewarded(db, p, Dao, from, Fee)
  BY <1>1, <1>2, FeePaid
<1>5. Paid(p, c, from, x)
  <2> HIDE DEF p
  <2> QED
    BY <1>1, <1>4, PaidDoes
<1>6. c \in Ledger
  BY <1>5 DEF Paid
<1>7. Created(c, e, to, x)
  <2> HIDE DEF c
  <2> QED
    BY <1>1, <1>6, CreateQiDoes
<1> HIDE DEF c, e
<1>8. p.ok /\ p.balance = db.balance
  BY <1>3, <1>4, <1>5, <1>7 DEF Rewarded, Moved, Paid, Created, SameYang
<1>9. Sound(p, looped)
  BY <1>1, <1>2, <1>8, FeePaid
<1> HIDE DEF p
<1>10. Sound(e, looped) /\ e \in Ledger
  BY <1>1, <1>4, <1>5, <1>7, <1>8, <1>9, ConvertSound DEF Created
<1>11. Keeps(db, e)
  <2>1. Keeps(db, p) /\ Keeps(p, c) /\ Keeps(c, e)
    BY <1>4, <1>5, <1>7, SameKeeps DEF Rewarded, Paid, Created
  <2> QED
    BY <2>1, KeepsTransitive
<1> QED
  BY <1>2, <1>3, <1>10, <1>11, KeepsBecomes

LEMMA CallContractStep ==
    ASSUME QiInv, NEW a \in Users, NEW owner \in Accounts, NEW x \in Amounts,
           CallContract(a, owner, x)
    PROVE  QiInv'
<1> DEFINE p == RewardFeigang(db, owner, a, x)
           e == RewardFeigang(p, Dao, a, Fee)
<1>1. x \in Int /\ a \in Accounts /\ Fee \in Int /\ Dao \in Accounts
  BY QiLedgerAssumption, AccountTypes
<1>2. db \in Ledger /\ Sound(db, looped) /\ now \in 0 .. MaxBlocks
  BY DEF QiInv
<1>3. p.ok /\ e.ok /\ db' = e /\ now' = now /\ looped' = looped /\ claimed' = claimed
  BY DEF CallContract, Apply, history
<1>4. Rewarded(db, p, owner, a, x)
  BY <1>1, <1>2, RewardFeigangDoes
<1>5. p \in Ledger
  BY <1>4 DEF Rewarded, Moved
<1>6. Rewarded(p, e, Dao, a, Fee)
  <2> HIDE DEF p
  <2> QED
    BY <1>1, <1>5, RewardFeigangDoes
<1> HIDE DEF p, e
<1>7. Sound(p, looped)
  BY <1>1, <1>2, <1>3, <1>4, RewardSound
<1>8. Sound(e, looped) /\ e \in Ledger
  BY <1>1, <1>3, <1>5, <1>6, <1>7, RewardSound DEF Rewarded, Moved
<1>9. Keeps(db, e)
  BY <1>4, <1>6, KeepsTransitive DEF Rewarded
<1> QED
  BY <1>2, <1>3, <1>8, <1>9, KeepsBecomes

\* The rate pays what is asked for within the intervals.
LEMMA WithdrawRateType ==
    ASSUME NEW x \in Nat
    PROVE  /\ WithdrawRate(x) \in Nat \ {0}
           /\ x <= WithdrawRate(x) * Intervals
<1> DEFINE q == x \div Intervals
           m == LargerOf(q, 1)
<1>1. Intervals \in Nat \ {0}
  BY QiLedgerAssumption
<1>2. q \in Nat /\ x < Intervals * q + Intervals
  BY <1>1
<1>3. WithdrawRate(x) = IF m * Intervals < x THEN m + 1 ELSE m
  BY DEF WithdrawRate
<1> HIDE DEF q
<1>4. m \in Nat \ {0} /\ m >= q
  BY <1>2 DEF LargerOf
<1> HIDE DEF m
<1>5. m * Intervals >= q * Intervals
  BY <1>1, <1>2, <1>4
<1>6. (m + 1) * Intervals = m * Intervals + Intervals /\ q * Intervals = Intervals * q
  BY <1>1, <1>2, <1>4
<1>7. /\ m * Intervals \in Nat /\ (m + 1) * Intervals \in Nat /\ q * Intervals \in Nat
  BY <1>1, <1>2, <1>4
<1> QED
  BY <1>1, <1>2, <1>3, <1>4, <1>5, <1>6, <1>7

\* Only the columns of a withdrawal change, for one account.
LEMMA WithdrawQiStep ==
    ASSUME QiInv, NEW a \in Users, NEW x \in Amounts, WithdrawQi(a, x)
    PROVE  QiInv'
<1> DEFINE p == PayFee(db, a)
           rate == IF x = 0 THEN 0 ELSE WithdrawRate(x)
           next == IF x = 0 THEN Never ELSE now + WithdrawInterval
           r == [p.rate EXCEPT ![a] = rate]
           n == [p.next EXCEPT ![a] = next]
           t == [p.to_withdraw EXCEPT ![a] = x]
           w == [p.withdrawn EXCEPT ![a] = 0]
           e == [p EXCEPT !.rate = r, !.next = n, !.to_withdraw = t, !.withdrawn = w]
<1>1. x \in Nat /\ a \in Accounts
  BY QiLedgerAssumption, AccountTypes
<1>2. db \in Ledger /\ Sound(db, looped) /\ now \in 0 .. MaxBlocks
  BY DEF QiInv
<1>3. p \in Ledger /\ Rewarded(db, p, Dao, a, Fee)
  BY <1>1, <1>2, FeePaid
<1>4. /\ rate \in Nat /\ next \in Times /\ (next = Never) = (rate = 0)
      /\ rate # 0 => rate = WithdrawRate(x) /\ x > 0
  BY <1>1, <1>2, Clock, WithdrawRateType DEF Times
<1>5. /\ r \in [Accounts -> Nat] /\ n \in [Accounts -> Times]
      /\ t \in [Accounts -> Nat] /\ w \in [Accounts -> Int]
  <2> HIDE DEF rate, next, p
  <2> QED
    BY <1>1, <1>3, <1>4 DEF Ledger
<1>6. e.ok /\ db' = e /\ now' = now /\ looped' = looped /\ claimed' = claimed
  <2>1. [p EXCEPT !.rate[a] = rate, !.next[a] = next, !.to_withdraw[a] = x, !.withdrawn[a] = 0] = e
    <3> HIDE DEF p, rate, next
    <3> QED
      BY <1>3 DEF Ledger
  <2> HIDE DEF e
  <2> QED
    BY <2>1 DEF WithdrawQi, Apply, history
<1> HIDE DEF p
<1>7. e \in Ledger
  <2> HIDE DEF r, n, t, w
  <2> QED
    BY <1>3, <1>5 DEF Ledger
<1>8. /\ e.ok = p.ok /\ e.rate = r /\ e.next = n /\ e.to_withdraw = t /\ e.withdrawn = w
      /\ e.routes = p.routes
      /\ SameYang(p, e) /\ SameQi(p, e) /\ SameDelegations(p, e) /\ SameCount(p, e)
  <2> HIDE DEF r, n, t, w
  <2> QED
    BY <1>3, <1>5 DEF Ledger, SameYang, SameQi, SameDelegations, SameCount
<1> HIDE DEF e
<1>8a. Keeps(db, e)
  BY <1>3, <1>8, SameKeeps, KeepsTransitive DEF Rewarded
<1>9. Sound(p, looped)
  BY <1>1, <1>2, <1>6, <1>8, FeePaid DEF p
<1>10. Positive(e)
  <2>1. w \in [Accounts -> Nat]
    BY <1>9 DEF Sound, Positive
  <2> HIDE DEF w
  <2> QED
    BY <1>8, <1>9, <2>1 DEF Sound, Positive, SameYang, SameQi
<1>11. Accounted(e) /\ Balanced(e) /\ RoutesOK(e, looped)
  BY <1>8, <1>9, SameBalanced DEF Sound, Accounted, Worth, SameYang, SameQi, RoutesOK, Granted
<1>12. ASSUME NEW b \in Accounts PROVE WithdrawalOK(e, b, looped)
  <2>1. CASE b = a
    <3>1. /\ e.rate[b] = rate /\ e.next[b] = next /\ e.to_withdraw[b] = x /\ e.withdrawn[b] = 0
      BY <1>1, <1>3, <1>8, <2>1 DEF Ledger
    <3>2. 0 \in 0 .. e.withdrawn[b] /\ e.withdrawn[b] = 0 * e.rate[b]
      BY <1>4, <3>1
    <3> HIDE DEF rate, next
    <3>3. e.rate[b] # 0 => \E k \in 0 .. e.withdrawn[b] : e.withdrawn[b] = k * e.rate[b]
      BY <3>2
    <3> QED
      BY <1>1, <1>4, <3>1, <3>3 DEF WithdrawalOK
  <2>2. CASE b # a
    <3>1. /\ e.rate[b] = p.rate[b] /\ e.next[b] = p.next[b]
          /\ e.to_withdraw[b] = p.to_withdraw[b] /\ e.withdrawn[b] = p.withdrawn[b]
      BY <1>1, <1>3, <1>8, <2>2 DEF Ledger
    <3>2. WithdrawalOK(p, b, looped)
      BY <1>9 DEF Sound, Bounded
    <3> QED
      BY <3>1, <3>2 DEF WithdrawalOK
  <2> QED
    BY <2>1, <2>2
<1> QED
  BY <1>2, <1>6, <1>7, <1>8a, <1>10, <1>11, <1>12, KeepsBecomes DEF Sound, Bounded

LEMMA SetRouteStep ==
    ASSUME QiInv, NEW from \in Users, NEW to \in Accounts, NEW percent \in Percents,
           NEW vest \in BOOLEAN, SetRoute(from, to, percent, vest)
    PROVE  QiInv'
<1> DEFINE old == {r \in db.routes : r.from = from /\ r.to = to}
           new == IF percent = 0 THEN {}
                  ELSE {[from |-> from, to |-> to, percent |-> percent, auto_vest |-> vest]}
           routes == (db.routes \ old) \cup new
           e == [db EXCEPT !.routes = routes]
<1>1. db \in Ledger /\ db.ok /\ Sound(db, looped) /\ now \in 0 .. MaxBlocks
  BY DEF QiInv
<1>2. /\ db' = e /\ now' = now /\ to # Dao /\ claimed' = claimed
      /\ looped' = IF \E r \in new : vest /\ to = from THEN looped \cup {from} ELSE looped
  BY DEF SetRoute, Apply
<1>3. new \subseteq Routes /\ IsFiniteSet(new)
  <2>1. to \in Users /\ percent \in 0 .. Percent100 /\ Percent100 \in Nat
    BY <1>2, QiLedgerAssumption DEF Accounts
  <2> DEFINE r == [from |-> from, to |-> to, percent |-> percent, auto_vest |-> vest]
  <2>2. percent # 0 => r \in Routes
    BY <2>1 DEF Routes
  <2>3. IsFiniteSet({r}) /\ IsFiniteSet({})
    BY FS_EmptySet, FS_Singleton
  <2>4. new = IF percent = 0 THEN {} ELSE {r}
    OBVIOUS
  <2> HIDE DEF r, new
  <2> QED
    BY <2>2, <2>3, <2>4
<1>4. routes \subseteq Routes /\ IsFiniteSet(routes)
  <2> HIDE DEF new
  <2>1. IsFiniteSet(db.routes) /\ db.routes \subseteq Routes
    BY <1>1 DEF Sound, RoutesOK, Ledger
  <2>2. IsFiniteSet(db.routes \ old)
    BY <2>1, FS_Subset
  <2> HIDE DEF old
  <2> QED
    BY <1>3, <2>1, <2>2, FS_Union
<1>5. \A r \in routes : r.auto_vest /\ r.to = r.from => r.from \in looped'
  <2>1. \A r \in db.routes : r.auto_vest /\ r.to = r.from => r.from \in looped
    BY <1>1 DEF Sound, RoutesOK
  <2>2. looped \subseteq looped'
    BY <1>2
  <2>3. \A r \in new : r.auto_vest /\ r.to = r.from => r.from \in looped'
    BY <1>2
  <2> QED
    BY <2>1, <2>2, <2>3
<1>6. looped \subseteq looped'
  BY <1>2
<1>6a. \A b \in Accounts :
          SumFunction([r \in {r \in routes : r.from = b} |-> r.percent]) <= Percent100
  <2>1. SumFunction([r \in {r \in routes : r.from = from} |-> r.percent]) <= Percent100
    BY DEF SetRoute
  <2>2. ASSUME NEW b \in Accounts, b # from
        PROVE  SumFunction([r \in {r \in routes : r.from = b} |-> r.percent]) <= Percent100
    <3>1. {r \in routes : r.from = b} = {r \in db.routes : r.from = b}
      BY <2>2
    <3>2. Granted(db, b) <= Percent100
      BY <1>1 DEF Sound, RoutesOK
    <3> HIDE DEF routes
    <3> QED
      BY <3>1, <3>2 DEF Granted
  <2> QED
    BY <2>1, <2>2
<1> HIDE DEF routes
<1>7. e \in Ledger
  BY <1>1, <1>4 DEF Ledger
<1>8. /\ e.ok /\ SameYang(db, e) /\ SameQi(db, e) /\ SameDelegations(db, e)
      /\ e.routes = routes /\ e.rate = db.rate /\ e.next = db.next
      /\ e.to_withdraw = db.to_withdraw /\ e.withdrawn = db.withdrawn /\ SameCount(db, e)
  BY <1>1 DEF Ledger, SameYang, SameQi, SameDelegations, SameCount
<1> HIDE DEF e
<1>9. Positive(e) /\ Accounted(e) /\ Balanced(e)
  BY <1>1, <1>8, SameBalanced DEF Sound, Positive, Accounted, Worth, SameYang, SameQi
<1>10. Bounded(e, looped') /\ RoutesOK(e, looped')
  BY <1>1, <1>4, <1>5, <1>6, <1>6a, <1>8 DEF Sound, Bounded, WithdrawalOK, RoutesOK, Granted
<1> QED
  BY <1>1, <1>2, <1>7, <1>8, <1>9, <1>10, SameKeeps, KeepsBecomes DEF Sound

\* A step that only concerns proxies and adores.
LEMMA VotedStep ==
    ASSUME QiInv, NEW e, Voted(db, e), e.ok, db' = e, now' = now, looped' = looped,
           Counted(e, claimed), claimed' = claimed
    PROVE  QiInv'
<1>1. e \in Ledger /\ Sound(e, looped) /\ now \in 0 .. MaxBlocks /\ claimed \in BOOLEAN
  BY VotedSound DEF QiInv, Voted
<1> QED
  BY <1>1, Becomes

\* Replacing the columns of proxies and adores is one.
LEMMA ColumnsVoted ==
    ASSUME NEW d \in Ledger,
           NEW proxy \in [Accounts -> Accounts \cup {None}],
           NEW adored \in SUBSET (Users \X Simings),
           NEW can_adore \in [Accounts -> BOOLEAN], NEW decline \in [Accounts -> Times]
    PROVE  LET e == [d EXCEPT !.proxy = proxy, !.adored = adored,
                              !.can_adore = can_adore, !.decline = decline]
           IN  /\ Voted(d, e) /\ e.ok = d.ok
               /\ e.proxy = proxy /\ e.adored = adored
               /\ e.can_adore = can_adore /\ e.decline = decline
<1> DEFINE e == [d EXCEPT !.proxy = proxy, !.adored = adored,
                          !.can_adore = can_adore, !.decline = decline]
<1>1. e \in Ledger
  BY DEF Ledger
<1>2. /\ SameYang(d, e) /\ SameQi(d, e) /\ SameDelegations(d, e) /\ SameWithdrawals(d, e)
      /\ e.ok = d.ok /\ e.proxy = proxy /\ e.adored = adored
      /\ e.can_adore = can_adore /\ e.decline = decline
  BY DEF Ledger, SameYang, SameQi, SameDelegations, SameWithdrawals
<1> HIDE DEF e
<1>3. Voted(d, e)
  BY <1>1, <1>2 DEF Voted
<1> QED
  BY <1>2, <1>3 DEF e

\* The weight of an account leaves those above it.
LEMMA WholeWeightVoted ==
    ASSUME NEW d \in Ledger, NEW c \in Ledger, NEW a \in Accounts, NEW sign \in {-1, 1}
    PROVE  /\ OnlyAdores(d, AdjustProxied(d, a, WholeWeight(c, a, sign)))
           /\ Voted(d, AdjustProxied(d, a, WholeWeight(c, a, sign)))
           /\ AdjustProxied(d, a, WholeWeight(c, a, sign)) \in Ledger
<1>1. OnlyAdores(d, AdjustProxied(d, a, WholeWeight(c, a, sign)))
  BY WholeWeightType, AdjustProxiedKeeps
<1> QED
  BY <1>1, AdoresVoted DEF OnlyAdores

\* The account leaves its old proxy and takes the same weight to the new one.
LEMMA RejoinedCounted ==
    ASSUME NEW d \in Ledger, NEW a \in Accounts, NEW p \in Accounts, p # a,
           d.proxy[p] # None => a \notin ProxyChain(d, p),
           NEW r, r = AdjustProxied(d, a, WholeWeight(d, a, -1)), NEW m, Rehung(r, m, a, p),
           NEW l, Counted(d, l)
    PROVE  Counted(AdjustProxied(m, a, WholeWeight(d, a, 1)), l)
<1> DEFINE x == [r.proxy EXCEPT ![a] = None]
           y == {v \in r.adored : v[1] # a}
           left == [r EXCEPT !.proxy = x, !.adored = y]
           delta == WholeWeight(d, a, 1)
<1>1. OnlyAdores(d, r)
  BY WholeWeightVoted
<1>2. r \in Ledger /\ r.proxy = d.proxy /\ r.adored = d.adored /\ r.qi = d.qi
  BY <1>1 DEF OnlyAdores, SameVotes, SameQi
<1>3. x \in [Accounts -> Accounts \cup {None}] /\ y \in SUBSET (Users \X Simings)
  BY <1>2 DEF Ledger
<1>4. /\ left \in Ledger /\ left.proxy = x /\ left.adored = y /\ left.qi = r.qi
      /\ left.proxied = r.proxied /\ left.adores = r.adores
  <2> HIDE DEF x, y
  <2> QED
    BY <1>2, <1>3 DEF Ledger
<1> HIDE DEF left
<1>5. Rehung(r, left, a, None)
  BY <1>4 DEF Rehung
<1>6. Counted(left, l) /\ r.proxied[a] = d.proxied[a]
  BY <1>5, LeftCounted
<1>7. Rehung(left, m, a, p) /\ left.proxy[a] = None /\ \A v \in left.adored : v[1] # a
  <2>1. m.proxy = [r.proxy EXCEPT ![a] = p] /\ m.adored = y
    BY DEF Rehung
  <2>2. r.proxy \in [Accounts -> Accounts \cup {None}]
    BY <1>2 DEF Ledger
  <2>3. [r.proxy EXCEPT ![a] = p] = [x EXCEPT ![a] = p] /\ x[a] = None
    BY <2>2
  <2>4. y = {v \in y : v[1] # a}
    OBVIOUS
  <2> QED
    BY <1>4, <2>1, <2>3, <2>4 DEF Rehung
<1>8. \A j \in 0 .. MaxProxyDepth : Up(left, p)[j] # a
  <2> SUFFICES ASSUME NEW j \in 0 .. MaxProxyDepth, Up(left, p)[j] = a PROVE FALSE
    OBVIOUS
  <2>0. d.proxy \in [Accounts -> Accounts \cup {None}]
    BY DEF Ledger
  <2>1. /\ left.proxy \in [Accounts -> Accounts \cup {None}] /\ left.proxy[a] = None
        /\ \A b \in Accounts \ {a} : left.proxy[b] = d.proxy[b]
    BY <1>2, <1>3, <1>4, <1>7, <2>0
  <2>2. Up(left, p)[j] \in {None, Up(d, p)[j]}
    BY <2>0, <2>1, UpCut
  <2>3. Up(d, p)[j] = a
    BY <2>2, AccountTypes
  <2>4. CASE d.proxy[p] # None
    BY <2>3, <2>4 DEF ProxyChain
  <2>5. CASE d.proxy[p] = None
    <3>1. /\ Up(d, p)[0] = p
          /\ \A n \in 1 .. MaxProxyDepth :
                Up(d, p)[n] = IF Up(d, p)[n-1] = None THEN None ELSE d.proxy[Up(d, p)[n-1]]
      BY <2>0, UpSteps
    <3>2. 1 \in 1 .. MaxProxyDepth /\ 1 - 1 = 0 /\ 1 \in 0 .. MaxProxyDepth
      BY QiLedgerAssumption
    <3>3. Up(d, p)[1] = None
      <4>1. Up(d, p)[1] = IF Up(d, p)[1-1] = None THEN None ELSE d.proxy[Up(d, p)[1-1]]
        BY <3>1, <3>2
      <4> QED
        BY <2>5, <3>1, <3>2, <4>1
    <3>4. j # 0
      BY <2>3, <3>1
    <3>5. 1 <= j
      BY <3>4, QiLedgerAssumption
    <3>6. Up(d, p)[j] = None
      BY <2>0, <3>2, <3>3, <3>5, UpEnds
    <3> QED
      BY <2>3, <3>6, AccountTypes
  <2> QED
    BY <2>4, <2>5
<1>9. delta \in Deltas
  BY WholeWeightType
<1>10. \A i \in Levels : delta[i] = Passed(left, a, i)
  <2> SUFFICES ASSUME NEW i \in Levels PROVE delta[i] = Passed(left, a, i)
    OBVIOUS
  <2>1. i \in 0 .. MaxProxyDepth
    BY QiLedgerAssumption DEF Levels
  <2>2. delta[i] = 1 * (IF i = 0 THEN d.qi[a] ELSE d.proxied[a][i-1])
    BY <2>1 DEF WholeWeight
  <2>3. delta[i] = 1 * Passed(d, a, i)
    BY <2>2 DEF Passed
  <2>4. Passed(d, a, i) \in Int
    BY <2>1, PassedType
  <2>5. Passed(left, a, i) = Passed(d, a, i)
    BY <1>2, <1>4, <1>6 DEF Passed
  <2> QED
    BY <2>3, <2>4, <2>5
<1> HIDE DEF delta
<1>11. Counted(AdjustProxied(m, a, delta), l)
  BY <1>4, <1>6, <1>7, <1>8, <1>9, <1>10, JoinedCounted
<1> QED
  BY <1>11 DEF delta

LEMMA SetProxyStep ==
    ASSUME QiInv, NEW a \in Users, NEW p \in Accounts \cup {None}, SetProxy(a, p)
    PROVE  QiInv'
<1> DEFINE r == AdjustProxied(db, a, WholeWeight(db, a, -1))
           none == [r EXCEPT !.proxy[a] = None]
           moved == [ClearAdores(r, a) EXCEPT !.proxy[a] = p]
           e == AdjustProxied(moved, a, WholeWeight(db, a, 1))
<1>1. a \in Accounts /\ db \in Ledger
  BY AccountTypes DEF QiInv
<1>2. Voted(db, r) /\ r \in Ledger
  BY <1>1, WholeWeightVoted
<1>3. now' = now /\ looped' = looped /\ claimed' = claimed
  BY DEF SetProxy, Apply, history
<1>4. IF p = None THEN none.ok /\ db' = none ELSE e.ok /\ db' = e
  BY DEF SetProxy, Apply
<1>4a. r = AdjustProxied(db, a, WholeWeight(db, a, -1)) /\ OnlyAdores(db, r)
  BY <1>1, WholeWeightVoted
<1>4b. /\ p # a /\ db.proxy[a] # p
       /\ p # None /\ db.proxy[p] # None => a \notin ProxyChain(db, p)
  BY DEF SetProxy
<1> HIDE DEF r
<1>5. Voted(r, none)
  <2> DEFINE x == [r.proxy EXCEPT ![a] = None]
             c == [r EXCEPT !.proxy = x, !.adored = r.adored,
                            !.can_adore = r.can_adore, !.decline = r.decline]
  <2>1. x \in [Accounts -> Accounts \cup {None}]
    BY <1>2 DEF Ledger
  <2>2. none = c
    BY <1>2 DEF Ledger
  <2>3. Voted(r, c)
    <3> HIDE DEF x
    <3>1. /\ r.adored \in SUBSET (Users \X Simings)
          /\ r.can_adore \in [Accounts -> BOOLEAN] /\ r.decline \in [Accounts -> Times]
      BY <1>2 DEF Ledger
    <3> QED
      BY <1>2, <2>1, <3>1, ColumnsVoted
  <2> QED
    BY <2>2, <2>3
<1>6. Voted(r, moved)
  <2> DEFINE x == [r.proxy EXCEPT ![a] = p]
             y == {v \in r.adored : v[1] # a}
             c == [r EXCEPT !.proxy = x, !.adored = y,
                            !.can_adore = r.can_adore, !.decline = r.decline]
  <2>1. x \in [Accounts -> Accounts \cup {None}] /\ y \in SUBSET (Users \X Simings)
    BY <1>2 DEF Ledger
  <2>2. moved = c
    BY <1>2 DEF Ledger, ClearAdores
  <2>3. Voted(r, c)
    <3> HIDE DEF x, y
    <3>1. /\ r.can_adore \in [Accounts -> BOOLEAN] /\ r.decline \in [Accounts -> Times]
      BY <1>2 DEF Ledger
    <3> QED
      BY <1>2, <2>1, <3>1, ColumnsVoted
  <2> QED
    BY <2>2, <2>3
<1>6a. /\ none.proxy = [r.proxy EXCEPT ![a] = None] /\ none.adored = r.adored
       /\ none.proxied = r.proxied /\ none.adores = r.adores
       /\ moved.proxy = [r.proxy EXCEPT ![a] = p]
       /\ moved.adored = {v \in r.adored : v[1] # a}
       /\ moved.proxied = r.proxied /\ moved.adores = r.adores
  BY <1>2 DEF Ledger, ClearAdores
<1>6b. db.proxied[a] \in [Levels -> Int] /\ Counted(db, claimed)
  BY <1>1 DEF Ledger, QiInv
<1> HIDE DEF none, moved
<1>7. moved \in Ledger
  BY <1>6 DEF Voted
<1>8. Voted(moved, e)
  BY <1>1, <1>7, WholeWeightVoted
<1> HIDE DEF e
<1>9. Voted(db, none) /\ Voted(db, e)
  BY <1>2, <1>5, <1>6, <1>8, VotedTransitive
<1>10. p = None => Counted(none, claimed)
  <2> SUFFICES ASSUME p = None PROVE Counted(none, claimed)
    OBVIOUS
  <2>1. r.adored = db.adored
    BY <1>4a DEF OnlyAdores, SameVotes
  <2>2. \A v \in r.adored : v[1] # a
    BY <1>4b, <1>6b, <2>1 DEF Counted, RootsAdore
  <2>3. Rehung(r, none, a, None)
    BY <1>5, <1>6a, <2>2 DEF Rehung, Voted, SameQi
  <2> QED
    BY <1>1, <1>4a, <1>6b, <2>3, LeftCounted
<1>11. p # None => Counted(e, claimed)
  <2> SUFFICES ASSUME p # None PROVE Counted(e, claimed)
    OBVIOUS
  <2>1. Voted(r, moved) /\ Rehung(r, moved, a, p)
    BY <1>6, <1>6a DEF Rehung, Voted, SameQi
  <2> QED
    BY <1>1, <1>4a, <1>4b, <1>6b, <2>1, RejoinedCounted DEF e
<1> QED
  BY <1>3, <1>4, <1>9, <1>10, <1>11, VotedStep

\* An account without a proxy that adores one siming more, or one less.
LEMMA AdoreCounted ==
    ASSUME NEW d \in Ledger, NEW e \in Ledger, NEW a \in Accounts, NEW s \in Simings,
           NEW approve \in BOOLEAN, d.proxy[a] = None, approve # (<<a, s>> \in d.adored),
           e.qi = d.qi, e.proxy = d.proxy, e.proxied = d.proxied,
           e.adores = [d.adores EXCEPT
                         ![s] = @ + IF approve THEN Weight(d, a) ELSE -Weight(d, a)],
           e.adored = IF approve THEN d.adored \cup {<<a, s>>} ELSE d.adored \ {<<a, s>>},
           NEW l, Counted(d, l)
    PROVE  Counted(e, l)
<1>1. \A c \in Accounts, i \in Levels : LevelOver(e, c, i) = LevelOver(d, c, i)
  BY DEF LevelOver, Below, Passed
<1>2. \A b \in Accounts : Weight(e, b) = Weight(d, b) /\ Weight(d, b) \in Int
  BY PassedType DEF Weight
<1>3. ASSUME NEW x \in Simings PROVE AdoreOver(e, x) = AdoreOver(d, x)
  <2> DEFINE w == [b \in Accounts |-> Weight(d, b)]
             A == Adorers(d, x)
             B == Adorers(e, x)
  <2>1. [b \in Accounts |-> Weight(e, b)] = w
    BY <1>2
  <2>2. /\ AdoreOver(d, x) = d.adores[x] - SumFunctionOnSet(w, A)
        /\ AdoreOver(e, x) = e.adores[x] - SumFunctionOnSet(w, B)
    BY <2>1 DEF AdoreOver
  <2>3. /\ d.adores \in [Simings -> Int] /\ Weight(d, a) \in Int /\ w[a] = Weight(d, a)
        /\ \A b \in Accounts : w[b] \in Int
    BY <1>2 DEF Ledger
  <2>4. /\ A \subseteq Accounts /\ B \subseteq Accounts /\ IsFiniteSet(A) /\ IsFiniteSet(B)
        /\ (a \in A <=> <<a, x>> \in d.adored)
    BY Finite, FS_Subset DEF Adorers
  <2>5. CASE x # s
    <3>1. \A b : <<b, x>> # <<a, s>>
      BY <2>5
    <3>2. B = A
      BY <3>1 DEF Adorers
    <3>3. e.adores[x] = d.adores[x]
      BY <2>3, <2>5
    <3> QED
      BY <2>2, <3>2, <3>3
  <2>6. CASE x = s /\ approve
    <3>1. B = A \cup {a} /\ a \notin A
      BY <2>4, <2>6 DEF Adorers
    <3>2. e.adores[x] = d.adores[x] + Weight(d, a)
      BY <2>3, <2>6
    <3> HIDE DEF w, A, B
    <3>3. a \in B /\ B \ {a} = A /\ \A b \in B : w[b] \in Int
      BY <2>3, <2>4, <3>1
    <3>4. SumFunctionOnSet(w, B) = w[a] + SumFunctionOnSet(w, B \ {a})
      BY <2>4, <3>3, SumTakeOut
    <3>5. SumFunctionOnSet(w, A) \in Int
      BY <2>3, <2>4, SumStep
    <3>6. d.adores[x] \in Int
      BY <2>3
    <3>7. SumFunctionOnSet(w, B) = Weight(d, a) + SumFunctionOnSet(w, A)
      BY <2>3, <3>3, <3>4
    <3> QED
      BY <2>2, <2>3, <3>2, <3>5, <3>6, <3>7
  <2>7. CASE x = s /\ ~approve
    <3>1. B = A \ {a} /\ a \in A
      BY <2>4, <2>7 DEF Adorers
    <3>2. e.adores[x] = d.adores[x] - Weight(d, a)
      BY <2>3, <2>7
    <3> HIDE DEF w, A, B
    <3>3. \A b \in A : w[b] \in Int
      BY <2>3, <2>4
    <3>4. SumFunctionOnSet(w, A) = w[a] + SumFunctionOnSet(w, A \ {a})
      BY <2>4, <3>1, <3>3, SumTakeOut
    <3>5. SumFunctionOnSet(w, B) \in Int
      BY <2>3, <2>4, SumStep
    <3> QED
      BY <2>2, <2>3, <3>1, <3>2, <3>4, <3>5
  <2> QED
    BY <2>5, <2>6, <2>7
<1>4. RootsAdore(e)
  BY DEF RootsAdore, Counted
<1>5. Loopless(e)
  BY UpSame DEF Loopless, Counted
<1> QED
  BY <1>1, <1>3, <1>4, <1>5 DEF Counted

LEMMA AdoreStep ==
    ASSUME QiInv, NEW a \in Users, NEW s \in Simings, NEW approve \in BOOLEAN,
           Adore(a, s, approve)
    PROVE  QiInv'
<1> DEFINE weight == IF approve THEN Weight(db, a) ELSE -Weight(db, a)
           adores == db.adores[s] + weight
           v == [db.adores EXCEPT ![s] = adores]
           w == IF approve THEN db.adored \cup {<<a, s>>} ELSE db.adored \ {<<a, s>>}
           o == adores <= db.total_qi
           e == [db EXCEPT !.adores = v, !.adored = w, !.ok = o]
<1>1. db \in Ledger /\ db.ok /\ a \in Accounts
  BY AccountTypes DEF QiInv
<1>2. Weight(db, a) \in Int
  <2> DEFINE f == db.proxied[a]
  <2>1. f \in [Levels -> Int] /\ db.qi[a] \in Int
    BY <1>1 DEF Ledger
  <2> HIDE DEF f
  <2>2. SumFunction(f) \in Int
    BY <2>1, Finite, SumStep DEF SumFunction
  <2> QED
    BY <2>1, <2>2 DEF Weight, f
<1>3. v \in [Simings -> Int] /\ w \in SUBSET (Users \X Simings) /\ o \in BOOLEAN
  <2>1. adores \in Int
    BY <1>1, <1>2 DEF Ledger
  <2> HIDE DEF adores
  <2> QED
    BY <1>1, <2>1 DEF Ledger
<1>4. db' = e /\ e.ok /\ now' = now /\ looped' = looped /\ claimed' = claimed
  <2>1. [db EXCEPT !.adores[s] = adores,
                   !.adored = IF approve THEN @ \cup {<<a, s>>} ELSE @ \ {<<a, s>>},
                   !.ok = o] = e
    <3> HIDE DEF adores, o
    <3> QED
      BY <1>1 DEF Ledger
  <2> HIDE DEF e
  <2> QED
    BY <2>1 DEF Adore, Apply, history
<1> HIDE DEF v, w, o
<1>5. e \in Ledger
  BY <1>1, <1>3 DEF Ledger
<1>6. SameYang(db, e) /\ SameQi(db, e) /\ SameDelegations(db, e) /\ SameWithdrawals(db, e)
  BY <1>1, <1>3 DEF Ledger, SameYang, SameQi, SameDelegations, SameWithdrawals
<1>7. /\ e.qi = db.qi /\ e.proxy = db.proxy /\ e.proxied = db.proxied
      /\ e.adores = v /\ e.adored = w
  BY <1>1, <1>3 DEF Ledger
<1> HIDE DEF e
<1>8. Counted(e, claimed)
  <2>1. db.proxy[a] = None /\ approve # (<<a, s>> \in db.adored) /\ Counted(db, claimed)
    BY DEF Adore, QiInv
  <2>2. v = [db.adores EXCEPT ![s] = @ + IF approve THEN Weight(db, a) ELSE -Weight(db, a)]
    BY DEF v
  <2>3. w = IF approve THEN db.adored \cup {<<a, s>>} ELSE db.adored \ {<<a, s>>}
    BY DEF w
  <2> HIDE DEF weight, adores
  <2> QED
    BY <1>1, <1>5, <1>7, <2>1, <2>2, <2>3, AdoreCounted
<1> QED
  BY <1>1, <1>4, <1>5, <1>6, <1>8, VotedStep DEF Voted

LEMMA RequestDeclineStep ==
    ASSUME QiInv, NEW a \in Users, NEW on \in BOOLEAN, RequestDecline(a, on)
    PROVE  QiInv'
<1> DEFINE t == IF on THEN now + DeclinePeriod ELSE Never
           x == [db.decline EXCEPT ![a] = t]
           e == [db EXCEPT !.proxy = db.proxy, !.adored = db.adored,
                           !.can_adore = db.can_adore, !.decline = x]
<1>1. db \in Ledger /\ db.ok /\ a \in Accounts /\ t \in Times
  BY AccountTypes, Clock DEF QiInv, Times
<1>2. x \in [Accounts -> Times]
  BY <1>1 DEF Ledger
<1>3. db' = e /\ now' = now /\ looped' = looped /\ claimed' = claimed
  <2>1. [db EXCEPT !.decline[a] = t] = e
    BY <1>1 DEF Ledger
  <2> QED
    BY <2>1 DEF RequestDecline, Apply, history
<1> HIDE DEF x
<1>3a. SameCount(db, e)
  BY <1>1, <1>2 DEF Ledger, SameCount
<1>4. Voted(db, e) /\ e.ok
  <2>1. /\ db.proxy \in [Accounts -> Accounts \cup {None}]
        /\ db.adored \in SUBSET (Users \X Simings) /\ db.can_adore \in [Accounts -> BOOLEAN]
    BY <1>1 DEF Ledger
  <2>2. Voted(db, e)
    BY <1>1, <1>2, <2>1, ColumnsVoted
  <2>3. e.ok = db.ok
    BY <1>1 DEF Ledger
  <2> QED
    BY <1>1, <2>2, <2>3
<1> HIDE DEF e
<1>5. Counted(e, claimed)
  BY <1>3a, SameCounted DEF QiInv
<1> QED
  BY <1>3, <1>4, <1>5, VotedStep

\* A claim turns feigang back into qi.
LEMMA ClaimFeigangStep ==
    ASSUME QiInv, NEW a \in Users, NEW x \in Amounts, ClaimFeigang(a, x)
    PROVE  QiInv'
<1> DEFINE f == [db.feigang EXCEPT ![a] = @ - x]
           q == [db.qi EXCEPT ![a] = @ + x]
           c == [db EXCEPT !.feigang = f, !.qi = q]
           first == AdjustWeight(c, a, x)
           n == first.total_qi + x
           m == first.pending_feigang - x
           paid == [first EXCEPT !.total_qi = n, !.pending_feigang = m]
           e == AdjustWeight(paid, a, x)
<1>1. x \in Nat /\ a \in Accounts /\ x <= db.feigang[a]
  BY QiLedgerAssumption, AccountTypes DEF ClaimFeigang
<1>2. db \in Ledger /\ Sound(db, looped) /\ now \in 0 .. MaxBlocks
  BY DEF QiInv
<1>3. f \in [Accounts -> Int] /\ q \in [Accounts -> Int]
  BY <1>1, <1>2 DEF Ledger
<1>4. e.ok /\ db' = e /\ now' = now /\ looped' = looped /\ claimed' = TRUE
  <2>1. [db EXCEPT !.feigang[a] = @ - x, !.qi[a] = @ + x] = c
    BY <1>2 DEF Ledger
  <2> HIDE DEF c
  <2>2. [first EXCEPT !.total_qi = @ + x, !.pending_feigang = @ - x] = paid
    OBVIOUS
  <2> HIDE DEF paid
  <2> QED
    BY <2>1, <2>2 DEF ClaimFeigang, Apply
<1> HIDE DEF f, q
<1>5. /\ c \in Ledger /\ c.qi = q /\ c.feigang = f /\ c.fund_qi = db.fund_qi
      /\ c.total_qi = db.total_qi /\ c.pending_feigang = db.pending_feigang
      /\ SameYang(db, c) /\ SameDelegations(db, c) /\ SameWithdrawals(db, c) /\ SameVotes(db, c)
  BY <1>2, <1>3 DEF Ledger, SameYang, SameDelegations, SameWithdrawals, SameVotes
<1>5a. c.proxied = db.proxied /\ c.adores = db.adores
  BY <1>2, <1>3 DEF Ledger
<1> HIDE DEF c
<1>5b. Gains(db, c, a, x) /\ Counted(db, claimed)
  BY <1>5, <1>5a DEF Gains, SameVotes, q, QiInv
<1>5c. Counted(first, claimed)
  BY <1>1, <1>2, <1>5b, GainCounted
<1>6. OnlyAdores(c, first)
  BY <1>1, <1>5, AdjustWeightKeeps
<1> HIDE DEF first
<1>7. first \in Ledger /\ n \in Int /\ m \in Int
  BY <1>1, <1>6 DEF OnlyAdores, Ledger
<1> HIDE DEF n, m
<1>8. /\ paid \in Ledger /\ paid.qi = first.qi /\ paid.feigang = first.feigang
      /\ paid.fund_qi = first.fund_qi /\ paid.total_qi = n /\ paid.pending_feigang = m
      /\ SameYang(first, paid) /\ SameDelegations(first, paid)
      /\ SameWithdrawals(first, paid) /\ SameVotes(first, paid)
  BY <1>7 DEF Ledger, SameYang, SameDelegations, SameWithdrawals, SameVotes
<1>8a. SameCount(first, paid)
  BY <1>7 DEF Ledger, SameCount
<1> HIDE DEF paid
<1>8b. Counted(e, TRUE)
  <2>1. Counted(paid, claimed) /\ claimed \in BOOLEAN
    BY <1>5c, <1>8a, SameCounted DEF QiInv
  <2> QED
    BY <1>1, <1>8, <2>1, AgainCounted
<1>9. OnlyAdores(paid, e)
  BY <1>1, <1>8, AdjustWeightKeeps
<1> HIDE DEF e
<1>10. /\ e.qi = q /\ e.feigang = f /\ e.fund_qi = db.fund_qi
       /\ e.total_qi = db.total_qi + x /\ e.pending_feigang = db.pending_feigang - x
  BY <1>5, <1>6, <1>8, <1>9 DEF OnlyAdores, SameQi, n, m
<1>11. SameYang(db, e) /\ SameDelegations(db, e) /\ SameWithdrawals(db, e) /\ SameVotes(db, e)
  BY <1>5, <1>6, <1>8, <1>9 DEF OnlyAdores, SameYang, SameDelegations, SameWithdrawals, SameVotes
<1> DEFINE y == -x
<1>12. Moved(db, e, a, a, y)
  <2>1. e \in Ledger
    BY <1>9 DEF OnlyAdores
  <2>2. db.qi \in [Accounts -> Int] /\ db.feigang \in [Accounts -> Int]
        /\ db.total_qi \in Int /\ db.pending_feigang \in Int
    BY <1>2 DEF Ledger
  <2>3. q = [db.qi EXCEPT ![a] = @ - y] /\ f = [db.feigang EXCEPT ![a] = @ + y]
    BY <1>1, <2>2 DEF q, f
  <2>4. e.total_qi = db.total_qi - y /\ e.pending_feigang = db.pending_feigang + y
    BY <1>1, <1>10, <2>2
  <2> HIDE DEF y
  <2> QED
    BY <1>10, <1>11, <2>1, <2>3, <2>4 DEF Moved
<1>13. y \in Int /\ db.qi[a] - y >= 0 /\ db.feigang[a] + y >= 0
  <2>1. db.qi[a] \in Nat /\ db.feigang[a] \in Nat
    BY <1>1, <1>2 DEF Sound, Positive
  <2> QED
    BY <1>1, <2>1
<1> HIDE DEF y
<1>14. Sound(e, looped)
  BY <1>1, <1>2, <1>12, <1>13, MovedSound
<1> QED
  BY <1>2, <1>4, <1>8b, <1>9, <1>14, Becomes DEF OnlyAdores

\* One delegation changes what its two accounts give and receive.
Delegated(d, e, a, b, x) == e.delegation = [d.delegation EXCEPT ![<<a, b>>] = x]

LEMMA DelegationSums ==
    ASSUME NEW d \in Ledger, NEW e \in Ledger,
           NEW a \in Accounts, NEW b \in Accounts, NEW x \in Nat,
           Delegated(d, e, a, b, x), NEW c \in Accounts
    PROVE  /\ Given(d, c) \in Int /\ Received(d, c) \in Int
           /\ Given(e, c)
                = Given(d, c) + IF c = a THEN x - d.delegation[<<a, b>>] ELSE 0
           /\ Received(e, c)
                = Received(d, c) + IF c = b THEN x - d.delegation[<<a, b>>] ELSE 0
<1> DEFINE g(l) == [y \in Accounts |-> l.delegation[<<c, y>>]]
           r(l) == [y \in Accounts |-> l.delegation[<<y, c>>]]
           old == d.delegation[<<a, b>>]
<1> USE DEF Delegated
<1>0. d.delegation \in [Accounts \X Accounts -> Nat]
  BY DEF Ledger
<1>1. g(d) \in [Accounts -> Int] /\ r(d) \in [Accounts -> Int] /\ old \in Int /\ x \in Int
  BY <1>0
<1>2. g(e) = IF c = a THEN [g(d) EXCEPT ![b] = x] ELSE g(d)
  BY <1>0
<1>3. r(e) = IF c = b THEN [r(d) EXCEPT ![a] = x] ELSE r(d)
  BY <1>0
<1>4. (c = a => g(d)[b] = old) /\ (c = b => r(d)[a] = old)
  BY <1>0
<1>5. /\ Given(d, c) = SumFunction(g(d)) /\ Given(e, c) = SumFunction(g(e))
      /\ Received(d, c) = SumFunction(r(d)) /\ Received(e, c) = SumFunction(r(e))
  BY DEF Given, Received
<1> HIDE DEF g, r, old
<1>6. SumFunction(g(d)) \in Int /\ SumFunction(r(d)) \in Int
  BY <1>1, Total
<1>7. SumFunction([g(d) EXCEPT ![b] = x]) = SumFunction(g(d)) + x - g(d)[b]
  BY <1>1, TotalUpdate
<1>8. SumFunction([r(d) EXCEPT ![a] = x]) = SumFunction(r(d)) + x - r(d)[a]
  BY <1>1, TotalUpdate
<1>9. SumFunction(g(e)) = SumFunction(g(d)) + IF c = a THEN x - old ELSE 0
  BY <1>1, <1>2, <1>4, <1>6, <1>7
<1>10. SumFunction(r(e)) = SumFunction(r(d)) + IF c = b THEN x - old ELSE 0
  BY <1>1, <1>3, <1>4, <1>6, <1>8
<1> QED
  BY <1>5, <1>6, <1>9, <1>10 DEF old

\* What is on its way back to an account is a sum of natural numbers.
LEMMA ReturningType ==
    ASSUME NEW d \in Ledger, NEW c \in Accounts
    PROVE  /\ d.returning[c] \in [Times -> Nat]
           /\ SumFunction(d.returning[c]) = SumFunctionOnSet(d.returning[c], Times)
           /\ SumFunction(d.returning[c]) \in Nat
<1> DEFINE f == d.returning[c]
<1>1. f \in [Times -> Nat]
  BY DEF Ledger
<1> HIDE DEF f
<1>2. SumFunction(f) = SumFunctionOnSet(f, Times)
  BY <1>1 DEF SumFunction
<1>3. \A t \in Times : f[t] \in Nat
  BY <1>1
<1>4. SumFunctionOnSet(f, Times) \in Nat
  BY <1>3, Finite, SumNat
<1> QED
  BY <1>1, <1>2, <1>4 DEF f

\* A delegation that is set: what is given more comes from the account, what is
\* given less is on its way back.
LEMMA DelegationSet ==
    ASSUME NEW d \in Ledger, NEW e \in Ledger, Balanced(d),
           NEW a \in Accounts, NEW b \in Accounts, NEW x \in Nat, NEW t \in Times,
           Delegated(d, e, a, b, x),
           e.received = [d.received EXCEPT ![b] = @ + x - d.delegation[<<a, b>>]],
           \/ /\ e.delegated = [d.delegated EXCEPT ![a] = @ + x - d.delegation[<<a, b>>]]
              /\ e.returning = d.returning
           \/ /\ e.delegated = d.delegated
              /\ e.returning = [d.returning EXCEPT ![a] = [d.returning[a] EXCEPT
                       ![t] = d.returning[a][t] + d.delegation[<<a, b>>] - x]]
    PROVE  Balanced(e)
<1> DEFINE old == d.delegation[<<a, b>>]
<1>1. old \in Nat /\ d.delegation \in [Accounts \X Accounts -> Nat]
  BY DEF Ledger
<1>2. ASSUME NEW c \in Accounts PROVE e.received[c] = Received(e, c)
  <2>1. d.received[c] = Received(d, c)
    BY DEF Balanced
  <2>2. /\ Received(d, c) \in Int
        /\ Received(e, c) = Received(d, c) + IF c = b THEN x - old ELSE 0
    BY DelegationSums
  <2>3. e.received[c] = IF c = b THEN d.received[c] + x - old ELSE d.received[c]
    BY DEF Ledger
  <2> HIDE DEF old
  <2> QED
    BY <1>1, <2>1, <2>2, <2>3
<1>3. ASSUME NEW c \in Accounts PROVE e.delegated[c] = Given(e, c) + SumFunction(e.returning[c])
  <2>1. d.delegated[c] = Given(d, c) + SumFunction(d.returning[c])
    BY DEF Balanced
  <2>2. /\ Given(d, c) \in Int
        /\ Given(e, c) = Given(d, c) + IF c = a THEN x - old ELSE 0
    BY DelegationSums
  <2>3. SumFunction(d.returning[c]) \in Nat
    BY ReturningType
  <2>4. CASE e.returning = d.returning
    <3>1. CASE e.delegated = [d.delegated EXCEPT ![a] = @ + x - old]
      <4>1. e.delegated[c] = IF c = a THEN d.delegated[c] + x - old ELSE d.delegated[c]
        BY <3>1 DEF Ledger
      <4> HIDE DEF old
      <4> QED
        BY <1>1, <2>1, <2>2, <2>3, <2>4, <4>1
    <3>2. CASE /\ e.delegated = d.delegated
               /\ e.returning = [d.returning EXCEPT ![a] =
                        [d.returning[a] EXCEPT ![t] = d.returning[a][t] + old - x]]
      <4>0. d.returning[a] \in [Times -> Nat] /\ d.returning \in [Accounts -> [Times -> Nat]]
        BY ReturningType DEF Ledger
      <4>01. e.returning[a] = [d.returning[a] EXCEPT ![t] = @ + old - x]
        BY <3>2, <4>0
      <4>1. e.returning[a][t] = d.returning[a][t] + old - x /\ d.returning[a][t] \in Nat
        BY <4>0, <4>01
      <4>2. old = x
        <5> HIDE DEF old
        <5> QED
          BY <1>1, <2>4, <4>1
      <4> HIDE DEF old
      <4> QED
        BY <1>1, <2>1, <2>2, <2>3, <2>4, <3>2, <4>2
    <3> QED
      BY <3>1, <3>2
  <2>5. CASE /\ e.delegated = d.delegated
             /\ e.returning = [d.returning EXCEPT ![a] =
                        [d.returning[a] EXCEPT ![t] = d.returning[a][t] + old - x]]
    <3>1. CASE c = a
      <4> DEFINE f == d.returning[a]
                 g == e.returning[a]
      <4>1. f \in [Times -> Nat] /\ g \in [Times -> Nat]
        BY ReturningType
      <4>2. g = [f EXCEPT ![t] = @ + old - x]
        <5>1. d.returning \in [Accounts -> [Times -> Nat]]
          BY DEF Ledger
        <5> QED
          BY <2>5, <5>1
      <4>3. SumFunction(f) = SumFunctionOnSet(f, Times) /\ SumFunction(g) = SumFunctionOnSet(g, Times)
        BY ReturningType
      <4> HIDE DEF f, g, old
      <4>4. \A u \in Times : f[u] \in Int /\ g[u] \in Int
        BY <4>1
      <4>5. \A u \in Times \ {t} : g[u] = f[u]
        BY <4>1, <4>2
      <4>6. SumFunctionOnSet(g, Times) = SumFunctionOnSet(f, Times) + g[t] - f[t]
        <5>1. \A u \in Times : f[u] \in Int
          BY <4>4
        <5>2. g[t] \in Int /\ IsFiniteSet(Times)
          BY <4>4, Finite
        <5> QED
          BY <4>5, <5>1, <5>2, SumUpdate
      <4>7. g[t] = f[t] + old - x
        BY <4>1, <4>2
      <4>8. SumFunction(g) = SumFunction(f) + old - x /\ SumFunction(f) \in Int
        BY <1>1, <2>3, <3>1, <4>3, <4>4, <4>6, <4>7 DEF f
      <4> QED
        BY <1>1, <2>1, <2>2, <2>5, <3>1, <4>8 DEF f, g
    <3>2. CASE c # a
      <4>1. e.returning[c] = d.returning[c]
        BY <2>5, <3>2 DEF Ledger
      <4> QED
        BY <2>1, <2>2, <2>3, <2>5, <3>2, <4>1
    <3> QED
      BY <3>1, <3>2
  <2> QED
    BY <2>4, <2>5
<1> QED
  BY <1>2, <1>3 DEF Balanced

\* Replacing the columns of delegations.
Columns(d, e, u, v, w, r) ==
    /\ e = [d EXCEPT !.delegation = u, !.delegated = v, !.received = w, !.returning = r]
    /\ u \in [Accounts \X Accounts -> Nat] /\ v \in [Accounts -> Int]
    /\ w \in [Accounts -> Int] /\ r \in [Accounts -> [Times -> Nat]]

LEMMA ColumnsDelegated ==
    ASSUME NEW d \in Ledger, NEW l, Sound(d, l), NEW e, NEW u, NEW v, NEW w, NEW r,
           Columns(d, e, u, v, w, r)
    PROVE  /\ e \in Ledger /\ e.ok = d.ok
           /\ e.delegation = u /\ e.delegated = v /\ e.received = w /\ e.returning = r
           /\ SameYang(d, e) /\ SameQi(d, e) /\ SameWithdrawals(d, e) /\ SameVotes(d, e)
           /\ SameCount(d, e)
           /\ Balanced(e) => Sound(e, l)
<1> USE DEF Columns
<1>1. e \in Ledger
  BY DEF Ledger
<1>2. /\ SameYang(d, e) /\ SameQi(d, e) /\ SameWithdrawals(d, e) /\ SameVotes(d, e)
      /\ e.ok = d.ok /\ SameCount(d, e)
      /\ e.delegation = u /\ e.delegated = v /\ e.received = w /\ e.returning = r
  BY DEF Ledger, SameYang, SameQi, SameWithdrawals, SameVotes, SameCount
<1>3. Positive(e) /\ Accounted(e)
  BY <1>2 DEF Sound, Positive, Accounted, Worth, SameYang, SameQi, SameWithdrawals
<1>4. Bounded(e, l) /\ RoutesOK(e, l)
  BY <1>2, SameBounded DEF Sound
<1> QED
  BY <1>1, <1>2, <1>3, <1>4 DEF Sound

LEMMA DelegateQiStep ==
    ASSUME QiInv, NEW a \in Users, NEW b \in Accounts, NEW x \in Shares, DelegateQi(a, b, x)
    PROVE  QiInv'
<1> DEFINE old == db.delegation[<<a, b>>]
           more == x - old
           less == old - x
           t == now + ReturnPeriod
           u == [db.delegation EXCEPT ![<<a, b>>] = x]
           w == [db.received EXCEPT ![b] = @ + x - old]
           v == [db.delegated EXCEPT ![a] = @ + x - old]
           r == [db.returning EXCEPT ![a] =
                   [db.returning[a] EXCEPT ![t] = db.returning[a][t] + old - x]]
           e(y, z) == [db EXCEPT !.delegation = u, !.delegated = y,
                                 !.received = w, !.returning = z]
<1>1. x \in Nat /\ a \in Accounts
  BY QiLedgerAssumption, AccountTypes
<1>2. db \in Ledger /\ db.ok /\ Sound(db, looped) /\ now \in 0 .. MaxBlocks
  BY DEF QiInv
<1>3. old \in Nat /\ t \in Times
  BY <1>1, <1>2, Clock DEF Ledger
<1>4. now' = now /\ looped' = looped /\ claimed' = claimed
  BY DEF DelegateQi, Apply, history
<1>5. /\ u \in [Accounts \X Accounts -> Nat]
      /\ w \in [Accounts -> Int] /\ v \in [Accounts -> Int]
      /\ db.delegated \in [Accounts -> Int] /\ db.received \in [Accounts -> Int]
      /\ db.returning \in [Accounts -> [Times -> Nat]]
      /\ db.returning[a] \in [Times -> Nat] /\ db.returning[a][t] \in Nat
  <2>1. /\ db.delegation \in [Accounts \X Accounts -> Nat]
        /\ db.delegated \in [Accounts -> Int] /\ db.received \in [Accounts -> Int]
        /\ db.returning \in [Accounts -> [Times -> Nat]]
    BY <1>2 DEF Ledger
  <2> HIDE DEF old, t
  <2> QED
    BY <1>1, <1>3, <2>1
<1>6. old >= x => r \in [Accounts -> [Times -> Nat]]
  <2>1. ASSUME old >= x
        PROVE  [db.returning[a] EXCEPT ![t] = db.returning[a][t] + old - x] \in [Times -> Nat]
    <3> HIDE DEF old, t
    <3> QED
      BY <1>1, <1>3, <1>5, <2>1
  <2> HIDE DEF old, t
  <2> QED
    BY <1>5, <2>1
<1>7. \/ db' = e(v, db.returning)
      \/ old > x /\ db' = e(db.delegated, r)
  <2> DEFINE w1 == [db.received EXCEPT ![b] = @ + more]
             v1 == [db.delegated EXCEPT ![a] = @ + more]
             w2 == [db.received EXCEPT ![b] = @ - less]
             r2 == [db.returning EXCEPT ![a] = [db.returning[a] EXCEPT
                                                  ![t] = db.returning[a][t] + less]]
             w3 == [db.received EXCEPT ![b] = @ + x]
             v3 == [db.delegated EXCEPT ![a] = @ + x]
  <2>1. \/ db' = [db EXCEPT !.delegation[<<a, b>>] = x,
                            !.delegated[a] = @ + x, !.received[b] = @ + x] /\ old = 0
        \/ db' = [db EXCEPT !.delegation[<<a, b>>] = x,
                            !.delegated[a] = @ + more, !.received[b] = @ + more]
        \/ db' = [db EXCEPT !.delegation[<<a, b>>] = x,
                            !.received[b] = @ - less,
                            !.returning[a][t] = @ + less] /\ old > x
    BY DEF DelegateQi, Apply
  <2>2. w1 = w /\ v1 = v /\ w2 = w /\ r2 = r /\ (old = 0 => w3 = w /\ v3 = v)
    <3> HIDE DEF old, t
    <3>01. db.received[b] \in Int /\ db.delegated[a] \in Int
      BY <1>1, <1>5
    <3>1. w1 = w /\ w2 = w /\ (old = 0 => w3 = w)
      <4>1. /\ db.received[b] + more = db.received[b] + x - old
            /\ db.received[b] - less = db.received[b] + x - old
            /\ old = 0 => db.received[b] + x = db.received[b] + x - old
        BY <1>1, <1>3, <3>01
      <4> QED
        BY <4>1
    <3>2. v1 = v /\ (old = 0 => v3 = v)
      <4>1. /\ db.delegated[a] + more = db.delegated[a] + x - old
            /\ old = 0 => db.delegated[a] + x = db.delegated[a] + x - old
        BY <1>1, <1>3, <3>01
      <4> QED
        BY <4>1
    <3>3. db.returning[a][t] + less = db.returning[a][t] + old - x
      BY <1>1, <1>3, <1>5
    <3>4. r2 = r
      <4> HIDE DEF less
      <4> QED
        BY <3>3
    <3> HIDE DEF w, w1, w2, w3, v, v1, v3, r, r2
    <3> QED
      BY <3>1, <3>2, <3>4
  <2>3. [db EXCEPT !.delegation[<<a, b>>] = x,
                   !.delegated[a] = @ + x, !.received[b] = @ + x]
          = [db EXCEPT !.delegation = u, !.delegated = v3, !.received = w3,
                       !.returning = db.returning]
    <3> HIDE DEF old
    <3> QED
      BY <1>2 DEF Ledger
  <2>4. [db EXCEPT !.delegation[<<a, b>>] = x,
                   !.delegated[a] = @ + more, !.received[b] = @ + more]
          = [db EXCEPT !.delegation = u, !.delegated = v1, !.received = w1,
                       !.returning = db.returning]
    <3> HIDE DEF more
    <3> QED
      BY <1>2 DEF Ledger
  <2>5. [db EXCEPT !.delegation[<<a, b>>] = x,
                   !.received[b] = @ - less, !.returning[a][t] = @ + less]
          = [db EXCEPT !.delegation = u, !.delegated = db.delegated, !.received = w2,
                       !.returning = r2]
    <3> HIDE DEF less, t
    <3> QED
      BY <1>2 DEF Ledger
  <2> HIDE DEF u, v, w, r, w1, v1, w2, r2, w3, v3, old, more, less, t
  <2> QED
    BY <2>1, <2>2, <2>3, <2>4, <2>5
<1>8. /\ u = [db.delegation EXCEPT ![<<a, b>>] = x]
      /\ w = [db.received EXCEPT ![b] = @ + x - db.delegation[<<a, b>>]]
      /\ v = [db.delegated EXCEPT ![a] = @ + x - db.delegation[<<a, b>>]]
      /\ r = [db.returning EXCEPT ![a] = [db.returning[a] EXCEPT
                ![t] = db.returning[a][t] + db.delegation[<<a, b>>] - x]]
  OBVIOUS
<1>9. Balanced(db)
  BY <1>2 DEF Sound
<1> HIDE DEF u, v, w, r, old, more, less, t
<1>10. CASE db' = e(v, db.returning)
  <2> DEFINE f == e(v, db.returning)
  <2>2. Columns(db, f, u, v, w, db.returning) /\ db' = f
    BY <1>5, <1>10 DEF Columns
  <2> HIDE DEF f
  <2>1. /\ f \in Ledger /\ f.ok = db.ok
        /\ f.delegation = u /\ f.delegated = v /\ f.received = w /\ f.returning = db.returning
        /\ Balanced(f) => Sound(f, looped)
        /\ Keeps(db, f)
    <3>1. f \in Ledger
      BY <1>2, <2>2, ColumnsDelegated
    <3>2. f.ok = db.ok /\ f.delegation = u
      BY <1>2, <2>2, ColumnsDelegated
    <3>3. f.delegated = v /\ f.received = w /\ f.returning = db.returning
      BY <1>2, <2>2, ColumnsDelegated
    <3>4. Balanced(f) => Sound(f, looped)
      BY <1>2, <2>2, ColumnsDelegated
    <3>5. Keeps(db, f)
      BY <1>2, <2>2, ColumnsDelegated, SameKeeps
    <3> QED
      BY <3>1, <3>2, <3>3, <3>4, <3>5
  <2>3. Delegated(db, f, a, b, x)
    BY <1>8, <2>1 DEF Delegated
  <2>4. f.received = [db.received EXCEPT ![b] = @ + x - db.delegation[<<a, b>>]]
    BY <1>8, <2>1
  <2>5. /\ f.delegated = [db.delegated EXCEPT ![a] = @ + x - db.delegation[<<a, b>>]]
        /\ f.returning = db.returning
    BY <1>8, <2>1
  <2>6. Balanced(f)
    BY <1>1, <1>2, <1>3, <1>9, <2>1, <2>3, <2>4, <2>5, DelegationSet
  <2> QED
    BY <1>2, <1>4, <2>1, <2>2, <2>6, KeepsBecomes
<1>11. CASE old > x /\ db' = e(db.delegated, r)
  <2> DEFINE f == e(db.delegated, r)
  <2>0. r \in [Accounts -> [Times -> Nat]]
    BY <1>1, <1>3, <1>6, <1>11
  <2>2. Columns(db, f, u, db.delegated, w, r) /\ db' = f
    BY <1>5, <1>11, <2>0 DEF Columns
  <2> HIDE DEF f
  <2>1. /\ f \in Ledger /\ f.ok = db.ok
        /\ f.delegation = u /\ f.delegated = db.delegated /\ f.received = w /\ f.returning = r
        /\ Balanced(f) => Sound(f, looped)
        /\ Keeps(db, f)
    <3>1. f \in Ledger
      BY <1>2, <2>2, ColumnsDelegated
    <3>2. f.ok = db.ok /\ f.delegation = u
      BY <1>2, <2>2, ColumnsDelegated
    <3>3. f.delegated = db.delegated /\ f.received = w /\ f.returning = r
      BY <1>2, <2>2, ColumnsDelegated
    <3>4. Balanced(f) => Sound(f, looped)
      BY <1>2, <2>2, ColumnsDelegated
    <3>5. Keeps(db, f)
      BY <1>2, <2>2, ColumnsDelegated, SameKeeps
    <3> QED
      BY <3>1, <3>2, <3>3, <3>4, <3>5
  <2>3. Delegated(db, f, a, b, x)
    BY <1>8, <2>1 DEF Delegated
  <2>4. f.received = [db.received EXCEPT ![b] = @ + x - db.delegation[<<a, b>>]]
    BY <1>8, <2>1
  <2>5. /\ f.delegated = db.delegated
        /\ f.returning = [db.returning EXCEPT ![a] = [db.returning[a] EXCEPT
                ![t] = db.returning[a][t] + db.delegation[<<a, b>>] - x]]
    BY <1>8, <2>1
  <2>6. Balanced(f)
    BY <1>1, <1>2, <1>3, <1>9, <2>1, <2>3, <2>4, <2>5, DelegationSet
  <2> QED
    BY <1>2, <1>4, <2>1, <2>2, <2>6, KeepsBecomes
<1> QED
  BY <1>7, <1>10, <1>11

-----------------------------------------------------------------------------
(* What every block does. *)

\* What comes back to an account before t and what comes back later.
LEMMA ReturningSplit ==
    ASSUME NEW f \in [Times -> Nat], NEW g, NEW t \in Int,
           g = [u \in Times |-> IF u < t THEN 0 ELSE f[u]]
    PROVE  /\ SumFunctionOnSet(f, {u \in Times : u < t}) \in Int
           /\ SumFunction(f) \in Int
           /\ SumFunction(g) = SumFunction(f) - SumFunctionOnSet(f, {u \in Times : u < t})
<1> DEFINE A == {u \in Times : u < t}
           B == Times \ A
<1>1. /\ IsFiniteSet(Times) /\ IsFiniteSet(A) /\ IsFiniteSet(B)
      /\ A \in SUBSET Times
  BY Finite, FS_Subset
<1>2. /\ \A u \in Times : f[u] \in Int
      /\ \A u \in Times : g[u] \in Int
  OBVIOUS
<1>3. SumFunction(f) = SumFunctionOnSet(f, Times) /\ SumFunction(g) = SumFunctionOnSet(g, Times)
  BY DEF SumFunction
<1>4. \A u \in A : g[u] = 0
  OBVIOUS
<1>5. \A u \in B : f[u] \in Int /\ f[u] = g[u]
  OBVIOUS
<1> HIDE DEF A, B
<1>6. SumFunctionOnSet(f, Times) = SumFunctionOnSet(f, A) + SumFunctionOnSet(f, Times \ A)
  BY <1>1, <1>2, SumSplit
<1>7. SumFunctionOnSet(g, Times) = SumFunctionOnSet(g, A) + SumFunctionOnSet(g, Times \ A)
  BY <1>1, <1>2, SumSplit
<1>8. SumFunctionOnSet(g, A) = 0
  BY <1>1, <1>4, SumZero
<1>9. SumFunctionOnSet(f, B) = SumFunctionOnSet(g, B)
  BY <1>1, <1>5, SumSame
<1>10. SumFunctionOnSet(f, A) \in Int /\ SumFunctionOnSet(f, B) \in Int
  <2>1. (\A u \in A : f[u] \in Int) /\ (\A u \in B : f[u] \in Int)
    BY <1>1, <1>2 DEF B
  <2> QED
    BY <1>1, <2>1, SumStep
<1> QED
  BY <1>3, <1>6, <1>7, <1>8, <1>9, <1>10 DEF A, B

\* What came back is delegated no more.
LEMMA ClearExpiredKept ==
    ASSUME NEW d \in Ledger, NEW l, Sound(d, l), NEW t \in Int
    PROVE  Kept(d, ClearExpiredDelegations(d, t), l)
<1> DEFINE A == {u \in Times : u < t}
           over == [a \in Accounts |-> SumFunctionOnSet(d.returning[a], A)]
           v == [a \in Accounts |-> d.delegated[a] - over[a]]
           r == [a \in Accounts |-> [u \in Times |-> IF u < t THEN 0 ELSE d.returning[a][u]]]
           f == ClearExpiredDelegations(d, t)
<1>1. ASSUME NEW a \in Accounts
      PROVE  /\ over[a] \in Int /\ SumFunction(d.returning[a]) \in Int
             /\ SumFunction(r[a]) = SumFunction(d.returning[a]) - over[a]
  <2>1. d.returning[a] \in [Times -> Nat]
    BY ReturningType
  <2> DEFINE g == [u \in Times |-> IF u < t THEN 0 ELSE d.returning[a][u]]
  <2>2. SumFunction(g) = SumFunction(d.returning[a]) - SumFunctionOnSet(d.returning[a], A)
    BY <2>1, ReturningSplit
  <2>3. SumFunctionOnSet(d.returning[a], A) \in Int /\ SumFunction(d.returning[a]) \in Int
    <3> HIDE DEF g
    <3>1. g = [u \in Times |-> IF u < t THEN 0 ELSE d.returning[a][u]]
      BY DEF g
    <3> QED
      BY <2>1, <3>1, ReturningSplit
  <2>4. r[a] = g /\ over[a] = SumFunctionOnSet(d.returning[a], A)
    <3> HIDE DEF A
    <3> QED
      OBVIOUS
  <2> HIDE DEF r, over, g, A
  <2> QED
    BY <2>2, <2>3, <2>4
<1>2. v \in [Accounts -> Int]
  <2> HIDE DEF over
  <2>1. ASSUME NEW a \in Accounts PROVE d.delegated[a] - over[a] \in Int
    <3>1. over[a] \in Int
      BY <1>1
    <3>2. d.delegated[a] \in Int
      BY DEF Ledger
    <3> QED
      BY <3>1, <3>2
  <2> QED
    BY <2>1
<1>3. r \in [Accounts -> [Times -> Nat]]
  BY DEF Ledger
<1>4. Columns(d, f, d.delegation, v, d.received, r)
  <2>1. f = [d EXCEPT !.delegation = d.delegation, !.delegated = v,
                      !.received = d.received, !.returning = r]
    <3>1. [d EXCEPT !.delegated = [a \in Accounts |-> @[a] - over[a]],
                    !.returning = [a \in Accounts |->
                                     [u \in Times |-> IF u < t THEN 0 ELSE @[a][u]]]]
            = [d EXCEPT !.delegated = v, !.returning = r]
      <4> HIDE DEF over
      <4> QED
        OBVIOUS
    <3>2. [d EXCEPT !.delegated = v, !.returning = r]
            = [d EXCEPT !.delegation = d.delegation, !.delegated = v,
                        !.received = d.received, !.returning = r]
      <4> HIDE DEF v, r
      <4> QED
        BY DEF Ledger
    <3> HIDE DEF v, r
    <3> QED
      BY <3>1, <3>2 DEF ClearExpiredDelegations
  <2> HIDE DEF v, r, f
  <2> QED
    BY <1>2, <1>3, <2>1 DEF Columns, Ledger
<1> HIDE DEF f, v, r, over
<1>5. f \in Ledger /\ f.ok = d.ok /\ f.routes = d.routes /\ SameCount(d, f)
  BY <1>4, ColumnsDelegated DEF SameWithdrawals
<1>6. f.delegation = d.delegation /\ f.delegated = v
  BY <1>4, ColumnsDelegated
<1>7. f.received = d.received /\ f.returning = r
  BY <1>4, ColumnsDelegated
<1>8. Balanced(f) => Sound(f, l)
  BY <1>4, ColumnsDelegated
<1>9. ASSUME NEW a \in Accounts
      PROVE  /\ f.delegated[a] = Given(f, a) + SumFunction(f.returning[a])
             /\ f.received[a] = Received(f, a)
  <2>1. /\ d.delegated[a] = Given(d, a) + SumFunction(d.returning[a])
        /\ d.received[a] = Received(d, a)
    BY DEF Sound, Balanced
  <2>2. Given(f, a) = Given(d, a) /\ Received(f, a) = Received(d, a)
    BY <1>6 DEF Given, Received
  <2>3. f.delegated[a] = d.delegated[a] - over[a]
    BY <1>6 DEF v
  <2>4. Given(d, a) \in Int
    <3> DEFINE g == [b \in Accounts |-> d.delegation[<<a, b>>]]
    <3>1. g \in [Accounts -> Int]
      BY DEF Ledger
    <3> HIDE DEF g
    <3>2. SumFunction(g) \in Int
      BY <3>1, Total
    <3> QED
      BY <3>2 DEF Given, g
  <2> QED
    BY <1>1, <1>7, <2>1, <2>2, <2>3, <2>4
<1>10. Sound(f, l)
  BY <1>8, <1>9 DEF Balanced
<1>11. Keeps(d, f) /\ Accepts(d, f)
  BY <1>5, SameKeeps DEF Accepts
<1> QED
  BY <1>5, <1>10, <1>11, AcceptedKept DEF f

\* What a block creates is in the supply: YANG of the fund, as much again as its
\* qi, and the reward of the siming as qi or as YANG.
LEMMA ProcessFundsKept ==
    ASSUME NEW d \in Ledger, NEW l, Sound(d, l), NEW t, NEW siming \in Simings
    PROVE  Kept(d, ProcessFunds(d, t, siming), l)
<1> DEFINE x == FundReward * QiPerYang
           y == SimingReward * QiPerYang
           fy == d.fund_yang + FundReward
           fq == d.fund_qi + x
           sp == d.supply + 2 * FundReward + SimingReward
           c == [d EXCEPT !.fund_yang = fy, !.fund_qi = fq, !.supply = sp]
           q == d.total_qi + d.pending_feigang + d.fund_qi + d.lost
           Done(e) == /\ e \in Ledger /\ (e.ok => d.ok)
                      /\ e.fund_yang = fy /\ e.fund_qi = fq
                      /\ e.supply = sp /\ e.lost = d.lost
                      /\ e.feigang = d.feigang /\ e.pending_feigang = d.pending_feigang
                      /\ SameDelegations(d, e) /\ SameWithdrawals(d, e)
                      /\ Keeps(d, e) /\ Accepts(d, e)
           Pays(e) == \/ /\ e.balance = d.balance
                         /\ e.qi = [d.qi EXCEPT ![siming] = d.qi[siming] + y]
                         /\ e.total_qi = d.total_qi + y
                      \/ /\ e.qi = d.qi /\ e.total_qi = d.total_qi
                         /\ e.balance = [d.balance EXCEPT
                                           ![siming] = d.balance[siming] + SimingReward]
<1>0. /\ FundReward \in Nat /\ SimingReward \in Nat /\ QiPerYang \in Nat \ {0}
      /\ siming \in Accounts
  BY QiLedgerAssumption, AccountTypes
<1>1. x \in Nat /\ y \in Nat
  BY <1>0
<1>2. fy \in Nat /\ fq \in Nat /\ sp \in Nat /\ q \in Int
  <2> HIDE DEF x
  <2> QED
    BY <1>0, <1>1 DEF Ledger
<1>3. ProcessFunds(d, t, siming) = IF t >= StartAdoring \/ d.qi[siming] = 0
                                   THEN CreateQi(c, siming, SimingReward)
                                   ELSE [c EXCEPT !.balance[siming] = @ + SimingReward]
  BY DEF ProcessFunds
<1> HIDE DEF fy, fq, sp
<1>4. /\ c \in Ledger /\ c.ok = d.ok /\ c.fund_yang = fy /\ c.fund_qi = fq
      /\ c.supply = sp /\ c.lost = d.lost
      /\ c.balance = d.balance /\ c.qi = d.qi /\ c.total_qi = d.total_qi
      /\ c.feigang = d.feigang /\ c.pending_feigang = d.pending_feigang
      /\ SameDelegations(d, c) /\ SameWithdrawals(d, c) /\ SameCount(d, c)
  BY <1>2 DEF Ledger, SameDelegations, SameWithdrawals, SameCount
<1> HIDE DEF c
<1> DEFINE e1 == CreateQi(c, siming, SimingReward)
           e2 == [c EXCEPT !.balance[siming] = @ + SimingReward]
<1>5. Done(e1) /\ Pays(e1)
  <2>1. Created(c, e1, siming, SimingReward)
    BY <1>0, <1>4, CreateQiDoes
  <2> HIDE DEF e1
  <2>2. Keeps(d, e1) /\ Accepts(d, e1)
    BY <1>4, <2>1, SameAccepts DEF Created
  <2> QED
    BY <1>4, <2>1, <2>2 DEF Created, SameYang, SameDelegations, SameWithdrawals
<1>6. Done(e2) /\ Pays(e2)
  <2> DEFINE b == [d.balance EXCEPT ![siming] = d.balance[siming] + SimingReward]
  <2>1. b \in [Accounts -> Int]
    BY <1>0 DEF Ledger
  <2>2. e2 = [c EXCEPT !.balance = b]
    BY <1>4
  <2>3. b = [d.balance EXCEPT ![siming] = d.balance[siming] + SimingReward]
    OBVIOUS
  <2> HIDE DEF b, e2
  <2>4. e2 \in Ledger
    BY <1>4, <2>1, <2>2 DEF Ledger
  <2>5. /\ e2.balance = b /\ e2.qi = c.qi /\ e2.total_qi = c.total_qi /\ e2.ok = c.ok
        /\ e2.fund_yang = fy /\ e2.fund_qi = fq /\ e2.supply = sp /\ e2.lost = d.lost
        /\ e2.feigang = c.feigang /\ e2.pending_feigang = c.pending_feigang
    BY <1>4, <2>1, <2>2 DEF Ledger
  <2>6. SameDelegations(c, e2) /\ SameWithdrawals(c, e2) /\ SameCount(c, e2)
    BY <1>4, <2>1, <2>2 DEF Ledger, SameDelegations, SameWithdrawals, SameCount
  <2>7. Keeps(d, e2) /\ Accepts(d, e2)
    <3>1. Keeps(c, e2) /\ Accepts(c, e2)
      BY <2>5, <2>6, SameKeeps DEF Accepts
    <3> QED
      BY <1>4, <3>1, SameAccepts
  <2> QED
    BY <1>4, <2>3, <2>4, <2>5, <2>6, <2>7 DEF SameDelegations, SameWithdrawals
<1> HIDE DEF e1, e2
<1>7. ASSUME NEW e, Done(e), Pays(e) PROVE Sound(e, l)
  <2>1. /\ d.qi \in [Accounts -> Nat] /\ d.balance \in [Accounts -> Nat]
        /\ d.feigang \in [Accounts -> Nat] /\ d.withdrawn \in [Accounts -> Nat]
    BY DEF Sound, Positive
  <2>2. d.qi \in [Accounts -> Int] /\ d.balance \in [Accounts -> Int]
    BY <2>1
  <2>3. /\ d.qi[siming] \in Nat /\ d.qi[siming] + y \in Nat
        /\ d.balance[siming] \in Nat /\ d.balance[siming] + SimingReward \in Nat
    <3> HIDE DEF y
    <3> QED
      BY <1>0, <1>1, <2>1
  <2>4. SumFunction(d.qi) \in Int /\ SumFunction(d.balance) \in Int
    BY <2>2, Total
  <2>5. SumFunction([d.qi EXCEPT ![siming] = d.qi[siming] + y]) = SumFunction(d.qi) + y
    <3> HIDE DEF y
    <3>1. d.qi[siming] + y \in Int
      BY <2>3
    <3>2. SumFunction([d.qi EXCEPT ![siming] = d.qi[siming] + y])
            = SumFunction(d.qi) + (d.qi[siming] + y) - d.qi[siming]
      BY <1>0, <2>2, <3>1, TotalUpdate
    <3> QED
      BY <1>1, <2>3, <2>4, <3>2
  <2>6. SumFunction([d.balance EXCEPT ![siming] = d.balance[siming] + SimingReward])
          = SumFunction(d.balance) + SimingReward
    <3>1. d.balance[siming] + SimingReward \in Int
      BY <2>3
    <3>2. SumFunction([d.balance EXCEPT ![siming] = d.balance[siming] + SimingReward])
            = SumFunction(d.balance) + (d.balance[siming] + SimingReward) - d.balance[siming]
      BY <1>0, <2>2, <3>1, TotalUpdate
    <3> QED
      BY <1>0, <2>3, <2>4, <3>2
  <2>7. Positive(e)
    <3>1. /\ [d.qi EXCEPT ![siming] = d.qi[siming] + y] \in [Accounts -> Nat]
          /\ [d.balance EXCEPT ![siming] = d.balance[siming] + SimingReward] \in [Accounts -> Nat]
      <4> HIDE DEF y
      <4> QED
        BY <2>1, <2>3
    <3>2. e.qi \in [Accounts -> Nat] /\ e.balance \in [Accounts -> Nat]
      <4> HIDE DEF y
      <4> QED
        BY <1>7, <2>1, <3>1
    <3> QED
      BY <1>7, <2>1, <3>2 DEF Positive, SameWithdrawals
  <2>8. /\ AsYang(q + FundReward * QiPerYang) = AsYang(q) + FundReward
        /\ AsYang(q) \in Int
    BY <1>0, <1>2, AsYangParts, AsYangType
  <2>9. AsYang(q + FundReward * QiPerYang + SimingReward * QiPerYang)
          = AsYang(q) + FundReward + SimingReward
    <3> DEFINE z == q + FundReward * QiPerYang
    <3>1. z \in Int
      <4> HIDE DEF q
      <4> QED
        BY <1>1, <1>2
    <3> HIDE DEF z
    <3>2. AsYang(z + SimingReward * QiPerYang) = AsYang(z) + SimingReward
      BY <1>0, <3>1, AsYangParts
    <3> QED
      BY <2>8, <3>2 DEF z
  <2>10. Worth(d) = SumFunction(d.balance) + d.fund_yang + AsYang(q) /\ Worth(d) = d.supply
    BY DEF Worth, Sound, Accounted
  <2>11. e.fund_yang = d.fund_yang + FundReward
         /\ e.supply = d.supply + 2 * FundReward + SimingReward
    BY <1>7 DEF fy, sp
  <2>12. d.fund_yang \in Nat /\ d.supply \in Nat
    BY DEF Ledger
  <2>13. SumFunction(d.qi) = d.total_qi /\ SumFunction(d.feigang) = d.pending_feigang
    BY DEF Sound, Accounted
  <2>14. e.total_qi = SumFunction(e.qi) /\ e.pending_feigang = SumFunction(e.feigang)
    <3> HIDE DEF y
    <3> QED
      BY <1>7, <2>5, <2>13
  <2>15. Worth(e) = e.supply
    <3>1. d.total_qi \in Int /\ d.pending_feigang \in Int /\ d.fund_qi \in Int /\ d.lost \in Int
      BY DEF Ledger
    <3>2. CASE /\ e.balance = d.balance
               /\ e.total_qi = d.total_qi + y
      <4>1. e.total_qi + e.pending_feigang + e.fund_qi + e.lost = q + x + y
        <5> HIDE DEF x, y
        <5> QED
          BY <1>1, <1>7, <3>1, <3>2 DEF fq
      <4> HIDE DEF q
      <4>2. Worth(e) = SumFunction(d.balance) + (d.fund_yang + FundReward)
                         + (AsYang(q) + FundReward + SimingReward)
        BY <2>9, <2>11, <3>2, <4>1 DEF Worth
      <4> QED
        BY <1>0, <2>4, <2>8, <2>10, <2>11, <2>12, <4>2
    <3>3. CASE /\ e.total_qi = d.total_qi
               /\ e.balance = [d.balance EXCEPT ![siming] = d.balance[siming] + SimingReward]
      <4>1. e.total_qi + e.pending_feigang + e.fund_qi + e.lost = q + x
        <5> HIDE DEF x, y
        <5> QED
          BY <1>1, <1>7, <3>1, <3>3 DEF fq
      <4> HIDE DEF q
      <4>2. Worth(e) = (SumFunction(d.balance) + SimingReward) + (d.fund_yang + FundReward)
                         + (AsYang(q) + FundReward)
        BY <2>6, <2>8, <2>11, <3>3, <4>1 DEF Worth
      <4> QED
        BY <1>0, <2>4, <2>8, <2>10, <2>11, <2>12, <4>2
    <3> QED
      BY <1>7, <3>2, <3>3
  <2>16. Balanced(e) /\ Bounded(e, l) /\ RoutesOK(e, l)
    BY <1>7, SameBalanced, SameBounded DEF Sound
  <2> QED
    BY <2>7, <2>14, <2>15, <2>16 DEF Sound, Accounted
<1>8. /\ ProcessFunds(d, t, siming) = e1 \/ ProcessFunds(d, t, siming) = e2
  BY <1>3 DEF e1, e2
<1>9. Sound(e1, l) /\ Sound(e2, l)
  <2> HIDE DEF Done, Pays
  <2> QED
    BY <1>5, <1>6, <1>7
<1>10. Kept(d, e1, l) /\ Kept(d, e2, l)
  BY <1>5, <1>6, <1>9, AcceptedKept DEF SameWithdrawals
<1> QED
  BY <1>8, <1>10

\* A fold ends with what every step keeps. k[s] is the fold over s.
LEMMA FoldKeeps ==
    ASSUME NEW S, IsFiniteSet(S), NEW k, NEW Good, k[{}] \in Good[{}],
           \A s \in SUBSET S :
              s # {} /\ k[s \ {Elem(s)}] \in Good[s \ {Elem(s)}] => k[s] \in Good[s]
    PROVE  k[S] \in Good[S]
<1> DEFINE T == {s \in SUBSET S : k[s] \in Good[s]}
<1>1. {} \in T
  OBVIOUS
<1>2. \A s \in SUBSET S : s # {} /\ s \ {Elem(s)} \in T => s \in T
  OBVIOUS
<1> HIDE DEF T
<1>3. S \in T
  BY <1>1, <1>2, SetInduction
<1> QED
  BY <1>3 DEF T

\* What a route is given of an amount.
ShareOf(amount) == [r \in Routes |-> Share(amount, r)]

LEMMA ShareType ==
    ASSUME NEW amount \in Int, NEW r \in Routes
    PROVE  /\ Share(amount, r) \in Int /\ ShareOf(amount)[r] = Share(amount, r)
           /\ amount >= 0 => Share(amount, r) >= 0
           /\ r.to \in Accounts /\ r.from \in Accounts
<1>1. Percent100 \in Nat \ {0}
  BY QiLedgerAssumption
<1>2. r.percent \in Nat /\ r.to \in Users /\ r.from \in Users
  BY <1>1 DEF Routes
<1> DEFINE p == r.percent
<1>3. p \in Nat
  BY <1>2
<1> HIDE DEF p
<1> DEFINE y == amount * p
<1>4. y \in Int /\ (amount >= 0 => y >= 0)
  BY <1>3
<1> HIDE DEF y
<1>5. y \div Percent100 \in Int /\ (y >= 0 => y \div Percent100 >= 0)
  BY <1>1, <1>4
<1>6. Share(amount, r) = y \div Percent100
  BY DEF Share, y, p
<1> QED
  BY <1>2, <1>4, <1>5, <1>6, AccountTypes DEF ShareOf

\* The routes that deposit qi. Qi is deposited in an account by its routes only.
VestAll(d, S, amount) ==
    FoldSet(LAMBDA r, e : DepositAsQi(e, r, Share(amount, r)), d, S)

Vested(d, v, S, amount) ==
    /\ v \in Ledger /\ (v.ok => d.ok) /\ (S = {} => v.ok = d.ok) /\ Keeps(d, v)
    /\ SumFunction(v.qi) = SumFunction(d.qi) + SumFunctionOnSet(ShareOf(amount), S)
    /\ \A b \in Accounts : /\ amount >= 0 => v.qi[b] >= d.qi[b]
                           /\ (\A r \in S : r.to # b) => v.qi[b] = d.qi[b]
    /\ v.total_qi = d.total_qi /\ v.fund_qi = d.fund_qi
    /\ v.feigang = d.feigang /\ v.pending_feigang = d.pending_feigang
    /\ SameYang(d, v) /\ SameDelegations(d, v) /\ SameWithdrawals(d, v)

LEMMA VestStep ==
    ASSUME NEW d \in Ledger, NEW S \in SUBSET Routes, IsFiniteSet(S), NEW amount \in Int,
           NEW r \in S, NEW v, Vested(d, v, S \ {r}, amount)
    PROVE  Vested(d, DepositAsQi(v, r, Share(amount, r)), S, amount)
<1> DEFINE x == Share(amount, r)
           b == r.to
           q == [v.qi EXCEPT ![b] = @ + x]
           c == [v EXCEPT !.qi = q]
           e == AdjustWeight(c, b, x)
<1>1. x \in Int /\ b \in Accounts /\ x = ShareOf(amount)[r] /\ (amount >= 0 => x >= 0)
  BY ShareType
<1>2. v \in Ledger /\ v.qi \in [Accounts -> Int] /\ d.qi \in [Accounts -> Int]
  BY DEF Vested, Ledger
<1>3. DepositAsQi(v, r, Share(amount, r)) = e
  BY DEF DepositAsQi
<1>4. SumFunctionOnSet(ShareOf(amount), S)
        = x + SumFunctionOnSet(ShareOf(amount), S \ {r})
      /\ SumFunctionOnSet(ShareOf(amount), S \ {r}) \in Int
  <2>1. \A y \in S : ShareOf(amount)[y] \in Int
    BY ShareType
  <2>2. IsFiniteSet(S \ {r}) /\ \A y \in S \ {r} : ShareOf(amount)[y] \in Int
    BY <2>1, FS_Subset
  <2>3. SumFunctionOnSet(ShareOf(amount), S \ {r}) \in Int
    BY <2>2, SumStep
  <2>4. SumFunctionOnSet(ShareOf(amount), S)
          = ShareOf(amount)[r] + SumFunctionOnSet(ShareOf(amount), S \ {r})
    BY <2>1, SumTakeOut
  <2> QED
    BY <1>1, <2>3, <2>4
<1> HIDE DEF x, b
<1>5. q \in [Accounts -> Int]
  BY <1>1, <1>2
<1>6. /\ SumFunction(q) = SumFunction(v.qi) + x /\ SumFunction(v.qi) \in Int
      /\ SumFunction(d.qi) \in Int
  <2>1. v.qi[b] \in Int /\ v.qi[b] + x \in Int
    BY <1>1, <1>2
  <2>2. SumFunction(q) = SumFunction(v.qi) + (v.qi[b] + x) - v.qi[b]
    BY <1>1, <1>2, <2>1, TotalUpdate
  <2>3. SumFunction(v.qi) \in Int /\ SumFunction(d.qi) \in Int
    BY <1>2, Total
  <2> HIDE DEF q
  <2> QED
    BY <1>1, <2>1, <2>2, <2>3
<1>7. /\ q = [v.qi EXCEPT ![b] = @ + x]
      /\ \A y \in Accounts : q[y] = IF y = b THEN v.qi[y] + x ELSE v.qi[y]
  BY <1>1, <1>2
<1> HIDE DEF q
<1>8. /\ c \in Ledger /\ c.qi = q /\ c.feigang = v.feigang /\ c.fund_qi = v.fund_qi
      /\ c.total_qi = v.total_qi /\ c.pending_feigang = v.pending_feigang /\ c.ok = v.ok
      /\ SameYang(v, c) /\ SameDelegations(v, c) /\ SameWithdrawals(v, c)
  BY <1>2, <1>5 DEF Ledger, SameYang, SameDelegations, SameWithdrawals
<1>8a. c.proxy = v.proxy /\ c.proxied = v.proxied /\ c.adored = v.adored /\ c.adores = v.adores
  BY <1>2, <1>5 DEF Ledger
<1> HIDE DEF c
<1>8b. Gains(v, c, b, x)
  BY <1>7, <1>8, <1>8a DEF Gains
<1>9. OnlyAdores(c, e)
  BY <1>1, <1>8, AdjustWeightKeeps
<1>9a. Keeps(v, e)
  BY <1>1, <1>2, <1>8b, GainCounted DEF Keeps
<1>9b. Keeps(d, e)
  <2>1. Keeps(d, v)
    BY DEF Vested
  <2> HIDE DEF e
  <2> QED
    BY <1>9a, <2>1, KeepsTransitive
<1> HIDE DEF e
<1>10. /\ e \in Ledger /\ e.qi = q /\ e.total_qi = d.total_qi /\ e.fund_qi = d.fund_qi
       /\ e.feigang = d.feigang /\ e.pending_feigang = d.pending_feigang /\ (e.ok => d.ok)
  BY <1>8, <1>9 DEF OnlyAdores, SameQi, Vested
<1>11. SameYang(d, e) /\ SameDelegations(d, e) /\ SameWithdrawals(d, e)
  BY <1>8, <1>9 DEF OnlyAdores, Vested, SameYang, SameDelegations, SameWithdrawals
<1>12. SumFunction(q) = SumFunction(d.qi) + SumFunctionOnSet(ShareOf(amount), S)
  <2>1. SumFunction(v.qi) = SumFunction(d.qi) + SumFunctionOnSet(ShareOf(amount), S \ {r})
    BY DEF Vested
  <2> QED
    BY <1>1, <1>4, <1>6, <2>1
<1>13. ASSUME NEW y \in Accounts
       PROVE  /\ amount >= 0 => q[y] >= d.qi[y]
              /\ (\A z \in S : z.to # y) => q[y] = d.qi[y]
  <2>1. /\ amount >= 0 => v.qi[y] >= d.qi[y]
        /\ (\A z \in S \ {r} : z.to # y) => v.qi[y] = d.qi[y]
    BY DEF Vested
  <2>2. v.qi[y] \in Int /\ d.qi[y] \in Int
    BY <1>2
  <2>3. (\A z \in S : z.to # y) => y # b
    BY DEF b
  <2> QED
    BY <1>1, <1>7, <2>1, <2>2, <2>3
<1>14. Vested(d, e, S, amount)
  BY <1>9b, <1>10, <1>11, <1>12, <1>13 DEF Vested
<1> QED
  BY <1>3, <1>14

LEMMA VestAllDoes ==
    ASSUME NEW d \in Ledger, NEW S \in SUBSET Routes, IsFiniteSet(S), NEW amount \in Int
    PROVE  Vested(d, VestAll(d, S, amount), S, amount)
<1> DEFINE op(r, e) == DepositAsQi(e, r, Share(amount, r))
           step == [p \in S \X Ledger |-> op(p[1], p[2])]
           Good == [s \in SUBSET S |-> {e \in Ledger : Vested(d, e, s, amount)}]
           Iter(k) == k = [s \in SUBSET S |->
                             IF s = {} THEN d ELSE op(Elem(s), k[s \ {Elem(s)}])]
<1>1. \A s \in SUBSET S : s # {} => Elem(s) \in s /\ s \ {Elem(s)} \in SUBSET S
  BY DEF Elem
<1>2. ASSUME NEW s \in SUBSET S, s # {}, NEW e \in Good[s \ {Elem(s)}]
      PROVE  op(Elem(s), e) \in Good[s]
  <2>1. s \in SUBSET Routes /\ IsFiniteSet(s) /\ Elem(s) \in s
    BY <1>1, <1>2, FS_Subset
  <2>2. Vested(d, e, s \ {Elem(s)}, amount)
    BY <1>1, <1>2
  <2>3. Vested(d, op(Elem(s), e), s, amount)
    BY <2>1, <2>2, VestStep
  <2> HIDE DEF op
  <2>4. op(Elem(s), e) \in Ledger
    BY <2>3 DEF Vested
  <2> QED
    BY <2>3, <2>4
<1>3. d \in Good[{}]
  <2>1. SumFunctionOnSet(ShareOf(amount), {}) = 0
    BY FS_EmptySet, SumZero
  <2>2. SumFunction(d.qi) \in Int /\ d.qi \in [Accounts -> Int]
    BY Total DEF Ledger
  <2>3. \A b \in Accounts : d.qi[b] >= d.qi[b]
    BY <2>2
  <2>4. SumFunction(d.qi) = SumFunction(d.qi) + SumFunctionOnSet(ShareOf(amount), {})
    BY <2>1, <2>2
  <2>5. Vested(d, d, {}, amount)
    BY <2>3, <2>4 DEF Vested, SameYang, SameDelegations, SameWithdrawals, Keeps
  <2> QED
    BY <2>5
<1>4. \A s \in SUBSET S : Good[s] \subseteq Ledger
  OBVIOUS
<1>5. \A r \in S, e \in Ledger : step[<<r, e>>] = op(r, e)
  <2> HIDE DEF op
  <2> QED
    OBVIOUS
<1> HIDE DEF op, step, Good
<1>6. Foldable(S, Ledger, d, step, Good)
  BY <1>1, <1>2, <1>3, <1>4, <1>5 DEF Foldable
<1>7. PICK h : Folded(h, S, Ledger, d, step, Good)
  BY <1>6, FoldExists
<1>8. Iter(h)
  <2>1. h \in [SUBSET S -> Ledger]
    BY <1>7 DEF Folded
  <2>2. ASSUME NEW s \in SUBSET S
        PROVE  h[s] = IF s = {} THEN d ELSE op(Elem(s), h[s \ {Elem(s)}])
    <3>1. h[s] = IF s = {} THEN d ELSE step[<<Elem(s), h[s \ {Elem(s)}]>>]
      BY <1>7 DEF Folded
    <3> QED
      BY <1>1, <1>5, <2>1, <3>1
  <2> QED
    BY <2>1, <2>2
<1> HIDE DEF Iter
<1>9. PICK k : Iter(k) /\ VestAll(d, S, amount) = k[S]
  <2>1. VestAll(d, S, amount) = (CHOOSE k : Iter(k))[S]
    BY DEF Iter, op, Elem, VestAll, FoldSet, MapThenFoldSet
  <2> QED
    BY <1>8, <2>1
<1>10. k[S] \in Good[S]
  <2>1. \A s \in SUBSET S : k[s] = IF s = {} THEN d ELSE op(Elem(s), k[s \ {Elem(s)}])
    BY <1>9 DEF Iter
  <2>2. k[{}] \in Good[{}]
    BY <1>3, <2>1
  <2>3. \A s \in SUBSET S :
           s # {} /\ k[s \ {Elem(s)}] \in Good[s \ {Elem(s)}] => k[s] \in Good[s]
    BY <1>2, <2>1
  <2> QED
    BY <2>2, <2>3, FoldKeeps
<1> QED
  BY <1>9, <1>10 DEF Good

\* The routes that deposit YANG: qi leaves the total, and with what the divisions
\* drop the balances gain what it is worth.
LiquidAll(d, S, amount) ==
    FoldSet(LAMBDA r, e : DepositAsYang(e, r, Share(amount, r)), d, S)

WorthWith(d, c) == SumFunction(d.balance) + AsYang(d.total_qi + d.lost + c)

Liquid(d, v, S, amount) ==
    /\ v \in Ledger /\ v.ok = d.ok /\ SameCount(d, v)
    /\ v.total_qi = d.total_qi - SumFunctionOnSet(ShareOf(amount), S)
    /\ \A c \in Int : WorthWith(v, c) = WorthWith(d, c)
    /\ amount >= 0 => \A b \in Accounts : v.balance[b] >= d.balance[b]
    /\ v.qi = d.qi /\ v.feigang = d.feigang /\ v.pending_feigang = d.pending_feigang
    /\ v.fund_qi = d.fund_qi /\ v.fund_yang = d.fund_yang /\ v.supply = d.supply
    /\ SameDelegations(d, v) /\ SameWithdrawals(d, v)

\* Qi that leaves the total and comes into a balance as YANG.
LEMMA WorthMoved ==
    ASSUME NEW d \in Ledger, NEW e \in Ledger, NEW b \in Accounts, NEW x \in Int, NEW c \in Int,
           e.balance = [d.balance EXCEPT ![b] = d.balance[b] + AsYang(x)],
           e.lost = d.lost + Dropped(x), e.total_qi = d.total_qi - x
    PROVE  WorthWith(e, c) = WorthWith(d, c)
<1>1. /\ d.balance \in [Accounts -> Int] /\ d.balance[b] \in Int
      /\ d.total_qi \in Int /\ d.lost \in Int
  BY DEF Ledger
<1>2. AsYang(x) \in Int /\ Dropped(x) \in Int
  BY AsYangType, AsYangRest
<1> DEFINE s == SumFunction(d.balance)
           m == d.total_qi - x + d.lost + c
<1>3. s \in Int
  BY <1>1, Total
<1>4. SumFunction(e.balance) = s + AsYang(x)
  <2>1. d.balance[b] + AsYang(x) \in Int
    BY <1>1, <1>2
  <2>2. SumFunction(e.balance) = s + (d.balance[b] + AsYang(x)) - d.balance[b]
    BY <1>1, <2>1, TotalUpdate
  <2> HIDE DEF s
  <2> QED
    BY <1>1, <1>2, <1>3, <2>2
<1>5. /\ m \in Int /\ d.total_qi + d.lost + c = m + x
      /\ e.total_qi + e.lost + c = m + Dropped(x)
  BY <1>1, <1>2
<1> HIDE DEF s, m
<1>6. AsYang(m + Dropped(x)) = AsYang(m + x) - AsYang(x) /\ AsYang(m + x) \in Int
  <2>1. m + x \in Int
    BY <1>5
  <2> QED
    BY <1>5, <2>1, AsYangRest, AsYangType
<1>7. /\ WorthWith(e, c) = (s + AsYang(x)) + AsYang(m + Dropped(x))
      /\ WorthWith(d, c) = s + AsYang(m + x)
  BY <1>4, <1>5 DEF WorthWith, s
<1> QED
  BY <1>2, <1>3, <1>6, <1>7

LEMMA LiquidStep ==
    ASSUME NEW d \in Ledger, NEW S \in SUBSET Routes, IsFiniteSet(S), NEW amount \in Int,
           NEW r \in S, NEW v, Liquid(d, v, S \ {r}, amount)
    PROVE  Liquid(d, DepositAsYang(v, r, Share(amount, r)), S, amount)
<1> DEFINE x == Share(amount, r)
           b == r.to
           q == [v.balance EXCEPT ![b] = v.balance[b] + AsYang(x)]
           n == v.total_qi - x
           h == v.lost + Dropped(x)
           e == [v EXCEPT !.balance = q, !.lost = h, !.total_qi = n]
<1>1. x \in Int /\ b \in Accounts /\ x = ShareOf(amount)[r] /\ (amount >= 0 => x >= 0)
  BY ShareType
<1>2. /\ v \in Ledger /\ v.balance \in [Accounts -> Int] /\ d.balance \in [Accounts -> Int]
      /\ v.total_qi \in Int /\ d.total_qi \in Int /\ v.lost \in Nat
  BY DEF Liquid, Ledger
<1>3. DepositAsYang(v, r, Share(amount, r)) = e
  <2> HIDE DEF x
  <2>1. [v EXCEPT !.balance[b] = @ + AsYang(x), !.lost = @ + Dropped(x),
                  !.total_qi = @ - x] = e
    BY <1>2 DEF Ledger
  <2> HIDE DEF e, b
  <2> QED
    BY <2>1 DEF DepositAsYang, x, b
<1>4. SumFunctionOnSet(ShareOf(amount), S)
        = x + SumFunctionOnSet(ShareOf(amount), S \ {r})
      /\ SumFunctionOnSet(ShareOf(amount), S \ {r}) \in Int
  <2>1. \A y \in S : ShareOf(amount)[y] \in Int
    BY ShareType
  <2>2. IsFiniteSet(S \ {r}) /\ \A y \in S \ {r} : ShareOf(amount)[y] \in Int
    BY <2>1, FS_Subset
  <2>3. SumFunctionOnSet(ShareOf(amount), S \ {r}) \in Int
    BY <2>2, SumStep
  <2>4. SumFunctionOnSet(ShareOf(amount), S)
          = ShareOf(amount)[r] + SumFunctionOnSet(ShareOf(amount), S \ {r})
    BY <2>1, SumTakeOut
  <2> QED
    BY <1>1, <2>3, <2>4
<1> HIDE DEF x, b
<1>5. AsYang(x) \in Int /\ (x >= 0 => AsYang(x) >= 0) /\ Dropped(x) \in Nat
  BY <1>1, AsYangType, AsYangRest
<1>6. /\ q \in [Accounts -> Int] /\ n \in Int /\ h \in Nat
      /\ \A y \in Accounts : q[y] = IF y = b THEN v.balance[y] + AsYang(x) ELSE v.balance[y]
  BY <1>1, <1>2, <1>5
<1>7. /\ q = [v.balance EXCEPT ![b] = v.balance[b] + AsYang(x)]
      /\ n = v.total_qi - x /\ h = v.lost + Dropped(x)
  OBVIOUS
<1> HIDE DEF q, n, h
<1>8. e \in Ledger
  BY <1>2, <1>6 DEF Ledger
<1>9. /\ e.balance = q /\ e.total_qi = n /\ e.lost = h /\ e.qi = v.qi /\ e.feigang = v.feigang
      /\ e.fund_qi = v.fund_qi /\ e.pending_feigang = v.pending_feigang /\ e.ok = v.ok
      /\ e.fund_yang = v.fund_yang /\ e.supply = v.supply
      /\ SameDelegations(v, e) /\ SameWithdrawals(v, e)
  BY <1>2, <1>6 DEF Ledger, SameDelegations, SameWithdrawals
<1>9a. SameCount(v, e)
  BY <1>2, <1>6 DEF Ledger, SameCount
<1> HIDE DEF e
<1>9b. SameCount(d, e)
  BY <1>9a DEF Liquid, SameCount
<1>10. /\ e.qi = d.qi /\ e.fund_yang = d.fund_yang /\ e.fund_qi = d.fund_qi
       /\ e.feigang = d.feigang /\ e.pending_feigang = d.pending_feigang /\ e.ok = d.ok
       /\ e.supply = d.supply /\ SameDelegations(d, e) /\ SameWithdrawals(d, e)
  BY <1>9 DEF Liquid, SameDelegations, SameWithdrawals
<1>11. e.total_qi = d.total_qi - SumFunctionOnSet(ShareOf(amount), S)
  <2>1. v.total_qi = d.total_qi - SumFunctionOnSet(ShareOf(amount), S \ {r})
    BY DEF Liquid
  <2> QED
    BY <1>1, <1>2, <1>4, <1>7, <1>9, <2>1
<1>12. ASSUME NEW c \in Int PROVE WorthWith(e, c) = WorthWith(d, c)
  <2>1. /\ e.balance = [v.balance EXCEPT ![b] = v.balance[b] + AsYang(x)]
        /\ e.lost = v.lost + Dropped(x) /\ e.total_qi = v.total_qi - x
    BY <1>7, <1>9
  <2>2. WorthWith(e, c) = WorthWith(v, c)
    BY <1>1, <1>2, <1>8, <2>1, WorthMoved
  <2> QED
    BY <2>2 DEF Liquid
<1>13. ASSUME amount >= 0, NEW y \in Accounts PROVE e.balance[y] >= d.balance[y]
  <2>1. v.balance[y] >= d.balance[y] /\ v.balance[y] \in Int /\ d.balance[y] \in Int
    BY <1>2, <1>13 DEF Liquid
  <2> QED
    BY <1>1, <1>5, <1>6, <1>9, <1>13, <2>1
<1>14. Liquid(d, e, S, amount)
  BY <1>8, <1>9b, <1>10, <1>11, <1>12, <1>13 DEF Liquid
<1> QED
  BY <1>3, <1>14

LEMMA LiquidAllDoes ==
    ASSUME NEW d \in Ledger, NEW S \in SUBSET Routes, IsFiniteSet(S), NEW amount \in Int
    PROVE  Liquid(d, LiquidAll(d, S, amount), S, amount)
<1> DEFINE op(r, e) == DepositAsYang(e, r, Share(amount, r))
           step == [p \in S \X Ledger |-> op(p[1], p[2])]
           Good == [s \in SUBSET S |-> {e \in Ledger : Liquid(d, e, s, amount)}]
           Iter(k) == k = [s \in SUBSET S |->
                             IF s = {} THEN d ELSE op(Elem(s), k[s \ {Elem(s)}])]
<1>1. \A s \in SUBSET S : s # {} => Elem(s) \in s /\ s \ {Elem(s)} \in SUBSET S
  BY DEF Elem
<1>2. ASSUME NEW s \in SUBSET S, s # {}, NEW e \in Good[s \ {Elem(s)}]
      PROVE  op(Elem(s), e) \in Good[s]
  <2>1. s \in SUBSET Routes /\ IsFiniteSet(s) /\ Elem(s) \in s
    BY <1>1, <1>2, FS_Subset
  <2>2. Liquid(d, e, s \ {Elem(s)}, amount)
    BY <1>1, <1>2
  <2>3. Liquid(d, op(Elem(s), e), s, amount)
    BY <2>1, <2>2, LiquidStep
  <2> HIDE DEF op
  <2>4. op(Elem(s), e) \in Ledger
    BY <2>3 DEF Liquid
  <2> QED
    BY <2>3, <2>4
<1>3. d \in Good[{}]
  <2>1. SumFunctionOnSet(ShareOf(amount), {}) = 0
    BY FS_EmptySet, SumZero
  <2>2. d.balance \in [Accounts -> Int] /\ d.total_qi \in Int
    BY DEF Ledger
  <2>3. d.total_qi = d.total_qi - SumFunctionOnSet(ShareOf(amount), {})
    BY <2>1, <2>2
  <2>4. \A b \in Accounts : d.balance[b] >= d.balance[b]
    BY <2>2
  <2>5. Liquid(d, d, {}, amount)
    BY <2>3, <2>4 DEF Liquid, SameDelegations, SameWithdrawals, SameCount
  <2> QED
    BY <2>5
<1>4. \A s \in SUBSET S : Good[s] \subseteq Ledger
  OBVIOUS
<1>5. \A r \in S, e \in Ledger : step[<<r, e>>] = op(r, e)
  <2> HIDE DEF op
  <2> QED
    OBVIOUS
<1> HIDE DEF op, step, Good
<1>6. Foldable(S, Ledger, d, step, Good)
  BY <1>1, <1>2, <1>3, <1>4, <1>5 DEF Foldable
<1>7. PICK h : Folded(h, S, Ledger, d, step, Good)
  BY <1>6, FoldExists
<1>8. Iter(h)
  <2>1. h \in [SUBSET S -> Ledger]
    BY <1>7 DEF Folded
  <2>2. ASSUME NEW s \in SUBSET S
        PROVE  h[s] = IF s = {} THEN d ELSE op(Elem(s), h[s \ {Elem(s)}])
    <3>1. h[s] = IF s = {} THEN d ELSE step[<<Elem(s), h[s \ {Elem(s)}]>>]
      BY <1>7 DEF Folded
    <3> QED
      BY <1>1, <1>5, <2>1, <3>1
  <2> QED
    BY <2>1, <2>2
<1> HIDE DEF Iter
<1>9. PICK k : Iter(k) /\ LiquidAll(d, S, amount) = k[S]
  <2>1. LiquidAll(d, S, amount) = (CHOOSE k : Iter(k))[S]
    BY DEF Iter, op, Elem, LiquidAll, FoldSet, MapThenFoldSet
  <2> QED
    BY <1>8, <2>1
<1>10. k[S] \in Good[S]
  <2>1. \A s \in SUBSET S : k[s] = IF s = {} THEN d ELSE op(Elem(s), k[s \ {Elem(s)}])
    BY <1>9 DEF Iter
  <2>2. k[{}] \in Good[{}]
    BY <1>3, <2>1
  <2>3. \A s \in SUBSET S :
           s # {} /\ k[s \ {Elem(s)}] \in Good[s \ {Elem(s)}] => k[s] \in Good[s]
    BY <1>2, <2>1
  <2> QED
    BY <2>2, <2>3, FoldKeeps
<1> QED
  BY <1>9, <1>10 DEF Good

\* What is due to an account, what its routes take of it, and what is left.
AmountDue(d, a) ==
    LET left == d.to_withdraw[a] - d.withdrawn[a]
    IN  SmallerOf(d.qi[a], IF left < d.rate[a] THEN d.to_withdraw[a] % d.rate[a] ELSE d.rate[a])

Mine(d, a) == {r \in d.routes : r.from = a}
Vesting(d, a) == {r \in Mine(d, a) : r.auto_vest /\ Share(AmountDue(d, a), r) > 0}
Paying(d, a) == {r \in Mine(d, a) : ~r.auto_vest}
RestDue(d, a) ==
    AmountDue(d, a) - SumFunction([r \in Mine(d, a) |-> Share(AmountDue(d, a), r)])

LEMMA AmountDueType ==
    ASSUME NEW d \in Ledger, NEW a \in Accounts, d.rate[a] # 0
    PROVE  /\ AmountDue(d, a) \in Int /\ AmountDue(d, a) <= d.qi[a]
           /\ d.qi[a] >= 0 => AmountDue(d, a) >= 0
           /\ AmountDue(d, a) <= d.rate[a]
           /\ d.to_withdraw[a] - d.withdrawn[a] < d.rate[a] =>
                AmountDue(d, a) <= d.to_withdraw[a] % d.rate[a]
           /\ \/ AmountDue(d, a) = d.qi[a]
              \/ /\ d.to_withdraw[a] - d.withdrawn[a] < d.rate[a]
                 /\ AmountDue(d, a) = d.to_withdraw[a] % d.rate[a]
              \/ /\ d.to_withdraw[a] - d.withdrawn[a] >= d.rate[a]
                 /\ AmountDue(d, a) = d.rate[a]
<1> DEFINE x == d.to_withdraw[a]
           q == d.qi[a]
           m == d.rate[a]
           w == d.withdrawn[a]
<1>1. x \in Nat /\ q \in Int /\ m \in Nat \ {0} /\ w \in Int
  BY DEF Ledger
<1>2. AmountDue(d, a) = SmallerOf(q, IF x - w < m THEN x % m ELSE m)
  BY DEF AmountDue
<1> HIDE DEF x, q, m, w
<1>3. x % m \in Nat /\ x % m < m
  BY <1>1
<1> DEFINE y == x % m
<1> HIDE DEF y
<1>4. /\ SmallerOf(q, IF x - w < m THEN y ELSE m) \in Int
      /\ SmallerOf(q, IF x - w < m THEN y ELSE m) <= q
      /\ q >= 0 => SmallerOf(q, IF x - w < m THEN y ELSE m) >= 0
      /\ SmallerOf(q, IF x - w < m THEN y ELSE m) <= m
      /\ x - w < m => SmallerOf(q, IF x - w < m THEN y ELSE m) <= y
      /\ \/ SmallerOf(q, IF x - w < m THEN y ELSE m) = q
         \/ x - w < m /\ SmallerOf(q, IF x - w < m THEN y ELSE m) = y
         \/ x - w >= m /\ SmallerOf(q, IF x - w < m THEN y ELSE m) = m
  BY <1>1, <1>3 DEF SmallerOf, y
<1> QED
  BY <1>2, <1>4 DEF x, q, m, w, y

LEMMA RoutesType ==
    ASSUME NEW d \in Ledger, IsFiniteSet(d.routes), NEW a \in Accounts, d.rate[a] # 0
    PROVE  /\ Mine(d, a) \in SUBSET Routes /\ IsFiniteSet(Mine(d, a))
           /\ Vesting(d, a) \in SUBSET Routes /\ IsFiniteSet(Vesting(d, a))
           /\ Paying(d, a) \in SUBSET Routes /\ IsFiniteSet(Paying(d, a))
           /\ RestDue(d, a) = AmountDue(d, a)
                - SumFunctionOnSet(ShareOf(AmountDue(d, a)), Mine(d, a))
           /\ RestDue(d, a) \in Int
           /\ SumFunctionOnSet(ShareOf(AmountDue(d, a)), Mine(d, a)) \in Int
<1> DEFINE x == AmountDue(d, a)
           M == Mine(d, a)
<1>1. d.routes \in SUBSET Routes /\ x \in Int
  BY AmountDueType DEF Ledger
<1>2. M \in SUBSET Routes /\ IsFiniteSet(M)
  <2>1. M \in SUBSET d.routes
    BY DEF Mine
  <2> HIDE DEF M
  <2> QED
    BY <1>1, <2>1, FS_Subset
<1>3. Vesting(d, a) \in SUBSET M /\ Paying(d, a) \in SUBSET M
  BY DEF Vesting, Paying
<1> HIDE DEF x, M
<1>4. /\ Vesting(d, a) \in SUBSET Routes /\ IsFiniteSet(Vesting(d, a))
      /\ Paying(d, a) \in SUBSET Routes /\ IsFiniteSet(Paying(d, a))
  BY <1>2, <1>3, FS_Subset
<1> DEFINE f == [r \in M |-> Share(x, r)]
<1>5. \A r \in M : f[r] \in Int /\ f[r] = ShareOf(x)[r]
  BY <1>1, <1>2, ShareType
<1>6. SumFunction(f) = SumFunctionOnSet(f, M)
  BY DEF SumFunction
<1>7. RestDue(d, a) = x - SumFunction(f)
  BY DEF RestDue, x, M
<1> HIDE DEF f
<1>8. SumFunctionOnSet(f, M) = SumFunctionOnSet(ShareOf(x), M)
  BY <1>2, <1>5, SumSame
<1>9. SumFunctionOnSet(f, M) \in Int
  BY <1>2, <1>5, SumStep
<1> QED
  BY <1>1, <1>2, <1>4, <1>6, <1>7, <1>8, <1>9 DEF x, M

LEMMA SumScaled ==
    ASSUME NEW S, IsFiniteSet(S), NEW f, NEW g, NEW c \in Int,
           \A x \in S : f[x] \in Int /\ g[x] = c * f[x]
    PROVE  SumFunctionOnSet(g, S) = c * SumFunctionOnSet(f, S)
<1> DEFINE T == {s \in SUBSET S : SumFunctionOnSet(g, s) = c * SumFunctionOnSet(f, s)}
<1>1. \A x \in S : g[x] \in Int
  OBVIOUS
<1>2. {} \in T
  <2>1. SumFunctionOnSet(g, {}) = 0 /\ SumFunctionOnSet(f, {}) = 0
    BY FS_EmptySet, SumZero
  <2> QED
    BY <2>1
<1>3. ASSUME NEW s \in SUBSET S, s # {}, s \ {Elem(s)} \in T PROVE s \in T
  <2>1. IsFiniteSet(s) /\ IsFiniteSet(s \ {Elem(s)}) /\ Elem(s) \in S
    BY <1>3, FS_Subset DEF Elem
  <2> DEFINE x == SumFunctionOnSet(f, s \ {Elem(s)})
  <2>2. SumFunctionOnSet(f, s) = f[Elem(s)] + x /\ x \in Int
    BY <1>3, <2>1, SumStep
  <2>3. SumFunctionOnSet(g, s) = g[Elem(s)] + SumFunctionOnSet(g, s \ {Elem(s)})
    BY <1>1, <1>3, <2>1, SumStep
  <2>4. SumFunctionOnSet(g, s \ {Elem(s)}) = c * x
    BY <1>3
  <2> HIDE DEF x
  <2>5. f[Elem(s)] \in Int /\ g[Elem(s)] = c * f[Elem(s)]
    BY <2>1
  <2>6. SumFunctionOnSet(g, s) = c * SumFunctionOnSet(f, s)
    BY <2>2, <2>3, <2>4, <2>5
  <2> QED
    BY <2>6
<1> HIDE DEF T
<1>4. S \in T
  BY <1>2, <1>3, SetInduction
<1> QED
  BY <1>4 DEF T

LEMMA SmallerParts ==
    ASSUME NEW p \in Nat \ {0}, NEW x \in Int, NEW y \in Int, p * x <= y * p
    PROVE  x <= y
OBVIOUS

\* Routes that take no more than everything leave no less than nothing.
LEMMA RestLeft ==
    ASSUME NEW d \in Ledger, NEW l, RoutesOK(d, l), NEW a \in Accounts, d.rate[a] # 0,
           d.qi[a] >= 0
    PROVE  RestDue(d, a) >= 0
<1> DEFINE x == AmountDue(d, a)
           M == Mine(d, a)
           P == Percent100
           f == ShareOf(x)
           g == [r \in M |-> r.percent]
           u == [r \in M |-> P * f[r]]
           w == [r \in M |-> x * g[r]]
           all == SumFunctionOnSet(f, M)
<1>1. x \in Nat /\ IsFiniteSet(M) /\ M \in SUBSET Routes /\ RestDue(d, a) = x - all /\ all \in Int
  BY AmountDueType, RoutesType DEF RoutesOK
<1>2. P \in Nat \ {0}
  BY QiLedgerAssumption
<1> HIDE DEF x, M, P
<1>3. ASSUME NEW r \in M
      PROVE  /\ g[r] \in Int /\ f[r] \in Int /\ u[r] = P * f[r] /\ w[r] = x * g[r]
             /\ u[r] \in Int /\ w[r] \in Int /\ u[r] <= w[r]
  <2> DEFINE p == r.percent
             y == x * p
  <2>1. r \in Routes /\ p \in Int
    BY <1>1 DEF Routes
  <2>2. f[r] = Share(x, r) /\ f[r] \in Int
    BY <1>1, <2>1, ShareType
  <2>3. y \in Int
    <3> HIDE DEF p
    <3> QED
      BY <1>1, <2>1
  <2>4. f[r] = y \div P
    BY <2>2 DEF Share, P
  <2> HIDE DEF f
  <2>5. u[r] = P * f[r] /\ g[r] = p /\ w[r] = y
    OBVIOUS
  <2> HIDE DEF p, y, u, w, g
  <2>6. P * (y \div P) <= y /\ y \div P \in Int
    BY <1>2, <2>3
  <2>7. P * f[r] \in Int /\ P * f[r] <= y
    BY <1>2, <2>2, <2>4, <2>6
  <2> QED
    BY <2>1, <2>2, <2>3, <2>5, <2>7 DEF y
<1>4. SumFunction(g) = SumFunctionOnSet(g, M) /\ SumFunction(g) <= P
  <2>1. Granted(d, a) <= P /\ Granted(d, a) = SumFunction(g)
    BY DEF RoutesOK, Granted, P, M, Mine
  <2>2. SumFunction(g) = SumFunctionOnSet(g, M)
    BY DEF SumFunction
  <2> QED
    BY <2>1, <2>2
<1> HIDE DEF f, g, u, w
<1>5. SumFunctionOnSet(g, M) \in Int
  BY <1>1, <1>3, SumStep
<1>6. SumFunctionOnSet(u, M) = P * all
  <2>1. P \in Int
    BY <1>2
  <2> QED
    BY <1>1, <1>3, <2>1, SumScaled
<1>7. SumFunctionOnSet(w, M) = x * SumFunctionOnSet(g, M)
  <2>1. x \in Int
    BY <1>1
  <2> QED
    BY <1>1, <1>3, <2>1, SumScaled
<1>8. SumFunctionOnSet(u, M) <= SumFunctionOnSet(w, M)
  BY <1>1, <1>3, SumLeq
<1> DEFINE n == SumFunctionOnSet(g, M)
<1> HIDE DEF all, n
<1>9. x * n <= x * P
  BY <1>1, <1>2, <1>4, <1>5 DEF n
<1>10. P * all <= x * P
  <2>1. P * all <= x * n
    BY <1>6, <1>7, <1>8 DEF n
  <2>2. P * all \in Int /\ x * n \in Int /\ x * P \in Int
    BY <1>1, <1>2, <1>5 DEF n
  <2> QED
    BY <1>9, <2>1, <2>2
<1>11. all <= x
  BY <1>1, <1>2, <1>10, SmallerParts
<1> QED
  BY <1>1, <1>11

\* One withdrawal: v when qi is deposited, z when YANG is, e when it is over.
Withdrawn(d, v, z, e, a) ==
    /\ Vested(d, v, Vesting(d, a), AmountDue(d, a))
    /\ Liquid(v, z, Paying(d, a), AmountDue(d, a))
    /\ e \in Ledger /\ (e.ok => z.ok) /\ Keeps(z, e) /\ Accepts(z, e)
    /\ RestDue(d, a) >= 0
    /\ e.qi = [z.qi EXCEPT ![a] = z.qi[a] - AmountDue(d, a)]
    /\ e.balance = [z.balance EXCEPT ![a] = z.balance[a] + AsYang(RestDue(d, a))]
    /\ e.withdrawn = [d.withdrawn EXCEPT ![a] = d.withdrawn[a] + AmountDue(d, a)]
    /\ e.total_qi = z.total_qi - RestDue(d, a)
    /\ e.lost = z.lost + Dropped(RestDue(d, a))
    /\ LET done == \/ d.withdrawn[a] + AmountDue(d, a) >= d.to_withdraw[a]
                   \/ z.qi[a] - AmountDue(d, a) = 0
       IN  /\ e.rate = [d.rate EXCEPT ![a] = IF done THEN 0 ELSE d.rate[a]]
           /\ e.next = [d.next EXCEPT ![a] =
                          IF done THEN Never ELSE d.next[a] + WithdrawInterval]
    /\ e.to_withdraw = d.to_withdraw /\ e.routes = d.routes
    /\ e.feigang = d.feigang /\ e.pending_feigang = d.pending_feigang
    /\ e.fund_qi = d.fund_qi /\ e.fund_yang = d.fund_yang /\ e.supply = d.supply
    /\ SameDelegations(d, e)

LEMMA WithdrawDoes ==
    ASSUME NEW d \in Ledger, IsFiniteSet(d.routes), NEW a \in Accounts, d.rate[a] # 0,
           d.next[a] \in 0 .. MaxBlocks + 1, d.qi[a] >= 0, RestDue(d, a) >= 0
    PROVE  \E v, z : Withdrawn(d, v, z, Withdraw(d, a), a)
<1> DEFINE x == AmountDue(d, a)
           v == VestAll(d, Vesting(d, a), x)
           z == LiquidAll(v, Paying(d, a), x)
           rest == RestDue(d, a)
           kept == z.qi[a] - x
           done == d.withdrawn[a] + x >= d.to_withdraw[a] \/ kept = 0
           paid == z.balance[a] + AsYang(rest)
           sum == z.withdrawn[a] + x
           rate == IF done THEN 0 ELSE z.rate[a]
           next == IF done THEN Never ELSE z.next[a] + WithdrawInterval
           total == z.total_qi - rest
           lost == z.lost + Dropped(rest)
           o == z.ok /\ rest >= 0
           Q == [z.qi EXCEPT ![a] = kept]
           B == [z.balance EXCEPT ![a] = paid]
           W == [z.withdrawn EXCEPT ![a] = sum]
           R == [z.rate EXCEPT ![a] = rate]
           N == [z.next EXCEPT ![a] = next]
           c == [z EXCEPT !.qi = Q, !.balance = B, !.lost = lost, !.withdrawn = W,
                          !.rate = R, !.next = N, !.total_qi = total, !.ok = o]
           e == IF x > 0 THEN AdjustWeight(c, a, -x) ELSE c
<1>1. x \in Int /\ x >= 0 /\ rest \in Int /\ rest >= 0
  BY AmountDueType, RoutesType
<1>2. Vested(d, v, Vesting(d, a), x)
  BY <1>1, RoutesType, VestAllDoes
<1>3. Withdraw(d, a) = e
  <2> DEFINE closed == [z EXCEPT !.qi[a] = kept,
                                 !.balance[a] = @ + AsYang(rest),
                                 !.lost = @ + Dropped(rest),
                                 !.withdrawn[a] = @ + x,
                                 !.rate[a] = IF done THEN 0 ELSE @,
                                 !.next[a] = IF done THEN Never ELSE @ + WithdrawInterval,
                                 !.total_qi = @ - rest,
                                 !.ok = @ /\ rest >= 0]
  <2>1. Withdraw(d, a) = IF x > 0 THEN AdjustWeight(closed, a, -x) ELSE closed
    <3> HIDE DEF AdjustWeight, Share
    <3> QED
      BY DEF Withdraw, AmountDue, RestDue, Mine, Vesting, Paying, VestAll, LiquidAll,
             FoldSet, MapThenFoldSet
  <2>2. closed = c
    <3>1. z \in Ledger
      <4>1. v \in Ledger
        BY <1>2 DEF Vested
      <4> HIDE DEF v, x
      <4> QED
        BY <1>1, <4>1, RoutesType, LiquidAllDoes DEF Liquid, x
    <3> HIDE DEF z, x, rest, kept, done
    <3> QED
      BY <3>1 DEF Ledger
  <2> HIDE DEF closed, c, x
  <2> QED
    BY <2>1, <2>2
<1> HIDE DEF v
<1>4. v \in Ledger
  BY <1>2 DEF Vested
<1>5. Liquid(v, z, Paying(d, a), x)
  BY <1>1, <1>4, RoutesType, LiquidAllDoes
<1> HIDE DEF z
<1>6. z \in Ledger /\ SameWithdrawals(d, z) /\ SameDelegations(d, z)
  BY <1>2, <1>5 DEF Vested, Liquid, SameWithdrawals, SameDelegations
<1>7. /\ z.withdrawn[a] = d.withdrawn[a] /\ z.rate[a] = d.rate[a] /\ z.next[a] = d.next[a]
      /\ z.withdrawn = d.withdrawn /\ z.rate = d.rate /\ z.next = d.next
      /\ z.to_withdraw = d.to_withdraw /\ z.routes = d.routes
  BY <1>6 DEF SameWithdrawals
<1>8. /\ z.qi \in [Accounts -> Int] /\ z.balance \in [Accounts -> Int]
      /\ z.withdrawn \in [Accounts -> Int] /\ z.rate \in [Accounts -> Nat]
      /\ z.next \in [Accounts -> Times] /\ z.total_qi \in Int /\ z.ok \in BOOLEAN
      /\ z.lost \in Nat
  BY <1>6 DEF Ledger
<1>9. AsYang(rest) \in Int /\ Dropped(rest) \in Nat
  BY <1>1, AsYangType, AsYangRest
<1> HIDE DEF x, rest
<1>10. /\ kept \in Int /\ paid \in Int /\ sum \in Int /\ total \in Int
       /\ lost \in Nat /\ o \in BOOLEAN /\ o = z.ok
  BY <1>1, <1>8, <1>9
<1>11. next \in Times /\ rate \in Nat
  <2>1. z.next[a] + WithdrawInterval \in Times /\ Never \in Times
    BY <1>7, Clock DEF Times
  <2>2. z.rate[a] \in Nat
    BY <1>8
  <2> HIDE DEF done
  <2> QED
    BY <2>1, <2>2
<1>12. /\ e = IF x > 0 THEN AdjustWeight(c, a, -x) ELSE c
       /\ Q = [z.qi EXCEPT ![a] = z.qi[a] - x]
       /\ B = [z.balance EXCEPT ![a] = z.balance[a] + AsYang(rest)]
       /\ W = [d.withdrawn EXCEPT ![a] = d.withdrawn[a] + x]
       /\ R = [d.rate EXCEPT ![a] = IF done THEN 0 ELSE d.rate[a]]
       /\ N = [d.next EXCEPT ![a] = IF done THEN Never ELSE d.next[a] + WithdrawInterval]
       /\ total = z.total_qi - rest /\ lost = z.lost + Dropped(rest)
  <2> HIDE DEF done
  <2> QED
    BY <1>7
<1>12a. Q = [z.qi EXCEPT ![a] = @ + (-x)] /\ (x = 0 => Q = z.qi)
  <2>1. z.qi[a] - x = z.qi[a] + (-x) /\ z.qi[a] \in Int /\ (x = 0 => z.qi[a] - x = z.qi[a])
    BY <1>1, <1>8
  <2> QED
    BY <1>8, <2>1
<1> HIDE DEF kept, paid, sum, rate, next
<1>13. /\ Q \in [Accounts -> Int] /\ B \in [Accounts -> Int] /\ W \in [Accounts -> Int]
       /\ R \in [Accounts -> Nat] /\ N \in [Accounts -> Times]
  BY <1>8, <1>10, <1>11
<1> HIDE DEF Q, B, W, R, N, total, lost, o
<1>14. c \in Ledger
  BY <1>6, <1>10, <1>13 DEF Ledger
<1>15. /\ c.qi = Q /\ c.balance = B /\ c.withdrawn = W /\ c.rate = R /\ c.next = N
       /\ c.total_qi = total /\ c.lost = lost /\ c.ok = o
       /\ c.to_withdraw = z.to_withdraw /\ c.routes = z.routes
       /\ c.feigang = z.feigang /\ c.pending_feigang = z.pending_feigang
       /\ c.fund_qi = z.fund_qi /\ c.fund_yang = z.fund_yang /\ c.supply = z.supply
       /\ SameDelegations(z, c)
  BY <1>6, <1>10, <1>13 DEF Ledger, SameDelegations
<1>15a. c.proxy = z.proxy /\ c.proxied = z.proxied /\ c.adored = z.adored /\ c.adores = z.adores
  BY <1>6, <1>10, <1>13 DEF Ledger
<1> HIDE DEF c
<1>15b. /\ -x \in Int /\ Gains(z, c, a, -x)
        /\ x = 0 => SameCount(z, c)
  BY <1>1, <1>12a, <1>14, <1>15, <1>15a DEF Gains, SameCount
<1>16. OnlyAdores(c, e)
  <2>1. c \in Ledger /\ -x \in Int
    BY <1>1, <1>14
  <2>2. OnlyAdores(c, AdjustWeight(c, a, -x))
    BY <2>1, AdjustWeightKeeps
  <2>3. OnlyAdores(c, c)
    BY <1>14 DEF OnlyAdores, SameYang, SameQi, SameDelegations, SameWithdrawals, SameVotes
  <2> HIDE DEF e
  <2> QED
    BY <1>12, <2>2, <2>3
<1>16a. Keeps(z, e) /\ \A l : Counted(z, l) => Passes(c, e)
  <2>1. /\ Keeps(z, AdjustWeight(c, a, -x))
        /\ \A l : Counted(z, l) => Passes(c, AdjustWeight(c, a, -x))
    BY <1>6, <1>15b, GainCounted DEF Keeps
  <2>2. x = 0 => Keeps(z, c)
    BY <1>15b, SameKeeps
  <2>3. Passes(c, c)
    BY DEF Passes
  <2> QED
    BY <1>1, <2>1, <2>2, <2>3
<1> HIDE DEF e
<1>17. /\ e \in Ledger /\ (e.ok => o)
       /\ e.qi = Q /\ e.balance = B /\ e.withdrawn = W /\ e.rate = R /\ e.next = N
       /\ e.total_qi = total /\ e.lost = lost
       /\ e.to_withdraw = z.to_withdraw /\ e.routes = z.routes
       /\ e.feigang = z.feigang /\ e.pending_feigang = z.pending_feigang
       /\ e.fund_qi = z.fund_qi /\ e.fund_yang = z.fund_yang /\ e.supply = z.supply
       /\ SameDelegations(z, e)
  BY <1>15, <1>16 DEF OnlyAdores, SameYang, SameQi, SameDelegations, SameWithdrawals
<1>18. SameDelegations(d, e)
  BY <1>6, <1>17 DEF SameDelegations
<1>19. /\ z.feigang = d.feigang /\ z.pending_feigang = d.pending_feigang
       /\ z.fund_qi = d.fund_qi /\ z.fund_yang = d.fund_yang /\ z.supply = d.supply
  BY <1>2, <1>5 DEF Vested, Liquid, SameYang
<1>20. (e.ok => z.ok) /\ Accepts(z, e)
  <2>1. e.total_qi = c.total_qi /\ c.ok = z.ok
    BY <1>10, <1>15, <1>17
  <2> QED
    BY <1>10, <1>16a, <1>17, <2>1 DEF Passes, Fine, Accepts
<1>21. Withdrawn(d, v, z, e, a)
  BY <1>1, <1>2, <1>5, <1>7, <1>12, <1>16a, <1>17, <1>18, <1>19, <1>20
  DEF Withdrawn, x, rest, done, kept
<1> QED
  BY <1>3, <1>21

\* After full intervals only, the remainder is what is left.
LEMMA RemainderIsLeft ==
    ASSUME NEW m \in Nat \ {0}, NEW k \in Nat, NEW x \in Nat,
           k * m < x, x - k * m < m
    PROVE  x % m = x - k * m
<1> DEFINE w == k * m
<1>1. w \in Nat
  OBVIOUS
<1>2. x = m * k + (x - w)
  <2>1. m * k = w
    OBVIOUS
  <2> HIDE DEF w
  <2> QED
    BY <1>1, <2>1
<1>3. x - w \in 0 .. m - 1
  <2>1. w < x /\ x - w < m
    OBVIOUS
  <2> HIDE DEF w
  <2> QED
    BY <1>1, <2>1
<1> DEFINE y == x - w
<1>4. x = m * k + y /\ y \in 0 .. m - 1
  BY <1>2, <1>3
<1> HIDE DEF w, y
<1>5. x \div m = k
  BY <1>4
<1>6. x % m = y
  BY <1>4, <1>5
<1> QED
  BY <1>6 DEF y, w

\* The routes of an account and what they are given.
LEMMA SharesSplit ==
    ASSUME NEW d \in Ledger, IsFiniteSet(d.routes), NEW a \in Accounts, d.rate[a] # 0,
           d.qi[a] >= 0
    PROVE  /\ SumFunctionOnSet(ShareOf(AmountDue(d, a)), Vesting(d, a)) \in Int
           /\ SumFunctionOnSet(ShareOf(AmountDue(d, a)), Paying(d, a)) \in Int
           /\ RestDue(d, a) = AmountDue(d, a)
                - SumFunctionOnSet(ShareOf(AmountDue(d, a)), Vesting(d, a))
                - SumFunctionOnSet(ShareOf(AmountDue(d, a)), Paying(d, a))
<1> DEFINE x == AmountDue(d, a)
           f == ShareOf(x)
           M == Mine(d, a)
           V == Vesting(d, a)
           P == Paying(d, a)
           N == M \ P
           O == N \ V
<1>1. x \in Int /\ x >= 0
  BY AmountDueType
<1>2. /\ M \in SUBSET Routes /\ IsFiniteSet(M)
      /\ V \in SUBSET M /\ P \in SUBSET M /\ V \in SUBSET N
      /\ \A r \in O : ~(Share(x, r) > 0)
  BY RoutesType DEF Vesting, Paying
<1>3. RestDue(d, a) = x - SumFunctionOnSet(f, M)
  BY RoutesType
<1> HIDE DEF x, M, V, P
<1>4. /\ IsFiniteSet(V) /\ IsFiniteSet(P) /\ IsFiniteSet(N) /\ IsFiniteSet(O)
      /\ N \in SUBSET M /\ O \in SUBSET M
  <2>1. N \in SUBSET M /\ O \in SUBSET M
    OBVIOUS
  <2> HIDE DEF N, O
  <2> QED
    BY <1>2, <2>1, FS_Subset
<1>5. \A r \in M : f[r] \in Int /\ f[r] = Share(x, r) /\ f[r] >= 0
  BY <1>1, <1>2, ShareType
<1>6. \A r \in O : f[r] = 0
  <2> HIDE DEF O, f
  <2> QED
    BY <1>2, <1>4, <1>5
<1> HIDE DEF f
<1>7. SumFunctionOnSet(f, M) = SumFunctionOnSet(f, P) + SumFunctionOnSet(f, N)
  BY <1>2, <1>5, SumSplit
<1>8. SumFunctionOnSet(f, N) = SumFunctionOnSet(f, V) + SumFunctionOnSet(f, O)
  <2>1. \A r \in N : f[r] \in Int
    BY <1>4, <1>5
  <2> HIDE DEF N
  <2> QED
    BY <1>2, <1>4, <2>1, SumSplit
<1>9. SumFunctionOnSet(f, O) = 0
  <2> HIDE DEF O
  <2> QED
    BY <1>4, <1>6, SumZero
<1>10. SumFunctionOnSet(f, V) \in Int /\ SumFunctionOnSet(f, P) \in Int
  <2>1. (\A r \in V : f[r] \in Int) /\ (\A r \in P : f[r] \in Int)
    BY <1>2, <1>5
  <2> QED
    BY <1>4, <2>1, SumStep
<1> DEFINE sv == SumFunctionOnSet(f, V)
           sp == SumFunctionOnSet(f, P)
           sm == SumFunctionOnSet(f, M)
<1>11. sm = sp + sv /\ sv \in Int /\ sp \in Int /\ RestDue(d, a) = x - sm
  BY <1>3, <1>7, <1>8, <1>9, <1>10
<1>12. RestDue(d, a) = x - sv - sp
  <2> HIDE DEF sv, sp, sm
  <2> QED
    BY <1>1, <1>11
<1> QED
  BY <1>11, <1>12 DEF f, x, V, P

\* The withdrawal itself: what is paid, and when it ends.
LEMMA WithdrawalStep ==
    ASSUME NEW d \in Ledger, NEW l, NEW a \in Accounts, WithdrawalOK(d, a, l),
           d.rate[a] # 0, d.next[a] \in 0 .. MaxBlocks + 1,
           d.qi[a] \in Nat, d.withdrawn[a] \in Nat,
           NEW v, NEW z, NEW e, Withdrawn(d, v, z, e, a),
           a \in l \/ z.qi[a] = d.qi[a]
    PROVE  WithdrawalOK(e, a, l)
<1> DEFINE x == AmountDue(d, a)
           q == d.qi[a]
           X == d.to_withdraw[a]
           w == d.withdrawn[a]
           m == d.rate[a]
           n == d.next[a] + WithdrawInterval
           done == w + x >= X \/ z.qi[a] - x = 0
<1>1. X \in Nat /\ q \in Nat /\ m \in Nat \ {0} /\ w \in Nat
  BY DEF Ledger
<1>2. /\ x \in Nat /\ x <= m /\ x <= q /\ (X - w < m => x <= X % m)
      /\ x = q \/ (X - w < m /\ x = X % m) \/ (X - w >= m /\ x = m)
  BY <1>1, AmountDueType
<1>3. /\ m = WithdrawRate(X) /\ w < X
      /\ a \in l \/ \E k \in 0 .. w : w = k * m
  BY DEF WithdrawalOK
<1>4. n \in Times /\ n # Never
  BY Clock
<1>5. /\ e.rate[a] = IF done THEN 0 ELSE m
      /\ e.next[a] = IF done THEN Never ELSE n
      /\ e.withdrawn[a] = w + x /\ e.to_withdraw[a] = X
  BY DEF Withdrawn, Ledger
<1> HIDE DEF x, q, X, w, m, n, done
<1>6. a \in l \/ (w + x <= X /\ (~done => \E k \in 0 .. w + x : w + x = k * m))
  <2> SUFFICES ASSUME a \notin l
               PROVE  w + x <= X /\ (~done => \E k \in 0 .. w + x : w + x = k * m)
    OBVIOUS
  <2>1. PICK k \in 0 .. w : w = k * m
    BY <1>3
  <2>2. k \in Nat /\ k <= w
    BY <1>1, <2>1
  <2>3. CASE X - w < m
    <3>1. X % m = X - k * m
      BY <1>1, <1>3, <2>1, <2>2, <2>3, RemainderIsLeft
    <3>2. x <= X - w /\ (x = q \/ x = X - w)
      BY <1>1, <1>2, <2>1, <2>3, <3>1
    <3>3. w + x <= X
      BY <1>1, <1>2, <3>2
    <3>4. done
      <4>1. CASE x = q
        <5>1. z.qi[a] - x = 0
          BY <1>1, <4>1 DEF q
        <5> QED
          BY <5>1 DEF done
      <4>2. CASE x = X - w
        BY <1>1, <4>2 DEF done
      <4> QED
        BY <3>2, <4>1, <4>2
    <3> QED
      BY <3>3, <3>4
  <2>4. CASE X - w >= m
    <3>1. w + x <= X
      BY <1>1, <1>2, <2>4
    <3>2. ASSUME ~done PROVE \E j \in 0 .. w + x : w + x = j * m
      <4>1. x # q
        <5>1. x = q => z.qi[a] - x = 0
          BY <1>1 DEF q
        <5> QED
          BY <3>2, <5>1 DEF done
      <4>2. x = m
        BY <1>1, <1>2, <2>4, <4>1
      <4>3. (k + 1) * m = k * m + m
        BY <1>1, <2>2
      <4>4. w + x = (k + 1) * m
        BY <2>1, <4>2, <4>3
      <4>5. k + 1 \in 0 .. w + x
        BY <1>1, <2>2, <4>2
      <4> QED
        BY <4>4, <4>5
    <3> QED
      BY <3>1, <3>2
  <2> QED
    BY <1>1, <2>3, <2>4
<1>7. w + x < X + m
  BY <1>1, <1>2, <1>3
<1>8. ~done => w + x < X
  BY <1>1, <1>2 DEF done
<1>9. m # 0
  BY <1>1
<1>10. CASE done
  <2>1. e.rate[a] = 0 /\ e.next[a] = Never
    BY <1>5, <1>10
  <2>2. w + x <= X \/ (a \in l /\ w + x < X + WithdrawRate(X))
    BY <1>3, <1>6, <1>7
  <2> QED
    BY <1>5, <2>1, <2>2 DEF WithdrawalOK
<1>11. CASE ~done
  <2>1. e.rate[a] = m /\ e.next[a] = n
    BY <1>5, <1>11
  <2>2. w + x <= X
    BY <1>1, <1>2, <1>8, <1>11
  <2>3. a \in l \/ \E k \in 0 .. w + x : w + x = k * m
    BY <1>6, <1>11
  <2> QED
    BY <1>3, <1>4, <1>5, <1>8, <1>9, <1>11, <2>1, <2>2, <2>3 DEF WithdrawalOK
<1> QED
  BY <1>10, <1>11

LEMMA WithdrawSound ==
    ASSUME NEW d \in Ledger, NEW l, Sound(d, l), NEW a \in Accounts,
           d.rate[a] # 0, d.next[a] \in 0 .. MaxBlocks + 1,
           NEW v, NEW z, NEW e, Withdrawn(d, v, z, e, a)
    PROVE  Sound(e, l)
<1> DEFINE x == AmountDue(d, a)
           rest == RestDue(d, a)
           sv == SumFunctionOnSet(ShareOf(x), Vesting(d, a))
           sp == SumFunctionOnSet(ShareOf(x), Paying(d, a))
           c == d.pending_feigang + d.fund_qi
<1>1. /\ d.qi \in [Accounts -> Nat] /\ d.balance \in [Accounts -> Nat]
      /\ d.feigang \in [Accounts -> Nat] /\ d.withdrawn \in [Accounts -> Nat]
      /\ IsFiniteSet(d.routes)
  BY DEF Sound, Positive, RoutesOK
<1>2. x \in Nat /\ x <= d.qi[a]
  BY <1>1, AmountDueType
<1>3. rest \in Int /\ sv \in Int /\ sp \in Int /\ rest = x - sv - sp
  BY <1>1, RoutesType, SharesSplit
<1>4. rest >= 0 /\ e \in Ledger
  BY DEF Withdrawn
<1>5. Vested(d, v, Vesting(d, a), x) /\ Liquid(v, z, Paying(d, a), x)
  BY DEF Withdrawn
<1>6. /\ e.qi = [z.qi EXCEPT ![a] = z.qi[a] - x]
      /\ e.balance = [z.balance EXCEPT ![a] = z.balance[a] + AsYang(rest)]
      /\ e.withdrawn = [d.withdrawn EXCEPT ![a] = d.withdrawn[a] + x]
      /\ e.total_qi = z.total_qi - rest /\ e.lost = z.lost + Dropped(rest)
      /\ e.to_withdraw = d.to_withdraw /\ e.routes = d.routes
      /\ e.feigang = d.feigang /\ e.pending_feigang = d.pending_feigang
      /\ e.fund_qi = d.fund_qi /\ e.fund_yang = d.fund_yang /\ e.supply = d.supply
      /\ SameDelegations(d, e)
  BY DEF Withdrawn
<1>7. /\ SumFunction(v.qi) = SumFunction(d.qi) + sv
      /\ v.total_qi = d.total_qi /\ v.balance = d.balance /\ v.lost = d.lost
      /\ \A b \in Accounts : v.qi[b] >= d.qi[b]
      /\ (\A r \in Vesting(d, a) : r.to # a) => v.qi[a] = d.qi[a]
      /\ v \in Ledger
  BY <1>2, <1>5 DEF Vested, SameYang
<1>8. /\ z.total_qi = v.total_qi - sp /\ z.qi = v.qi
      /\ \A b \in Accounts : z.balance[b] >= v.balance[b]
      /\ \A i \in Int : WorthWith(z, i) = WorthWith(v, i)
      /\ z \in Ledger
  BY <1>2, <1>5 DEF Liquid
<1>9. (a \in l) \/ z.qi[a] = d.qi[a]
  <2> SUFFICES ASSUME a \notin l PROVE z.qi[a] = d.qi[a]
    OBVIOUS
  <2>1. \A r \in Vesting(d, a) : r.to # a
    BY DEF Vesting, Mine, Sound, RoutesOK
  <2> QED
    BY <1>7, <1>8, <2>1
<1> HIDE DEF x, rest, sv, sp
<1>10. z.qi \in [Accounts -> Int] /\ z.balance \in [Accounts -> Int] /\ z.total_qi \in Int
  BY <1>8 DEF Ledger
<1>11. AsYang(rest) \in Int /\ AsYang(rest) >= 0
  BY <1>3, <1>4, AsYangType
<1>12. Positive(e)
  <2>1. ASSUME NEW b \in Accounts PROVE e.qi[b] \in Nat
    <3>1. z.qi[b] >= d.qi[b] /\ z.qi[b] \in Int /\ d.qi[b] \in Nat
      BY <1>1, <1>7, <1>8, <1>10
    <3>2. e.qi[b] = IF b = a THEN z.qi[b] - x ELSE z.qi[b]
      BY <1>6, <1>10
    <3> QED
      BY <1>2, <3>1, <3>2
  <2>2. ASSUME NEW b \in Accounts PROVE e.balance[b] \in Nat
    <3>1. z.balance[b] >= d.balance[b] /\ z.balance[b] \in Int /\ d.balance[b] \in Nat
      BY <1>1, <1>7, <1>8, <1>10
    <3>2. e.balance[b] = IF b = a THEN z.balance[b] + AsYang(rest) ELSE z.balance[b]
      BY <1>6, <1>10
    <3> QED
      BY <1>11, <3>1, <3>2
  <2>3. e.qi \in [Accounts -> Int] /\ e.balance \in [Accounts -> Int]
    BY <1>4 DEF Ledger
  <2>4. e.qi \in [Accounts -> Nat] /\ e.balance \in [Accounts -> Nat]
    BY <2>1, <2>2, <2>3
  <2>5. e.withdrawn \in [Accounts -> Nat]
    <3>1. d.withdrawn[a] + x \in Nat
      BY <1>1, <1>2
    <3> QED
      BY <1>1, <1>6, <3>1
  <2> QED
    BY <1>1, <1>6, <2>4, <2>5 DEF Positive
<1>13. e.total_qi = SumFunction(e.qi) /\ e.pending_feigang = SumFunction(e.feigang)
  <2>1. d.total_qi = SumFunction(d.qi) /\ d.pending_feigang = SumFunction(d.feigang)
    BY DEF Sound, Accounted
  <2>2. z.qi[a] \in Int /\ z.qi[a] - x \in Int
    BY <1>2, <1>10
  <2>3. SumFunction(e.qi) = SumFunction(z.qi) + (z.qi[a] - x) - z.qi[a]
    BY <1>6, <1>10, <2>2, TotalUpdate
  <2>4. SumFunction(z.qi) = SumFunction(d.qi) + sv
    BY <1>7, <1>8
  <2>5. SumFunction(d.qi) \in Int
    <3>1. d.qi \in [Accounts -> Int]
      BY <1>1
    <3> QED
      BY <3>1, Total
  <2>6. e.total_qi = SumFunction(d.qi) - sp - rest
    BY <1>6, <1>7, <1>8, <2>1
  <2>7. e.total_qi = SumFunction(e.qi)
    BY <1>2, <1>3, <2>2, <2>3, <2>4, <2>5, <2>6
  <2> QED
    BY <1>6, <2>1, <2>7
<1>14. Worth(e) = e.supply
  <2>1. /\ d.pending_feigang \in Int /\ d.fund_qi \in Int /\ d.fund_yang \in Int
        /\ d.total_qi \in Int /\ e.total_qi \in Int /\ d.lost \in Int /\ e.lost \in Int
    BY <1>4 DEF Ledger
  <2>2. c \in Int
    BY <2>1
  <2>3. /\ d.total_qi + d.pending_feigang + d.fund_qi + d.lost = d.total_qi + d.lost + c
        /\ e.total_qi + e.pending_feigang + e.fund_qi + e.lost = e.total_qi + e.lost + c
    BY <1>6, <2>1
  <2> HIDE DEF c
  <2>4. WorthWith(e, c) = WorthWith(z, c)
    BY <1>3, <1>4, <1>6, <1>8, <2>2, WorthMoved
  <2>5. WorthWith(z, c) = WorthWith(v, c)
    BY <1>8, <2>2
  <2>6. WorthWith(v, c) = WorthWith(d, c)
    BY <1>7 DEF WorthWith
  <2>7. SumFunction(d.balance) \in Int /\ AsYang(d.total_qi + d.lost + c) \in Int
    <3>1. d.balance \in [Accounts -> Int] /\ d.total_qi + d.lost + c \in Int
      BY <1>1, <2>1, <2>2
    <3> QED
      BY <3>1, Total, AsYangType
  <2>8. SumFunction(e.balance) \in Int /\ AsYang(e.total_qi + e.lost + c) \in Int
    <3>1. e.balance \in [Accounts -> Int] /\ e.total_qi + e.lost + c \in Int
      BY <1>4, <2>1, <2>2 DEF Ledger
    <3> QED
      BY <3>1, Total, AsYangType
  <2>9. Worth(d) = WorthWith(d, c) + d.fund_yang
    BY <2>1, <2>3, <2>7 DEF Worth, WorthWith
  <2>10. Worth(e) = WorthWith(e, c) + d.fund_yang
    BY <1>6, <2>1, <2>3, <2>8 DEF Worth, WorthWith
  <2>11. Worth(d) = d.supply
    BY DEF Sound, Accounted
  <2> QED
    BY <1>6, <2>4, <2>5, <2>6, <2>9, <2>10, <2>11
<1>15. Balanced(e) /\ RoutesOK(e, l)
  BY <1>6, SameBalanced DEF Sound, RoutesOK, Granted
<1>16. ASSUME NEW b \in Accounts PROVE WithdrawalOK(e, b, l)
  <2>0. WithdrawalOK(d, b, l)
    BY DEF Sound, Bounded
  <2>1. CASE b = a
    <3>1. d.qi[a] \in Nat /\ d.withdrawn[a] \in Nat
      BY <1>1
    <3> QED
      BY <1>9, <2>0, <2>1, <3>1, WithdrawalStep
  <2>2. CASE b # a
    <3>1. /\ e.rate[b] = d.rate[b] /\ e.next[b] = d.next[b]
          /\ e.to_withdraw[b] = d.to_withdraw[b] /\ e.withdrawn[b] = d.withdrawn[b]
      BY <2>2 DEF Withdrawn, Ledger
    <3> QED
      BY <2>0, <3>1 DEF WithdrawalOK
  <2> QED
    BY <2>1, <2>2
<1> QED
  BY <1>12, <1>13, <1>14, <1>15, <1>16 DEF Sound, Accounted, Bounded

-----------------------------------------------------------------------------
(* All that is due, and the block. *)

\* What the withdrawals of a block start from and keep. Those that are not due,
\* or not yet taken, stay as they are.
Drawing(d, e, s, t, l) ==
    /\ Kept(d, e, l)
    /\ \A b \in Accounts : (e.next[b] = Never) = (e.rate[b] = 0)
    /\ \A b \in Accounts : b \notin s => e.next[b] = d.next[b]

\* A withdrawal that deposits no qi passes the assertions.
LEMMA WithdrawKept ==
    ASSUME NEW d \in Ledger, NEW l, Sound(d, l), NEW a \in Accounts,
           NEW v, NEW z, NEW e, Withdrawn(d, v, z, e, a), Sound(e, l)
    PROVE  Kept(d, e, l)
<1>1. /\ e \in Ledger /\ (e.ok => z.ok) /\ Keeps(z, e) /\ Accepts(z, e)
      /\ e.routes = d.routes
  BY DEF Withdrawn
<1>2. /\ (v.ok => d.ok) /\ Keeps(d, v) /\ z.ok = v.ok /\ SameCount(v, z)
      /\ Vesting(d, a) = {} => v.ok = d.ok
  BY DEF Withdrawn, Vested, Liquid
<1>3. Keeps(d, z)
  BY <1>2, SameKeeps, KeepsTransitive
<1>4. Keeps(d, e)
  BY <1>1, <1>3, KeepsTransitive
<1>5. ASSUME d.ok, Counted(d, FALSE), Plain(d) PROVE e.ok
  <2>1. Vesting(d, a) = {}
    BY <1>5 DEF Plain, Vesting, Mine
  <2>2. Counted(z, FALSE) /\ Counted(e, FALSE)
    BY <1>3, <1>4, <1>5 DEF Keeps
  <2>3. Fine(e)
    BY <1>1, <2>2, AdoresFit DEF Sound
  <2> QED
    BY <1>1, <1>2, <1>5, <2>1, <2>2, <2>3 DEF Accepts
<1> QED
  BY <1>1, <1>2, <1>4, <1>5 DEF Kept

LEMMA DrawStep ==
    ASSUME NEW d \in Ledger, IsFiniteSet(d.routes), NEW t \in 0 .. MaxBlocks + 1, NEW l,
           NEW s \in SUBSET {a \in Accounts : d.next[a] <= t}, NEW a \in s,
           NEW e, Drawing(d, e, s \ {a}, t, l)
    PROVE  Drawing(d, Withdraw(e, a), s, t, l)
<1>1. /\ e \in Ledger /\ Sound(e, l) /\ IsFiniteSet(e.routes) /\ RoutesOK(e, l)
      /\ a \in Accounts /\ e.qi[a] >= 0
  BY DEF Drawing, Kept, Sound, Positive, RoutesOK
<1>2. e.next[a] \in 0 .. MaxBlocks + 1 /\ e.next[a] # Never /\ e.rate[a] # 0
  <2>1. e.next[a] = d.next[a] /\ d.next[a] <= t
    BY DEF Drawing
  <2>2. e.next[a] \in Times
    BY <1>1 DEF Ledger
  <2>3. e.next[a] \in 0 .. MaxBlocks + 1 /\ e.next[a] # Never
    BY <2>1, <2>2, QiLedgerAssumption DEF Times, Never
  <2> QED
    BY <1>1, <2>3 DEF Drawing
<1> DEFINE f == Withdraw(e, a)
<1>3. PICK v, z : Withdrawn(e, v, z, f, a)
  <2>1. RestDue(e, a) >= 0
    BY <1>1, <1>2, RestLeft
  <2> QED
    BY <1>1, <1>2, <2>1, WithdrawDoes
<1> HIDE DEF f
<1>4. Sound(f, l)
  BY <1>1, <1>2, <1>3, WithdrawSound
<1>5. Kept(d, f, l)
  <2>1. Kept(e, f, l)
    BY <1>1, <1>3, <1>4, WithdrawKept
  <2> QED
    BY <2>1, KeptTransitive DEF Drawing
<1>6. ASSUME NEW b \in Accounts PROVE (f.next[b] = Never) = (f.rate[b] = 0)
  <2>1. (e.next[b] = Never) = (e.rate[b] = 0)
    BY DEF Drawing
  <2>2. CASE b # a
    <3>1. f.next[b] = e.next[b] /\ f.rate[b] = e.rate[b]
      BY <1>1, <1>3, <2>2 DEF Withdrawn, Ledger
    <3> QED
      BY <2>1, <3>1
  <2>3. CASE b = a
    <3>1. e.next[a] + WithdrawInterval # Never
      BY <1>2, Clock
    <3>2. \/ f.next[a] = Never /\ f.rate[a] = 0
          \/ f.next[a] = e.next[a] + WithdrawInterval /\ f.rate[a] = e.rate[a]
      BY <1>1, <1>3 DEF Withdrawn, Ledger
    <3> QED
      BY <1>2, <2>3, <3>1, <3>2
  <2> QED
    BY <2>2, <2>3
<1>7. ASSUME NEW b \in Accounts, b \notin s PROVE f.next[b] = d.next[b]
  <2>1. f.next[b] = e.next[b]
    BY <1>1, <1>3, <1>7 DEF Withdrawn, Ledger
  <2>2. e.next[b] = d.next[b]
    BY <1>7 DEF Drawing
  <2> QED
    BY <2>1, <2>2
<1> QED
  BY <1>5, <1>6, <1>7 DEF Drawing, f

LEMMA ProcessQiWithdrawalsKept ==
    ASSUME NEW d \in Ledger, NEW l, Sound(d, l), NEW t \in 0 .. MaxBlocks + 1
    PROVE  Kept(d, ProcessQiWithdrawals(d, t), l)
<1> DEFINE S == {a \in Accounts : d.next[a] <= t}
           op(a, e) == Withdraw(e, a)
           step == [p \in S \X Ledger |-> op(p[1], p[2])]
           Good == [s \in SUBSET S |-> {e \in Ledger : Drawing(d, e, s, t, l)}]
           Iter(k) == k = [s \in SUBSET S |->
                             IF s = {} THEN d ELSE op(Elem(s), k[s \ {Elem(s)}])]
<1>0. IsFiniteSet(S) /\ IsFiniteSet(d.routes)
  BY Finite, FS_Subset DEF Sound, RoutesOK
<1>1. \A s \in SUBSET S : s # {} => Elem(s) \in s /\ s \ {Elem(s)} \in SUBSET S
  BY DEF Elem
<1>2. ASSUME NEW s \in SUBSET S, s # {}, NEW e \in Good[s \ {Elem(s)}]
      PROVE  op(Elem(s), e) \in Good[s]
  <2>1. s \in SUBSET {a \in Accounts : d.next[a] <= t} /\ Elem(s) \in s
    BY <1>1, <1>2
  <2>2. Drawing(d, e, s \ {Elem(s)}, t, l)
    BY <1>1, <1>2
  <2> HIDE DEF S
  <2>3. Drawing(d, op(Elem(s), e), s, t, l)
    BY <1>0, <2>1, <2>2, DrawStep
  <2> HIDE DEF op
  <2>4. op(Elem(s), e) \in Ledger
    BY <2>3 DEF Drawing, Kept
  <2> QED
    BY <2>3, <2>4
<1>3. d \in Good[{}]
  <2>1. \A b \in Accounts : (d.next[b] = Never) = (d.rate[b] = 0)
    BY DEF Sound, Bounded, WithdrawalOK
  <2>2. Drawing(d, d, {}, t, l)
    BY <2>1 DEF Drawing, Kept, Keeps
  <2> QED
    BY <2>2
<1>4. \A s \in SUBSET S : Good[s] \subseteq Ledger
  OBVIOUS
<1>5. \A r \in S, e \in Ledger : step[<<r, e>>] = op(r, e)
  <2> HIDE DEF op, S
  <2> QED
    OBVIOUS
<1> HIDE DEF op, step, Good
<1>9. ASSUME NEW k, Iter(k) PROVE k[S] \in Good[S]
  <2> HIDE DEF S
  <2>1. \A s \in SUBSET S : k[s] = IF s = {} THEN d ELSE op(Elem(s), k[s \ {Elem(s)}])
    BY <1>9
  <2>2. k[{}] \in Good[{}]
    BY <1>3, <2>1
  <2>3. \A s \in SUBSET S :
           s # {} /\ k[s \ {Elem(s)}] \in Good[s \ {Elem(s)}] => k[s] \in Good[s]
    BY <1>2, <2>1
  <2> QED
    BY <1>0, <2>2, <2>3, FoldKeeps
<1>10. ProcessQiWithdrawals(d, t) = (CHOOSE k : Iter(k))[S]
  BY DEF op, Elem, ProcessQiWithdrawals, FoldSet, MapThenFoldSet
<1>11. \E k : Iter(k)
  <2> HIDE DEF S
  <2>1. Foldable(S, Ledger, d, step, Good)
    BY <1>1, <1>2, <1>3, <1>4, <1>5 DEF Foldable
  <2>2. PICK h : Folded(h, S, Ledger, d, step, Good)
    BY <1>0, <2>1, FoldExists
  <2>3. h \in [SUBSET S -> Ledger]
    BY <2>2 DEF Folded
  <2>4. ASSUME NEW s \in SUBSET S
        PROVE  h[s] = IF s = {} THEN d ELSE op(Elem(s), h[s \ {Elem(s)}])
    <3>1. h[s] = IF s = {} THEN d ELSE step[<<Elem(s), h[s \ {Elem(s)}]>>]
      BY <2>2 DEF Folded
    <3> QED
      BY <1>1, <1>5, <2>3, <3>1
  <2>5. Iter(h)
    BY <2>3, <2>4
  <2> QED
    BY <2>5
<1> HIDE DEF Iter, S
<1>12. ProcessQiWithdrawals(d, t) \in Good[S]
  BY <1>9, <1>10, <1>11
<1>13. Drawing(d, ProcessQiWithdrawals(d, t), S, t, l)
  BY <1>12 DEF Good
<1> QED
  BY <1>13 DEF Drawing

LEMMA DeclineKept ==
    ASSUME NEW d \in Ledger, NEW l, Sound(d, l), NEW a \in Accounts
    PROVE  Kept(d, Decline(d, a), l)
<1> DEFINE r == AdjustProxied(d, a, WholeWeight(d, a, -1))
           p == [r.proxy EXCEPT ![a] = None]
           v == {y \in r.adored : y[1] # a}
           u == [r.can_adore EXCEPT ![a] = FALSE]
           n == [r.decline EXCEPT ![a] = Never]
           e == [r EXCEPT !.proxy = p, !.adored = v, !.can_adore = u, !.decline = n]
<1>1. Voted(d, r) /\ r \in Ledger
  BY WholeWeightVoted
<1>2. Decline(d, a) = e
  <2> HIDE DEF r
  <2>1. [ClearAdores(r, a) EXCEPT !.can_adore[a] = FALSE, !.proxy[a] = None,
                                  !.decline[a] = Never] = e
    BY <1>1 DEF Ledger, ClearAdores
  <2> HIDE DEF e
  <2> QED
    BY <2>1 DEF Decline, r
<1>2a. r = AdjustProxied(d, a, WholeWeight(d, a, -1)) /\ OnlyAdores(d, r)
  BY WholeWeightVoted
<1> HIDE DEF r
<1>3. /\ p \in [Accounts -> Accounts \cup {None}] /\ v \in SUBSET (Users \X Simings)
      /\ u \in [Accounts -> BOOLEAN] /\ n \in [Accounts -> Times]
  <2>1. /\ r.proxy \in [Accounts -> Accounts \cup {None}]
        /\ r.adored \in SUBSET (Users \X Simings)
        /\ r.can_adore \in [Accounts -> BOOLEAN] /\ r.decline \in [Accounts -> Times]
    BY <1>1 DEF Ledger
  <2>2. Never \in Times
    BY Clock DEF Times
  <2>3. p \in [Accounts -> Accounts \cup {None}] /\ v \in SUBSET (Users \X Simings)
    BY <2>1
  <2>4. u \in [Accounts -> BOOLEAN]
    BY <2>1
  <2>5. n \in [Accounts -> Times]
    BY <2>1, <2>2
  <2> QED
    BY <2>3, <2>4, <2>5
<1>3a. p = [r.proxy EXCEPT ![a] = None] /\ v = {y \in r.adored : y[1] # a}
  OBVIOUS
<1> HIDE DEF p, v, u, n
<1>4. /\ Voted(r, e) /\ e.ok = r.ok /\ e.proxy = p /\ e.adored = v
      /\ e.proxied = r.proxied /\ e.adores = r.adores
  <2>1. Voted(r, e)
    BY <1>1, <1>3, ColumnsVoted
  <2> QED
    BY <1>1, <1>3, <2>1 DEF Ledger
<1> HIDE DEF e
<1>5. Voted(d, e)
  BY <1>1, <1>4, VotedTransitive
<1>6. Rehung(r, e, a, None)
  BY <1>3a, <1>4 DEF Rehung, Voted, SameQi
<1>7. ASSUME NEW c, Counted(d, c) PROVE Counted(e, c) /\ Passes(d, r)
  BY <1>2a, <1>6, <1>7, LeftCounted
<1>8. Keeps(d, e) /\ Accepts(d, e)
  <2>1. e.total_qi = d.total_qi /\ e.adores = r.adores /\ e.ok = r.ok
    BY <1>4, <1>5 DEF Voted, SameQi
  <2> QED
    BY <1>7, <2>1 DEF Keeps, Accepts, Passes, Fine
<1>9. Sound(e, l) /\ e \in Ledger /\ (e.ok => d.ok) /\ e.routes = d.routes
  BY <1>5, VotedSound DEF Voted, SameWithdrawals
<1>10. Kept(d, e, l)
  BY <1>8, <1>9, AcceptedKept
<1> QED
  BY <1>2, <1>10

LEMMA ProcessDeclineKept ==
    ASSUME NEW d \in Ledger, NEW l, Sound(d, l), NEW t
    PROVE  Kept(d, ProcessDecline(d, t), l)
<1> DEFINE S == {a \in Accounts : d.decline[a] <= t}
           op(a, e) == Decline(e, a)
           step == [p \in S \X Ledger |-> op(p[1], p[2])]
           Good == [s \in SUBSET S |-> {e \in Ledger : Kept(d, e, l)}]
           Iter(k) == k = [s \in SUBSET S |->
                             IF s = {} THEN d ELSE op(Elem(s), k[s \ {Elem(s)}])]
<1>0. IsFiniteSet(S) /\ S \subseteq Accounts
  BY Finite, FS_Subset
<1>1. \A s \in SUBSET S : s # {} => Elem(s) \in s /\ s \ {Elem(s)} \in SUBSET S
  BY DEF Elem
<1>2. ASSUME NEW s \in SUBSET S, s # {}, NEW e \in Good[s \ {Elem(s)}]
      PROVE  op(Elem(s), e) \in Good[s]
  <2>1. Elem(s) \in Accounts /\ Kept(d, e, l) /\ e \in Ledger /\ Sound(e, l)
    BY <1>1, <1>2 DEF Kept
  <2>2. Kept(e, op(Elem(s), e), l)
    BY <2>1, DeclineKept
  <2> HIDE DEF op
  <2>3. Kept(d, op(Elem(s), e), l)
    BY <2>1, <2>2, KeptTransitive
  <2>4. op(Elem(s), e) \in Ledger
    BY <2>3 DEF Kept
  <2> QED
    BY <2>3, <2>4
<1>3. d \in Good[{}]
  BY DEF Kept, Keeps
<1>4. \A s \in SUBSET S : Good[s] \subseteq Ledger
  OBVIOUS
<1>5. \A r \in S, e \in Ledger : step[<<r, e>>] = op(r, e)
  <2> HIDE DEF op, S
  <2> QED
    OBVIOUS
<1> HIDE DEF op, step, Good
<1>9. ASSUME NEW k, Iter(k) PROVE k[S] \in Good[S]
  <2> HIDE DEF S
  <2>1. \A s \in SUBSET S : k[s] = IF s = {} THEN d ELSE op(Elem(s), k[s \ {Elem(s)}])
    BY <1>9
  <2>2. k[{}] \in Good[{}]
    BY <1>3, <2>1
  <2>3. \A s \in SUBSET S :
           s # {} /\ k[s \ {Elem(s)}] \in Good[s \ {Elem(s)}] => k[s] \in Good[s]
    BY <1>2, <2>1
  <2> QED
    BY <1>0, <2>2, <2>3, FoldKeeps
<1>10. ProcessDecline(d, t) = (CHOOSE k : Iter(k))[S]
  BY DEF op, Elem, ProcessDecline, FoldSet, MapThenFoldSet
<1>11. \E k : Iter(k)
  <2> HIDE DEF S
  <2>1. Foldable(S, Ledger, d, step, Good)
    BY <1>1, <1>2, <1>3, <1>4, <1>5 DEF Foldable
  <2>2. PICK h : Folded(h, S, Ledger, d, step, Good)
    BY <1>0, <2>1, FoldExists
  <2>3. h \in [SUBSET S -> Ledger]
    BY <2>2 DEF Folded
  <2>4. ASSUME NEW s \in SUBSET S
        PROVE  h[s] = IF s = {} THEN d ELSE op(Elem(s), h[s \ {Elem(s)}])
    <3>1. h[s] = IF s = {} THEN d ELSE step[<<Elem(s), h[s \ {Elem(s)}]>>]
      BY <2>2 DEF Folded
    <3> QED
      BY <1>1, <1>5, <2>3, <3>1
  <2>5. Iter(h)
    BY <2>3, <2>4
  <2> QED
    BY <2>5
<1> HIDE DEF Iter, S
<1>12. ProcessDecline(d, t) \in Good[S]
  BY <1>9, <1>10, <1>11
<1> QED
  BY <1>12 DEF Good

\* All that a block does after its transactions.
LEMMA MaintainedKept ==
    ASSUME NEW d \in Ledger, NEW l, Sound(d, l), NEW t \in 0 .. MaxBlocks + 1,
           NEW siming \in Simings
    PROVE  Kept(d, Maintained(d, t, siming), l)
<1> DEFINE a == ClearExpiredDelegations(d, t)
           b == ProcessFunds(a, t, siming)
           c == ProcessQiWithdrawals(b, t)
           e == ProcessDecline(c, t)
<1>0. t \in Int /\ Maintained(d, t, siming) = e
  BY QiLedgerAssumption DEF Maintained
<1>1. Kept(d, a, l)
  BY <1>0, ClearExpiredKept
<1> HIDE DEF a
<1>2. Kept(a, b, l)
  BY <1>1, ProcessFundsKept DEF Kept
<1> HIDE DEF b
<1>3. Kept(b, c, l)
  BY <1>2, ProcessQiWithdrawalsKept DEF Kept
<1> HIDE DEF c
<1>4. Kept(c, e, l)
  BY <1>3, ProcessDeclineKept DEF Kept
<1> HIDE DEF e
<1> QED
  BY <1>0, <1>1, <1>2, <1>3, <1>4, KeptTransitive

LEMMA ApplyBlockStep ==
    ASSUME QiInv, NEW siming \in Simings, ApplyBlock(siming)
    PROVE  QiInv'
<1> DEFINE t == now + 1
           e == Maintained(db, t, siming)
<1>1. db \in Ledger /\ Sound(db, looped) /\ now \in 0 .. MaxBlocks
  BY DEF QiInv
<1>2. /\ t \in 0 .. MaxBlocks /\ t \in 0 .. MaxBlocks + 1
      /\ now' = t /\ looped' = looped /\ claimed' = claimed
  BY <1>1, Clock DEF ApplyBlock, history
<1>3. e.ok /\ db' = e
  BY DEF ApplyBlock
<1> HIDE DEF t
<1>4. Kept(db, e, looped)
  BY <1>1, <1>2, MaintainedKept
<1> HIDE DEF e
<1>5. Counted(e, claimed)
  BY <1>4 DEF Kept, Keeps, QiInv
<1> QED
  BY <1>2, <1>3, <1>4, <1>5, Becomes DEF Kept, QiInv

-----------------------------------------------------------------------------
(* The start. *)

\* A sum of equal values.
LEMMA SumEqual ==
    ASSUME NEW S, IsFiniteSet(S), NEW f, NEW c \in Nat, \A x \in S : f[x] = c
    PROVE  SumFunctionOnSet(f, S) = Cardinality(S) * c
<1> DEFINE T == {s \in SUBSET S : SumFunctionOnSet(f, s) = Cardinality(s) * c}
<1>1. {} \in T
  <2>1. SumFunctionOnSet(f, {}) = 0 /\ Cardinality({}) = 0
    BY FS_EmptySet, SumZero
  <2> QED
    BY <2>1
<1>2. ASSUME NEW s \in SUBSET S, s # {}, s \ {Elem(s)} \in T PROVE s \in T
  <2>1. IsFiniteSet(s) /\ (\A x \in s : f[x] \in Int) /\ Elem(s) \in s
    BY <1>2, FS_Subset DEF Elem
  <2>2. SumFunctionOnSet(f, s) = f[Elem(s)] + SumFunctionOnSet(f, s \ {Elem(s)})
    BY <1>2, <2>1, SumStep
  <2>3. Cardinality(s \ {Elem(s)}) = Cardinality(s) - 1 /\ Cardinality(s) \in Nat
    BY <2>1, FS_RemoveElement, FS_CardinalityType
  <2>4. SumFunctionOnSet(f, s \ {Elem(s)}) = (Cardinality(s) - 1) * c
    BY <1>2, <2>3
  <2>5. f[Elem(s)] = c
    BY <2>1
  <2> DEFINE n == Cardinality(s)
  <2>6. n \in Nat /\ SumFunctionOnSet(f, s) = c + (n - 1) * c
    BY <2>2, <2>3, <2>4, <2>5
  <2> HIDE DEF n
  <2>7. (n - 1) * c = n * c - c
    BY <2>6
  <2>8. n * c \in Nat
    BY <2>6
  <2>9. SumFunctionOnSet(f, s) = n * c
    BY <2>6, <2>7, <2>8
  <2> QED
    BY <2>9 DEF n
<1> HIDE DEF T
<1>3. S \in T
  BY <1>1, <1>2, SetInduction
<1> QED
  BY <1>3 DEF T

LEMMA InitTotal ==
    ASSUME NEW c \in Nat
    PROVE  /\ [a \in Accounts |-> IF a = Dao THEN 0 ELSE c] \in [Accounts -> Nat]
           /\ SumFunction([a \in Accounts |-> IF a = Dao THEN 0 ELSE c]) = Cardinality(Users) * c
           /\ Cardinality(Users) * c \in Nat
<1> DEFINE f == [a \in Accounts |-> IF a = Dao THEN 0 ELSE c]
<1>1. f \in [Accounts -> Nat] /\ f[Dao] = 0 /\ \A a \in Users : f[a] = c
  BY AccountTypes, QiLedgerAssumption
<1>2. SumFunction(f) = SumFunctionOnSet(f, Accounts)
  BY DEF SumFunction
<1>3. Accounts \ {Dao} = Users /\ Dao \in Accounts /\ IsFiniteSet(Users)
  BY QiLedgerAssumption DEF Accounts
<1> HIDE DEF f
<1>4. SumFunctionOnSet(f, Accounts) = f[Dao] + SumFunctionOnSet(f, Accounts \ {Dao})
  <2>1. \A a \in Accounts : f[a] \in Int
    BY <1>1
  <2> QED
    BY <1>3, <2>1, Finite, SumTakeOut
<1>5. SumFunctionOnSet(f, Users) = Cardinality(Users) * c
  BY <1>1, <1>3, SumEqual
<1>6. Cardinality(Users) * c \in Nat
  <2> DEFINE n == Cardinality(Users)
  <2>1. n \in Nat
    BY <1>3, FS_CardinalityType
  <2> HIDE DEF n
  <2>2. n * c \in Nat
    BY <2>1
  <2> QED
    BY <2>2 DEF n
<1> QED
  BY <1>1, <1>2, <1>3, <1>4, <1>5, <1>6 DEF f

LEMMA InitWeightsType ==
    InitProxied \in [Accounts -> [Levels -> Int]] /\ InitAdores \in [Simings -> Int]
<1>1. \A a \in Accounts : InitQiOf(a) \in Int
  BY QiLedgerAssumption DEF InitQiOf
<1>2. InitProxied \in [Accounts -> [Levels -> Int]]
  <2> DEFINE up == [a \in Accounts |-> Up([proxy |-> InitProxy], a)]
             B(a, i) == {b \in Accounts : up[b][i + 1] = a}
             f(a, i) == [b \in B(a, i) |-> InitQiOf(b)]
  <2>1. ASSUME NEW a \in Accounts, NEW i \in Levels PROVE SumFunction(f(a, i)) \in Int
    <3>1. IsFiniteSet(B(a, i)) /\ B(a, i) \subseteq Accounts
      BY Finite, FS_Subset
    <3>2. SumFunction(f(a, i)) = SumFunctionOnSet(f(a, i), B(a, i))
      BY DEF SumFunction
    <3>3. \A b \in B(a, i) : f(a, i)[b] \in Int
      BY <1>1, <3>1
    <3> HIDE DEF f, B
    <3>4. SumFunctionOnSet(f(a, i), B(a, i)) \in Int
      BY <3>1, <3>3, SumStep
    <3> QED
      BY <3>2, <3>4
  <2>2. InitProxied = [a \in Accounts |-> [i \in Levels |-> SumFunction(f(a, i))]]
    BY DEF InitProxied
  <2> HIDE DEF f
  <2> QED
    BY <2>1, <2>2
<1>3. ASSUME NEW a \in Accounts PROVE SumFunction(InitProxied[a]) \in Int
  <2> DEFINE f == InitProxied[a]
  <2>1. f \in [Levels -> Int]
    BY <1>2
  <2> HIDE DEF f
  <2>2. SumFunction(f) \in Int
    BY <2>1, Finite, SumStep DEF SumFunction
  <2> QED
    BY <2>2 DEF f
<1>4. InitAdores \in [Simings -> Int]
  <2> DEFINE weight == [a \in Accounts |-> InitQiOf(a) + SumFunction(InitProxied[a])]
             A(s) == {a \in Accounts : <<a, s>> \in InitAdored}
  <2>1. \A a \in Accounts : weight[a] \in Int
    BY <1>1, <1>3
  <2>2. ASSUME NEW s \in Simings PROVE SumFunctionOnSet(weight, A(s)) \in Int
    <3>1. IsFiniteSet(A(s)) /\ \A a \in A(s) : weight[a] \in Int
      <4>1. A(s) \in SUBSET Accounts
        OBVIOUS
      <4> HIDE DEF weight, A
      <4> QED
        BY <2>1, <4>1, Finite, FS_Subset
    <3> HIDE DEF weight, A
    <3> QED
      BY <3>1, SumStep
  <2>3. InitAdores = [s \in Simings |-> SumFunctionOnSet(weight, A(s))]
    BY DEF InitAdores
  <2> HIDE DEF weight, A
  <2> QED
    BY <2>2, <2>3
<1> QED
  BY <1>2, <1>4

\* The levels and the adores that the world starts with are a recount.
LEMMA InitCounted ==
    ASSUME NEW d \in Ledger, d.qi = [a \in Accounts |-> InitQiOf(a)], d.proxy = InitProxy,
           d.proxied = InitProxied, d.adored = InitAdored, d.adores = InitAdores
    PROVE  Counted(d, FALSE)
<1> DEFINE start == [proxy |-> InitProxy]
           up == [a \in Accounts |-> Up(start, a)]
<1>1. MaxProxyDepth \in Nat \ {0} /\ \A i \in Levels \ {0} : i - 1 \in Levels
  BY QiLedgerAssumption DEF Levels
<1>2. /\ \A a \in Accounts : d.qi[a] = InitQiOf(a) /\ d.qi[a] \in Int
      /\ d.proxied \in [Accounts -> [Levels -> Int]]
  BY DEF Ledger
<1>3. \A a \in Accounts : Up(d, a) = up[a] /\ Up(d, a) = Up(start, a)
  <2>1. start.proxy = d.proxy
    OBVIOUS
  <2> HIDE DEF start
  <2> QED
    BY <2>1, UpSame
<1> HIDE DEF start
<1>4. ASSUME NEW a \in Accounts, NEW i \in Levels PROVE d.proxied[a][i] = Level(d, a, i)
  <2> DEFINE A == {b \in Accounts : up[b][i + 1] = a}
             f == [b \in A |-> InitQiOf(b)]
             q == d.qi
  <2>1. d.proxied[a][i] = SumFunction(f)
    BY DEF InitProxied, start
  <2>2. SumFunction(f) = SumFunctionOnSet(f, A)
    BY DEF SumFunction
  <2>3. Level(d, a, i) = SumFunctionOnSet(q, {b \in Accounts : Up(d, b)[i + 1] = a})
    BY DEF Level
  <2>4. {b \in Accounts : Up(d, b)[i + 1] = a} = A
    <3> HIDE DEF up
    <3> QED
      BY <1>3
  <2>5. A \subseteq Accounts /\ IsFiniteSet(A)
    BY Finite, FS_Subset
  <2>6. \A b \in A : q[b] \in Int /\ q[b] = f[b]
    BY <1>2, <2>5
  <2> HIDE DEF A, f, q
  <2>7. SumFunctionOnSet(q, A) = SumFunctionOnSet(f, A)
    BY <2>5, <2>6, SumSame
  <2> QED
    BY <2>1, <2>2, <2>3, <2>4, <2>7
<1>5. ASSUME NEW a \in Accounts, NEW i \in Levels PROVE LevelOver(d, a, i) = 0
  <2> DEFINE f == [b \in Accounts |-> Passed(d, b, i)]
             g == [b \in Accounts |-> Level(d, b, i - 1)]
             B == Below(d, a)
             q == d.qi
  <2>1. LevelOver(d, a, i) = d.proxied[a][i] - SumFunctionOnSet(f, B)
    BY DEF LevelOver
  <2>2. d.proxied[a][i] = Level(d, a, i) /\ d.proxied[a][i] \in Int
    BY <1>2, <1>4
  <2>3. B \subseteq Accounts /\ IsFiniteSet(B)
    BY Finite, FS_Subset DEF Below
  <2>4. SumFunctionOnSet(f, B) = Level(d, a, i)
    <3>1. CASE i = 0
      <4>1. \A b \in B : q[b] \in Int /\ q[b] = f[b]
        BY <1>2, <2>3, <3>1 DEF Passed
      <4>2. Level(d, a, 0) = SumFunctionOnSet(q, B)
        BY LevelParts
      <4> HIDE DEF B, f, q
      <4>3. SumFunctionOnSet(q, B) = SumFunctionOnSet(f, B)
        BY <2>3, <4>1, SumSame
      <4> QED
        BY <3>1, <4>2, <4>3
    <3>2. CASE i # 0
      <4>0. i - 1 \in Levels
        BY <1>1, <3>2
      <4>1. \A b \in B : g[b] \in Int /\ g[b] = f[b]
        <5> SUFFICES ASSUME NEW b \in B PROVE g[b] \in Int /\ g[b] = f[b]
          OBVIOUS
        <5>1. b \in Accounts
          BY <2>3
        <5>2. d.proxied[b][i-1] = Level(d, b, i - 1) /\ d.proxied[b][i-1] \in Int
          BY <1>2, <1>4, <4>0, <5>1
        <5> QED
          BY <3>2, <5>1, <5>2 DEF Passed
      <4>2. Level(d, a, i) = SumFunctionOnSet(g, B)
        BY <3>2, LevelParts
      <4> HIDE DEF B, f, g
      <4>3. SumFunctionOnSet(g, B) = SumFunctionOnSet(f, B)
        BY <2>3, <4>1, SumSame
      <4> QED
        BY <4>2, <4>3
    <3> QED
      BY <3>1, <3>2
  <2> HIDE DEF f, B
  <2> QED
    BY <2>1, <2>2, <2>4
<1>6. ASSUME NEW s \in Simings PROVE AdoreOver(d, s) = 0
  <2> DEFINE weight == [a \in Accounts |-> InitQiOf(a) + SumFunction(InitProxied[a])]
             f == [a \in Accounts |-> Weight(d, a)]
             A == {a \in Accounts : <<a, s>> \in InitAdored}
  <2>1. d.adores[s] = SumFunctionOnSet(weight, A)
    BY DEF InitAdores
  <2>2. Adorers(d, s) = A
    BY DEF Adorers
  <2>3. AdoreOver(d, s) = d.adores[s] - SumFunctionOnSet(f, Adorers(d, s))
    BY DEF AdoreOver
  <2>4. A \subseteq Accounts /\ IsFiniteSet(A)
    BY Finite, FS_Subset
  <2>5. \A a \in A : f[a] \in Int /\ f[a] = weight[a]
    <3> SUFFICES ASSUME NEW a \in Accounts PROVE f[a] \in Int /\ f[a] = weight[a]
      BY <2>4
    <3>1. f[a] \in Int
      BY PassedType
    <3>2. f[a] = d.qi[a] + SumFunction(InitProxied[a])
      BY DEF Weight
    <3> QED
      BY <1>2, <3>1, <3>2
  <2>6. d.adores[s] \in Int
    BY DEF Ledger
  <2> HIDE DEF A, f, weight
  <2>7. SumFunctionOnSet(f, A) = SumFunctionOnSet(weight, A)
    BY <2>4, <2>5, SumSame
  <2> QED
    BY <2>1, <2>2, <2>3, <2>6, <2>7
<1>7. RootsAdore(d)
  BY QiLedgerAssumption DEF RootsAdore
<1>8. Loopless(d)
  BY <1>3, NoProxyLoop DEF Loopless, start
<1> QED
  BY <1>5, <1>6, <1>7, <1>8 DEF Counted, Fits

LEMMA InitStep == Init => QiInv
<1> SUFFICES ASSUME Init PROVE QiInv
  OBVIOUS
<1> DEFINE none == [a \in Accounts |-> 0]
           never == [a \in Accounts |-> Never]
           y == Cardinality(Users) * InitYang
           q == Cardinality(Users) * InitQi
           free == [p \in Accounts \X Accounts |-> 0]
           back == [a \in Accounts |-> [t \in Times |-> 0]]
<1>0. InitYang \in Nat /\ InitQi \in Nat /\ MaxBlocks \in Nat
  BY QiLedgerAssumption
<1>1. /\ db = [balance |-> [a \in Accounts |-> IF a = Dao THEN 0 ELSE InitYang],
               qi |-> [a \in Accounts |-> InitQiOf(a)],
               proxy |-> InitProxy, proxied |-> InitProxied,
               adored |-> InitAdored, adores |-> InitAdores,
               can_adore |-> [a \in Accounts |-> TRUE], decline |-> never,
               delegated |-> none, received |-> none, feigang |-> none,
               delegation |-> free, returning |-> back,
               rate |-> none, next |-> never, to_withdraw |-> none, withdrawn |-> none,
               routes |-> {}, fund_yang |-> 0, fund_qi |-> 0,
               supply |-> y + AsYang(q), lost |-> 0,
               total_qi |-> q, pending_feigang |-> 0, ok |-> TRUE]
      /\ now = 0
  BY DEF Init
<1>2. /\ [a \in Accounts |-> IF a = Dao THEN 0 ELSE InitYang] \in [Accounts -> Nat]
      /\ SumFunction([a \in Accounts |-> IF a = Dao THEN 0 ELSE InitYang]) = y /\ y \in Nat
  BY <1>0, InitTotal
<1>3. /\ [a \in Accounts |-> InitQiOf(a)] \in [Accounts -> Nat]
      /\ SumFunction([a \in Accounts |-> InitQiOf(a)]) = q /\ q \in Nat
  <2>1. [a \in Accounts |-> InitQiOf(a)] = [a \in Accounts |-> IF a = Dao THEN 0 ELSE InitQi]
    BY DEF InitQiOf
  <2> QED
    BY <1>0, <2>1, InitTotal
<1>4. /\ none \in [Accounts -> Nat] /\ never \in [Accounts -> Times]
      /\ free \in [Accounts \X Accounts -> Nat] /\ back \in [Accounts -> [Times -> Nat]]
      /\ \A a \in Accounts : none[a] = 0 /\ never[a] = Never /\ \A t \in Times : back[a][t] = 0
  <2>1. Never \in Times
    BY Clock DEF Times
  <2> QED
    BY <2>1
<1>5. InitProxy \in [Accounts -> Accounts \cup {None}] /\ InitAdored \in SUBSET (Users \X Simings)
  BY QiLedgerAssumption
<1>6. AsYang(q) \in Nat
  <2>1. q \in Int /\ q >= 0
    BY <1>3
  <2> HIDE DEF q
  <2> QED
    BY <2>1, AsYangType
<1>7. SumFunction(none) = 0 /\ \A a \in Accounts : SumFunction(back[a]) = 0
  <2>1. SumFunction(none) = SumFunctionOnSet(none, Accounts)
    BY DEF SumFunction
  <2>2. SumFunctionOnSet(none, Accounts) = 0
    BY <1>4, Finite, SumZero
  <2>3. ASSUME NEW a \in Accounts PROVE SumFunction(back[a]) = 0
    <3> DEFINE f == [t \in Times |-> 0]
    <3>1. \A t \in Times : f[t] = 0
      OBVIOUS
    <3>2. SumFunction(f) = SumFunctionOnSet(f, Times)
      BY DEF SumFunction
    <3>3. back[a] = f
      OBVIOUS
    <3> HIDE DEF f, back
    <3> QED
      BY <3>1, <3>2, <3>3, Finite, SumZero
  <2> QED
    BY <2>1, <2>2, <2>3
<1> DEFINE bal == [a \in Accounts |-> IF a = Dao THEN 0 ELSE InitYang]
           qi == [a \in Accounts |-> InitQiOf(a)]
           may == [a \in Accounts |-> TRUE]
           sup == y + AsYang(q)
<1>8. /\ bal \in [Accounts -> Int] /\ qi \in [Accounts -> Int] /\ none \in [Accounts -> Int]
      /\ may \in [Accounts -> BOOLEAN] /\ sup \in Nat /\ q \in Int
      /\ sup = y + AsYang(q)
  <2>1. bal \in [Accounts -> Int] /\ qi \in [Accounts -> Int] /\ none \in [Accounts -> Int]
    <3> HIDE DEF bal, qi, none
    <3> QED
      BY <1>2, <1>3, <1>4 DEF bal, qi
  <2>2. may \in [Accounts -> BOOLEAN]
    OBVIOUS
  <2> HIDE DEF y, q
  <2> QED
    BY <1>2, <1>3, <1>6, <2>1, <2>2
<1>9. bal \in [Accounts -> Nat] /\ SumFunction(bal) = y
  BY <1>2
<1>10. qi \in [Accounts -> Nat] /\ SumFunction(qi) = q
  BY <1>3
<1> HIDE DEF bal, qi, may, sup, none, never, free, back, y, q
<1>11. db = [balance |-> bal, qi |-> qi,
             proxy |-> InitProxy, proxied |-> InitProxied,
             adored |-> InitAdored, adores |-> InitAdores,
             can_adore |-> may, decline |-> never,
             delegated |-> none, received |-> none, feigang |-> none,
             delegation |-> free, returning |-> back,
             rate |-> none, next |-> never, to_withdraw |-> none, withdrawn |-> none,
             routes |-> {}, fund_yang |-> 0, fund_qi |-> 0,
             supply |-> sup, lost |-> 0, total_qi |-> q, pending_feigang |-> 0, ok |-> TRUE]
  BY <1>1 DEF bal, qi, may, sup
<1>12. db \in Ledger
  BY <1>4, <1>5, <1>8, <1>11, InitWeightsType DEF Ledger
<1>13. /\ db.balance = bal /\ db.qi = qi /\ db.delegated = none /\ db.received = none
       /\ db.feigang = none /\ db.delegation = free /\ db.returning = back
       /\ db.rate = none /\ db.next = never /\ db.to_withdraw = none /\ db.withdrawn = none
       /\ db.routes = {} /\ db.fund_yang = 0 /\ db.fund_qi = 0
       /\ db.supply = sup /\ db.lost = 0 /\ db.total_qi = q /\ db.pending_feigang = 0 /\ db.ok
       /\ db.proxy = InitProxy /\ db.proxied = InitProxied
       /\ db.adored = InitAdored /\ db.adores = InitAdores
  BY <1>11
<1>14. Positive(db)
  BY <1>4, <1>9, <1>10, <1>13 DEF Positive
<1>15. Accounted(db)
  <2>1. q + 0 + 0 + 0 = q /\ y + 0 + AsYang(q) = sup
    BY <1>2, <1>6, <1>8
  <2>2. Worth(db) = sup
    BY <1>9, <1>13, <2>1 DEF Worth
  <2> QED
    BY <1>7, <1>10, <1>13, <2>1, <2>2 DEF Accounted
<1>16. Balanced(db)
  <2> SUFFICES ASSUME NEW a \in Accounts
               PROVE  /\ db.delegated[a] = Given(db, a) + SumFunction(db.returning[a])
                      /\ db.received[a] = Received(db, a)
    BY DEF Balanced
  <2> DEFINE f == [b \in Accounts |-> db.delegation[<<a, b>>]]
             g == [b \in Accounts |-> db.delegation[<<b, a>>]]
  <2>1. \A b \in Accounts : f[b] = 0 /\ g[b] = 0
    BY <1>13 DEF free
  <2>2. SumFunction(f) = SumFunctionOnSet(f, Accounts) /\ SumFunction(g) = SumFunctionOnSet(g, Accounts)
    BY DEF SumFunction
  <2>3. Given(db, a) = SumFunction(f) /\ Received(db, a) = SumFunction(g)
    BY DEF Given, Received
  <2> HIDE DEF f, g
  <2>4. SumFunctionOnSet(f, Accounts) = 0 /\ SumFunctionOnSet(g, Accounts) = 0
    BY <2>1, Finite, SumZero
  <2> QED
    BY <1>4, <1>7, <1>13, <2>2, <2>3, <2>4
<1>17. Bounded(db, looped)
  <2>1. ASSUME NEW a \in Accounts PROVE WithdrawalOK(db, a, looped)
    <3>1. db.rate[a] = 0 /\ db.next[a] = Never /\ db.withdrawn[a] = 0 /\ db.to_withdraw[a] = 0
      BY <1>4, <1>13
    <3> QED
      BY <3>1 DEF WithdrawalOK
  <2> QED
    BY <2>1 DEF Bounded
<1>18. RoutesOK(db, looped)
  <2> DEFINE f(a) == [r \in {r \in {} : r.from = a} |-> r.percent]
  <2>1. ASSUME NEW a \in Accounts PROVE Granted(db, a) <= Percent100
    <3>1. Granted(db, a) = SumFunction(f(a))
      BY <1>13 DEF Granted
    <3>2. SumFunction(f(a)) = SumFunctionOnSet(f(a), {})
      BY DEF SumFunction
    <3> HIDE DEF f
    <3>3. SumFunctionOnSet(f(a), {}) = 0
      BY FS_EmptySet, SumZero
    <3> QED
      BY <3>1, <3>2, <3>3, QiLedgerAssumption
  <2> QED
    BY <1>13, <2>1, FS_EmptySet DEF RoutesOK
<1>19. claimed = FALSE /\ Counted(db, claimed)
  BY <1>12, <1>13, InitCounted DEF Init, qi
<1>20. Sound(db, looped)
  BY <1>14, <1>15, <1>16, <1>17, <1>18 DEF Sound
<1>21. db.ok
  BY <1>13
<1>22. now \in 0 .. MaxBlocks
  BY <1>0, <1>1
<1>23. claimed \in BOOLEAN
  BY <1>19
<1> QED
  BY <1>12, <1>19, <1>20, <1>21, <1>22, <1>23 DEF QiInv

-----------------------------------------------------------------------------
(* The theorems. *)

LEMMA NextStep ==
    ASSUME QiInv, [Next]_vars
    PROVE  QiInv'
<1>1. CASE UNCHANGED vars
  BY <1>1 DEF vars, history, QiInv
<1>2. CASE Operation
  <2>1. ASSUME NEW a \in Users, NEW b \in Accounts, NEW x \in Amounts,
               Transfer(a, b, x) \/ TransferToQi(a, b, x) \/ CallContract(a, b, x)
        PROVE  QiInv'
    BY <2>1, TransferStep, TransferToQiStep, CallContractStep
  <2>2. ASSUME NEW a \in Users, NEW b \in Accounts, NEW x \in Shares, DelegateQi(a, b, x)
        PROVE  QiInv'
    BY <2>2, DelegateQiStep
  <2>3. ASSUME NEW a \in Users, NEW x \in Amounts, WithdrawQi(a, x) \/ ClaimFeigang(a, x)
        PROVE  QiInv'
    BY <2>3, WithdrawQiStep, ClaimFeigangStep
  <2>4. ASSUME NEW a \in Users, NEW b \in Accounts, NEW p \in Percents, NEW vest \in BOOLEAN,
               SetRoute(a, b, p, vest)
        PROVE  QiInv'
    BY <2>4, SetRouteStep
  <2>5. ASSUME NEW a \in Users, NEW p \in Accounts \cup {None}, SetProxy(a, p)
        PROVE  QiInv'
    BY <2>5, SetProxyStep
  <2>6. ASSUME NEW a \in Users, NEW s \in Simings, NEW approve \in BOOLEAN,
               Adore(a, s, approve)
        PROVE  QiInv'
    BY <2>6, AdoreStep
  <2>7. ASSUME NEW a \in Users, NEW on \in BOOLEAN, RequestDecline(a, on)
        PROVE  QiInv'
    BY <2>7, RequestDeclineStep
  <2> QED
    BY <1>2, <2>1, <2>2, <2>3, <2>4, <2>5, <2>6, <2>7 DEF Operation
<1>3. ASSUME NEW s \in Simings, ApplyBlock(s) PROVE QiInv'
  BY <1>3, ApplyBlockStep
<1> QED
  BY <1>1, <1>2, <1>3 DEF Next

\* Types, the columns of amounts never negative, the totals that are those of
\* the accounts, the worth that is the supply, the two sides of every
\* delegation, the course of every withdrawal, and the levels and adores as they
\* are counted along the proxies, are invariants of all evaluators and of the
\* maintenance of a block (taiyi_evaluator.cpp, _apply_block()), for any
\* accounts, amounts and constants.
THEOREM QiInvariant == Spec => []QiInv
<1>1. Init => QiInv
  BY InitStep
<1>2. QiInv /\ [Next]_vars => QiInv'
  BY NextStep
<1> QED
  BY <1>1, <1>2, PTL DEF Spec

LEMMA DelegatedNat ==
    ASSUME QiInv, NEW a \in Accounts
    PROVE  db.delegated[a] \in Nat /\ db.received[a] \in Nat
<1> DEFINE f == [b \in Accounts |-> db.delegation[<<a, b>>]]
           g == [b \in Accounts |-> db.delegation[<<b, a>>]]
<1>1. f \in [Accounts -> Nat] /\ g \in [Accounts -> Nat]
  BY DEF QiInv, Ledger
<1>2. Given(db, a) = SumFunction(f) /\ Received(db, a) = SumFunction(g)
  BY DEF Given, Received
<1> HIDE DEF f, g
<1>3. f \in [Accounts -> Int] /\ g \in [Accounts -> Int]
  BY <1>1
<1>4. SumFunction(f) \in Nat /\ SumFunction(g) \in Nat
  BY <1>1, <1>3, Total
<1>5. SumFunction(db.returning[a]) \in Nat
  BY ReturningType DEF QiInv
<1>6. /\ db.delegated[a] = Given(db, a) + SumFunction(db.returning[a])
      /\ db.received[a] = Received(db, a)
  BY DEF QiInv, Sound, Balanced
<1> QED
  BY <1>2, <1>4, <1>5, <1>6

LEMMA InvTypes == QiInv => TypeOK
<1> SUFFICES ASSUME QiInv PROVE TypeOK
  OBVIOUS
<1>1. db \in Ledger /\ db.ok /\ Positive(db) /\ Accounted(db)
  BY DEF QiInv, Sound
<1>2. db.delegated \in [Accounts -> Nat] /\ db.received \in [Accounts -> Nat]
  <2>1. db.delegated \in [Accounts -> Int] /\ db.received \in [Accounts -> Int]
    BY <1>1 DEF Ledger
  <2> QED
    BY <2>1, DelegatedNat
<1>3. /\ db.balance \in [Accounts -> Nat] /\ db.qi \in [Accounts -> Nat]
      /\ db.feigang \in [Accounts -> Nat] /\ db.withdrawn \in [Accounts -> Nat]
  BY <1>1 DEF Positive
<1>4. /\ db.rate \in [Accounts -> Nat] /\ db.to_withdraw \in [Accounts -> Nat]
      /\ db.proxy \in [Accounts -> Accounts \cup {None}]
      /\ db.proxied \in [Accounts -> [Levels -> Int]]
      /\ db.can_adore \in [Accounts -> BOOLEAN]
      /\ db.next \in [Accounts -> Times] /\ db.decline \in [Accounts -> Times]
      /\ db.adored \subseteq Users \X Simings /\ db.adores \in [Simings -> Int]
      /\ db.delegation \in [Accounts \X Accounts -> Nat]
      /\ db.returning \in [Accounts -> [Times -> Nat]]
      /\ db.fund_yang \in Nat /\ db.fund_qi \in Nat
      /\ db.supply \in Nat /\ db.lost \in Nat
  BY <1>1 DEF Ledger
<1>5. db.routes \subseteq [from : Users, to : Users, percent : 1 .. Percent100,
                           auto_vest : BOOLEAN]
  BY <1>1 DEF Ledger, Routes
<1>6. db.total_qi \in Nat /\ db.pending_feigang \in Nat
  <2>1. db.qi \in [Accounts -> Int] /\ db.feigang \in [Accounts -> Int]
    BY <1>3
  <2>2. SumFunction(db.qi) \in Nat /\ SumFunction(db.feigang) \in Nat
    BY <1>3, <2>1, Total
  <2> QED
    BY <1>1, <2>2 DEF Accounted
<1>7. \A f \in {"balance", "qi", "delegated", "received", "rate", "to_withdraw",
                "withdrawn", "feigang"} : db[f] \in [Accounts -> Nat]
  BY <1>2, <1>3, <1>4
<1> QED
  BY <1>1, <1>4, <1>5, <1>6, <1>7 DEF TypeOK

\* No balance, share of qi, delegation, rate or total ever gets below zero, and
\* every table keeps its type, whatever is paid, converted, delegated, withdrawn
\* by routes or created by blocks.
THEOREM TypeCorrect == Spec => []TypeOK
BY QiInvariant, InvTypes, PTL

\* The totals of the global properties are those of the accounts, and what the
\* accounts and the fund hold is worth current_supply exactly, once the qi that
\* the conversions of withdrawals and of their routes dropped is added: nothing
\* else is lost and nothing is made. The assertion of validate_invariants() is
\* this without what was dropped, and so it holds until a conversion drops some.
THEOREM SupplyIsAccounted == Spec => []SupplyAccounted
<1>1. QiInv => SupplyAccounted
  <2> SUFFICES ASSUME QiInv PROVE SupplyAccounted
    OBVIOUS
  <2>1. Accounted(db)
    BY DEF QiInv, Sound
  <2>2. HeldWith(db.lost) = Worth(db)
    BY <2>1 DEF HeldWith, Worth, Accounted
  <2> QED
    BY <2>1, <2>2 DEF Accounted, SupplyAccounted
<1> QED
  BY <1>1, QiInvariant, PTL

\* What an account has delegated is in its delegations or on its way back, what
\* it has received is in the delegations of others: no order of changes, returns
\* and blocks loses or doubles a share (delegate_qi_evaluator,
\* clear_expired_delegations()).
THEOREM DelegationsAlwaysBalance == Spec => []DelegationsBalance
<1>1. QiInv => DelegationsBalance
  BY DEF QiInv, Sound, Balanced, Given, Received, DelegationsBalance
<1> QED
  BY <1>1, QiInvariant, PTL

LEMMA IntervalsLeft ==
    ASSUME NEW m \in Nat \ {0}, NEW x \in Nat, NEW w \in Nat, NEW n \in Nat, x <= m * n
    PROVE  x - w <= m * (n - (w \div m))
<1> DEFINE k == w \div m
<1>1. k \in Nat /\ m * k <= w
  OBVIOUS
<1> HIDE DEF k
<1>2. m * (n - k) = m * n - m * k
  BY <1>1
<1>3. m * n \in Nat /\ m * k \in Nat
  BY <1>1
<1> QED
  BY <1>1, <1>2, <1>3 DEF k

\* A withdrawal pays what was asked for and no more, is due exactly while it has
\* a rate, and ends within the intervals (process_qi_withdrawals(),
\* withdraw_qi_evaluator); the account that pays itself by a route may get less
\* than one rate more.
THEOREM WithdrawalsStayBounded == Spec => []WithdrawalsBounded
<1>1. QiInv => WithdrawalsBounded
  <2> SUFFICES ASSUME QiInv, NEW a \in Accounts
               PROVE  /\ IF a \in looped
                         THEN db.withdrawn[a] < db.to_withdraw[a] + WithdrawRate(db.to_withdraw[a])
                         ELSE db.withdrawn[a] <= db.to_withdraw[a]
                      /\ (db.next[a] = Never) = (db.rate[a] = 0)
                      /\ db.rate[a] # 0 =>
                           db.to_withdraw[a] - db.withdrawn[a]
                             <= db.rate[a] * (Intervals - (db.withdrawn[a] \div db.rate[a]))
    BY DEF WithdrawalsBounded
  <2>1. WithdrawalOK(db, a, looped)
    BY DEF QiInv, Sound, Bounded
  <2> DEFINE x == db.to_withdraw[a]
             w == db.withdrawn[a]
             m == db.rate[a]
             r == WithdrawRate(x)
  <2>2. x \in Nat /\ w \in Nat /\ m \in Nat
    BY DEF QiInv, Ledger, Sound, Positive
  <2>3. Intervals \in Nat
    BY QiLedgerAssumption
  <2>4. r \in Nat \ {0} /\ x <= r * Intervals
    BY <2>2, WithdrawRateType
  <2>5. /\ (db.next[a] = Never) = (m = 0)
        /\ m # 0 => m = r
        /\ w <= x \/ (a \in looped /\ w < x + r)
    BY <2>1 DEF WithdrawalOK
  <2> HIDE DEF x, w, m, r
  <2>6. m # 0 => x - w <= m * (Intervals - (w \div m))
    BY <2>2, <2>3, <2>4, <2>5, IntervalsLeft
  <2>7. w < x + r \/ ~(w <= x)
    BY <2>2, <2>4
  <2> QED
    BY <2>5, <2>6, <2>7 DEF x, w, m, r
<1> QED
  BY <1>1, QiInvariant, PTL

\* The levels that adjust_proxied_siming_adores() keeps up to date, and the
\* adores of the simings, are a recount of the qi that is proxied and adored,
\* for every depth of proxies and any order of operations and blocks; once
\* feigang was claimed they are never less (claim_reward_balance_evaluator).
THEOREM WeightsAlwaysRecount == Spec => []WeightsRecount
<1>1. QiInv => WeightsRecount
  <2> SUFFICES ASSUME QiInv PROVE WeightsRecount
    OBVIOUS
  <2> DEFINE up == [b \in Accounts |-> Up(db, b)]
             level(a, i) == SumFunctionOnSet(db.qi, {b \in Accounts : up[b][i + 1] = a})
             fits(x, y) == IF claimed THEN x >= y ELSE x = y
  <2>1. db \in Ledger /\ Counted(db, claimed)
    BY DEF QiInv
  <2>2. ASSUME NEW a \in Accounts, NEW i \in Levels PROVE fits(db.proxied[a][i], level(a, i))
    <3>1. Fits(claimed, db.proxied[a][i] - Level(db, a, i))
      BY <2>1, CountedLevels
    <3>2. {b \in Accounts : up[b][i + 1] = a} = {b \in Accounts : Up(db, b)[i + 1] = a}
      OBVIOUS
    <3>3. level(a, i) = Level(db, a, i)
      BY <3>2 DEF Level
    <3>4. db.proxied[a][i] \in Int /\ Level(db, a, i) \in Int
      BY <2>1, LevelParts DEF Ledger
    <3> DEFINE x == db.proxied[a][i]
               y == Level(db, a, i)
    <3> HIDE DEF x, y, level
    <3>5. x \in Int /\ y \in Int /\ Fits(claimed, x - y)
      BY <3>1, <3>4 DEF x, y
    <3>6. fits(x, y)
      BY <3>5 DEF Fits
    <3> QED
      BY <3>3, <3>6 DEF x, y
  <2>3. ASSUME NEW s \in Simings PROVE fits(db.adores[s], AdoredWeight(s))
    <3> DEFINE A == {a \in Accounts : <<a, s>> \in db.adored}
               f == [a \in A |-> Weight(db, a)]
               g == [a \in Accounts |-> Weight(db, a)]
    <3>1. AdoredWeight(s) = SumFunction(f) /\ SumFunction(f) = SumFunctionOnSet(f, A)
      BY DEF AdoredWeight, SumFunction
    <3>2. AdoreOver(db, s) = db.adores[s] - SumFunctionOnSet(g, A)
      BY DEF AdoreOver, Adorers
    <3>3. A \subseteq Accounts /\ IsFiniteSet(A)
      BY Finite, FS_Subset
    <3>4. \A a \in A : f[a] \in Int /\ f[a] = g[a]
      BY <2>1, <3>3, PassedType
    <3>5. db.adores[s] \in Int
      BY <2>1 DEF Ledger
    <3>6. Fits(claimed, AdoreOver(db, s))
      BY <2>1 DEF Counted
    <3> HIDE DEF A, f, g
    <3>7. SumFunctionOnSet(f, A) = SumFunctionOnSet(g, A)
      BY <3>3, <3>4, SumSame
    <3>8. SumFunctionOnSet(f, A) \in Int
      BY <3>3, <3>4, SumStep
    <3> DEFINE x == db.adores[s]
               y == SumFunctionOnSet(f, A)
    <3> HIDE DEF x, y
    <3>9. x \in Int /\ y \in Int /\ Fits(claimed, x - y) /\ AdoredWeight(s) = y
      BY <3>1, <3>2, <3>5, <3>6, <3>7, <3>8 DEF x, y
    <3>10. fits(x, y)
      BY <3>9 DEF Fits
    <3> QED
      BY <3>9, <3>10 DEF x
  <2> HIDE DEF fits, level, up
  <2> QED
    BY <2>2, <2>3 DEF WeightsRecount, fits, level, up
<1> QED
  BY <1>1, QiInvariant, PTL

\* As long as no feigang was claimed and no route deposits qi, the next block
\* can always be applied: nothing that clear_expired_delegations(),
\* process_funds(), process_qi_withdrawals() and
\* process_decline_adoring_rights() do fails the assertion of
\* adjust_siming_adore() that a siming has no more adores than there is qi.
THEOREM BlocksAreNotRefused == Spec => []BlockNotRefused
<1>1. QiInv => BlockNotRefused
  <2> SUFFICES ASSUME QiInv, ~claimed, \A r \in db.routes : ~r.auto_vest, NEW s \in Simings
               PROVE  Maintained(db, now + 1, s).ok
    BY DEF BlockNotRefused
  <2> DEFINE t == now + 1
             e == Maintained(db, t, s)
  <2>1. db \in Ledger /\ db.ok /\ Sound(db, looped) /\ Counted(db, FALSE) /\ Plain(db)
    <3>1. claimed = FALSE
      BY DEF QiInv
    <3> QED
      BY <3>1 DEF QiInv, Plain
  <2>2. t \in 0 .. MaxBlocks + 1
    BY Clock DEF QiInv
  <2> HIDE DEF t
  <2>3. Kept(db, e, looped)
    BY <2>1, <2>2, MaintainedKept
  <2> HIDE DEF e
  <2>4. e.ok
    BY <2>1, <2>3 DEF Kept
  <2> QED
    BY <2>4 DEF e, t
<1> QED
  BY <1>1, QiInvariant, PTL
=============================================================================
