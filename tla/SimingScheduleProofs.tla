-------------------------- MODULE SimingScheduleProofs --------------------------
(****************************************************************************)
(* Proofs about SimingSchedule for every set of simings, every length of    *)
(* the schedule, every order in which it is shuffled and whoever is silent: *)
(* type correctness, that blocks become irreversible only with the          *)
(* confirmations the threshold asks for and never become reversible again,  *)
(* that taking keys away never leaves a schedule in which nobody can make a *)
(* block, and how far behind the head the last irreversible block can stay. *)
(****************************************************************************)
EXTENDS SimingSchedule, FiniteSetTheorems, SequenceTheorems, TLAPS

\* The last confirmation of a siming is a block that it made.
ConfirmedIsOwn == \A w \in Simings : confirmed[w] # 0 => chain[confirmed[w]] = w

\* Before adoring starts the last irreversible block is a round behind.
EarlyLag ==
    head < StartAdoring => irreversible <= IF head > MaxSimings THEN head - MaxSimings ELSE 0

ScheduleInv == TypeOK /\ ConfirmedIsOwn /\ EarlyLag

\* What the transactions of a block may have made of keys and adores: whoever
\* had a key has it still or has resigned.
Outcome ==
    {o \in [key : [Simings -> KeyStates], adores : [Simings -> Adores]] :
        \A w \in Simings : key[w] = "own" => o.key[w] \in {"own", "resigned"}}

-----------------------------------------------------------------------------
(* Every step is a block. *)

LEMMA Outcomes ==
    ASSUME TypeOK
    PROVE  {Unchanged} \cup Registered \cup Resigned \cup Adored \subseteq Outcome
<1>1. key \in [Simings -> KeyStates] /\ adores \in [Simings -> Adores]
  BY DEF TypeOK
<1>2. Unchanged \in Outcome
  BY <1>1 DEF Unchanged, Outcome
<1>3. Registered \subseteq Outcome
  BY <1>1 DEF Unchanged, Outcome, Registered, KeyStates
<1>4. Resigned \subseteq Outcome
  BY <1>1 DEF Unchanged, Outcome, Resigned, KeyStates
<1>5. Adored \subseteq Outcome
  BY <1>1 DEF Unchanged, Outcome, Adored
<1> QED
  BY <1>2, <1>3, <1>4, <1>5

LEMMA StepIsBlock ==
    ASSUME TypeOK, Next
    PROVE  /\ \E o \in Outcome : Produce(o)
           /\ changes' \in 0 .. MaxChanges
<1>1. CASE Block
  BY <1>1, Outcomes DEF Block, TypeOK
<1>2. ASSUME NEW outcomes, outcomes \subseteq Outcome, BlockWithChange(outcomes)
      PROVE  (\E o \in Outcome : Produce(o)) /\ changes' \in 0 .. MaxChanges
  BY <1>2, ParametersAssumption DEF BlockWithChange, TypeOK
<1> QED
  BY <1>1, <1>2, Outcomes DEF Next, Register, Resign, Adore

\* A slot belongs to somebody that is scheduled.
LEMMA SlotHasSiming ==
    ASSUME TypeOK, NEW slot \in Nat
    PROVE  /\ \E i \in DOMAIN schedule : GetScheduledSiming(slot) = schedule[i]
           /\ GetScheduledSiming(slot) \in Simings
<1> DEFINE n == Len(schedule)
<1>1. schedule \in Seq(Simings) /\ n \in Nat /\ n > 0
  BY DEF TypeOK
<1>2. aslot + slot \in Nat
  BY DEF TypeOK
<1>3. (aslot + slot) % n \in 0 .. n - 1
  BY <1>1, <1>2
<1>4. ((aslot + slot) % n) + 1 \in DOMAIN schedule
  BY <1>1, <1>3
<1> QED
  BY <1>1, <1>4 DEF GetScheduledSiming

\* What a block does, with the facts about its producer and the outcome of its
\* transactions that the proofs below need.
LEMMA BlockFacts ==
    ASSUME TypeOK, NEW o \in Outcome, Produce(o)
    PROVE  \E missed \in Nat, p \in Simings :
             /\ \E i \in DOMAIN schedule : p = schedule[i]
             /\ p \notin Overdue(missed, p)
             /\ CountSteady(missed)
             /\ Apply(missed, p, o)
             /\ silent' = silent
<1>1. PICK missed \in 0 .. MaxMissed :
        CountSteady(missed) /\ Apply(missed, GetScheduledSiming(missed + 1), o)
  BY DEF Produce
<1>2. missed \in Nat /\ missed + 1 \in Nat
  BY ParametersAssumption
<1> DEFINE p == GetScheduledSiming(missed + 1)
<1>3. p \in Simings /\ \E i \in DOMAIN schedule : p = schedule[i]
  BY <1>2, SlotHasSiming
<1>4. p \notin Overdue(missed, p)
  BY DEF Overdue
<1> HIDE DEF p
<1>5. Apply(missed, p, o)
  BY <1>1 DEF p
<1> QED
  BY <1>1, <1>2, <1>3, <1>4, <1>5 DEF Produce

-----------------------------------------------------------------------------
(* Counting confirmations. *)

\* The positions of the schedule whose simings have confirmed a block or more.
Confirming(c, n) == {j \in DOMAIN schedule : c[schedule[j]] >= n}

\* The rank leaves no less than the threshold above it.
LEMMA OffsetMeetsThreshold ==
    ASSUME NEW n \in Nat
    PROVE  /\ Offset(n) \in Nat
           /\ (n - Offset(n)) * OneHundredPercent >= IrreversibleThreshold * n
<1>1. (25 * n) \div 100 \in Nat /\ 100 * ((25 * n) \div 100) <= 25 * n
  OBVIOUS
<1>2. Offset(n) = (25 * n) \div 100
  BY DEF Offset, OneHundredPercent, IrreversibleThreshold
<1> QED
  BY <1>1, <1>2 DEF OneHundredPercent, IrreversibleThreshold

LEMMA MoreIsEnough ==
    ASSUME NEW few \in Nat, NEW many \in Nat, NEW n \in Nat, few <= many,
           few * OneHundredPercent >= IrreversibleThreshold * n
    PROVE  many * OneHundredPercent >= IrreversibleThreshold * n
BY DEF OneHundredPercent, IrreversibleThreshold

\* At the rank that decides, enough of the schedule have confirmed.
LEMMA RankHasQuorum ==
    ASSUME TypeOK, NEW c \in [Simings -> Nat], NEW i \in DOMAIN schedule,
           AtRank(c, i, Offset(Len(schedule)))
    PROVE  /\ IsFiniteSet(Confirming(c, c[schedule[i]]))
           /\ Cardinality(Confirming(c, c[schedule[i]])) * OneHundredPercent
                >= IrreversibleThreshold * Len(schedule)
<1> DEFINE v == c[schedule[i]]
           D == DOMAIN schedule
           B == {j \in D : c[schedule[j]] < v}
           n == Len(schedule)
<1>1. schedule \in Seq(Simings) /\ D = 1 .. n /\ n \in Nat
  BY DEF TypeOK
<1>2. IsFiniteSet(D) /\ Cardinality(D) = n
  <2> HIDE DEF D, n
  <2>1. IsFiniteSet(1 .. n) /\ Cardinality(1 .. n) = IF 1 > n THEN 0 ELSE n - 1 + 1
    BY <1>1, FS_Interval
  <2>2. Cardinality(1 .. n) = n
    BY <1>1, <2>1
  <2> QED
    BY <1>1, <2>1, <2>2
<1>3. IsFiniteSet(B) /\ Cardinality(B) \in Nat
  BY <1>2, FS_Subset, FS_CardinalityType
<1>4. Confirming(c, v) = D \ B
  <2>1. \A j \in D : c[schedule[j]] \in Nat
    BY <1>1
  <2> QED
    BY <2>1, <1>1 DEF Confirming
<1>5. IsFiniteSet(D \ B) /\ Cardinality(D \ B) = n - Cardinality(B)
  <2>1. B \subseteq D
    OBVIOUS
  <2>2. Cardinality(D \ B) = Cardinality(D) - Cardinality(D \cap B)
    BY <1>2, FS_Difference
  <2>3. D \cap B = B
    BY <2>1
  <2> QED
    BY <1>2, <2>2, <2>3, FS_Subset
<1>6. Cardinality(B) <= Offset(n)
  BY DEF AtRank
<1>7. /\ Offset(n) \in Nat
      /\ (n - Offset(n)) * OneHundredPercent >= IrreversibleThreshold * n
  BY <1>1, OffsetMeetsThreshold
<1>8. (n - Cardinality(B)) * OneHundredPercent >= (n - Offset(n)) * OneHundredPercent
  BY <1>1, <1>3, <1>6, <1>7 DEF OneHundredPercent
<1>9. (n - Cardinality(B)) * OneHundredPercent >= IrreversibleThreshold * n
  BY <1>1, <1>3, <1>7, <1>8 DEF OneHundredPercent, IrreversibleThreshold
<1> QED
  BY <1>4, <1>5, <1>9

-----------------------------------------------------------------------------
(* The parts of the invariant, one block at a time. *)

\* The confirmations after a block, and what is known of them.
Confirmed(p) == [confirmed EXCEPT ![p] = head + 1]

LEMMA ConfirmedFacts ==
    ASSUME TypeOK, ConfirmedIsOwn, NEW p \in Simings, chain' = Append(chain, p)
    PROVE  /\ chain' \in Seq(Simings) /\ Len(chain') = head + 1 /\ head \in Nat
           /\ Confirmed(p) \in [Simings -> 0 .. head + 1]
           /\ \A w \in Simings : Confirmed(p)[w] # 0 => chain'[Confirmed(p)[w]] = w
<1>1. chain \in Seq(Simings) /\ confirmed \in [Simings -> 0 .. head] /\ head \in Nat
  BY DEF TypeOK, head
<1>2. chain' \in Seq(Simings) /\ Len(chain') = head + 1
  BY <1>1 DEF head
<1>3. Confirmed(p) \in [Simings -> 0 .. head + 1]
  BY <1>1 DEF Confirmed
<1>4. ASSUME NEW w \in Simings, Confirmed(p)[w] # 0
      PROVE  chain'[Confirmed(p)[w]] = w
  <2>1. CASE w = p
    <3>1. Confirmed(p)[w] = Len(chain) + 1
      BY <1>1, <2>1 DEF Confirmed, head
    <3> QED
      BY <1>1, <2>1, <3>1
  <2>2. CASE w # p
    <3>1. Confirmed(p)[w] = confirmed[w] /\ confirmed[w] \in 1 .. Len(chain)
      BY <1>1, <1>4, <2>2 DEF Confirmed, head
    <3> QED
      BY <1>1, <1>4, <3>1 DEF ConfirmedIsOwn
  <2> QED
    BY <2>1, <2>2
<1> QED
  BY <1>1, <1>2, <1>3, <1>4

\* The last irreversible block after a block: where it is, and who is behind it.
LEMMA IrreversibleStep ==
    ASSUME TypeOK, ConfirmedIsOwn, EarlyLag, NEW p \in Simings,
           chain' = Append(chain, p), UpdateLastIrreversibleBlock(Confirmed(p))
    PROVE  /\ irreversible' \in irreversible .. Len(chain')
           /\ Len(chain') < StartAdoring =>
                irreversible' <= IF Len(chain') > MaxSimings THEN Len(chain') - MaxSimings
                                                             ELSE 0
           /\ (irreversible' # irreversible /\ Len(chain') >= StartAdoring) =>
                Cardinality(Behind(irreversible')) * OneHundredPercent
                  >= IrreversibleThreshold * Len(schedule)
<1> DEFINE c == Confirmed(p)
<1>1. /\ Len(chain') = head + 1 /\ head \in Nat
      /\ c \in [Simings -> 0 .. head + 1]
      /\ \A w \in Simings : c[w] # 0 => chain'[c[w]] = w
      /\ UpdateLastIrreversibleBlock(c)
  BY ConfirmedFacts
<1>2. irreversible \in 0 .. head /\ MaxSimings \in Nat \ {0} /\ StartAdoring \in Nat
  BY ParametersAssumption DEF TypeOK
<1>3. schedule \in Seq(Simings)
  BY DEF TypeOK
<1> HIDE DEF c
<1>4. CASE Len(chain') < StartAdoring
  <2>1. irreversible' = IF head + 1 > MaxSimings THEN head + 1 - MaxSimings ELSE irreversible
    BY <1>1, <1>2, <1>4 DEF UpdateLastIrreversibleBlock
  <2>2. irreversible <= IF head > MaxSimings THEN head - MaxSimings ELSE 0
    BY <1>1, <1>2, <1>4 DEF EarlyLag
  <2> QED
    BY <1>1, <1>2, <1>4, <2>1, <2>2
<1>5. CASE ~(Len(chain') < StartAdoring)
  <2>1. PICK i \in DOMAIN schedule :
          /\ AtRank(c, i, Offset(Len(schedule)))
          /\ irreversible' = IF c[schedule[i]] > irreversible THEN c[schedule[i]]
                                                              ELSE irreversible
    BY <1>1, <1>5 DEF UpdateLastIrreversibleBlock
  <2>2. c[schedule[i]] \in 0 .. head + 1
    BY <1>1, <1>3
  <2>3. irreversible' \in irreversible .. Len(chain')
    BY <1>1, <1>2, <2>1, <2>2
  <2>4. ASSUME irreversible' # irreversible
        PROVE  Cardinality(Behind(irreversible')) * OneHundredPercent >= IrreversibleThreshold * Len(schedule)
    <3>1. irreversible' = c[schedule[i]] /\ irreversible' > 0
      BY <1>2, <2>1, <2>2, <2>4
    <3>2. c \in [Simings -> Nat]
      BY <1>1
    <3>3. /\ IsFiniteSet(Confirming(c, irreversible'))
          /\ Cardinality(Confirming(c, irreversible')) * OneHundredPercent
                >= IrreversibleThreshold * Len(schedule)
      BY <2>1, <3>1, <3>2, RankHasQuorum
    <3>4. Confirming(c, irreversible') \subseteq Behind(irreversible')
      <4> SUFFICES ASSUME NEW j \in DOMAIN schedule, c[schedule[j]] >= irreversible'
                   PROVE  \E n \in irreversible' .. Len(chain') : chain'[n] = schedule[j]
        BY DEF Confirming, Behind
      <4>1. schedule[j] \in Simings
        BY <1>3
      <4>2. c[schedule[j]] \in irreversible' .. Len(chain') /\ c[schedule[j]] # 0
        BY <1>1, <2>2, <3>1, <4>1
      <4> QED
        BY <1>1, <4>1, <4>2
    <3>5. IsFiniteSet(Behind(irreversible'))
      <4>1. DOMAIN schedule = 1 .. Len(schedule) /\ Len(schedule) \in Nat
        BY <1>3
      <4>2. IsFiniteSet(DOMAIN schedule)
        BY <4>1, FS_Interval
      <4>3. Behind(irreversible') \subseteq DOMAIN schedule
        BY DEF Behind
      <4> QED
        BY <4>2, <4>3, FS_Subset
    <3>6. /\ Cardinality(Confirming(c, irreversible')) <= Cardinality(Behind(irreversible'))
          /\ Cardinality(Confirming(c, irreversible')) \in Nat
          /\ Cardinality(Behind(irreversible')) \in Nat
      BY <3>3, <3>4, <3>5, FS_Subset, FS_CardinalityType
    <3>7. Len(schedule) \in Nat
      BY <1>3
    <3> QED
      BY <3>3, <3>6, <3>7, MoreIsEnough
  <2> QED
    BY <1>5, <2>3, <2>4
<1> QED
  BY <1>4, <1>5

\* The schedule after a block: that of before, or a new one of simings with keys.
LEMMA ScheduleStep ==
    ASSUME TypeOK, NEW k, NEW a, UpdateSimingSchedule(k, a)
    PROVE  /\ schedule' \in Seq(Simings) /\ schedule' # <<>>
           /\ \A i, j \in DOMAIN schedule' : schedule'[i] = schedule'[j] => i = j
           /\ \/ schedule' = schedule
              \/ \E i \in DOMAIN schedule' : k[schedule'[i]] = "own"
<1>1. CASE schedule' = schedule
  BY <1>1 DEF TypeOK
<1>2. CASE Elected(k, a) # {} /\ schedule' \in Shuffles(Elected(k, a))
  <2>1. schedule' \in Seq(Simings) /\ {schedule'[i] : i \in DOMAIN schedule'} = Elected(k, a)
    BY <1>2, SimingsAssumption DEF Shuffles
  <2>2. PICK w \in Elected(k, a) : k[w] = "own"
    BY <1>2 DEF Elected
  <2>3. PICK i \in DOMAIN schedule' : schedule'[i] = w
    BY <2>1, <2>2
  <2>4. schedule' # <<>>
    BY <2>3
  <2>5. \A i_1, j \in DOMAIN schedule' : schedule'[i_1] = schedule'[j] => i_1 = j
    BY <1>2 DEF Shuffles
  <2> QED
    BY <2>1, <2>2, <2>3, <2>4, <2>5
<1> QED
  BY <1>1, <1>2 DEF UpdateSimingSchedule

\* The counters of the instance stay in their types.
LEMMA CountersStep ==
    ASSUME TypeOK, NEW missed \in Nat, CountSteady(missed)
    PROVE  steady' \in 0 .. Window /\ slips' \in Nat
<1>1. IsFiniteSet(1 .. missed)
  BY FS_Interval
<1>2. Slipped(missed) \subseteq 1 .. missed
  BY DEF Slipped
<1>3. Cardinality(Slipped(missed)) \in Nat
  BY <1>1, <1>2, FS_Subset, FS_CardinalityType
<1>4. slips' \in Nat
  BY <1>3 DEF CountSteady, TypeOK
<1>5. Window \in Nat
  BY ParametersAssumption DEF Window
<1> QED
  BY <1>4, <1>5 DEF CountSteady, TypeOK

-----------------------------------------------------------------------------
(* The invariant. *)

LEMMA InitInv == Init => ScheduleInv
<1> SUFFICES ASSUME Init PROVE ScheduleInv
  OBVIOUS
<1>1. chain = <<>> /\ chain \in Seq(Simings) /\ head = 0
  BY DEF Init, head
<1>2. schedule \in Seq(Simings) /\ schedule # <<>> /\ DOMAIN schedule = 1 .. 1
  BY SimingsAssumption DEF Init
<1>3. /\ key \in [Simings -> KeyStates] /\ adores \in [Simings -> Adores]
      /\ confirmed \in [Simings -> 0 .. 0]
  BY SimingsAssumption DEF Init, KeyStates
<1>4. aslot = 0 /\ irreversible = 0 /\ steady = 0 /\ slips = 0 /\ changes = 0
  BY DEF Init
<1>5. Window \in Nat /\ MaxChanges \in Nat /\ MaxSimings \in Nat
  BY ParametersAssumption DEF Window
<1>6. TypeOK
  BY <1>1, <1>2, <1>3, <1>4, <1>5 DEF TypeOK, Init
<1>7. ConfirmedIsOwn
  BY DEF Init, ConfirmedIsOwn
<1>8. EarlyLag
  BY <1>1, <1>4, <1>5 DEF EarlyLag
<1> QED
  BY <1>6, <1>7, <1>8 DEF ScheduleInv

LEMMA NextInv ==
    ASSUME ScheduleInv, [Next]_vars
    PROVE  ScheduleInv'
<1>1. CASE UNCHANGED vars
  BY <1>1
  DEF vars, ScheduleInv, TypeOK, ConfirmedIsOwn, EarlyLag, head
<1>2. CASE Next
  <2>1. TypeOK /\ ConfirmedIsOwn /\ EarlyLag
    BY DEF ScheduleInv
  <2>2. PICK o \in Outcome : Produce(o)
    BY <1>2, <2>1, StepIsBlock
  <2>3. changes' \in 0 .. MaxChanges
    BY <1>2, <2>1, StepIsBlock
  <2>4. PICK missed \in Nat, p \in Simings :
          CountSteady(missed) /\ Apply(missed, p, o) /\ silent' = silent
    BY <2>1, <2>2, BlockFacts
  <2>5. /\ chain' = Append(chain, p)
        /\ aslot' = aslot + missed + 1
        /\ key' = ShutDown(o.key, Overdue(missed, p))
        /\ adores' = o.adores
        /\ confirmed' = Confirmed(p)
        /\ UpdateLastIrreversibleBlock(Confirmed(p))
        /\ UpdateSimingSchedule(ShutDown(o.key, Overdue(missed, p)), o.adores)
    BY <2>4 DEF Apply, Confirmed
  <2>6. /\ chain' \in Seq(Simings) /\ Len(chain') = head + 1 /\ head \in Nat
        /\ confirmed' \in [Simings -> 0 .. head + 1]
        /\ \A w \in Simings : confirmed'[w] # 0 => chain'[confirmed'[w]] = w
    BY <2>1, <2>5, ConfirmedFacts
  <2>7. head' = head + 1
    BY <2>6 DEF head
  <2>8. /\ irreversible' \in irreversible .. Len(chain')
        /\ Len(chain') < StartAdoring =>
             irreversible' <= IF Len(chain') > MaxSimings THEN Len(chain') - MaxSimings ELSE 0
    BY <2>1, <2>5, IrreversibleStep
  <2>9. /\ schedule' \in Seq(Simings) /\ schedule' # <<>>
        /\ \A i, j \in DOMAIN schedule' : schedule'[i] = schedule'[j] => i = j
    BY <2>1, <2>5, ScheduleStep
  <2>10. key' \in [Simings -> KeyStates] /\ adores' \in [Simings -> Adores]
    BY <2>5 DEF Outcome, ShutDown, KeyStates
  <2>11. steady' \in 0 .. Window /\ slips' \in Nat
    BY <2>1, <2>4, CountersStep
  <2>12. aslot' \in Nat /\ aslot' >= head'
    BY <2>1, <2>5, <2>6, <2>7 DEF TypeOK
  <2>13. irreversible' \in 0 .. head'
    BY <2>1, <2>6, <2>7, <2>8 DEF TypeOK
  <2>14. TypeOK'
    BY <2>1, <2>3, <2>4, <2>6, <2>7, <2>9, <2>10, <2>11, <2>12, <2>13 DEF TypeOK
  <2>15. ConfirmedIsOwn'
    BY <2>6 DEF ConfirmedIsOwn
  <2>16. EarlyLag'
    BY <2>6, <2>7, <2>8 DEF EarlyLag
  <2> QED
    BY <2>14, <2>15, <2>16 DEF ScheduleInv
<1> QED
  BY <1>1, <1>2

\* The inductive invariant, for every order of the schedule.
THEOREM ScheduleInvariant == Spec => []ScheduleInv
<1>1. Init => ScheduleInv
  BY InitInv
<1>2. ScheduleInv /\ [Next]_vars => ScheduleInv'
  BY NextInv
<1> QED
  BY <1>1, <1>2, PTL DEF Spec

\* The types, that nobody is scheduled twice in a round, and that the last
\* irreversible block is not above the head.
THEOREM TypeCorrect == Spec => []TypeOK
<1>1. ScheduleInv => TypeOK
  BY DEF ScheduleInv
<1> QED
  BY <1>1, ScheduleInvariant, PTL

\* Three quarters of the round have confirmed a block that becomes irreversible,
\* and none becomes reversible again (update_last_irreversible_block).
THEOREM QuorumConfirms == Spec => IrreversibleHasQuorum
<1>1. ScheduleInv /\ [Next]_vars => [RaisedByQuorum]_vars
  <2> SUFFICES ASSUME ScheduleInv, Next PROVE RaisedByQuorum
    OBVIOUS
  <2>1. TypeOK /\ ConfirmedIsOwn /\ EarlyLag
    BY DEF ScheduleInv
  <2>2. PICK o \in Outcome, missed \in Nat, p \in Simings : Apply(missed, p, o)
    BY <2>1, StepIsBlock, BlockFacts
  <2>3. chain' = Append(chain, p) /\ UpdateLastIrreversibleBlock(Confirmed(p))
    BY <2>2 DEF Apply, Confirmed
  <2>4. /\ irreversible' \in irreversible .. Len(chain')
        /\ (irreversible' # irreversible /\ Len(chain') >= StartAdoring) =>
             Cardinality(Behind(irreversible')) * OneHundredPercent
               >= IrreversibleThreshold * Len(schedule)
    BY <2>1, <2>3, IrreversibleStep
  <2>5. irreversible \in Nat /\ Len(chain') \in Nat
    BY <2>1, <2>3, ConfirmedFacts DEF TypeOK
  <2>6. irreversible' # irreversible => irreversible' \in irreversible + 1 .. Len(chain')
    BY <2>4, <2>5
  <2> QED
    BY <2>4, <2>6 DEF RaisedByQuorum
<1> QED
  BY <1>1, ScheduleInvariant, PTL DEF Spec, IrreversibleHasQuorum

\* Unless simings resign, somebody that is scheduled can make the next block:
\* the producer of a block keeps its key, and a new schedule has only keys
\* (update_global_dynamic_data, update_siming_schedule4).
THEOREM KeysRemain == Spec => []SomeoneCanSign
<1>1. Init => SomeoneCanSign
  <2> SUFFICES ASSUME Init PROVE key[schedule[1]] = "own" /\ 1 \in DOMAIN schedule
    BY DEF SomeoneCanSign
  <2> QED
    BY SimingsAssumption DEF Init
<1>2. ScheduleInv /\ SomeoneCanSign /\ [Next]_vars => SomeoneCanSign'
  <2>1. CASE UNCHANGED vars
    BY <2>1 DEF vars, SomeoneCanSign
  <2>2. ASSUME ScheduleInv, Next, \A w \in Simings : key'[w] # "resigned"
        PROVE  \E i \in DOMAIN schedule' : key'[schedule'[i]] = "own"
    <3>1. TypeOK
      BY <2>2 DEF ScheduleInv
    <3>2. PICK o \in Outcome : Produce(o)
      BY <2>2, <3>1, StepIsBlock
    <3>3. PICK missed \in Nat, p \in Simings :
            /\ \E i \in DOMAIN schedule : p = schedule[i]
            /\ p \notin Overdue(missed, p)
            /\ Apply(missed, p, o)
      BY <3>1, <3>2, BlockFacts
    <3>4. /\ key[p] = "own"
          /\ key' = ShutDown(o.key, Overdue(missed, p))
          /\ UpdateSimingSchedule(key', o.adores)
      BY <3>3 DEF Apply
    <3>5. key'[p] = o.key[p] /\ o.key[p] \in {"own", "resigned"}
      BY <3>3, <3>4 DEF ShutDown, Outcome
    <3>6. key'[p] = "own"
      BY <2>2, <3>5
    <3>7. \/ schedule' = schedule
          \/ \E i \in DOMAIN schedule' : key'[schedule'[i]] = "own"
      BY <3>1, <3>4, ScheduleStep
    <3> QED
      BY <3>3, <3>6, <3>7
  <2> QED
    BY <2>1, <2>2 DEF SomeoneCanSign
<1> QED
  BY <1>1, <1>2, ScheduleInvariant, PTL DEF Spec

-----------------------------------------------------------------------------
(* How far the last irreversible block is behind. *)

\* The blocks since the schedule was made, and the last block before them.
RoundBlocks == head % MaxSimings
RoundStart == head - RoundBlocks

\* The place in the schedule to which a slot, counted from genesis, belongs.
Place(slot) == (slot % Len(schedule)) + 1

\* So many of n scheduled simings confirm a block before it is irreversible.
Needed(n) == n - Tolerated(n)

\* Of two slots of the last turn through the schedule, whoever has the later one has
\* made the later block in this round, or is absent.
InTurn ==
    \A t \in aslot - Len(schedule) + 1 .. aslot : \A s \in aslot - Len(schedule) + 1 .. t - 1 :
        (Place(s) \notin Absent /\ confirmed[schedule[Place(s)]] > RoundStart)
            => \/ Place(t) \in Absent
               \/ confirmed[schedule[Place(t)]] > confirmed[schedule[Place(s)]]

\* The last blocks of the round were each made by another siming of the schedule.
LastOnes ==
    \A n \in RoundStart + 1 .. head :
        n > head - Needed(Len(schedule)) => \E i \in DOMAIN schedule : confirmed[schedule[i]] = n

\* Once enough have made a block in the round, the last irreversible block is as
\* close as they are many.
RoundLag ==
    (RoundBlocks >= Needed(Len(schedule)) /\ head >= StartAdoring)
        => head - irreversible < Needed(Len(schedule))

\* Where it was when the round began.
StartLag ==
    (steady >= RoundBlocks + MaxSimings /\ RoundStart >= StartAdoring)
        => RoundStart - irreversible < Needed(MaxSimings)

LagInv ==
    /\ Len(schedule) <= MaxSimings
    /\ steady >= RoundBlocks => InTurn /\ LastOnes /\ RoundLag
    /\ StartLag

-----------------------------------------------------------------------------
(* Slots and places. *)

\* What dividing by n leaves.
LEMMA Division ==
    ASSUME NEW n \in Nat \ {0}, NEW a \in Int
    PROVE  a % n \in 0 .. n - 1 /\ a = n * (a \div n) + (a % n) /\ a \div n \in Int
OBVIOUS

LEMMA FarMultiples ==
    ASSUME NEW n \in Nat \ {0}, NEW k \in Int, k > 0
    PROVE  n * k >= n /\ n * k \in Int
OBVIOUS

\* Of fewer than n numbers in a row no two leave the same.
LEMMA RemaindersDiffer ==
    ASSUME NEW n \in Nat \ {0}, NEW a \in Int, NEW b \in Int, a < b, b < a + n
    PROVE  a % n # b % n
<1> SUFFICES ASSUME a % n = b % n PROVE FALSE
  OBVIOUS
<1> DEFINE q == b \div n
           p == a \div n
<1>1. /\ a = n * p + (a % n) /\ p \in Int /\ a % n \in 0 .. n - 1
      /\ b = n * q + (b % n) /\ q \in Int /\ b % n \in 0 .. n - 1
  BY Division
<1> HIDE DEF p, q
<1>2. n * q - n * p = n * (q - p)
  BY <1>1
<1>3. n * p \in Int /\ n * q \in Int /\ n * (q - p) \in Int
  BY <1>1
<1>4. b - a = n * (q - p)
  BY <1>1, <1>2, <1>3
<1>5. CASE q - p > 0
  <2>1. n * (q - p) >= n
    BY <1>1, <1>5, FarMultiples
  <2> QED
    BY <1>4, <2>1
<1>6. CASE q - p <= 0
  <2>1. n * (q - p) <= 0
    BY <1>1, <1>6
  <2> QED
    BY <1>4, <2>1
<1> QED
  BY <1>1, <1>5, <1>6

\* A remainder comes back after n.
LEMMA RemainderPeriod ==
    ASSUME NEW n \in Nat \ {0}, NEW a \in Int
    PROVE  (a - n) % n = a % n
<1> DEFINE q == (a - n) \div n
           p == a \div n
           r == (a - n) % n
           s == a % n
<1>0. a - n \in Int
  OBVIOUS
<1>1. /\ a = n * p + s /\ p \in Int /\ s \in 0 .. n - 1
      /\ a - n = n * q + r /\ q \in Int /\ r \in 0 .. n - 1
  <2>1. a = n * p + s /\ p \in Int /\ s \in 0 .. n - 1
    BY Division
  <2>2. \A x \in Int : /\ x % n \in 0 .. n - 1 /\ x = n * (x \div n) + (x % n)
                      /\ x \div n \in Int
    BY Division
  <2>3. a - n = n * q + r /\ q \in Int /\ r \in 0 .. n - 1
    BY <1>0, <2>2
  <2> QED
    BY <2>1, <2>3
<1> HIDE DEF p, q, r, s
<1>2. n * (q + 1 - p) = n * q + n - n * p /\ n * q \in Int /\ n * p \in Int
  BY <1>1
<1>3. n * (q + 1 - p) = s - r
  BY <1>1, <1>2
<1>4. n * (p - q - 1) = r - s
  <2>1. n * (p - q - 1) = n * p - n * q - n
    BY <1>1
  <2> QED
    BY <1>1, <1>2, <2>1
<1>5. CASE q + 1 - p > 0
  BY <1>1, <1>3, <1>5, FarMultiples
<1>6. CASE p - q - 1 > 0
  BY <1>1, <1>4, <1>6, FarMultiples
<1>7. CASE q + 1 - p = 0
  BY <1>1, <1>3, <1>7
<1> QED
  BY <1>1, <1>5, <1>6, <1>7 DEF r, s

\* The next number leaves one more, or nothing.
LEMMA NextRemainder ==
    ASSUME NEW n \in Nat \ {0}, NEW a \in Nat
    PROVE  (a + 1) % n = IF a % n = n - 1 THEN 0 ELSE (a % n) + 1
<1> DEFINE q == (a + 1) \div n
           p == a \div n
           r == (a + 1) % n
           s == a % n
<1>1. /\ a = n * p + s /\ p \in Int /\ s \in 0 .. n - 1
      /\ a + 1 = n * q + r /\ q \in Int /\ r \in 0 .. n - 1
  BY Division
<1> HIDE DEF p, q, r, s
<1>2. n * (q - p) = n * q - n * p /\ n * q \in Int /\ n * p \in Int
      /\ n * (p - q) = n * p - n * q
  BY <1>1
<1>3. n * (q - p) = s - r + 1 /\ n * (p - q) = r - s - 1
  BY <1>1, <1>2
<1>4. CASE q - p > 0
  <2>1. n * (q - p) >= n
    BY <1>1, <1>4, FarMultiples
  <2>2. s = n - 1 /\ r = 0
    BY <1>1, <1>3, <2>1
  <2> QED
    BY <2>2 DEF r, s
<1>5. CASE p - q > 0
  <2>1. n * (p - q) >= n
    BY <1>1, <1>5, FarMultiples
  <2> QED
    BY <1>1, <1>3, <2>1
<1>6. CASE q = p
  <2>1. r = s + 1 /\ s # n - 1
    BY <1>1, <1>3, <1>6
  <2> QED
    BY <2>1 DEF r, s
<1> QED
  BY <1>1, <1>4, <1>5, <1>6

LEMMA RemainderIs ==
    ASSUME NEW n \in Nat \ {0}, NEW x \in Int, NEW k \in Int, NEW r \in 0 .. n - 1,
           x = n * k + r
    PROVE  x % n = r
<1> DEFINE q == x \div n
           s == x % n
<1>1. x = n * q + s /\ q \in Int /\ s \in 0 .. n - 1
  BY Division
<1> HIDE DEF q, s
<1>2. n * (q - k) = n * q - n * k /\ n * q \in Int /\ n * k \in Int
      /\ n * (k - q) = n * k - n * q
  BY <1>1
<1>3. n * (q - k) = r - s /\ n * (k - q) = s - r
  BY <1>1, <1>2
<1>4. CASE q - k > 0
  BY <1>1, <1>3, <1>4, FarMultiples
<1>5. CASE k - q > 0
  BY <1>1, <1>3, <1>5, FarMultiples
<1>6. CASE q = k
  BY <1>1, <1>3, <1>6 DEF s
<1> QED
  BY <1>1, <1>4, <1>5, <1>6

\* The schedule has a place for every slot.
LEMMA PlaceFacts ==
    ASSUME TypeOK, NEW s \in Int
    PROVE  /\ Len(schedule) \in Nat \ {0} /\ DOMAIN schedule = 1 .. Len(schedule)
           /\ Place(s) \in DOMAIN schedule /\ schedule[Place(s)] \in Simings
<1>1. Len(schedule) \in Nat \ {0} /\ DOMAIN schedule = 1 .. Len(schedule)
      /\ schedule \in Seq(Simings)
  BY DEF TypeOK
<1>2. s % Len(schedule) \in 0 .. Len(schedule) - 1
  BY <1>1, Division
<1>3. Place(s) \in DOMAIN schedule
  BY <1>1, <1>2 DEF Place
<1> QED
  BY <1>1, <1>3

\* In one turn through the schedule no place comes twice,
LEMMA PlacesDiffer ==
    ASSUME TypeOK, NEW s \in Int, NEW t \in Int, s < t, t < s + Len(schedule)
    PROVE  Place(s) # Place(t)
<1>1. Len(schedule) \in Nat \ {0}
  BY PlaceFacts
<1>2. s % Len(schedule) # t % Len(schedule)
  BY <1>1, RemaindersDiffer
<1>3. s % Len(schedule) \in Int /\ t % Len(schedule) \in Int
  BY <1>1, Division
<1> QED
  BY <1>2, <1>3 DEF Place

\* every place comes,
LEMMA EveryPlace ==
    ASSUME TypeOK, NEW a \in Int, NEW i \in DOMAIN schedule
    PROVE  \E s \in a - Len(schedule) + 1 .. a : Place(s) = i
<1> DEFINE n == Len(schedule)
           q == a \div n
           r == a % n
<1>1. n \in Nat \ {0} /\ DOMAIN schedule = 1 .. n
  BY PlaceFacts
<1>2. a = n * q + r /\ q \in Int /\ r \in 0 .. n - 1
  BY <1>1, Division
<1> HIDE DEF n, q, r
<1>3. n * q \in Int /\ n * (q - 1) \in Int /\ n * (q - 1) = n * q - n
  BY <1>1, <1>2
<1>4. CASE i - 1 <= r
  <2> DEFINE s == n * q + (i - 1)
  <2>1. s \in Int /\ i - 1 \in 0 .. n - 1 /\ s \in a - n + 1 .. a
    BY <1>1, <1>2, <1>3, <1>4
  <2>2. s % n = i - 1
    BY <1>1, <1>2, <2>1, RemainderIs
  <2>3. Place(s) = i
    BY <1>1, <2>2 DEF Place, n
  <2> QED
    BY <2>1, <2>3 DEF n
<1>5. CASE i - 1 > r
  <2> DEFINE s == n * (q - 1) + (i - 1)
  <2>1. s \in Int /\ i - 1 \in 0 .. n - 1 /\ s \in a - n + 1 .. a /\ q - 1 \in Int
    BY <1>1, <1>2, <1>3, <1>5
  <2>2. s % n = i - 1
    BY <1>1, <2>1, RemainderIs
  <2>3. Place(s) = i
    BY <1>1, <2>2 DEF Place, n
  <2> QED
    BY <2>1, <2>3 DEF n
<1> QED
  BY <1>1, <1>2, <1>4, <1>5

\* and after one turn it comes again.
LEMMA PlacePeriod ==
    ASSUME TypeOK, NEW s \in Int
    PROVE  Place(s - Len(schedule)) = Place(s)
<1>1. Len(schedule) \in Nat \ {0}
  BY PlaceFacts
<1> QED
  BY <1>1, RemainderPeriod DEF Place

-----------------------------------------------------------------------------
(* Counting. *)

\* How many are needed, and that no fewer are of a longer schedule.
LEMMA NeededFacts ==
    ASSUME NEW n \in Nat \ {0}, NEW m \in Nat, n <= m
    PROVE  /\ Tolerated(n) = Offset(n) /\ Tolerated(n) \in Nat
           /\ Needed(n) \in 1 .. n /\ Needed(n) <= Needed(m)
<1>1. /\ (25 * n) \div 100 \in Nat /\ 100 * ((25 * n) \div 100) <= 25 * n
      /\ 25 * n < 100 * ((25 * n) \div 100) + 100
  OBVIOUS
<1>2. /\ (25 * m) \div 100 \in Nat /\ 100 * ((25 * m) \div 100) <= 25 * m
      /\ 25 * m < 100 * ((25 * m) \div 100) + 100
  OBVIOUS
<1>3. Tolerated(n) = (25 * n) \div 100 /\ Tolerated(m) = (25 * m) \div 100 /\ Tolerated(n) = Offset(n)
  BY DEF Tolerated, Offset, OneHundredPercent, IrreversibleThreshold
<1> DEFINE x == (25 * n) \div 100
           y == (25 * m) \div 100
<1>4. Needed(n) = n - x /\ Needed(m) = m - y
  BY <1>3 DEF Needed
<1> HIDE DEF x, y
<1>5. x \in Nat /\ 100 * x <= 25 * n /\ 25 * n < 100 * x + 100
  BY <1>1 DEF x
<1>6. y \in Nat /\ 100 * y <= 25 * m /\ 25 * m < 100 * y + 100
  BY <1>2 DEF y
<1>7. n - x \in 1 .. n /\ n - x <= m - y
  BY <1>5, <1>6
<1> QED
  BY <1>3, <1>4, <1>5, <1>7 DEF x

\* A finite set whose elements have different numbers in low .. high.
LEMMA DifferentNumbers ==
    ASSUME NEW S, NEW f, NEW low \in Int, NEW high \in Int, low <= high + 1,
           \A x \in S : f[x] \in low .. high,
           \A x, y \in S : f[x] = f[y] => x = y
    PROVE  IsFiniteSet(S) /\ Cardinality(S) <= high - low + 1
<1> DEFINE g == [x \in S |-> f[x]]
<1>1. g \in Injection(S, low .. high)
  BY DEF Injection, IsInjective
<1>2. IsFiniteSet(low .. high) /\ Cardinality(low .. high) = high - low + 1
  BY FS_Interval
<1> HIDE DEF g
<1> QED
  BY <1>1, <1>2, FS_Injection

LEMMA FirstNumbers ==
    ASSUME NEW n \in Nat
    PROVE  IsFiniteSet(1 .. n) /\ Cardinality(1 .. n) = n
<1>1. IsFiniteSet(1 .. n) /\ Cardinality(1 .. n) = IF 1 > n THEN 0 ELSE n - 1 + 1
  BY FS_Interval
<1> QED
  BY <1>1

\* Of two simings one comes before the other, and then all before it do.
LEMMA BeforeOrders ==
    ASSUME NEW a \in [Simings -> Adores], NEW u \in Simings, NEW w \in Simings, u # w
    PROVE  /\ u \in Before(a, w) \/ w \in Before(a, u)
           /\ u \in Before(a, w) => Before(a, u) \subseteq Before(a, w)
           /\ u \notin Before(a, u)
<1>1. \A v \in Simings : v \in Nat /\ a[v] \in Nat
  BY SimingsAssumption
<1> QED
  BY <1>1 DEF Before

\* No more are elected than there are seats.
LEMMA ElectedFew ==
    ASSUME NEW k \in [Simings -> KeyStates], NEW a \in [Simings -> Adores]
    PROVE  IsFiniteSet(Elected(k, a)) /\ Cardinality(Elected(k, a)) <= MaxSimings
<1> DEFINE Ahead(w) == {v \in Before(a, w) : k[v] = "own"}
           rank == [w \in Simings |-> Cardinality(Ahead(w))]
<1>1. ASSUME NEW w \in Simings PROVE IsFiniteSet(Ahead(w)) /\ Cardinality(Ahead(w)) \in Nat
  <2>1. Ahead(w) \subseteq Simings
    BY DEF Before
  <2> QED
    BY <2>1, SimingsAssumption, FS_Subset, FS_CardinalityType
<1>2. ASSUME NEW u \in Elected(k, a), NEW w \in Elected(k, a), u \in Before(a, w), u # w
      PROVE  rank[u] # rank[w]
  <2>1. u \in Simings /\ w \in Simings /\ k[u] = "own"
    BY DEF Elected
  <2>2. Ahead(u) \subseteq Ahead(w) /\ u \in Ahead(w) /\ u \notin Ahead(u)
    BY <1>2, <2>1, BeforeOrders
  <2>3. /\ Cardinality(Ahead(u)) <= Cardinality(Ahead(w))
        /\ Cardinality(Ahead(w)) = Cardinality(Ahead(u)) => Ahead(w) = Ahead(u)
    BY <1>1, <2>1, <2>2, FS_Subset
  <2> HIDE DEF Ahead
  <2> QED
    BY <2>1, <2>2, <2>3
<1>3. \A u, w \in Elected(k, a) : rank[u] = rank[w] => u = w
  <2> SUFFICES ASSUME NEW u \in Elected(k, a), NEW w \in Elected(k, a), u # w
               PROVE  rank[u] # rank[w]
    OBVIOUS
  <2>1. u \in Simings /\ w \in Simings
    BY DEF Elected
  <2>2. u \in Before(a, w) \/ w \in Before(a, u)
    BY <2>1, BeforeOrders
  <2> HIDE DEF rank
  <2> QED
    BY <1>2, <2>2
<1>4. \A w \in Elected(k, a) : rank[w] \in 0 .. MaxSimings - 1
  <2> SUFFICES ASSUME NEW w \in Elected(k, a) PROVE rank[w] \in 0 .. MaxSimings - 1
    OBVIOUS
  <2>1. w \in Simings /\ Cardinality(Ahead(w)) < MaxSimings
    BY DEF Elected
  <2>2. Cardinality(Ahead(w)) \in Nat
    BY <1>1, <2>1
  <2> HIDE DEF Ahead
  <2> QED
    BY <2>1, <2>2, ParametersAssumption
<1> HIDE DEF rank
<1>5. MaxSimings \in Nat \ {0}
  BY ParametersAssumption
<1>6. /\ IsFiniteSet(Elected(k, a))
      /\ Cardinality(Elected(k, a)) <= (MaxSimings - 1) - 0 + 1
  <2> DEFINE high == MaxSimings - 1
             E == Elected(k, a)
  <2>1. /\ high \in Int /\ 0 <= high + 1 /\ 0 \in Int
        /\ \A w \in E : rank[w] \in 0 .. high
        /\ \A u, w \in E : rank[u] = rank[w] => u = w
    BY <1>3, <1>4, <1>5
  <2> HIDE DEF high, E
  <2>2. IsFiniteSet(E) /\ Cardinality(E) <= high - 0 + 1
    BY <2>1, DifferentNumbers, Zenon
  <2> QED
    BY <2>2 DEF high, E
<1>7. Cardinality(Elected(k, a)) \in Nat
  BY <1>6, FS_CardinalityType
<1> QED
  BY <1>5, <1>6, <1>7

\* The schedule is as long as there are seats, at most.
LEMMA ScheduleLength ==
    ASSUME TypeOK, Len(schedule) <= MaxSimings, NEW k \in [Simings -> KeyStates],
           NEW a \in [Simings -> Adores], UpdateSimingSchedule(k, a)
    PROVE  Len(schedule') <= MaxSimings
<1>1. CASE schedule' = schedule
  BY <1>1
<1>2. CASE schedule' \in Shuffles(Elected(k, a))
  <2>1. /\ schedule' \in Seq(Simings) /\ {schedule'[i] : i \in DOMAIN schedule'} = Elected(k, a)
        /\ \A i, j \in DOMAIN schedule' : schedule'[i] = schedule'[j] => i = j
    BY <1>2, SimingsAssumption DEF Shuffles
  <2> DEFINE E == Elected(k, a)
             n == Len(schedule')
  <2>2. n \in Nat /\ DOMAIN schedule' = 1 .. n /\ schedule' \in [1 .. n -> Simings]
    BY <2>1
  <2>3. IsFiniteSet(E) /\ Cardinality(E) <= MaxSimings /\ Cardinality(E) \in Nat
    BY ElectedFew, FS_CardinalityType
  <2>4. schedule' \in [1 .. n -> E]
    <3>1. \A i \in 1 .. n : schedule'[i] \in E
      BY <2>1, <2>2
    <3> HIDE DEF E, n
    <3> QED
      BY <2>2, <3>1
  <2>5. schedule' \in Injection(1 .. n, E)
    BY <2>1, <2>2, <2>4 DEF Injection, IsInjective
  <2>6. Cardinality(1 .. n) = n
    BY <2>2, FirstNumbers
  <2> HIDE DEF E, n
  <2>7. n <= Cardinality(E)
    BY <2>3, <2>5, <2>6, FS_Injection
  <2> QED
    BY <2>2, <2>3, <2>7, ParametersAssumption DEF n
<1> QED
  BY <1>1, <1>2 DEF UpdateSimingSchedule

\* When each of the last blocks that are needed was made by another siming, the
\* confirmation of the deciding rank is one of these blocks.
LEMMA RankIsLate ==
    ASSUME TypeOK, NEW c \in [Simings -> Nat], NEW i \in DOMAIN schedule,
           AtRank(c, i, Offset(Len(schedule))), NEW h \in Nat,
           Needed(Len(schedule)) <= h,
           \A n \in h - Needed(Len(schedule)) + 1 .. h :
               \E j \in DOMAIN schedule : c[schedule[j]] = n
    PROVE  c[schedule[i]] > h - Needed(Len(schedule))
<1> DEFINE N == Len(schedule)
           first == h - Needed(N) + 1
           D == DOMAIN schedule
           Low == {j \in D : c[schedule[j]] <= c[schedule[i]]}
           Late == {j \in D : c[schedule[j]] \in first .. h}
           by == [n \in first .. h |-> CHOOSE j \in D : c[schedule[j]] = n]
<1>1. N \in Nat \ {0} /\ D = 1 .. N /\ \A j \in D : schedule[j] \in Simings
  BY DEF TypeOK
<1>2. Needed(N) \in 1 .. N /\ N - Offset(N) = Needed(N) /\ Offset(N) \in Nat
  BY <1>1, NeededFacts DEF Needed
<1>3. Cardinality(Low) > Offset(N)
  BY DEF AtRank
<1>4. first \in Int /\ first <= h
  BY <1>2
<1>5. IsFiniteSet(D) /\ Cardinality(D) = N
  <2>1. Cardinality(1 .. N) = N /\ IsFiniteSet(1 .. N)
    BY <1>1, FirstNumbers
  <2> QED
    BY <1>1, <2>1
<1>6. IsFiniteSet(Late) /\ IsFiniteSet(Low) /\ Cardinality(Late) \in Nat /\ Cardinality(Low) \in Nat
  BY <1>5, FS_Subset, FS_CardinalityType
<1>7. by \in Injection(first .. h, Late)
  <2>1. \A n \in first .. h : by[n] \in D /\ c[schedule[by[n]]] = n
    OBVIOUS
  <2> HIDE DEF first, D
  <2>2. by \in [first .. h -> Late]
    BY <2>1
  <2>3. \A m, n \in first .. h : by[m] = by[n] => m = n
    BY <2>1
  <2> HIDE DEF by
  <2> QED
    BY <2>2, <2>3 DEF Injection, IsInjective
<1>8. Cardinality(first .. h) = h - first + 1
  BY <1>4, FS_Interval
<1>9. Cardinality(Late) >= Needed(N)
  <2> HIDE DEF first, Late, by
  <2>1. Cardinality(first .. h) <= Cardinality(Late)
    BY <1>6, <1>7, FS_Injection
  <2> QED
    BY <1>2, <1>4, <1>6, <1>8, <2>1 DEF first
<1>10. SUFFICES ASSUME c[schedule[i]] < first PROVE FALSE
  BY <1>1, <1>2
<1>11. Low \cap Late = {} /\ Low \cup Late \subseteq D
  <2>1. \A j \in D : c[schedule[j]] \in Nat
    BY <1>1
  <2> QED
    BY <1>1, <1>4, <1>10, <2>1
<1> HIDE DEF Low, Late, D, N, first, by
<1>12. Cardinality(Low \cup Late) = Cardinality(Low) + Cardinality(Late)
  <2>1. Cardinality({}) = 0
    BY FS_EmptySet
  <2>2. Cardinality(Low \cup Late)
          = Cardinality(Low) + Cardinality(Late) - Cardinality(Low \cap Late)
    BY <1>6, FS_Union
  <2>3. Cardinality(Low \cap Late) = 0
    BY <1>11, <2>1
  <2> QED
    BY <1>6, <2>1, <2>2, <2>3
<1>13. Cardinality(Low \cup Late) <= Cardinality(D)
  BY <1>5, <1>11, FS_Subset
<1> QED
  BY <1>1, <1>2, <1>3, <1>5, <1>6, <1>9, <1>12, <1>13

-----------------------------------------------------------------------------
(* A block of a steady round. *)

LEMMA RoundFacts ==
    ASSUME TypeOK
    PROVE  /\ MaxSimings \in Nat \ {0} /\ head \in Nat
           /\ RoundBlocks \in 0 .. MaxSimings - 1 /\ RoundStart \in Nat
           /\ RoundStart + RoundBlocks = head
<1> DEFINE q == head \div MaxSimings
<1>1. MaxSimings \in Nat \ {0} /\ head \in Nat
  BY ParametersAssumption DEF TypeOK, head
<1>2. RoundBlocks \in 0 .. MaxSimings - 1 /\ head = MaxSimings * q + RoundBlocks /\ q \in Int
  BY <1>1, Division DEF RoundBlocks
<1> HIDE DEF q
<1>3. MaxSimings * q \in Int /\ MaxSimings * (0 - q) = 0 - MaxSimings * q
  BY <1>1, <1>2
<1>4. RoundStart = MaxSimings * q
  BY <1>1, <1>2, <1>3 DEF RoundStart
<1>5. CASE q < 0
  <2>1. 0 - q \in Int /\ 0 - q > 0
    BY <1>2, <1>5
  <2>2. MaxSimings * (0 - q) >= MaxSimings
    BY <1>1, <2>1, FarMultiples
  <2> QED
    BY <1>1, <1>2, <1>3, <2>2
<1>6. CASE q >= 0
  <2>1. MaxSimings * q >= 0
    BY <1>1, <1>2, <1>6
  <2> QED
    BY <1>1, <1>2, <1>3, <1>4, <2>1
<1> QED
  BY <1>2, <1>5, <1>6

\* Two members of the schedule have not made the same block.
LEMMA OwnConfirmation ==
    ASSUME TypeOK, ConfirmedIsOwn, NEW i \in DOMAIN schedule, NEW j \in DOMAIN schedule,
           confirmed[schedule[i]] = confirmed[schedule[j]], confirmed[schedule[i]] # 0
    PROVE  i = j
<1>1. schedule[i] \in Simings /\ schedule[j] \in Simings
  BY DEF TypeOK
<1>2. schedule[i] = schedule[j]
  BY <1>1 DEF ConfirmedIsOwn
<1> QED
  BY <1>2 DEF TypeOK

\* A block that is made in the slot after the missed ones, when nobody who could have
\* made a block missed one, and no more are absent than are tolerated.
OnTime(missed, p) ==
    /\ p = schedule[Place(aslot + missed + 1)]
    /\ key[p] = "own" /\ p \notin silent
    /\ Slipped(missed) = {}
    /\ Cardinality(Absent) <= Tolerated(Len(schedule))

LEMMA OnTimeFacts ==
    ASSUME TypeOK, NEW missed \in Nat, NEW p, OnTime(missed, p)
    PROVE  /\ \A t \in aslot + 1 .. aslot + missed : Place(t) \in Absent
           /\ Place(aslot + missed + 1) \in DOMAIN schedule \ Absent
           /\ missed + 1 <= Len(schedule) /\ aslot \in Nat /\ p \in Simings
<1>1. aslot \in Nat /\ Len(schedule) \in Nat \ {0}
  BY PlaceFacts DEF TypeOK
<1>2. ASSUME NEW t \in aslot + 1 .. aslot + missed PROVE Place(t) \in Absent
  <2> DEFINE slot == t - aslot
  <2>1. slot \in 1 .. missed /\ aslot + slot = t
    BY <1>1
  <2>2. GetScheduledSiming(slot) = schedule[Place(t)]
    BY <2>1 DEF GetScheduledSiming, Place
  <2>3. schedule[Place(t)] \in silent \/ key[schedule[Place(t)]] # "own"
    <3> HIDE DEF slot
    <3> QED
      BY <2>1, <2>2 DEF OnTime, Slipped
  <2>4. Place(t) \in DOMAIN schedule
    BY <1>1, PlaceFacts
  <2> QED
    BY <2>3, <2>4 DEF Absent
<1>3. aslot + missed + 1 \in Int
  BY <1>1
<1>4. Place(aslot + missed + 1) \in DOMAIN schedule \ Absent /\ p \in Simings
  BY <1>3, PlaceFacts DEF OnTime, Absent
<1>5. missed + 1 <= Len(schedule)
  <2> SUFFICES ASSUME missed + 1 > Len(schedule) PROVE FALSE
    BY <1>1
  <2> DEFINE turn == aslot + missed + 1
  <2>1. turn - Len(schedule) \in aslot + 1 .. aslot + missed /\ turn \in Int
    BY <1>1
  <2>2. Place(turn) \notin Absent
    BY <1>4
  <2> HIDE DEF turn
  <2>3. Place(turn - Len(schedule)) = Place(turn)
    BY <2>1, PlacePeriod
  <2> QED
    BY <1>2, <2>1, <2>2, <2>3
<1> QED
  BY <1>1, <1>2, <1>4, <1>5

\* A siming makes its next block in the round only after all the others that are not
\* absent have made theirs: the last blocks that are needed stay different.
LEMMA LastOnesStep ==
    ASSUME TypeOK, ConfirmedIsOwn, InTurn, LastOnes, NEW missed \in Nat, NEW p,
           OnTime(missed, p)
    PROVE  \A n \in RoundStart + 1 .. head + 1 :
               n > head + 1 - Needed(Len(schedule)) =>
                   \E i \in DOMAIN schedule : Confirmed(p)[schedule[i]] = n
<1> DEFINE N == Len(schedule)
           D == DOMAIN schedule
           turn == aslot + missed + 1
           j == Place(turn)
<1>1. /\ head \in Nat /\ RoundStart \in Nat /\ aslot \in Nat
      /\ N \in Nat \ {0} /\ D = 1 .. N /\ j \in D \ Absent /\ turn \in Int
      /\ missed + 1 <= N /\ p \in Simings /\ p = schedule[j]
      /\ Needed(N) \in Int /\ Needed(N) = N - Tolerated(N) /\ Tolerated(N) \in Nat
  <2>1. /\ head \in Nat /\ RoundStart \in Nat /\ aslot \in Nat
        /\ N \in Nat \ {0} /\ D = 1 .. N /\ missed + 1 <= N /\ p \in Simings
    BY RoundFacts, PlaceFacts, OnTimeFacts
  <2>2. j \in D \ Absent /\ p = schedule[j]
    BY OnTimeFacts DEF OnTime
  <2>3. Needed(N) \in 1 .. N /\ Tolerated(N) \in Nat
    BY <2>1, NeededFacts
  <2> QED
    BY <2>1, <2>2, <2>3 DEF Needed
<1>2. confirmed \in [Simings -> 0 .. head] /\ \A i \in D : schedule[i] \in Simings
  BY DEF TypeOK
<1> SUFFICES ASSUME NEW n \in RoundStart + 1 .. head + 1, n > head + 1 - Needed(N)
             PROVE  \E i \in D : Confirmed(p)[schedule[i]] = n
  OBVIOUS
<1>3. CASE n = head + 1
  BY <1>1, <1>2, <1>3 DEF Confirmed
<1>4. CASE n # head + 1
  <2>1. n \in RoundStart + 1 .. head /\ n > head - Needed(N)
    BY <1>1, <1>4
  <2>2. PICK i \in D : confirmed[schedule[i]] = n
    BY <2>1 DEF LastOnes
  <2>3. CASE schedule[i] # p
    BY <1>2, <2>2, <2>3 DEF Confirmed
  <2>4. CASE schedule[i] = p
    <3> DEFINE Later == {k \in D : confirmed[schedule[k]] \in n + 1 .. head}
               number == [k \in Later |-> confirmed[schedule[k]]]
    <3>1. confirmed[p] = n
      BY <2>2, <2>4
    <3>2. D \ {j} \subseteq Absent \cup Later
      <4> SUFFICES ASSUME NEW k \in D, k # j, k \notin Absent
                   PROVE  confirmed[schedule[k]] \in n + 1 .. head
        OBVIOUS
      <4>1. PICK t \in turn - N + 1 .. turn : Place(t) = k
        BY <1>1, EveryPlace
      <4>2. t # turn
        BY <4>1
      <4>3. t \in Int /\ t \notin aslot + 1 .. aslot + missed
        BY <1>1, <4>1, OnTimeFacts
      <4>4. /\ t \in aslot - N + 1 .. aslot
            /\ turn - N \in aslot - N + 1 .. t - 1
        BY <1>1, <4>1, <4>2, <4>3
      <4>5. Place(turn - N) = j
        BY <1>1, PlacePeriod
      <4>6. confirmed[schedule[Place(turn - N)]] > RoundStart /\ Place(turn - N) \notin Absent
        <5>1. n > RoundStart
          BY <1>1, <2>1
        <5>2. schedule[j] = p /\ j \notin Absent
          BY <1>1
        <5> HIDE DEF turn, j, N, D, Later
        <5> QED
          BY <3>1, <4>5, <5>1, <5>2
      <4>7. Place(t) \in Absent \/ confirmed[schedule[Place(t)]] > confirmed[schedule[Place(turn - N)]]
        <5> HIDE DEF turn, j
        <5> QED
          BY <4>4, <4>6 DEF InTurn
      <4>8. confirmed[schedule[k]] > n
        BY <1>1, <3>1, <4>1, <4>5, <4>7
      <4>9. confirmed[schedule[k]] \in 0 .. head
        BY <1>2
      <4>10. n \in Int /\ head \in Int
        BY <1>1, <2>1
      <4> DEFINE x == confirmed[schedule[k]]
      <4>11. x \in 0 .. head /\ x > n
        BY <4>8, <4>9
      <4> HIDE DEF x
      <4>12. x \in n + 1 .. head
        BY <4>10, <4>11
      <4> QED
        BY <4>12 DEF x
    <3>3. IsFiniteSet(Later) /\ Cardinality(Later) <= head - n
      <4>1. \A k \in Later : number[k] \in n + 1 .. head
        OBVIOUS
      <4>2. \A k, m \in Later : number[k] = number[m] => k = m
        <5> SUFFICES ASSUME NEW k \in Later, NEW m \in Later, number[k] = number[m]
                     PROVE  k = m
          OBVIOUS
        <5>1. confirmed[schedule[k]] = confirmed[schedule[m]] /\ confirmed[schedule[k]] # 0
          <6>1. number[k] = confirmed[schedule[k]] /\ number[m] = confirmed[schedule[m]]
            OBVIOUS
          <6>2. confirmed[schedule[k]] \in n + 1 .. head
            OBVIOUS
          <6>3. n \in Nat /\ head \in Nat
            BY <1>1, <2>1
          <6> HIDE DEF number, Later
          <6>4. confirmed[schedule[k]] # 0
            BY <6>2, <6>3
          <6> QED
            BY <6>1, <6>4
        <5> QED
          BY <5>1, OwnConfirmation
      <4> HIDE DEF number, Later
      <4>3. n + 1 \in Int /\ head \in Int /\ n + 1 <= head + 1
        BY <1>1, <2>1
      <4>4. IsFiniteSet(Later) /\ Cardinality(Later) <= head - (n + 1) + 1
        BY <4>1, <4>2, <4>3, DifferentNumbers
      <4>5. Cardinality(Later) \in Nat
        BY <4>4, FS_CardinalityType
      <4> QED
        BY <1>1, <2>1, <4>4, <4>5
    <3>4. /\ IsFiniteSet(D) /\ Cardinality(D) = N
          /\ IsFiniteSet(D \ {j}) /\ Cardinality(D \ {j}) = N - 1
          /\ IsFiniteSet(Absent) /\ Cardinality(Absent) \in Nat
          /\ Cardinality(Absent) <= Tolerated(N)
      <4>1. IsFiniteSet(D) /\ Cardinality(D) = N
        <5>1. IsFiniteSet(1 .. N) /\ Cardinality(1 .. N) = N
          BY <1>1, FirstNumbers
        <5> QED
          BY <1>1, <5>1
      <4>2. Absent \subseteq D
        BY DEF Absent
      <4> HIDE DEF j, D
      <4>3. IsFiniteSet(D \ {j}) /\ Cardinality(D \ {j}) = N - 1
        <5>1. j \in D
          BY <1>1
        <5>2. Cardinality(D \ {j}) = Cardinality(D) - 1 /\ IsFiniteSet(D \ {j})
          BY <4>1, <5>1, FS_RemoveElement
        <5> QED
          BY <4>1, <5>2
      <4>4. IsFiniteSet(Absent) /\ Cardinality(Absent) \in Nat
        BY <4>1, <4>2, FS_Subset, FS_CardinalityType
      <4> QED
        BY <4>1, <4>3, <4>4 DEF OnTime
    <3> HIDE DEF Later, j, D, number
    <3>5. Cardinality(D \ {j}) <= Cardinality(Absent) + Cardinality(Later)
      <4>1. /\ IsFiniteSet(Absent \cup Later)
            /\ Cardinality(Absent \cup Later)
                 = Cardinality(Absent) + Cardinality(Later) - Cardinality(Absent \cap Later)
        BY <3>3, <3>4, FS_Union
      <4>2. Cardinality(Absent \cap Later) \in Nat /\ Cardinality(Later) \in Nat
        <5>1. IsFiniteSet(Absent \cap Later)
          BY <3>3, FS_Subset
        <5> QED
          BY <3>3, <5>1, FS_CardinalityType
      <4>3. Cardinality(D \ {j}) <= Cardinality(Absent \cup Later)
        BY <3>2, <4>1, FS_Subset
      <4> QED
        BY <1>1, <3>4, <4>1, <4>2, <4>3
    <3>6. Cardinality(Later) \in Nat
      BY <3>3, FS_CardinalityType
    <3>7. /\ head - n < N - Tolerated(N) - 1
          /\ head \in Int /\ n \in Int /\ N \in Int /\ Tolerated(N) \in Int
      BY <1>1
    <3>8. N - 1 <= Tolerated(N) + Cardinality(Later)
      BY <1>1, <3>4, <3>5, <3>6
    <3>9. Cardinality(Later) <= head - n
      BY <3>3
    <3> HIDE DEF N
    <3> QED
      BY <3>6, <3>7, <3>8, <3>9
  <2> QED
    BY <2>3, <2>4
<1> QED
  BY <1>3, <1>4

\* Then the block of the deciding rank is one of them.
LEMMA LagStep ==
    ASSUME TypeOK, ConfirmedIsOwn, NEW p \in Simings, chain' = Append(chain, p),
           UpdateLastIrreversibleBlock(Confirmed(p)),
           RoundBlocks + 1 >= Needed(Len(schedule)), head + 1 >= StartAdoring,
           \A n \in RoundStart + 1 .. head + 1 :
               n > head + 1 - Needed(Len(schedule)) =>
                   \E i \in DOMAIN schedule : Confirmed(p)[schedule[i]] = n
    PROVE  head + 1 - irreversible' < Needed(Len(schedule))
<1> DEFINE c == Confirmed(p)
           h == head + 1
           need == Needed(Len(schedule))
<1>1. /\ Len(chain') = head + 1 /\ head \in Nat
      /\ c \in [Simings -> 0 .. head + 1]
  BY ConfirmedFacts
<1>2. RoundBlocks \in Nat /\ RoundStart \in Nat /\ RoundStart + RoundBlocks = head
  BY RoundFacts
<1>3. need \in Nat \ {0} /\ StartAdoring \in Nat
  <2>1. Len(schedule) \in Nat \ {0}
    BY DEF TypeOK
  <2>2. need \in 1 .. Len(schedule)
    BY <2>1, NeededFacts
  <2> QED
    BY <2>1, <2>2, ParametersAssumption
<1>4. PICK i \in DOMAIN schedule :
        /\ AtRank(c, i, Offset(Len(schedule)))
        /\ irreversible' = IF c[schedule[i]] > irreversible THEN c[schedule[i]]
                                                            ELSE irreversible
  <2>1. ~(Len(chain') < StartAdoring)
    BY <1>1, <1>3
  <2> HIDE DEF c
  <2> QED
    BY <2>1 DEF UpdateLastIrreversibleBlock, c
<1>5. schedule[i] \in Simings /\ irreversible \in Nat
  BY DEF TypeOK
<1>6. \A n \in h - need + 1 .. h : \E j \in DOMAIN schedule : c[schedule[j]] = n
  <2> SUFFICES ASSUME NEW n \in h - need + 1 .. h
               PROVE  \E j \in DOMAIN schedule : c[schedule[j]] = n
    OBVIOUS
  <2>1. n \in RoundStart + 1 .. head + 1 /\ n > head + 1 - need
    BY <1>1, <1>2, <1>3
  <2> QED
    BY <2>1
<1>7. c \in [Simings -> Nat] /\ h \in Nat /\ need <= h
  BY <1>1, <1>2, <1>3
<1> HIDE DEF c, h
<1>8. c[schedule[i]] > h - need
  BY <1>4, <1>6, <1>7, RankIsLate
<1>9. irreversible' >= c[schedule[i]] /\ irreversible' \in Int /\ c[schedule[i]] \in Int
  BY <1>4, <1>5, <1>7
<1> HIDE DEF need
<1>10. h - irreversible' < need
  BY <1>3, <1>7, <1>8, <1>9
<1> QED
  BY <1>1, <1>9, <1>10 DEF h, need

\* The order of the last turn is kept while the schedule is.
LEMMA InTurnStep ==
    ASSUME TypeOK, InTurn, NEW missed \in Nat, NEW p, OnTime(missed, p),
           schedule' = schedule, Absent \subseteq Absent', RoundStart' = RoundStart,
           aslot' = aslot + missed + 1, confirmed' = Confirmed(p)
    PROVE  InTurn'
<1> DEFINE N == Len(schedule)
           turn == aslot + missed + 1
<1>1. /\ aslot \in Nat /\ N \in Nat \ {0} /\ missed + 1 <= N /\ p \in Simings
      /\ turn \in Int /\ p = schedule[Place(turn)] /\ Place(turn) \in DOMAIN schedule \ Absent
      /\ \A t \in aslot + 1 .. aslot + missed : Place(t) \in Absent
  <2>1. aslot \in Nat /\ N \in Nat \ {0} /\ missed + 1 <= N /\ p \in Simings
    BY OnTimeFacts, PlaceFacts
  <2>2. /\ Place(turn) \in DOMAIN schedule \ Absent
        /\ \A t \in aslot + 1 .. aslot + missed : Place(t) \in Absent
    BY OnTimeFacts
  <2> QED
    BY <2>1, <2>2 DEF OnTime
<1>2. /\ confirmed \in [Simings -> 0 .. head] /\ head \in Nat
      /\ \A i, j \in DOMAIN schedule : schedule[i] = schedule[j] => i = j
      /\ \A i \in DOMAIN schedule : schedule[i] \in Simings
  BY RoundFacts DEF TypeOK
<1>3. \A s \in Int : Place(s) \in DOMAIN schedule
  BY PlaceFacts
<1>4. confirmed'[p] = head + 1 /\ \A w \in Simings : w # p => confirmed'[w] = confirmed[w]
  BY <1>1, <1>2 DEF Confirmed
<1>5. ASSUME NEW t \in turn - N + 1 .. turn, NEW s \in turn - N + 1 .. t - 1,
             Place(s) \notin Absent', confirmed'[schedule[Place(s)]] > RoundStart
      PROVE  \/ Place(t) \in Absent'
             \/ confirmed'[schedule[Place(t)]] > confirmed'[schedule[Place(s)]]
  <2> HIDE DEF turn
  <2>1. t \in Int /\ s \in Int /\ s < t /\ t < s + N /\ s < turn /\ turn < s + N
    BY <1>1, <1>5
  <2>2. Place(s) # Place(t) /\ Place(s) # Place(turn) /\ Place(s) \notin Absent
    BY <1>1, <1>5, <2>1, PlacesDiffer
  <2>3. schedule[Place(s)] # p /\ schedule[Place(s)] \in Simings
    BY <1>1, <1>2, <1>3, <2>1, <2>2
  <2>4. confirmed'[schedule[Place(s)]] = confirmed[schedule[Place(s)]]
        /\ confirmed[schedule[Place(s)]] \in 0 .. head
    BY <1>2, <1>4, <2>3
  <2>5. CASE t = turn
    <3>1. confirmed'[schedule[Place(t)]] = head + 1
      BY <1>1, <1>4, <2>5
    <3> QED
      BY <1>2, <2>4, <3>1
  <2>6. CASE t \in aslot + 1 .. aslot + missed
    BY <1>1, <2>6
  <2>7. CASE t <= aslot
    <3>1. t \in aslot - N + 1 .. aslot /\ s \in aslot - N + 1 .. t - 1
      BY <1>1, <1>5, <2>1, <2>7 DEF turn
    <3>2. Place(t) \in Absent \/ confirmed[schedule[Place(t)]] > confirmed[schedule[Place(s)]]
      BY <1>5, <2>2, <2>4, <3>1 DEF InTurn
    <3>3. Place(t) # Place(turn)
      <4>1. t < turn /\ turn < t + N
        BY <1>1, <1>5, <2>1, <2>7 DEF turn
      <4> QED
        BY <1>1, <2>1, <4>1, PlacesDiffer
    <3>4. schedule[Place(t)] # p /\ schedule[Place(t)] \in Simings
      BY <1>1, <1>2, <1>3, <2>1, <3>3
    <3>5. confirmed'[schedule[Place(t)]] = confirmed[schedule[Place(t)]]
      BY <1>4, <3>4
    <3> QED
      BY <2>4, <3>2, <3>5
  <2>8. t = turn \/ t \in aslot + 1 .. aslot + missed \/ t <= aslot
    BY <1>1, <1>5, <2>1 DEF turn
  <2> QED
    BY <2>5, <2>6, <2>7, <2>8
<1> HIDE DEF turn
<1>6. aslot' = turn
  BY DEF turn
<1> QED
  BY <1>5, <1>6 DEF InTurn, Place

\* What a block does to the round and to the counters.
LEMMA BlockOfRound ==
    ASSUME TypeOK, Next
    PROVE  \E missed \in Nat, p \in Simings :
             /\ p = schedule[Place(aslot + missed + 1)] /\ p \notin silent /\ key[p] = "own"
             /\ CountSteady(missed)
             /\ chain' = Append(chain, p) /\ aslot' = aslot + missed + 1
             /\ confirmed' = Confirmed(p)
             /\ UpdateLastIrreversibleBlock(Confirmed(p))
             /\ \E k \in [Simings -> KeyStates], a \in [Simings -> Adores] :
                  UpdateSimingSchedule(k, a)
<1>1. PICK o \in Outcome : Produce(o)
  BY StepIsBlock
<1>2. PICK missed \in 0 .. MaxMissed :
        /\ GetScheduledSiming(missed + 1) \notin silent
        /\ CountSteady(missed) /\ Apply(missed, GetScheduledSiming(missed + 1), o)
  BY <1>1 DEF Produce
<1> DEFINE p == GetScheduledSiming(missed + 1)
           k == ShutDown(o.key, Overdue(missed, p))
<1>3. missed \in Nat /\ missed + 1 \in Nat
  BY ParametersAssumption
<1>4. p \in Simings
  BY <1>3, SlotHasSiming
<1>5. p = schedule[Place(aslot + missed + 1)]
  <2>1. aslot + (missed + 1) = aslot + missed + 1
    BY <1>3 DEF TypeOK
  <2> QED
    BY <2>1 DEF GetScheduledSiming, Place
<1>6. k \in [Simings -> KeyStates] /\ o.adores \in [Simings -> Adores]
  BY DEF Outcome, ShutDown, KeyStates
<1> HIDE DEF p
<1>7. /\ key[p] = "own" /\ chain' = Append(chain, p) /\ aslot' = aslot + missed + 1
      /\ confirmed' = Confirmed(p) /\ UpdateLastIrreversibleBlock(Confirmed(p))
      /\ UpdateSimingSchedule(k, o.adores)
  BY <1>2 DEF Apply, Confirmed, p
<1> HIDE DEF k
<1>8. p \notin silent
  BY <1>2 DEF p
<1> QED
  BY <1>2, <1>3, <1>4, <1>5, <1>6, <1>7, <1>8

\* Where a block is in its round.
LEMMA RoundStep ==
    ASSUME TypeOK, head' = head + 1
    PROVE  IF RoundBlocks = MaxSimings - 1
           THEN RoundBlocks' = 0 /\ RoundStart' = head + 1
           ELSE RoundBlocks' = RoundBlocks + 1 /\ RoundStart' = RoundStart
<1>1. /\ MaxSimings \in Nat \ {0} /\ head \in Nat
      /\ RoundBlocks \in 0 .. MaxSimings - 1
  BY RoundFacts
<1>2. (head + 1) % MaxSimings
        = IF head % MaxSimings = MaxSimings - 1 THEN 0 ELSE (head % MaxSimings) + 1
  BY <1>1, NextRemainder
<1>3. RoundBlocks' = (head + 1) % MaxSimings /\ RoundStart' = (head + 1) - RoundBlocks'
  <2>1. RoundBlocks' = (head + 1) % MaxSimings
    BY DEF RoundBlocks
  <2>2. RoundStart' = (head + 1) - RoundBlocks'
    BY DEF RoundStart
  <2> QED
    BY <2>1, <2>2
<1>4. RoundBlocks' = IF RoundBlocks = MaxSimings - 1 THEN 0 ELSE RoundBlocks + 1
  BY <1>2, <1>3 DEF RoundBlocks
<1>5. RoundStart = head - RoundBlocks
  BY DEF RoundStart
<1> QED
  BY <1>1, <1>3, <1>4, <1>5

LEMMA LagNext ==
    ASSUME ScheduleInv, LagInv, Next
    PROVE  LagInv'
<1>1. TypeOK /\ ConfirmedIsOwn /\ EarlyLag /\ TypeOK' /\ Len(schedule) <= MaxSimings
  BY NextInv DEF ScheduleInv, LagInv
<1>2. PICK missed \in Nat, p \in Simings :
        /\ p = schedule[Place(aslot + missed + 1)] /\ p \notin silent /\ key[p] = "own"
        /\ CountSteady(missed)
        /\ chain' = Append(chain, p) /\ aslot' = aslot + missed + 1
        /\ confirmed' = Confirmed(p)
        /\ UpdateLastIrreversibleBlock(Confirmed(p))
        /\ \E k \in [Simings -> KeyStates], a \in [Simings -> Adores] :
             UpdateSimingSchedule(k, a)
  BY <1>1, BlockOfRound
<1> DEFINE N == Len(schedule)
           M == MaxSimings
           d == RoundBlocks
           starts == d = M - 1
<1>3. /\ M \in Nat \ {0} /\ head \in Nat /\ d \in 0 .. M - 1 /\ RoundStart \in Nat
      /\ RoundStart + d = head /\ N \in Nat \ {0} /\ StartAdoring \in Nat
  <2>1. N \in Nat \ {0}
    BY <1>1 DEF TypeOK
  <2> QED
    BY <1>1, <2>1, RoundFacts, ParametersAssumption
<1>4. /\ Len(chain') = head + 1 /\ head' = head + 1
      /\ IF starts THEN RoundBlocks' = 0 /\ RoundStart' = head + 1
                   ELSE RoundBlocks' = d + 1 /\ RoundStart' = RoundStart
  <2>1. Len(chain') = head + 1
    BY <1>1, <1>2, ConfirmedFacts
  <2>2. head' = head + 1
    BY <2>1 DEF head
  <2> QED
    BY <1>1, <2>1, <2>2, RoundStep
<1>5. Len(schedule') <= M /\ Len(schedule') \in Nat \ {0}
  <2>1. Len(schedule') <= M
    BY <1>1, <1>2, ScheduleLength
  <2> QED
    BY <1>1, <2>1 DEF TypeOK
<1>6. /\ Needed(N) \in 1 .. N /\ Needed(N) <= Needed(M) /\ Needed(M) \in 1 .. M
      /\ Needed(Len(schedule')) \in 1 .. Len(schedule')
  <2>1. Needed(N) \in 1 .. N /\ Needed(N) <= Needed(M)
    BY <1>1, <1>3, NeededFacts
  <2>2. Needed(M) \in 1 .. M
    BY <1>3, NeededFacts
  <2>3. Needed(Len(schedule')) \in 1 .. Len(schedule')
    BY <1>5, NeededFacts
  <2> QED
    BY <2>1, <2>2, <2>3
<1>7. ~starts => schedule' = schedule
  <2> SUFFICES ASSUME ~starts PROVE schedule' = schedule
    OBVIOUS
  <2>1. Len(chain') % M # 0
    <3>1. RoundBlocks' = (head + 1) % M
      BY <1>4 DEF RoundBlocks
    <3> QED
      BY <1>3, <1>4, <3>1
  <2> QED
    BY <1>2, <2>1 DEF UpdateSimingSchedule
<1>8. /\ steady \in Nat /\ steady' \in Nat
      /\ irreversible \in Nat /\ irreversible' \in irreversible .. head + 1
  <2>1. Window \in Nat
    BY <1>3 DEF Window
  <2>2. irreversible' \in irreversible .. Len(chain')
    BY <1>1, <1>2, IrreversibleStep
  <2> QED
    BY <1>1, <1>4, <2>1, <2>2 DEF TypeOK
\* Only a block in time is counted.
<1>9. steady' > 0 => /\ OnTime(missed, p) /\ steady' <= steady + 1
                     /\ ~starts => Absent \subseteq Absent'
  <2> SUFFICES ASSUME steady' > 0
               PROVE  /\ OnTime(missed, p) /\ steady' <= steady + 1
                      /\ ~starts => Absent \subseteq Absent'
    OBVIOUS
  <2>1. /\ Slipped(missed) = {} /\ ~CameBack
        /\ ~(Cardinality(Absent) > Tolerated(N))
        /\ steady' = IF steady < Window THEN steady + 1 ELSE steady
    BY <1>2, <1>8 DEF CountSteady
  <2>2. Cardinality(Absent) <= Tolerated(N)
    <3>1. Absent \subseteq 1 .. N /\ IsFiniteSet(1 .. N)
      <4>1. DOMAIN schedule = 1 .. N
        BY <1>1 DEF TypeOK
      <4>2. IsFiniteSet(1 .. N)
        BY <1>3, FirstNumbers
      <4> QED
        BY <4>1, <4>2 DEF Absent
    <3>2. Cardinality(Absent) \in Nat
      BY <3>1, FS_Subset, FS_CardinalityType
    <3>3. Tolerated(N) \in Nat
      BY <1>3, NeededFacts
    <3> QED
      BY <2>1, <3>2, <3>3
  <2>3. OnTime(missed, p)
    BY <1>2, <2>1, <2>2 DEF OnTime
  <2>4. ~starts => Absent \subseteq Absent'
    <3> SUFFICES ASSUME ~starts PROVE Absent \subseteq Absent'
      OBVIOUS
    <3>1. RoundBlocks' = Len(chain') % M
      BY <1>4 DEF RoundBlocks
    <3>2. Len(chain') % M # 0
      BY <1>3, <1>4, <3>1
    <3> QED
      BY <2>1, <3>2 DEF CameBack
  <2>5. steady' <= steady + 1
    <3>1. Window \in Nat
      BY <1>3 DEF Window
    <3> QED
      BY <1>8, <2>1, <3>1
  <2> QED
    BY <2>3, <2>4, <2>5
\* The last blocks, and how far the last irreversible block is behind them.
<1>10. ASSUME steady' >= d + 1
       PROVE  /\ OnTime(missed, p) /\ InTurn /\ steady >= d
              /\ \A n \in RoundStart + 1 .. head + 1 :
                    n > head + 1 - Needed(N) =>
                        \E i \in DOMAIN schedule : Confirmed(p)[schedule[i]] = n
              /\ (d + 1 >= Needed(N) /\ head + 1 >= StartAdoring)
                    => head + 1 - irreversible' < Needed(N)
  <2>1. OnTime(missed, p) /\ steady >= d
    <3>1. steady' > 0
      BY <1>3, <1>8, <1>10
    <3>2. OnTime(missed, p) /\ steady' <= steady + 1
      BY <1>9, <3>1
    <3>3. d \in Nat /\ steady \in Nat /\ steady' \in Nat
      BY <1>3, <1>8
    <3> HIDE DEF d
    <3> QED
      BY <1>10, <3>2, <3>3
  <2>2. InTurn /\ LastOnes
    BY <2>1 DEF LagInv
  <2>3. \A n \in RoundStart + 1 .. head + 1 :
           n > head + 1 - Needed(N) =>
               \E i \in DOMAIN schedule : Confirmed(p)[schedule[i]] = n
    BY <1>1, <2>1, <2>2, LastOnesStep
  <2>4. (d + 1 >= Needed(N) /\ head + 1 >= StartAdoring)
           => head + 1 - irreversible' < Needed(N)
    BY <1>1, <1>2, <2>3, LagStep
  <2> QED
    BY <2>1, <2>2, <2>3, <2>4
<1>11. CASE starts
  <2>1. RoundBlocks' = 0 /\ RoundStart' = head + 1
    BY <1>4, <1>11
  <2>2. InTurn'
    <3>1. \A w \in Simings : confirmed'[w] \in 0 .. head + 1
      BY <1>1, <1>4 DEF TypeOK
    <3>2. \A s \in Int : schedule'[Place(s)'] \in Simings
      <4>1. \A s \in Int : schedule[Place(s)] \in Simings
        BY <1>1, PlaceFacts
      <4>2. \A s \in Int : (s % Len(schedule')) + 1 \in DOMAIN schedule'
        <5> SUFFICES ASSUME NEW s \in Int PROVE (s % Len(schedule')) + 1 \in DOMAIN schedule'
          OBVIOUS
        <5>1. s % Len(schedule') \in 0 .. Len(schedule') - 1
          BY <1>5, Division
        <5>2. DOMAIN schedule' = 1 .. Len(schedule')
          BY <1>1 DEF TypeOK
        <5> DEFINE r == s % Len(schedule')
                   n == Len(schedule')
        <5>3. r \in 0 .. n - 1 /\ n \in Nat
          BY <1>5, <5>1
        <5> HIDE DEF r, n
        <5>4. r + 1 \in 1 .. n
          BY <5>3
        <5> QED
          BY <5>2, <5>4 DEF r, n
      <4>3. \A i \in DOMAIN schedule' : schedule'[i] \in Simings
        BY <1>1 DEF TypeOK
      <4> QED
        BY <4>2, <4>3 DEF Place
    <3>3. \A s \in Int : ~(confirmed'[schedule'[Place(s)']] > RoundStart')
      BY <1>3, <2>1, <3>1, <3>2
    <3>4. aslot' \in Int /\ Len(schedule') \in Int
      BY <1>1, <1>5 DEF TypeOK
    <3> QED
      BY <3>3, <3>4 DEF InTurn
  <2>3. LastOnes'
    BY <1>3, <1>4, <2>1 DEF LastOnes
  <2>4. RoundLag'
    BY <1>6, <2>1 DEF RoundLag
  <2>5. StartLag'
    <3> SUFFICES ASSUME steady' >= RoundBlocks' + M, RoundStart' >= StartAdoring
                 PROVE  RoundStart' - irreversible' < Needed(M)
      BY DEF StartLag
    <3>1. steady' >= d + 1 /\ d + 1 >= Needed(N) /\ head + 1 >= StartAdoring
      BY <1>1, <1>3, <1>6, <1>8, <1>11, <2>1
    <3>2. head + 1 - irreversible' < Needed(N)
      BY <1>10, <3>1
    <3> QED
      BY <1>3, <1>6, <1>8, <2>1, <3>2
  <2> QED
    BY <1>5, <2>2, <2>3, <2>4, <2>5 DEF LagInv
<1>12. CASE ~starts
  <2>1. /\ RoundBlocks' = d + 1 /\ RoundStart' = RoundStart
        /\ schedule' = schedule
    BY <1>4, <1>7, <1>12
  <2>2. ASSUME steady' >= RoundBlocks' PROVE InTurn' /\ LastOnes' /\ RoundLag'
    <3>1. /\ OnTime(missed, p) /\ InTurn
          /\ \A n \in RoundStart + 1 .. head + 1 :
                n > head + 1 - Needed(N) =>
                    \E i \in DOMAIN schedule : Confirmed(p)[schedule[i]] = n
          /\ (d + 1 >= Needed(N) /\ head + 1 >= StartAdoring)
                => head + 1 - irreversible' < Needed(N)
          /\ Absent \subseteq Absent'
      <4>1. steady' >= d + 1 /\ steady' > 0
        BY <1>3, <1>8, <2>1, <2>2
      <4>2. Absent \subseteq Absent'
        BY <1>9, <1>12, <4>1
      <4> QED
        BY <1>10, <4>1, <4>2
    <3>2. InTurn'
      BY <1>1, <1>2, <2>1, <3>1, InTurnStep
    <3>3. LastOnes'
      <4>1. /\ Needed(Len(schedule')) = Needed(N) /\ DOMAIN schedule' = DOMAIN schedule
            /\ head + 1 - Needed(N) = head' - Needed(N)
        BY <1>3, <1>4, <1>6, <2>1
      <4>2. \A n \in RoundStart' + 1 .. head' :
               n > head' - Needed(Len(schedule')) =>
                   \E i \in DOMAIN schedule' : confirmed'[schedule'[i]] = n
        <5> SUFFICES ASSUME NEW n \in RoundStart + 1 .. head + 1,
                            n > head + 1 - Needed(N)
                     PROVE  \E i \in DOMAIN schedule : confirmed'[schedule[i]] = n
          BY <1>4, <2>1, <4>1
        <5> QED
          BY <1>2, <3>1
      <4> QED
        BY <4>2 DEF LastOnes
    <3>4. RoundLag'
      <4>1. Needed(Len(schedule')) = Needed(N)
        BY <2>1
      <4> SUFFICES ASSUME d + 1 >= Needed(N), head + 1 >= StartAdoring
                   PROVE  head + 1 - irreversible' < Needed(N)
        BY <1>3, <1>4, <1>8, <2>1, <4>1 DEF RoundLag, Needed
      <4> QED
        BY <3>1
    <3> QED
      BY <3>2, <3>3, <3>4
  <2>3. StartLag'
    <3> SUFFICES ASSUME steady' >= RoundBlocks' + M, RoundStart' >= StartAdoring
                 PROVE  RoundStart' - irreversible' < Needed(M)
      BY DEF StartLag
    <3>1. steady >= d + M /\ RoundStart >= StartAdoring
      <4>1. steady' >= d + 1 + M /\ steady' > 0
        BY <1>3, <1>8, <2>1
      <4>2. steady' <= steady + 1
        BY <1>9, <4>1
      <4>3. d \in Nat /\ M \in Nat /\ steady \in Nat /\ steady' \in Nat
        BY <1>3, <1>8
      <4>4. RoundStart >= StartAdoring
        BY <2>1
      <4> HIDE DEF d, M
      <4>5. steady >= d + M
        BY <4>1, <4>2, <4>3
      <4> QED
        BY <4>4, <4>5
    <3>2. RoundStart - irreversible < Needed(M)
      BY <3>1 DEF LagInv, StartLag
    <3> QED
      BY <1>3, <1>6, <1>8, <2>1, <3>2
  <2> QED
    BY <1>5, <2>2, <2>3 DEF LagInv
<1> QED
  BY <1>11, <1>12

\* The inductive invariant of the distance: in a round in which everybody is on time,
\* the order of the last turn makes the producers of the last blocks different.
THEOREM LagInvariant == Spec => []LagInv
<1>1. Init => LagInv
  <2> SUFFICES ASSUME Init PROVE LagInv
    OBVIOUS
  <2>1. TypeOK /\ MaxSimings \in Nat \ {0} /\ StartAdoring \in Nat
    BY InitInv, ParametersAssumption DEF ScheduleInv
  <2>2. /\ head = 0 /\ irreversible = 0 /\ steady = 0 /\ aslot = 0
        /\ schedule = <<InitSiming>> /\ Len(schedule) = 1
        /\ confirmed = [w \in Simings |-> 0]
    BY DEF Init, head
  <2>3. RoundBlocks = 0 /\ RoundStart = 0
    BY <2>1, <2>2, RoundFacts
  <2>4. InTurn
    BY <2>2 DEF InTurn
  <2>5. LastOnes
    BY <2>2, <2>3 DEF LastOnes
  <2>6. Needed(1) \in 1 .. 1
    BY NeededFacts
  <2>7. RoundLag
    BY <2>2, <2>3, <2>6 DEF RoundLag
  <2>8. StartLag
    BY <2>1, <2>2, <2>3 DEF StartLag
  <2> QED
    BY <2>1, <2>2, <2>4, <2>5, <2>7, <2>8 DEF LagInv
<1>2. ScheduleInv /\ LagInv /\ [Next]_vars => LagInv'
  <2>1. CASE UNCHANGED vars
    BY <2>1 DEF vars, LagInv, InTurn, LastOnes, RoundLag, StartLag, RoundBlocks, RoundStart,
                Place, Absent, head
  <2> QED
    BY <2>1, LagNext
<1> QED
  BY <1>1, <1>2, ScheduleInvariant, PTL DEF Spec

\* For any simings, seats, orders of the rounds and elections: when no more are absent
\* than are tolerated, nobody else misses a slot and nobody comes back within a round
\* for two rounds, the last irreversible block follows the head at the distance that
\* two rounds need (update_last_irreversible_block, update_siming_schedule).
THEOREM LagIsBounded == Spec => []FinalityLag
<1>1. ScheduleInv /\ LagInv => FinalityLag
  <2> SUFFICES ASSUME ScheduleInv, LagInv, steady = Window, head >= StartAdoring + MaxSimings
               PROVE  head - irreversible <= 2 * (MaxSimings - Tolerated(MaxSimings) - 1)
    BY DEF FinalityLag
  <2> DEFINE N == Len(schedule)
             M == MaxSimings
             d == RoundBlocks
  <2>1. TypeOK /\ N <= M
    BY DEF ScheduleInv, LagInv
  <2>2. /\ M \in Nat \ {0} /\ head \in Nat /\ d \in 0 .. M - 1 /\ RoundStart \in Nat
        /\ RoundStart + d = head /\ N \in Nat \ {0} /\ StartAdoring \in Nat
        /\ irreversible \in Nat
    <3>1. N \in Nat \ {0} /\ irreversible \in Nat
      BY <2>1 DEF TypeOK
    <3> QED
      BY <2>1, <3>1, RoundFacts, ParametersAssumption
  <2>3. /\ Needed(N) \in 1 .. N /\ Needed(N) <= Needed(M)
        /\ Needed(M) = M - Tolerated(M) /\ Needed(M) \in 1 .. M /\ Tolerated(M) \in Nat
    <3>1. Needed(N) \in 1 .. N /\ Needed(N) <= Needed(M)
      BY <2>1, <2>2, NeededFacts
    <3>2. Needed(M) \in 1 .. M /\ Tolerated(M) \in Nat
      BY <2>2, NeededFacts
    <3> QED
      BY <3>1, <3>2 DEF Needed
  <2>4. steady = 2 * M /\ steady >= d + M /\ steady >= d /\ RoundStart >= StartAdoring
    BY <2>2 DEF Window
  <2>5. RoundLag /\ RoundStart - irreversible < Needed(M)
    BY <2>4 DEF LagInv, StartLag
  <2>6. CASE d >= Needed(N)
    <3>1. head - irreversible < Needed(N)
      BY <2>2, <2>5, <2>6 DEF RoundLag
    <3> QED
      BY <2>2, <2>3, <3>1
  <2>7. CASE d < Needed(N)
    BY <2>2, <2>3, <2>5, <2>7
  <2> QED
    BY <2>2, <2>3, <2>6, <2>7
<1> QED
  BY <1>1, ScheduleInvariant, LagInvariant, PTL
================================================================================
