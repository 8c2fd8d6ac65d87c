----------------------------- MODULE SimingSchedule -----------------------------
(****************************************************************************)
(* Who produces which block, and which blocks are irreversible              *)
(* (libraries/chain/siming_schedule.cpp and validate_block_header(),        *)
(* update_global_dynamic_data(), update_signing_siming() and                *)
(* update_last_irreversible_block() of libraries/chain/database.cpp).       *)
(*                                                                          *)
(* One node applies the blocks of one chain; ChainDatabase has the forks.   *)
(* Time is counted in slots of TAIYI_BLOCK_INTERVAL.  A slot belongs to one *)
(* of the scheduled simings; a slot in which no block was made is missed.   *)
(* The order of the schedule is a permutation that the code computes from   *)
(* the time of the head block: any permutation here.  What is counted for   *)
(* statistics only (total_missed, participation_count), the properties and  *)
(* the versions that simings vote for are left out.                         *)
(****************************************************************************)
EXTENDS Integers, Sequences, FiniteSets

CONSTANTS
    Simings,         \* the accounts that may be simings, in the order of names
    InitSiming,      \* TAIYI_INIT_SIMING_NAME
    MaxSimings,      \* TAIYI_MAX_SIMINGS, and max_adored_simings
    StartAdoring,    \* TAIYI_START_ADORING_BLOCK
    BlocksPerDay,    \* TAIYI_BLOCKS_PER_DAY
    MaxUndoHistory,  \* TAIYI_MAX_UNDO_HISTORY
    Adores,          \* the numbers of adores a siming may have
    Silent,          \* the sets of simings that may never make a block
    Groups,          \* bound: the simings that the transactions of one block concern
    Orders,          \* bound: the orders in which the simings are shuffled
    MaxBlocks,       \* bound: blocks of the chain
    MaxMissed,       \* bound: slots missed in a row
    MaxSlips,        \* bound: slots missed by simings that could have made a block
    MaxChanges       \* bound: operations that concern simings

ASSUME SimingsAssumption ==
    /\ Simings \subseteq Nat /\ IsFiniteSet(Simings) /\ InitSiming \in Simings
    /\ Adores \subseteq Nat /\ 0 \in Adores
    /\ Silent \subseteq SUBSET Simings /\ Orders \subseteq Seq(Simings)
    /\ Groups \subseteq SUBSET Simings
ASSUME ParametersAssumption ==
    /\ MaxSimings \in Nat \ {0} /\ StartAdoring \in Nat
    /\ BlocksPerDay \in Nat /\ MaxUndoHistory \in Nat
    /\ MaxMissed \in Nat /\ MaxSlips \in Nat /\ MaxChanges \in Nat

VARIABLES
    chain,         \* the producer of every block; head_block_num is its length
    aslot,         \* current_aslot
    irreversible,  \* last_irreversible_block_num
    schedule,      \* current_shuffled_simings[0 .. num_scheduled_simings - 1]
    key,           \* signing_key: whose, and if null, why
    adores,        \* adores of every siming
    confirmed,     \* last_confirmed_block_num of every siming
    silent,        \* who never makes a block
    steady,        \* history: the number of blocks since somebody slipped
    slips,         \* bound: slots missed by others than silent simings
    changes        \* bound: operations so far

vars == <<chain, aslot, irreversible, schedule, key, adores, confirmed, silent,
          steady, slips, changes>>

head == Len(chain)

\* A null key is that of an account that is no siming yet, has resigned
\* (siming_update with an empty key) or was shut down for missing its slots.
KeyStates == {"own", "none", "resigned", "shut"}

\* The blocks until everybody that is scheduled must have made one, twice.
Window == 2 * MaxSimings

Init ==
    /\ chain = <<>>
    /\ aslot = 0
    /\ irreversible = 0
    /\ schedule = <<InitSiming>>
    /\ key = [w \in Simings |-> IF w = InitSiming THEN "own" ELSE "none"]
    /\ adores = [w \in Simings |-> 0]
    /\ confirmed = [w \in Simings |-> 0]
    /\ silent \in Silent
    /\ steady = 0
    /\ slips = 0
    /\ changes = 0

-----------------------------------------------------------------------------
\* The schedule.

GetScheduledSiming(slot) == schedule[((aslot + slot) % Len(schedule)) + 1]

\* Who comes before w in the index by adores, then by name.
Before(a, w) == {v \in Simings : a[v] > a[w] \/ (a[v] = a[w] /\ v < w)}

\* A null key is not skipped.
ElectedWithoutKey(k, a) ==
    {w \in Simings : /\ k[w] # "none"
                     /\ Cardinality({v \in Before(a, w) : k[v] # "none"}) < MaxSimings}

\* The MaxSimings simings with a key that have most adores.  max_adored_simings
\* is MaxSimings and is never changed, so that whoever has a key and is not
\* among them finds no seat left: the loop over the virtual schedule adds nobody.
Elected(k, a) ==
    {w \in Simings : /\ k[w] = "own"
                     /\ Cardinality({v \in Before(a, w) : k[v] = "own"}) < MaxSimings}

\* The orders in which they can be shuffled.
Shuffles(S) ==
    {s \in Orders : /\ {s[i] : i \in DOMAIN s} = S
                    /\ \A i, j \in DOMAIN s : s[i] = s[j] => i = j}

\* Every MaxSimings blocks.  When nobody has a key the only name scheduled is
\* the empty one, get_siming() does not find it, and the block is refused.
UpdateSimingSchedule(k, a) ==
    IF Len(chain') % MaxSimings = 0
    THEN /\ Elected(k, a) # {}
         /\ schedule' \in Shuffles(Elected(k, a))
    ELSE UNCHANGED schedule

-----------------------------------------------------------------------------
\* The last irreversible block.

IrreversibleThreshold == 75
OneHundredPercent == 100

\* Confirmations of all simings are asked for.
OffsetOfAll(n) == 0

\* The rank, from below, of the confirmation that decides.
Offset(n) == ((OneHundredPercent - IrreversibleThreshold) * n) \div OneHundredPercent

\* nth_element: the last confirmation of the i-th of the schedule is the one at
\* the given rank.
AtRank(c, i, rank) ==
    /\ Cardinality({j \in DOMAIN schedule : c[schedule[j]] < c[schedule[i]]}) <= rank
    /\ Cardinality({j \in DOMAIN schedule : c[schedule[j]] <= c[schedule[i]]}) > rank

\* The first blocks are not waited for (the number wraps around).
UpdateLastFromFirst(c) == irreversible' = Len(chain') - MaxSimings

\* The last irreversible block follows the schedule wherever it goes.
UpdateLastUnchecked(c) ==
    IF Len(chain') < StartAdoring
    THEN irreversible' = IF Len(chain') > MaxSimings THEN Len(chain') - MaxSimings
                                                     ELSE irreversible
    ELSE \E i \in DOMAIN schedule :
           AtRank(c, i, Offset(Len(schedule))) /\ irreversible' = c[schedule[i]]

UpdateLastIrreversibleBlock(c) ==
    IF Len(chain') < StartAdoring
    THEN irreversible' = IF Len(chain') > MaxSimings THEN Len(chain') - MaxSimings
                                                     ELSE irreversible
    ELSE \E i \in DOMAIN schedule :
           /\ AtRank(c, i, Offset(Len(schedule)))
           /\ irreversible' = IF c[schedule[i]] > irreversible THEN c[schedule[i]]
                                                               ELSE irreversible

-----------------------------------------------------------------------------
\* What a transaction of a block may change: siming_update (which registers an
\* account that is no siming yet) and siming_set_properties set or clear the key;
\* adoring, and everything that moves qi, changes the number of adores.

Unchanged == [key |-> key, adores |-> adores]

Registered ==
    {[Unchanged EXCEPT !.key = [w \in Simings |-> IF w \in S THEN "own" ELSE key[w]]] :
        S \in Groups}

Resigned ==
    {[Unchanged EXCEPT !.key =
        [w \in Simings |-> IF w \in S /\ key[w] = "own" THEN "resigned" ELSE key[w]]] :
        S \in Groups}

Adored ==
    {[Unchanged EXCEPT !.adores =
        [w \in Simings |-> IF w \in S /\ key[w] # "none" THEN n ELSE adores[w]]] :
        S \in Groups, n \in Adores}

-----------------------------------------------------------------------------
\* Applying a block.

\* update_global_dynamic_data: whoever missed a slot before the block and has
\* not made a block for a day loses the key.
Overdue(missed, producer) ==
    {w \in Simings \ {producer} :
        /\ \E slot \in 1 .. missed : GetScheduledSiming(slot) = w
        /\ head - confirmed[w] > BlocksPerDay}

ShutDown(k, out) == [w \in Simings |-> IF w \in out /\ k[w] = "own" THEN "shut" ELSE k[w]]

\* The scheduled simings that make no block: they are silent or have no key.
Absent == {i \in DOMAIN schedule : schedule[i] \in silent \/ key[schedule[i]] # "own"}

Slipped(missed) ==
    {slot \in 1 .. missed :
        GetScheduledSiming(slot) \notin silent /\ key[GetScheduledSiming(slot)] = "own"}

\* How many may be absent for the threshold to be met.
Tolerated(n) == ((OneHundredPercent - IrreversibleThreshold) * n) \div OneHundredPercent

\* Somebody that made no blocks takes a key in the middle of a round.
CameBack == Len(chain') % MaxSimings # 0 /\ ~(Absent \subseteq Absent')

\* How long the network has worked as the threshold demands: no more are
\* absent than the threshold allows, nobody else misses a slot, and whoever is
\* absent stays so until the next round.
CountSteady(missed) ==
    /\ slips' = slips + Cardinality(Slipped(missed))
    /\ slips' <= MaxSlips
    /\ steady' = IF \/ Slipped(missed) # {}
                    \/ Cardinality(Absent) > Tolerated(Len(schedule))
                    \/ CameBack
                 THEN 0
                 ELSE IF steady < Window THEN steady + 1 ELSE steady

\* _apply_block: the header is checked in the state before the block; after are
\* the keys and the adores once the transactions of the block were applied.
Apply(missed, producer, after) ==
    LET c == [confirmed EXCEPT ![producer] = head + 1]
        k == ShutDown(after.key, Overdue(missed, producer))
    IN  /\ key[producer] = "own"
        /\ (head + 1) - irreversible < MaxUndoHistory
        /\ chain' = Append(chain, producer)
        /\ aslot' = aslot + missed + 1
        /\ key' = k
        /\ adores' = after.adores
        /\ confirmed' = c
        /\ UpdateLastIrreversibleBlock(c)
        /\ UpdateSimingSchedule(k, after.adores)

\* A block made after some missed slots by the siming whose slot it is, with the
\* given outcome of its transactions.
Produce(after) ==
    /\ head < MaxBlocks
    /\ \E missed \in 0 .. MaxMissed :
         /\ GetScheduledSiming(missed + 1) \notin silent
         /\ UNCHANGED silent
         /\ Apply(missed, GetScheduledSiming(missed + 1), after)
         /\ CountSteady(missed)

Block == Produce(Unchanged) /\ UNCHANGED changes

BlockWithChange(outcomes) ==
    /\ changes < MaxChanges
    /\ changes' = changes + 1
    /\ \E after \in outcomes \ {Unchanged} : Produce(after)

Register == BlockWithChange(Registered)
Resign == BlockWithChange(Resigned)
Adore == BlockWithChange(Adored)

Next == Block \/ Register \/ Resign \/ Adore

Spec == Init /\ [][Next]_vars

-----------------------------------------------------------------------------
\* Properties.

TypeOK ==
    /\ chain \in Seq(Simings)
    /\ aslot \in Nat /\ aslot >= head
    /\ irreversible \in 0 .. head
    /\ schedule \in Seq(Simings) /\ schedule # <<>>
    /\ \A i, j \in DOMAIN schedule : schedule[i] = schedule[j] => i = j
    /\ key \in [Simings -> KeyStates]
    /\ adores \in [Simings -> Adores]
    /\ confirmed \in [Simings -> 0 .. head]
    /\ silent \in Silent
    /\ steady \in 0 .. Window /\ slips \in Nat /\ changes \in 0 .. MaxChanges

\* The simings of the round that have made block n or a block on it.
Behind(n) == {i \in DOMAIN schedule : \E m \in n .. Len(chain') : chain'[m] = schedule[i]}

RaisedByQuorum ==
    irreversible' # irreversible =>
        /\ irreversible' \in irreversible + 1 .. Len(chain')
        /\ Len(chain') >= StartAdoring =>
             Cardinality(Behind(irreversible')) * OneHundredPercent
               >= IrreversibleThreshold * Len(schedule)

\* A block becomes irreversible only once three quarters of the simings of the
\* round have each made it or a block on it, whoever missed slots, came and went
\* before (config.hpp:134 TAIYI_IRREVERSIBLE_THRESHOLD, the rank in
\* update_last_irreversible_block), and none ever becomes reversible again.
IrreversibleHasQuorum == [][RaisedByQuorum]_vars

\* While no more simings are absent than the threshold allows, nobody else misses
\* a slot and nobody comes and goes within a round, the last irreversible block
\* follows the head at a distance that MaxSimings fixes, also when all that are
\* elected anew have confirmed nothing for long: the undo history never runs out
\* (update_last_irreversible_block with update_siming_schedule; the assertion in
\* update_global_dynamic_data). The first round to be confirmed is waited for.
FinalityLag ==
    (steady = Window /\ head >= StartAdoring + MaxSimings) =>
        head - irreversible <= 2 * (MaxSimings - Tolerated(MaxSimings) - 1)

\* The chain does not stop by taking keys away: unless simings resign, one of
\* those scheduled can make a block (update_global_dynamic_data clears keys
\* between two updates of the schedule, for blocks missed since the last one).
SomeoneCanSign ==
    (\A w \in Simings : key[w] # "resigned") =>
        \E i \in DOMAIN schedule : key[schedule[i]] = "own"
================================================================================
