----------------------------- MODULE QiLedger -----------------------------
(***************************************************************************)
(* Balances of YANG and qi, proxies, adores of simings, withdrawals,       *)
(* routes, delegations, feigang and the totals of the global properties:   *)
(* the evaluators of taiyi_evaluator.cpp that move them and the part of    *)
(* _apply_block() that moves them in every block (database.cpp).           *)
(*                                                                         *)
(* The tables are the fields of one record, db, so that a handler is       *)
(* written as the composition of the calls it makes. db.ok is TRUE: an     *)
(* FC_ASSERT of a call that fails makes it FALSE in the result, the action *)
(* needs it TRUE, so a failed handler leaves no trace (the undo session of *)
(* the transaction or the block is dropped). db.lost is no field of the    *)
(* code but a history that only properties read: the qi that conversions   *)
(* to YANG took without paying for it, the remainders of their divisions.  *)
(***************************************************************************)
EXTENDS Integers, FiniteSets, Functions, FiniteSetsExt

CONSTANTS
    Dao,              \* TAIYI_DAO_ACCOUNT, the treasury
    Users,            \* the accounts that sign operations
    None,             \* TAIYI_PROXY_TO_SELF_ACCOUNT, the empty name
    Simings,          \* the users that registered a siming
    MaxProxyDepth,    \* TAIYI_MAX_PROXY_RECURSION_DEPTH
    MaxAdores,        \* TAIYI_MAX_ACCOUNT_SIMING_ADORES
    QiPerYang,        \* TAIYI_QI_SHARE_PRICE
    Fee,              \* qi an operation pays to the treasury
    Intervals,        \* TAIYI_QI_WITHDRAW_INTERVALS
    WithdrawInterval, \* TAIYI_QI_WITHDRAW_INTERVAL_SECONDS, in blocks
    ReturnPeriod,     \* delegation_return_period, in blocks
    DeclinePeriod,    \* TAIYI_OWNER_AUTH_RECOVERY_PERIOD, in blocks
    MinDelegation,    \* min_delegation of delegate_qi
    MinUpdate,        \* min_update of delegate_qi
    Percent100,       \* TAIYI_100_PERCENT
    StartAdoring,     \* TAIYI_START_ADORING_BLOCK
    SimingReward,     \* YANG a block creates for its siming
    FundReward,       \* YANG a block creates for the reward fund, and again as qi
    InitYang, InitQi, \* what each user starts with
    InitProxy,        \* the proxies and the adores set so far, a function
    InitAdored,       \* and a set of pairs <<account, siming>>
    Amounts,          \* the amounts operations ask for
    Shares,           \* the amounts delegations are set to
    Percents,         \* the percents routes are given, of Percent100
    MaxOps, MaxBlocks \* bounds: operations and blocks of a behaviour

Accounts == Users \cup {Dao}

ASSUME QiLedgerAssumption ==
    /\ Dao \notin Users /\ None \notin Accounts /\ Simings \subseteq Users
    /\ IsFiniteSet(Users)
    /\ {MaxProxyDepth, QiPerYang, Fee, Intervals, WithdrawInterval, Percent100}
          \subseteq Nat \ {0}
    /\ {ReturnPeriod, DeclinePeriod, StartAdoring, SimingReward, FundReward,
         InitYang, InitQi, MaxBlocks} \subseteq Nat
    /\ InitProxy \in [Accounts -> Accounts \cup {None}]
    /\ InitAdored \subseteq {a \in Users : InitProxy[a] = None} \X Simings
    /\ Amounts \subseteq Nat /\ Shares \subseteq Nat /\ Percents \subseteq 0 .. Percent100

Levels == 0 .. MaxProxyDepth - 1
Never == MaxBlocks + WithdrawInterval + ReturnPeriod + DeclinePeriod + 2
Times == 0 .. Never

VARIABLES
    db,       \* the tables
    now,      \* head_block_time() and head_block_num(), one block a tick
    ops,      \* operations so far, for the bound
    claimed,  \* history: feigang has been claimed
    looped    \* history: who had a route of qi to itself

history == <<claimed, looped>>
vars == <<db, now, ops, history>>

---------------------------------------------------------------------------
(* What the code computes from the tables *)

SmallerOf(x, y) == IF x < y THEN x ELSE y
LargerOf(x, y) == IF x > y THEN x ELSE y

\* siming_adore_weight(): the account's own qi and what is proxied to it
Weight(d, a) == d.qi[a] + SumFunction(d.proxied[a])

\* Up(d, a)[n]: the account n proxies above a, None past the last one
Up(d, a) ==
    LET up[n \in 0 .. MaxProxyDepth] ==
            IF n = 0 THEN a
            ELSE LET x == up[n-1] IN IF x = None THEN None ELSE d.proxy[x]
    IN  [n \in 0 .. MaxProxyDepth |-> up[n]]

\* No chain of the proxies set so far comes back to where it started: the
\* evaluator that sets them does not let them.
ASSUME NoProxyLoop ==
    \A a \in Accounts, n \in 1 .. MaxProxyDepth : Up([proxy |-> InitProxy], a)[n] # a

\* get_effective_qi(): what an account may use of its own and delegated qi
EffectiveQi(d, a) ==
    d.qi[a] + d.received[a] - d.delegated[a]
      - IF d.next[a] = Never THEN 0
        ELSE SmallerOf(d.rate[a], d.to_withdraw[a] - d.withdrawn[a])

\* asset * TAIYI_QI_SHARE_PRICE for qi: integer division, and what it drops
AsYang(q) == q \div QiPerYang
Dropped(q) == q % QiPerYang

---------------------------------------------------------------------------
(* The calls of database.cpp *)

\* adjust_siming_adores(): every siming the account adores gains delta
AdjustSimings(d, a, delta) ==
    LET adores == [s \in Simings |->
                     d.adores[s] + IF <<a, s>> \in d.adored THEN delta ELSE 0]
    IN  [d EXCEPT !.adores = adores,
                  !.ok = @ /\ \A s \in Simings :
                                <<a, s>> \in d.adored => adores[s] <= d.total_qi]

\* adjust_proxied_siming_adores() with an array, delta[0 .. MaxProxyDepth]:
\* the levels climb with the proxies, and the top account passes on to the
\* simings what is left of the array
AdjustProxied(d, a, delta) ==
    LET up  == Up(d, a)
        top == {n \in 0 .. MaxProxyDepth : up[n] # None /\ d.proxy[up[n]] = None}
        \* account n proxies above a: its level i gains delta[i - (n - 1)]
        gain(n, i) == IF i >= n - 1 THEN delta[i - (n - 1)] ELSE 0
        raised == [d EXCEPT !.proxied = [b \in Accounts |->
                     LET above == {n \in 1 .. MaxProxyDepth : up[n] = b}
                     IN  [i \in Levels |-> @[b][i] + SumFunction([n \in above |-> gain(n, i)])]]]
    IN  IF top = {} THEN raised
        ELSE LET n == CHOOSE n \in top : TRUE
             IN  AdjustSimings(raised, up[n],
                               SumFunction([i \in 0 .. MaxProxyDepth - n |-> delta[i]]))

\* adjust_proxied_siming_adores() with one amount
AdjustWeight(d, a, x) ==
    AdjustProxied(d, a, [i \in 0 .. MaxProxyDepth |-> IF i = 0 THEN x ELSE 0])

\* Mutant: the levels below are forgotten when an account moves
WholeWeightOwn(d, a, sign) ==
    [i \in 0 .. MaxProxyDepth |-> sign * IF i = 0 THEN d.qi[a] ELSE 0]

\* The array of an account's whole weight, times sign
WholeWeight(d, a, sign) ==
    [i \in 0 .. MaxProxyDepth |-> sign * IF i = 0 THEN d.qi[a] ELSE d.proxied[a][i-1]]

\* Mutant: the balance is not checked
RewardFeigangUnchecked(d, to, from, x) ==
    LET paid == AdjustWeight([d EXCEPT !.qi[from] = @ - x], from, -x)
    IN  [paid EXCEPT !.feigang[to] = @ + x,
                     !.pending_feigang = @ + x,
                     !.total_qi = @ - x,
                     !.ok = @ /\ x > 0]

\* reward_feigang(): qi of one account becomes feigang of another
RewardFeigang(d, to, from, x) ==
    LET paid == AdjustWeight([d EXCEPT !.qi[from] = @ - x], from, -x)
    IN  [paid EXCEPT !.feigang[to] = @ + x,
                     !.pending_feigang = @ + x,
                     !.total_qi = @ - x,
                     !.ok = @ /\ x > 0 /\ d.qi[from] >= x]

\* Mutant: the adores are adjusted before the total is raised
CreateQiLate(d, to, yang) ==
    LET weighed == AdjustWeight([d EXCEPT !.qi[to] = @ + yang * QiPerYang],
                                to, yang * QiPerYang)
    IN  [weighed EXCEPT !.total_qi = @ + yang * QiPerYang]

\* create_qi2() to a balance: YANG becomes qi, exactly
CreateQi(d, to, yang) ==
    AdjustWeight([d EXCEPT !.qi[to] = @ + yang * QiPerYang,
                           !.total_qi = @ + yang * QiPerYang],
                 to, yang * QiPerYang)

\* clear_siming_adores()
ClearAdores(d, a) == [d EXCEPT !.adored = {v \in @ : v[1] # a}]

---------------------------------------------------------------------------
\* A ledger after the users set proxies and adores, with the weights they give
InitQiOf(a) == IF a = Dao THEN 0 ELSE InitQi

InitProxied ==
    LET up == [a \in Accounts |-> Up([proxy |-> InitProxy], a)]
    IN  [a \in Accounts |-> [i \in Levels |->
           SumFunction([b \in {b \in Accounts : up[b][i + 1] = a} |-> InitQiOf(b)])]]

InitAdores ==
    LET weight == [a \in Accounts |-> InitQiOf(a) + SumFunction(InitProxied[a])]
    IN  [s \in Simings |->
           SumFunctionOnSet(weight, {a \in Accounts : <<a, s>> \in InitAdored})]

Init ==
    LET none == [a \in Accounts |-> 0]
        never == [a \in Accounts |-> Never]
        users == Cardinality(Users)
    IN  /\ db = [balance |-> [a \in Accounts |-> IF a = Dao THEN 0 ELSE InitYang],
                 qi |-> [a \in Accounts |-> InitQiOf(a)],
                 proxy |-> InitProxy, proxied |-> InitProxied,
                 adored |-> InitAdored, adores |-> InitAdores,
                 can_adore |-> [a \in Accounts |-> TRUE], decline |-> never,
                 delegated |-> none, received |-> none, feigang |-> none,
                 delegation |-> [p \in Accounts \X Accounts |-> 0],
                 returning |-> [a \in Accounts |-> [t \in Times |-> 0]],
                 rate |-> none, next |-> never, to_withdraw |-> none, withdrawn |-> none,
                 routes |-> {}, fund_yang |-> 0, fund_qi |-> 0,
                 supply |-> users * InitYang + AsYang(users * InitQi), lost |-> 0,
                 total_qi |-> users * InitQi, pending_feigang |-> 0, ok |-> TRUE]
        /\ now = 0 /\ ops = 0 /\ claimed = FALSE /\ looped = {}

\* An operation is applied between two blocks, if no assertion of it failed
Apply(d) ==
    /\ d.ok
    /\ db' = d /\ ops' = ops + 1 /\ UNCHANGED now

\* The fee that transfers and withdrawals pay to the treasury
PayFee(d, a) == RewardFeigang(d, Dao, a, Fee)

\* transfer_evaluator
Transfer(from, to, x) ==
    /\ from # to /\ x > 0
    /\ db.balance[from] >= x
    /\ Apply([PayFee(db, from) EXCEPT !.balance[from] = @ - x, !.balance[to] = @ + x])
    /\ UNCHANGED history

\* transfer_to_qi_evaluator
TransferToQi(from, to, x) ==
    /\ x > 0
    /\ db.balance[from] >= x
    /\ Apply(CreateQi([PayFee(db, from) EXCEPT !.balance[from] = @ - x], to, x))
    /\ UNCHANGED history

\* Mutant: the last interval loses what the division left
WithdrawRateFloor(x) == LargerOf(x \div Intervals, 1)

\* withdraw_qi_evaluator: zero cancels, anything else replaces what is running
WithdrawRate(x) ==
    LET rate == LargerOf(x \div Intervals, 1)
    IN  IF rate * Intervals < x THEN rate + 1 ELSE rate

WithdrawQi(a, x) ==
    LET paid == PayFee(db, a)
        rate == IF x = 0 THEN 0 ELSE WithdrawRate(x)
    IN  /\ paid.qi[a] - paid.delegated[a] >= x
        /\ db.rate[a] # rate
        /\ Apply([paid EXCEPT !.rate[a] = rate,
                              !.next[a] = IF x = 0 THEN Never ELSE now + WithdrawInterval,
                              !.to_withdraw[a] = x,
                              !.withdrawn[a] = 0])
        /\ UNCHANGED history

\* set_withdraw_qi_route_evaluator: one route per pair, none for 0 percent
SetRoute(from, to, percent, vest) ==
    LET old == {r \in db.routes : r.from = from /\ r.to = to}
        new == IF percent = 0 THEN {}
               ELSE {[from |-> from, to |-> to, percent |-> percent, auto_vest |-> vest]}
        routes == (db.routes \ old) \cup new
    IN  /\ to # Dao
        /\ old = {} => percent # 0
        /\ SumFunction([r \in {r \in routes : r.from = from} |-> r.percent]) <= Percent100
        /\ Apply([db EXCEPT !.routes = routes])
        /\ looped' = IF \E r \in new : vest /\ to = from THEN looped \cup {from} ELSE looped
        /\ UNCHANGED claimed

\* account_siming_proxy_evaluator. The chain above the new proxy may not reach
\* the account again, and with the account it may not hold more accounts than
\* MaxProxyDepth, unless the new proxy has no proxy itself.
ProxyChain(d, p) == {x \in Accounts : \E n \in 0 .. MaxProxyDepth : Up(d, p)[n] = x}

SetProxy(a, p) ==
    LET removed == AdjustProxied(db, a, WholeWeight(db, a, -1))
        chain   == ProxyChain(db, p)
        moved   == [ClearAdores(removed, a) EXCEPT !.proxy[a] = p]
    IN  /\ p # a /\ db.proxy[a] # p
        /\ db.can_adore[a]
        /\ IF p = None
           THEN Apply([removed EXCEPT !.proxy[a] = None])
           ELSE /\ db.proxy[p] # None =>
                     /\ a \notin chain
                     /\ Cardinality(chain \cup {a}) <= MaxProxyDepth
                /\ Apply(AdjustProxied(moved, a, WholeWeight(db, a, 1)))
        /\ UNCHANGED history

\* account_siming_adore_evaluator
Adore(a, s, approve) ==
    /\ db.proxy[a] = None
    /\ approve => db.can_adore[a]
    /\ approve # (<<a, s>> \in db.adored)
    /\ approve => Cardinality({v \in db.adored : v[1] = a}) < MaxAdores
    /\ LET weight == IF approve THEN Weight(db, a) ELSE -Weight(db, a)
           adores == db.adores[s] + weight
       IN  Apply([db EXCEPT !.adores[s] = adores,
                            !.adored = IF approve THEN @ \cup {<<a, s>>} ELSE @ \ {<<a, s>>},
                            !.ok = adores <= db.total_qi])
    /\ UNCHANGED history

\* decline_adoring_rights_evaluator: ask for it, or cancel the request
RequestDecline(a, on) ==
    /\ on = (db.decline[a] = Never)
    /\ Apply([db EXCEPT !.decline[a] = IF on THEN now + DeclinePeriod ELSE Never])
    /\ UNCHANGED history

\* claim_reward_balance_evaluator for feigang, the only reward the code pays
\* to accounts. The siming adores are adjusted for it twice.
ClaimFeigang(a, x) ==
    LET first  == AdjustWeight([db EXCEPT !.feigang[a] = @ - x, !.qi[a] = @ + x], a, x)
        second == AdjustWeight([first EXCEPT !.total_qi = @ + x, !.pending_feigang = @ - x],
                               a, x)
    IN  /\ x > 0
        /\ x <= db.feigang[a]
        /\ Apply(second)
        /\ claimed' = TRUE /\ UNCHANGED looped

\* delegate_qi_evaluator: what may still be delegated
Available(d, a) ==
    LET left == d.to_withdraw[a] - d.withdrawn[a]
    IN  SmallerOf(d.qi[a], EffectiveQi(d, a) - d.received[a])
          + IF d.next[a] < Never /\ left > d.rate[a]
            THEN SmallerOf(d.rate[a], left) - left ELSE 0

DelegateQi(a, b, x) ==
    LET old  == db.delegation[<<a, b>>]
        more == x - old
        less == old - x
    IN  /\ a # b
        /\ \/ /\ old = 0                                     \* a new delegation
              /\ Available(db, a) >= x /\ x >= MinDelegation
              /\ Apply([db EXCEPT !.delegation[<<a, b>>] = x,
                                  !.delegated[a] = @ + x, !.received[b] = @ + x])
           \/ /\ old > 0 /\ x >= old                         \* a larger one
              /\ more >= MinUpdate /\ Available(db, a) >= more
              /\ Apply([db EXCEPT !.delegation[<<a, b>>] = x,
                                  !.delegated[a] = @ + more, !.received[b] = @ + more])
           \/ /\ old > x                                     \* a smaller one, or none
              /\ x > 0 => less >= MinUpdate /\ x >= MinDelegation
              /\ Apply([db EXCEPT !.delegation[<<a, b>>] = x,
                                  !.received[b] = @ - less,
                                  !.returning[a][now + ReturnPeriod] = @ + less])
        /\ UNCHANGED history

\* call_contract_function_evaluator: what the caller pays, the owner's share of
\* the virtual machine's cost first and then the treasury's
CallContract(a, owner, x) ==
    LET first == RewardFeigang(db, owner, a, x)
    IN  /\ first.ok
        /\ Apply(RewardFeigang(first, Dao, a, Fee))
        /\ UNCHANGED history

---------------------------------------------------------------------------
(* What every block does after its transactions, at the time t it sets *)

\* Mutant: the record is removed one block before its qi is returned
ClearExpiredDelegationsEarly(d, t) ==
    LET over == [a \in Accounts |-> SumFunctionOnSet(d.returning[a], {u \in Times : u < t})]
    IN  [d EXCEPT !.delegated = [a \in Accounts |-> @[a] - over[a]],
                  !.returning = [a \in Accounts |->
                                   [u \in Times |-> IF u <= t THEN 0 ELSE @[a][u]]]]

\* clear_expired_delegations()
ClearExpiredDelegations(d, t) ==
    LET over == [a \in Accounts |-> SumFunctionOnSet(d.returning[a], {u \in Times : u < t})]
    IN  [d EXCEPT !.delegated = [a \in Accounts |-> @[a] - over[a]],
                  !.returning = [a \in Accounts |->
                                   [u \in Times |-> IF u < t THEN 0 ELSE @[a][u]]]]

\* process_funds() and pay_reward_funds(): the reward fund and the siming
ProcessFunds(d, t, siming) ==
    LET funded == [d EXCEPT !.fund_yang = @ + FundReward,
                            !.fund_qi = @ + FundReward * QiPerYang,
                            !.supply = @ + 2 * FundReward + SimingReward]
    IN  IF t >= StartAdoring \/ d.qi[siming] = 0
        THEN CreateQi(funded, siming, SimingReward)
        ELSE [funded EXCEPT !.balance[siming] = @ + SimingReward]

\* One account of process_qi_withdrawals()
Share(amount, r) == (amount * r.percent) \div Percent100

DepositAsQi(d, r, x) == AdjustWeight([d EXCEPT !.qi[r.to] = @ + x], r.to, x)

\* Mutant: the conversion rounds up
DepositAsYangUp(d, r, x) ==
    [d EXCEPT !.balance[r.to] = @ + AsYang(x + QiPerYang - 1), !.lost = @ + Dropped(x),
              !.total_qi = @ - x]

DepositAsYang(d, r, x) ==
    [d EXCEPT !.balance[r.to] = @ + AsYang(x), !.lost = @ + Dropped(x),
              !.total_qi = @ - x]

Withdraw(d, a) ==
    LET left   == d.to_withdraw[a] - d.withdrawn[a]
        amount == SmallerOf(d.qi[a], IF left < d.rate[a] THEN d.to_withdraw[a] % d.rate[a]
                                     ELSE d.rate[a])
        mine   == {r \in d.routes : r.from = a}
        vested == FoldSet(LAMBDA r, e : DepositAsQi(e, r, Share(amount, r)), d,
                          {r \in mine : r.auto_vest /\ Share(amount, r) > 0})
        liquid == FoldSet(LAMBDA r, e : DepositAsYang(e, r, Share(amount, r)), vested,
                          {r \in mine : ~r.auto_vest})
        rest   == amount - SumFunction([r \in mine |-> Share(amount, r)])
        kept   == liquid.qi[a] - amount
        done   == d.withdrawn[a] + amount >= d.to_withdraw[a] \/ kept = 0
        closed == [liquid EXCEPT !.qi[a] = kept,
                                 !.balance[a] = @ + AsYang(rest),
                                 !.lost = @ + Dropped(rest),
                                 !.withdrawn[a] = @ + amount,
                                 !.rate[a] = IF done THEN 0 ELSE @,
                                 !.next[a] = IF done THEN Never ELSE @ + WithdrawInterval,
                                 !.total_qi = @ - rest,
                                 !.ok = @ /\ rest >= 0]
    IN  IF amount > 0 THEN AdjustWeight(closed, a, -amount) ELSE closed

\* process_qi_withdrawals(). All that is due is due since the same block, so
\* the index by_next_qi_withdrawal_time yields the accounts in a fixed order.
ProcessQiWithdrawals(d, t) ==
    FoldSet(LAMBDA a, e : Withdraw(e, a), d, {a \in Accounts : d.next[a] <= t})

\* process_decline_adoring_rights()
Decline(d, a) ==
    [ClearAdores(AdjustProxied(d, a, WholeWeight(d, a, -1)), a)
        EXCEPT !.can_adore[a] = FALSE, !.proxy[a] = None, !.decline[a] = Never]

ProcessDecline(d, t) ==
    FoldSet(LAMBDA a, e : Decline(e, a), d, {a \in Accounts : d.decline[a] <= t})

Maintained(d, t, siming) ==
    ProcessDecline(ProcessQiWithdrawals(
        ProcessFunds(ClearExpiredDelegations(d, t), t, siming), t), t)

\* _apply_block() without its transactions; a block whose maintenance fails is
\* refused and changes nothing
ApplyBlock(siming) ==
    /\ now < MaxBlocks
    /\ LET d == Maintained(db, now + 1, siming) IN d.ok /\ db' = d
    /\ now' = now + 1
    /\ UNCHANGED <<ops, history>>

Operation ==
    \/ \E a \in Users, b \in Accounts, x \in Amounts :
         \/ Transfer(a, b, x)
         \/ TransferToQi(a, b, x)
         \/ CallContract(a, b, x)
    \/ \E a \in Users, b \in Accounts, x \in Shares : DelegateQi(a, b, x)
    \/ \E a \in Users, x \in Amounts : WithdrawQi(a, x) \/ ClaimFeigang(a, x)
    \/ \E a \in Users, b \in Accounts, p \in Percents, vest \in BOOLEAN :
         SetRoute(a, b, p, vest)
    \/ \E a \in Users, p \in Accounts \cup {None} : SetProxy(a, p)
    \/ \E a \in Users, s \in Simings, approve \in BOOLEAN : Adore(a, s, approve)
    \/ \E a \in Users, on \in BOOLEAN : RequestDecline(a, on)

Next ==
    \/ ops < MaxOps /\ Operation
    \/ \E s \in Simings : ApplyBlock(s)

Spec == Init /\ [][Next]_vars

---------------------------------------------------------------------------
(* Properties *)

\* Types of the tables (account_object, siming_object, siming_adore_object,
\* withdraw_qi_route_object, qi_delegation_object and its expiration).
TypeOK ==
    /\ \A f \in {"balance", "qi", "delegated", "received", "rate", "to_withdraw",
                  "withdrawn", "feigang"} : db[f] \in [Accounts -> Nat]
    /\ db.proxy \in [Accounts -> Accounts \cup {None}]
    /\ db.proxied \in [Accounts -> [Levels -> Int]]
    /\ db.can_adore \in [Accounts -> BOOLEAN]
    /\ db.next \in [Accounts -> Times] /\ db.decline \in [Accounts -> Times]
    /\ db.routes \subseteq [from : Users, to : Users, percent : 1 .. Percent100,
                            auto_vest : BOOLEAN]
    /\ db.adored \subseteq Users \X Simings
    /\ db.adores \in [Simings -> Int]
    /\ db.delegation \in [Accounts \X Accounts -> Nat]
    /\ db.returning \in [Accounts -> [Times -> Nat]]
    /\ {db.fund_yang, db.fund_qi, db.supply, db.lost, db.total_qi, db.pending_feigang}
          \subseteq Nat
    /\ db.ok

\* What all tables hold, in YANG: the total_supply of validate_invariants(),
\* which adds up all qi before it divides, here with some more qi.
HeldWith(qi) ==
    SumFunction(db.balance) + db.fund_yang
      + AsYang(SumFunction(db.qi) + SumFunction(db.feigang) + db.fund_qi + qi)

\* The totals of the global properties are those of the tables: the free qi and
\* the feigang exactly, and current_supply exactly but for the remainders that
\* the conversions of withdrawals drop (database.cpp:1066, 1091). Nothing else
\* is lost and nothing is made, whatever claims, fees, routes, withdrawals and
\* block rewards, which change these totals in different functions, do. With
\* no remainder dropped this is what validate_invariants() asserts.
SupplyAccounted ==
    /\ db.total_qi = SumFunction(db.qi)
    /\ db.pending_feigang = SumFunction(db.feigang)
    /\ HeldWith(db.lost) = db.supply

AdoredWeight(s) ==
    SumFunction([a \in {a \in Accounts : <<a, s>> \in db.adored} |-> Weight(db, a)])

\* Until feigang is claimed, the incremental updates of all operations agree
\* with a recount: the level i of an account is the qi of the accounts i + 1
\* proxies below it, and the adores of a siming are the weights of its adorers,
\* whatever the order in which accounts set proxies, adore, decline, pay,
\* convert and withdraw (adjust_proxied_siming_adores()). A claim may credit
\* them too much, never too little, and so none ever gets below zero.
WeightsRecount ==
    LET up == [b \in Accounts |-> Up(db, b)]
        level(a, i) == SumFunctionOnSet(db.qi, {b \in Accounts : up[b][i + 1] = a})
        fits(x, y) == IF claimed THEN x >= y ELSE x = y
    IN  /\ \A a \in Accounts, i \in Levels : fits(db.proxied[a][i], level(a, i))
        /\ \A s \in Simings : fits(db.adores[s], AdoredWeight(s))

\* What an account has delegated is what its delegations hold and what is on
\* its way back, what it has received is what others delegate to it now
\* (delegate_qi_evaluator, clear_expired_delegations()).
DelegationsBalance ==
    \A a \in Accounts :
      /\ db.delegated[a] = SumFunction([b \in Accounts |-> db.delegation[<<a, b>>]])
                            + SumFunction(db.returning[a])
      /\ db.received[a] = SumFunction([b \in Accounts |-> db.delegation[<<b, a>>]])

\* A withdrawal pays out what was asked for and no more, in the number of
\* intervals the code promises, with rounding, fees, routes and a new request in
\* between; once it is over the account is no longer due. The exception is an
\* account whose qi comes back to it by a route to itself: an interval can pay
\* less than the rate without ending the withdrawal, and the last one, which
\* pays to_withdraw % rate, may then be more than what is left.
WithdrawalsBounded ==
    \A a \in Accounts :
      /\ IF a \in looped
         THEN db.withdrawn[a] < db.to_withdraw[a] + WithdrawRate(db.to_withdraw[a])
         ELSE db.withdrawn[a] <= db.to_withdraw[a]
      /\ (db.next[a] = Never) = (db.rate[a] = 0)
      /\ db.rate[a] # 0 =>
           db.to_withdraw[a] - db.withdrawn[a]
             <= db.rate[a] * (Intervals - (db.withdrawn[a] \div db.rate[a]))

\* validate_invariants(): the qi of all accounts is the sum of the weights of
\* those that have no proxy, and of the topmost level of the others.
AdoresAccountForQi ==
    SumFunction(db.qi) =
      SumFunction([a \in Accounts |-> IF db.proxy[a] = None THEN Weight(db, a)
                                      ELSE db.proxied[a][MaxProxyDepth - 1]])

\* While no route deposits qi and no feigang was claimed, the assertion in
\* adjust_siming_adore() stops no block: the next block can always be applied.
BlockNotRefused ==
    ~claimed /\ (\A r \in db.routes : ~r.auto_vest) =>
      \A s \in Simings : Maintained(db, now + 1, s).ok
=============================================================================
