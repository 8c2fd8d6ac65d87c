---------------------------- MODULE MCQiLedger ----------------------------
(* Three users and the treasury: c proxies to b, b to a, and a, a siming,  *)
(* adores itself. One more proxy, of a to the treasury, makes the chain    *)
(* longer than the adores climb.                                           *)
EXTENDS QiLedger, TLC

CONSTANTS a, b, c, treasury, nobody

MCInitProxy == a :> nobody @@ b :> a @@ c :> b @@ treasury :> nobody
MCInitAdored == {<<a, a>>}

(* One user without a proxy: the world in which an account can send part   *)
(* of a withdrawal to itself (MCQiLedgerSelfRoute.cfg).                    *)
MCInitProxyAlone == a :> nobody @@ treasury :> nobody

(* No account is paid more than it asked for, without the exception that   *)
(* WithdrawalsBounded makes for an account whose automatic vesting route   *)
(* leads back to itself. process_qi_withdrawals (database.cpp:999-1084)    *)
(* takes the deposit of such a route for what is left of the total and     *)
(* takes out more: this is not a property of the code.                     *)
PaysNoMore == \A x \in Accounts : db.withdrawn[x] <= db.to_withdraw[x]

(* What the tables hold is what current_supply says: the assertion of      *)
(* validate_invariants() (database.cpp:2752) as it stands. A conversion of *)
(* a withdrawal pays YANG for whole units only and the supply keeps the    *)
(* rest (database.cpp:1066, 1091), so this is not a property of the code   *)
(* either; SupplyAccounted says how far the two are apart.                 *)
SupplyMatches == HeldWith(0) = db.supply
=============================================================================
