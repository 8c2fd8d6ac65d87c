-------------------------- MODULE MCPendingTransactions --------------------------
EXTENDS PendingTransactions

CONSTANTS pay, spend, other, vote

\* `spend` uses what `pay` brought, and so does `other`: one of the two can
\* follow.  `vote` and `pay` depend on nothing; `vote` and `other` expire first.
Uses == [t \in Tx |-> IF t \in {spend, other} THEN {pay} ELSE {}]
Excludes == [t \in Tx |-> IF t \in {spend, other} THEN {spend, other} \ {t} ELSE {}]
Expires == [t \in Tx |-> IF t \in {other, vote} THEN 2 ELSE 3]
================================================================================
