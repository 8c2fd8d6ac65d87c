-------------------------------- MODULE FinalChain --------------------------------
(****************************************************************************)
(* What a node promises about the chain it is on: it grows by a block at a  *)
(* time, it may be taken back, but never behind its final part, and the     *)
(* final part only grows.                                                   *)
(****************************************************************************)
EXTENDS Integers, Sequences

VARIABLES
    chain,      \* the blocks of the current chain
    final       \* how many of them are final

vars == <<chain, final>>

Init == chain = <<>> /\ final = 0

Extend ==
    /\ Len(chain') = Len(chain) + 1
    /\ SubSeq(chain', 1, Len(chain)) = chain
    /\ final' \in final .. Len(chain')

Finalize ==
    /\ chain' = chain
    /\ final' \in final .. Len(chain)

Rewind ==
    /\ \E n \in final .. Len(chain) : chain' = SubSeq(chain, 1, n)
    /\ UNCHANGED final

Next == Extend \/ Finalize \/ Rewind

Spec == Init /\ [][Next]_vars
================================================================================
