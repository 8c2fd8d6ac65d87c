------------------------------ MODULE MCWriteQueue ------------------------------
EXTENDS WriteQueue

CONSTANTS a1, a2

\* The order of a node without a configuration: plugins stop in the reverse
\* order of their start, which is chain, p2p, webserver (programs/taiyin/main.cpp).
DefaultOrder == [p \in Plugin |->
    CASE p = "webserver" -> 1 [] p = "p2p" -> 2 [] p = "chain" -> 3]

\* The order under `plugin = webserver p2p json_rpc ...`
\* (contrib/fullnode.config.ini).
FullnodeOrder == [p \in Plugin |->
    CASE p = "p2p" -> 1 [] p = "chain" -> 2 [] p = "webserver" -> 3]
================================================================================
