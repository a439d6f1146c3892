--------------------------- MODULE MCChainTransfer ---------------------------
(* Small instances of ChainTransfer for TLC.                               *)
EXTENDS ChainTransfer

(* "Keep asking the known nodes for an updated transaction pool until one  *)
(* is received" (Node.cpp): what the client takes for the pool was waiting *)
(* at the peer.                                                            *)
PoolWasServed ==
    [][stage = "text" /\ stage' = "up" => Range(pool') \subseteq Range(served) \cup {0}]_vars
=============================================================================
