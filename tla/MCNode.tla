------------------------------- MODULE MCNode -------------------------------
(* Small instances of Node for TLC.                                        *)
EXTENDS Node

CONSTANTS a, b        \* addresses: this node's wallet and another one

MCAddress == {a, b}

(* One transaction of this wallet and one of another node's.               *)
OwnPayment == [id |-> "own",  from |-> a, to |-> b, amount |-> 5]
PeerPayment == [id |-> "peer", from |-> b, to |-> a, amount |-> 1]
MCTx == {OwnPayment, PeerPayment}
MCOneTx == {PeerPayment}

(* A node that synced a chain of two blocks before its input loop.         *)
FirstBlock == MineBlock(Genesis(a), NoTx, RewardTransaction(1, b), -9)
MCInitChain == <<Genesis(a), FirstBlock>>

(* A block another node mines on the same chain.                           *)
MCPeerBlocks ==
    {MineBlock(FirstBlock, NoTx, RewardTransaction(2, b), -10)}

-----------------------------------------------------------------------------
(* What the repository says of the program and the code does not keep.     *)

MinerResting(m) == pc[m] \in {"none", "loop", "poll"}
AtRest == up /\ ~sendBlock /\ pc["caster"] = "idle" /\ \A m \in Miners : MinerResting(m)

MinedHere(c) == {i \in DOMAIN c : c[i].hash > 0}

(* "Tell the node to broadcast the block" (Miner::mineBlock): once the     *)
(* signal has been dealt with, the block was announced.                    *)
MinedBlocksAnnounced ==
    AtRest => \A i \in MinedHere(chain) : BlockPacket(chain[i]) \in sent
=============================================================================
