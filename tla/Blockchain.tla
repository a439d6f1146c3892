----------------------------- MODULE Blockchain -----------------------------
(***************************************************************************)
(* The data of the ledger and the pure functions on it: what a block is,   *)
(* how one is mined on top of a chain, when a chain may replace another,   *)
(* the block subsidy and the balance of an address.                        *)
(*                                                                         *)
(* A hash is an abstract name: 0 for the genesis block, another integer    *)
(* for every other block.  The proof of work, the timestamp and the nonce  *)
(* are left out: no decision of the modelled code reads them.              *)
(*                                                                         *)
(* Definitions marked "a slip" are mistakes that could be made in the code *)
(* beside them.  No action uses them; they are there to see that the       *)
(* properties would notice.                                                *)
(***************************************************************************)
EXTENDS Integers, Sequences, SequencesExt, FiniteSetsExt

CONSTANTS
    Tx,                   \* transactions, records with fields id, from, to, amount
    InitialDifficulty,    \* INITIAL_DIFFICULTY
    MaxDifficultyDrop,    \* DIFFICULTY_ADJUSTMENT_INTERVAL, as isValid uses it
    InitialSubsidy,       \* INITIAL_SUBSIDY * COIN
    HalvingInterval,      \* CONSENSUS_HALVING_INTERVAL
    GenesisReward,        \* GENESIS_TRANSACTION_REWARD
    Address               \* wallet addresses

ASSUME BlockchainAssumption ==
    /\ InitialDifficulty \in Nat
    /\ MaxDifficultyDrop \in Nat
    /\ InitialSubsidy \in Nat
    /\ HalvingInterval \in Nat \ {0}
    /\ GenesisReward \in Nat
    /\ \A t \in Tx : t.from \in Address /\ t.to \in Address /\ t.amount \in Nat

-----------------------------------------------------------------------------
(* The transactions of a block, and the pool, are multisets: both are      *)
(* keyed by the address of the object, so two copies of one transaction    *)
(* are two entries.                                                        *)
TxBag == [Tx -> Nat]
NoTx == [t \in Tx |-> 0]

GenesisSender == "Genesis"
RewardSender == "dynamo-consensus-node-reward"

(* The transaction every block carries that creates money; its amount is   *)
(* a function of the height it was made for.                               *)
Mint(from, to, height) == [from |-> from, to |-> to, at |-> height]
Mints == [from : {GenesisSender, RewardSender}, to : Address, at : Int]

Block == [hash : Int, prev : Int, height : Int, diff : Int,
          txs : TxBag, mint : Mints]

Genesis(address) ==
    [hash |-> 0, prev |-> 0, height |-> 0, diff |-> InitialDifficulty,
     txs |-> NoTx, mint |-> Mint(GenesisSender, address, 0)]

(* Block::mineBlock: everything but the transactions comes from the last   *)
(* block of the chain that is extended.                                    *)
MineBlock(last, txs, mint, hash) ==
    [hash |-> hash, prev |-> last.hash, height |-> last.height + 1,
     diff |-> last.diff, txs |-> txs, mint |-> mint]

GetLastBlock(c) == c[Len(c)]

AddBlock(c, txs, mint, hash) ==
    Append(c, MineBlock(GetLastBlock(c), txs, mint, hash))

(* Blockchain::isValid: heights, previous hashes and hashes are not looked *)
(* at, the code that would do it is commented out.                         *)
IsValid(c) ==
    /\ c[1].height = 0
    /\ c[1].mint.from = GenesisSender
    /\ \A i \in 2 .. Len(c) : c[i - 1].diff - c[i].diff <= MaxDifficultyDrop

(* A slip: a chain of the same length is let in.                           *)
MayReplaceEqual(new, old) ==
    /\ Len(new) >= Len(old)
    /\ IsValid(new)

(* The guards of Blockchain::replaceChain.                                 *)
MayReplace(new, old) ==
    /\ Len(new) > Len(old)
    /\ IsValid(new)

-----------------------------------------------------------------------------
(* Transaction::getBlockSubsidy, for the number of halvings (below 32) for *)
(* which the shift of a C++ int is defined.                                *)
BlockSubsidy(height) ==
    LET halvings == height \div HalvingInterval
    IN  IF halvings >= 64 THEN 0 ELSE InitialSubsidy \div 2 ^ halvings

(* Transaction::rewardTransaction                                          *)
RewardTransaction(height, address) == Mint(RewardSender, address, height)

MintedAmount(m) ==
    IF m.from = GenesisSender THEN GenesisReward ELSE BlockSubsidy(m.at)

(* Wallet::calculateBalance: what one block brings to an address, summed   *)
(* over the chain.  A transaction to oneself counts on both sides.         *)
NetOfBlock(b, address) ==
    LET amounts(t) ==
            b.txs[t] * t.amount * ((IF t.to = address THEN 1 ELSE 0)
                                   - (IF t.from = address THEN 1 ELSE 0))
    IN  MapThenSumSet(amounts, Tx)
        + (IF b.mint.to = address THEN MintedAmount(b.mint) ELSE 0)

CalculateBalance(c, address) ==
    FoldLeft(LAMBDA sum, b : sum + NetOfBlock(b, address), 0, c)

(* Wallet::createTransaction compares a signed amount with an unsigned     *)
(* balance: a negative number counts as larger than any other one.         *)
CanAfford(amount, balance) ==
    \/ amount >= 0 /\ balance < 0
    \/ (amount < 0 <=> balance < 0) /\ amount <= balance
=============================================================================
