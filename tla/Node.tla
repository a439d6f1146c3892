-------------------------------- MODULE Node --------------------------------
(***************************************************************************)
(* One running Dynamo node, from the moment Node::start enters the input   *)
(* loop.  Its threads share the blockchain, the transaction pool, the mine *)
(* and sendBlock flags and the miner's statistics, and no lock protects    *)
(* any of them:                                                            *)
(*                                                                         *)
(*   main    the user's commands (transact, miner menu, show, exit)        *)
(*   server  NodeServer: accepter, handler, responder, one packet at a     *)
(*           time                                                          *)
(*   caster  Node::broadCastHandler, which polls the sendBlock flag        *)
(*   miners  one detached thread per "Start mining" command                *)
(*                                                                         *)
(* A step is one access to a shared object; what a thread does between two *)
(* accesses is part of the step.  Two threads about to access the same     *)
(* container, one of them to write it, are a data race of the C++ program: *)
(* besides every order of the two steps it may end the process (RaceCrash).*)
(*                                                                         *)
(* Definitions marked "a slip" are mistakes that could be made in the code *)
(* beside them.  No action uses them; they are there to see that the       *)
(* properties would notice.                                                *)
(***************************************************************************)
EXTENDS Blockchain

CONSTANTS
    Miners,        \* identities of the miner threads that may exist at once
    Me,            \* this node's wallet address
    RewardAddress, \* what the user types in the miner menu
    InitChain,     \* the chain created or synced before the input loop
    PeerBlocks,    \* blocks other nodes mine and broadcast
    MaxReplays     \* bound on connections that close without sending a byte

Threads == {"main", "server", "caster"} \cup Miners
Writers == {"server"} \cup Miners      \* the threads that call replaceChain

ASSUME NodeAssumption ==
    /\ {"main", "server", "caster"} \cap Miners = {}
    /\ Me \in Address /\ RewardAddress \in Address
    /\ InitChain \in Seq(Block) /\ InitChain # <<>>
    /\ PeerBlocks \subseteq Block
    /\ MaxReplays \in Nat

VARIABLES
    up,         \* the process is alive
    pc,         \* what each thread does next
    chain,      \* Node::blockchain, shared by all threads
    pool,       \* Node::transactionPool, shared by all threads
    mine,       \* Node::mine
    sendBlock,  \* Node::sendBlock_flag
    created,    \* Node::has_created_miner
    stats,      \* Miner::stats
    packet,     \* the server's receive buffer, never cleared
    draft,      \* the transaction the main thread is working on
    temp,       \* the local copy of the chain a writer extends
    valid,      \* the transactions a miner collected from the pool
    mint,       \* the reward transaction a miner prepared
    register,   \* the value of stats a miner loaded
    announce    \* the block the broadcast handler read
(* The environment and bookkeeping that no code variable stands for.       *)
VARIABLES
    issued,     \* own transactions that were created
    delivered,  \* packets the server has received
    sent,       \* packets broadcast to the known hosts
    sealed,     \* number of blocks mined here, names the next block
    replays,    \* number of empty connections so far
    overtaken,  \* writers whose copy predates another writer's assignment
    unchecked   \* writers whose passed check predates such an assignment

locals == <<packet, draft, temp, valid, mint, register, announce>>
env    == <<issued, delivered, sent, sealed, replays>>
vars   == <<up, pc, chain, pool, mine, sendBlock, created, stats, locals, env,
            overtaken, unchecked>>

-----------------------------------------------------------------------------
NoPacket == [type |-> "NONE"]
TxPacket(t) == [type |-> "TRANSACTION", tx |-> t]
BlockPacket(b) == [type |-> "NEW_BLOCK", block |-> b]

NoDraft == [id |-> "none"]
NoMint == [from |-> "none"]
NoBlock == [hash |-> -1]
NoStats == [blocks |-> 0, rewards |-> 0]

OwnTx == {t \in Tx : t.from = Me}

(* What may still arrive: transactions and blocks of other nodes, and the  *)
(* blocks this node broadcast, since a peer announces its last block       *)
(* whoever mined it.                                                       *)
Incoming ==
    ({TxPacket(t) : t \in Tx \ OwnTx} \cup {BlockPacket(b) : b \in PeerBlocks}
        \cup {p \in sent : p.type = "NEW_BLOCK"}) \ delivered

Empty(p) == \A t \in Tx : p[t] = 0

(* TransactionPool::setTransaction                                         *)
Insert(p, t) == [p EXCEPT ![t] = @ + 1]

(* Thread t moves on to label l.                                           *)
Move(t, l) == pc' = [pc EXCEPT ![t] = l]
At(t, l) == up /\ pc[t] = l

Init ==
    /\ up = TRUE
    /\ pc = [t \in Threads |-> IF t \in Miners THEN "none" ELSE "idle"]
    /\ chain = InitChain
    /\ pool = NoTx
    /\ mine \in BOOLEAN            \* declared without an initial value
    /\ sendBlock = FALSE
    /\ created = FALSE
    /\ stats = NoStats
    /\ packet = NoPacket
    /\ draft = NoDraft
    /\ temp = [t \in Writers |-> <<>>]
    /\ valid = [m \in Miners |-> NoTx]
    /\ mint = [m \in Miners |-> NoMint]
    /\ register = [m \in Miners |-> NoStats]
    /\ announce = NoBlock
    /\ issued = {} /\ delivered = {} /\ sent = {}
    /\ sealed = 0 /\ replays = 0
    /\ overtaken = {} /\ unchecked = {}

-----------------------------------------------------------------------------
(* The main thread: Node::getInput.                                        *)

(* Node::transact up to the call of createTransaction.                     *)
MainTransact ==
    /\ At("main", "idle")
    /\ \E t \in OwnTx \ issued : draft' = t
    /\ Move("main", "create")
    /\ UNCHANGED <<up, chain, pool, mine, sendBlock, created, stats, packet, temp,
                   valid, mint, register, announce, env, overtaken, unchecked>>

(* Wallet::createTransaction: only the chain counts, not the pool.         *)
MainCreate ==
    /\ At("main", "create")
    /\ \/ /\ CanAfford(draft.amount, CalculateBalance(chain, Me))
          /\ issued' = issued \cup {draft}
          /\ Move("main", "insert")
          /\ UNCHANGED draft
       \/ /\ ~CanAfford(draft.amount, CalculateBalance(chain, Me))
          /\ draft' = NoDraft
          /\ Move("main", "idle")
          /\ UNCHANGED issued
    /\ UNCHANGED <<up, chain, pool, mine, sendBlock, created, stats, packet, temp,
                   valid, mint, register, announce, delivered, sent, sealed,
                   replays, overtaken, unchecked>>

MainInsert ==
    /\ At("main", "insert")
    /\ pool' = Insert(pool, draft)
    /\ Move("main", "broadcast")
    /\ UNCHANGED <<up, chain, mine, sendBlock, created, stats, locals, env,
                   overtaken, unchecked>>

MainBroadcast ==
    /\ At("main", "broadcast")
    /\ sent' = sent \cup {TxPacket(draft)}
    /\ draft' = NoDraft
    /\ Move("main", "idle")
    /\ UNCHANGED <<up, chain, pool, mine, sendBlock, created, stats, packet, temp,
                   valid, mint, register, announce, issued, delivered, sealed,
                   replays, overtaken, unchecked>>

(* Node::minerMenu, option 1: the flag is set before the thread exists,    *)
(* and nothing asks whether a miner thread is already running.             *)
MainStart ==
    /\ At("main", "idle")
    /\ \E m \in Miners : pc[m] = "none"
    /\ created' = TRUE
    /\ mine' = TRUE
    /\ Move("main", "spawn")
    /\ UNCHANGED <<up, chain, pool, sendBlock, stats, locals, env, overtaken,
                   unchecked>>

MainSpawn ==
    /\ At("main", "spawn")
    /\ \E m \in Miners :
          /\ pc[m] = "none"
          /\ pc' = [pc EXCEPT !["main"] = "idle", ![m] = "loop"]
    /\ UNCHANGED <<up, chain, pool, mine, sendBlock, created, stats, locals, env,
                   overtaken, unchecked>>

(* Option 2.                                                               *)
MainStop ==
    /\ At("main", "idle")
    /\ mine' = FALSE
    /\ UNCHANGED <<up, pc, chain, pool, sendBlock, created, stats, locals, env,
                   overtaken, unchecked>>

(* Option 3 before any option 1 dereferences a pointer nobody has set.     *)
MainStatusUncreated ==
    /\ At("main", "idle")
    /\ ~created
    /\ up' = FALSE
    /\ UNCHANGED <<pc, chain, pool, mine, sendBlock, created, stats, locals, env,
                   overtaken, unchecked>>

MainExit ==
    /\ At("main", "idle")
    /\ up' = FALSE
    /\ UNCHANGED <<pc, chain, pool, mine, sendBlock, created, stats, locals, env,
                   overtaken, unchecked>>

-----------------------------------------------------------------------------
(* Blockchain::replaceChain, called by the server and by miners, in the    *)
(* two steps that touch the shared chain: the check, and the assignment.   *)

(* A writer whose copy of the chain is refused drops it.                   *)
Check(t, onRefusal) ==
    /\ At(t, "check")
    /\ \/ /\ MayReplace(temp[t], chain)
          /\ Move(t, "assign")
          /\ UNCHANGED <<temp, overtaken>>
       \/ /\ ~MayReplace(temp[t], chain)
          /\ Move(t, onRefusal)
          /\ temp' = [temp EXCEPT ![t] = <<>>]
          /\ overtaken' = overtaken \ {t}
    /\ UNCHANGED <<up, chain, pool, mine, sendBlock, created, stats, packet, draft,
                   valid, mint, register, announce, env, unchecked>>

Assign(t) ==
    /\ At(t, "assign")
    /\ chain' = temp[t]
    /\ temp' = [temp EXCEPT ![t] = <<>>]
    /\ Move(t, "clear")
    /\ overtaken' = {u \in Writers \ {t} : temp[u] # <<>>}
    /\ unchecked' = {u \in Writers \ {t} : pc[u] = "assign"}
    /\ UNCHANGED <<up, pool, mine, sendBlock, created, stats, packet, draft, valid,
                   mint, register, announce, env>>

(* TransactionPool::clear: the whole pool, whatever the block contains.    *)
Clear(t, next) ==
    /\ At(t, "clear")
    /\ pool' = NoTx
    /\ Move(t, next)
    /\ UNCHANGED <<up, chain, mine, sendBlock, created, stats, locals, env,
                   overtaken, unchecked>>

-----------------------------------------------------------------------------
(* The server thread: NodeServer::accepter, handler and responder.         *)

ServerLabel(p) == IF p.type = "TRANSACTION" THEN "insert" ELSE "copy"

ServerAccept ==
    /\ At("server", "idle")
    /\ \E p \in Incoming :
          /\ packet' = p
          /\ delivered' = delivered \cup {p}
          /\ Move("server", ServerLabel(p))
    /\ UNCHANGED <<up, chain, pool, mine, sendBlock, created, stats, draft, temp,
                   valid, mint, register, announce, issued, sent, sealed, replays,
                   overtaken, unchecked>>

(* recv returns nothing, or accept failed and recv is called on no socket: *)
(* neither result is looked at (test_connection compares an unsigned       *)
(* number with 0), the buffer still holds the previous packet, and it is   *)
(* handled again.                                                          *)
ServerReplay ==
    /\ At("server", "idle")
    /\ packet # NoPacket
    /\ replays < MaxReplays
    /\ replays' = replays + 1
    /\ Move("server", ServerLabel(packet))
    /\ UNCHANGED <<up, chain, pool, mine, sendBlock, created, stats, locals, issued,
                   delivered, sent, sealed, overtaken, unchecked>>

(* TRANSACTION_PACKET                                                      *)
ServerInsert ==
    /\ At("server", "insert")
    /\ pool' = Insert(pool, packet.tx)
    /\ Move("server", "idle")
    /\ UNCHANGED <<up, chain, mine, sendBlock, created, stats, locals, env,
                   overtaken, unchecked>>

(* A slip: the block is inserted before the last one.                      *)
ServerCopyBeforeLast ==
    /\ At("server", "copy")
    /\ temp' = [temp EXCEPT !["server"] =
                  Append(Append(Front(chain), packet.block), GetLastBlock(chain))]
    /\ Move("server", "check")
    /\ UNCHANGED <<up, chain, pool, mine, sendBlock, created, stats, packet, draft,
                   valid, mint, register, announce, env, overtaken, unchecked>>

(* NEW_BLOCK_PACKET: the block goes on top of a copy of the chain, wherever*)
(* it belongs.                                                             *)
ServerCopy ==
    /\ At("server", "copy")
    /\ temp' = [temp EXCEPT !["server"] = Append(chain, packet.block)]
    /\ Move("server", "check")
    /\ UNCHANGED <<up, chain, pool, mine, sendBlock, created, stats, packet, draft,
                   valid, mint, register, announce, env, overtaken, unchecked>>

Server ==
    \/ ServerInsert \/ ServerCopy
    \/ Check("server", "idle") \/ Assign("server") \/ Clear("server", "idle")

-----------------------------------------------------------------------------
(* A miner thread: Miner::start and Miner::mineBlock.                      *)

(* A slip: a miner with nothing to do ends.                                *)
MinerLoopEnds(m) ==
    /\ At(m, "loop")
    /\ Move(m, IF mine /\ ~Empty(pool) THEN "poll" ELSE "none")
    /\ UNCHANGED <<up, chain, pool, mine, sendBlock, created, stats, locals, env,
                   overtaken, unchecked>>

MinerLoop(m) ==
    /\ At(m, "loop")
    /\ Move(m, IF mine THEN "poll" ELSE "none")
    /\ UNCHANGED <<up, chain, pool, mine, sendBlock, created, stats, locals, env,
                   overtaken, unchecked>>

MinerPoll(m) ==
    /\ At(m, "poll")
    /\ Move(m, IF Empty(pool) THEN "loop" ELSE "collect")
    /\ UNCHANGED <<up, chain, pool, mine, sendBlock, created, stats, locals, env,
                   overtaken, unchecked>>

(* getValidTransactions; validTransaction accepts every transaction.       *)
MinerCollect(m) ==
    /\ At(m, "collect")
    /\ valid' = [valid EXCEPT ![m] = pool]
    /\ Move(m, "copy")
    /\ UNCHANGED <<up, chain, pool, mine, sendBlock, created, stats, packet, draft,
                   temp, mint, register, announce, env, overtaken, unchecked>>

MinerCopy(m) ==
    /\ At(m, "copy")
    /\ temp' = [temp EXCEPT ![m] = chain]
    /\ Move(m, "reward")
    /\ UNCHANGED <<up, chain, pool, mine, sendBlock, created, stats, packet, draft,
                   valid, mint, register, announce, env, overtaken, unchecked>>

(* The height of the reward comes from the shared chain, not from the copy.*)
MinerReward(m) ==
    /\ At(m, "reward")
    /\ mint' = [mint EXCEPT ![m] =
                  RewardTransaction(GetLastBlock(chain).height + 1, RewardAddress)]
    /\ Move(m, "seal")
    /\ UNCHANGED <<up, chain, pool, mine, sendBlock, created, stats, packet, draft,
                   temp, valid, register, announce, env, overtaken, unchecked>>

(* A slip: the block is mined on the shared chain, not on the copy.        *)
MinerSealShared(m) ==
    /\ At(m, "seal")
    /\ sealed' = sealed + 1
    /\ temp' = [temp EXCEPT ![m] =
          Append(@, MineBlock(GetLastBlock(chain), valid[m], mint[m], sealed + 1))]
    /\ valid' = [valid EXCEPT ![m] = NoTx]
    /\ mint' = [mint EXCEPT ![m] = NoMint]
    /\ Move(m, "check")
    /\ UNCHANGED <<up, chain, pool, mine, sendBlock, created, stats, packet, draft,
                   register, announce, issued, delivered, sent, replays, overtaken,
                   unchecked>>

(* addBlock on the copy: the proof of work.                                *)
MinerSeal(m) ==
    /\ At(m, "seal")
    /\ sealed' = sealed + 1
    /\ temp' = [temp EXCEPT ![m] = AddBlock(@, valid[m], mint[m], sealed + 1)]
    /\ valid' = [valid EXCEPT ![m] = NoTx]
    /\ mint' = [mint EXCEPT ![m] = NoMint]
    /\ Move(m, "check")
    /\ UNCHANGED <<up, chain, pool, mine, sendBlock, created, stats, packet, draft,
                   register, announce, issued, delivered, sent, replays, overtaken,
                   unchecked>>

(* Miner::updateStats on the Stats object all miner threads share: load ...*)
MinerLoadStats(m) ==
    /\ At(m, "load")
    /\ register' = [register EXCEPT ![m] = stats]
    /\ Move(m, "count")
    /\ UNCHANGED <<up, chain, pool, mine, sendBlock, created, stats, packet, draft,
                   temp, valid, mint, announce, env, overtaken, unchecked>>

(* ... and store, with the subsidy of the block that is last by now.       *)
MinerStoreStats(m) ==
    /\ At(m, "count")
    /\ stats' = [blocks  |-> register[m].blocks + 1,
                 rewards |-> register[m].rewards
                             + BlockSubsidy(GetLastBlock(chain).height)]
    /\ register' = [register EXCEPT ![m] = NoStats]
    /\ Move(m, "signal")
    /\ UNCHANGED <<up, chain, pool, mine, sendBlock, created, packet, draft, temp,
                   valid, mint, announce, env, overtaken, unchecked>>

MinerSignal(m) ==
    /\ At(m, "signal")
    /\ sendBlock' = TRUE
    /\ Move(m, "loop")
    /\ UNCHANGED <<up, chain, pool, mine, created, stats, locals, env, overtaken,
                   unchecked>>

(* The result of replaceChain is ignored: a refused block goes on to clear *)
(* the pool, to be counted and to be signalled like an adopted one.        *)
Miner(m) ==
    \/ MinerLoop(m) \/ MinerPoll(m) \/ MinerCollect(m) \/ MinerCopy(m)
    \/ MinerReward(m) \/ MinerSeal(m)
    \/ Check(m, "clear") \/ Assign(m) \/ Clear(m, "load")
    \/ MinerLoadStats(m) \/ MinerStoreStats(m) \/ MinerSignal(m)

-----------------------------------------------------------------------------
(* The broadcast thread: Node::broadCastHandler.                           *)

CasterPoll ==
    /\ At("caster", "idle")
    /\ sendBlock
    /\ Move("caster", "read")
    /\ UNCHANGED <<up, chain, pool, mine, sendBlock, created, stats, locals, env,
                   overtaken, unchecked>>

CasterRead ==
    /\ At("caster", "read")
    /\ announce' = GetLastBlock(chain)
    /\ Move("caster", "send")
    /\ UNCHANGED <<up, chain, pool, mine, sendBlock, created, stats, packet, draft,
                   temp, valid, mint, register, env, overtaken, unchecked>>

CasterSend ==
    /\ At("caster", "send")
    /\ sent' = sent \cup {BlockPacket(announce)}
    /\ announce' = NoBlock
    /\ Move("caster", "reset")
    /\ UNCHANGED <<up, chain, pool, mine, sendBlock, created, stats, packet, draft,
                   temp, valid, mint, register, issued, delivered, sealed, replays,
                   overtaken, unchecked>>

(* A slip: the flag stays up.                                              *)
CasterKeepsFlag ==
    /\ At("caster", "reset")
    /\ Move("caster", "idle")
    /\ UNCHANGED <<up, chain, pool, mine, sendBlock, created, stats, locals, env,
                   overtaken, unchecked>>

CasterReset ==
    /\ At("caster", "reset")
    /\ sendBlock' = FALSE
    /\ Move("caster", "idle")
    /\ UNCHANGED <<up, chain, pool, mine, created, stats, locals, env, overtaken,
                   unchecked>>

Caster == CasterPoll \/ CasterRead \/ CasterSend \/ CasterReset

-----------------------------------------------------------------------------
(* Data races on the two shared containers, a vector and a map.  The main  *)
(* thread may at any time be printing either of them (show-chain, pool).   *)
Shows(t) == t = "main" /\ pc[t] = "idle"

ReadsChain(t) ==
    pc[t] \in {"copy", "check", "reward", "count", "read", "create"} \/ Shows(t)
WritesChain(t) == pc[t] = "assign"
ReadsPool(t) == pc[t] \in {"poll", "collect"} \/ Shows(t)
WritesPool(t) == pc[t] \in {"insert", "clear"}

Conflict(t, u) ==
    \/ WritesChain(t) /\ (ReadsChain(u) \/ WritesChain(u))
    \/ WritesPool(t) /\ (ReadsPool(u) \/ WritesPool(u))

RaceCrash ==
    /\ up
    /\ \E t, u \in Threads : t # u /\ Conflict(t, u)
    /\ up' = FALSE
    /\ UNCHANGED <<pc, chain, pool, mine, sendBlock, created, stats, locals, env,
                   overtaken, unchecked>>

-----------------------------------------------------------------------------
MainBusy == MainCreate \/ MainInsert \/ MainBroadcast \/ MainSpawn

Main ==
    \/ MainTransact \/ MainBusy \/ MainStart \/ MainStop \/ MainStatusUncreated
    \/ MainExit

Next ==
    \/ Main
    \/ ServerAccept \/ ServerReplay \/ Server
    \/ \E m \in Miners : Miner(m)
    \/ Caster
    \/ RaceCrash

Spec == Init /\ [][Next]_vars

(* The operating system runs every thread that is not blocked: the loops   *)
(* of the miners and of the broadcast handler, a packet being served and a *)
(* command being executed go on.  Nothing is assumed of the user or of the *)
(* other nodes.                                                            *)
Fairness ==
    /\ WF_vars(MainBusy)
    /\ WF_vars(Server)
    /\ WF_vars(Caster)
    /\ \A m \in Miners : WF_vars(Miner(m))

FairSpec == Spec /\ Fairness

-----------------------------------------------------------------------------
(* Properties.                                                             *)

Labels == {"none", "idle", "create", "insert", "broadcast", "spawn",
           "copy", "check", "assign", "clear", "loop", "poll", "collect",
           "reward", "seal", "load", "count", "signal", "read", "send", "reset"}

Packets == {TxPacket(t) : t \in Tx} \cup [type : {"NEW_BLOCK"}, block : Block]

(* Every variable has its type; the rewards in the statistics are a sum of *)
(* subsidies.                                                              *)
TypeOK ==
    /\ up \in BOOLEAN /\ mine \in BOOLEAN /\ sendBlock \in BOOLEAN
    /\ created \in BOOLEAN
    /\ pc \in [Threads -> Labels]
    /\ chain \in Seq(Block) /\ chain # <<>>
    /\ pool \in TxBag
    /\ stats.blocks \in Nat
    /\ packet \in Packets \cup {NoPacket}
    /\ draft \in Tx \cup {NoDraft}
    /\ temp \in [Writers -> Seq(Block)]
    /\ valid \in [Miners -> TxBag]
    /\ mint \in [Miners -> Mints \cup {NoMint}]
    /\ \A m \in Miners : register[m].blocks \in Nat
    /\ announce \in Block \cup {NoBlock}
    /\ issued \subseteq Tx
    /\ delivered \subseteq Packets /\ sent \subseteq Packets
    /\ sealed \in Nat /\ replays \in Nat
    /\ overtaken \subseteq Writers /\ unchecked \subseteq Writers

(* A block directly continues its predecessor: it names its hash and has   *)
(* the next height.                                                        *)
Continues(b, p) == b.prev = p.hash /\ b.height = p.height + 1

(* Whatever the threads do to each other, a block that does not continue   *)
(* its predecessor was put there by the initial chain or came over the     *)
(* network: the blocks this node mines are always joined to the chain they *)
(* were mined on.  (Miner::mineBlock extends a private copy, and           *)
(* replaceChain adopts the whole copy.)                                    *)
Accounted(c) ==
    \A i \in 2 .. Len(c) :
        \/ i <= Len(InitChain) /\ c[i] = InitChain[i]
        \/ BlockPacket(c[i]) \in delivered
        \/ Continues(c[i], c[i - 1])

MinedBlocksContinue == Accounted(chain)

(* The part of the chain that was there at the start is never rewritten,   *)
(* although each writer replaces the chain as a whole by a copy that may   *)
(* be out of date.                                                         *)
InitialChainKept == IsPrefix(InitChain, chain)

(* As long as the user has not stopped mining, a miner thread is there to  *)
(* mine: Start sets the flag before the thread exists, and a thread that   *)
(* saw the flag down is gone for good.                                     *)
MiningHasAThread ==
    created /\ mine /\ pc["main"] # "spawn" => \E m \in Miners : pc[m] # "none"

(* A step that takes blocks off the chain is the assignment of a writer    *)
(* whose copy was overtaken by another writer's assignment.                *)
AppendUnlessOvertaken ==
    [][IsPrefix(chain, chain') \/ \E t \in overtaken : chain' = temp[t]]_vars

(* replaceChain's length check is only beaten in the window between the    *)
(* check and the assignment: outside it every new chain is longer.         *)
LongerUnlessUnchecked ==
    [][\/ chain' = chain
       \/ Len(chain') > Len(chain)
       \/ \E t \in unchecked : chain' = temp[t]]_vars

(* While the node mines, a pool with transactions in it is emptied.        *)
PoolDrains ==
    (created /\ mine /\ ~Empty(pool)) ~> (Empty(pool) \/ ~mine \/ ~up)

(* A signalled block leads to a broadcast attempt, after which the flag is *)
(* down again.                                                             *)
SignalIsTaken == sendBlock ~> (~sendBlock \/ ~up)

-----------------------------------------------------------------------------
(* The inductive invariant behind the safety properties.                   *)

Copying == {t \in Writers : temp[t] # <<>>}

(* What each thread can be doing, and what it holds while doing it.        *)
ControlOK ==
    /\ pc["main"] \in {"idle", "create", "insert", "broadcast", "spawn"}
    /\ pc["server"] \in {"idle", "insert", "copy", "check", "assign", "clear"}
    /\ pc["caster"] \in {"idle", "read", "send", "reset"}
    /\ \A m \in Miners : pc[m] \in {"none", "loop", "poll", "collect", "copy",
           "reward", "seal", "check", "assign", "clear", "load", "count", "signal"}
    /\ pc["main"] \in {"create", "insert", "broadcast"} => draft \in Tx
    /\ pc["server"] = "insert" => packet.type = "TRANSACTION"
    /\ pc["server"] = "copy" => packet.type = "NEW_BLOCK"
    /\ packet = NoPacket \/ packet \in delivered
    /\ pc["caster"] = "send" => announce \in Block
    /\ \A m \in Miners : pc[m] = "seal" => mint[m] \in Mints
    /\ \A t \in Writers :
          t \in Copying <=> pc[t] \in {"reward", "seal", "check", "assign"}

(* Every copy is built on the initial chain from accounted blocks.         *)
CopiesAccounted ==
    \A t \in Copying : IsPrefix(InitChain, temp[t]) /\ Accounted(temp[t])

(* A copy nobody overtook is the chain, with at most its own block on top. *)
FreshCopies ==
    /\ overtaken \subseteq Copying
    /\ \A t \in Copying \ overtaken : IsPrefix(chain, temp[t])

(* A check nobody overtook still holds at the assignment.                  *)
FreshChecks ==
    \A t \in Writers \ unchecked :
        pc[t] = "assign" => Len(temp[t]) > Len(chain)

IndInv ==
    /\ TypeOK
    /\ ControlOK
    /\ InitialChainKept /\ MinedBlocksContinue
    /\ CopiesAccounted
    /\ FreshCopies
    /\ FreshChecks
    /\ MiningHasAThread
=============================================================================
