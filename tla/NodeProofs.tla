----------------------------- MODULE NodeProofs -----------------------------
(***************************************************************************)
(* Proofs about Node: its safety invariants and action properties hold for *)
(* every number of miner threads, every set of transactions and of peers'  *)
(* blocks and every initial chain.                                         *)
(***************************************************************************)
EXTENDS Node, SequenceTheorems, TLAPS

-----------------------------------------------------------------------------
(* Facts about prefixes.                                                   *)

(* A sequence is a prefix of another one exactly when it is not longer and *)
(* agrees with it at every place it has.                                   *)
LEMMA PrefixPointwise ==
    ASSUME NEW S, NEW s \in Seq(S), NEW t \in Seq(S)
    PROVE  IsPrefix(s, t) <=>
             Len(s) <= Len(t) /\ \A i \in 1 .. Len(s) : s[i] = t[i]
<1> DEFINE n == Len(s)
<1>0. n \in Nat /\ Len(t) \in Nat
  BY LenProperties
<1>1. CASE Len(s) <= Len(t)
  <2>1. \A i \in 1 .. n : s[i] \in S /\ t[i] \in S
    BY <1>0, <1>1, ElementOfSeq
  <2>2. /\ SubSeq(s, 1, n) \in Seq(S)
        /\ Len(SubSeq(s, 1, n)) = n
        /\ \A i \in 1 .. n : SubSeq(s, 1, n)[i] = s[i]
    BY <1>0, <2>1, SubSeqProperties
  <2>3. /\ SubSeq(t, 1, n) \in Seq(S)
        /\ Len(SubSeq(t, 1, n)) = n
        /\ \A i \in 1 .. n : SubSeq(t, 1, n)[i] = t[i]
    BY <1>0, <2>1, SubSeqProperties
  <2>4. SubSeq(s, 1, n) = SubSeq(t, 1, n) <=> \A i \in 1 .. n : s[i] = t[i]
    <3> HIDE DEF n
    <3>1. ASSUME \A i \in 1 .. n : s[i] = t[i]
          PROVE  SubSeq(s, 1, n) = SubSeq(t, 1, n)
      BY <2>2, <2>3, <3>1, SeqEqual
    <3> QED BY <2>2, <2>3, <3>1
  <2> QED BY <1>1, <2>4 DEF IsPrefix
<1>2. CASE ~(Len(s) <= Len(t))
  BY <1>2 DEF IsPrefix
<1> QED BY <1>1, <1>2

(* Every sequence is a prefix of itself.                                   *)
LEMMA PrefixReflexive ==
    ASSUME NEW S, NEW s \in Seq(S)
    PROVE  IsPrefix(s, s)
BY PrefixPointwise, LenProperties

(* A prefix of a sequence stays one when an element is appended to it.     *)
LEMMA PrefixAppend ==
    ASSUME NEW S, NEW s \in Seq(S), NEW t \in Seq(S), NEW e \in S, IsPrefix(s, t)
    PROVE  /\ Append(t, e) \in Seq(S)
           /\ Len(Append(t, e)) = Len(t) + 1
           /\ IsPrefix(s, Append(t, e))
           /\ \A i \in 1 .. Len(t) : Append(t, e)[i] = t[i]
           /\ Append(t, e)[Len(t) + 1] = e
<1>1. /\ Append(t, e) \in Seq(S)
      /\ Len(Append(t, e)) = Len(t) + 1
      /\ \A i \in 1 .. Len(t) : Append(t, e)[i] = t[i]
      /\ Append(t, e)[Len(t) + 1] = e
  OBVIOUS
<1>2. Len(s) \in Nat /\ Len(t) \in Nat
  BY LenProperties
<1>3. Len(s) <= Len(t) /\ \A i \in 1 .. Len(s) : s[i] = t[i]
  BY PrefixPointwise
<1>4. Len(s) <= Len(Append(t, e)) /\ \A i \in 1 .. Len(s) : s[i] = Append(t, e)[i]
  BY <1>1, <1>2, <1>3
<1>5. IsPrefix(s, Append(t, e))
  BY <1>1, <1>4, PrefixPointwise
<1> QED BY <1>1, <1>5

-----------------------------------------------------------------------------
(* Facts about blocks.                                                     *)

(* A chain that is not empty has a last block.                             *)
LEMMA LastBlockType ==
    ASSUME NEW c \in Seq(Block), c # <<>>
    PROVE  GetLastBlock(c) \in Block /\ Len(c) \in Nat \ {0}
BY EmptySeq, ElementOfSeq DEF GetLastBlock

(* A block mined on top of another one continues it (Block::mineBlock).    *)
LEMMA MinedBlock ==
    ASSUME NEW p \in Block, NEW txs \in TxBag, NEW m \in Mints, NEW h \in Int
    PROVE  /\ MineBlock(p, txs, m, h) \in Block
           /\ Continues(MineBlock(p, txs, m, h), p)
BY DEF Block, MineBlock, Continues

(* A reward transaction is one of the transactions that create money.      *)
LEMMA RewardType ==
    ASSUME NEW h \in Int
    PROVE  RewardTransaction(h, RewardAddress) \in Mints
BY NodeAssumption DEF RewardTransaction, Mint, Mints

(* The empty pool is a pool.                                               *)
LEMMA NoTxType == NoTx \in TxBag
BY DEF NoTx, TxBag

(* A pool stays one when a transaction is inserted.                        *)
LEMMA InsertType ==
    ASSUME NEW p \in TxBag, NEW t \in Tx
    PROVE  Insert(p, t) \in TxBag
BY DEF TxBag, Insert

(* A packet is told by its type.                                           *)
LEMMA PacketTypes ==
    ASSUME NEW p \in Packets
    PROVE  /\ p.type \in {"TRANSACTION", "NEW_BLOCK"}
           /\ p.type = "TRANSACTION" => p.tx \in Tx
           /\ p.type = "NEW_BLOCK" => p.block \in Block /\ p = BlockPacket(p.block)
BY DEF Packets, TxPacket, BlockPacket

-----------------------------------------------------------------------------
(* Types and control.                                                      *)

(* The initial state has the types and the control states of the invariant.*)
LEMMA InitTypes == Init => TypeOK /\ ControlOK
<1> SUFFICES ASSUME Init PROVE TypeOK /\ ControlOK
  OBVIOUS
<1>1. Copying = {}
  BY DEF Init, Copying
<1>2. TypeOK
  BY NodeAssumption, NoTxType, EmptySeq
     DEF Init, TypeOK, Threads, Writers, Labels, NoStats
<1>3. ControlOK
  BY <1>1, NodeAssumption DEF Init, ControlOK, Threads, Writers
<1> QED BY <1>2, <1>3

(* What can arrive is a packet.                                            *)
LEMMA IncomingType ==
    ASSUME TypeOK, NEW p \in Incoming
    PROVE  p \in Packets
BY NodeAssumption DEF TypeOK, Incoming, OwnTx, Packets, BlockPacket

(* A mined block makes a chain of the copy it is added to.                 *)
LEMMA SealType ==
    ASSUME NEW c \in Seq(Block), c # <<>>, NEW txs \in TxBag, NEW m \in Mints,
           NEW h \in Int
    PROVE  /\ AddBlock(c, txs, m, h) \in Seq(Block)
           /\ AddBlock(c, txs, m, h) # <<>>
BY LastBlockType, MinedBlock DEF AddBlock

(* Every action keeps the types and the control state.                     *)
LEMMA StepTypes == TypeOK /\ ControlOK /\ [Next]_vars => TypeOK' /\ ControlOK'
<1> SUFFICES ASSUME TypeOK, ControlOK, [Next]_vars PROVE TypeOK' /\ ControlOK'
  OBVIOUS
<1> USE NodeAssumption DEF Threads, Writers
<1>1. ASSUME MainTransact PROVE TypeOK' /\ ControlOK'
  <2>1. TypeOK'
    BY <1>1
       DEF TypeOK, Labels, MainTransact, At, Move, locals, env, OwnTx
  <2>2. ControlOK'
    BY <1>1
       DEF ControlOK, Copying, MainTransact, At, Move, locals, env, OwnTx, TypeOK
  <2> QED BY <2>1, <2>2
<1>2. ASSUME MainCreate PROVE TypeOK' /\ ControlOK'
  <2>1. TypeOK'
    BY <1>2
       DEF TypeOK, Labels, MainCreate, At, Move, locals, env, ControlOK
  <2>2. ControlOK'
    BY <1>2
       DEF ControlOK, Copying, MainCreate, At, Move, locals, env, TypeOK
  <2> QED BY <2>1, <2>2
<1>3. ASSUME MainInsert PROVE TypeOK' /\ ControlOK'
  <2>1. TypeOK'
    BY <1>3, InsertType
       DEF TypeOK, Labels, MainInsert, At, Move, locals, env, ControlOK
  <2>2. ControlOK'
    BY <1>3, InsertType
       DEF ControlOK, Copying, MainInsert, At, Move, locals, env, TypeOK
  <2> QED BY <2>1, <2>2
<1>4. ASSUME MainBroadcast PROVE TypeOK' /\ ControlOK'
  <2>1. TypeOK'
    BY <1>4
       DEF TypeOK, Labels, MainBroadcast, At, Move, locals, env, TxPacket, Packets, ControlOK
  <2>2. ControlOK'
    BY <1>4
       DEF ControlOK, Copying, MainBroadcast, At, Move, locals, env, TxPacket, Packets, TypeOK
  <2> QED BY <2>1, <2>2
<1>5. ASSUME MainStart PROVE TypeOK' /\ ControlOK'
  <2>1. TypeOK'
    BY <1>5
       DEF TypeOK, Labels, MainStart, At, Move, locals, env
  <2>2. ControlOK'
    BY <1>5
       DEF ControlOK, Copying, MainStart, At, Move, locals, env, TypeOK
  <2> QED BY <2>1, <2>2
<1>6. ASSUME MainSpawn PROVE TypeOK' /\ ControlOK'
  <2>1. TypeOK'
    BY <1>6
       DEF TypeOK, Labels, MainSpawn, At, Move, locals, env
  <2>2. ControlOK'
    BY <1>6
       DEF ControlOK, Copying, MainSpawn, At, Move, locals, env, TypeOK
  <2> QED BY <2>1, <2>2
<1>7. ASSUME MainStop PROVE TypeOK' /\ ControlOK'
  <2>1. TypeOK'
    BY <1>7
       DEF TypeOK, Labels, MainStop, At, Move, locals, env
  <2>2. ControlOK'
    BY <1>7
       DEF ControlOK, Copying, MainStop, At, Move, locals, env, TypeOK
  <2> QED BY <2>1, <2>2
<1>8. ASSUME MainStatusUncreated PROVE TypeOK' /\ ControlOK'
  <2>1. TypeOK'
    BY <1>8
       DEF TypeOK, Labels, MainStatusUncreated, At, Move, locals, env
  <2>2. ControlOK'
    BY <1>8
       DEF ControlOK, Copying, MainStatusUncreated, At, Move, locals, env, TypeOK
  <2> QED BY <2>1, <2>2
<1>9. ASSUME MainExit PROVE TypeOK' /\ ControlOK'
  <2>1. TypeOK'
    BY <1>9
       DEF TypeOK, Labels, MainExit, At, Move, locals, env
  <2>2. ControlOK'
    BY <1>9
       DEF ControlOK, Copying, MainExit, At, Move, locals, env, TypeOK
  <2> QED BY <2>1, <2>2
<1>10. ASSUME ServerAccept PROVE TypeOK' /\ ControlOK'
  <2>1. TypeOK'
    BY <1>10, IncomingType
       DEF TypeOK, Labels, ServerAccept, At, Move, locals, env, Incoming, ServerLabel, OwnTx
  <2>2. ControlOK'
    BY <1>10, IncomingType, PacketTypes
       DEF ControlOK, Copying, ServerAccept, At, Move, locals, env, Incoming, ServerLabel, OwnTx, TypeOK
  <2> QED BY <2>1, <2>2
<1>11. ASSUME ServerReplay PROVE TypeOK' /\ ControlOK'
  <2>1. TypeOK'
    BY <1>11, PacketTypes
       DEF TypeOK, Labels, ServerReplay, At, Move, locals, env, ServerLabel, ControlOK
  <2>2. ControlOK'
    BY <1>11, PacketTypes
       DEF ControlOK, Copying, ServerReplay, At, Move, locals, env, ServerLabel, TypeOK
  <2> QED BY <2>1, <2>2
<1>12. ASSUME ServerInsert PROVE TypeOK' /\ ControlOK'
  <2>0. packet.tx \in Tx
    BY <1>12, PacketTypes DEF ServerInsert, At, ControlOK, TypeOK, NoPacket
  <2>1. TypeOK'
    BY <1>12, <2>0, InsertType
       DEF TypeOK, Labels, ServerInsert, At, Move, locals, env
  <2>2. ControlOK'
    BY <1>12
       DEF ControlOK, Copying, ServerInsert, At, Move, locals, env, TypeOK
  <2> QED BY <2>1, <2>2
<1>13. ASSUME ServerCopy PROVE TypeOK' /\ ControlOK'
  <2>0. /\ Append(chain, packet.block) \in Seq(Block)
        /\ Append(chain, packet.block) # <<>>
    <3>1. packet.block \in Block
      BY <1>13, PacketTypes DEF ServerCopy, At, ControlOK, TypeOK, NoPacket
    <3> QED BY <3>1 DEF TypeOK
  <2>1. TypeOK'
    BY <1>13, <2>0
       DEF TypeOK, Labels, ServerCopy, At, Move, locals, env
  <2>2. ControlOK'
    BY <1>13, <2>0
       DEF ControlOK, Copying, ServerCopy, At, Move, locals, env, TypeOK
  <2> QED BY <2>1, <2>2
<1>14. ASSUME NEW m \in Miners, MinerLoop(m) PROVE TypeOK' /\ ControlOK'
  <2>1. TypeOK'
    BY <1>14
       DEF TypeOK, Labels, MinerLoop, At, Move, locals, env
  <2>2. ControlOK'
    BY <1>14
       DEF ControlOK, Copying, MinerLoop, At, Move, locals, env, TypeOK
  <2> QED BY <2>1, <2>2
<1>15. ASSUME NEW m \in Miners, MinerPoll(m) PROVE TypeOK' /\ ControlOK'
  <2>1. TypeOK'
    BY <1>15
       DEF TypeOK, Labels, MinerPoll, At, Move, locals, env
  <2>2. ControlOK'
    BY <1>15
       DEF ControlOK, Copying, MinerPoll, At, Move, locals, env, TypeOK
  <2> QED BY <2>1, <2>2
<1>16. ASSUME NEW m \in Miners, MinerCollect(m) PROVE TypeOK' /\ ControlOK'
  <2>1. TypeOK'
    BY <1>16
       DEF TypeOK, Labels, MinerCollect, At, Move, locals, env
  <2>2. ControlOK'
    BY <1>16
       DEF ControlOK, Copying, MinerCollect, At, Move, locals, env, TypeOK
  <2> QED BY <2>1, <2>2
<1>17. ASSUME NEW m \in Miners, MinerCopy(m) PROVE TypeOK' /\ ControlOK'
  <2>1. TypeOK'
    BY <1>17
       DEF TypeOK, Labels, MinerCopy, At, Move, locals, env
  <2>2. ControlOK'
    BY <1>17
       DEF ControlOK, Copying, MinerCopy, At, Move, locals, env, TypeOK
  <2> QED BY <2>1, <2>2
<1>18. ASSUME NEW m \in Miners, MinerReward(m) PROVE TypeOK' /\ ControlOK'
  <2>0. RewardTransaction(GetLastBlock(chain).height + 1, RewardAddress) \in Mints
    <3>1. GetLastBlock(chain).height \in Int
      BY LastBlockType DEF TypeOK, Block
    <3> QED BY <3>1, RewardType
  <2>1. TypeOK'
    BY <1>18, <2>0
       DEF TypeOK, Labels, MinerReward, At, Move, locals, env
  <2>2. ControlOK'
    BY <1>18, <2>0
       DEF ControlOK, Copying, MinerReward, At, Move, locals, env, TypeOK
  <2> QED BY <2>1, <2>2
<1>19. ASSUME NEW m \in Miners, MinerSeal(m) PROVE TypeOK' /\ ControlOK'
  <2>0. /\ AddBlock(temp[m], valid[m], mint[m], sealed + 1) \in Seq(Block)
        /\ AddBlock(temp[m], valid[m], mint[m], sealed + 1) # <<>>
    <3>1. /\ temp[m] \in Seq(Block)
          /\ valid[m] \in TxBag
          /\ sealed + 1 \in Int
      BY <1>19 DEF TypeOK
    <3>2. mint[m] \in Mints /\ m \in Copying
      BY <1>19 DEF MinerSeal, At, ControlOK
    <3> QED BY <3>1, <3>2, SealType DEF Copying
  <2>1. TypeOK'
    BY <1>19, <2>0, NoTxType
       DEF TypeOK, Labels, MinerSeal, At, Move, locals, env
  <2>2. ControlOK'
    BY <1>19, <2>0
       DEF ControlOK, Copying, MinerSeal, At, Move, locals, env, TypeOK
  <2> QED BY <2>1, <2>2
<1>20. ASSUME NEW m \in Miners, MinerLoadStats(m) PROVE TypeOK' /\ ControlOK'
  <2>1. TypeOK'
    BY <1>20
       DEF TypeOK, Labels, MinerLoadStats, At, Move, locals, env
  <2>2. ControlOK'
    BY <1>20
       DEF ControlOK, Copying, MinerLoadStats, At, Move, locals, env, TypeOK
  <2> QED BY <2>1, <2>2
<1>21. ASSUME NEW m \in Miners, MinerStoreStats(m) PROVE TypeOK' /\ ControlOK'
  <2>1. TypeOK'
    BY <1>21
       DEF TypeOK, Labels, MinerStoreStats, At, Move, locals, env, NoStats
  <2>2. ControlOK'
    BY <1>21
       DEF ControlOK, Copying, MinerStoreStats, At, Move, locals, env, NoStats, TypeOK
  <2> QED BY <2>1, <2>2
<1>22. ASSUME NEW m \in Miners, MinerSignal(m) PROVE TypeOK' /\ ControlOK'
  <2>1. TypeOK'
    BY <1>22
       DEF TypeOK, Labels, MinerSignal, At, Move, locals, env
  <2>2. ControlOK'
    BY <1>22
       DEF ControlOK, Copying, MinerSignal, At, Move, locals, env, TypeOK
  <2> QED BY <2>1, <2>2
<1>23. ASSUME NEW t \in Writers, NEW l \in {"idle", "clear"}, Check(t, l), t = "server" <=> l = "idle" PROVE TypeOK' /\ ControlOK'
  <2>1. TypeOK'
    <3>0. /\ temp \in [Writers -> Seq(Block)] /\ overtaken \subseteq Writers
          /\ <<>> \in Seq(Block)
          /\ \/ UNCHANGED <<temp, overtaken>>
             \/ /\ temp' = [temp EXCEPT ![t] = <<>>]
                /\ overtaken' = overtaken \ {t}
      BY <1>23, EmptySeq DEF TypeOK, Check
    <3>1. temp' \in [Writers -> Seq(Block)] /\ overtaken' \subseteq Writers
      BY <3>0
    <3>2. pc' \in [Threads -> Labels]
      BY <1>23 DEF TypeOK, Check, Move, Labels
    <3> QED BY <1>23, <3>1, <3>2 DEF TypeOK, Check, env
  <2>2. ControlOK'
    BY <1>23
       DEF ControlOK, Copying, Check, At, Move, locals, env, TypeOK
  <2> QED BY <2>1, <2>2
<1>24. ASSUME NEW t \in Writers, Assign(t) PROVE TypeOK' /\ ControlOK'
  <2>1. TypeOK'
    <3>1. chain' \in Seq(Block) /\ chain' # <<>>
      BY <1>24 DEF TypeOK, ControlOK, Copying, Assign, At
    <3>2. temp' \in [Writers -> Seq(Block)]
      BY <1>24, EmptySeq DEF TypeOK, Assign
    <3>3. pc' \in [Threads -> Labels]
      BY <1>24 DEF TypeOK, Assign, Move, Labels
    <3> QED BY <1>24, <3>1, <3>2, <3>3 DEF TypeOK, Assign, env
  <2>2. ControlOK'
    BY <1>24
       DEF ControlOK, Copying, Assign, At, Move, locals, env, TypeOK
  <2> QED BY <2>1, <2>2
<1>25. ASSUME NEW t \in Writers, NEW l \in {"idle", "load"}, Clear(t, l), t = "server" <=> l = "idle" PROVE TypeOK' /\ ControlOK'
  <2>1. TypeOK'
    BY <1>25, NoTxType
       DEF TypeOK, Labels, Clear, At, Move, locals, env
  <2>2. ControlOK'
    BY <1>25
       DEF ControlOK, Copying, Clear, At, Move, locals, env, TypeOK
  <2> QED BY <2>1, <2>2
<1>26. ASSUME CasterPoll PROVE TypeOK' /\ ControlOK'
  <2>1. TypeOK'
    BY <1>26
       DEF TypeOK, Labels, CasterPoll, At, Move, locals, env
  <2>2. ControlOK'
    BY <1>26
       DEF ControlOK, Copying, CasterPoll, At, Move, locals, env, TypeOK
  <2> QED BY <2>1, <2>2
<1>27. ASSUME CasterRead PROVE TypeOK' /\ ControlOK'
  <2>1. TypeOK'
    BY <1>27, LastBlockType
       DEF TypeOK, Labels, CasterRead, At, Move, locals, env, ControlOK
  <2>2. ControlOK'
    BY <1>27, LastBlockType
       DEF ControlOK, Copying, CasterRead, At, Move, locals, env, TypeOK
  <2> QED BY <2>1, <2>2
<1>28. ASSUME CasterSend PROVE TypeOK' /\ ControlOK'
  <2>1. TypeOK'
    BY <1>28
       DEF TypeOK, Labels, CasterSend, At, Move, locals, env, BlockPacket, Packets, ControlOK
  <2>2. ControlOK'
    BY <1>28
       DEF ControlOK, Copying, CasterSend, At, Move, locals, env, BlockPacket, Packets, TypeOK
  <2> QED BY <2>1, <2>2
<1>29. ASSUME CasterReset PROVE TypeOK' /\ ControlOK'
  <2>1. TypeOK'
    BY <1>29
       DEF TypeOK, Labels, CasterReset, At, Move, locals, env
  <2>2. ControlOK'
    BY <1>29
       DEF ControlOK, Copying, CasterReset, At, Move, locals, env, TypeOK
  <2> QED BY <2>1, <2>2
<1>30. ASSUME RaceCrash PROVE TypeOK' /\ ControlOK'
  <2>1. TypeOK'
    BY <1>30
       DEF TypeOK, Labels, RaceCrash, locals, env
  <2>2. ControlOK'
    BY <1>30
       DEF ControlOK, Copying, RaceCrash, locals, env, TypeOK
  <2> QED BY <2>1, <2>2
<1>31. ASSUME UNCHANGED vars PROVE TypeOK' /\ ControlOK'
  <2>1. TypeOK'
    BY <1>31
       DEF TypeOK, Labels, vars, locals, env
  <2>2. ControlOK'
    BY <1>31
       DEF ControlOK, Copying, vars, locals, env, TypeOK
  <2> QED BY <2>1, <2>2

<1>32. ASSUME Main PROVE TypeOK' /\ ControlOK'
  BY <1>32, <1>1, <1>2, <1>3, <1>4, <1>5, <1>6, <1>7, <1>8, <1>9
     DEF Main, MainBusy
<1>33. ASSUME Server PROVE TypeOK' /\ ControlOK'
  BY <1>33, <1>12, <1>13, <1>23, <1>24, <1>25 DEF Server
<1>34. ASSUME NEW m \in Miners, Miner(m) PROVE TypeOK' /\ ControlOK'
  <2>1. m # "server" /\ m \in Writers
    OBVIOUS
  <2> QED
    BY <1>34, <2>1, <1>14, <1>15, <1>16, <1>17, <1>18, <1>19, <1>20, <1>21,
       <1>22, <1>23, <1>24, <1>25 DEF Miner
<1>35. ASSUME Caster PROVE TypeOK' /\ ControlOK'
  BY <1>35, <1>26, <1>27, <1>28, <1>29 DEF Caster
<1> QED
  BY <1>10, <1>11, <1>30, <1>31, <1>32, <1>33, <1>34, <1>35 DEF Next

-----------------------------------------------------------------------------
(* The chain and its copies.                                               *)

(* An accounted chain stays one when a delivered or a continuing block is  *)
(* appended.                                                               *)
LEMMA AccountedAppend ==
    ASSUME NEW c \in Seq(Block), c # <<>>, Accounted(c), NEW e \in Block,
           BlockPacket(e) \in delivered \/ Continues(e, GetLastBlock(c))
    PROVE  Accounted(Append(c, e))
<1>1. Len(c) \in Nat \ {0}
  BY LastBlockType
<1>2. /\ Len(Append(c, e)) = Len(c) + 1
      /\ \A i \in 1 .. Len(c) : Append(c, e)[i] = c[i]
      /\ Append(c, e)[Len(c) + 1] = e
  OBVIOUS
<1>3. SUFFICES ASSUME NEW i \in 2 .. Len(c) + 1
               PROVE  \/ i <= Len(InitChain) /\ Append(c, e)[i] = InitChain[i]
                      \/ BlockPacket(Append(c, e)[i]) \in delivered
                      \/ Continues(Append(c, e)[i], Append(c, e)[i - 1])
  BY <1>1, <1>2 DEF Accounted
<1>4. CASE i <= Len(c)
  BY <1>1, <1>2, <1>4 DEF Accounted
<1>5. CASE i = Len(c) + 1
  BY <1>1, <1>2, <1>5 DEF GetLastBlock
<1> QED BY <1>1, <1>4, <1>5

ChainInv ==
    /\ InitialChainKept /\ MinedBlocksContinue
    /\ CopiesAccounted
    /\ FreshCopies
    /\ FreshChecks

(* The initial chain satisfies the chain invariant.                        *)
LEMMA InitChainInv == Init => ChainInv
<1> SUFFICES ASSUME Init PROVE ChainInv
  OBVIOUS
<1>1. Copying = {} /\ chain = InitChain /\ overtaken = {}
  BY DEF Init, Copying
<1>2. InitialChainKept
  BY <1>1, NodeAssumption, PrefixReflexive DEF InitialChainKept
<1>3. MinedBlocksContinue
  BY <1>1, NodeAssumption, LenProperties DEF MinedBlocksContinue, Accounted
<1>4. CopiesAccounted /\ FreshCopies
  BY <1>1 DEF CopiesAccounted, FreshCopies
<1>5. FreshChecks
  BY NodeAssumption DEF Init, FreshChecks, Writers, Threads
<1> QED BY <1>2, <1>3, <1>4, <1>5 DEF ChainInv

(* The steps that touch neither the chain nor a copy of it.                *)
Frame ==
    /\ UNCHANGED <<chain, temp, overtaken, unchecked>>
    /\ delivered \subseteq delivered'
    /\ \A t \in Writers : pc'[t] = "assign" <=> pc[t] = "assign"

(* A step that leaves the chain, the copies and the marks alone keeps the  *)
(* chain invariant.                                                        *)
LEMMA FrameKeeps == ChainInv /\ Frame => ChainInv'
<1> SUFFICES ASSUME ChainInv, Frame PROVE ChainInv'
  OBVIOUS
<1>1. ASSUME NEW c, Accounted(c)
      PROVE  \A i \in 2 .. Len(c) :
                \/ i <= Len(InitChain) /\ c[i] = InitChain[i]
                \/ BlockPacket(c[i]) \in delivered'
                \/ Continues(c[i], c[i - 1])
  BY <1>1 DEF Accounted, Frame
<1>2. InitialChainKept' /\ MinedBlocksContinue'
  BY <1>1 DEF ChainInv, Frame, InitialChainKept, MinedBlocksContinue, Accounted
<1>3. Copying' = Copying
  BY DEF Frame, Copying
<1>4. CopiesAccounted'
  BY <1>1, <1>3 DEF ChainInv, Frame, CopiesAccounted, Accounted
<1>5. FreshCopies'
  BY <1>3 DEF ChainInv, Frame, FreshCopies
<1>6. FreshChecks'
  BY DEF ChainInv, Frame, FreshChecks
<1> QED BY <1>2, <1>4, <1>5, <1>6 DEF ChainInv

(* A writer that takes a new copy, or extends the one it has.              *)
LEMMA NewCopy ==
    ASSUME TypeOK, ControlOK, ChainInv,
           NEW t \in Writers, NEW c \in Seq(Block),
           c # <<>>, IsPrefix(InitChain, c), Accounted(c),
           t \notin overtaken => IsPrefix(chain, c),
           temp' = [temp EXCEPT ![t] = c],
           UNCHANGED <<chain, overtaken, unchecked, delivered>>,
           pc[t] # "assign", \A u \in Writers : pc'[u] = "assign" => pc[u] = "assign"
    PROVE  ChainInv'
<1>0. temp \in [Writers -> Seq(Block)]
  BY DEF TypeOK
<1>1. Copying' = Copying \cup {t}
  BY <1>0 DEF Copying
<1>2. InitialChainKept' /\ MinedBlocksContinue'
  BY DEF ChainInv, InitialChainKept, MinedBlocksContinue, Accounted
<1>3. CopiesAccounted'
  <2> SUFFICES ASSUME NEW u \in Copying'
               PROVE  IsPrefix(InitChain, temp'[u]) /\ Accounted(temp[u])'
    BY DEF CopiesAccounted
  <2>1. CASE u = t
    BY <1>0, <2>1 DEF Accounted
  <2>2. CASE u # t
    BY <1>0, <1>1, <2>2 DEF ChainInv, CopiesAccounted, Accounted, Copying
  <2> QED BY <2>1, <2>2
<1>4. FreshCopies'
  <2> SUFFICES ASSUME NEW u \in Copying' \ overtaken
               PROVE  IsPrefix(chain, temp'[u])
    BY <1>1 DEF FreshCopies, ChainInv
  <2>1. CASE u = t
    BY <1>0, <2>1
  <2>2. CASE u # t
    BY <1>0, <1>1, <2>2 DEF ChainInv, FreshCopies, Copying
  <2> QED BY <2>1, <2>2
<1>5. FreshChecks'
  BY <1>0 DEF ChainInv, FreshChecks
<1> QED BY <1>2, <1>3, <1>4, <1>5 DEF ChainInv

(* The check of replaceChain keeps the chain invariant.                    *)
LEMMA CheckKeeps ==
    ASSUME TypeOK, ControlOK, ChainInv, NEW t \in Writers, NEW l, l # "assign",
           Check(t, l)
    PROVE  ChainInv'
<1>0. temp \in [Writers -> Seq(Block)] /\ pc \in [Threads -> Labels]
  BY DEF TypeOK
<1>1. CASE MayReplace(temp[t], chain)
  <2>1. UNCHANGED <<chain, temp, overtaken, unchecked, delivered>> /\ Move(t, "assign")
    BY <1>1 DEF Check, env
  <2>2. InitialChainKept' /\ MinedBlocksContinue' /\ CopiesAccounted' /\ FreshCopies'
    BY <2>1 DEF ChainInv, InitialChainKept, MinedBlocksContinue, Accounted,
                CopiesAccounted, FreshCopies, Copying
  <2>3. Len(temp[t]) > Len(chain)
    BY <1>1 DEF MayReplace
  <2>4. FreshChecks'
    BY <1>0, <2>1, <2>3 DEF ChainInv, FreshChecks, Move, Threads, Writers
  <2> QED BY <2>2, <2>4 DEF ChainInv
<1>2. CASE ~MayReplace(temp[t], chain)
  <2>1. /\ UNCHANGED <<chain, unchecked, delivered>> /\ Move(t, l)
        /\ temp' = [temp EXCEPT ![t] = <<>>]
        /\ overtaken' = overtaken \ {t}
    BY <1>2 DEF Check, env
  <2>2. /\ Copying' = Copying \ {t}
        /\ \A u \in Copying' : temp'[u] = temp[u]
    BY <1>0, <2>1 DEF Copying
  <2>3. InitialChainKept' /\ MinedBlocksContinue'
    BY <2>1 DEF ChainInv, InitialChainKept, MinedBlocksContinue, Accounted
  <2>4. CopiesAccounted' /\ FreshCopies'
    BY <2>1, <2>2 DEF ChainInv, Accounted, CopiesAccounted, FreshCopies
  <2>5. FreshChecks'
    BY <1>0, <2>1 DEF ChainInv, FreshChecks, Move, Threads, Writers
  <2> QED BY <2>3, <2>4, <2>5 DEF ChainInv
<1> QED BY <1>1, <1>2

(* The assignment of replaceChain keeps the chain invariant.               *)
LEMMA AssignKeeps ==
    ASSUME TypeOK, ControlOK, ChainInv, NEW t \in Writers, Assign(t)
    PROVE  ChainInv'
<1>0. temp \in [Writers -> Seq(Block)] /\ pc \in [Threads -> Labels]
  BY DEF TypeOK
<1>1. t \in Copying
  BY DEF Assign, At, ControlOK
<1>2. /\ chain' = temp[t] /\ UNCHANGED delivered
      /\ temp' = [temp EXCEPT ![t] = <<>>]
      /\ overtaken' = Copying \ {t}
      /\ unchecked' = {u \in Writers \ {t} : pc[u] = "assign"}
      /\ Move(t, "clear")
  BY DEF Assign, env, Copying
<1>3. /\ Copying' = Copying \ {t}
      /\ \A u \in Copying' : temp'[u] = temp[u]
  BY <1>0, <1>2 DEF Copying
<1>4. InitialChainKept' /\ MinedBlocksContinue'
  BY <1>1, <1>2 DEF ChainInv, CopiesAccounted, InitialChainKept,
                    MinedBlocksContinue, Accounted
<1>5. CopiesAccounted' /\ FreshCopies'
  BY <1>2, <1>3 DEF ChainInv, Accounted, CopiesAccounted, FreshCopies
<1>6. FreshChecks'
  BY <1>0, <1>2 DEF FreshChecks, Move, Threads, Writers
<1> QED BY <1>4, <1>5, <1>6 DEF ChainInv

(* The copy the server extends by a received block is a good copy.         *)
LEMMA ServerCopyKeeps ==
    TypeOK /\ ControlOK /\ ChainInv /\ ServerCopy => ChainInv'
<1> SUFFICES ASSUME TypeOK, ControlOK, ChainInv, ServerCopy PROVE ChainInv'
  OBVIOUS
<1> DEFINE c == Append(chain, packet.block)
<1>1. /\ packet.block \in Block
      /\ BlockPacket(packet.block) \in delivered
  BY PacketTypes DEF TypeOK, ControlOK, ServerCopy, At, NoPacket
<1>2. chain \in Seq(Block) /\ chain # <<>>
  BY DEF TypeOK
<1>3. c \in Seq(Block) /\ c # <<>>
  BY <1>1, <1>2
<1>4. IsPrefix(InitChain, c)
  BY <1>1, <1>2, NodeAssumption, PrefixAppend DEF ChainInv, InitialChainKept
<1>5. Accounted(c)
  BY <1>1, <1>2, AccountedAppend DEF ChainInv, MinedBlocksContinue
<1>6. IsPrefix(chain, c)
  BY <1>1, <1>2, PrefixReflexive, PrefixAppend
<1>7. /\ "server" \in Writers /\ pc["server"] # "assign"
      /\ temp' = [temp EXCEPT !["server"] = c]
      /\ UNCHANGED <<chain, overtaken, unchecked, delivered>>
      /\ \A u \in Writers : pc'[u] = "assign" => pc[u] = "assign"
  BY DEF ServerCopy, At, Move, env, Writers, Threads, TypeOK
<1> HIDE DEF c
<1> QED BY <1>3, <1>4, <1>5, <1>6, <1>7, NewCopy

(* The copy a miner takes is a good copy.                                  *)
LEMMA MinerCopyKeeps ==
    ASSUME TypeOK, ControlOK, ChainInv, NEW m \in Miners, MinerCopy(m)
    PROVE  ChainInv'
<1>1. /\ m \in Writers /\ pc[m] # "assign"
      /\ temp' = [temp EXCEPT ![m] = chain]
      /\ UNCHANGED <<chain, overtaken, unchecked, delivered>>
      /\ \A u \in Writers : pc'[u] = "assign" => pc[u] = "assign"
  BY DEF MinerCopy, At, Move, env, Writers, Threads, TypeOK
<1>2. /\ chain \in Seq(Block) /\ chain # <<>>
      /\ IsPrefix(InitChain, chain) /\ Accounted(chain)
      /\ IsPrefix(chain, chain)
  BY PrefixReflexive DEF TypeOK, ChainInv, InitialChainKept, MinedBlocksContinue
<1> QED BY <1>1, <1>2, NewCopy

(* The copy a miner extends by its block is a good copy.                   *)
LEMMA MinerSealKeeps ==
    ASSUME TypeOK, ControlOK, ChainInv, NEW m \in Miners, MinerSeal(m)
    PROVE  ChainInv'
<1> DEFINE b == MineBlock(GetLastBlock(temp[m]), valid[m], mint[m], sealed + 1)
           c == Append(temp[m], b)
<1>1. /\ m \in Writers /\ pc[m] # "assign"
      /\ temp' = [temp EXCEPT ![m] = c]
      /\ UNCHANGED <<chain, overtaken, unchecked, delivered>>
      /\ \A u \in Writers : pc'[u] = "assign" => pc[u] = "assign"
  BY DEF MinerSeal, At, Move, Writers, Threads, TypeOK, AddBlock
<1>2. m \in Copying /\ mint[m] \in Mints
  BY <1>1 DEF MinerSeal, At, ControlOK
<1>3. temp[m] \in Seq(Block) /\ temp[m] # <<>>
  BY <1>1, <1>2 DEF TypeOK, Copying
<1>4. b \in Block /\ Continues(b, GetLastBlock(temp[m]))
  <2>1. valid[m] \in TxBag /\ sealed + 1 \in Int
    BY DEF TypeOK
  <2> QED BY <1>2, <1>3, <2>1, LastBlockType, MinedBlock
<1>5. /\ IsPrefix(InitChain, temp[m]) /\ Accounted(temp[m])
      /\ m \notin overtaken => IsPrefix(chain, temp[m])
  BY <1>2 DEF ChainInv, CopiesAccounted, FreshCopies
<1> HIDE DEF b
<1>6. c \in Seq(Block) /\ c # <<>>
  BY <1>3, <1>4
<1>7. IsPrefix(InitChain, c)
  BY <1>3, <1>4, <1>5, NodeAssumption, PrefixAppend
<1>8. Accounted(c)
  BY <1>3, <1>4, <1>5, AccountedAppend
<1>9. m \notin overtaken => IsPrefix(chain, c)
  BY <1>3, <1>4, <1>5, PrefixAppend DEF TypeOK
<1> HIDE DEF c
<1> QED BY <1>1, <1>6, <1>7, <1>8, <1>9, NewCopy

(* All other actions leave the chain and the copies alone.                 *)
LEMMA OthersFrame ==
    ASSUME TypeOK, ControlOK
    PROVE  /\ Main \/ ServerAccept \/ ServerReplay \/ ServerInsert \/ Caster
                \/ RaceCrash \/ UNCHANGED vars => Frame
           /\ Clear("server", "idle") => Frame
           /\ \A m \in Miners :
                MinerLoop(m) \/ MinerPoll(m) \/ MinerCollect(m) \/ MinerReward(m)
                \/ Clear(m, "load") \/ MinerLoadStats(m) \/ MinerStoreStats(m)
                \/ MinerSignal(m) => Frame
<1> USE NodeAssumption DEF Frame, locals, env, At, Move, Threads, Writers, TypeOK
<1>1. MainTransact \/ MainCreate \/ MainInsert \/ MainBroadcast => Frame
  BY DEF MainTransact, MainCreate, MainInsert, MainBroadcast
<1>2. MainStart \/ MainSpawn \/ MainStop \/ MainStatusUncreated \/ MainExit => Frame
  BY DEF MainStart, MainSpawn, MainStop, MainStatusUncreated, MainExit
<1>3. ServerAccept \/ ServerReplay \/ ServerInsert => Frame
  BY DEF ServerAccept, ServerReplay, ServerInsert, ServerLabel
<1>4. Caster => Frame
  BY DEF Caster, CasterPoll, CasterRead, CasterSend, CasterReset
<1>5. RaceCrash \/ UNCHANGED vars => Frame
  BY DEF RaceCrash, vars
<1>6. \A t \in Writers, l \in {"idle", "load"} : Clear(t, l) => Frame
  BY DEF Clear
<1>7. ASSUME NEW m \in Miners
      PROVE  MinerLoop(m) \/ MinerPoll(m) \/ MinerCollect(m) \/ MinerReward(m) => Frame
  BY DEF MinerLoop, MinerPoll, MinerCollect, MinerReward
<1>8. ASSUME NEW m \in Miners
      PROVE  MinerLoadStats(m) \/ MinerStoreStats(m) \/ MinerSignal(m) => Frame
  BY DEF MinerLoadStats, MinerStoreStats, MinerSignal
<1>9. Main => Frame
  BY <1>1, <1>2 DEF Main, MainBusy
<1>10. \A m \in Miners : m \in Writers /\ "server" \in Writers
  OBVIOUS
<1> QED BY ONLY <1>3, <1>4, <1>5, <1>6, <1>7, <1>8, <1>9, <1>10

(* Every step keeps the chain invariant.                                   *)
LEMMA StepChainInv == TypeOK /\ ControlOK /\ ChainInv /\ [Next]_vars => ChainInv'
<1> SUFFICES ASSUME TypeOK, ControlOK, ChainInv, [Next]_vars PROVE ChainInv'
  OBVIOUS
<1>0. "server" \in Writers /\ \A m \in Miners : m \in Writers
  BY DEF Writers
<1>1. CASE Main \/ ServerAccept \/ ServerReplay \/ Caster \/ RaceCrash \/ UNCHANGED vars
  BY <1>1, OthersFrame, FrameKeeps
<1>2. CASE Server
  <2>1. CASE ServerCopy
    BY <2>1, ServerCopyKeeps
  <2>2. CASE Check("server", "idle")
    BY <1>0, <2>2, CheckKeeps
  <2>3. CASE Assign("server")
    BY <1>0, <2>3, AssignKeeps
  <2>4. CASE ServerInsert \/ Clear("server", "idle")
    BY <2>4, OthersFrame, FrameKeeps
  <2> QED BY <1>2, <2>1, <2>2, <2>3, <2>4 DEF Server
<1>3. ASSUME NEW m \in Miners, Miner(m) PROVE ChainInv'
  <2>1. CASE MinerCopy(m)
    BY <2>1, MinerCopyKeeps
  <2>2. CASE MinerSeal(m)
    BY <2>2, MinerSealKeeps
  <2>3. CASE Check(m, "clear")
    BY <1>0, <2>3, CheckKeeps
  <2>4. CASE Assign(m)
    BY <1>0, <2>4, AssignKeeps
  <2>5. CASE \/ MinerLoop(m) \/ MinerPoll(m) \/ MinerCollect(m) \/ MinerReward(m)
             \/ Clear(m, "load") \/ MinerLoadStats(m) \/ MinerStoreStats(m)
             \/ MinerSignal(m)
    BY <2>5, OthersFrame, FrameKeeps
  <2> QED BY <1>3, <2>1, <2>2, <2>3, <2>4, <2>5 DEF Miner
<1> QED BY <1>1, <1>2, <1>3 DEF Next

-----------------------------------------------------------------------------
(* A thread to mine.                                                       *)

(* Every step keeps a miner thread while mining is on.                     *)
LEMMA MiningThreadStep ==
    TypeOK /\ ControlOK /\ MiningHasAThread /\ [Next]_vars => MiningHasAThread'
<1> SUFFICES ASSUME TypeOK, ControlOK, MiningHasAThread, [Next]_vars
             PROVE  MiningHasAThread'
  OBVIOUS
<1> USE NodeAssumption DEF MiningHasAThread, locals, env, At, Move, Threads, Writers
<1>0. pc \in [Threads -> Labels]
  BY DEF TypeOK
<1>1. CASE Main
  <2>1. CASE MainTransact \/ MainBusy
    BY <1>0, <2>1 DEF MainTransact, MainBusy, MainCreate, MainInsert,
                      MainBroadcast, MainSpawn
  <2>2. CASE MainStart \/ MainStop \/ MainStatusUncreated \/ MainExit
    BY <1>0, <2>2 DEF MainStart, MainStop, MainStatusUncreated, MainExit
  <2> QED BY <1>1, <2>1, <2>2 DEF Main
<1>2. CASE ServerAccept \/ ServerReplay \/ Server \/ Caster \/ RaceCrash \/ UNCHANGED vars
  BY <1>0, <1>2
     DEF ServerAccept, ServerReplay, Server, ServerInsert, ServerCopy, Check,
         Assign, Clear, Caster, CasterPoll, CasterRead, CasterSend, CasterReset,
         RaceCrash, vars
<1>3. ASSUME NEW m \in Miners, Miner(m) PROVE MiningHasAThread'
  <2>1. UNCHANGED <<created, mine>> /\ pc'["main"] = pc["main"]
    BY <1>0, <1>3 DEF Miner, MinerLoop, MinerPoll, MinerCollect, MinerCopy,
         MinerReward, MinerSeal, Check, Assign, Clear, MinerLoadStats,
         MinerStoreStats, MinerSignal
  <2>2. mine => /\ pc'[m] # "none"
                /\ \A u \in Miners : u # m => pc'[u] = pc[u]
    BY <1>0, <1>3 DEF Miner, MinerLoop, MinerPoll, MinerCollect, MinerCopy,
         MinerReward, MinerSeal, Check, Assign, Clear, MinerLoadStats,
         MinerStoreStats, MinerSignal
  <2> QED BY <2>1, <2>2
<1> QED BY <1>1, <1>2, <1>3 DEF Next

-----------------------------------------------------------------------------
(* The invariant is inductive.                                             *)

THEOREM Invariant == Spec => []IndInv
<1>1. Init => IndInv
  BY InitTypes, InitChainInv DEF Init, IndInv, ChainInv, MiningHasAThread
<1>2. IndInv /\ [Next]_vars => IndInv'
  BY StepTypes, StepChainInv, MiningThreadStep DEF IndInv, ChainInv
<1> QED BY <1>1, <1>2, PTL DEF Spec

(* Types are kept.                                                         *)
THEOREM TypeCorrect == Spec => []TypeOK
BY Invariant, PTL DEF IndInv

(* Blocks mined here always continue the block they were mined on.         *)
THEOREM MinedBlocksStayJoined == Spec => []MinedBlocksContinue
BY Invariant, PTL DEF IndInv

(* The chain a node starts from is never rewritten.                        *)
THEOREM InitialChainStays == Spec => []InitialChainKept
BY Invariant, PTL DEF IndInv

(* Mining that was started has a thread that does it.                      *)
THEOREM MiningIsManned == Spec => []MiningHasAThread
BY Invariant, PTL DEF IndInv

-----------------------------------------------------------------------------
(* How the chain may change.                                               *)

(* The chain changes only by the assignment of a writer.                   *)
LEMMA ChainChange ==
    ASSUME IndInv, [Next]_vars
    PROVE  \/ chain' = chain
           \/ \E t \in Copying : pc[t] = "assign" /\ chain' = temp[t]
<1>1. Frame => chain' = chain
  BY DEF Frame
<1>2. TypeOK /\ ControlOK
  BY DEF IndInv
<1>3. \A t \in Writers, l \in {"idle", "clear"} : Check(t, l) => chain' = chain
  BY DEF Check
<1>4. \A t \in Writers :
        Assign(t) => t \in Copying /\ pc[t] = "assign" /\ chain' = temp[t]
  BY <1>2 DEF Assign, At, ControlOK
<1>5. /\ ServerCopy => chain' = chain
      /\ \A m \in Miners : MinerCopy(m) \/ MinerSeal(m) => chain' = chain
  BY DEF ServerCopy, MinerCopy, MinerSeal
<1>6. "server" \in Writers /\ \A m \in Miners : m \in Writers
  BY DEF Writers
<1>7. Server => \/ chain' = chain
                \/ \E t \in Copying : pc[t] = "assign" /\ chain' = temp[t]
  BY <1>1, <1>2, <1>3, <1>4, <1>5, <1>6, OthersFrame DEF Server
<1>8. ASSUME NEW m \in Miners, Miner(m)
      PROVE  \/ chain' = chain
             \/ \E t \in Copying : pc[t] = "assign" /\ chain' = temp[t]
  BY <1>1, <1>2, <1>3, <1>4, <1>5, <1>6, <1>8, OthersFrame DEF Miner
<1> QED BY <1>1, <1>2, <1>7, <1>8, OthersFrame DEF Next

(* Only a writer that was overtaken takes blocks off the chain.            *)
THEOREM AppendsUnlessOvertaken == Spec => AppendUnlessOvertaken
<1>1. IndInv /\ [Next]_vars
        => [IsPrefix(chain, chain') \/ \E t \in overtaken : chain' = temp[t]]_vars
  <2> SUFFICES ASSUME IndInv, [Next]_vars
               PROVE  IsPrefix(chain, chain') \/ \E t \in overtaken : chain' = temp[t]
    OBVIOUS
  <2>1. chain \in Seq(Block)
    BY DEF IndInv, TypeOK
  <2>2. CASE chain' = chain
    BY <2>1, <2>2, PrefixReflexive
  <2>3. CASE \E t \in Copying : chain' = temp[t]
    BY <2>3 DEF IndInv, FreshCopies
  <2> QED BY <2>2, <2>3, ChainChange
<1> QED BY <1>1, Invariant, PTL DEF Spec, AppendUnlessOvertaken

(* The length check is only beaten between the check and the assignment.   *)
THEOREM LongerUnlessUncheckedWriter == Spec => LongerUnlessUnchecked
<1>1. IndInv /\ [Next]_vars
        => [\/ chain' = chain
            \/ Len(chain') > Len(chain)
            \/ \E t \in unchecked : chain' = temp[t]]_vars
  BY ChainChange DEF IndInv, FreshChecks, Copying
<1> QED BY <1>1, Invariant, PTL DEF Spec, LongerUnlessUnchecked
=============================================================================
