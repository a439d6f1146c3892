-------------------------- MODULE BootstrapProofs --------------------------
(***************************************************************************)
(* Proofs about Bootstrap and NameServer, for any finite set of nodes and  *)
(* any number of attempts and rounds.                                      *)
(***************************************************************************)
EXTENDS Bootstrap, FiniteSetTheorems, TLAPS

Stages == {"off", "discover", "notify", "ask", "chain", "pool", "up"}

-----------------------------------------------------------------------------
(* Types.                                                                  *)

(* The end of a process keeps the types.                                   *)
LEMMA EndsType ==
    ASSUME TypeOK, NEW n \in Nodes, Ends(n), asked' \in [Nodes -> SUBSET Nodes]
    PROVE  TypeOK'
<1>1. ServerTypeOK'
  BY DEF TypeOK, ServerTypeOK, Ends, server, tables, process
<1>2. /\ stage' \in [Nodes -> Stages] /\ tries' \in [Nodes -> 0 .. MaxAttempts + MaxTries]
      /\ known' \in [Nodes -> SUBSET Nodes]
      /\ rootAddress' \in [Nodes -> Nodes \cup {None, Garbage}]
      /\ genesis' \in [Nodes -> Chains] /\ file' \in [Nodes -> Chains]
      /\ pool' \in [Nodes -> BOOLEAN]
  BY BootstrapAssumption DEF TypeOK, Ends, Chains, Stages
<1>3. \A m \in Nodes : m \notin known'[m]
  BY DEF TypeOK, Ends
<1>4. \A m \in Nodes : genesis'[m] # None <=> stage'[m] \in {"notify", "pool", "up"}
  BY DEF TypeOK, Ends
<1> QED BY <1>1, <1>2, <1>3, <1>4 DEF TypeOK, Stages

(* What the name server does keeps its types.                              *)
LEMMA ServerType ==
    ASSUME ServerTypeOK, NEW n \in Nodes,
           \/ \E list \in SUBSET Nodes : SyncMe(n, list)
           \/ ImRoot(n) \/ WhosRoot \/ ServerCrash \/ ServerRestart
    PROVE  ServerTypeOK'
<1> USE DEF ServerTypeOK
<1>1. CASE \E list \in SUBSET Nodes : SyncMe(n, list)
  BY <1>1 DEF SyncMe, Register, Fails
<1>2. CASE ImRoot(n)
  BY <1>2 DEF ImRoot, Fails
<1>3. CASE WhosRoot
  BY <1>3 DEF WhosRoot, Parses, Fails, tables
<1>4. CASE ServerCrash \/ ServerRestart
  BY <1>4 DEF ServerCrash, ServerRestart, tables
<1> QED BY <1>1, <1>2, <1>3, <1>4

LEMMA TypeInit == Init => TypeOK
BY BootstrapAssumption DEF Init, ServerInit, TypeOK, ServerTypeOK, Chains

LEMMA TypeStep == TypeOK /\ [Next]_vars => TypeOK'
<1> SUFFICES ASSUME TypeOK, [Next]_vars PROVE TypeOK'
  OBVIOUS
<1> USE BootstrapAssumption
<1>1. ASSUME NEW n \in Nodes, Start(n) PROVE TypeOK'
  BY <1>1 DEF Start, TypeOK, ServerTypeOK, server, tables, process, Chains
<1>2. ASSUME NEW n \in Nodes, Retry(n) \/ NextRound(n) PROVE TypeOK'
  <2>1. ServerTypeOK'
    BY <1>2 DEF Retry, NextRound, TypeOK, ServerTypeOK, server, tables, process
  <2>2. tries' \in [Nodes -> 0 .. MaxAttempts + MaxTries] /\ asked' \in [Nodes -> SUBSET Nodes]
    BY <1>2 DEF Retry, NextRound, TypeOK
  <2>3. UNCHANGED <<stage, known, rootAddress, genesis, pool, file>>
    BY <1>2 DEF Retry, NextRound
  <2> QED BY <2>1, <2>2, <2>3 DEF TypeOK, Chains
<1>3. ASSUME NEW n \in Nodes, GiveUpServer(n) \/ GiveUpChain(n) \/ End(n) PROVE TypeOK'
  <2>1. Ends(n) /\ asked' \in [Nodes -> SUBSET Nodes]
    BY <1>3 DEF GiveUpServer, GiveUpChain, End, TypeOK
  <2> QED BY <2>1, EndsType
<1>4. ASSUME NEW n \in Nodes, Discover(n) PROVE TypeOK'
  <2>1. PICK list \in SUBSET Nodes :
          /\ SyncMe(n, list)
          /\ \/ /\ status' = "up" /\ list = {}
                /\ stage' = [stage EXCEPT ![n] = "notify"]
                /\ \E g \in Genesis :
                      /\ \A m \in Nodes : g \notin {genesis[m], file[m]}
                      /\ genesis' = [genesis EXCEPT ![n] = g]
                /\ pool' = [pool EXCEPT ![n] = TRUE]
                /\ UNCHANGED known
             \/ /\ status' = "down" \/ list # {}
                /\ stage' = [stage EXCEPT ![n] = "ask"]
                /\ known' = [known EXCEPT ![n] = IF status' = "up" THEN list ELSE {}]
                /\ UNCHANGED <<genesis, pool>>
    BY <1>4 DEF Discover
  <2>2. ServerTypeOK'
    BY <2>1, ServerType DEF TypeOK
  <2>3. n \notin list
    BY <2>1 DEF SyncMe, FirstHosts, Others
  <2>4. stage[n] = "discover" /\ tries' = [tries EXCEPT ![n] = 0]
        /\ UNCHANGED <<asked, rootAddress, file>>
    BY <1>4 DEF Discover
  <2>5. tries' \in [Nodes -> 0 .. MaxAttempts + MaxTries] /\ stage' \in [Nodes -> Stages]
    BY <2>1, <2>4 DEF TypeOK, Stages
  <2>6. /\ known' \in [Nodes -> SUBSET Nodes] /\ pool' \in [Nodes -> BOOLEAN]
        /\ \A m \in Nodes : m \notin known'[m]
    BY <2>1, <2>3 DEF TypeOK
  <2>7. /\ genesis' \in [Nodes -> Chains]
        /\ \A m \in Nodes : genesis'[m] # None <=> stage'[m] \in {"notify", "pool", "up"}
    BY <2>1, <2>4 DEF TypeOK, Chains
  <2> QED BY <2>2, <2>4, <2>5, <2>6, <2>7 DEF TypeOK, Stages, Chains
<1>5. ASSUME NEW n \in Nodes, Notify(n) PROVE TypeOK'
  <2>1. ServerTypeOK'
    BY <1>5, ServerType DEF TypeOK, Notify
  <2> QED BY <1>5, <2>1 DEF Notify, TypeOK, Chains
<1>6. ASSUME NEW n \in Nodes, AskRoot(n) PROVE TypeOK'
  <2>1. ServerTypeOK'
    BY <1>6, ServerType DEF TypeOK, AskRoot
  <2>2. Heard(n) \in Nodes \cup {None, Garbage}
    BY <2>1 DEF Heard, ServerTypeOK
  <2> QED BY <1>6, <2>1, <2>2 DEF AskRoot, TypeOK, Chains
<1>7. ASSUME NEW n \in Nodes, NEW p \in Nodes, NobodyThere(n, p) PROVE TypeOK'
  BY <1>7 DEF NobodyThere, Asked, TypeOK, ServerTypeOK, server, tables, process, Chains
<1>8. ASSUME NEW n \in Nodes, NEW p \in Nodes, PeerDies(n, p) PROVE TypeOK'
  <2>1. Ends(p) /\ asked' \in [Nodes -> SUBSET Nodes]
    BY <1>8 DEF PeerDies, TypeOK
  <2> QED BY <2>1, EndsType
<1>9. ASSUME NEW n \in Nodes, NEW p \in Nodes, SyncChain(n, p) PROVE TypeOK'
  <2>1. PICK g \in Received(n, p) : genesis' = [genesis EXCEPT ![n] = g]
    BY <1>9 DEF SyncChain
  <2>2. n # p /\ stage[p] = "up" /\ genesis[p] # None
    BY <1>9 DEF SyncChain, Asks, Up, TypeOK
  <2>3. g \in Chains /\ g # None
    BY <2>1, <2>2 DEF Received, TypeOK, Chains
  <2>4. /\ stage' \in [Nodes -> Stages]
        /\ stage'[n] \in {"pool", "up"}
        /\ \A m \in Nodes \ {n} : stage'[m] = stage[m]
    BY <1>9 DEF SyncChain, TypeOK, Stages
  <2>5. known' \in [Nodes -> SUBSET Nodes] /\ \A m \in Nodes : m \notin known'[m]
    BY <1>9, <2>2 DEF SyncChain, Meets, TypeOK
  <2>6. file' \in [Nodes -> Chains]
    BY <1>9, <2>2 DEF SyncChain, TypeOK, Chains
  <2>7. ServerTypeOK'
    BY <1>9 DEF SyncChain, TypeOK, ServerTypeOK, server, tables, process
  <2> QED BY <1>9, <2>1, <2>3, <2>4, <2>5, <2>6, <2>7 DEF SyncChain, TypeOK, Stages
<1>10. ASSUME NEW n \in Nodes, NEW p \in Nodes, SyncChainFails(n, p) PROVE TypeOK'
  <2>1. n # p
    BY <1>10 DEF SyncChainFails, Asks, TypeOK
  <2>2. known' \in [Nodes -> SUBSET Nodes] /\ \A m \in Nodes : m \notin known'[m]
    BY <1>10, <2>1 DEF SyncChainFails, Meets, TypeOK
  <2>3. file' \in [Nodes -> Chains]
    BY <1>10 DEF SyncChainFails, TypeOK, Chains
  <2>4. asked' \in [Nodes -> SUBSET Nodes]
    BY <1>10 DEF SyncChainFails, TypeOK
  <2>5. ServerTypeOK'
    BY <1>10 DEF SyncChainFails, TypeOK, ServerTypeOK, server, tables, process
  <2> QED BY <1>10, <2>2, <2>3, <2>4, <2>5 DEF SyncChainFails, TypeOK
<1>11. ASSUME NEW n \in Nodes, NEW p \in Nodes, SyncPool(n, p) PROVE TypeOK'
  <2>1. n # p
    BY <1>11 DEF SyncPool, Asks, TypeOK
  <2>2. known' \in [Nodes -> SUBSET Nodes] /\ \A m \in Nodes : m \notin known'[m]
    BY <1>11, <2>1 DEF SyncPool, Meets, TypeOK
  <2>3. ServerTypeOK'
    BY <1>11 DEF SyncPool, TypeOK, ServerTypeOK, server, tables, process
  <2>4. stage' \in [Nodes -> Stages] /\ pool' \in [Nodes -> BOOLEAN]
    BY <1>11 DEF SyncPool, TypeOK, Stages
  <2>5. tries' \in [Nodes -> 0 .. MaxAttempts + MaxTries]
    BY <1>11 DEF SyncPool, TypeOK
  <2>6. asked' \in [Nodes -> SUBSET Nodes]
    BY <1>11 DEF SyncPool, Asked, TypeOK
  <2>7. \A m \in Nodes : genesis'[m] # None <=> stage'[m] \in {"notify", "pool", "up"}
    BY <1>11 DEF SyncPool, TypeOK
  <2> QED BY <1>11, <2>2, <2>3, <2>4, <2>5, <2>6, <2>7 DEF SyncPool, TypeOK, Stages
<1>12. ASSUME NEW n \in Nodes, GiveUpPool(n) PROVE TypeOK'
  BY <1>12 DEF GiveUpPool, RoundOver, TypeOK, ServerTypeOK, server, tables, process, Chains
<1>13. ASSUME NEW n \in Nodes, NEW m \in Nodes, Announce(n, m) PROVE TypeOK'
  <2>1. CASE m \in Up /\ Meets(n, m)
             /\ UNCHANGED <<server, mishaps, stage, tries, asked, rootAddress, genesis,
                            pool, file>>
    <3>1. n # m
      BY <1>13 DEF Announce, TypeOK
    <3> QED BY <2>1, <3>1 DEF Meets, TypeOK, ServerTypeOK, server, tables, process
  <2>2. CASE asked' = [asked EXCEPT ![m] = {}] /\ Ends(m)
    <3>1. asked' \in [Nodes -> SUBSET Nodes]
      BY <2>2 DEF TypeOK
    <3> QED BY <2>2, <3>1, EndsType
  <2> QED BY <1>13, <2>1, <2>2 DEF Announce
<1>14. ASSUME Server PROVE TypeOK'
  <2>1. (ServerCrash \/ ServerRestart) /\ UNCHANGED node
    BY <1>14 DEF Server
  <2>2. ServerTypeOK'
    BY <2>1 DEF ServerTypeOK, TypeOK, ServerCrash, ServerRestart, tables
  <2> QED BY <2>1, <2>2 DEF TypeOK, node, Chains
<1>15. CASE UNCHANGED vars
  BY <1>15 DEF vars, node, server, tables, process, TypeOK, ServerTypeOK, Chains
<1> QED
  BY <1>1, <1>2, <1>3, <1>4, <1>5, <1>6, <1>7, <1>8, <1>9, <1>10, <1>11, <1>12, <1>13,
     <1>14, <1>15 DEF Next, Boot

(* Every variable of the nodes and of the name server keeps its type, and  *)
(* a node has a chain exactly from linking to its end.                     *)
THEOREM TypeCorrect == Spec => []TypeOK
<1>1. Init => TypeOK
  BY TypeInit
<1>2. TypeOK /\ [Next]_vars => TypeOK'
  BY TypeStep
<1> QED BY <1>1, <1>2, PTL DEF Spec

-----------------------------------------------------------------------------
(* One root and one network.                                               *)

(* Nodes that have asked the name server at least once, all of which are   *)
(* in its table while no statement fails.                                  *)
Inside ==
    wallets \cup {n \in Nodes : stage[n] \notin {"off", "discover"}}
            \cup {n \in Nodes : file[n] # None}

(* Who served a chain has a second host in the table, so that it is not    *)
(* told to be the root when it comes again.                                *)
Served == \A n \in Nodes : file[n] # None => \E m \in hosts : m # n

SameRoot == \A m, n \in Roots : m = n
SameGenesis ==
    \A m, n \in Nodes : \A g \in ChainsOf(m), h \in ChainsOf(n) : g = h

NetworkInv ==
    "statement" \notin mishaps =>
        Inside \subseteq hosts /\ Served /\ SameRoot /\ SameGenesis

LEMMA NetworkInit == Init => NetworkInv
<1> SUFFICES ASSUME Init PROVE NetworkInv
  OBVIOUS
<1>1. Inside = {} /\ Roots = {}
  BY DEF Init, ServerInit, Inside, Roots
<1>2. \A n \in Nodes : ChainsOf(n) = {} /\ file[n] = None
  BY BootstrapAssumption DEF Init, ChainsOf
<1> QED BY <1>1, <1>2 DEF NetworkInv, Served, SameRoot, SameGenesis

(* A step that makes no new root and no new chain, and enters nobody who   *)
(* is not in the table, keeps the invariant.                               *)
LEMMA Kept ==
    ASSUME NetworkInv, "statement" \notin mishaps, hosts' = hosts,
           Inside' \subseteq hosts, Roots' \subseteq Roots, Served',
           \A m \in Nodes : \A g \in ChainsOf(m)' : \E k \in Nodes : g \in ChainsOf(k)
    PROVE  NetworkInv'
<1>1. SameRoot'
  BY DEF NetworkInv, SameRoot
<1>2. SameGenesis'
  BY DEF NetworkInv, SameGenesis
<1> QED BY <1>1, <1>2 DEF NetworkInv

(* The same when the chains only go away.                                  *)
LEMMA KeptFiles ==
    ASSUME NetworkInv, "statement" \notin mishaps, hosts' = hosts,
           Inside' \subseteq hosts, Roots' \subseteq Roots, file' = file,
           \A m \in Nodes : genesis'[m] \in {genesis[m], None}
    PROVE  NetworkInv'
<1>1. Served'
  BY DEF NetworkInv, Served
<1>2. \A m \in Nodes : \A g \in ChainsOf(m)' : \E k \in Nodes : g \in ChainsOf(k)
  BY BootstrapAssumption DEF ChainsOf
<1> QED BY <1>1, <1>2, Kept

(* The end of a process keeps the invariant.                               *)
LEMMA EndsNetwork ==
    ASSUME TypeOK, NetworkInv, NEW n \in Nodes, Ends(n)
    PROVE  NetworkInv'
<1> SUFFICES ASSUME "statement" \notin mishaps' PROVE NetworkInv'
  BY DEF NetworkInv
<1>1. "statement" \notin mishaps /\ UNCHANGED <<hosts, wallets, file>>
  BY DEF Ends, server, tables
<1>2. Inside' \subseteq Inside /\ Roots' \subseteq Roots
  BY <1>1 DEF Ends, TypeOK, Inside, Roots
<1>3. \A m \in Nodes : genesis'[m] \in {genesis[m], None}
  BY DEF Ends, TypeOK
<1>4. Inside \subseteq hosts
  BY <1>1 DEF NetworkInv
<1> QED BY <1>1, <1>2, <1>3, <1>4, KeptFiles

(* Who is told to be the root is alone, and nothing is left of others.     *)
LEMMA AloneIsRoot ==
    ASSUME TypeOK, NetworkInv, "statement" \notin mishaps,
           NEW n \in Nodes, Others(n) = {}
    PROVE  /\ Roots \subseteq {n} /\ hosts \subseteq {n} /\ Inside \subseteq {n}
           /\ \A m \in Nodes : file[m] = None
           /\ \A m \in Nodes \ {n} : genesis[m] = None
<1>1. hosts \subseteq {n}
  BY DEF Others
<1>2. Inside \subseteq {n} /\ Served
  BY <1>1 DEF NetworkInv
<1>3. \A m \in Nodes : file[m] = None
  BY <1>1, <1>2 DEF Served, Inside
<1>4. \A m \in Nodes \ {n} : stage[m] \in {"off", "discover"}
  BY <1>2 DEF Inside
<1>5. Roots \subseteq {n}
  BY <1>2, <1>4 DEF Roots, Inside
<1> QED BY <1>1, <1>2, <1>3, <1>4, <1>5 DEF TypeOK

(* An empty list, where no statement failed, means that nobody else is in  *)
(* the table.                                                              *)
LEMMA EmptyList ==
    ASSUME TypeOK, NEW n \in Nodes, {} \in FirstHosts(n)
    PROVE  Others(n) = {}
<1>1. IsFiniteSet(Others(n))
  <2>1. Others(n) \subseteq Nodes
    BY DEF Others, TypeOK, ServerTypeOK
  <2> QED BY <2>1, FS_Subset, NameServerAssumption
<1>2. Cardinality({}) = 0
  BY FS_EmptySet
<1>3. Cardinality(Others(n)) = 0
  BY <1>2, NameServerAssumption DEF FirstHosts
<1> QED BY <1>1, <1>3, FS_EmptySet

LEMMA NetworkStep == TypeOK /\ NetworkInv /\ [Next]_vars => NetworkInv'
<1> SUFFICES ASSUME TypeOK, NetworkInv, [Next]_vars, "statement" \notin mishaps'
             PROVE  NetworkInv'
  BY DEF NetworkInv
<1>1. CASE \E n \in Nodes : Start(n) \/ Retry(n) \/ NextRound(n)
  <2>1. UNCHANGED <<server, mishaps, genesis, file>>
    BY <1>1 DEF Start, Retry, NextRound
  <2>2. \A m \in Nodes : stage'[m] # stage[m] => stage'[m] = "discover"
    BY <1>1 DEF Start, Retry, NextRound, TypeOK
  <2>3. Inside' \subseteq Inside /\ Roots' \subseteq Roots
    BY <2>1, <2>2 DEF Inside, Roots, server, tables
  <2> QED BY <2>1, <2>3, KeptFiles DEF NetworkInv, server, tables
<1>2. CASE \E n \in Nodes : GiveUpServer(n) \/ GiveUpChain(n) \/ End(n)
  BY <1>2, EndsNetwork DEF GiveUpServer, GiveUpChain, End
<1>3. ASSUME NEW n \in Nodes, Discover(n) PROVE NetworkInv'
  <2>1. PICK list \in SUBSET Nodes :
          /\ SyncMe(n, list)
          /\ \/ /\ status' = "up" /\ list = {}
                /\ stage' = [stage EXCEPT ![n] = "notify"]
                /\ \E g \in Genesis :
                      /\ \A m \in Nodes : g \notin {genesis[m], file[m]}
                      /\ genesis' = [genesis EXCEPT ![n] = g]
                /\ pool' = [pool EXCEPT ![n] = TRUE]
                /\ UNCHANGED known
             \/ /\ status' = "down" \/ list # {}
                /\ stage' = [stage EXCEPT ![n] = "ask"]
                /\ known' = [known EXCEPT ![n] = IF status' = "up" THEN list ELSE {}]
                /\ UNCHANGED <<genesis, pool>>
    BY <1>3 DEF Discover
  <2>2. /\ list \in FirstHosts(n) /\ hosts' = hosts \cup {n}
        /\ UNCHANGED <<wallets, mishaps>>
    BY <2>1 DEF SyncMe, Register, Fails
  <2>3. file' = file
    BY <1>3 DEF Discover
  <2>4. Inside \subseteq hosts /\ Served /\ SameRoot /\ SameGenesis
    BY <2>2 DEF NetworkInv
  <2>5. Inside' \subseteq hosts' /\ Served'
    <3>1. \A m \in Nodes \ {n} : stage'[m] = stage[m]
      BY <2>1 DEF TypeOK
    <3>2. Inside' \subseteq Inside \cup {n}
      BY <2>2, <2>3, <3>1 DEF Inside
    <3> QED BY <2>2, <2>3, <2>4, <3>2 DEF Served
  <2>6. CASE list = {} /\ stage' = [stage EXCEPT ![n] = "notify"]
             /\ \E g \in Genesis : genesis' = [genesis EXCEPT ![n] = g]
    <3>1. Others(n) = {} /\ "statement" \notin mishaps
      BY <2>2, <2>6, EmptyList
    <3>2. PICK g \in Genesis : genesis' = [genesis EXCEPT ![n] = g]
      BY <2>6
    <3>3. /\ Roots \subseteq {n} /\ \A m \in Nodes : file[m] = None
          /\ \A m \in Nodes \ {n} : genesis[m] = None
      BY <3>1, AloneIsRoot
    <3>4. Roots' \subseteq {n}
      BY <2>2, <2>6, <3>3 DEF Roots, TypeOK
    <3>5. \A m \in Nodes : ChainsOf(m)' \subseteq {g}
      BY <2>3, <3>2, <3>3, BootstrapAssumption DEF ChainsOf, TypeOK
    <3> QED BY <2>5, <3>4, <3>5 DEF NetworkInv, SameRoot, SameGenesis
  <2>7. CASE stage' = [stage EXCEPT ![n] = "ask"] /\ UNCHANGED genesis
    <3>1. Roots' \subseteq Roots
      BY <2>2, <2>7 DEF Roots, TypeOK
    <3>2. SameRoot' /\ SameGenesis'
      BY <2>3, <2>4, <2>7, <3>1 DEF SameRoot, SameGenesis, ChainsOf
    <3> QED BY <2>5, <3>2 DEF NetworkInv
  <2> QED BY <2>1, <2>6, <2>7
<1>4. ASSUME NEW n \in Nodes, Notify(n) PROVE NetworkInv'
  <2>1. /\ stage[n] = "notify" /\ stage' = [stage EXCEPT ![n] = "up"]
        /\ wallets' = wallets \cup {n}
        /\ UNCHANGED <<hosts, mishaps, genesis, file>>
    BY <1>4 DEF Notify, ImRoot, Fails
  <2>2. Inside' \subseteq Inside /\ Roots' \subseteq Roots
    BY <2>1 DEF Inside, Roots, TypeOK
  <2> QED BY <2>1, <2>2, KeptFiles DEF NetworkInv
<1>5. ASSUME NEW n \in Nodes, AskRoot(n) PROVE NetworkInv'
  <2>1. /\ stage[n] = "ask" /\ stage' = [stage EXCEPT ![n] = "chain"]
        /\ UNCHANGED <<hosts, wallets, genesis, file>> /\ "statement" \notin mishaps
    BY <1>5 DEF AskRoot, WhosRoot, Fails, tables
  <2>2. Inside' \subseteq Inside /\ Roots' \subseteq Roots
    BY <2>1 DEF Inside, Roots, TypeOK
  <2> QED BY <2>1, <2>2, KeptFiles DEF NetworkInv
<1>6. ASSUME NEW n \in Nodes, NEW p \in Nodes, NobodyThere(n, p) PROVE NetworkInv'
  BY <1>6, KeptFiles DEF NobodyThere, NetworkInv, Inside, Roots, server, tables
<1>7. ASSUME NEW n \in Nodes, NEW p \in Nodes, PeerDies(n, p) PROVE NetworkInv'
  BY <1>7, EndsNetwork DEF PeerDies
<1>8. ASSUME NEW n \in Nodes, NEW p \in Nodes, SyncChain(n, p) PROVE NetworkInv'
  <2>1. /\ n # p /\ stage[n] = "chain" /\ stage[p] = "up"
        /\ UNCHANGED <<hosts, wallets, mishaps>>
    BY <1>8 DEF SyncChain, Asks, Up, TypeOK, server, tables
  <2>2. n \in hosts /\ p \in hosts /\ Inside \subseteq hosts /\ Served
    BY <2>1 DEF NetworkInv, Inside
  <2>3. /\ \A m \in Nodes \ {n} : stage'[m] = stage[m]
        /\ stage'[n] \in {"pool", "up"}
    BY <1>8 DEF SyncChain, TypeOK
  <2>4. file' = [file EXCEPT ![n] = None, ![p] = genesis[p]]
    BY <1>8 DEF SyncChain
  <2>5. Inside' \subseteq Inside \cup {n, p} /\ Roots' \subseteq Roots
    BY <2>1, <2>3, <2>4 DEF Inside, Roots, TypeOK
  <2>6. Served'
    BY <2>1, <2>2, <2>4 DEF Served, TypeOK
  <2>7. \A m \in Nodes : \A g \in ChainsOf(m)' : \E k \in Nodes : g \in ChainsOf(k)
    <3>1. PICK h \in Received(n, p) : genesis' = [genesis EXCEPT ![n] = h]
      BY <1>8 DEF SyncChain
    <3>2. h \in {file[n], genesis[p], Damaged}
      BY <3>1 DEF Received
    <3> QED BY <2>4, <3>1, <3>2, BootstrapAssumption DEF ChainsOf, TypeOK
  <2> QED BY <2>1, <2>2, <2>5, <2>6, <2>7, Kept
<1>9. ASSUME NEW n \in Nodes, NEW p \in Nodes, SyncChainFails(n, p) PROVE NetworkInv'
  <2>1. /\ n # p /\ stage[n] = "chain" /\ stage[p] = "up"
        /\ UNCHANGED <<hosts, wallets, mishaps, stage, genesis>>
    BY <1>9 DEF SyncChainFails, Asks, Up, TypeOK, server, tables
  <2>2. n \in hosts /\ p \in hosts /\ Inside \subseteq hosts /\ Served
    BY <2>1 DEF NetworkInv, Inside
  <2>3. CASE UNCHANGED file
    BY <2>1, <2>2, <2>3, KeptFiles DEF Inside, Roots
  <2>4. ASSUME NEW f \in {None, Damaged, file[n]},
               file' = [file EXCEPT ![n] = f, ![p] = genesis[p]],
               f = Damaged \/ f = None \/ file[n] # None
        PROVE  NetworkInv'
    <3>1. Inside' \subseteq Inside \cup {n, p} /\ Roots' \subseteq Roots
      BY <2>1, <2>4 DEF Inside, Roots, TypeOK
    <3>2. Served'
      BY <2>1, <2>2, <2>4 DEF Served, TypeOK
    <3>3. \A m \in Nodes : \A g \in ChainsOf(m)' : \E k \in Nodes : g \in ChainsOf(k)
      BY <2>1, <2>4, BootstrapAssumption DEF ChainsOf, TypeOK
    <3> QED BY <2>1, <2>2, <3>1, <3>2, <3>3, Kept
  <2> QED BY <1>9, <2>3, <2>4 DEF SyncChainFails
<1>10. ASSUME NEW n \in Nodes, \/ \E p \in Nodes : SyncPool(n, p)
                               \/ GiveUpPool(n)
       PROVE  NetworkInv'
  <2>1. UNCHANGED <<hosts, wallets, mishaps, genesis, file>>
    BY <1>10 DEF SyncPool, GiveUpPool, server, tables
  <2>2. /\ stage[n] = "pool"
        /\ stage' = stage \/ stage' = [stage EXCEPT ![n] = "up"]
    BY <1>10 DEF SyncPool, GiveUpPool
  <2>3. Inside' \subseteq Inside /\ Roots' \subseteq Roots
    BY <2>1, <2>2 DEF Inside, Roots, TypeOK
  <2> QED BY <2>1, <2>3, KeptFiles DEF NetworkInv
<1>11. ASSUME NEW n \in Nodes, NEW m \in Nodes, Announce(n, m) PROVE NetworkInv'
  <2>1. CASE Ends(m)
    BY <2>1, EndsNetwork
  <2>2. CASE UNCHANGED <<server, mishaps, stage, genesis, file>>
    BY <2>2, KeptFiles DEF NetworkInv, Inside, Roots, server, tables
  <2> QED BY <1>11, <2>1, <2>2 DEF Announce
<1>12. CASE Server \/ UNCHANGED vars
  <2>1. UNCHANGED <<hosts, wallets, stage, genesis, file>> /\ "statement" \notin mishaps
    BY <1>12 DEF Server, ServerCrash, ServerRestart, node, vars, server, tables
  <2> QED BY <2>1, KeptFiles DEF NetworkInv, Inside, Roots
<1> QED
  BY <1>1, <1>2, <1>3, <1>4, <1>5, <1>6, <1>7, <1>8, <1>9, <1>10, <1>11, <1>12
  DEF Next, Boot

LEMMA Network == Spec => [](TypeOK /\ NetworkInv)
<1>1. Init => TypeOK /\ NetworkInv
  BY TypeInit, NetworkInit
<1>2. (TypeOK /\ NetworkInv) /\ [Next]_vars => (TypeOK /\ NetworkInv)'
  BY TypeStep, NetworkStep
<1> QED BY <1>1, <1>2, PTL DEF Spec

(* The addresses that are told come from the table, whose rows stay.       *)
ToldInv == Told \cap Nodes \subseteq wallets

LEMMA ToldStep == TypeOK /\ ToldInv /\ [Next]_vars => ToldInv'
<1> SUFFICES ASSUME TypeOK, ToldInv, [Next]_vars PROVE ToldInv'
  OBVIOUS
<1> USE BootstrapAssumption, NameServerAssumption
<1>1. ASSUME wallets \subseteq wallets', rootAnswer' \in wallets \cup {rootAnswer, None},
             \A m \in Nodes : rootAddress'[m] \in {rootAddress[m], rootAnswer', None, Garbage}
      PROVE  ToldInv'
  BY <1>1 DEF ToldInv, Told
<1>2. ASSUME NEW n \in Nodes, Discover(n) \/ Notify(n) PROVE ToldInv'
  BY <1>1, <1>2 DEF Discover, Notify, SyncMe, ImRoot
<1>3. ASSUME NEW n \in Nodes, AskRoot(n) PROVE ToldInv'
  <2>1. wallets' = wallets /\ rootAnswer' \in wallets \cup {rootAnswer}
    BY <1>3 DEF AskRoot, WhosRoot, tables
  <2>2. \A m \in Nodes : rootAddress'[m] \in {rootAddress[m], rootAnswer', None, Garbage}
    BY <1>3 DEF AskRoot, Heard, TypeOK
  <2> QED BY <1>1, <2>1, <2>2
<1>4. ASSUME NEW n \in Nodes, Ends(n) PROVE ToldInv'
  BY <1>1, <1>4 DEF Ends, TypeOK, server, tables, process
<1>5. CASE UNCHANGED <<server, rootAddress>>
  BY <1>1, <1>5 DEF server, tables, process
<1>6. ASSUME NEW n \in Nodes,
             \/ Start(n) \/ Retry(n) \/ NextRound(n) \/ GiveUpPool(n)
             \/ \E p \in Nodes : \/ NobodyThere(n, p) \/ SyncChain(n, p)
                               \/ SyncChainFails(n, p) \/ SyncPool(n, p)
      PROVE  ToldInv'
  BY <1>5, <1>6 DEF Start, Retry, NextRound, GiveUpPool, NobodyThere, SyncChain,
                    SyncChainFails, SyncPool
<1>7. ASSUME NEW n \in Nodes, NEW m \in Nodes, Announce(n, m) PROVE ToldInv'
  BY <1>4, <1>5, <1>7 DEF Announce
<1>8. CASE Server
  BY <1>1, <1>8 DEF Server, ServerCrash, ServerRestart, node, tables
<1>9. CASE UNCHANGED vars
  BY <1>5, <1>9 DEF vars, node
<1> QED
  BY <1>2, <1>3, <1>4, <1>6, <1>7, <1>8, <1>9
  DEF Next, Boot, GiveUpServer, GiveUpChain, End, PeerDies

LEMMA AddressesAreTold == Spec => [](TypeOK /\ ToldInv)
<1>1. Init => TypeOK /\ ToldInv
  BY TypeInit, NameServerAssumption DEF Init, ServerInit, ToldInv, Told
<1>2. (TypeOK /\ ToldInv) /\ [Next]_vars => (TypeOK /\ ToldInv)'
  BY TypeStep, ToldStep
<1> QED BY <1>1, <1>2, PTL DEF Spec

(* While no SQL statement fails there is one root at most, however many    *)
(* nodes ask the name server, end and ask again, and nobody is told the    *)
(* address of another one.                                                 *)
THEOREM RootIsAlone == Spec => []OneRoot
<1>1. NetworkInv /\ ToldInv => OneRoot
  BY DEF NetworkInv, SameRoot, ToldInv, OneRoot
<1> QED BY <1>1, Network, AddressesAreTold, PTL

(* While no SQL statement fails, all chains have the same genesis block,   *)
(* those of running nodes and those their files would bring back.          *)
THEOREM NetworkIsOne == Spec => []OneNetwork
<1>1. TypeOK /\ NetworkInv => OneNetwork
  BY DEF NetworkInv, SameGenesis, OneNetwork
<1> QED BY <1>1, Network, PTL

-----------------------------------------------------------------------------
(* Queries.                                                                *)

(* Whoever asks for the root has sent SYNC_ME before, whose tail is in the *)
(* buffer as long as the name server was not restarted.                    *)
QueryInv ==
    "restart" \notin mishaps =>
        /\ "query" \notin mishaps
        /\ \A n \in Nodes : stage[n] = "ask" => buffer = "long"

LEMMA QueryStep == TypeOK /\ QueryInv /\ [Next]_vars => QueryInv'
<1> SUFFICES ASSUME TypeOK, QueryInv, [Next]_vars, "restart" \notin mishaps'
             PROVE  QueryInv'
  BY DEF QueryInv
<1>1. ASSUME mishaps' \in {mishaps, mishaps \cup {"end"}}, UNCHANGED buffer,
             \A m \in Nodes : stage'[m] = "ask" => stage[m] = "ask"
      PROVE  QueryInv'
  BY <1>1 DEF QueryInv
<1>2. ASSUME NEW n \in Nodes,
             \/ Start(n) \/ Retry(n) \/ NextRound(n) \/ GiveUpPool(n)
             \/ \E p \in Nodes : \/ NobodyThere(n, p) \/ SyncChain(n, p)
                               \/ SyncChainFails(n, p) \/ SyncPool(n, p)
      PROVE  QueryInv'
  <2>1. UNCHANGED <<mishaps, buffer>>
    BY <1>2 DEF Start, Retry, NextRound, GiveUpPool, NobodyThere, SyncChain,
                SyncChainFails, SyncPool, server, process
  <2>2. stage' = stage \/ \E s \in {"discover", "pool", "up"} : stage' = [stage EXCEPT ![n] = s]
    BY <1>2 DEF Start, Retry, NextRound, GiveUpPool, NobodyThere, SyncChain,
                SyncChainFails, SyncPool
  <2> QED BY <1>1, <2>1, <2>2 DEF TypeOK
<1>3. ASSUME NEW n \in Nodes, Ends(n) PROVE QueryInv'
  BY <1>1, <1>3 DEF Ends, TypeOK, server, process
<1>4. ASSUME NEW n \in Nodes, Discover(n) \/ Notify(n) PROVE QueryInv'
  <2>1. buffer' = "long" /\ mishaps' \subseteq mishaps \cup {"statement"}
    BY <1>4 DEF Discover, Notify, SyncMe, ImRoot, Fails
  <2> QED BY <2>1, <1>4 DEF QueryInv, Discover, Notify, SyncMe, ImRoot, Fails
<1>5. ASSUME NEW n \in Nodes, AskRoot(n) PROVE QueryInv'
  <2>1. stage[n] = "ask" /\ WhosRoot /\ stage' = [stage EXCEPT ![n] = "chain"]
    BY <1>5 DEF AskRoot
  <2>2. "restart" \notin mishaps
    BY <2>1 DEF WhosRoot, Fails
  <2>3. Parses
    BY <2>1, <2>2 DEF QueryInv, Parses
  <2>4. mishaps' \subseteq mishaps \cup {"statement"} /\ UNCHANGED buffer
    BY <2>1, <2>3 DEF WhosRoot, Fails
  <2> QED BY <2>1, <2>2, <2>4 DEF QueryInv, TypeOK
<1>6. ASSUME NEW n \in Nodes, NEW m \in Nodes, Announce(n, m) PROVE QueryInv'
  <2>1. CASE UNCHANGED <<server, mishaps, stage>>
    BY <1>1, <2>1 DEF server, process
  <2> QED BY <1>3, <1>6, <2>1 DEF Announce
<1>7. CASE Server \/ UNCHANGED vars
  <2>1. UNCHANGED <<stage, mishaps, buffer>>
    BY <1>7 DEF Server, ServerCrash, ServerRestart, node, vars, server, process
  <2> QED BY <1>1, <2>1
<1> QED
  BY <1>2, <1>3, <1>4, <1>5, <1>6, <1>7
  DEF Next, Boot, GiveUpServer, GiveUpChain, End, PeerDies

(* Until it is restarted, the name server finds a body in every query for  *)
(* the root, and does not die of one.                                      *)
THEOREM QueriesHaveBodies == Spec => []QueriesAreParsed
<1>1. Init => TypeOK /\ QueryInv
  BY TypeInit DEF Init, ServerInit, QueryInv
<1>2. (TypeOK /\ QueryInv) /\ [Next]_vars => (TypeOK /\ QueryInv)'
  BY TypeStep, QueryStep
<1>3. TypeOK /\ QueryInv => QueriesAreParsed
  BY DEF QueryInv, QueriesAreParsed
<1> QED BY <1>1, <1>2, <1>3, PTL DEF Spec
-----------------------------------------------------------------------------
(* What the root passes on.                                                *)

Undisturbed == mishaps \cap {"end", "statement"} = {}

(* A node that has not been told of hosts knows none, so that no host is   *)
(* forgotten when its list comes.                                          *)
ReachInv ==
    Undisturbed => /\ \A n \in Nodes : stage[n] \in {"off", "discover"} => known[n] = {}
                   /\ Linked \subseteq Reached

(* What is passed on reaches no less when more nodes run and know of more, *)
(* and it reaches whoever is known to a node that it reaches.              *)
LEMMA ReachGrows ==
    ASSUME Linked \subseteq Reached, Up \cap Roots \subseteq (Up \cap Roots)',
           \A n \in Nodes : known[n] \subseteq known'[n],
           \A n \in Linked' \ Linked :
              n \in (Up \cap Roots)' \/ \E p \in Linked : n \in known'[p]
    PROVE  Linked' \subseteq Reached'
<1> SUFFICES ASSUME NEW n \in Linked', NEW S \in SUBSET Nodes, PassedOn(S)' PROVE n \in S
  BY DEF Reached, Linked
<1>1. PassedOn(S)
  BY DEF PassedOn
<1>2. Linked \subseteq S
  BY <1>1 DEF Reached
<1> QED BY <1>2 DEF PassedOn

LEMMA ReachStep == TypeOK /\ ReachInv /\ [Next]_vars => ReachInv'
<1> SUFFICES ASSUME TypeOK, ReachInv, [Next]_vars, Undisturbed' PROVE ReachInv'
  BY DEF ReachInv
<1>1. ASSUME Undisturbed, UNCHANGED <<stage, wallets>>,
             \A n \in Nodes : known[n] \subseteq known'[n],
             \A n \in Nodes : stage[n] \in {"off", "discover"} => known'[n] = known[n]
      PROVE  ReachInv'
  <2>1. Up' = Up /\ Roots' = Roots /\ Linked' = Linked
    BY <1>1 DEF Up, Roots, Linked
  <2>2. Linked' \subseteq Reached'
    BY <1>1, <2>1, ReachGrows DEF ReachInv
  <2> QED BY <1>1, <2>2 DEF ReachInv
<1>2. ASSUME NEW n \in Nodes, Ends(n) PROVE FALSE
  BY <1>2 DEF Ends, Undisturbed
<1>3. ASSUME NEW n \in Nodes, Start(n) \/ Retry(n) \/ NextRound(n) \/ AskRoot(n) PROVE ReachInv'
  <2>1. Undisturbed /\ UNCHANGED <<known, wallets>>
    BY <1>3 DEF Start, Retry, NextRound, AskRoot, WhosRoot, Fails, Undisturbed, server, tables
  <2>2. \/ UNCHANGED stage
        \/ stage[n] = "off" /\ stage' = [stage EXCEPT ![n] = "discover"]
        \/ stage[n] = "ask" /\ stage' = [stage EXCEPT ![n] = "chain"]
    BY <1>3 DEF Start, Retry, NextRound, AskRoot
  <2>3. Up' = Up /\ Roots' = Roots /\ Linked' = Linked
    BY <2>1, <2>2 DEF Up, Roots, Linked, TypeOK
  <2>4. Linked' \subseteq Reached'
    BY <2>1, <2>3, ReachGrows DEF ReachInv
  <2> QED BY <2>1, <2>2, <2>4 DEF ReachInv, TypeOK
<1>4. ASSUME NEW n \in Nodes, Discover(n) PROVE ReachInv'
  <2>1. /\ stage[n] = "discover" /\ wallets' = wallets /\ Undisturbed
        /\ \E s \in {"notify", "ask"} : stage' = [stage EXCEPT ![n] = s]
        /\ known' = known \/ \E list \in SUBSET Nodes : known' = [known EXCEPT ![n] = list]
    BY <1>4 DEF Discover, SyncMe, Fails, Undisturbed
  <2>2. known[n] = {}
    BY <2>1 DEF ReachInv
  <2>3. /\ Up' = Up /\ Linked' = Linked /\ Up \cap Roots \subseteq Roots'
        /\ \A m \in Nodes : known[m] \subseteq known'[m]
        /\ \A m \in Nodes \ {n} : known'[m] = known[m] /\ stage'[m] = stage[m]
    BY <2>1, <2>2 DEF Up, Roots, Linked, TypeOK
  <2>4. Linked' \subseteq Reached'
    BY <2>1, <2>3, ReachGrows DEF ReachInv
  <2> QED BY <2>1, <2>3, <2>4 DEF ReachInv, TypeOK
<1>5. ASSUME NEW n \in Nodes, Notify(n) PROVE ReachInv'
  <2>1. /\ stage' = [stage EXCEPT ![n] = "up"] /\ stage[n] = "notify" /\ Undisturbed
        /\ known' = known /\ wallets' = wallets \cup {n}
    BY <1>5 DEF Notify, ImRoot, Fails, Undisturbed
  <2>2. /\ Up \cap Roots \subseteq (Up \cap Roots)' /\ n \in (Up \cap Roots)'
        /\ Linked' \ Linked \subseteq {n}
    BY <2>1 DEF Up, Roots, Linked, TypeOK, ServerTypeOK
  <2>3. Linked' \subseteq Reached'
    BY <2>1, <2>2, ReachGrows DEF ReachInv
  <2> QED BY <2>1, <2>3 DEF ReachInv, TypeOK
<1>6. ASSUME NEW n \in Nodes, NEW p \in Nodes, NobodyThere(n, p) \/ SyncChainFails(n, p)
      PROVE  ReachInv'
  <2>1. UNCHANGED <<server, mishaps, stage>> /\ (known' = known \/ (p \in Up /\ Meets(n, p)))
    BY <1>6 DEF NobodyThere, SyncChainFails
  <2> QED BY <1>1, <2>1 DEF Meets, Undisturbed, Up, TypeOK, server, tables
<1>7. ASSUME NEW n \in Nodes, NEW p \in Nodes, SyncChain(n, p) \/ SyncPool(n, p)
      PROVE  ReachInv'
  <2>1. /\ UNCHANGED <<server, mishaps>> /\ p \in Up /\ Meets(n, p)
        /\ stage[n] \in {"chain", "pool"} /\ \A m \in Nodes \ {n} : stage'[m] = stage[m]
        /\ stage'[n] \in {"pool", "up"}
    BY <1>7 DEF SyncChain, SyncPool, Asked, TypeOK
  <2>2. Undisturbed /\ wallets' = wallets /\ p \in Linked /\ p # n
    BY <2>1 DEF Undisturbed, server, tables, Up, Linked
  <2>3. /\ Up \cap Roots \subseteq (Up \cap Roots)' /\ Linked' \ Linked \subseteq {n}
        /\ \A m \in Nodes : known[m] \subseteq known'[m] /\ n \in known'[p]
        /\ \A m \in Nodes \ {p} : known'[m] = known[m]
    BY <2>1, <2>2 DEF Up, Roots, Linked, Meets, TypeOK
  <2>4. Linked' \subseteq Reached'
    BY <2>2, <2>3, ReachGrows DEF ReachInv
  <2> QED BY <2>1, <2>2, <2>3, <2>4 DEF ReachInv, Up
<1>8. ASSUME NEW n \in Nodes, GiveUpPool(n) PROVE ReachInv'
  <2>1. /\ UNCHANGED <<server, mishaps, known>> /\ stage[n] = "pool"
        /\ stage' = [stage EXCEPT ![n] = "up"]
    BY <1>8 DEF GiveUpPool, RoundOver
  <2>2. Undisturbed /\ wallets' = wallets
    BY <2>1 DEF Undisturbed, server, tables
  <2>3. Up \cap Roots \subseteq (Up \cap Roots)' /\ Linked' = Linked
    BY <2>1, <2>2 DEF Up, Roots, Linked, TypeOK
  <2>4. Linked' \subseteq Reached'
    BY <2>1, <2>2, <2>3, ReachGrows DEF ReachInv
  <2> QED BY <2>1, <2>2, <2>4 DEF ReachInv, TypeOK
<1>9. ASSUME NEW n \in Nodes, NEW m \in Nodes, Announce(n, m) PROVE ReachInv'
  <2>1. UNCHANGED <<server, mishaps, stage>> /\ m \in Up /\ Meets(n, m)
    BY <1>2, <1>9 DEF Announce
  <2> QED BY <1>1, <2>1 DEF Meets, Undisturbed, Up, TypeOK, server, tables
<1>10. CASE Server \/ UNCHANGED vars
  <2>1. Undisturbed /\ UNCHANGED <<stage, wallets, known>>
    BY <1>10 DEF Server, ServerCrash, ServerRestart, Undisturbed, node, vars, server, tables
  <2> QED BY <1>1, <2>1
<1> QED
  BY <1>2, <1>3, <1>4, <1>5, <1>6, <1>7, <1>8, <1>9, <1>10
  DEF Next, Boot, GiveUpServer, GiveUpChain, End, PeerDies

(* NodeServer::handler adds whoever sends it a packet: as long as no node  *)
(* ends and no statement fails, that is enough for a block of the root to  *)
(* reach every node that has linked, whatever short list it linked by.     *)
THEOREM RootsReachLinked == Spec => []RootsReachAll
<1>1. Init => TypeOK /\ ReachInv
  <2> SUFFICES ASSUME Init PROVE ReachInv
    BY TypeInit
  <2>1. Linked = {} /\ \A n \in Nodes : known[n] = {}
    BY DEF Init, Linked
  <2> QED BY <2>1 DEF ReachInv
<1>2. (TypeOK /\ ReachInv) /\ [Next]_vars => (TypeOK /\ ReachInv)'
  BY TypeStep, ReachStep
<1>3. ReachInv => RootsReachAll
  BY DEF ReachInv, Undisturbed, RootsReachAll
<1> QED BY <1>1, <1>2, <1>3, PTL DEF Spec
=============================================================================
