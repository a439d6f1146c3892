------------------------------ MODULE Bootstrap ------------------------------
(***************************************************************************)
(* Nodes that start, find the network through the name server, become its  *)
(* root or copy the chain and the pool of a peer, run, and end.  Node is   *)
(* about what happens inside of one of them once it runs.                  *)
(*                                                                         *)
(* A node's server answers from the beginning of Node::start, but it is    *)
(* given the chain, the pool and the known hosts only at the end of it: a  *)
(* packet that arrives in between is handled through null pointers and     *)
(* ends the process.                                                       *)
(*                                                                         *)
(* A chain is known here by its genesis block alone.  What a transfer can  *)
(* do to a chain is taken from ChainTransfer.                              *)
(***************************************************************************)
EXTENDS NameServer

CONSTANTS
    MaxAttempts,   \* MAX_ATTEMPTS, requests to the name server
    MaxTries,      \* rounds over the known hosts in syncChains and syncPool
    LongList,      \* hosts whose list is longer than an address
    Genesis,       \* genesis blocks
    Damaged,       \* a chain without its beginning, or a part of one
    Garbage        \* a string that is no address

ASSUME BootstrapAssumption ==
    /\ MaxAttempts \in Nat \ {0} /\ MaxTries \in Nat \ {0} /\ LongList \in Nat \ {0}
    /\ Damaged # None /\ Damaged \notin Genesis /\ None \notin Genesis
    /\ Garbage \notin Nodes /\ Garbage # None

VARIABLES
    stage,        \* how far Node::start has come, "off" where no node runs
    tries,        \* attempts at a request, or rounds
    known,        \* known_hosts
    asked,        \* known hosts that were asked in this round
    rootAddress,  \* root_address
    genesis,      \* blockchain
    pool,         \* whether transactionPool was set
    file          \* chain.txt in the directory the node runs in

node == <<stage, tries, known, asked, rootAddress, genesis, pool, file>>
vars == <<server, mishaps, node>>

Booting == {n \in Nodes : stage[n] \notin {"off", "up"}}
Up == {n \in Nodes : stage[n] = "up"}
Pooled == {n \in Nodes : pool[n]}

Init ==
    /\ ServerInit
    /\ stage = [n \in Nodes |-> "off"]
    /\ tries = [n \in Nodes |-> 0]
    /\ known = [n \in Nodes |-> {}]
    /\ asked = [n \in Nodes |-> {}]
    /\ rootAddress = [n \in Nodes |-> None]
    /\ genesis = [n \in Nodes |-> None]
    /\ pool = [n \in Nodes |-> FALSE]
    /\ file = [n \in Nodes |-> None]

-----------------------------------------------------------------------------
Start(n) ==
    /\ stage[n] = "off"
    /\ stage' = [stage EXCEPT ![n] = "discover"]
    /\ UNCHANGED <<server, mishaps, tries, known, asked, rootAddress, genesis, pool,
                   file>>

(* The process of a node ends; its files stay.                             *)
Ends(n) ==
    /\ stage' = [stage EXCEPT ![n] = "off"]
    /\ tries' = [tries EXCEPT ![n] = 0]
    /\ known' = [known EXCEPT ![n] = {}]
    /\ rootAddress' = [rootAddress EXCEPT ![n] = None]
    /\ genesis' = [genesis EXCEPT ![n] = None]
    /\ pool' = [pool EXCEPT ![n] = FALSE]
    /\ mishaps' = mishaps \cup {"end"}
    /\ UNCHANGED <<server, file>>

End(n) ==
    /\ stage[n] # "off"
    /\ asked' = [asked EXCEPT ![n] = {}]
    /\ Ends(n)

(* The request of a stage reaches no name server.  After the last attempt  *)
(* the function returns -1, so the second name server is never tried.      *)
Refused(n) ==
    /\ stage[n] \in {"discover", "notify", "ask"}
    /\ status = "down"

Retry(n) ==
    /\ Refused(n)
    /\ tries[n] + 1 < MaxAttempts
    /\ tries' = [tries EXCEPT ![n] = @ + 1]
    /\ UNCHANGED <<server, mishaps, stage, known, asked, rootAddress, genesis, pool,
                   file>>

GiveUpServer(n) ==
    /\ Refused(n)
    /\ tries[n] + 1 >= MaxAttempts
    /\ asked' = [asked EXCEPT ![n] = {}]
    /\ Ends(n)

(* discover_peers and the reading of its answer.  An answer the server did *)
(* not live to send is empty, and names no hosts.                          *)
Discover(n) ==
    /\ stage[n] = "discover"
    /\ \E list \in SUBSET Nodes :
          /\ SyncMe(n, list)
          /\ \/ /\ status' = "up" /\ list = {}
                /\ stage' = [stage EXCEPT ![n] = "notify"]
                /\ \E g \in Genesis :
                      /\ \A m \in Nodes : g \notin {genesis[m], file[m]}
                      /\ genesis' = [genesis EXCEPT ![n] = g]
                /\ pool' = [pool EXCEPT ![n] = TRUE]
                /\ UNCHANGED known
             \/ /\ status' = "down" \/ list # {}
                /\ stage' = [stage EXCEPT ![n] = "ask"]
                /\ known' = [known EXCEPT ![n] = IF status' = "up" THEN list ELSE {}]
                /\ UNCHANGED <<genesis, pool>>
    /\ tries' = [tries EXCEPT ![n] = 0]
    /\ UNCHANGED <<asked, rootAddress, file>>

Notify(n) ==
    /\ stage[n] = "notify"
    /\ ImRoot(n)
    /\ stage' = [stage EXCEPT ![n] = "up"]
    /\ tries' = [tries EXCEPT ![n] = 0]
    /\ UNCHANGED <<known, asked, rootAddress, genesis, pool, file>>

(* What the response buffer holds after WHOS_ROOT.  It is not cleared      *)
(* either: after an empty answer it still holds the list of hosts, and an  *)
(* address overwrites only the beginning of a long list.                   *)
Heard(n) ==
    IF status' = "up" /\ rootAnswer' # None /\ Cardinality(known[n]) < LongList
    THEN rootAnswer'
    ELSE IF known[n] = {} THEN None ELSE Garbage

AskRoot(n) ==
    /\ stage[n] = "ask"
    /\ WhosRoot
    /\ rootAddress' = [rootAddress EXCEPT ![n] = Heard(n)]
    /\ stage' = [stage EXCEPT ![n] = "chain"]
    /\ tries' = [tries EXCEPT ![n] = 0]
    /\ UNCHANGED <<known, asked, genesis, pool, file>>

-----------------------------------------------------------------------------
(* syncChains and syncPool.                                                *)

(* The next known host of the round.                                       *)
Asks(n, p) == p \in known[n] \ asked[n]
Asked(n, p) == asked' = [asked EXCEPT ![n] = @ \cup {p}]

(* A slip: the server answers without adding the host.                     *)
MeetsNobody(n, p) == UNCHANGED known

(* The server of a peer adds a host it does not know.                      *)
Meets(n, p) == known' = [known EXCEPT ![p] = @ \cup {n}]

NobodyThere(n, p) ==
    /\ stage[n] \in {"chain", "pool"}
    /\ Asks(n, p)
    /\ stage[p] = "off"
    /\ Asked(n, p)
    /\ UNCHANGED <<server, mishaps, stage, tries, known, rootAddress, genesis, pool,
                   file>>

(* The peer has not finished its own Node::start, or is asked for a pool   *)
(* it does not have.                                                       *)
PeerDies(n, p) ==
    /\ stage[n] \in {"chain", "pool"}
    /\ Asks(n, p)
    /\ \/ p \in Booting \ {n}
       \/ stage[n] = "pool" /\ p \in Up \ Pooled
    /\ asked' = [asked EXCEPT ![n] = @ \cup {p}, ![p] = {}]
    /\ Ends(p)

(* What is received is appended to the file of a chain the node served in  *)
(* an earlier life, so that the chain begins with the old one.  Without    *)
(* such a file the beginning of the chain may be lost.                     *)
Received(n, p) == IF file[n] # None THEN {file[n]} ELSE {genesis[p], Damaged}

(* The peer writes its chain to a file of its own, sends it, and the node  *)
(* reads and removes its file.  isPoolLinked was never initialised: the    *)
(* pool may be taken for linked.                                           *)
SyncChain(n, p) ==
    /\ stage[n] = "chain"
    /\ Asks(n, p)
    /\ p \in Up
    /\ \E g \in Received(n, p) : genesis' = [genesis EXCEPT ![n] = g]
    /\ file' = [file EXCEPT ![n] = None, ![p] = genesis[p]]
    /\ \E s \in {"pool", "up"} : stage' = [stage EXCEPT ![n] = s]
    /\ tries' = [tries EXCEPT ![n] = 0]
    /\ asked' = [asked EXCEPT ![n] = {}]
    /\ Meets(n, p)
    /\ UNCHANGED <<server, mishaps, rootAddress, pool>>

(* The transfer is not begun, or it is cut and the received part stays in  *)
(* the file, or nothing that could be parsed arrives.  An empty chain ends *)
(* the round at once.                                                      *)
SyncChainFails(n, p) ==
    /\ stage[n] = "chain"
    /\ Asks(n, p)
    /\ p \in Up
    /\ \/ UNCHANGED file
       \/ \E f \in {None, IF file[n] = None THEN Damaged ELSE file[n]} :
             file' = [file EXCEPT ![n] = f, ![p] = genesis[p]]
    /\ \E a \in {known[n], asked[n] \cup {p}} : asked' = [asked EXCEPT ![n] = a]
    /\ Meets(n, p)
    /\ UNCHANGED <<server, mishaps, stage, tries, rootAddress, genesis, pool>>

SyncPool(n, p) ==
    /\ stage[n] = "pool"
    /\ Asks(n, p)
    /\ p \in Up \cap Pooled
    /\ \/ /\ stage' = [stage EXCEPT ![n] = "up"]
          /\ pool' = [pool EXCEPT ![n] = TRUE]
          /\ tries' = [tries EXCEPT ![n] = 0]
          /\ asked' = [asked EXCEPT ![n] = {}]
       \/ Asked(n, p) /\ UNCHANGED <<stage, pool, tries>>
    /\ Meets(n, p)
    /\ UNCHANGED <<server, mishaps, rootAddress, genesis, file>>

(* A round over the known hosts brought nothing.                           *)
RoundOver(n) == stage[n] \in {"chain", "pool"} /\ known[n] \subseteq asked[n]

(* A slip: the rounds are not counted.                                     *)
NextRoundUncounted(n) ==
    /\ RoundOver(n)
    /\ tries[n] + 1 < MaxTries
    /\ asked' = [asked EXCEPT ![n] = {}]
    /\ UNCHANGED <<server, mishaps, tries, stage, known, rootAddress, genesis, pool, file>>

NextRound(n) ==
    /\ RoundOver(n)
    /\ tries[n] + 1 < MaxTries
    /\ tries' = [tries EXCEPT ![n] = @ + 1]
    /\ asked' = [asked EXCEPT ![n] = {}]
    /\ UNCHANGED <<server, mishaps, stage, known, rootAddress, genesis, pool, file>>

GiveUpChain(n) ==
    /\ RoundOver(n) /\ stage[n] = "chain"
    /\ tries[n] + 1 >= MaxTries
    /\ asked' = [asked EXCEPT ![n] = {}]
    /\ Ends(n)

GiveUpPool(n) ==
    /\ RoundOver(n) /\ stage[n] = "pool"
    /\ tries[n] + 1 >= MaxTries
    /\ stage' = [stage EXCEPT ![n] = "up"]
    /\ pool' = [pool EXCEPT ![n] = TRUE]
    /\ tries' = [tries EXCEPT ![n] = 0]
    /\ asked' = [asked EXCEPT ![n] = {}]
    /\ UNCHANGED <<server, mishaps, known, rootAddress, genesis, file>>

-----------------------------------------------------------------------------
(* A running node sends a block to a host it knows, which adds the sender. *)
(* A host that cannot handle the packet dies of it.                        *)
Announce(n, m) ==
    /\ n \in Up /\ m \in known[n]
    /\ \/ /\ m \in Up
          /\ Meets(n, m)
          /\ UNCHANGED <<server, mishaps, stage, tries, asked, rootAddress, genesis,
                         pool, file>>
       \/ /\ m \in Booting \/ m \in Up \ Pooled
          /\ asked' = [asked EXCEPT ![m] = {}]
          /\ Ends(m)

-----------------------------------------------------------------------------
Boot(n) ==
    \/ Retry(n) \/ GiveUpServer(n)
    \/ Discover(n) \/ Notify(n) \/ AskRoot(n)
    \/ \E p \in Nodes :
          \/ NobodyThere(n, p) \/ PeerDies(n, p)
          \/ SyncChain(n, p) \/ SyncChainFails(n, p) \/ SyncPool(n, p)
    \/ NextRound(n) \/ GiveUpChain(n) \/ GiveUpPool(n)

Server == (ServerCrash \/ ServerRestart) /\ UNCHANGED node

Next ==
    \/ \E n \in Nodes : Start(n) \/ Boot(n) \/ End(n)
    \/ \E n, m \in Nodes : Announce(n, m)
    \/ Server

Spec == Init /\ [][Next]_vars

(* Node::start has no wait without an end: a request is refused or         *)
(* answered, and rounds and attempts are counted.                          *)
FairSpec == Spec /\ \A n \in Nodes : WF_vars(Boot(n))

-----------------------------------------------------------------------------
(* Properties.                                                             *)

Chains == Genesis \cup {None, Damaged}

(* Every variable has its type; a node has a chain once it has linked, and *)
(* never counts itself among its hosts.                                    *)
TypeOK ==
    /\ ServerTypeOK
    /\ stage \in [Nodes -> {"off", "discover", "notify", "ask", "chain", "pool", "up"}]
    /\ tries \in [Nodes -> 0 .. MaxAttempts + MaxTries]
    /\ known \in [Nodes -> SUBSET Nodes]
    /\ asked \in [Nodes -> SUBSET Nodes]
    /\ rootAddress \in [Nodes -> Nodes \cup {None, Garbage}]
    /\ genesis \in [Nodes -> Chains] /\ file \in [Nodes -> Chains]
    /\ pool \in [Nodes -> BOOLEAN]
    /\ \A n \in Nodes : n \notin known[n]
    /\ \A n \in Nodes : genesis[n] # None <=> stage[n] \in {"notify", "pool", "up"}

(* While no SQL statement fails, one node at most is the root, whatever    *)
(* nodes and the name server do in between: end, restart, ask again.  An   *)
(* address that somebody takes for the root's is its.                      *)
Roots == wallets \cup {n \in Nodes : stage[n] = "notify"}
Told == {rootAnswer} \cup {rootAddress[n] : n \in Nodes}
OneRoot ==
    "statement" \notin mishaps =>
        /\ \A m, n \in Roots : m = n
        /\ Told \cap Nodes \subseteq wallets

(* There is one network: all chains, those that run and those left in      *)
(* files, begin with the same genesis block, or have lost their beginning. *)
ChainsOf(n) == {genesis[n], file[n]} \cap Genesis
OneNetwork ==
    "statement" \notin mishaps =>
        \A m, n \in Nodes : \A g \in ChainsOf(m), h \in ChainsOf(n) : g = h

(* The name server dies of a query only after a restart: until then, the   *)
(* SYNC_ME of whoever asks for the root is in the buffer.                  *)
QueriesAreParsed == "restart" \notin mishaps => "query" \notin mishaps

(* As long as no node ends and no statement fails, a block of the root     *)
(* that everybody who gets it passed on would reach all nodes that have    *)
(* linked.                                                                 *)
Linked == {n \in Nodes : stage[n] \in {"pool", "up"}}
PassedOn(S) == Up \cap Roots \subseteq S /\ \A n \in S : known[n] \subseteq S
Reached == {n \in Nodes : \A S \in SUBSET Nodes : PassedOn(S) => n \in S}
RootsReachAll == mishaps \cap {"end", "statement"} = {} => Linked \subseteq Reached

(* Starting a node ends: it runs or it has given up.                       *)
BootEnds == \A n \in Nodes : n \in Booting ~> n \notin Booting
=============================================================================
