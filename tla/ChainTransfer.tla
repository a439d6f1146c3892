---------------------------- MODULE ChainTransfer ----------------------------
(***************************************************************************)
(* How a node that starts gets the chain and the pool of a running peer,   *)
(* runs, ends, and starts again in the same directory.  The peer stands    *)
(* for all running known hosts, one of which is asked in a round;          *)
(* Bootstrap is about who that is.                                         *)
(*                                                                         *)
(* The peer writes what it serves to a file and sends the file.  The       *)
(* client announces with FTP_READY that it is ready, and NodeClient's      *)
(* request waits for an answer to that: it takes the beginning of the      *)
(* file, as much of it as has arrived.  The rest is appended to a file of  *)
(* the client, which is then parsed.                                       *)
(*                                                                         *)
(* A pool is a map from addresses in memory and is written in their order, *)
(* which may be any.                                                       *)
(*                                                                         *)
(* The process may end at any time, so an end that a damaged text leads to *)
(* (a copied id that is too long, an overrun hash) is not told apart.      *)
(* isPoolLinked, which was never initialised, is taken for false.          *)
(*                                                                         *)
(* Definitions marked "a slip" are mistakes that could be made in the code *)
(* beside them.  No action uses them; they are there to see that the       *)
(* properties would notice.                                                *)
(***************************************************************************)
EXTENDS Serialization

CONSTANTS
    MaxHeight,  \* bound: blocks of the peer
    MaxTx,      \* bound: transactions the peer accepts
    MaxTries,   \* the tries of Node::start
    MaxTrouble  \* bound: starts of the client and cut connections, together

ASSUME ChainTransferAssumption ==
    {MaxHeight, MaxTries, MaxTrouble} \subseteq Nat \ {0} /\ MaxTx \in Nat

VARIABLES
    chain,      \* the peer's blockchain
    waiting,    \* the peer's transactionPool, in the order of the map
    stage,      \* how far the client has come
    what,       \* "chain" or "pool", what is transferred
    tries,      \* rounds that brought nothing
    local,      \* the client's blockchain
    pool,       \* the client's transactionPool, in the order it was read
    file,       \* chain.txt and pool.txt of the client, empty if there is none
    wire,       \* what is sent and not received
    conn,       \* whether the connection has been closed early, or reset
    served,     \* history: what the peer's text of this transfer stands for
    left,       \* history: what was in the client's file before it
    lives,      \* starts of the client
    cuts        \* connections that were cut

peer == <<chain, waiting>>
links == <<local, pool>>
net == <<wire, conn, served, left>>
vars == <<peer, stage, what, tries, links, file, net, lives, cuts>>

(* The reward of a block is a transaction of its own.                      *)
Reward(height) == -height
Genesis == [id |-> 1, data |-> <<Reward(1)>>]

Init ==
    /\ chain = <<Genesis>> /\ waiting = <<>>
    /\ stage = "off" /\ what = "chain" /\ tries = 0
    /\ local = <<>> /\ pool = <<>>
    /\ file = [chain |-> <<>>, pool |-> <<>>]
    /\ wire = <<>> /\ conn = "open"
    /\ served = <<>> /\ left = <<>>
    /\ lives = 0 /\ cuts = 0

(* What is said of a transfer while it lasts.                              *)
Forget == served' = <<>> /\ left' = <<>> /\ conn' = "open"

-----------------------------------------------------------------------------
(* The peer.                                                               *)

Known == Range(waiting) \cup UNION {Range(chain[i].data) : i \in DOMAIN chain}

(* The responder takes a TRANSACTION_PACKET.                               *)
Accept ==
    /\ 1 .. MaxTx \ Known # {}
    /\ \E place \in 1 .. Len(waiting) + 1 :
          waiting' = InsertAt(waiting, place, Min(1 .. MaxTx \ Known))
    /\ UNCHANGED <<chain, stage, what, tries, links, file, net, lives, cuts>>

Mine ==
    /\ waiting # <<>> /\ Len(chain) < MaxHeight
    /\ LET height == Len(chain) + 1
       IN  chain' = Append(chain, [id |-> height, data |-> Append(waiting, Reward(height))])
    /\ waiting' = <<>>
    /\ UNCHANGED <<stage, what, tries, links, file, net, lives, cuts>>

-----------------------------------------------------------------------------
(* The client.                                                             *)

Start ==
    /\ stage = "off" /\ lives + cuts < MaxTrouble
    /\ stage' = "ask" /\ what' = "chain" /\ tries' = 0
    /\ lives' = lives + 1
    /\ UNCHANGED <<peer, links, file, net, cuts>>

End ==
    /\ stage # "off"
    /\ stage' = "off"
    /\ local' = <<>> /\ pool' = <<>>
    /\ wire' = <<>> /\ Forget
    /\ UNCHANGED <<peer, what, tries, file, lives, cuts>>

(* A slip: the tries are not counted.                                      *)
FailedUncounted ==
    /\ stage' = "ask"
    /\ UNCHANGED <<tries, links>>

(* A slip: a node that could not sync runs all the same.                   *)
FailedGoesOn ==
    \/ /\ tries + 1 < MaxTries
       /\ tries' = tries + 1 /\ stage' = "ask"
       /\ UNCHANGED links
    \/ /\ tries + 1 >= MaxTries
       /\ stage' = "up"
       /\ UNCHANGED <<tries, links>>

(* syncChains or syncPool has returned -1.                                 *)
Failed ==
    \/ /\ tries + 1 < MaxTries
       /\ tries' = tries + 1 /\ stage' = "ask"
       /\ UNCHANGED links
    \/ /\ tries + 1 >= MaxTries
       /\ stage' = IF what = "chain" THEN "off" ELSE "up"
       /\ UNCHANGED <<tries, links>>

(* The peer answers with the size of its pool.  An empty one is not        *)
(* transferred.                                                            *)
AskPool ==
    /\ stage = "ask" /\ what = "pool"
    /\ stage' = IF waiting = <<>> THEN "up" ELSE "ready"
    /\ UNCHANGED <<peer, what, tries, links, file, net, lives, cuts>>

(* The peer is not reached, or the answer is none.                         *)
AskInVain ==
    /\ stage = "ask"
    /\ Failed
    /\ UNCHANGED <<peer, what, file, net, lives, cuts>>

(* FTP_READY: the peer sends its file and closes the connection.  The      *)
(* chain is announced whatever it is.                                      *)
Serve ==
    /\ stage = IF what = "chain" THEN "ask" ELSE "ready"
    /\ stage' = "first"
    /\ conn' = "open"
    /\ wire' = IF what = "chain" THEN ChainText(chain) ELSE PoolText(waiting)
    /\ served' = IF what = "chain" THEN chain ELSE waiting
    /\ left' = file[what]
    /\ UNCHANGED <<peer, what, tries, links, file, lives, cuts>>

(* The recv of request takes a beginning of the file for the answer.       *)
Request ==
    /\ stage = "first"
    /\ stage' = "rest"
    /\ wire' \in Remainders(wire)
    /\ UNCHANGED <<peer, what, tries, links, file, conn, served, left, lives, cuts>>

(* The peer ends and its connection with it, or the connection breaks, and *)
(* an end of what was sent is lost.  Whether that is before or after       *)
(* request has received makes no difference to what is received.           *)
Cut ==
    /\ stage = "rest" /\ conn = "open" /\ lives + cuts < MaxTrouble
    /\ conn' \in {"closed", "reset"}
    /\ wire' \in Beginnings(wire)
    /\ cuts' = cuts + 1
    /\ UNCHANGED <<peer, stage, what, tries, links, file, served, left, lives>>

(* A slip: the file is opened with "r+b".                                  *)
WrittenOver(text, more) == more \o SubSeq(text, Len(more) + 1, Len(text))

(* The file is opened with "ab".                                           *)
Appended(text, more) == text \o more

(* receive_file adds what comes to the file, where it stays after a reset. *)
ReceiveFile ==
    /\ stage = "rest"
    /\ file' = [file EXCEPT ![what] = Appended(@, wire)]
    /\ wire' = <<>>
    /\ \/ conn # "reset" /\ stage' = "text" /\ UNCHANGED <<tries, links, conn, served, left>>
       \/ conn = "reset" /\ Failed /\ Forget
    /\ UNCHANGED <<peer, what, lives, cuts>>

(* chain.txt is removed before it is parsed.  An empty chain is a failure. *)
ReadChain ==
    /\ stage = "text" /\ what = "chain"
    /\ file' = [file EXCEPT !.chain = <<>>]
    /\ \E parsed \in ParseChain(file.chain) :
           \/ /\ ~parsed.ends
              /\ stage' = "hung"
              /\ UNCHANGED <<what, tries, links, conn, served, left>>
           \/ /\ parsed.ends /\ parsed.chain = <<>>
              /\ Failed /\ Forget
              /\ UNCHANGED what
           \/ /\ parsed.ends /\ parsed.chain # <<>>
              /\ local' = parsed.chain
              /\ stage' = "ask" /\ what' = "pool" /\ tries' = 0
              /\ Forget
              /\ UNCHANGED pool
    /\ UNCHANGED <<peer, wire, lives, cuts>>

(* pool.txt is not removed.                                                *)
ReadPool ==
    /\ stage = "text" /\ what = "pool"
    /\ LET parsed == ParsePool(file.pool)
       IN  \/ ~parsed.ends /\ stage' = "hung" /\ UNCHANGED <<pool, conn, served, left>>
           \/ parsed.ends /\ stage' = "up" /\ pool' = parsed.data /\ Forget
    /\ UNCHANGED <<peer, what, tries, local, file, wire, lives, cuts>>

(* Reading for ever takes ever more memory.  It ends with the process, or  *)
(* with an exception that is caught as an error of the parser.             *)
OutOfMemory ==
    /\ stage = "hung"
    /\ Failed /\ Forget
    /\ UNCHANGED <<peer, what, file, wire, lives, cuts>>

Orders(seq) == {[i \in DOMAIN seq |-> seq[order[i]]] : order \in SetToSeqs(DOMAIN seq)}

(* The client, when it runs, serves others from files of the same names.   *)
ServeOthers ==
    /\ stage = "up"
    /\ \/ file' = [file EXCEPT !.chain = ChainText(local)]
       \/ \E inMap \in Orders(pool) : file' = [file EXCEPT !.pool = PoolText(inMap)]
    /\ UNCHANGED <<peer, stage, what, tries, links, net, lives, cuts>>

-----------------------------------------------------------------------------
Link ==
    \/ AskPool \/ AskInVain \/ Serve
    \/ Request \/ ReceiveFile \/ ReadChain \/ ReadPool

Next == Accept \/ Mine \/ Start \/ End \/ Cut \/ Link \/ OutOfMemory \/ ServeOthers

Spec == Init /\ [][Next]_vars

(* The main thread of the client runs, and the peer's server answers it.   *)
FairSpec == Spec /\ WF_vars(Link)

-----------------------------------------------------------------------------
(* Properties.                                                             *)

Linking == stage \in {"ask", "ready", "first", "rest", "text"}

(* Every variable has its type; the client has a chain once it has linked  *)
(* and never before, and nothing is on the wire outside of a transfer.     *)
TypeOK ==
    /\ Range(waiting) \subseteq 1 .. MaxTx /\ Len(chain) \in 1 .. MaxHeight
    /\ stage \in {"off", "ask", "ready", "first", "rest", "text", "up", "hung"}
    /\ what \in {"chain", "pool"} /\ tries \in 0 .. MaxTries - 1
    /\ conn \in {"open", "closed", "reset"}
    /\ lives \in Nat /\ cuts \in 0 .. MaxTrouble - lives
    /\ stage = "off" => local = <<>> /\ pool = <<>>
    /\ stage # "off" => (local # <<>> <=> what = "pool")
    /\ stage = "up" => what = "pool"
    /\ wire # <<>> => stage \in {"first", "rest"}

(* What is written is read back, by the peer's functions on the peer's     *)
(* chain and pool.                                                         *)
ReadsWhatItWrites ==
    /\ ParseChain(ChainText(chain)) = {[chain |-> chain, ends |-> TRUE]}
    /\ ParsePool(PoolText(waiting)) = [data |-> waiting, ends |-> TRUE]

(* Without cut connections, what a transfer adds to the client's file is   *)
(* read as an end of what the peer served, in its order, behind at most    *)
(* one block that lost its header: no block is repeated, swapped or put    *)
(* together of two.  Whatever was in the file before comes first.          *)
IsTailOf(seq, whole) == \E i \in 1 .. Len(whole) + 1 : seq = SubSeq(whole, i, Len(whole))

ChainIsTail ==
    [][cuts = 0 /\ local' # local /\ local' # <<>> =>
          \E old \in ParseChain(left), i \in 0 .. Len(local') :
              /\ old.chain = SubSeq(local', 1, i)
              /\ \/ IsTailOf(SubSeq(local', i + 1, Len(local')), served)
                 \/ /\ i < Len(local') /\ local'[i + 1].id = 0
                    /\ IsTailOf(SubSeq(local', i + 2, Len(local')), served)]_vars

(* The same of the pool.                                                   *)
PoolIsTail ==
    [][cuts = 0 /\ pool' # pool /\ pool' # <<>> =>
          LET old == ParsePool(left).data IN
          \E i \in {Len(old), Len(old) + 1} :
              /\ old = SubSeq(pool', 1, Len(old))
              /\ \A k \in Len(old) + 1 .. i : k \in DOMAIN pool' => pool'[k] = 0
              /\ IsTailOf(SubSeq(pool', i + 1, Len(pool')), served)]_vars

(* Node::receive_file: whichever file it is.                               *)
ReceivedIsTail == ChainIsTail /\ PoolIsTail

(* A text is read for ever only after a connection was cut, or where the   *)
(* file was not empty before.                                              *)
HangsAreExplained == stage = "hung" => cuts > 0 \/ left # <<>>

(* A client that links comes to an end of it: it runs, has given up, or    *)
(* reads for ever.                                                         *)
LinkingEnds == Linking ~> ~Linking
=============================================================================
