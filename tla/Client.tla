------------------------------- MODULE Client -------------------------------
(***************************************************************************)
(* Two threads of a node that broadcast through the one NodeClient: the    *)
(* main thread sends a transaction (Node::transact), the broadcast thread  *)
(* a block (Node::broadCastHandler), each to all known hosts in turn.      *)
(* NodeClient::request keeps the socket and the result of connect in       *)
(* members, so that one thread may use what the other has put there.       *)
(*                                                                         *)
(* The hosts are servers as in NodeServer::launch: they accept one         *)
(* connection, wait for what is sent on it, take all there is as one       *)
(* message, and close without an answer.  The network loses nothing.  The  *)
(* server of this node, a third thread, may add a host to the list.        *)
(*                                                                         *)
(* Definitions marked "a slip" are mistakes that could be made in the code *)
(* beside them, used by no other definition.                               *)
(***************************************************************************)
EXTENDS Naturals, SequencesExt, FiniteSets

CONSTANTS
    Thread,         \* threads that broadcast, each once
    Host, Up,       \* hosts, and those of them that accept connections
    Known,          \* the list of known hosts at the start, a sequence
    MaxSockets      \* sockets the client opens

ASSUME ClientAssumption ==
    /\ Up \subseteq Host
    /\ Known \in Seq(Host)
    /\ MaxSockets \in Nat

VARIABLES
    pc,             \* where each thread is in request
    todo,           \* hosts that its broadcast has not dealt with
    mine,           \* the socket its call of recv waits on
    sock,           \* NodeClient::sock
    connection,     \* NodeClient::connection = 0
    sockets,        \* what socket() gave, by number
    known_hosts,
    queue,          \* connections each host has not accepted yet
    serving,        \* the one it has, 0 for none
    got,            \* packets each host has taken, named by their sender
    died,           \* the process was ended by SIGPIPE, or read freed memory
    overlapped,     \* one request began inside another
    moved           \* known_hosts grew inside a broadcast

request == <<pc, todo, mine, sock, connection, sockets>>
hosts   == <<queue, serving, got>>
vars    == <<request, known_hosts, hosts, died, overlapped, moved>>

PC == {"start", "loop", "connect", "check", "send", "recv", "blocked", "done"}

(* A socket: the host it was connected to, if any, the packets that lie on *)
(* the way, and whether the host has closed it.                            *)
Fresh == [to |-> {}, stream |-> <<>>, closed |-> FALSE]
Socket == [to : SUBSET Host, stream : Seq(Thread), closed : BOOLEAN]

Requesting(t) == pc[t] \in {"connect", "check", "send", "recv", "blocked"}
Broadcasting(t) == Requesting(t) \/ pc[t] = "loop"

TypeOK ==
    /\ pc \in [Thread -> PC]
    /\ todo \in [Thread -> Seq(Host)]
    /\ sockets \in Seq(Socket) /\ Len(sockets) <= MaxSockets
    /\ mine \in [Thread -> 0 .. Len(sockets)]
    /\ sock \in 0 .. Len(sockets)
    /\ connection \in BOOLEAN
    /\ known_hosts \in Seq(Host)
    /\ queue \in [Host -> Seq(1 .. Len(sockets))]
    /\ serving \in [Host -> 0 .. Len(sockets)]
    /\ got \in [Host -> Seq(Thread)]
    /\ died \in BOOLEAN /\ overlapped \in BOOLEAN /\ moved \in BOOLEAN

Init ==
    /\ pc = [t \in Thread |-> "start"]
    /\ todo = [t \in Thread |-> <<>>]
    /\ mine = [t \in Thread |-> 0]
    /\ sock = 0
    /\ connection = FALSE
    /\ sockets = <<>>
    /\ known_hosts = Known
    /\ queue = [h \in Host |-> <<>>]
    /\ serving = [h \in Host |-> 0]
    /\ got = [h \in Host |-> <<>>]
    /\ died = FALSE
    /\ overlapped = FALSE
    /\ moved = FALSE

-----------------------------------------------------------------------------
(* The threads of the node.                                                *)

Goto(t, from, to) == pc[t] = from /\ ~died /\ pc' = [pc EXCEPT ![t] = to]

(* Node::broadcast: the end of the list is looked up once.                 *)
Broadcast(t) ==
    /\ Goto(t, "start", "loop")
    /\ todo' = [todo EXCEPT ![t] = known_hosts]
    /\ UNCHANGED <<mine, sock, connection, sockets, known_hosts, hosts, died, overlapped, moved>>

BroadcastEnd(t) ==
    /\ Goto(t, "loop", "done")
    /\ todo[t] = <<>>
    /\ UNCHANGED <<todo, mine, sock, connection, sockets, known_hosts, hosts, died, overlapped,
                   moved>>

(* A slip: the number of a socket that is not there yet.                   *)
CreateSocketAhead(t) ==
    /\ Goto(t, "loop", "connect")
    /\ todo[t] # <<>>
    /\ Len(sockets) < MaxSockets
    /\ sock' = Len(sockets) + 1
    /\ overlapped' = (overlapped \/ \E u \in Thread : Requesting(u))
    /\ UNCHANGED <<todo, mine, connection, sockets, known_hosts, hosts, died, moved>>

(* request begins: a socket.                                               *)
CreateSocket(t) ==
    /\ Goto(t, "loop", "connect")
    /\ todo[t] # <<>>
    /\ Len(sockets) < MaxSockets
    /\ sockets' = Append(sockets, Fresh)
    /\ sock' = Len(sockets')
    /\ overlapped' = (overlapped \/ \E u \in Thread : Requesting(u))
    /\ UNCHANGED <<todo, mine, connection, known_hosts, hosts, died, moved>>

(* connect fails on a socket that is connected, and where nobody listens.  *)
Connect(t) ==
    LET host == Head(todo[t])
        works == sockets[sock].to = {} /\ host \in Up
    IN  /\ Goto(t, "connect", "check")
        /\ connection' = works
        /\ IF works
           THEN /\ sockets' = [sockets EXCEPT ![sock].to = {host}]
                /\ queue' = [queue EXCEPT ![host] = Append(@, sock)]
           ELSE UNCHANGED <<sockets, queue>>
        /\ UNCHANGED <<todo, mine, sock, known_hosts, serving, got, died, overlapped, moved>>

(* A slip: that a socket is there is taken for a connection.               *)
CheckSocket(t) ==
    /\ Goto(t, "check", IF sock # 0 THEN "send" ELSE "loop")
    /\ todo' = IF sock # 0 THEN todo ELSE [todo EXCEPT ![t] = Tail(@)]
    /\ UNCHANGED <<mine, sock, connection, sockets, known_hosts, hosts, died, overlapped, moved>>

Check(t) ==
    /\ Goto(t, "check", IF connection THEN "send" ELSE "loop")
    /\ todo' = IF connection THEN todo ELSE [todo EXCEPT ![t] = Tail(@)]
    /\ UNCHANGED <<mine, sock, connection, sockets, known_hosts, hosts, died, overlapped, moved>>

(* A slip: the loop of sendAll stops before its first round.               *)
SendNothing(t) ==
    /\ Goto(t, "send", "recv")
    /\ UNCHANGED <<todo, mine, sock, connection, sockets, known_hosts, hosts, died, overlapped,
                   moved>>

(* sendAll.  What is sent to a host that closed is lost, or raises SIGPIPE *)
(* as on a socket that is not connected.                                   *)
Send(t) ==
    LET to == sockets[sock].to
    IN  /\ Goto(t, "send", "recv")
        /\ sockets' = IF to # {} /\ ~sockets[sock].closed
                      THEN [sockets EXCEPT ![sock].stream = Append(@, t)] ELSE sockets
        /\ died' \in IF to = {} THEN {TRUE}
                     ELSE IF sockets[sock].closed THEN BOOLEAN ELSE {FALSE}
        /\ UNCHANGED <<todo, mine, sock, connection, known_hosts, hosts, overlapped, moved>>

RecvCall(t) ==
    /\ Goto(t, "recv", "blocked")
    /\ mine' = [mine EXCEPT ![t] = sock]
    /\ UNCHANGED <<todo, sock, connection, sockets, known_hosts, hosts, died, overlapped, moved>>

(* A slip: a host that closed without an answer is tried again.            *)
RecvReturnRetry(t) ==
    /\ Goto(t, "blocked", "loop")
    /\ sockets[mine[t]].closed \/ sockets[mine[t]].to = {}
    /\ UNCHANGED <<todo, mine, sock, connection, sockets, known_hosts, hosts, died, overlapped,
                   moved>>

(* recv and request return when the host has closed, or at once on a       *)
(* socket that is not connected.                                           *)
RecvReturn(t) ==
    /\ Goto(t, "blocked", "loop")
    /\ sockets[mine[t]].closed \/ sockets[mine[t]].to = {}
    /\ todo' = [todo EXCEPT ![t] = Tail(@)]
    /\ UNCHANGED <<mine, sock, connection, sockets, known_hosts, hosts, died, overlapped, moved>>

(* NodeServer::handler of this node: a host is added; a vector that grows  *)
(* moves, and a loop over it then reads freed memory, or what was there.   *)
Learn(h) ==
    /\ ~died
    /\ h \notin ToSet(known_hosts)
    /\ known_hosts' = Append(known_hosts, h)
    /\ LET inside == \E t \in Thread : Broadcasting(t)
       IN  /\ moved' = (moved \/ inside)
           /\ died' \in IF inside THEN BOOLEAN ELSE {FALSE}
    /\ UNCHANGED <<request, hosts, overlapped>>

-----------------------------------------------------------------------------
(* The servers of other nodes.                                             *)

Accept(h) ==
    /\ serving[h] = 0 /\ queue[h] # <<>>
    /\ serving' = [serving EXCEPT ![h] = Head(queue[h])]
    /\ queue' = [queue EXCEPT ![h] = Tail(@)]
    /\ UNCHANGED <<request, known_hosts, got, died, overlapped, moved>>

(* A slip: the connection is left open, as after a request.                *)
TakeOpen(h) ==
    LET s == serving[h]
    IN  /\ s # 0 /\ sockets[s].stream # <<>>
        /\ got' = [got EXCEPT ![h] = Append(@, sockets[s].stream[1])]
        /\ serving' = [serving EXCEPT ![h] = 0]
        /\ UNCHANGED <<pc, todo, mine, sock, connection, sockets, known_hosts, queue, died,
                       overlapped, moved>>

(* One recv takes all that was sent; one packet is read from it.           *)
Take(h) ==
    LET s == serving[h]
    IN  /\ s # 0 /\ sockets[s].stream # <<>>
        /\ got' = [got EXCEPT ![h] = Append(@, sockets[s].stream[1])]
        /\ sockets' = [sockets EXCEPT ![s].closed = TRUE]
        /\ serving' = [serving EXCEPT ![h] = 0]
        /\ UNCHANGED <<pc, todo, mine, sock, connection, known_hosts, queue, died, overlapped,
                       moved>>

Step(t) == \/ BroadcastEnd(t) \/ CreateSocket(t) \/ Connect(t) \/ Check(t)
           \/ Send(t) \/ RecvCall(t) \/ RecvReturn(t)
Serve(h) == Accept(h) \/ Take(h)

Next == \/ \E t \in Thread : Broadcast(t) \/ Step(t)
        \/ \E h \in Host : Learn(h) \/ Serve(h)

(* The scheduler runs every thread, of every node; that there is something *)
(* to broadcast is up to the user and the miner.                           *)
Spec == Init /\ [][Next]_vars /\ \A t \in Thread : WF_vars(Step(t))
                              /\ \A h \in Host : WF_vars(Serve(h))

-----------------------------------------------------------------------------
Copies(h, t) == Cardinality({i \in DOMAIN got[h] : got[h][i] = t})

(* Node::broadcast, as long as no other thread is inside request: once it  *)
(* is through, every host of the list that accepts connections has taken   *)
(* the packet, once, and at no time has any host taken it twice.           *)
DeliveredOnceUnlessOverlapped ==
    overlapped \/ \A t \in Thread :
        /\ \A h \in Host : Copies(h, t) <= 1
        /\ pc[t] = "done" => \A h \in ToSet(Known) \cap Up : Copies(h, t) = 1

(* A host waits in recv, and so does not serve anyone, on a connection on  *)
(* which nobody is going to send: only after two requests overlapped.      *)
Deserted(s) ==
    /\ sockets[s].stream = <<>>
    /\ \A t \in Thread : pc[t] \in {"connect", "check", "send"} => sock # s
HostsStuckOnlyByOverlap ==
    overlapped \/ died \/ \A h \in Host : serving[h] # 0 => ~Deserted(serving[h])

(* The node is not killed by a send on a socket of the other thread unless *)
(* two requests overlapped, or the list of hosts grew inside a loop.       *)
DiesOnlyByOverlap == died => overlapped \/ moved

(* Every broadcast comes to its end, however many of the hosts are away,   *)
(* unless two requests overlapped or the node died: recv has no timeout.   *)
BroadcastsEnd ==
    \A t \in Thread : pc[t] = "loop" ~> (pc[t] = "done" \/ overlapped \/ died)
=============================================================================
