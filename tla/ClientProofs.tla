---------------------------- MODULE ClientProofs ----------------------------
(***************************************************************************)
(* Proofs about Client, for any number of threads that broadcast, any      *)
(* hosts and any list of known ones.                                       *)
(***************************************************************************)
EXTENDS Client, FiniteSetTheorems, TLAPS

-----------------------------------------------------------------------------
(* Sequences.                                                              *)

LEMMA SeqExcept ==
    ASSUME NEW S, NEW f \in Seq(S), NEW i \in DOMAIN f, NEW v \in S
    PROVE  /\ [f EXCEPT ![i] = v] \in Seq(S) /\ Len([f EXCEPT ![i] = v]) = Len(f)
           /\ \A j \in DOMAIN f : [f EXCEPT ![i] = v][j] = IF j = i THEN v ELSE f[j]
OBVIOUS

LEMMA SeqAppend ==
    ASSUME NEW S, NEW f \in Seq(S), NEW v \in S
    PROVE  /\ Append(f, v) \in Seq(S) /\ Len(Append(f, v)) = Len(f) + 1
           /\ Append(f, v)[Len(f) + 1] = v
           /\ \A j \in DOMAIN f : Append(f, v)[j] = f[j]
           /\ DOMAIN Append(f, v) = DOMAIN f \cup {Len(f) + 1}
           /\ Len(f) \in Nat /\ DOMAIN f = 1 .. Len(f)
OBVIOUS

LEMMA SeqGrown ==
    ASSUME NEW S, NEW f \in Seq(S), NEW v \in S PROVE Append(f, v) # <<>>
OBVIOUS

LEMMA SeqTail ==
    ASSUME NEW S, NEW f \in Seq(S), f # <<>>
    PROVE  /\ Head(f) \in S /\ Tail(f) \in Seq(S) /\ 1 \in DOMAIN f /\ Head(f) = f[1]
           /\ \A j \in DOMAIN Tail(f) : j + 1 \in DOMAIN f /\ Tail(f)[j] = f[j + 1] /\ j + 1 # 1
           /\ \A j \in DOMAIN f : j # 1 => j - 1 \in DOMAIN Tail(f) /\ Tail(f)[j - 1] = f[j]
OBVIOUS

LEMMA SeqWiden ==
    ASSUME NEW S, NEW T, S \subseteq T, NEW f \in Seq(S)
    PROVE  f \in Seq(T)
OBVIOUS

-----------------------------------------------------------------------------
(* Types.                                                                  *)

Numbers == DOMAIN sockets
Position == Numbers \cup {0}

(* TypeOK, and a thread inside request has a host to send to and a socket. *)
Types ==
    /\ pc \in [Thread -> PC]
    /\ todo \in [Thread -> Seq(Host)]
    /\ sockets \in Seq(Socket) /\ Len(sockets) <= MaxSockets
    /\ mine \in [Thread -> Position]
    /\ sock \in Position
    /\ connection \in BOOLEAN
    /\ known_hosts \in Seq(Host)
    /\ queue \in [Host -> Seq(Numbers)]
    /\ serving \in [Host -> Position]
    /\ got \in [Host -> Seq(Thread)]
    /\ died \in BOOLEAN /\ overlapped \in BOOLEAN /\ moved \in BOOLEAN
    /\ \A t \in Thread : Requesting(t) => todo[t] # <<>> /\ sock \in Numbers

LEMMA TypesAre == Types => TypeOK
<1> SUFFICES ASSUME Types PROVE TypeOK
  OBVIOUS
<1>1. Numbers = 1 .. Len(sockets) /\ Position = 0 .. Len(sockets)
  BY DEF Types, Numbers, Position
<1>2. /\ mine \in [Thread -> 0 .. Len(sockets)] /\ sock \in 0 .. Len(sockets)
      /\ queue \in [Host -> Seq(1 .. Len(sockets))] /\ serving \in [Host -> 0 .. Len(sockets)]
  BY <1>1, Zenon DEF Types
<1> QED BY <1>2, Zenon DEF Types, TypeOK

LEMMA TypeInit == Init => Types
<1> SUFFICES ASSUME Init PROVE Types
  OBVIOUS
<1>1. /\ pc \in [Thread -> PC] /\ \A t \in Thread : ~Requesting(t)
  BY DEF Init, PC, Requesting
<1>2. /\ todo \in [Thread -> Seq(Host)] /\ known_hosts \in Seq(Host)
      /\ got \in [Host -> Seq(Thread)] /\ queue \in [Host -> Seq(Numbers)]
  BY ClientAssumption DEF Init
<1>3. sockets \in Seq(Socket) /\ Len(sockets) <= MaxSockets
  BY ClientAssumption DEF Init
<1>4. mine \in [Thread -> Position] /\ sock \in Position /\ serving \in [Host -> Position]
  BY DEF Init, Position
<1> QED BY <1>1, <1>2, <1>3, <1>4 DEF Init, Types

(* One socket changes.                                                     *)
LEMMA OneSocket ==
    ASSUME Types, NEW s \in Numbers, NEW v \in Socket, sockets' = [sockets EXCEPT ![s] = v]
    PROVE  /\ sockets' \in Seq(Socket) /\ Len(sockets') = Len(sockets)
           /\ Numbers' = Numbers /\ Position' = Position
           /\ \A r \in Numbers : sockets'[r] = IF r = s THEN v ELSE sockets[r]
<1>1. sockets \in Seq(Socket) /\ s \in DOMAIN sockets
  BY DEF Types, Numbers
<1>2. /\ sockets' \in Seq(Socket) /\ Len(sockets') = Len(sockets)
      /\ \A r \in DOMAIN sockets : sockets'[r] = IF r = s THEN v ELSE sockets[r]
  BY <1>1, SeqExcept
<1>3. DOMAIN sockets' = DOMAIN sockets
  BY <1>1
<1> QED BY <1>2, <1>3 DEF Numbers, Position

(* Steps of a thread that leave the sockets alone.                         *)
LEMMA QuietTypes ==
    ASSUME Types, NEW t \in Thread,
           Broadcast(t) \/ BroadcastEnd(t) \/ Check(t) \/ RecvCall(t) \/ RecvReturn(t)
    PROVE  Types'
<1>0. /\ pc \in [Thread -> PC] /\ todo \in [Thread -> Seq(Host)]
      /\ mine \in [Thread -> Position] /\ sock \in Position /\ known_hosts \in Seq(Host)
      /\ \A u \in Thread : Requesting(u) => todo[u] # <<>> /\ sock \in Numbers
  BY DEF Types
<1>1. sockets' = sockets /\ sock' = sock
  BY DEF Broadcast, BroadcastEnd, Check, RecvCall, RecvReturn
<1>2. Numbers' = Numbers /\ Position' = Position
  BY <1>1 DEF Numbers, Position
<1>3. CASE Broadcast(t)
  <2>1. pc' \in [Thread -> PC] /\ todo' \in [Thread -> Seq(Host)]
    BY <1>0, <1>3 DEF Broadcast, Goto, PC
  <2>2. \A u \in Thread : Requesting(u)' => todo'[u] # <<>> /\ sock' \in Numbers'
    BY <1>0, <1>1, <1>2, <1>3 DEF Broadcast, Goto, Requesting
  <2> QED BY <1>1, <1>2, <1>3, <2>1, <2>2 DEF Broadcast, Types, hosts
<1>4. CASE BroadcastEnd(t)
  <2>1. pc' \in [Thread -> PC]
    BY <1>0, <1>4 DEF BroadcastEnd, Goto, PC
  <2>2. \A u \in Thread : Requesting(u)' => todo'[u] # <<>> /\ sock' \in Numbers'
    BY <1>0, <1>1, <1>2, <1>4 DEF BroadcastEnd, Goto, Requesting
  <2> QED BY <1>1, <1>2, <1>4, <2>1, <2>2 DEF BroadcastEnd, Types, hosts
<1>5. CASE Check(t)
  <2>1. pc[t] = "check" /\ todo[t] # <<>> /\ todo[t] \in Seq(Host)
    BY <1>0, <1>5 DEF Check, Goto, Requesting
  <2>2. Tail(todo[t]) \in Seq(Host)
    BY <2>1
  <2>3. pc' \in [Thread -> PC] /\ todo' \in [Thread -> Seq(Host)]
    BY <1>0, <1>5, <2>2 DEF Check, Goto, PC
  <2>4. \A u \in Thread : Requesting(u)' => todo'[u] # <<>> /\ sock' \in Numbers'
    BY <1>0, <1>1, <1>2, <1>5, <2>1 DEF Check, Goto, Requesting
  <2> QED BY <1>1, <1>2, <1>5, <2>3, <2>4 DEF Check, Types, hosts
<1>6. CASE RecvCall(t)
  <2>1. pc' \in [Thread -> PC] /\ mine' \in [Thread -> Position]
    BY <1>0, <1>6 DEF RecvCall, Goto, PC
  <2>2. \A u \in Thread : Requesting(u)' => todo'[u] # <<>> /\ sock' \in Numbers'
    BY <1>0, <1>1, <1>2, <1>6 DEF RecvCall, Goto, Requesting
  <2> QED BY <1>1, <1>2, <1>6, <2>1, <2>2 DEF RecvCall, Types, hosts
<1>7. CASE RecvReturn(t)
  <2>1. pc[t] = "blocked" /\ todo[t] # <<>> /\ todo[t] \in Seq(Host)
    BY <1>0, <1>7 DEF RecvReturn, Goto, Requesting
  <2>2. Tail(todo[t]) \in Seq(Host)
    BY <2>1
  <2>3. pc' \in [Thread -> PC] /\ todo' \in [Thread -> Seq(Host)]
    BY <1>0, <1>7, <2>2 DEF RecvReturn, Goto, PC
  <2>4. \A u \in Thread : Requesting(u)' => todo'[u] # <<>> /\ sock' \in Numbers'
    BY <1>0, <1>1, <1>2, <1>7 DEF RecvReturn, Goto, Requesting
  <2> QED BY <1>1, <1>2, <1>7, <2>3, <2>4 DEF RecvReturn, Types, hosts
<1> QED BY <1>3, <1>4, <1>5, <1>6, <1>7

LEMMA CreateSocketTypes ==
    ASSUME Types, NEW t \in Thread, CreateSocket(t)
    PROVE  /\ Types'
           /\ sock' = Len(sockets) + 1 /\ sock' \notin Numbers /\ Numbers' = Numbers \cup {sock'}
           /\ sockets'[sock'] = Fresh /\ \A r \in Numbers : sockets'[r] = sockets[r]
<1>0. /\ sockets \in Seq(Socket) /\ pc \in [Thread -> PC] /\ mine \in [Thread -> Position]
      /\ queue \in [Host -> Seq(Numbers)] /\ serving \in [Host -> Position]
      /\ pc[t] = "loop" /\ todo[t] # <<>> /\ Len(sockets) < MaxSockets
      /\ \A u \in Thread : Requesting(u) => todo[u] # <<>> /\ sock \in Numbers
  BY DEF Types, CreateSocket, Goto
<1>1. Fresh \in Socket
  BY DEF Fresh, Socket
<1>2. sockets' = Append(sockets, Fresh) /\ sock' = Len(sockets')
  BY DEF CreateSocket
<1>3. /\ sockets' \in Seq(Socket) /\ Len(sockets') = Len(sockets) + 1 /\ Len(sockets) \in Nat
      /\ sockets'[Len(sockets) + 1] = Fresh /\ \A r \in DOMAIN sockets : sockets'[r] = sockets[r]
      /\ DOMAIN sockets' = DOMAIN sockets \cup {Len(sockets) + 1}
      /\ DOMAIN sockets = 1 .. Len(sockets)
  BY <1>0, <1>1, <1>2, SeqAppend
<1>4. /\ sock' = Len(sockets) + 1 /\ sock' \notin Numbers /\ Numbers' = Numbers \cup {sock'}
      /\ sockets'[sock'] = Fresh /\ \A r \in Numbers : sockets'[r] = sockets[r]
  BY <1>2, <1>3 DEF Numbers
<1>5. Numbers \subseteq Numbers' /\ Position \subseteq Position'
  BY <1>4 DEF Position
<1>6. mine' \in [Thread -> Position'] /\ serving' \in [Host -> Position']
  BY <1>0, <1>5 DEF CreateSocket, hosts
<1>7. queue' \in [Host -> Seq(Numbers')]
  <2>1. \A h \in Host : queue[h] \in Seq(Numbers')
    BY <1>0, <1>5, SeqWiden
  <2> QED BY <1>0, <2>1 DEF CreateSocket, hosts
<1>8. pc' \in [Thread -> PC]
  BY <1>0 DEF CreateSocket, Goto, PC
<1>9. \A u \in Thread : Requesting(u)' => todo'[u] # <<>> /\ sock' \in Numbers'
  BY <1>0, <1>4 DEF CreateSocket, Goto, Requesting
<1>10. sock' \in Position' /\ overlapped' \in BOOLEAN /\ Len(sockets') <= MaxSockets
  BY <1>0, <1>3, <1>4, ClientAssumption DEF CreateSocket, Position
<1>11. /\ todo' \in [Thread -> Seq(Host)] /\ connection' \in BOOLEAN /\ known_hosts' \in Seq(Host)
       /\ got' \in [Host -> Seq(Thread)] /\ died' \in BOOLEAN /\ moved' \in BOOLEAN
  BY DEF CreateSocket, Types, hosts
<1>12. Types'
  BY <1>3, <1>6, <1>7, <1>8, <1>9, <1>10, <1>11 DEF Types
<1> QED BY <1>4, <1>12

LEMMA ConnectTypes ==
    ASSUME Types, NEW t \in Thread, Connect(t)
    PROVE  /\ Types' /\ Numbers' = Numbers /\ sock \in Numbers
           /\ todo[t] # <<>> /\ Head(todo[t]) \in Host
           /\ \A r \in Numbers : /\ r # sock => sockets'[r] = sockets[r]
                                 /\ sockets'[r].stream = sockets[r].stream
                                 /\ sockets'[r].closed = sockets[r].closed
           /\ sockets'[sock].to = IF connection' THEN {Head(todo[t])} ELSE sockets[sock].to
           /\ connection' <=> sockets[sock].to = {} /\ Head(todo[t]) \in Up
<1> DEFINE host == Head(todo[t])
<1>0. /\ sockets \in Seq(Socket) /\ pc \in [Thread -> PC]
      /\ queue \in [Host -> Seq(Numbers)] /\ pc[t] = "connect"
      /\ todo[t] \in Seq(Host) /\ todo[t] # <<>> /\ sock \in Numbers
      /\ \A u \in Thread : Requesting(u) => todo[u] # <<>> /\ sock \in Numbers
  BY DEF Types, Connect, Goto, Requesting
<1>1. host \in Host /\ sockets[sock] \in Socket
  BY <1>0, SeqTail DEF Numbers
<1>2. pc' \in [Thread -> PC] /\ sock' = sock /\ todo' = todo
  BY <1>0 DEF Connect, Goto, PC
<1>3. connection' = (sockets[sock].to = {} /\ host \in Up)
  BY DEF Connect
<1>4. CASE connection'
  <2> DEFINE v == [sockets[sock] EXCEPT !.to = {host}]
  <2>1. /\ v \in Socket /\ v.to = {host}
        /\ v.stream = sockets[sock].stream /\ v.closed = sockets[sock].closed
    BY <1>1 DEF Socket
  <2>2. /\ sockets' = [sockets EXCEPT ![sock] = v]
        /\ queue' = [queue EXCEPT ![host] = Append(@, sock)]
    BY <1>3, <1>4 DEF Connect
  <2> HIDE DEF v, host
  <2>3. /\ sockets' \in Seq(Socket) /\ Len(sockets') = Len(sockets)
        /\ Numbers' = Numbers /\ Position' = Position
        /\ \A r \in Numbers : sockets'[r] = IF r = sock THEN v ELSE sockets[r]
    BY <1>0, <2>1, <2>2, OneSocket
  <2>4. Append(queue[host], sock) \in Seq(Numbers)
    BY <1>0, <1>1
  <2>5. queue' \in [Host -> Seq(Numbers')]
    BY <1>0, <2>2, <2>3, <2>4
  <2>6. Types'
    BY <1>0, <1>2, <1>3, <2>3, <2>5 DEF Connect, Goto, Types, Requesting
  <2> QED BY <1>0, <1>1, <1>3, <1>4, <2>1, <2>3, <2>6 DEF host
<1>5. CASE ~connection'
  <2>1. sockets' = sockets /\ queue' = queue
    BY <1>3, <1>5 DEF Connect
  <2>2. Numbers' = Numbers /\ Position' = Position
    BY <2>1 DEF Numbers, Position
  <2>3. Types'
    BY <1>0, <1>2, <1>3, <2>1, <2>2 DEF Connect, Goto, Types, Requesting
  <2> QED BY <1>0, <1>1, <1>3, <1>5, <2>1, <2>2, <2>3
<1> QED BY <1>3, <1>4, <1>5

(* Something arrives on the socket, if it is connected and not closed.     *)
LEMMA SendTypes ==
    ASSUME Types, NEW t \in Thread, Send(t)
    PROVE  /\ Types' /\ Numbers' = Numbers /\ sock \in Numbers
           /\ \A r \in Numbers : /\ r # sock => sockets'[r] = sockets[r]
                                 /\ sockets'[r].to = sockets[r].to
                                 /\ sockets'[r].closed = sockets[r].closed
           /\ sockets'[sock].stream =
                 IF sockets[sock].to # {} /\ ~sockets[sock].closed
                 THEN Append(sockets[sock].stream, t) ELSE sockets[sock].stream
           /\ sockets[sock].stream \in Seq(Thread)
<1>0. /\ sockets \in Seq(Socket) /\ pc \in [Thread -> PC] /\ pc[t] = "send"
      /\ sock \in Numbers /\ died' \in BOOLEAN
      /\ \A u \in Thread : Requesting(u) => todo[u] # <<>> /\ sock \in Numbers
  BY DEF Types, Send, Goto, Requesting
<1>1. sockets[sock] \in Socket
  BY <1>0 DEF Numbers
<1>2. pc' \in [Thread -> PC] /\ sock' = sock /\ todo' = todo
  BY <1>0 DEF Send, Goto, PC
<1>3. sockets[sock].stream \in Seq(Thread)
  BY <1>1 DEF Socket
<1>4. CASE sockets[sock].to # {} /\ ~sockets[sock].closed
  <2> DEFINE v == [sockets[sock] EXCEPT !.stream = Append(@, t)]
  <2>1. Append(sockets[sock].stream, t) \in Seq(Thread)
    BY <1>3
  <2>2. /\ v \in Socket /\ v.to = sockets[sock].to
        /\ v.stream = Append(sockets[sock].stream, t) /\ v.closed = sockets[sock].closed
    BY <1>1, <2>1 DEF Socket
  <2>3. sockets' = [sockets EXCEPT ![sock] = v]
    BY <1>4 DEF Send
  <2> HIDE DEF v
  <2>4. /\ sockets' \in Seq(Socket) /\ Len(sockets') = Len(sockets)
        /\ Numbers' = Numbers /\ Position' = Position
        /\ \A r \in Numbers : sockets'[r] = IF r = sock THEN v ELSE sockets[r]
    BY <1>0, <2>2, <2>3, OneSocket
  <2>5. Types'
    BY <1>0, <1>2, <2>4 DEF Send, Goto, Types, Requesting, hosts
  <2> QED BY <1>0, <1>3, <1>4, <2>2, <2>4, <2>5
<1>5. CASE ~(sockets[sock].to # {} /\ ~sockets[sock].closed)
  <2>1. sockets' = sockets
    BY <1>5 DEF Send
  <2>2. Numbers' = Numbers /\ Position' = Position
    BY <2>1 DEF Numbers, Position
  <2>3. Types'
    BY <1>0, <1>2, <2>1, <2>2 DEF Send, Goto, Types, Requesting, hosts
  <2> QED BY <1>0, <1>3, <1>5, <2>1, <2>2, <2>3
<1> QED BY <1>4, <1>5

LEMMA LearnTypes ==
    ASSUME Types, NEW h \in Host, Learn(h)
    PROVE  Types'
<1>1. known_hosts' \in Seq(Host) /\ died' \in BOOLEAN /\ moved' \in BOOLEAN
  <2>1. known_hosts' \in Seq(Host)
    BY DEF Types, Learn
  <2>2. died' \in BOOLEAN
    BY DEF Learn
  <2>3. moved' \in BOOLEAN
    BY DEF Types, Learn
  <2> QED BY <2>1, <2>2, <2>3
<1>2. Numbers' = Numbers /\ Position' = Position
  BY DEF Learn, request, Numbers, Position
<1>3. \A u \in Thread : Requesting(u)' => todo'[u] # <<>> /\ sock' \in Numbers'
  BY <1>2 DEF Types, Learn, request, Requesting
<1> QED BY <1>1, <1>2, <1>3 DEF Types, Learn, request, hosts

LEMMA AcceptTypes ==
    ASSUME Types, NEW h \in Host, Accept(h)
    PROVE  /\ Types' /\ Numbers' = Numbers
           /\ serving[h] = 0 /\ queue[h] # <<>> /\ queue[h] \in Seq(Numbers)
           /\ serving'[h] = Head(queue[h]) /\ queue'[h] = Tail(queue[h])
           /\ \A g \in Host \ {h} : serving'[g] = serving[g] /\ queue'[g] = queue[g]
<1>0. /\ queue \in [Host -> Seq(Numbers)] /\ serving \in [Host -> Position]
      /\ queue[h] \in Seq(Numbers) /\ queue[h] # <<>> /\ serving[h] = 0
  BY DEF Types, Accept
<1>1. Head(queue[h]) \in Numbers /\ Tail(queue[h]) \in Seq(Numbers)
  BY <1>0, SeqTail
<1>2. Numbers' = Numbers /\ Position' = Position
  BY DEF Accept, request, Numbers, Position
<1>3. serving' \in [Host -> Position'] /\ queue' \in [Host -> Seq(Numbers')]
  BY <1>0, <1>1, <1>2 DEF Accept, Position
<1>4. \A u \in Thread : Requesting(u)' => todo'[u] # <<>> /\ sock' \in Numbers'
  BY <1>2 DEF Types, Accept, request, Requesting
<1>5. Types'
  BY <1>2, <1>3, <1>4 DEF Types, Accept, request
<1> QED BY <1>0, <1>2, <1>5 DEF Accept

LEMMA TakeTypes ==
    ASSUME Types, NEW h \in Host, Take(h)
    PROVE  /\ Types' /\ Numbers' = Numbers /\ serving[h] \in Numbers
           /\ sockets[serving[h]].stream # <<>> /\ sockets[serving[h]].stream \in Seq(Thread)
           /\ \A r \in Numbers : /\ r # serving[h] => sockets'[r] = sockets[r]
                                 /\ sockets'[r].to = sockets[r].to
                                 /\ sockets'[r].stream = sockets[r].stream
           /\ sockets'[serving[h]].closed
           /\ serving'[h] = 0 /\ \A g \in Host \ {h} : serving'[g] = serving[g]
           /\ got'[h] = Append(got[h], sockets[serving[h]].stream[1]) /\ got[h] \in Seq(Thread)
           /\ \A g \in Host \ {h} : got'[g] = got[g]
<1> DEFINE s == serving[h]
           v == [sockets[s] EXCEPT !.closed = TRUE]
<1>0. /\ serving \in [Host -> Position] /\ got \in [Host -> Seq(Thread)]
      /\ sockets \in Seq(Socket) /\ s # 0 /\ sockets[s].stream # <<>> /\ s \in Position
      /\ got[h] \in Seq(Thread)
  BY DEF Types, Take
<1>1. s \in Numbers
  BY <1>0 DEF Position
<1>2. sockets[s] \in Socket
  BY <1>0, <1>1 DEF Numbers
<1>3. /\ v \in Socket /\ v.to = sockets[s].to /\ v.stream = sockets[s].stream /\ v.closed
      /\ sockets[s].stream \in Seq(Thread)
  BY <1>2 DEF Socket
<1>4. sockets' = [sockets EXCEPT ![s] = v]
  BY DEF Take
<1> HIDE DEF v
<1>5. /\ sockets' \in Seq(Socket) /\ Len(sockets') = Len(sockets)
      /\ Numbers' = Numbers /\ Position' = Position
      /\ \A r \in Numbers : sockets'[r] = IF r = s THEN v ELSE sockets[r]
  BY <1>1, <1>3, <1>4, OneSocket
<1>6. sockets[s].stream[1] \in Thread
  BY <1>0, <1>3, SeqTail
<1>7. /\ serving' = [serving EXCEPT ![h] = 0]
      /\ got' = [got EXCEPT ![h] = Append(@, sockets[s].stream[1])]
  BY DEF Take
<1>8. Append(got[h], sockets[s].stream[1]) \in Seq(Thread)
  BY <1>0, <1>6
<1>9. got' \in [Host -> Seq(Thread)] /\ serving' \in [Host -> Position']
  BY <1>0, <1>5, <1>7, <1>8 DEF Position
<1>10. \A u \in Thread : Requesting(u)' => todo'[u] # <<>> /\ sock' \in Numbers'
  BY <1>5 DEF Types, Take, Requesting
<1>11. Types'
  BY <1>5, <1>9, <1>10 DEF Types, Take
<1> QED BY <1>0, <1>1, <1>3, <1>5, <1>7, <1>11

LEMMA TypeStep == Types /\ [Next]_vars => Types'
<1> SUFFICES ASSUME Types, [Next]_vars PROVE Types'
  OBVIOUS
<1>1. ASSUME NEW t \in Thread, Broadcast(t) \/ Step(t) PROVE Types'
  BY <1>1, QuietTypes, CreateSocketTypes, ConnectTypes, SendTypes DEF Step
<1>2. ASSUME NEW h \in Host, Learn(h) \/ Serve(h) PROVE Types'
  BY <1>2, LearnTypes, AcceptTypes, TakeTypes DEF Serve
<1>3. CASE UNCHANGED vars
  <2>1. Numbers' = Numbers /\ Position' = Position
    BY <1>3 DEF vars, request, Numbers, Position
  <2>2. \A u \in Thread : Requesting(u)' => todo'[u] # <<>> /\ sock' \in Numbers'
    BY <1>3, <2>1 DEF Types, vars, request, Requesting
  <2> QED BY <1>3, <2>1, <2>2 DEF Types, vars, request, hosts
<1> QED BY <1>1, <1>2, <1>3 DEF Next

LEMMA TypesStay == Spec => []Types
BY TypeInit, TypeStep, PTL DEF Spec

(* Every variable has its type, whatever the threads and hosts do.         *)
THEOREM TypeCorrect == Spec => []TypeOK
BY TypesStay, TypesAre, PTL

-----------------------------------------------------------------------------
(* Where the connections are.                                              *)

(* A connection that waits is at the host it leads to, once, and open.     *)
Waits(s, h) == sockets[s].to = {h} /\ ~sockets[s].closed
Orderly(s) ==
    /\ sockets[s].to = {} => sockets[s].stream = <<>>
    /\ sockets[s].closed => sockets[s].stream # <<>>
Listed(h) ==
    /\ serving[h] # 0 => Waits(serving[h], h)
    /\ \A i \in DOMAIN queue[h] :
          /\ Waits(queue[h][i], h) /\ queue[h][i] # serving[h]
          /\ \A j \in DOMAIN queue[h] : queue[h][i] = queue[h][j] => i = j
Places == (\A s \in Numbers : Orderly(s)) /\ (\A h \in Host : Listed(h))

(* A host at which nothing changes.                                        *)
LEMMA ListedStays ==
    ASSUME Types, Places, NEW h \in Host, queue'[h] = queue[h], serving'[h] = serving[h],
           \A s \in Numbers : Waits(s, h) => Waits(s, h)'
    PROVE  Listed(h)'
<1>1. queue[h] \in Seq(Numbers) /\ serving[h] \in Position
  BY DEF Types
<1>2. \A i \in DOMAIN queue[h] : queue[h][i] \in Numbers
  BY <1>1
<1>3. serving[h] # 0 => serving[h] \in Numbers
  BY <1>1 DEF Position
<1> QED BY <1>2, <1>3 DEF Places, Listed, Waits

LEMMA CreateSocketPlaces ==
    ASSUME Types, Places, NEW t \in Thread, CreateSocket(t) PROVE Places'
<1>1. /\ \A r \in Numbers : sockets'[r] = sockets[r]
      /\ Numbers' = Numbers \cup {sock'} /\ sockets'[sock'] = Fresh
  BY CreateSocketTypes
<1>2. \A s \in Numbers' : Orderly(s)'
  BY <1>1 DEF Places, Orderly, Fresh
<1>3. \A h \in Host : queue'[h] = queue[h] /\ serving'[h] = serving[h]
  BY DEF CreateSocket, hosts
<1>4. \A h \in Host : \A s \in Numbers : Waits(s, h) => Waits(s, h)'
  BY <1>1 DEF Waits
<1> QED BY <1>2, <1>3, <1>4, ListedStays DEF Places

LEMMA ConnectPlaces ==
    ASSUME Types, Places, NEW t \in Thread, Connect(t) PROVE Places'
<1>0. PICK host, n : host = Head(todo[t]) /\ n = sock
  OBVIOUS
<1>1. /\ Numbers' = Numbers /\ n \in Numbers /\ host \in Host
      /\ \A r \in Numbers : /\ r # n => sockets'[r] = sockets[r]
                            /\ sockets'[r].stream = sockets[r].stream
                            /\ sockets'[r].closed = sockets[r].closed
      /\ sockets'[n].to = IF connection' THEN {host} ELSE sockets[n].to
      /\ connection' <=> sockets[n].to = {} /\ host \in Up
  BY <1>0, ConnectTypes
<1>2. /\ queue' = IF connection' THEN [queue EXCEPT ![host] = Append(@, n)] ELSE queue
      /\ serving' = serving
  BY <1>0 DEF Connect
<1>3. queue \in [Host -> Seq(Numbers)] /\ serving \in [Host -> Position]
  BY DEF Types
<1>4. \A s \in Numbers : Orderly(s)'
  <2>1. \A s \in Numbers : sockets'[s].to = {} => sockets[s].to = {}
    BY <1>1
  <2> QED BY <1>1, <2>1 DEF Places, Orderly
<1>5. \A h \in Host : \A s \in Numbers : Waits(s, h) => s # n \/ ~connection'
  BY <1>1 DEF Waits
<1>6. \A h \in Host : \A s \in Numbers : Waits(s, h) => Waits(s, h)'
  BY <1>1 DEF Waits
<1>7. ASSUME NEW h \in Host, ~(connection' /\ h = host) PROVE Listed(h)'
  <2>1. queue'[h] = queue[h] /\ serving'[h] = serving[h]
    BY <1>2, <1>3, <1>7
  <2> QED BY <1>6, <2>1, ListedStays
<1>8. ASSUME connection' PROVE Listed(host)'
  <2> DEFINE q == queue[host]
             k == Len(q) + 1
             OK(s) == sockets'[s].to = {host} /\ ~sockets'[s].closed
  <2>1. q \in Seq(Numbers) /\ queue'[host] = Append(q, n) /\ serving[host] \in Position
    BY <1>1, <1>2, <1>3, <1>8
  <2>2. /\ queue'[host][k] = n /\ \A j \in DOMAIN q : queue'[host][j] = q[j]
        /\ DOMAIN queue'[host] = DOMAIN q \cup {k}
    BY <1>1, <2>1, SeqAppend
  <2>3. ~sockets[n].closed
    BY <1>1, <1>8 DEF Places, Orderly
  <2>4. OK(n)
    BY <1>1, <1>8, <2>3
  <2>5. \A j \in DOMAIN q : q[j] \in Numbers /\ Waits(q[j], host) /\ q[j] # serving[host]
    BY <1>1, <2>1 DEF Places, Listed
  <2>6. \A j \in DOMAIN q : OK(q[j]) /\ q[j] # n
    BY <1>1, <1>5, <1>8, <2>5 DEF Waits
  <2>7. serving[host] # 0 => serving[host] \in Numbers /\ OK(serving[host]) /\ serving[host] # n
    BY <1>1, <1>5, <1>8, <2>1 DEF Places, Listed, Position, Waits
  <2>8. n # 0
    BY <1>1 DEF Types, Numbers
  <2>9. \A i, j \in DOMAIN q : q[i] = q[j] => i = j
    BY <1>1 DEF Places, Listed
  <2> HIDE DEF q, k, OK
  <2>10. \A i \in DOMAIN queue'[host] :
            /\ OK(queue'[host][i]) /\ queue'[host][i] # serving[host]
            /\ \A j \in DOMAIN queue'[host] : queue'[host][i] = queue'[host][j] => i = j
    <3> TAKE i \in DOMAIN queue'[host]
    <3>1. CASE i = k
      BY <2>2, <2>4, <2>6, <2>7, <2>8, <3>1
    <3>2. CASE i \in DOMAIN q
      BY <2>2, <2>5, <2>6, <2>9, <3>2
    <3> QED BY <2>2, <3>1, <3>2
  <2> QED BY <1>2, <2>7, <2>10 DEF Listed, Waits, OK
<1> QED BY <1>1, <1>4, <1>7, <1>8 DEF Places

LEMMA SendPlaces ==
    ASSUME Types, Places, NEW t \in Thread, Send(t) PROVE Places'
<1>1. PICK n : /\ n = sock /\ n \in Numbers /\ Numbers' = Numbers
               /\ \A r \in Numbers : /\ r # n => sockets'[r] = sockets[r]
                                     /\ sockets'[r].to = sockets[r].to
                                     /\ sockets'[r].closed = sockets[r].closed
               /\ sockets'[n].stream = IF sockets[n].to # {} /\ ~sockets[n].closed
                                       THEN Append(sockets[n].stream, t) ELSE sockets[n].stream
               /\ sockets[n].stream \in Seq(Thread)
  BY SendTypes
<1>2. Append(sockets[n].stream, t) # <<>>
  <2>1. sockets[n].stream \in Seq(Thread)
    BY <1>1
  <2> QED BY <2>1, SeqGrown
<1>3. \A s \in Numbers : Orderly(s)'
  <2> TAKE s \in Numbers
  <2>1. CASE s = n
    BY <1>1, <1>2, <2>1 DEF Places, Orderly
  <2>2. CASE s # n
    BY <1>1, <2>2 DEF Places, Orderly
  <2> QED BY <2>1, <2>2
<1>4. \A h \in Host : queue'[h] = queue[h] /\ serving'[h] = serving[h]
  BY DEF Send, hosts
<1>5. \A h \in Host : \A s \in Numbers : Waits(s, h) => Waits(s, h)'
  BY <1>1 DEF Waits
<1> QED BY <1>1, <1>3, <1>4, <1>5, ListedStays DEF Places

LEMMA AcceptPlaces ==
    ASSUME Types, Places, NEW h \in Host, Accept(h) PROVE Places'
<1>1. /\ Numbers' = Numbers
      /\ serving[h] = 0 /\ queue[h] # <<>> /\ queue[h] \in Seq(Numbers)
      /\ serving'[h] = Head(queue[h]) /\ queue'[h] = Tail(queue[h])
      /\ \A g \in Host \ {h} : serving'[g] = serving[g] /\ queue'[g] = queue[g]
  BY AcceptTypes
<1>2. sockets' = sockets
  BY DEF Accept, request
<1>3. \A g \in Host \ {h} : Listed(g)'
  BY <1>1, <1>2, ListedStays DEF Waits
<1>4. Listed(h)'
  <2> DEFINE q == queue[h]
             r == queue'[h]
  <2>1. /\ Head(q) = q[1] /\ 1 \in DOMAIN q
        /\ \A j \in DOMAIN r : j + 1 \in DOMAIN q /\ r[j] = q[j + 1] /\ j + 1 # 1
    BY <1>1, SeqTail
  <2>2. \A i \in DOMAIN q : /\ Waits(q[i], h)
                            /\ \A j \in DOMAIN q : q[i] = q[j] => i = j
    BY DEF Places, Listed
  <2>3. \A i, j \in DOMAIN r : i + 1 = j + 1 => i = j
    <3>1. r \in Seq(Numbers)
      BY <1>1, SeqTail
    <3>2. \A i \in DOMAIN r : i \in Nat
      BY <3>1
    <3> QED BY <3>2
  <2> HIDE DEF q, r
  <2>4. serving'[h] = q[1]
    BY <1>1, <2>1 DEF q
  <2>5. Waits(serving'[h], h)
    BY <2>1, <2>2, <2>4
  <2>6. \A i \in DOMAIN r : /\ Waits(r[i], h) /\ r[i] # serving'[h]
                            /\ \A j \in DOMAIN r : r[i] = r[j] => i = j
    <3> TAKE i \in DOMAIN r
    <3>1. Waits(r[i], h) /\ r[i] # serving'[h]
      BY <2>1, <2>2, <2>4
    <3>2. \A j \in DOMAIN r : r[i] = r[j] => i = j
      BY <2>1, <2>2, <2>3
    <3> QED BY <3>1, <3>2
  <2> QED BY <1>2, <2>5, <2>6 DEF Listed, Waits, r
<1> QED BY <1>1, <1>2, <1>3, <1>4 DEF Places, Orderly

LEMMA TakePlaces ==
    ASSUME Types, Places, NEW h \in Host, Take(h) PROVE Places'
<1>1. PICK n : /\ n = serving[h] /\ n \in Numbers /\ Numbers' = Numbers
               /\ sockets[n].stream # <<>>
               /\ \A r \in Numbers : /\ r # n => sockets'[r] = sockets[r]
                                     /\ sockets'[r].to = sockets[r].to
                                     /\ sockets'[r].stream = sockets[r].stream
               /\ sockets'[n].closed /\ serving'[h] = 0
               /\ \A g \in Host \ {h} : serving'[g] = serving[g]
  BY TakeTypes
<1>2. queue' = queue /\ n # 0 /\ Waits(n, h) /\ queue[h] \in Seq(Numbers)
  <2>1. n # 0 /\ queue' = queue
    BY <1>1 DEF Take
  <2> QED BY <1>1, <2>1 DEF Types, Places, Listed
<1>3. \A s \in Numbers : Orderly(s)'
  BY <1>1 DEF Places, Orderly
<1>4. ASSUME NEW g \in Host \ {h} PROVE Listed(g)'
  <2>1. \A s \in Numbers : Waits(s, g) => s # n
    BY <1>2, <1>4 DEF Waits
  <2>2. \A s \in Numbers : Waits(s, g) => Waits(s, g)'
    BY <1>1, <2>1 DEF Waits
  <2> QED BY <1>1, <1>2, <2>2, ListedStays
<1>5. Listed(h)'
  <2>1. \A i \in DOMAIN queue[h] : queue[h][i] \in Numbers /\ queue[h][i] # 0
    <3>1. 0 \notin Numbers
      BY DEF Types, Numbers
    <3>2. \A i \in DOMAIN queue[h] : queue[h][i] \in Numbers
      BY <1>2
    <3> QED BY <3>1, <3>2
  <2>2. \A i \in DOMAIN queue[h] : sockets'[queue[h][i]] = sockets[queue[h][i]]
    <3>1. \A i \in DOMAIN queue[h] : queue[h][i] # n
      BY <1>1 DEF Places, Listed
    <3> QED BY <1>1, <2>1, <3>1
  <2>3. \A i \in DOMAIN queue[h] :
           /\ Waits(queue[h][i], h)
           /\ \A j \in DOMAIN queue[h] : queue[h][i] = queue[h][j] => i = j
    BY DEF Places, Listed
  <2> QED BY <1>1, <1>2, <2>1, <2>2, <2>3 DEF Listed, Waits
<1> QED BY <1>1, <1>3, <1>4, <1>5 DEF Places

LEMMA PlacesStep == Types /\ Places /\ [Next]_vars => Places'
<1> SUFFICES ASSUME Types, Places, [Next]_vars PROVE Places'
  OBVIOUS
<1>1. ASSUME sockets' = sockets, queue' = queue, serving' = serving PROVE Places'
  BY <1>1 DEF Places, Orderly, Listed, Waits, Numbers
<1>2. ASSUME NEW t \in Thread, Broadcast(t) \/ BroadcastEnd(t) \/ Check(t) PROVE Places'
  BY <1>1, <1>2 DEF Broadcast, BroadcastEnd, Check, hosts
<1>3. ASSUME NEW t \in Thread, RecvCall(t) \/ RecvReturn(t) PROVE Places'
  BY <1>1, <1>3 DEF RecvCall, RecvReturn, hosts
<1>4. ASSUME NEW t \in Thread, CreateSocket(t) \/ Connect(t) \/ Send(t) PROVE Places'
  BY <1>4, CreateSocketPlaces, ConnectPlaces, SendPlaces
<1>5. ASSUME NEW h \in Host, Accept(h) \/ Take(h) PROVE Places'
  BY <1>5, AcceptPlaces, TakePlaces
<1>6. ASSUME NEW h \in Host, Learn(h) PROVE Places'
  BY <1>1, <1>6 DEF Learn, request, hosts
<1>7. CASE UNCHANGED vars
  BY <1>1, <1>7 DEF vars, request, hosts
<1> QED BY <1>2, <1>3, <1>4, <1>5, <1>6, <1>7 DEF Next, Step, Serve

LEMMA PlacesStay == Spec => [](Types /\ Places)
<1>1. Init => Places
  BY DEF Init, Places, Listed, Numbers
<1> QED BY <1>1, PlacesStep, TypesStay, PTL DEF Spec

-----------------------------------------------------------------------------
(* One request at a time.                                                  *)

(* What the thread that is inside request knows of the socket.             *)
Connected(s) == sockets[s].to # {}
Silent(s) == sockets[s].stream = <<>>
Where(t) ==
    /\ pc[t] = "connect" => ~Connected(sock)
    /\ pc[t] = "check" => (connection <=> Connected(sock)) /\ Silent(sock)
    /\ pc[t] = "send" => Connected(sock) /\ Silent(sock)
    /\ pc[t] \in {"recv", "blocked"} => ~Silent(sock)
AboutToSend(t, s) == pc[t] \in {"check", "send"} /\ sock = s
OneRequest ==
    ~overlapped =>
        /\ \A t, u \in Thread : Requesting(t) /\ Requesting(u) => t = u
        /\ \A t \in Thread : Where(t)
        /\ \A s \in Numbers : Connected(s) /\ Silent(s) => \E t \in Thread : AboutToSend(t, s)

(* The other threads are outside request.                                  *)
LEMMA OneThread ==
    ASSUME Types, NEW t \in Thread, ~overlapped, OneRequest, Requesting(t),
           pc' \in [Thread -> PC], \A u \in Thread \ {t} : pc'[u] = pc[u]
    PROVE  /\ \A u \in Thread \ {t} : ~Requesting(u) /\ ~Requesting(u)'
           /\ \A v, u \in Thread : Requesting(v)' /\ Requesting(u)' => v = u
           /\ \A u \in Thread \ {t} : Where(u)'
<1>1. \A u \in Thread \ {t} : ~Requesting(u)
  BY DEF OneRequest
<1>2. \A u \in Thread \ {t} : ~Requesting(u)'
  BY <1>1 DEF Requesting
<1>3. \A u \in Thread \ {t} : Where(u)'
  BY <1>2 DEF Where, Requesting
<1> QED BY <1>1, <1>2, <1>3

LEMMA CreateSocketRequest ==
    ASSUME Types, Places, OneRequest, NEW t \in Thread, CreateSocket(t), ~overlapped'
    PROVE  OneRequest'
<1>1. /\ Numbers' = Numbers \cup {sock'} /\ sockets'[sock'] = Fresh
      /\ \A r \in Numbers : sockets'[r] = sockets[r]
  BY CreateSocketTypes
<1>2. ~overlapped /\ \A u \in Thread : ~Requesting(u)
  BY DEF CreateSocket
<1>3. pc' = [pc EXCEPT ![t] = "connect"] /\ pc \in [Thread -> PC]
  BY DEF CreateSocket, Goto, Types
<1>4. pc'[t] = "connect" /\ \A u \in Thread \ {t} : ~Requesting(u)'
  BY <1>2, <1>3 DEF Requesting
<1>5. \A u \in Thread : Where(u)'
  <2>1. ~Connected(sock)'
    BY <1>1 DEF Connected, Fresh
  <2> QED BY <1>4, <2>1 DEF Where, Requesting
<1>6. \A s \in Numbers : ~(Connected(s) /\ Silent(s))
  BY <1>2 DEF OneRequest, AboutToSend, Requesting
<1>7. \A s \in Numbers' : ~(Connected(s)' /\ Silent(s)')
  BY <1>1, <1>6 DEF Connected, Silent, Fresh
<1> QED BY <1>4, <1>5, <1>7 DEF OneRequest

LEMMA ConnectRequest ==
    ASSUME Types, Places, OneRequest, NEW t \in Thread, Connect(t), ~overlapped'
    PROVE  OneRequest'
<1>1. PICK n : /\ n = sock /\ n \in Numbers /\ Numbers' = Numbers
               /\ \A r \in Numbers : /\ r # n => sockets'[r] = sockets[r]
                                     /\ sockets'[r].stream = sockets[r].stream
               /\ sockets'[n].to = IF connection' THEN {Head(todo[t])} ELSE sockets[n].to
               /\ connection' => sockets[n].to = {}
  BY ConnectTypes
<1>2. /\ ~overlapped /\ sock' = sock /\ pc' = [pc EXCEPT ![t] = "check"] /\ pc \in [Thread -> PC]
      /\ pc[t] = "connect"
  BY DEF Connect, Goto, Types
<1>3. /\ pc'[t] = "check" /\ pc' \in [Thread -> PC] /\ \A u \in Thread \ {t} : pc'[u] = pc[u]
      /\ Requesting(t)
  BY <1>2 DEF PC, Requesting
<1>4. ~Connected(n)
  BY <1>1, <1>2 DEF OneRequest, Where
<1>5. Silent(n)
  BY <1>1, <1>4 DEF Places, Orderly, Connected, Silent
<1>6. (connection' <=> Connected(n)') /\ Silent(n)'
  BY <1>1, <1>4, <1>5 DEF Connected, Silent
<1>7. Where(t)'
  BY <1>1, <1>2, <1>3, <1>6 DEF Where, Connected, Silent
<1>8. ASSUME NEW s \in Numbers, Connected(s)', Silent(s)' PROVE AboutToSend(t, s)'
  <2>1. CASE s = n
    BY <1>1, <1>2, <1>3, <2>1 DEF AboutToSend
  <2>2. CASE s # n
    <3>1. Connected(s) /\ Silent(s)
      BY <1>1, <1>8, <2>2 DEF Connected, Silent
    <3>2. PICK u \in Thread : AboutToSend(u, s)
      BY <1>2, <3>1 DEF OneRequest
    <3> QED BY <1>1, <2>2, <3>2 DEF AboutToSend
  <2> QED BY <2>1, <2>2
<1>9. /\ \A v, u \in Thread : Requesting(v)' /\ Requesting(u)' => v = u
      /\ \A u \in Thread \ {t} : Where(u)'
  BY <1>2, <1>3, OneThread
<1> QED BY <1>1, <1>7, <1>8, <1>9 DEF OneRequest

LEMMA SendRequest ==
    ASSUME Types, Places, OneRequest, NEW t \in Thread, Send(t), ~overlapped'
    PROVE  OneRequest' /\ ~died'
<1>1. PICK n : /\ n = sock /\ n \in Numbers /\ Numbers' = Numbers
               /\ \A r \in Numbers : /\ r # n => sockets'[r] = sockets[r]
                                     /\ sockets'[r].to = sockets[r].to
               /\ sockets'[n].stream = IF sockets[n].to # {} /\ ~sockets[n].closed
                                       THEN Append(sockets[n].stream, t) ELSE sockets[n].stream
               /\ sockets[n].stream \in Seq(Thread)
  BY SendTypes
<1>2. /\ ~overlapped /\ sock' = sock /\ pc' = [pc EXCEPT ![t] = "recv"] /\ pc \in [Thread -> PC]
      /\ pc[t] = "send"
  BY DEF Send, Goto, Types
<1>3. /\ pc'[t] = "recv" /\ pc' \in [Thread -> PC] /\ \A u \in Thread \ {t} : pc'[u] = pc[u]
      /\ Requesting(t)
  BY <1>2 DEF PC, Requesting
<1>4. Connected(n) /\ Silent(n)
  BY <1>1, <1>2 DEF OneRequest, Where
<1>5. ~sockets[n].closed /\ sockets[n].to # {}
  BY <1>1, <1>4 DEF Places, Orderly, Connected, Silent
<1>6. ~Silent(n)'
  <2>1. sockets'[n].stream = Append(sockets[n].stream, t) /\ sockets[n].stream \in Seq(Thread)
    BY <1>1, <1>5
  <2>2. Append(sockets[n].stream, t) # <<>>
    BY <2>1, SeqGrown
  <2> QED BY <2>1, <2>2 DEF Silent
<1>7. Where(t)'
  BY <1>1, <1>2, <1>3, <1>6 DEF Where, Silent
<1>8. \A s \in Numbers : ~(Connected(s)' /\ Silent(s)')
  <2> SUFFICES ASSUME NEW s \in Numbers, Connected(s)', Silent(s)' PROVE FALSE
    OBVIOUS
  <2>1. s # n
    BY <1>6
  <2>2. Connected(s) /\ Silent(s)
    BY <1>1, <2>1 DEF Connected, Silent
  <2>3. PICK u \in Thread : AboutToSend(u, s)
    BY <1>2, <2>2 DEF OneRequest
  <2> QED BY <1>1, <2>1, <2>3 DEF AboutToSend
<1>9. /\ \A v, u \in Thread : Requesting(v)' /\ Requesting(u)' => v = u
      /\ \A u \in Thread \ {t} : Where(u)'
  BY <1>2, <1>3, OneThread
<1>10. OneRequest'
  BY <1>1, <1>7, <1>8, <1>9 DEF OneRequest
<1>11. ~died'
  BY <1>1, <1>5 DEF Send
<1> QED BY <1>10, <1>11

(* Steps of a thread that leave the sockets alone.                         *)
LEMMA QuietRequest ==
    ASSUME Types, Places, OneRequest, NEW t \in Thread, ~overlapped',
           Broadcast(t) \/ BroadcastEnd(t) \/ Check(t) \/ RecvCall(t) \/ RecvReturn(t)
    PROVE  OneRequest'
<1>1. /\ sockets' = sockets /\ sock' = sock /\ connection' = connection /\ ~overlapped
      /\ pc \in [Thread -> PC]
  BY DEF Broadcast, BroadcastEnd, Check, RecvCall, RecvReturn, Types
<1>2. /\ Numbers' = Numbers
      /\ \A s \in Numbers : (Connected(s)' <=> Connected(s)) /\ (Silent(s)' <=> Silent(s))
  BY <1>1 DEF Numbers, Connected, Silent
<1>3. CASE Broadcast(t) \/ BroadcastEnd(t)
  <2>1. /\ pc[t] \in {"start", "loop"}
        /\ pc'[t] \in {"loop", "done"}
        /\ \A u \in Thread \ {t} : pc'[u] = pc[u]
    BY <1>1, <1>3 DEF Broadcast, BroadcastEnd, Goto
  <2>2. ASSUME NEW u \in Thread PROVE Requesting(u)' <=> Requesting(u)
    <3>1. CASE u = t
      BY <2>1, <3>1 DEF Requesting
    <3>2. CASE u # t
      BY <2>1, <3>2 DEF Requesting
    <3> QED BY <3>1, <3>2
  <2>3. \A u \in Thread : Where(u)'
    BY <1>1, <2>1 DEF OneRequest, Where, Connected, Silent
  <2>4. ASSUME NEW s \in Numbers, NEW u \in Thread, AboutToSend(u, s) PROVE AboutToSend(u, s)'
    <3>1. u # t
      BY <2>1, <2>4 DEF AboutToSend
    <3> QED BY <1>1, <2>1, <2>4, <3>1 DEF AboutToSend
  <2> QED BY <1>1, <1>2, <2>2, <2>3, <2>4 DEF OneRequest
<1>4. CASE Check(t)
  <2>1. /\ pc[t] = "check" /\ \A u \in Thread \ {t} : pc'[u] = pc[u]
        /\ pc'[t] = IF connection THEN "send" ELSE "loop"
        /\ pc' \in [Thread -> PC] /\ Requesting(t)
    BY <1>1, <1>4 DEF Check, Goto, PC, Requesting
  <2>2. (connection <=> Connected(sock)) /\ Silent(sock)
    BY <1>1, <2>1 DEF OneRequest, Where
  <2>3. Where(t)'
    BY <1>1, <2>1, <2>2 DEF Where, Connected, Silent
  <2>4. /\ \A v, u \in Thread : Requesting(v)' /\ Requesting(u)' => v = u
        /\ \A u \in Thread \ {t} : Where(u)'
    BY <1>1, <2>1, OneThread
  <2>5. ASSUME NEW s \in Numbers, Connected(s), Silent(s)
        PROVE  \E u \in Thread : AboutToSend(u, s)'
    <3>1. PICK u \in Thread : AboutToSend(u, s)
      BY <1>1, <2>5 DEF OneRequest
    <3>2. u = t
      BY <1>1, <2>1, <3>1 DEF OneRequest, AboutToSend, Requesting
    <3>3. connection
      BY <2>2, <2>5, <3>1 DEF AboutToSend
    <3> QED BY <1>1, <2>1, <3>1, <3>2, <3>3 DEF AboutToSend
  <2> QED BY <1>2, <2>3, <2>4, <2>5 DEF OneRequest
<1>5. CASE RecvCall(t) \/ RecvReturn(t)
  <2>1. /\ pc[t] \in {"recv", "blocked"} /\ \A u \in Thread \ {t} : pc'[u] = pc[u]
        /\ pc'[t] \in {"blocked", "loop"}
        /\ pc' \in [Thread -> PC] /\ Requesting(t)
    BY <1>1, <1>5 DEF RecvCall, RecvReturn, Goto, PC, Requesting
  <2>2. ~Silent(sock)
    BY <1>1, <2>1 DEF OneRequest, Where
  <2>3. Where(t)'
    BY <1>1, <2>1, <2>2 DEF Where, Connected, Silent
  <2>4. /\ \A v, u \in Thread : Requesting(v)' /\ Requesting(u)' => v = u
        /\ \A u \in Thread \ {t} : Where(u)'
    BY <1>1, <2>1, OneThread
  <2>5. \A s \in Numbers : \A u \in Thread : AboutToSend(u, s) => AboutToSend(u, s)'
    BY <1>1, <2>1 DEF AboutToSend
  <2> QED BY <1>1, <1>2, <2>3, <2>4, <2>5 DEF OneRequest
<1> QED BY <1>3, <1>4, <1>5

(* What hosts do to a connection.                                          *)
LEMMA HostRequest ==
    ASSUME Types, Places, OneRequest, NEW h \in Host,
           Learn(h) \/ Accept(h) \/ Take(h), ~overlapped'
    PROVE  OneRequest'
<1>1. UNCHANGED <<pc, sock, connection, overlapped>>
  BY DEF Learn, Accept, Take, request
<1>2. /\ Numbers' = Numbers
      /\ \A s \in Numbers : (Connected(s)' <=> Connected(s)) /\ (Silent(s)' <=> Silent(s))
  <2>1. CASE Learn(h) \/ Accept(h)
    BY <2>1 DEF Learn, Accept, request, Numbers, Connected, Silent
  <2>2. CASE Take(h)
    BY <2>2, TakeTypes DEF Connected, Silent
  <2> QED BY <2>1, <2>2
<1>3. ASSUME NEW t \in Thread PROVE Where(t)'
  <2>1. CASE Requesting(t)
    <3>1. PICK n : n = sock /\ n \in Numbers
      BY <2>1 DEF Types
    <3>2. (Connected(n)' <=> Connected(n)) /\ (Silent(n)' <=> Silent(n))
      BY <1>2, <3>1
    <3>3. (Connected(sock)' <=> Connected(sock)) /\ (Silent(sock)' <=> Silent(sock))
      BY <1>1, <3>1, <3>2 DEF Connected, Silent
    <3> QED BY <1>1, <3>3 DEF OneRequest, Where
  <2>2. CASE ~Requesting(t)
    BY <1>1, <2>2 DEF Where, Requesting
  <2> QED BY <2>1, <2>2
<1> QED BY <1>1, <1>2, <1>3 DEF OneRequest, Requesting, AboutToSend

LEMMA OneRequestStep == Types /\ Places /\ OneRequest /\ [Next]_vars => OneRequest'
<1> SUFFICES ASSUME Types, Places, OneRequest, [Next]_vars, ~overlapped' PROVE OneRequest'
  BY DEF OneRequest
<1>1. ASSUME NEW t \in Thread, Broadcast(t) \/ Step(t) PROVE OneRequest'
  BY <1>1, QuietRequest, CreateSocketRequest, ConnectRequest, SendRequest DEF Step
<1>2. ASSUME NEW h \in Host, Learn(h) \/ Serve(h) PROVE OneRequest'
  BY <1>2, HostRequest DEF Serve
<1>3. CASE UNCHANGED vars
  BY <1>3 DEF vars, request, OneRequest, Requesting, Where, AboutToSend, Connected, Silent, Numbers
<1> QED BY <1>1, <1>2, <1>3 DEF Next

LEMMA OneRequestStays == Spec => [](Types /\ Places /\ OneRequest)
<1>1. Init => OneRequest
  BY DEF Init, OneRequest, Requesting, Where, Numbers
<1> QED BY <1>1, OneRequestStep, PlacesStay, PTL DEF Spec

(* A host that waits for a packet is waiting for a thread that is about to *)
(* send it.                                                                *)
THEOREM NobodyIsStuck == Spec => []HostsStuckOnlyByOverlap
<1>1. Types /\ Places /\ OneRequest => HostsStuckOnlyByOverlap
  <2> SUFFICES ASSUME Types, Places, OneRequest, ~overlapped, NEW h \in Host, serving[h] # 0,
                      Deserted(serving[h])
               PROVE  FALSE
    BY DEF HostsStuckOnlyByOverlap
  <2>1. serving[h] \in Numbers
    BY DEF Types, Position
  <2>2. Connected(serving[h]) /\ Silent(serving[h])
    BY DEF Places, Listed, Waits, Connected, Silent, Deserted
  <2>3. \E t \in Thread : AboutToSend(t, serving[h])
    BY <2>1, <2>2 DEF OneRequest
  <2> QED BY <2>3 DEF AboutToSend, Deserted
<1> QED BY <1>1, OneRequestStays, PTL

(* What the node may die of.                                               *)
THEOREM DiesOnlySo == Spec => []DiesOnlyByOverlap
<1>1. Init => DiesOnlyByOverlap
  BY DEF Init, DiesOnlyByOverlap
<1>2. Types /\ Places /\ OneRequest /\ DiesOnlyByOverlap /\ [Next]_vars => DiesOnlyByOverlap'
  <2> SUFFICES ASSUME Types, Places, OneRequest, DiesOnlyByOverlap, [Next]_vars,
                      ~overlapped', ~moved'
               PROVE  ~died'
    BY DEF DiesOnlyByOverlap
  <2>1. ASSUME UNCHANGED <<died, moved>>, overlapped => overlapped' PROVE ~died'
    BY <2>1 DEF DiesOnlyByOverlap, Types
  <2>2. ASSUME NEW t \in Thread, Broadcast(t) \/ BroadcastEnd(t) \/ CreateSocket(t) \/ Connect(t)
        PROVE  ~died'
    BY <2>1, <2>2 DEF Broadcast, BroadcastEnd, CreateSocket, Connect
  <2>3. ASSUME NEW t \in Thread, Check(t) \/ RecvCall(t) \/ RecvReturn(t) PROVE ~died'
    BY <2>1, <2>3 DEF Check, RecvCall, RecvReturn
  <2>4. ASSUME NEW t \in Thread, Send(t) PROVE ~died'
    BY <2>4, SendRequest
  <2>5. ASSUME NEW h \in Host, Learn(h) PROVE ~died'
    BY <2>5 DEF Learn
  <2>6. ASSUME NEW h \in Host, Serve(h) PROVE ~died'
    BY <2>1, <2>6 DEF Serve, Accept, Take
  <2>7. CASE UNCHANGED vars
    BY <2>1, <2>7 DEF vars
  <2> QED BY <2>2, <2>3, <2>4, <2>5, <2>6, <2>7 DEF Next, Step
<1> QED BY <1>1, <1>2, OneRequestStays, PTL DEF Spec

-----------------------------------------------------------------------------
(***************************************************************************)
(* That a broadcast reaches every host that listens, once: the argument    *)
(* that DeliveredOnceUnlessOverlapped holds, for any threads and hosts and *)
(* any list that names no host twice.                                      *)
(***************************************************************************)

Distinct(f) == \A i, j \in DOMAIN f : f[i] = f[j] => i = j

-----------------------------------------------------------------------------
(* Sequences without repetition.                                           *)

LEMMA DistinctTail ==
    ASSUME NEW S, NEW f \in Seq(S), f # <<>>, Distinct(f)
    PROVE  /\ Distinct(Tail(f)) /\ Head(f) \notin ToSet(Tail(f)) /\ Head(f) \in ToSet(f)
           /\ \A x \in ToSet(f) : x = Head(f) \/ x \in ToSet(Tail(f))
           /\ ToSet(Tail(f)) \subseteq ToSet(f)
<1>1. /\ 1 \in DOMAIN f /\ Head(f) = f[1] /\ DOMAIN f \subseteq Nat /\ DOMAIN Tail(f) \subseteq Nat
      /\ \A j \in DOMAIN Tail(f) : j + 1 \in DOMAIN f /\ Tail(f)[j] = f[j + 1] /\ j + 1 # 1
      /\ \A j \in DOMAIN f : j # 1 => j - 1 \in DOMAIN Tail(f) /\ Tail(f)[j - 1] = f[j]
  <2>1. DOMAIN f \subseteq Nat /\ DOMAIN Tail(f) \subseteq Nat
    OBVIOUS
  <2> QED BY <2>1, SeqTail
<1>2. Distinct(Tail(f))
  BY <1>1 DEF Distinct
<1>3. Head(f) \notin ToSet(Tail(f))
  BY <1>1 DEF Distinct, ToSet
<1>4. ASSUME NEW x \in ToSet(f), x # Head(f) PROVE x \in ToSet(Tail(f))
  <2>1. PICK j \in DOMAIN f : x = f[j]
    BY DEF ToSet
  <2>2. j - 1 \in DOMAIN Tail(f) /\ Tail(f)[j - 1] = x
    BY <1>1, <1>4, <2>1
  <2> QED BY <2>2 DEF ToSet
<1>5. ToSet(Tail(f)) \subseteq ToSet(f) /\ Head(f) \in ToSet(f)
  BY <1>1 DEF ToSet
<1> QED BY <1>2, <1>3, <1>4, <1>5

LEMMA DistinctAppend ==
    ASSUME NEW S, NEW f \in Seq(S), NEW v \in S
    PROVE  /\ Distinct(f) /\ v \notin ToSet(f) => Distinct(Append(f, v))
           /\ ToSet(Append(f, v)) = ToSet(f) \cup {v}
<1>1. /\ Append(f, v)[Len(f) + 1] = v /\ \A j \in DOMAIN f : Append(f, v)[j] = f[j]
      /\ DOMAIN Append(f, v) = DOMAIN f \cup {Len(f) + 1}
  BY SeqAppend
<1>2. Distinct(f) /\ v \notin ToSet(f) => Distinct(Append(f, v))
  BY <1>1 DEF Distinct, ToSet
<1>3. ToSet(Append(f, v)) = ToSet(f) \cup {v}
  BY <1>1 DEF ToSet
<1> QED BY <1>2, <1>3

-----------------------------------------------------------------------------
(* What the sockets have carried.                                          *)

Carries(s, t, h) ==
    sockets[s].to = {h} /\ sockets[s].stream # <<>> /\ sockets[s].stream[1] = t
Sent(t, h) == \E s \in Numbers : Carries(s, t, h)

(* A host has taken what came on the sockets it closed, and no two sockets *)
(* brought it the same.                                                    *)
Ledger(h) ==
    /\ Distinct(got[h])
    /\ \A t \in Thread :
          /\ t \in ToSet(got[h]) <=> \E s \in Numbers : Carries(s, t, h) /\ sockets[s].closed
          /\ \A r, s \in Numbers : Carries(r, t, h) /\ Carries(s, t, h) => r = s

(* Where the socket of a thread leads.                                     *)
Way(t) ==
    /\ Distinct(todo[t])
    /\ pc[t] = "done" => todo[t] = <<>>
    /\ pc[t] = "check" => (connection <=> Head(todo[t]) \in Up)
    /\ pc[t] \in {"check", "send"} /\ Connected(sock) => sockets[sock].to = {Head(todo[t])}
    /\ pc[t] \in {"recv", "blocked"} => Carries(sock, t, Head(todo[t]))
    /\ pc[t] = "blocked" => mine[t] = sock

(* A host is before a broadcast or behind it, and in that case was served. *)
Left(t) == IF pc[t] \in {"recv", "blocked"} THEN Tail(todo[t]) ELSE todo[t]
Route(t, h) ==
    /\ Sent(t, h) => pc[t] # "start" /\ h \notin ToSet(Left(t))
    /\ pc[t] # "start" /\ h \in ToSet(Known) /\ h \in Up
          => h \in ToSet(todo[t]) \/ t \in ToSet(got[h])

Delivery ==
    ~overlapped => /\ \A t \in Thread : Way(t)
                   /\ \A h \in Host : Ledger(h)
                   /\ \A t \in Thread : \A h \in Host : Route(t, h)
Listing == Distinct(known_hosts) /\ ToSet(Known) \subseteq ToSet(known_hosts)

(* A thread that a step does not touch.                                    *)
LEMMA WayStays ==
    ASSUME NEW u \in Thread, pc'[u] = pc[u], todo'[u] = todo[u], ~Requesting(u), Way(u)
    PROVE  Way(u)'
BY DEF Way, Requesting

LEMMA RouteStays ==
    ASSUME NEW u \in Thread, NEW h \in Host, pc'[u] = pc[u], todo'[u] = todo[u], Route(u, h),
           Sent(u, h)' => Sent(u, h), ToSet(got[h]) \subseteq ToSet(got[h])'
    PROVE  Route(u, h)'
BY DEF Route, Left

(* A step after which the sockets carry what they did.                     *)
LEMMA NetStays ==
    ASSUME NEW h \in Host, Ledger(h), got' = got, Numbers \subseteq Numbers',
           \A s \in Numbers : \A t \in Thread :
              /\ Carries(s, t, h)' <=> Carries(s, t, h)
              /\ sockets'[s].closed = sockets[s].closed,
           \A s \in Numbers' \ Numbers : \A t \in Thread : ~Carries(s, t, h)'
    PROVE  Ledger(h)' /\ \A t \in Thread : Sent(t, h)' <=> Sent(t, h)
<1>1. ASSUME NEW t \in Thread
      PROVE  /\ t \in ToSet(got'[h]) <=> \E s \in Numbers' : Carries(s, t, h)' /\ sockets'[s].closed
             /\ \A r, s \in Numbers' : Carries(r, t, h)' /\ Carries(s, t, h)' => r = s
             /\ Sent(t, h)' <=> Sent(t, h)
  BY DEF Ledger, Sent
<1>2. Distinct(got[h])'
  BY DEF Ledger
<1> QED BY <1>1, <1>2 DEF Ledger

LEMMA SocketsStay ==
    ASSUME sockets' = sockets, got' = got, NEW h \in Host, Ledger(h)
    PROVE  Ledger(h)' /\ \A t \in Thread : Sent(t, h)' <=> Sent(t, h)
BY DEF Ledger, Sent, Carries, Numbers

-----------------------------------------------------------------------------
(* The steps.                                                              *)

LEMMA BroadcastGood ==
    ASSUME Types, Delivery, Listing, ~overlapped, NEW t \in Thread, Broadcast(t) \/ BroadcastEnd(t)
    PROVE  Delivery'
<1>1. /\ sockets' = sockets /\ got' = got /\ sock' = sock /\ connection' = connection
      /\ mine' = mine /\ pc \in [Thread -> PC] /\ todo \in [Thread -> Seq(Host)]
      /\ known_hosts \in Seq(Host)
  BY DEF Broadcast, BroadcastEnd, Types, hosts
<1>2. \A h \in Host : Ledger(h)' /\ \A u \in Thread : Sent(u, h)' <=> Sent(u, h)
  BY <1>1, SocketsStay DEF Delivery
<1>3. /\ \A u \in Thread \ {t} : pc'[u] = pc[u] /\ todo'[u] = todo[u]
      /\ pc[t] \in {"start", "loop"} /\ pc'[t] \in {"loop", "done"}
      /\ pc[t] = "start" => todo'[t] = known_hosts /\ pc'[t] = "loop"
      /\ pc[t] = "loop" => todo[t] = <<>> /\ todo'[t] = <<>>
  BY <1>1 DEF Broadcast, BroadcastEnd, Goto
<1>4. ASSUME NEW u \in Thread PROVE Way(u)'
  <2>1. CASE u = t
    <3>1. Distinct(todo'[t])
      BY <1>3 DEF Listing, Distinct
    <3> QED BY <1>3, <2>1, <3>1 DEF Way
  <2>2. CASE u # t
    <3>1. Way(u) /\ pc'[u] = pc[u] /\ todo'[u] = todo[u]
      BY <1>3, <2>2 DEF Delivery
    <3> QED BY <1>1, <3>1 DEF Way, Carries, Connected
  <2> QED BY <2>1, <2>2
<1>5. ASSUME NEW u \in Thread, NEW h \in Host PROVE Route(u, h)'
  <2>1. Route(u, h)
    BY DEF Delivery
  <2>2. CASE u = t
    BY <1>1, <1>2, <1>3, <2>1, <2>2 DEF Route, Left, Listing
  <2>3. CASE u # t
    BY <1>1, <1>2, <1>3, <2>1, <2>3, RouteStays
  <2> QED BY <2>2, <2>3
<1> QED BY <1>2, <1>4, <1>5 DEF Delivery

LEMMA CreateSocketGood ==
    ASSUME Types, Delivery, NEW t \in Thread, CreateSocket(t), ~overlapped'
    PROVE  Delivery'
<1>1. PICK n : /\ n = sock' /\ n \notin Numbers /\ Numbers' = Numbers \cup {n}
               /\ sockets'[n] = Fresh /\ \A r \in Numbers : sockets'[r] = sockets[r]
  BY CreateSocketTypes
<1>2. /\ got' = got /\ ~overlapped /\ \A u \in Thread : ~Requesting(u)
      /\ pc \in [Thread -> PC] /\ todo' = todo
      /\ pc[t] = "loop" /\ pc'[t] = "connect" /\ \A u \in Thread \ {t} : pc'[u] = pc[u]
  BY DEF CreateSocket, Types, Goto, hosts
<1>3. ASSUME NEW h \in Host
      PROVE  Ledger(h)' /\ \A u \in Thread : Sent(u, h)' <=> Sent(u, h)
  <2>1. \A s \in Numbers : \A u \in Thread :
           (Carries(s, u, h)' <=> Carries(s, u, h)) /\ sockets'[s].closed = sockets[s].closed
    BY <1>1 DEF Carries
  <2>2. \A u \in Thread : ~Carries(n, u, h)'
    BY <1>1 DEF Carries, Fresh
  <2>3. Ledger(h)
    BY <1>2 DEF Delivery
  <2> QED BY <1>1, <1>2, <2>1, <2>2, <2>3, NetStays
<1>4. ASSUME NEW u \in Thread PROVE Way(u)'
  <2>1. Way(u)
    BY <1>2 DEF Delivery
  <2>2. CASE u = t
    BY <1>2, <2>1, <2>2 DEF Way
  <2>3. CASE u # t
    BY <1>2, <2>1, <2>3, WayStays
  <2> QED BY <2>2, <2>3
<1>5. ASSUME NEW u \in Thread, NEW h \in Host PROVE Route(u, h)'
  <2>1. Route(u, h) /\ (Sent(u, h)' <=> Sent(u, h))
    BY <1>2, <1>3 DEF Delivery
  <2>2. CASE u = t
    BY <1>2, <2>1, <2>2 DEF Route, Left
  <2>3. CASE u # t
    BY <1>2, <2>1, <2>3, RouteStays
  <2> QED BY <2>2, <2>3
<1> QED BY <1>3, <1>4, <1>5 DEF Delivery

LEMMA ConnectGood ==
    ASSUME Types, Places, OneRequest, Delivery, ~overlapped, NEW t \in Thread, Connect(t)
    PROVE  Delivery'
<1>1. PICK n : /\ n = sock /\ n \in Numbers /\ Numbers' = Numbers
               /\ \A r \in Numbers : /\ r # n => sockets'[r] = sockets[r]
                                     /\ sockets'[r].stream = sockets[r].stream
                                     /\ sockets'[r].closed = sockets[r].closed
               /\ sockets'[n].to = IF connection' THEN {Head(todo[t])} ELSE sockets[n].to
               /\ connection' <=> sockets[n].to = {} /\ Head(todo[t]) \in Up
  BY ConnectTypes
<1>2. /\ got' = got /\ todo' = todo /\ sock' = sock /\ pc \in [Thread -> PC]
      /\ pc[t] = "connect" /\ pc'[t] = "check" /\ \A u \in Thread \ {t} : pc'[u] = pc[u]
      /\ pc' \in [Thread -> PC] /\ Requesting(t)
  BY DEF Connect, Types, Goto, PC, Requesting
<1>3. sockets[n].to = {} /\ sockets[n].stream = <<>>
  BY <1>1, <1>2 DEF OneRequest, Where, Connected, Places, Orderly
<1>4. ASSUME NEW h \in Host
      PROVE  Ledger(h)' /\ \A u \in Thread : Sent(u, h)' <=> Sent(u, h)
  <2>1. \A s \in Numbers : \A u \in Thread :
           (Carries(s, u, h)' <=> Carries(s, u, h)) /\ sockets'[s].closed = sockets[s].closed
    BY <1>1, <1>3 DEF Carries
  <2>2. Ledger(h)
    BY DEF Delivery
  <2> QED BY <1>1, <1>2, <2>1, <2>2, NetStays
<1>5. ASSUME NEW u \in Thread PROVE Way(u)'
  <2>1. Way(u)
    BY DEF Delivery
  <2>2. CASE u = t
    BY <1>1, <1>2, <1>3, <2>1, <2>2 DEF Way, Connected
  <2>3. CASE u # t
    BY <1>2, <2>1, <2>3, WayStays DEF OneRequest
  <2> QED BY <2>2, <2>3
<1>6. ASSUME NEW u \in Thread, NEW h \in Host PROVE Route(u, h)'
  <2>1. Route(u, h) /\ (Sent(u, h)' <=> Sent(u, h))
    BY <1>4 DEF Delivery
  <2>2. CASE u = t
    BY <1>2, <2>1, <2>2 DEF Route, Left
  <2>3. CASE u # t
    BY <1>2, <2>1, <2>3, RouteStays
  <2> QED BY <2>2, <2>3
<1>7. overlapped' = overlapped
  BY DEF Connect
<1> QED BY <1>4, <1>5, <1>6 DEF Delivery

LEMMA CheckGood ==
    ASSUME Types, OneRequest, Delivery, ~overlapped, NEW t \in Thread, Check(t)
    PROVE  Delivery'
<1>1. /\ sockets' = sockets /\ got' = got /\ sock' = sock /\ connection' = connection
      /\ overlapped' = overlapped /\ pc' \in [Thread -> PC]
      /\ pc[t] = "check" /\ pc'[t] = IF connection THEN "send" ELSE "loop"
      /\ todo'[t] = IF connection THEN todo[t] ELSE Tail(todo[t])
      /\ \A u \in Thread \ {t} : pc'[u] = pc[u] /\ todo'[u] = todo[u]
      /\ todo[t] \in Seq(Host) /\ todo[t] # <<>> /\ Requesting(t)
  BY DEF Check, Goto, Types, PC, Requesting, hosts
<1>2. \A h \in Host : Ledger(h)' /\ \A u \in Thread : Sent(u, h)' <=> Sent(u, h)
  BY <1>1, SocketsStay DEF Delivery
<1>3. Way(t) /\ Where(t)
  BY DEF Delivery, OneRequest
<1>4. /\ Distinct(Tail(todo[t])) /\ ToSet(Tail(todo[t])) \subseteq ToSet(todo[t])
      /\ \A x \in ToSet(todo[t]) : x = Head(todo[t]) \/ x \in ToSet(Tail(todo[t]))
  BY <1>1, <1>3, DistinctTail DEF Way
<1>5. ASSUME NEW u \in Thread PROVE Way(u)'
  <2>1. CASE u = t
    <3>1. Distinct(todo'[t])
      BY <1>1, <1>3, <1>4 DEF Way
    <3> QED BY <1>1, <1>3, <2>1, <3>1 DEF Way, Connected
  <2>2. CASE u # t
    BY <1>1, <2>2, WayStays DEF OneRequest, Delivery
  <2> QED BY <2>1, <2>2
<1>6. ASSUME NEW u \in Thread, NEW h \in Host PROVE Route(u, h)'
  <2>1. Route(u, h) /\ (Sent(u, h)' <=> Sent(u, h))
    BY <1>2 DEF Delivery
  <2>2. CASE u = t
    <3>1. connection <=> Head(todo[t]) \in Up
      BY <1>1, <1>3 DEF Way
    <3> QED BY <1>1, <1>4, <2>1, <2>2, <3>1 DEF Route, Left
  <2>3. CASE u # t
    BY <1>1, <2>1, <2>3, RouteStays
  <2> QED BY <2>2, <2>3
<1> QED BY <1>2, <1>5, <1>6 DEF Delivery

LEMMA SendGood ==
    ASSUME Types, Places, OneRequest, Delivery, ~overlapped, NEW t \in Thread, Send(t)
    PROVE  Delivery'
<1>0. PICK host \in Host : host = Head(todo[t])
  <2>1. todo[t] \in Seq(Host) /\ todo[t] # <<>>
    BY DEF Send, Types, Goto, Requesting, hosts
  <2> QED BY <2>1, SeqTail
<1>1. PICK n : /\ n = sock /\ n \in Numbers /\ Numbers' = Numbers
               /\ \A r \in Numbers : /\ r # n => sockets'[r] = sockets[r]
                                     /\ sockets'[r].to = sockets[r].to
                                     /\ sockets'[r].closed = sockets[r].closed
               /\ sockets'[n].stream = IF sockets[n].to # {} /\ ~sockets[n].closed
                                       THEN Append(sockets[n].stream, t) ELSE sockets[n].stream
  BY SendTypes
<1>2. /\ got' = got /\ todo' = todo /\ sock' = sock /\ overlapped' = overlapped
      /\ pc[t] = "send" /\ pc'[t] = "recv" /\ \A u \in Thread \ {t} : pc'[u] = pc[u]
      /\ Requesting(t) /\ todo[t] \in Seq(Host) /\ todo[t] # <<>>
  BY DEF Send, Types, Goto, Requesting, hosts
<1>3. Way(t) /\ Connected(n) /\ Silent(n)
  BY <1>1, <1>2 DEF OneRequest, Where, Delivery
<1>4. /\ sockets[n].to = {host} /\ sockets[n].stream = <<>> /\ ~sockets[n].closed
  BY <1>0, <1>1, <1>2, <1>3 DEF Way, Silent, Places, Orderly
<1>5. sockets'[n].stream # <<>> /\ sockets'[n].stream[1] = t
  <2>1. sockets'[n].stream = Append(<<>>, t)
    BY <1>1, <1>4
  <2> QED BY <2>1
<1>6. /\ host \in Host /\ host \in ToSet(todo[t]) /\ host \notin ToSet(Tail(todo[t]))
      /\ ToSet(Tail(todo[t])) \subseteq ToSet(todo[t])
  BY <1>0, <1>2, <1>3, DistinctTail DEF Way
<1>7. \A s \in Numbers : \A u \in Thread : \A h \in Host :
         /\ u # t \/ h # host => (Carries(s, u, h)' <=> Carries(s, u, h))
         /\ Carries(s, t, host)' <=> (s = n \/ Carries(s, t, host))
  <2> SUFFICES ASSUME NEW s \in Numbers, NEW u \in Thread, NEW h \in Host
               PROVE  /\ u # t \/ h # host => (Carries(s, u, h)' <=> Carries(s, u, h))
                      /\ Carries(s, t, host)' <=> (s = n \/ Carries(s, t, host))
    OBVIOUS
  <2>1. CASE s # n
    BY <1>1, <2>1 DEF Carries
  <2>2. CASE s = n
    <3>1. ~Carries(n, u, h)
      BY <1>4 DEF Carries
    <3>2. Carries(n, t, host)'
      BY <1>1, <1>4, <1>5 DEF Carries
    <3>3. Carries(n, u, h)' => u = t /\ h = host
      <4>1. sockets'[n].to = {host}
        BY <1>1, <1>4
      <4>2. {host} = {h} => h = host
        OBVIOUS
      <4> QED BY <1>5, <4>1, <4>2 DEF Carries
    <3> QED BY <2>2, <3>1, <3>2, <3>3
  <2> QED BY <2>1, <2>2
<1>8. ~Sent(t, host)
  BY <1>2, <1>6 DEF Delivery, Route, Left
<1>9. ASSUME NEW h \in Host PROVE Ledger(h)'
  <2>1. Ledger(h)
    BY DEF Delivery
  <2>2. Distinct(got[h])'
    BY <1>2, <2>1 DEF Ledger
  <2>3. ASSUME NEW u \in Thread
        PROVE  /\ u \in ToSet(got'[h]) <=> \E s \in Numbers' : Carries(s, u, h)' /\ sockets'[s].closed
               /\ \A r, s \in Numbers' : Carries(r, u, h)' /\ Carries(s, u, h)' => r = s
    <3>1. CASE u # t \/ h # host
      BY <1>1, <1>2, <1>7, <2>1, <3>1 DEF Ledger
    <3>2. CASE u = t /\ h = host
      <4>1. \A s \in Numbers : Carries(s, t, host)' <=> s = n
        BY <1>6, <1>7, <1>8 DEF Sent
      <4>2. t \notin ToSet(got[host])
        BY <1>6, <1>8, <2>1, <3>2 DEF Ledger, Sent
      <4>3. ~sockets'[n].closed
        BY <1>1, <1>4
      <4> QED BY <1>1, <1>2, <3>2, <4>1, <4>2, <4>3
    <3> QED BY <3>1, <3>2
  <2> QED BY <2>2, <2>3 DEF Ledger
<1>10. ASSUME NEW u \in Thread PROVE Way(u)'
  <2>1. Way(u)
    BY DEF Delivery
  <2>2. CASE u = t
    <3>1. Carries(sock, t, host)'
      BY <1>1, <1>2, <1>7, <1>6
    <3> QED BY <1>0, <1>2, <2>1, <2>2, <3>1 DEF Way, Carries
  <2>3. CASE u # t
    BY <1>2, <2>1, <2>3, WayStays DEF OneRequest
  <2> QED BY <2>2, <2>3
<1>11. ASSUME NEW u \in Thread, NEW h \in Host PROVE Route(u, h)'
  <2>1. Route(u, h)
    BY DEF Delivery
  <2>2. u # t \/ h # host => (Sent(u, h)' <=> Sent(u, h))
    BY <1>1, <1>7 DEF Sent
  <2>3. CASE u = t /\ h = host
    BY <1>2, <1>6, <2>1, <2>3 DEF Route, Left
  <2>4. CASE u = t /\ h # host
    BY <1>2, <1>6, <2>1, <2>2, <2>4 DEF Route, Left
  <2>5. CASE u # t
    BY <1>2, <2>1, <2>2, <2>5, RouteStays
  <2> QED BY <2>3, <2>4, <2>5
<1> QED BY <1>9, <1>10, <1>11 DEF Delivery

LEMMA RecvGood ==
    ASSUME Types, OneRequest, Delivery, ~overlapped, NEW t \in Thread, RecvCall(t) \/ RecvReturn(t)
    PROVE  Delivery'
<1>1. /\ sockets' = sockets /\ got' = got /\ sock' = sock /\ overlapped' = overlapped
      /\ pc[t] \in {"recv", "blocked"} /\ Requesting(t)
      /\ \A u \in Thread \ {t} : pc'[u] = pc[u] /\ todo'[u] = todo[u]
      /\ todo[t] \in Seq(Host) /\ todo[t] # <<>>
  BY DEF RecvCall, RecvReturn, Goto, Types, Requesting, hosts
<1>2. \A h \in Host : Ledger(h)' /\ \A u \in Thread : Sent(u, h)' <=> Sent(u, h)
  BY <1>1, SocketsStay DEF Delivery
<1>3. Way(t) /\ Carries(sock, t, Head(todo[t])) /\ sock \in Numbers
  BY <1>1 DEF Delivery, Way, Types
<1>4. /\ Distinct(Tail(todo[t])) /\ ToSet(Tail(todo[t])) \subseteq ToSet(todo[t])
      /\ \A x \in ToSet(todo[t]) : x = Head(todo[t]) \/ x \in ToSet(Tail(todo[t]))
      /\ Head(todo[t]) \in Host
  BY <1>1, <1>3, DistinctTail, SeqTail DEF Way
<1>5. /\ RecvCall(t) => pc'[t] = "blocked" /\ mine'[t] = sock /\ todo'[t] = todo[t]
      /\ RecvReturn(t) => /\ pc[t] = "blocked" /\ pc'[t] = "loop" /\ todo'[t] = Tail(todo[t])
                          /\ sockets[sock].closed
  <2>1. RecvCall(t) => pc'[t] = "blocked" /\ mine'[t] = sock /\ todo'[t] = todo[t]
    BY DEF RecvCall, Goto, Types
  <2>2. ASSUME RecvReturn(t)
        PROVE  /\ pc[t] = "blocked" /\ pc'[t] = "loop" /\ todo'[t] = Tail(todo[t])
               /\ sockets[mine[t]].closed \/ sockets[mine[t]].to = {}
    BY <2>2 DEF RecvReturn, Goto, Types
  <2> QED BY <1>3, <2>1, <2>2 DEF Way, Carries
<1>6. ASSUME NEW u \in Thread PROVE Way(u)'
  <2>1. CASE u = t /\ RecvCall(t)
    <3>1. Carries(sock, t, Head(todo[t]))'
      BY <1>1, <1>3, <1>5, <2>1 DEF Carries
    <3> QED BY <1>1, <1>3, <1>5, <2>1, <3>1 DEF Way
  <2>2. CASE u = t /\ RecvReturn(t)
    BY <1>4, <1>5, <2>2 DEF Way
  <2>3. CASE u # t
    BY <1>1, <2>3, WayStays DEF OneRequest, Delivery
  <2> QED BY <2>1, <2>2, <2>3
<1>7. ASSUME NEW u \in Thread, NEW h \in Host PROVE Route(u, h)'
  <2>1. Route(u, h) /\ (Sent(u, h)' <=> Sent(u, h))
    BY <1>2 DEF Delivery
  <2>2. CASE u = t /\ RecvCall(t)
    BY <1>1, <1>5, <2>1, <2>2 DEF Route, Left
  <2>3. CASE u = t /\ RecvReturn(t)
    <3>1. t \in ToSet(got[Head(todo[t])])
      BY <1>3, <1>4, <1>5, <2>3 DEF Delivery, Ledger
    <3> QED BY <1>1, <1>4, <1>5, <2>1, <2>3, <3>1 DEF Route, Left
  <2>4. CASE u # t
    BY <1>1, <2>1, <2>4, RouteStays
  <2> QED BY <2>2, <2>3, <2>4
<1> QED BY <1>2, <1>6, <1>7 DEF Delivery

LEMMA TakeGood ==
    ASSUME Types, Places, Delivery, ~overlapped, NEW h \in Host, Take(h)
    PROVE  Delivery'
<1>1. PICK n : /\ n = serving[h] /\ n \in Numbers /\ Numbers' = Numbers /\ sockets[n].stream # <<>>
               /\ sockets[n].stream \in Seq(Thread) /\ sockets'[n].closed
               /\ \A r \in Numbers : /\ r # n => sockets'[r] = sockets[r]
                                     /\ sockets'[r].to = sockets[r].to
                                     /\ sockets'[r].stream = sockets[r].stream
               /\ got'[h] = Append(got[h], sockets[n].stream[1]) /\ got[h] \in Seq(Thread)
               /\ \A g \in Host \ {h} : got'[g] = got[g]
  BY TakeTypes
<1>2. /\ pc' = pc /\ todo' = todo /\ mine' = mine /\ sock' = sock /\ connection' = connection
      /\ overlapped' = overlapped
      /\ \A u \in Thread : Requesting(u) => sock \in Numbers
  BY DEF Take, Types
<1>3. sockets[n].to = {h} /\ ~sockets[n].closed
  <2>1. serving[h] # 0
    BY DEF Take
  <2> QED BY <1>1, <2>1 DEF Places, Listed, Waits
<1>4. PICK v \in Thread : v = sockets[n].stream[1]
  BY <1>1, SeqTail
<1>5. Carries(n, v, h) /\ \A u \in Thread : Carries(n, u, h) => u = v
  BY <1>1, <1>3, <1>4 DEF Carries
<1>6. \A s \in Numbers : \A u \in Thread : \A g \in Host : Carries(s, u, g)' <=> Carries(s, u, g)
  BY <1>1 DEF Carries
<1>7. v \notin ToSet(got[h])
  BY <1>1, <1>3, <1>5 DEF Delivery, Ledger
<1>8. /\ Distinct(got[h]) => Distinct(got'[h])
      /\ ToSet(got'[h]) = ToSet(got[h]) \cup {v}
  BY <1>1, <1>4, <1>7, DistinctAppend
<1>9. ASSUME NEW g \in Host PROVE Ledger(g)'
  <2>1. Ledger(g)
    BY DEF Delivery
  <2>2. Distinct(got[g])'
    BY <1>1, <1>8, <2>1 DEF Ledger
  <2>3. ASSUME NEW u \in Thread
        PROVE  /\ u \in ToSet(got'[g]) <=> \E s \in Numbers' : Carries(s, u, g)' /\ sockets'[s].closed
               /\ \A r, s \in Numbers' : Carries(r, u, g)' /\ Carries(s, u, g)' => r = s
    <3>1. CASE g = h
      <4>1. \A s \in Numbers : Carries(s, u, g)' <=> Carries(s, u, g)
        BY <1>6
      <4>2. \A r, s \in Numbers : Carries(r, u, g) /\ Carries(s, u, g) => r = s
        BY <2>1 DEF Ledger
      <4>3. CASE u = v
        <5>1. \E s \in Numbers : Carries(s, u, g)' /\ sockets'[s].closed
          BY <1>1, <1>5, <3>1, <4>1, <4>3
        <5>2. u \in ToSet(got'[g])
          BY <1>8, <3>1, <4>3
        <5> QED BY <1>1, <4>1, <4>2, <5>1, <5>2
      <4>4. CASE u # v
        <5>1. ~Carries(n, u, g)
          BY <1>5, <3>1, <4>4
        <5>2. \A s \in Numbers : Carries(s, u, g) => sockets'[s].closed = sockets[s].closed
          BY <1>1, <5>1
        <5>3. u \in ToSet(got'[g]) <=> u \in ToSet(got[g])
          BY <1>8, <3>1, <4>4
        <5>4. u \in ToSet(got[g]) <=> \E s \in Numbers : Carries(s, u, g) /\ sockets[s].closed
          BY <2>1 DEF Ledger
        <5> QED BY <1>1, <4>1, <4>2, <5>2, <5>3, <5>4
      <4> QED BY <4>3, <4>4
    <3>2. CASE g # h
      <4>1. ~Carries(n, u, g)
        BY <1>3, <3>2 DEF Carries
      <4> QED BY <1>1, <1>6, <2>1, <3>2, <4>1 DEF Ledger
    <3> QED BY <3>1, <3>2
  <2> QED BY <2>2, <2>3 DEF Ledger
<1>10. ASSUME NEW u \in Thread PROVE Way(u)'
  <2>1. Way(u)
    BY DEF Delivery
  <2>2. CASE Requesting(u)
    <3>1. PICK m \in Numbers : m = sock
      BY <1>2, <2>2
    <3>2. sockets'[m].to = sockets[m].to /\ sockets'[m].stream = sockets[m].stream
      BY <1>1, <3>1
    <3> QED BY <1>2, <2>1, <3>1, <3>2 DEF Way, Carries, Connected
  <2>3. CASE ~Requesting(u)
    BY <1>2, <2>1, <2>3, WayStays
  <2> QED BY <2>2, <2>3
<1>11. ASSUME NEW u \in Thread, NEW g \in Host PROVE Route(u, g)'
  <2>1. Route(u, g) /\ (Sent(u, g)' <=> Sent(u, g))
    BY <1>1, <1>6 DEF Delivery, Sent
  <2>2. ToSet(got[g]) \subseteq ToSet(got'[g])
    BY <1>1, <1>8
  <2> QED BY <1>2, <2>1, <2>2, RouteStays
<1> QED BY <1>9, <1>10, <1>11 DEF Delivery

(* Nothing that delivery is about changes.                                 *)
LEMMA StillGood ==
    ASSUME Delivery, UNCHANGED <<request, got, overlapped>>
    PROVE  Delivery'
<1> SUFFICES ASSUME ~overlapped PROVE Delivery'
  BY DEF Delivery
<1>1. \A h \in Host : Ledger(h)' /\ \A u \in Thread : Sent(u, h)' <=> Sent(u, h)
  BY SocketsStay DEF Delivery, request
<1>2. \A u \in Thread : Way(u)'
  BY DEF Delivery, request, Way, Carries, Connected
<1>3. \A u \in Thread : \A h \in Host : Route(u, h)'
  BY <1>1, RouteStays DEF Delivery, request
<1> QED BY <1>1, <1>2, <1>3 DEF Delivery

LEMMA DeliveryStep ==
    ASSUME Types, Places, OneRequest, Delivery, Listing, [Next]_vars PROVE Delivery'
<1> SUFFICES ASSUME ~overlapped' PROVE Delivery'
  BY DEF Delivery
<1>1. overlapped => overlapped'
  BY DEF Next, Step, Serve, Broadcast, BroadcastEnd, CreateSocket, Connect, Check, Send, RecvCall,
         RecvReturn, Learn, Accept, Take, vars
<1>2. ASSUME NEW t \in Thread, Broadcast(t) \/ Step(t) PROVE Delivery'
  BY <1>1, <1>2, BroadcastGood, CreateSocketGood, ConnectGood, CheckGood, SendGood, RecvGood DEF Step
<1>3. ASSUME NEW h \in Host, Learn(h) \/ Serve(h) PROVE Delivery'
  <2>1. CASE Learn(h)
    BY <2>1, StillGood DEF Learn, hosts
  <2>2. CASE Accept(h)
    BY <2>2, StillGood DEF Accept
  <2>3. CASE Take(h)
    BY <1>1, <2>3, TakeGood
  <2> QED BY <1>3, <2>1, <2>2, <2>3 DEF Serve
<1>4. CASE UNCHANGED vars
  BY <1>4, StillGood DEF vars, hosts
<1> QED BY <1>2, <1>3, <1>4 DEF Next

LEMMA ListingStep ==
    ASSUME Types, Listing, [Next]_vars PROVE Listing'
<1>1. ASSUME NEW h \in Host, Learn(h) PROVE Listing'
  <2>1. /\ known_hosts \in Seq(Host) /\ h \notin ToSet(known_hosts)
        /\ known_hosts' = Append(known_hosts, h)
    BY <1>1 DEF Types, Learn
  <2>2. Distinct(Append(known_hosts, h)) /\ ToSet(Append(known_hosts, h)) = ToSet(known_hosts) \cup {h}
    BY <2>1, DistinctAppend DEF Listing
  <2> QED BY <2>1, <2>2 DEF Listing
<1>2. ASSUME known_hosts' = known_hosts PROVE Listing'
  BY <1>2 DEF Listing
<1> QED BY <1>1, <1>2 DEF Next, Step, Serve, Broadcast, BroadcastEnd, CreateSocket, Connect, Check,
           Send, RecvCall, RecvReturn, Accept, Take, vars

LEMMA StartsGood == Distinct(Known) /\ Init => Delivery /\ Listing
<1> SUFFICES ASSUME Distinct(Known), Init PROVE Delivery /\ Listing
  OBVIOUS
<1>1. Listing
  BY DEF Init, Listing
<1>2. /\ \A t \in Thread : \A h \in Host : ~Sent(t, h)
      /\ Numbers = {}
  BY DEF Init, Sent, Numbers
<1>3. ToSet(<<>>) = {} /\ Distinct(<<>>)
  BY DEF ToSet, Distinct
<1>4. \A h \in Host : Ledger(h)
  BY <1>2, <1>3 DEF Init, Ledger
<1>5. \A t \in Thread : Way(t)
  BY <1>3 DEF Init, Way
<1>6. \A t \in Thread : \A h \in Host : Route(t, h)
  BY <1>2 DEF Init, Route
<1> QED BY <1>1, <1>4, <1>5, <1>6 DEF Delivery

-----------------------------------------------------------------------------
(* What it comes to.                                                       *)

LEMMA CopiesAre ==
    ASSUME Types, NEW h \in Host, NEW t \in Thread, Distinct(got[h])
    PROVE  Copies(h, t) = IF t \in ToSet(got[h]) THEN 1 ELSE 0
<1> DEFINE C == {i \in DOMAIN got[h] : got[h][i] = t}
<1>1. CASE t \in ToSet(got[h])
  <2>1. PICK i : i \in C
    BY <1>1 DEF ToSet
  <2>2. C = {i}
    BY <2>1 DEF Distinct
  <2> QED BY <1>1, <2>2, FS_Singleton DEF Copies
<1>2. CASE t \notin ToSet(got[h])
  <2>1. C = {}
    BY <1>2 DEF ToSet
  <2> QED BY <1>2, <2>1, FS_EmptySet DEF Copies
<1> QED BY <1>1, <1>2

(* Node::broadcast, NodeClient::request: with a list that names each host  *)
(* once, a broadcast that is through has reached every listed host that    *)
(* accepts connections, and nobody has a packet twice, unless two threads  *)
(* were inside request together.                                           *)
THEOREM DeliveredOnce ==
    Distinct(Known) => (Spec => []DeliveredOnceUnlessOverlapped)
<1> SUFFICES ASSUME Distinct(Known) PROVE Spec => []DeliveredOnceUnlessOverlapped
  OBVIOUS
<1>1. Init => Delivery /\ Listing
  BY StartsGood
<1>2. Types /\ Places /\ OneRequest /\ Delivery /\ Listing /\ [Next]_vars => Delivery' /\ Listing'
  BY DeliveryStep, ListingStep
<1>3. Types /\ Delivery => DeliveredOnceUnlessOverlapped
  <2> SUFFICES ASSUME Types, Delivery, ~overlapped, NEW t \in Thread
               PROVE  /\ \A h \in Host : Copies(h, t) <= 1
                      /\ pc[t] = "done" => \A h \in ToSet(Known) \cap Up : Copies(h, t) = 1
    BY DEF DeliveredOnceUnlessOverlapped
  <2>1. \A h \in Host : Copies(h, t) = IF t \in ToSet(got[h]) THEN 1 ELSE 0
    BY CopiesAre DEF Delivery, Ledger
  <2>2. ASSUME pc[t] = "done", NEW h \in ToSet(Known) \cap Up PROVE Copies(h, t) = 1
    <3>1. h \in Host
      BY ClientAssumption
    <3>2. todo[t] = <<>> /\ ToSet(<<>>) = {}
      BY <2>2 DEF Delivery, Way, ToSet
    <3>3. t \in ToSet(got[h])
      BY <2>2, <3>1, <3>2 DEF Delivery, Route
    <3> QED BY <2>1, <3>1, <3>3
  <2> QED BY <2>1, <2>2
<1> QED BY <1>1, <1>2, <1>3, OneRequestStays, PTL DEF Spec
=============================================================================
