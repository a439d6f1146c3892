-------------------------- MODULE ThreadPoolProofs --------------------------
(***************************************************************************)
(* Proofs about ThreadPool, for any number of workers, callers and items:  *)
(* the invariants the runs check, and that the pool implements WorkQueue.  *)
(***************************************************************************)
EXTENDS ThreadPool, FiniteSetTheorems, SequenceTheorems, TLAPS

PoolInv == TypeOK /\ StopsLast /\ ItemsOnce /\ NoItemStranded

-----------------------------------------------------------------------------
(* Types.                                                                  *)

(* A queue gets one signal per worker and stays a queue.                   *)
LEMMA StopsType ==
    ASSUME NEW q \in Seq(Items \cup {Stop})
    PROVE  LET n == Cardinality(Workers)
               r == q \o [i \in 1 .. n |-> Stop]
           IN  /\ n \in Nat \ {0}
               /\ r \in Seq(Items \cup {Stop})
               /\ Len(r) = Len(q) + n
               /\ \A i \in 1 .. Len(r) : r[i] = IF i <= Len(q) THEN q[i] ELSE Stop
<1> DEFINE n == Cardinality(Workers)
           t == [i \in 1 .. n |-> Stop]
<1>1. n \in Nat
  BY ThreadPoolAssumption, FS_CardinalityType
<1>2. n # 0
  BY ThreadPoolAssumption, FS_EmptySet
<1>3. t \in Seq(Items \cup {Stop}) /\ Len(t) = n
  BY <1>1
<1> HIDE DEF n
<1>4. \A i \in 1 .. n : t[i] = Stop
  OBVIOUS
<1> HIDE DEF t
<1>5. /\ q \o t \in Seq(Items \cup {Stop})
      /\ Len(q \o t) = Len(q) + n
      /\ \A i \in 1 .. Len(q) + n : (q \o t)[i] = IF i <= Len(q) THEN q[i] ELSE t[i - Len(q)]
  BY <1>1, <1>3, ConcatProperties
<1>6. \A i \in 1 .. Len(q) + n : (q \o t)[i] = IF i <= Len(q) THEN q[i] ELSE Stop
  <2> SUFFICES ASSUME NEW i \in 1 .. Len(q) + n, ~(i <= Len(q))
               PROVE  t[i - Len(q)] = Stop
    BY <1>5
  <2>1. Len(q) \in Nat
    BY LenProperties
  <2>2. i - Len(q) \in 1 .. n
    BY <1>1, <2>1
  <2> QED BY <2>2, <1>4
<1> QED BY <1>1, <1>2, <1>5, <1>6 DEF n, t

(* The initial state satisfies the invariant.                              *)
LEMMA InitInv == Init => PoolInv
<1> SUFFICES ASSUME Init PROVE PoolInv
  OBVIOUS
<1>1. TypeOK
  BY DEF Init, TypeOK
<1>2. Backlog = 0 /\ Done = {} /\ Waiting = {} /\ queue = <<>>
  BY DEF Init, Backlog, StopsLeft, Joining, Done, Waiting
<1>3. StopsLast
  BY <1>2 DEF StopsLast
<1>4. ItemsOnce
  BY <1>2 DEF Init, ItemsOnce
<1>5. NoItemStranded
  BY <1>2 DEF NoItemStranded
<1> QED BY <1>1, <1>3, <1>4, <1>5 DEF PoolInv

(* Every action keeps the types.                                           *)
LEMMA StepTypes == TypeOK /\ [Next]_vars => TypeOK'
<1> SUFFICES ASSUME TypeOK, [Next]_vars PROVE TypeOK'
  OBVIOUS
<1> USE DEF TypeOK
<1>1. ASSUME NEW w \in Workers, Spawn(w) PROVE TypeOK'
  BY <1>1 DEF Spawn
<1>2. CASE Constructed \/ Join
  BY <1>2 DEF Constructed, Join
<1>3. CASE Destroy
  BY <1>3, StopsType DEF Destroy
<1>4. ASSUME NEW c \in Callers, Notify(c) PROVE TypeOK'
  BY <1>4 DEF Notify, Waiting
<1>5. ASSUME NEW c \in Callers, NEW i \in Items, Push(c, i) PROVE TypeOK'
  BY <1>5, AppendProperties DEF Push
<1>6. ASSUME NEW w \in Workers, Sleep(w) \/ WakeSpuriously(w) PROVE TypeOK'
  BY <1>6 DEF Sleep, WakeSpuriously
<1>7. ASSUME NEW w \in Workers, Take(w) PROVE TypeOK'
  <2>1. queue' \in Seq(Items \cup {Stop}) /\ Head(queue) \in Items \cup {Stop}
    BY <1>7, HeadTailProperties DEF Take
  <2> QED BY <1>7, <2>1 DEF Take
<1>8. ASSUME NEW w \in Workers, TakeStop(w) PROVE TypeOK'
  <2>1. queue' \in Seq(Items \cup {Stop})
    BY <1>8, HeadTailProperties DEF TakeStop
  <2> QED BY <1>8, <2>1 DEF TakeStop
<1>9. ASSUME NEW w \in Workers, Finish(w) PROVE TypeOK'
  BY <1>9 DEF Finish
<1>10. CASE UNCHANGED vars
  BY <1>10 DEF vars
<1> QED BY <1>1, <1>2, <1>3, <1>4, <1>5, <1>6, <1>7, <1>8, <1>9, <1>10
        DEF Next, Owner, Worker

-----------------------------------------------------------------------------
(* How the number of items in the queue changes.                           *)

(* The signals in the queue are counted by a natural number.               *)
LEMMA StopsLeftType ==
    /\ StopsLeft \in Nat
    /\ IsFiniteSet(Workers \ Done)
<1>1. IsFiniteSet(Workers \ Done) /\ Cardinality(Workers \ Done) \in Nat
  BY ThreadPoolAssumption, FS_Subset, FS_CardinalityType
<1> QED BY <1>1 DEF StopsLeft

(* The length of the queue and the backlog are numbers.                    *)
LEMMA BacklogType ==
    ASSUME TypeOK
    PROVE  Len(queue) \in Nat /\ DOMAIN queue = 1 .. Len(queue) /\ Backlog \in Int
BY StopsLeftType, LenProperties DEF TypeOK, Backlog

(* The same in the state after a step.                                     *)
LEMMA BacklogTypeNext ==
    ASSUME TypeOK'
    PROVE  Len(queue') \in Nat /\ DOMAIN queue' = 1 .. Len(queue') /\ Backlog' \in Int
<1>1. Cardinality(Workers \ Done') \in Nat
  BY ThreadPoolAssumption, FS_Subset, FS_CardinalityType
<1>2. StopsLeft' \in Nat
  BY <1>1 DEF StopsLeft
<1> QED BY <1>2, LenProperties DEF TypeOK, Backlog

(* Steps that leave the queue alone and end no worker.                     *)
Quiet ==
    /\ queue' = queue
    /\ Done' = Done
    /\ Joining' <=> Joining

(* They leave the backlog as it is.                                        *)
LEMMA QuietBacklog == Quiet => Backlog' = Backlog
BY DEF Quiet, Backlog, StopsLeft

(* All steps but four kinds are quiet.                                     *)
LEMMA QuietSteps ==
    ASSUME TypeOK
    PROVE  /\ \A w \in Workers : Spawn(w) => Quiet
           /\ Constructed => Quiet
           /\ Join => Quiet
           /\ \A c \in Callers : Notify(c) => Quiet
           /\ \A w \in Workers : Sleep(w) => Quiet
           /\ \A w \in Workers : WakeSpuriously(w) => Quiet
           /\ \A w \in Workers : Finish(w) => Quiet
           /\ UNCHANGED vars => Quiet
<1> USE DEF TypeOK, Quiet, Done, Joining
<1>1. ASSUME NEW w \in Workers, Spawn(w) PROVE Quiet
  BY <1>1 DEF Spawn
<1>2. ASSUME Constructed PROVE Quiet
  BY <1>2 DEF Constructed
<1>3. ASSUME Join PROVE Quiet
  BY <1>3 DEF Join
<1>4. ASSUME NEW c \in Callers, Notify(c) PROVE Quiet
  BY <1>4 DEF Notify, Waiting
<1>5. ASSUME NEW w \in Workers, Sleep(w) PROVE Quiet
  BY <1>5 DEF Sleep
<1>6. ASSUME NEW w \in Workers, WakeSpuriously(w) PROVE Quiet
  BY <1>6 DEF WakeSpuriously
<1>7. ASSUME NEW w \in Workers, Finish(w) PROVE Quiet
  BY <1>7 DEF Finish
<1>8. ASSUME UNCHANGED vars PROVE Quiet
  BY <1>8 DEF vars
<1> QED BY ONLY <1>1, <1>2, <1>3, <1>4, <1>5, <1>6, <1>7, <1>8

(* do_work adds one item at the end.                                       *)
LEMMA PushBacklog ==
    ASSUME TypeOK, NEW c \in Callers, NEW i \in Items, Push(c, i)
    PROVE  /\ Backlog = Len(queue) /\ Backlog' = Backlog + 1
           /\ Len(queue') = Len(queue) + 1
           /\ \A k \in 1 .. Len(queue) : queue'[k] = queue[k]
           /\ queue'[Len(queue) + 1] = i
           /\ Done' = Done /\ ~Joining
<1>1. ~Joining /\ ~Joining' /\ Done' = Done /\ queue' = Append(queue, i)
  BY DEF Push, Joining, Done
<1>2. queue \in Seq(Items \cup {Stop}) /\ i \in Items \cup {Stop}
  BY DEF TypeOK
<1>3. /\ Len(queue') = Len(queue) + 1
      /\ \A k \in 1 .. Len(queue) : queue'[k] = queue[k]
      /\ queue'[Len(queue) + 1] = i
  BY <1>1, <1>2, AppendProperties
<1> QED BY <1>1, <1>2, <1>3, LenProperties DEF Backlog, StopsLeft

(* The destructor adds signals only.                                       *)
LEMMA DestroyBacklog ==
    ASSUME TypeOK, StopsLast, Destroy
    PROVE  /\ Backlog = Len(queue) /\ Backlog' = Backlog
           /\ Len(queue') \in Nat /\ Len(queue') >= Len(queue)
           /\ \A k \in 1 .. Len(queue') :
                 queue'[k] = IF k <= Len(queue) THEN queue[k] ELSE Stop
           /\ Done' = Done /\ Done = {} /\ Joining'
<1>1. ~Joining /\ Joining' /\ Done' = Done
  BY DEF Destroy, Joining, Done
<1>2. Done = {}
  BY <1>1 DEF StopsLast
<1>3. queue \in Seq(Items \cup {Stop}) /\ Len(queue) \in Nat
  BY LenProperties DEF TypeOK
<1> DEFINE n == Cardinality(Workers)
<1>4. /\ n \in Nat
      /\ Len(queue') = Len(queue) + n
      /\ \A k \in 1 .. Len(queue') :
            queue'[k] = IF k <= Len(queue) THEN queue[k] ELSE Stop
  BY <1>3, StopsType DEF Destroy
<1>5. Workers \ Done' = Workers
  BY <1>1, <1>2
<1>6. StopsLeft = 0 /\ StopsLeft' = n
  BY <1>1, <1>5 DEF StopsLeft
<1> HIDE DEF n
<1> QED BY <1>1, <1>2, <1>3, <1>4, <1>6 DEF Backlog

(* A worker takes the oldest item.                                         *)
LEMMA TakeBacklog ==
    ASSUME TypeOK, StopsLast, NEW w \in Workers, Take(w)
    PROVE  /\ Backlog > 0 /\ Backlog' = Backlog - 1
           /\ Len(queue) > 0 /\ Len(queue') = Len(queue) - 1
           /\ \A k \in 1 .. Len(queue') : queue'[k] = queue[k + 1]
           /\ Head(queue) = queue[1]
           /\ Done' = Done /\ (Joining' <=> Joining)
<1>1. Done' = Done /\ (Joining' <=> Joining)
  BY DEF Take, Done, Joining, TypeOK
<1>2. queue \in Seq(Items \cup {Stop}) /\ queue # <<>> /\ queue' = Tail(queue)
  BY DEF TypeOK, Take
<1>3. /\ Len(queue) \in Nat /\ Len(queue) > 0 /\ Len(queue') = Len(queue) - 1
      /\ \A k \in 1 .. Len(queue') : queue'[k] = queue[k + 1]
      /\ Head(queue) = queue[1]
  <2>1. Len(queue) \in Nat /\ Len(queue) # 0
    BY <1>2, EmptySeq, LenProperties
  <2> QED BY <1>2, <2>1, HeadTailProperties
<1>4. ~(1 > Backlog)
  BY <1>3, BacklogType DEF StopsLast, Take
<1>5. StopsLeft' = StopsLeft /\ StopsLeft \in Nat
  BY <1>1, StopsLeftType DEF StopsLeft
<1> QED BY <1>1, <1>3, <1>4, <1>5 DEF Backlog

(* A worker takes a signal, which stands first because no item is left.    *)
LEMMA TakeStopBacklog ==
    ASSUME TypeOK, StopsLast, NEW w \in Workers, TakeStop(w)
    PROVE  /\ Backlog = 0 /\ Backlog' = 0
           /\ Len(queue) > 0 /\ Len(queue') = Len(queue) - 1
           /\ \A k \in 1 .. Len(queue') : queue'[k] = queue[k + 1]
           /\ Done' = Done \cup {w} /\ Joining /\ Joining'
<1>2. queue \in Seq(Items \cup {Stop}) /\ queue # <<>> /\ queue' = Tail(queue)
  BY DEF TypeOK, TakeStop
<1>3. /\ Len(queue) \in Nat /\ Len(queue) > 0 /\ Len(queue') = Len(queue) - 1
      /\ \A k \in 1 .. Len(queue') : queue'[k] = queue[k + 1]
      /\ Head(queue) = queue[1]
  <2>1. Len(queue) \in Nat /\ Len(queue) # 0
    BY <1>2, EmptySeq, LenProperties
  <2> QED BY <1>2, <2>1, HeadTailProperties
<1>4. 1 > Backlog
  BY <1>3, BacklogType DEF StopsLast, TakeStop
<1>5. Backlog = 0
  BY <1>4, BacklogType DEF StopsLast
<1>6. StopsLeft > 0
  BY <1>3, <1>5, StopsLeftType DEF Backlog
<1>7. Joining /\ Joining'
  BY <1>6 DEF StopsLeft, TakeStop, Joining
<1>8. Done' = Done \cup {w} /\ w \notin Done
  BY DEF TakeStop, Done, TypeOK
<1>9. Cardinality((Workers \ Done) \ {w}) = Cardinality(Workers \ Done) - 1
  BY <1>8, StopsLeftType, FS_RemoveElement
<1>10. Workers \ Done' = (Workers \ Done) \ {w}
  BY <1>8
<1>11. StopsLeft' = StopsLeft - 1
  BY <1>7, <1>9, <1>10 DEF StopsLeft
<1> QED BY <1>3, <1>5, <1>7, <1>8, <1>11, StopsLeftType DEF Backlog

-----------------------------------------------------------------------------
(* The signals stand last.                                                 *)

(* Every step keeps the order of items and signals in the queue.           *)
LEMMA StepStopsLast == TypeOK /\ StopsLast /\ [Next]_vars => StopsLast'
<1> SUFFICES ASSUME TypeOK, StopsLast, [Next]_vars PROVE StopsLast'
  OBVIOUS
<1>0. TypeOK'
  BY StepTypes
<1>1. /\ Len(queue) \in Nat /\ DOMAIN queue = 1 .. Len(queue) /\ Backlog \in Int
      /\ Len(queue') \in Nat /\ DOMAIN queue' = 1 .. Len(queue') /\ Backlog' \in Int
  BY <1>0, BacklogType, BacklogTypeNext
<1>2. ASSUME Quiet PROVE StopsLast'
  BY <1>2, QuietBacklog DEF Quiet, StopsLast
<1>3. ASSUME NEW c \in Callers, NEW i \in Items, Push(c, i) PROVE StopsLast'
  <2>1. i # Stop
    BY ThreadPoolAssumption
  <2>2. /\ Backlog = Len(queue) /\ Backlog' = Backlog + 1
        /\ Len(queue') = Len(queue) + 1
        /\ \A k \in 1 .. Len(queue) : queue'[k] = queue[k]
        /\ queue'[Len(queue) + 1] = i
        /\ Done' = Done /\ ~Joining
    BY <1>3, PushBacklog
  <2>3. Done' = {}
    BY <2>2 DEF StopsLast
  <2>4. \A k \in 1 .. Len(queue') : queue'[k] = Stop <=> k > Backlog'
    BY <1>1, <2>1, <2>2 DEF StopsLast
  <2> QED BY <1>1, <2>2, <2>3, <2>4 DEF StopsLast
<1>4. CASE Destroy
  <2>1. /\ Backlog = Len(queue) /\ Backlog' = Backlog
        /\ Len(queue') \in Nat /\ Len(queue') >= Len(queue)
        /\ \A k \in 1 .. Len(queue') :
              queue'[k] = IF k <= Len(queue) THEN queue[k] ELSE Stop
        /\ Done' = {}
    BY <1>4, DestroyBacklog
  <2>2. \A k \in 1 .. Len(queue') : queue'[k] = Stop <=> k > Backlog'
    BY <1>1, <2>1 DEF StopsLast
  <2> QED BY <1>1, <2>1, <2>2 DEF StopsLast
<1>5. ASSUME NEW w \in Workers, Take(w) PROVE StopsLast'
  <2>1. /\ Backlog > 0 /\ Backlog' = Backlog - 1
        /\ Len(queue) > 0 /\ Len(queue') = Len(queue) - 1
        /\ \A k \in 1 .. Len(queue') : queue'[k] = queue[k + 1]
        /\ Done' = Done /\ (Joining' <=> Joining)
    BY <1>5, TakeBacklog
  <2>2. \A k \in 1 .. Len(queue') : queue'[k] = Stop <=> k > Backlog'
    BY <1>1, <2>1 DEF StopsLast
  <2>3. Done' = {}
    BY <1>1, <2>1 DEF StopsLast
  <2> QED BY <1>1, <2>1, <2>2, <2>3 DEF StopsLast
<1>6. ASSUME NEW w \in Workers, TakeStop(w) PROVE StopsLast'
  <2>1. /\ Backlog = 0 /\ Backlog' = 0
        /\ Len(queue) > 0 /\ Len(queue') = Len(queue) - 1
        /\ \A k \in 1 .. Len(queue') : queue'[k] = queue[k + 1]
        /\ Joining'
    BY <1>6, TakeStopBacklog
  <2>2. \A k \in 1 .. Len(queue') : queue'[k] = Stop <=> k > Backlog'
    BY <1>1, <2>1 DEF StopsLast
  <2> QED BY <1>1, <2>1, <2>2 DEF StopsLast
<1> QED BY <1>2, <1>3, <1>4, <1>5, <1>6, QuietSteps DEF Next, Owner, Worker

-----------------------------------------------------------------------------
(* Items are in one place.                                                 *)

(* Every step keeps an item in one place.                                  *)
LEMMA StepItemsOnce == TypeOK /\ StopsLast /\ ItemsOnce /\ [Next]_vars => ItemsOnce'
<1> SUFFICES ASSUME TypeOK, StopsLast, ItemsOnce, [Next]_vars PROVE ItemsOnce'
  OBVIOUS
<1>0. TypeOK'
  BY StepTypes
<1>1. /\ Len(queue) \in Nat /\ DOMAIN queue = 1 .. Len(queue)
      /\ Len(queue') \in Nat /\ DOMAIN queue' = 1 .. Len(queue')
  BY <1>0, BacklogType, BacklogTypeNext
<1>2. ASSUME UNCHANGED <<queue, task, issued, finished>> PROVE ItemsOnce'
  BY <1>2 DEF ItemsOnce
<1>3. ASSUME NEW c \in Callers, NEW i \in Items, Push(c, i) PROVE ItemsOnce'
  <2>1. /\ Len(queue') = Len(queue) + 1
        /\ \A k \in 1 .. Len(queue) : queue'[k] = queue[k]
        /\ queue'[Len(queue) + 1] = i
    BY <1>3, PushBacklog
  <2>2. /\ i \notin issued /\ i # Stop /\ issued' = issued \cup {i}
        /\ task' = task /\ finished' = finished
    BY <1>3, ThreadPoolAssumption DEF Push
  <2>3. \A k \in DOMAIN queue' : \/ (k \in DOMAIN queue /\ queue'[k] = queue[k])
                             \/ (k = Len(queue) + 1 /\ queue'[k] = i)
    BY <1>1, <2>1
  <2>4. \A k \in DOMAIN queue : queue[k] # i
    BY <2>2 DEF ItemsOnce
  <2>5. \A w \in Workers : task[w] # i
    BY <2>2 DEF ItemsOnce
  <2>6. \A k, l \in DOMAIN queue' : queue'[k] = queue'[l] => k = l \/ queue'[k] = Stop
    BY <2>3, <2>4 DEF ItemsOnce
  <2>7. \A k \in DOMAIN queue', w \in Workers : queue'[k] = task[w] => queue'[k] = Stop
    BY <2>3, <2>5 DEF ItemsOnce
  <2>8. \A k \in DOMAIN queue' : queue'[k] \in issued' \cup {Stop}
    BY <2>2, <2>3 DEF ItemsOnce
  <2> QED BY <2>2, <2>6, <2>7, <2>8 DEF ItemsOnce
<1>4. CASE Destroy
  <2>1. \A k \in 1 .. Len(queue') :
              queue'[k] = IF k <= Len(queue) THEN queue[k] ELSE Stop
    BY <1>4, DestroyBacklog
  <2>2. task' = task /\ issued' = issued /\ finished' = finished
    BY <1>4 DEF Destroy
  <2>3. \A k \in DOMAIN queue' : \/ (k \in DOMAIN queue /\ queue'[k] = queue[k])
                             \/ queue'[k] = Stop
    BY <1>1, <2>1
  <2>4. \A k, l \in DOMAIN queue' : queue'[k] = queue'[l] => k = l \/ queue'[k] = Stop
    BY <2>3 DEF ItemsOnce
  <2>5. \A k \in DOMAIN queue', w \in Workers : queue'[k] = task[w] => queue'[k] = Stop
    BY <2>3 DEF ItemsOnce
  <2>6. \A k \in DOMAIN queue' : queue'[k] \in issued' \cup {Stop}
    BY <2>2, <2>3 DEF ItemsOnce
  <2> QED BY <2>2, <2>4, <2>5, <2>6 DEF ItemsOnce
<1>5. ASSUME Len(queue) > 0, Len(queue') = Len(queue) - 1,
             \A k \in 1 .. Len(queue') : queue'[k] = queue[k + 1]
      PROVE  /\ \A k \in DOMAIN queue' : k + 1 \in DOMAIN queue /\ queue'[k] = queue[k + 1]
             /\ \A k \in DOMAIN queue' : k + 1 # 1
             /\ \A k, l \in DOMAIN queue' : k + 1 = l + 1 => k = l
             /\ 1 \in DOMAIN queue
  BY <1>1, <1>5
<1>6. ASSUME NEW w \in Workers, Take(w) PROVE ItemsOnce'
  <2>1. /\ \A k \in DOMAIN queue' : k + 1 \in DOMAIN queue /\ queue'[k] = queue[k + 1]
        /\ \A k \in DOMAIN queue' : k + 1 # 1
        /\ \A k, l \in DOMAIN queue' : k + 1 = l + 1 => k = l
        /\ 1 \in DOMAIN queue
    BY <1>5, <1>6, TakeBacklog
  <2>2. /\ task' = [task EXCEPT ![w] = queue[1]] /\ queue[1] # Stop
        /\ issued' = issued /\ finished' = finished
    BY <1>6, TakeBacklog DEF Take
  <2>3. /\ task'[w] = queue[1]
        /\ \A v \in Workers : v # w => task'[v] = task[v]
    BY <2>2 DEF TypeOK
  <2>4. \A k, l \in DOMAIN queue' : queue'[k] = queue'[l] => k = l \/ queue'[k] = Stop
    BY <2>1 DEF ItemsOnce
  <2>5. \A k \in DOMAIN queue', v \in Workers : queue'[k] = task'[v] => queue'[k] = Stop
    BY <2>1, <2>3 DEF ItemsOnce
  <2>6. \A u, v \in Workers : task'[u] = task'[v] => u = v \/ task'[u] = Stop
    BY <2>1, <2>3 DEF ItemsOnce
  <2>7. \A k \in DOMAIN queue' : queue'[k] \in issued' \cup {Stop}
    BY <2>1, <2>2 DEF ItemsOnce
  <2>8. \A v \in Workers : task'[v] \in issued' \cup {Stop}
    BY <2>1, <2>2, <2>3 DEF ItemsOnce
  <2> QED BY <2>2, <2>4, <2>5, <2>6, <2>7, <2>8 DEF ItemsOnce
<1>7. ASSUME NEW w \in Workers, TakeStop(w) PROVE ItemsOnce'
  <2>1. /\ \A k \in DOMAIN queue' : k + 1 \in DOMAIN queue /\ queue'[k] = queue[k + 1]
        /\ \A k, l \in DOMAIN queue' : k + 1 = l + 1 => k = l
    BY <1>5, <1>7, TakeStopBacklog
  <2>2. task' = task /\ issued' = issued /\ finished' = finished
    BY <1>7 DEF TakeStop
  <2>3. \A k, l \in DOMAIN queue' : queue'[k] = queue'[l] => k = l \/ queue'[k] = Stop
    BY <2>1 DEF ItemsOnce
  <2>4. \A k \in DOMAIN queue', v \in Workers : queue'[k] = task[v] => queue'[k] = Stop
    BY <2>1 DEF ItemsOnce
  <2>5. \A k \in DOMAIN queue' : queue'[k] \in issued' \cup {Stop}
    BY <2>1, <2>2 DEF ItemsOnce
  <2> QED BY <2>2, <2>3, <2>4, <2>5 DEF ItemsOnce
<1>8. ASSUME NEW w \in Workers, Finish(w) PROVE ItemsOnce'
  <2>1. /\ task' = [task EXCEPT ![w] = Stop] /\ task[w] # Stop
        /\ queue' = queue /\ issued' = issued /\ finished' = finished \cup {task[w]}
    BY <1>8 DEF Finish, TypeOK
  <2>2. \A v \in Workers : task'[v] = IF v = w THEN Stop ELSE task[v]
    BY <2>1 DEF TypeOK
  <2>3. finished' \subseteq issued'
    BY <2>1 DEF ItemsOnce
  <2> QED BY <2>1, <2>2, <2>3 DEF ItemsOnce
<1> QED
  BY <1>2, <1>3, <1>4, <1>6, <1>7, <1>8 DEF Next, Owner, Worker, Spawn, Constructed,
     Join, Notify, Sleep, WakeSpuriously, vars
-----------------------------------------------------------------------------
(* No item is stranded.                                                    *)

(* The sets of threads that are counted are finite.                        *)
LEMMA Counted ==
    /\ IsFiniteSet(Ready) /\ Cardinality(Ready) \in Nat
    /\ IsFiniteSet(Notifying) /\ Cardinality(Notifying) \in Nat
BY ThreadPoolAssumption, FS_Subset, FS_CardinalityType DEF Ready, Notifying

(* The same in the state after a step.                                     *)
LEMMA CountedNext ==
    /\ Cardinality(Ready') \in Nat
    /\ Cardinality(Notifying') \in Nat
<1>1. Ready' \subseteq Workers /\ Notifying' \subseteq Callers
  BY DEF Ready, Notifying
<1> QED BY <1>1, ThreadPoolAssumption, FS_Subset, FS_CardinalityType

(* Every step keeps a thread on its way for every item while a worker      *)
(* sleeps.                                                                 *)
LEMMA StepNoItemStranded ==
    TypeOK /\ StopsLast /\ NoItemStranded /\ [Next]_vars => NoItemStranded'
<1> SUFFICES ASSUME TypeOK, StopsLast, NoItemStranded, [Next]_vars
             PROVE  NoItemStranded'
  OBVIOUS
<1>0. Backlog \in Int /\ Backlog' \in Int
  BY StepTypes, BacklogType, BacklogTypeNext
<1>1. ASSUME Backlog' = 0 PROVE NoItemStranded'
  BY <1>1, CountedNext DEF NoItemStranded
<1>2. ASSUME Backlog' = Backlog, Waiting' = Waiting, Ready' = Ready,
             Notifying' = Notifying
      PROVE  NoItemStranded'
  BY <1>2 DEF NoItemStranded
(* One more worker is ready, the callers are as before.                    *)
<1>3. ASSUME NEW w \in Workers \ Ready, Ready' = Ready \cup {w},
             Waiting' \subseteq Waiting, Backlog' = Backlog, Notifying' = Notifying
      PROVE  NoItemStranded'
  <2>1. Cardinality(Ready') = Cardinality(Ready) + 1
    BY <1>3, Counted, FS_AddElement
  <2> QED BY <1>0, <1>3, <2>1, Counted DEF NoItemStranded
<1>4. ASSUME NEW w \in Workers, Spawn(w) PROVE NoItemStranded'
  <2>1. Backlog' = Backlog
    BY <1>4, QuietSteps, QuietBacklog
  <2>2. /\ w \notin Ready /\ Ready' = Ready \cup {w}
        /\ Waiting' = Waiting /\ Notifying' = Notifying
    BY <1>4 DEF Spawn, Ready, Waiting, Notifying, TypeOK
  <2> QED BY <1>3, <2>1, <2>2
<1>5. CASE Constructed \/ Join
  <2>1. Backlog' = Backlog
    BY <1>5, QuietSteps, QuietBacklog
  <2> QED BY <1>2, <1>5, <2>1 DEF Constructed, Join, Ready, Waiting, Notifying
<1>6. CASE Destroy
  <2>1. Backlog' = Backlog
    BY <1>6, DestroyBacklog
  <2> QED BY <1>2, <1>6, <2>1 DEF Destroy, Ready, Waiting, Notifying
<1>7. ASSUME NEW c \in Callers, NEW i \in Items, Push(c, i) PROVE NoItemStranded'
  <2>1. Backlog' = Backlog + 1
    BY <1>7, PushBacklog
  <2>2. /\ c \notin Notifying /\ Notifying' = Notifying \cup {c}
        /\ Waiting' = Waiting /\ Ready' = Ready
    BY <1>7 DEF Push, Ready, Waiting, Notifying, TypeOK
  <2>3. Cardinality(Notifying') = Cardinality(Notifying) + 1
    BY <2>2, Counted, FS_AddElement
  <2> QED BY <1>0, <2>1, <2>2, <2>3, Counted DEF NoItemStranded
<1>8. ASSUME NEW c \in Callers, Notify(c) PROVE NoItemStranded'
  <2>1. Backlog' = Backlog
    BY <1>8, QuietSteps, QuietBacklog
  <2>2. c \in Notifying /\ Notifying' = Notifying \ {c}
    BY <1>8 DEF Notify, Notifying, TypeOK
  <2>3. Cardinality(Notifying') = Cardinality(Notifying) - 1
    BY <2>2, Counted, FS_RemoveElement
  <2>4. CASE Waiting = {} /\ UNCHANGED worker
    BY <2>4 DEF NoItemStranded, Waiting
  <2>5. ASSUME NEW w \in Waiting, worker' = [worker EXCEPT ![w] = "ready"]
        PROVE  NoItemStranded'
    <3>1. w \notin Ready /\ Ready' = Ready \cup {w}
      BY <2>5 DEF Ready, Waiting, TypeOK
    <3>2. Cardinality(Ready') = Cardinality(Ready) + 1
      BY <3>1, Counted, FS_AddElement
    <3> QED BY <1>0, <2>1, <2>3, <2>5, <3>2, Counted DEF NoItemStranded
  <2> QED BY <1>8, <2>4, <2>5 DEF Notify
<1>9. ASSUME NEW w \in Workers, Sleep(w) PROVE NoItemStranded'
  <2>1. Backlog' = Backlog /\ queue = <<>>
    BY <1>9, QuietSteps, QuietBacklog DEF Sleep
  <2>2. Backlog' = 0
    BY <2>1, StopsLeftType DEF Backlog, StopsLast
  <2> QED BY <1>1, <2>2
<1>10. ASSUME NEW w \in Workers, WakeSpuriously(w) PROVE NoItemStranded'
  <2>1. Backlog' = Backlog
    BY <1>10, QuietSteps, QuietBacklog
  <2>2. /\ w \notin Ready /\ Ready' = Ready \cup {w}
        /\ Waiting' \subseteq Waiting /\ Notifying' = Notifying
    BY <1>10 DEF WakeSpuriously, Ready, Waiting, Notifying, TypeOK
  <2> QED BY <1>3, <2>1, <2>2
<1>11. ASSUME NEW w \in Workers, Take(w) PROVE NoItemStranded'
  <2>1. Backlog' = Backlog - 1
    BY <1>11, TakeBacklog
  <2>2. /\ w \in Ready /\ Ready' = Ready \ {w}
        /\ Waiting' = Waiting /\ Notifying' = Notifying
    BY <1>11 DEF Take, Ready, Waiting, Notifying, TypeOK
  <2>3. Cardinality(Ready') = Cardinality(Ready) - 1
    BY <2>2, Counted, FS_RemoveElement
  <2> QED BY <1>0, <2>1, <2>2, <2>3, Counted DEF NoItemStranded
<1>12. ASSUME NEW w \in Workers, TakeStop(w) PROVE NoItemStranded'
  BY <1>1, <1>12, TakeStopBacklog
<1>13. ASSUME NEW w \in Workers, Finish(w) PROVE NoItemStranded'
  <2>1. Backlog' = Backlog
    BY <1>13, QuietSteps, QuietBacklog
  <2>2. /\ w \notin Ready /\ Ready' = Ready \cup {w}
        /\ Waiting' = Waiting /\ Notifying' = Notifying
    BY <1>13 DEF Finish, Ready, Waiting, Notifying, TypeOK
  <2> QED BY <1>3, <2>1, <2>2
<1>14. CASE UNCHANGED vars
  <2>1. Backlog' = Backlog
    BY <1>14, QuietSteps, QuietBacklog
  <2> QED BY <1>2, <1>14, <2>1 DEF vars, Ready, Waiting, Notifying
<1> QED
  BY <1>4, <1>5, <1>6, <1>7, <1>8, <1>9, <1>10, <1>11, <1>12, <1>13, <1>14
     DEF Next, Owner, Worker

-----------------------------------------------------------------------------
(* The invariants of the runs.                                             *)

(* The conjunction of the invariants is inductive.                         *)
THEOREM PoolInvariant == Spec => []PoolInv
<1>1. PoolInv /\ [Next]_vars => PoolInv'
  BY StepTypes, StepStopsLast, StepItemsOnce, StepNoItemStranded DEF PoolInv
<1> QED BY InitInv, <1>1, PTL DEF Spec

(* Every variable keeps its type, and a worker has work exactly while it   *)
(* runs.                                                                   *)
THEOREM TypeCorrect == Spec => []TypeOK
<1>1. PoolInv => TypeOK
  BY DEF PoolInv
<1> QED BY PoolInvariant, <1>1, PTL

(* The nullptrs of the destructor stay behind all work, one for each       *)
(* worker, and no worker ends before the work has been taken.              *)
THEOREM StopsStayLast == Spec => []StopsLast
<1>1. PoolInv => StopsLast
  BY DEF PoolInv
<1> QED BY PoolInvariant, <1>1, PTL

(* No item is taken twice and none is taken that was not handed over.      *)
THEOREM ItemsStayOnce == Spec => []ItemsOnce
<1>1. PoolInv => ItemsOnce
  BY DEF PoolInv
<1> QED BY PoolInvariant, <1>1, PTL

(* Notifying after the lock is released loses no wake-up.                  *)
THEOREM NoItemIsStranded == Spec => []NoItemStranded
<1>1. PoolInv => NoItemStranded
  BY DEF PoolInv
<1> QED BY PoolInvariant, <1>1, PTL

-----------------------------------------------------------------------------
(* The pool implements WorkQueue.                                          *)

Active == {task[w] : w \in Workers} \ {Stop}

(* The first items of a sequence.                                          *)
LEMMA FirstItems ==
    ASSUME NEW S, NEW q \in Seq(S), NEW b \in Nat, b <= Len(q)
    PROVE  /\ SubSeq(q, 1, b) \in Seq(S)
           /\ Len(SubSeq(q, 1, b)) = b
           /\ \A k \in 1 .. b : SubSeq(q, 1, b)[k] = q[k]
<1>1. \A k \in 1 .. b : q[k] \in S
  BY LenProperties
<1> QED BY <1>1, SubSeqProperties

(* The work in the queue, item by item.                                    *)
LEMMA TodoItems ==
    ASSUME TypeOK, StopsLast
    PROVE  /\ Todo \in Seq(Items \cup {Stop})
           /\ Backlog \in Nat /\ Backlog <= Len(queue)
           /\ Len(Todo) = Backlog
           /\ \A k \in 1 .. Backlog : Todo[k] = queue[k]
<1>1. Backlog \in Nat /\ Backlog <= Len(queue)
  <2>1. Backlog >= 0
    BY DEF StopsLast
  <2>2. Backlog = Len(queue) - StopsLeft
    BY DEF Backlog
  <2> QED BY <2>1, <2>2, BacklogType, StopsLeftType
<1>2. queue \in Seq(Items \cup {Stop})
  BY DEF TypeOK
<1> QED BY <1>1, <1>2, FirstItems DEF Todo

(* The same in the state after a step.                                     *)
LEMMA TodoItemsNext ==
    ASSUME TypeOK', StopsLast'
    PROVE  /\ Todo' \in Seq(Items \cup {Stop})
           /\ Backlog' \in Nat /\ Backlog' <= Len(queue')
           /\ Len(Todo') = Backlog'
           /\ \A k \in 1 .. Backlog' : Todo'[k] = queue'[k]
<1>1. Backlog' \in Nat /\ Backlog' <= Len(queue')
  <2>1. Cardinality(Workers \ Done') \in Nat
    BY ThreadPoolAssumption, FS_Subset, FS_CardinalityType
  <2>2. Backlog' >= 0
    BY DEF StopsLast
  <2>3. Backlog' = Len(queue') - StopsLeft' /\ StopsLeft' \in Nat
    BY <2>1 DEF Backlog, StopsLeft
  <2> QED BY <2>2, <2>3, BacklogTypeNext
<1>2. queue' \in Seq(Items \cup {Stop})
  BY DEF TypeOK
<1> QED BY <1>1, <1>2, FirstItems DEF Todo

(* do_work submits an item.                                                *)
LEMMA PushSubmits ==
    ASSUME PoolInv, PoolInv', NEW c \in Callers, NEW i \in Items, Push(c, i)
    PROVE  Abstract!Submit(i)
<1>1. /\ TypeOK /\ StopsLast /\ ItemsOnce /\ TypeOK' /\ StopsLast'
  BY DEF PoolInv
<1>2. /\ Backlog = Len(queue) /\ Backlog' = Backlog + 1
      /\ \A k \in 1 .. Len(queue) : queue'[k] = queue[k]
      /\ queue'[Len(queue) + 1] = i
  BY <1>1, PushBacklog
<1>3. /\ Todo \in Seq(Items \cup {Stop}) /\ Len(Todo) = Backlog /\ Backlog \in Nat
      /\ \A k \in 1 .. Backlog : Todo[k] = queue[k]
  BY <1>1, TodoItems
<1>4. /\ Todo' \in Seq(Items \cup {Stop}) /\ Len(Todo') = Backlog'
      /\ \A k \in 1 .. Backlog' : Todo'[k] = queue'[k]
  BY <1>1, TodoItemsNext
<1>5. /\ Append(Todo, i) \in Seq(Items \cup {Stop})
      /\ Len(Append(Todo, i)) = Len(Todo) + 1
      /\ \A k \in 1 .. Len(Todo) : Append(Todo, i)[k] = Todo[k]
      /\ Append(Todo, i)[Len(Todo) + 1] = i
  BY <1>3, AppendProperties
<1>6. \A k \in 1 .. Backlog' : Todo'[k] = Append(Todo, i)[k]
  BY <1>2, <1>3, <1>4, <1>5
<1>7. Todo' = Append(Todo, i)
  BY <1>2, <1>3, <1>4, <1>5, <1>6, SeqEqual
<1>8. i \notin issued /\ owner = "alive" /\ owner' = owner /\ task' = task
      /\ finished' = finished /\ i # Stop
  BY ThreadPoolAssumption DEF Push
<1>9. i \notin Abstract!Range(Todo)
  <2> SUFFICES ASSUME NEW k \in DOMAIN Todo, Todo[k] = i PROVE FALSE
    BY DEF Abstract!Range
  <2>1. k \in 1 .. Backlog /\ k \in DOMAIN queue
    BY <1>1, <1>2, <1>3, BacklogType, LenProperties
  <2>2. queue[k] \in issued \cup {Stop}
    BY <1>1, <2>1 DEF ItemsOnce
  <2> QED BY <1>3, <1>8, <2>1, <2>2
<1>10. i \notin Active /\ i \notin finished
  BY <1>1, <1>8 DEF ItemsOnce, Active
<1> QED BY <1>7, <1>8, <1>9, <1>10 DEF Abstract!Submit, Active

(* A worker that takes an item starts it.                                  *)
LEMMA TakeStarts ==
    ASSUME PoolInv, PoolInv', NEW w \in Workers, Take(w)
    PROVE  Abstract!Start
<1>1. /\ TypeOK /\ StopsLast /\ TypeOK' /\ StopsLast'
  BY DEF PoolInv
<1>2. /\ Backlog > 0 /\ Backlog' = Backlog - 1
      /\ Len(queue') = Len(queue) - 1
      /\ \A k \in 1 .. Len(queue') : queue'[k] = queue[k + 1]
      /\ Head(queue) = queue[1]
  BY <1>1, TakeBacklog
<1>3. /\ Todo \in Seq(Items \cup {Stop}) /\ Len(Todo) = Backlog /\ Backlog \in Nat
      /\ \A k \in 1 .. Backlog : Todo[k] = queue[k]
  BY <1>1, TodoItems
<1>4. /\ Todo' \in Seq(Items \cup {Stop}) /\ Len(Todo') = Backlog'
      /\ Backlog' \in Nat /\ Backlog' <= Len(queue')
      /\ \A k \in 1 .. Backlog' : Todo'[k] = queue'[k]
  BY <1>1, TodoItemsNext
<1>5. Todo # <<>>
  BY <1>2, <1>3, EmptySeq
<1>6. /\ Head(Todo) = Todo[1]
      /\ Tail(Todo) \in Seq(Items \cup {Stop})
      /\ Len(Tail(Todo)) = Len(Todo) - 1
      /\ \A k \in 1 .. Len(Tail(Todo)) : Tail(Todo)[k] = Todo[k + 1]
  BY <1>3, <1>5, HeadTailProperties
<1>7. Len(queue') \in Nat
  BY <1>1, BacklogTypeNext
<1>8. \A k \in 1 .. Backlog' : Todo'[k] = Tail(Todo)[k]
  <2> SUFFICES ASSUME NEW k \in 1 .. Backlog' PROVE Todo'[k] = Tail(Todo)[k]
    OBVIOUS
  <2>1. /\ k \in 1 .. Len(queue') /\ k \in 1 .. Len(Tail(Todo))
        /\ k + 1 \in 1 .. Backlog
    BY <1>2, <1>3, <1>4, <1>6, <1>7
  <2> QED BY <1>2, <1>3, <1>4, <1>6, <2>1
<1>9. Todo' = Tail(Todo)
  BY <1>2, <1>3, <1>4, <1>6, <1>8, SeqEqual
<1>10. Head(Todo) = Head(queue)
  BY <1>2, <1>3, <1>6
<1>11. /\ task' = [task EXCEPT ![w] = Head(queue)] /\ Head(queue) # Stop
       /\ task[w] = Stop /\ task \in [Workers -> Items \cup {Stop}]
       /\ finished' = finished /\ owner' = owner
  BY <1>1 DEF Take, TypeOK
<1>12. Active' = Active \cup {Head(queue)}
  <2>1. /\ \A v \in Workers : task'[v] = IF v = w THEN Head(queue) ELSE task[v]
    BY <1>11
  <2> QED BY <1>11, <2>1 DEF Active
<1> QED BY <1>5, <1>9, <1>10, <1>11, <1>12 DEF Abstract!Start, Active

(* Work that returns is finished.                                          *)
LEMMA FinishFinishes ==
    ASSUME PoolInv, NEW w \in Workers, Finish(w)
    PROVE  \E i \in Items : Abstract!Finish(i)
<1>1. /\ TypeOK /\ ItemsOnce
  BY DEF PoolInv
<1>2. /\ task' = [task EXCEPT ![w] = Stop] /\ task[w] # Stop
      /\ task \in [Workers -> Items \cup {Stop}]
      /\ queue' = queue /\ owner' = owner /\ finished' = finished \cup {task[w]}
  BY <1>1 DEF Finish, TypeOK
<1>3. Todo' = Todo
  BY <1>1, <1>2, QuietSteps, QuietBacklog DEF Todo
<1>4. Active' = Active \ {task[w]}
  <2>1. \A v \in Workers : task'[v] = IF v = w THEN Stop ELSE task[v]
    BY <1>2
  <2>2. \A v \in Workers : task[v] = task[w] => v = w
    BY <1>1, <1>2 DEF ItemsOnce
  <2> QED BY <1>2, <2>1, <2>2 DEF Active
<1>5. task[w] \in Active /\ task[w] \in Items
  BY <1>2 DEF Active
<1> QED BY <1>2, <1>3, <1>4, <1>5 DEF Abstract!Finish, Active

(* The destructor returns when all work is done.                           *)
LEMMA JoinCloses ==
    ASSUME PoolInv, Join
    PROVE  Abstract!Close
<1>1. /\ TypeOK /\ StopsLast
  BY DEF PoolInv
<1>2. /\ \A w \in Workers : w \in Done /\ task[w] = Stop
      /\ owner' = "destroyed"
      /\ queue' = queue /\ task' = task /\ finished' = finished
  BY <1>1 DEF Join, Done, TypeOK
<1>3. Todo' = Todo
  BY <1>1, <1>2, QuietSteps, QuietBacklog DEF Todo
<1>4. Backlog = 0
  BY <1>1, <1>2, ThreadPoolAssumption DEF StopsLast
<1>5. Todo = <<>>
  BY <1>1, <1>4, TodoItems, EmptySeq
<1>6. Active = {}
  BY <1>2 DEF Active
<1> QED BY <1>2, <1>3, <1>5, <1>6 DEF Abstract!Close, Active

(* No other step is seen.                                                  *)
LEMMA OthersStutter ==
    ASSUME PoolInv, PoolInv'
    PROVE  /\ \A w \in Workers : Spawn(w) => UNCHANGED Abstract!vars
           /\ Constructed => UNCHANGED Abstract!vars
           /\ Destroy => UNCHANGED Abstract!vars
           /\ \A c \in Callers : Notify(c) => UNCHANGED Abstract!vars
           /\ \A w \in Workers : Sleep(w) => UNCHANGED Abstract!vars
           /\ \A w \in Workers : WakeSpuriously(w) => UNCHANGED Abstract!vars
           /\ \A w \in Workers : TakeStop(w) => UNCHANGED Abstract!vars
           /\ UNCHANGED vars => UNCHANGED Abstract!vars
<1>0. /\ TypeOK /\ StopsLast /\ TypeOK' /\ StopsLast'
  BY DEF PoolInv
<1>1. ASSUME Quiet, task' = task, finished' = finished,
             (owner' = "destroyed") <=> (owner = "destroyed")
      PROVE  UNCHANGED Abstract!vars
  <2>1. Todo' = Todo
    BY <1>1, QuietBacklog DEF Quiet, Todo
  <2> QED BY <1>1, <2>1 DEF Abstract!vars
<1>2. ASSUME NEW w \in Workers, Spawn(w) PROVE UNCHANGED Abstract!vars
  BY <1>0, <1>1, <1>2, QuietSteps DEF Spawn
<1>3. ASSUME Constructed PROVE UNCHANGED Abstract!vars
  BY <1>0, <1>1, <1>3, QuietSteps DEF Constructed
<1>4. ASSUME Destroy PROVE UNCHANGED Abstract!vars
  <2>1. /\ Backlog = Len(queue) /\ Backlog' = Backlog
        /\ Len(queue') \in Nat /\ Len(queue') >= Len(queue)
        /\ \A k \in 1 .. Len(queue') :
              queue'[k] = IF k <= Len(queue) THEN queue[k] ELSE Stop
    BY <1>0, <1>4, DestroyBacklog
  <2>2. /\ Todo \in Seq(Items \cup {Stop}) /\ Len(Todo) = Backlog /\ Backlog \in Nat
        /\ \A k \in 1 .. Backlog : Todo[k] = queue[k]
    BY <1>0, TodoItems
  <2>3. /\ Todo' \in Seq(Items \cup {Stop}) /\ Len(Todo') = Backlog'
        /\ \A k \in 1 .. Backlog' : Todo'[k] = queue'[k]
    BY <1>0, TodoItemsNext
  <2>4. \A k \in 1 .. Backlog : Todo'[k] = Todo[k]
    BY <2>1, <2>2, <2>3
  <2>5. Todo' = Todo
    BY <2>1, <2>2, <2>3, <2>4, SeqEqual
  <2> QED BY <1>4, <2>5 DEF Destroy, Abstract!vars
<1>5. ASSUME NEW c \in Callers, Notify(c) PROVE UNCHANGED Abstract!vars
  BY <1>0, <1>1, <1>5, QuietSteps DEF Notify
<1>6. ASSUME NEW w \in Workers, Sleep(w) PROVE UNCHANGED Abstract!vars
  BY <1>0, <1>1, <1>6, QuietSteps DEF Sleep
<1>7. ASSUME NEW w \in Workers, WakeSpuriously(w) PROVE UNCHANGED Abstract!vars
  BY <1>0, <1>1, <1>7, QuietSteps DEF WakeSpuriously
<1>8. ASSUME NEW w \in Workers, TakeStop(w) PROVE UNCHANGED Abstract!vars
  <2>1. Backlog = 0 /\ Backlog' = 0
    BY <1>0, <1>8, TakeStopBacklog
  <2>2. Todo = <<>>
    BY <1>0, <2>1, TodoItems, EmptySeq
  <2>3. Todo' = <<>>
    BY <1>0, <2>1, TodoItemsNext, EmptySeq
  <2> QED BY <1>8, <2>2, <2>3 DEF TakeStop, Abstract!vars
<1>9. ASSUME UNCHANGED vars PROVE UNCHANGED Abstract!vars
  BY <1>0, <1>1, <1>9, QuietSteps DEF vars
<1> QED BY ONLY <1>2, <1>3, <1>4, <1>5, <1>6, <1>7, <1>8, <1>9

(* The pool does what WorkQueue promises: work is started in the order of  *)
(* the calls of do_work, once, and the destructor returns only after all   *)
(* of it is done.                                                          *)
THEOREM Implements == Spec => ImplementsWorkQueue
<1>1. Init => Abstract!Init
  <2> SUFFICES ASSUME Init PROVE Abstract!Init
    OBVIOUS
  <2>1. TypeOK /\ StopsLast /\ Backlog = 0
    BY InitInv DEF PoolInv, Init, Backlog, StopsLeft, Joining
  <2>2. Todo = <<>>
    BY <2>1, TodoItems, EmptySeq
  <2> QED BY <2>2 DEF Init, Abstract!Init
<1>2. PoolInv /\ PoolInv' /\ [Next]_vars => [Abstract!Next]_(Abstract!vars)
  <2> SUFFICES ASSUME PoolInv, PoolInv', [Next]_vars
               PROVE  Abstract!Next \/ UNCHANGED Abstract!vars
    OBVIOUS
  <2>1. ASSUME NEW c \in Callers, NEW i \in Items, Push(c, i) PROVE Abstract!Next
    BY <2>1, PushSubmits DEF Abstract!Next
  <2>2. ASSUME NEW w \in Workers, Take(w) PROVE Abstract!Next
    BY <2>2, TakeStarts DEF Abstract!Next
  <2>3. ASSUME NEW w \in Workers, Finish(w) PROVE Abstract!Next
    BY <2>3, FinishFinishes DEF Abstract!Next
  <2>4. CASE Join
    BY <2>4, JoinCloses DEF Abstract!Next
  <2> QED BY <2>1, <2>2, <2>3, <2>4, OthersStutter DEF Next, Owner, Worker
<1> QED BY <1>1, <1>2, PoolInvariant, PTL DEF Spec, ImplementsWorkQueue, Abstract!Spec
=============================================================================
