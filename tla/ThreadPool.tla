----------------------------- MODULE ThreadPool -----------------------------
(***************************************************************************)
(* sys::ThreadPool: a queue of work under a mutex, a condition variable,   *)
(* and worker threads.  The owner constructs the pool and destroys it; any *)
(* number of callers hand over work with do_work.                          *)
(*                                                                         *)
(* A step is a critical section of the mutex, or one thing done outside of *)
(* it.  do_work is two steps, the push under the lock and the notification *)
(* after it.  The destructor pushes a nullptr, here Stop, per worker.      *)
(*                                                                         *)
(* Definitions marked "a slip" are mistakes that could be made in the code *)
(* beside them.  No action uses them; they are there to see that the       *)
(* properties would notice.                                                *)
(***************************************************************************)
EXTENDS Integers, Sequences, FiniteSets, SequencesExt

CONSTANTS
    Workers,   \* the threads of the pool, number_of_threads of them
    Callers,   \* threads that call do_work
    Items,     \* pieces of work
    Endless,   \* work that never returns, as the loops of the two servers
    Stop       \* the nullptr that tells a worker to end

(* hardware_concurrency(), the default, may be 0 where it is not known; a  *)
(* pool without threads does nothing at all.                               *)
ASSUME ThreadPoolAssumption ==
    /\ IsFiniteSet(Workers) /\ Workers # {} /\ IsFiniteSet(Callers)
    /\ Endless \subseteq Items
    /\ Stop \notin Items

VARIABLES
    queue,     \* m_queue
    worker,    \* what each worker does
    task,      \* the work each worker took, Stop when it has none
    caller,    \* whether a caller is between its push and its notification
    owner,     \* what the owner of the pool does
    issued,    \* items handed over so far
    finished   \* items that were executed

vars == <<queue, worker, task, caller, owner, issued, finished>>

Init ==
    /\ queue = <<>>
    /\ worker = [w \in Workers |-> "none"]
    /\ task = [w \in Workers |-> Stop]
    /\ caller = [c \in Callers |-> "idle"]
    /\ owner = "constructing"
    /\ issued = {} /\ finished = {}

Unborn == {w \in Workers : worker[w] = "none"}
Ready == {w \in Workers : worker[w] = "ready"}
Waiting == {w \in Workers : worker[w] = "waiting"}
Done == {w \in Workers : worker[w] = "done"}
Notifying == {c \in Callers : caller[c] = "notify"}

-----------------------------------------------------------------------------
(* The owner.                                                              *)

(* The constructor starts the threads one by one; they run at once.        *)
Spawn(w) ==
    /\ owner = "constructing"
    /\ worker[w] = "none"
    /\ worker' = [worker EXCEPT ![w] = "ready"]
    /\ UNCHANGED <<queue, task, caller, owner, issued, finished>>

Constructed ==
    /\ owner = "constructing"
    /\ Unborn = {}
    /\ owner' = "alive"
    /\ UNCHANGED <<queue, worker, task, caller, issued, finished>>

(* A slip: one signal for all of the workers.                              *)
DestroyWithOneStop ==
    /\ owner = "alive"
    /\ Notifying = {}
    /\ queue' = Append(queue, Stop)
    /\ owner' = "joining"
    /\ UNCHANGED <<worker, task, caller, issued, finished>>

(* The destructor pushes the signals and notifies nobody.  An object is    *)
(* not destroyed while one of its functions is being called.               *)
Destroy ==
    /\ owner = "alive"
    /\ Notifying = {}
    /\ queue' = queue \o [i \in 1 .. Cardinality(Workers) |-> Stop]
    /\ owner' = "joining"
    /\ UNCHANGED <<worker, task, caller, issued, finished>>

Join ==
    /\ owner = "joining"
    /\ \A w \in Workers : worker[w] = "done"
    /\ owner' = "destroyed"
    /\ UNCHANGED <<queue, worker, task, caller, issued, finished>>

-----------------------------------------------------------------------------
(* A caller of do_work.                                                    *)

Push(c, i) ==
    /\ owner = "alive"
    /\ caller[c] = "idle"
    /\ i \notin issued
    /\ queue' = Append(queue, i)
    /\ issued' = issued \cup {i}
    /\ caller' = [caller EXCEPT ![c] = "notify"]
    /\ UNCHANGED <<worker, task, owner, finished>>

(* A slip: only the first item in the queue is announced.                  *)
NotifyFirst(c) ==
    /\ caller[c] = "notify"
    /\ caller' = [caller EXCEPT ![c] = "idle"]
    /\ \/ /\ Len(queue) = 1
          /\ \E w \in Waiting : worker' = [worker EXCEPT ![w] = "ready"]
       \/ (Waiting = {} \/ Len(queue) # 1) /\ UNCHANGED worker
    /\ UNCHANGED <<queue, task, owner, issued, finished>>

(* notify_one wakes one of the threads that wait, if there is one.         *)
Notify(c) ==
    /\ caller[c] = "notify"
    /\ caller' = [caller EXCEPT ![c] = "idle"]
    /\ \/ \E w \in Waiting : worker' = [worker EXCEPT ![w] = "ready"]
       \/ Waiting = {} /\ UNCHANGED worker
    /\ UNCHANGED <<queue, task, owner, issued, finished>>

-----------------------------------------------------------------------------
(* A worker: the lambda the constructor starts.                            *)

(* The predicate of wait() is false: the worker goes to sleep.             *)
Sleep(w) ==
    /\ worker[w] = "ready"
    /\ queue = <<>>
    /\ worker' = [worker EXCEPT ![w] = "waiting"]
    /\ UNCHANGED <<queue, task, caller, owner, issued, finished>>

(* A condition variable may wake a thread nobody notified.                 *)
WakeSpuriously(w) ==
    /\ worker[w] = "waiting"
    /\ worker' = [worker EXCEPT ![w] = "ready"]
    /\ UNCHANGED <<queue, task, caller, owner, issued, finished>>

(* A slip: work is taken from the back.                                    *)
TakeNewest(w) ==
    /\ worker[w] = "ready"
    /\ queue # <<>> /\ Last(queue) # Stop
    /\ task' = [task EXCEPT ![w] = Last(queue)]
    /\ queue' = Front(queue)
    /\ worker' = [worker EXCEPT ![w] = "running"]
    /\ UNCHANGED <<caller, owner, issued, finished>>

(* A slip: a nullptr is taken for work.                                    *)
TakeStopAsWork(w) ==
    /\ worker[w] = "ready"
    /\ queue # <<>> /\ Head(queue) = Stop
    /\ task' = [task EXCEPT ![w] = Head(queue)]
    /\ queue' = Tail(queue)
    /\ worker' = [worker EXCEPT ![w] = "running"]
    /\ UNCHANGED <<caller, owner, issued, finished>>

(* A slip: the work is read but not removed.                               *)
TakeWithoutPop(w) ==
    /\ worker[w] = "ready"
    /\ queue # <<>> /\ Head(queue) # Stop
    /\ task' = [task EXCEPT ![w] = Head(queue)]
    /\ worker' = [worker EXCEPT ![w] = "running"]
    /\ UNCHANGED <<queue, caller, owner, issued, finished>>

Take(w) ==
    /\ worker[w] = "ready"
    /\ queue # <<>> /\ Head(queue) # Stop
    /\ task' = [task EXCEPT ![w] = Head(queue)]
    /\ queue' = Tail(queue)
    /\ worker' = [worker EXCEPT ![w] = "running"]
    /\ UNCHANGED <<caller, owner, issued, finished>>

TakeStop(w) ==
    /\ worker[w] = "ready"
    /\ queue # <<>> /\ Head(queue) = Stop
    /\ queue' = Tail(queue)
    /\ worker' = [worker EXCEPT ![w] = "done"]
    /\ UNCHANGED <<task, caller, owner, issued, finished>>

(* The work returns and the worker goes back for more.                     *)
Finish(w) ==
    /\ worker[w] = "running"
    /\ task[w] \notin Endless
    /\ finished' = finished \cup {task[w]}
    /\ task' = [task EXCEPT ![w] = Stop]
    /\ worker' = [worker EXCEPT ![w] = "ready"]
    /\ UNCHANGED <<queue, caller, owner, issued>>

-----------------------------------------------------------------------------
Owner == (\E w \in Workers : Spawn(w)) \/ Constructed \/ Join
Worker(w) == Sleep(w) \/ Take(w) \/ TakeStop(w) \/ Finish(w)

Next ==
    \/ Owner \/ Destroy
    \/ \E c \in Callers : Notify(c) \/ \E i \in Items : Push(c, i)
    \/ \E w \in Workers : Worker(w) \/ WakeSpuriously(w)

Spec == Init /\ [][Next]_vars

(* Threads that can go on do.  The critical sections are short and there   *)
(* are finitely many items, so a thread that wants the mutex gets it.      *)
(* Nothing is assumed of calls of do_work and of the destructor, of a      *)
(* sleeping worker, and of work that does not return.                      *)
FairSpec ==
    /\ Spec
    /\ WF_vars(Owner)
    /\ \A c \in Callers : WF_vars(Notify(c))
    /\ \A w \in Workers : WF_vars(Worker(w))

-----------------------------------------------------------------------------
(* Properties.                                                             *)

Joining == owner \in {"joining", "destroyed"}

(* The signals that are still in the queue, one for each worker that has   *)
(* not taken one.                                                          *)
StopsLeft == IF Joining THEN Cardinality(Workers \ Done) ELSE 0

(* The work in the queue, without the signals at its end.                  *)
Backlog == Len(queue) - StopsLeft
Todo == SubSeq(queue, 1, Backlog)

(* Every variable has its type; a worker has work exactly while it runs.   *)
TypeOK ==
    /\ queue \in Seq(Items \cup {Stop})
    /\ worker \in [Workers -> {"none", "ready", "waiting", "running", "done"}]
    /\ task \in [Workers -> Items \cup {Stop}]
    /\ \A w \in Workers : worker[w] = "running" <=> task[w] # Stop
    /\ caller \in [Callers -> {"idle", "notify"}]
    /\ owner \in {"constructing", "alive", "joining", "destroyed"}
    /\ issued \subseteq Items /\ finished \subseteq Items

(* The signals stand behind all of the work, there is exactly one for each *)
(* worker that still runs, and no worker ends before the destructor has    *)
(* begun and all of the work has been taken.                               *)
StopsLast ==
    /\ Backlog >= 0
    /\ \A i \in DOMAIN queue : queue[i] = Stop <=> i > Backlog
    /\ Done # {} => Joining /\ Backlog = 0

(* An item is in one place: no two workers have it, and none while it is   *)
(* still in the queue or is there twice.                                   *)
ItemsOnce ==
    /\ \A i, j \in DOMAIN queue : queue[i] = queue[j] => i = j \/ queue[i] = Stop
    /\ \A v, w \in Workers : task[v] = task[w] => v = w \/ task[v] = Stop
    /\ \A i \in DOMAIN queue, w \in Workers :
          queue[i] = task[w] => queue[i] = Stop
    /\ \A i \in DOMAIN queue : queue[i] \in issued \cup {Stop}
    /\ \A w \in Workers : task[w] \in issued \cup {Stop}
    /\ finished \subseteq issued

(* No work is left lying while workers sleep: if some worker waits, then   *)
(* for every item in the queue another worker is on its way to take it or  *)
(* a caller is about to notify.                                            *)
NoItemStranded ==
    Waiting # {} => Backlog <= Cardinality(Ready) + Cardinality(Notifying)

(* The pool keeps the promise of WorkQueue.                                *)
Abstract == INSTANCE WorkQueue WITH
    todo     <- Todo,
    active   <- {task[w] : w \in Workers} \ {Stop},
    finished <- finished,
    closed   <- (owner = "destroyed")

ImplementsWorkQueue == Abstract!Spec

(* While fewer items are endless than there are workers, work that was     *)
(* handed over is started.                                                 *)
Started(i) == i \in finished \/ \E w \in Workers : task[w] = i
ItemsAreStarted == \A i \in Items : i \in issued ~> Started(i)
=============================================================================
