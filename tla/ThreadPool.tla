---- MODULE ThreadPool ----
(***************************************************************************)
(* The thread pool of utils/t_pool.c: detached worker threads, a queue of  *)
(* work that waits for an instant, one mutex and two condition variables.  *)
(*                                                                         *)
(* Work is added by the event loop (the thread Main) and by the callbacks  *)
(* the workers run: web/request.c adds the request it is running again to  *)
(* retry it later.  Main destroys the pool when the event loop ends.       *)
(*                                                                         *)
(* Instants are integers, see PrioQueueOps.  An instant of Unnormalised    *)
(* stands for a timeval with tv_usec = 1000000, which request.c:149 lets   *)
(* through: the clock never shows it, and the timespec built from it has   *)
(* tv_nsec = 10^9, which t_pool.c:32 does not correct and which            *)
(* pthread_cond_timedwait refuses without releasing the mutex.             *)
(***************************************************************************)
EXTENDS PrioQueueOps, FiniteSets

CONSTANTS Workers,          \* the threads pthread_create is called for
          Main,             \* the thread of the event loop
          Nobody,           \* no owner of the mutex
          Jobs,             \* t_work nodes: one for each t_pool_add_work
          NoJob,            \* not a job
          WaitTimes,        \* instants passed as wait_until
          Unnormalised,     \* instants with tv_usec = 1000000
          MaxTime,          \* bound on the clock
          CreateMayFail     \* pthread_create may fail, unnoticed

ASSUME ThreadsAssumption ==
    /\ IsFiniteSet(Workers)
    /\ Main \notin Workers
    /\ Nobody \notin Workers \cup {Main}
ASSUME JobsAssumption == NoJob \notin Jobs
ASSUME TimeAssumption ==
    /\ WaitTimes \subseteq Nat
    /\ Unnormalised \subseteq Nat
    /\ MaxTime \in Nat \ {0}
    /\ CreateMayFail \in BOOLEAN

VARIABLES queue,            \* pool->queue
          sleep_until,      \* pool->sleep_until, -1 for tv_sec = -1
          stop,             \* pool->stop
          thread_count,     \* pool->thread_count
          lock,             \* owner of pool->lock
          pc,               \* where each worker is in thread_work_loop
          deadline,         \* the abstime of its pthread_cond_timedwait
          work,             \* the job whose callback it runs
          main,             \* where Main is: see MainPc
          dangling,         \* queue.head points to a freed node
          fault,            \* a freed node of the queue was used
          finished,         \* jobs whose callback returned (history)
          now,              \* the clock
          read,             \* its first reading in the wait loop (history)
          overslept         \* the last thread that went to sleep read the
                            \* clock before and after sleep_until (history)

threadVars == <<pc, deadline, work>>
readings == <<read, overslept>>
vars == <<queue, sleep_until, stop, thread_count, lock, pc, deadline, work,
          main, dangling, fault, finished, now, read, overslept>>

Node == [job : Jobs, wait_until : WaitTimes]
None == -1

(* "absent": pthread_create failed; "idle": about to lock the mutex;       *)
(* "test": holds it, at the condition of the wait loop; "choose": in its   *)
(* body; "timed", "untimed": in the two waits; "run": in the callback;     *)
(* "exiting": has left the loop; "gone": the thread has ended.             *)
WorkerPc == {"absent", "idle", "test", "choose", "timed", "untimed", "run",
             "exiting", "gone"}

(* "loop": the event loop runs; "join": in t_pool_wait, about to lock;     *)
(* "waiting": on finished_cond; "joined": t_pool_wait has returned;        *)
(* "freed": t_pool_destroy has returned.                                   *)
MainPc == {"loop", "join", "waiting", "joined", "freed"}

Init ==
    /\ queue = <<>>
    /\ sleep_until = None
    /\ stop = FALSE
    /\ thread_count = Cardinality(Workers)
    /\ lock = Nobody
    /\ pc \in [Workers -> IF CreateMayFail THEN {"idle", "absent"} ELSE {"idle"}]
    /\ deadline = [w \in Workers |-> None]
    /\ work = [w \in Workers |-> NoJob]
    /\ main = "loop"
    /\ dangling = FALSE
    /\ fault = FALSE
    /\ finished = {}
    /\ now = 1   \* past the instant 0, which new requests ask for
    /\ read = 0 /\ overslept = FALSE

-----------------------------------------------------------------------------
(* Definitions that end in an underscore and a word are variants of the    *)
(* one that follows them, with a mistake in it.                            *)
is_future_never(t) == FALSE
is_future(t) == now <= t

Waiting == {w \in Workers : pc[w] \in {"timed", "untimed"}}

Broadcast_nobody == UNCHANGED pc
Broadcast == pc' = [w \in Workers |-> IF w \in Waiting THEN "idle" ELSE pc[w]]

(* pthread_cond_signal on work_cond: one waiter, if there is one, has to   *)
(* take the mutex again.                                                   *)
SignalWork_nobody == UNCHANGED pc
SignalWork ==
    IF Waiting = {} THEN UNCHANGED pc
    ELSE \E w \in Waiting : pc' = [pc EXCEPT ![w] = "idle"]

Running == {work[w] : w \in {v \in Workers : pc[v] = "run"}}
Queued == {n.job : n \in Nodes(queue)}
Fresh(j) == j \notin Queued \cup Running \cup finished

(* What sleep_until becomes when work for the instant t is added.          *)
Sooner_first(t) == IF sleep_until = None THEN t ELSE sleep_until
Sooner(t) == IF sleep_until = None \/ sleep_until > t THEN t ELSE sleep_until

(* t_pool_add_work.  The event loop calls it, and so do callbacks, even    *)
(* after the pool was stopped: the push then follows a freed head, unless  *)
(* the queue was empty when it was destroyed.                              *)
AddWork(j, t) ==
    /\ lock = Nobody
    /\ Fresh(j)
    /\ ~dangling
    /\ queue' = prio_push(queue, [job |-> j, wait_until |-> t])
    /\ sleep_until' = Sooner(t)
    /\ SignalWork
    /\ overslept' = FALSE
    /\ UNCHANGED <<stop, thread_count, lock, deadline, work, main, dangling,
                   fault, finished, now, read>>

AddWorkAfterFree ==
    /\ lock = Nobody
    /\ dangling
    /\ fault' = TRUE
    /\ UNCHANGED <<queue, sleep_until, stop, thread_count, lock, threadVars,
                   main, dangling, finished, now, readings>>

MainAdds(j, t) == main = "loop" /\ AddWork(j, t)

CallbackAdds(w, j, t) == pc[w] = "run" /\ (AddWork(j, t) \/ AddWorkAfterFree)

-----------------------------------------------------------------------------
(* thread_work_loop, one step for each place where another thread or the   *)
(* clock can come between.                                                 *)

Lock(w) ==
    /\ pc[w] = "idle"
    /\ lock = Nobody
    /\ lock' = w
    /\ pc' = [pc EXCEPT ![w] = "test"]
    /\ UNCHANGED <<queue, sleep_until, stop, thread_count, deadline, work,
                   main, dangling, fault, finished, now, readings>>

(* The condition of the wait loop holds: the first reading of the clock.   *)
MustWait(w) ==
    /\ pc[w] = "test"
    /\ ~stop
    /\ is_future(sleep_until) \/ queue = <<>>
    /\ pc' = [pc EXCEPT ![w] = "choose"]
    /\ read' = now
    /\ UNCHANGED <<queue, sleep_until, stop, thread_count, lock, deadline,
                   work, main, dangling, fault, finished, now, overslept>>

(* The body of the wait loop reads the clock again to choose the wait.     *)
SleepsUntilHead == queue # <<>> /\ is_future(sleep_until)

(* The timespec built from sleep_until.                                    *)
Abstime_late == sleep_until + MaxTime + 1
Abstime == sleep_until

TimedWait(w) ==
    /\ pc[w] = "choose"
    /\ SleepsUntilHead
    /\ sleep_until \notin Unnormalised
    /\ pc' = [pc EXCEPT ![w] = "timed"]
    /\ deadline' = [deadline EXCEPT ![w] = Abstime]
    /\ lock' = Nobody
    /\ read' = 0 /\ overslept' = FALSE
    /\ UNCHANGED <<queue, sleep_until, stop, thread_count, work, main,
                   dangling, fault, finished, now>>

(* EINVAL: the wait returns at once, the mutex still held.                 *)
RefusedWait(w) ==
    /\ pc[w] = "choose"
    /\ SleepsUntilHead
    /\ sleep_until \in Unnormalised
    /\ pc' = [pc EXCEPT ![w] = "test"]
    /\ read' = 0
    /\ UNCHANGED <<queue, sleep_until, stop, thread_count, lock, deadline,
                   work, main, dangling, fault, finished, now, overslept>>

UntimedWait(w) ==
    /\ pc[w] = "choose"
    /\ ~SleepsUntilHead
    /\ pc' = [pc EXCEPT ![w] = "untimed"]
    /\ lock' = Nobody
    /\ read' = 0
    /\ overslept' = (queue # <<>> /\ read <= sleep_until /\ sleep_until < now)
    /\ UNCHANGED <<queue, sleep_until, stop, thread_count, deadline, work,
                   main, dangling, fault, finished, now>>

Timeout(w) ==
    /\ pc[w] = "timed"
    /\ now >= deadline[w]
    /\ pc' = [pc EXCEPT ![w] = "idle"]
    /\ overslept' = FALSE
    /\ UNCHANGED <<queue, sleep_until, stop, thread_count, lock, deadline,
                   work, main, dangling, fault, finished, now, read>>

(* Both waits may return without a signal.                                 *)
Spurious(w) ==
    /\ w \in Waiting
    /\ pc' = [pc EXCEPT ![w] = "idle"]
    /\ overslept' = FALSE
    /\ UNCHANGED <<queue, sleep_until, stop, thread_count, lock, deadline,
                   work, main, dangling, fault, finished, now, read>>

(* The data of the node that t_pool_pop_work takes off the queue.          *)
Popped == Head(queue).job

(* The wait loop ends with work: t_pool_pop_work, unlock and the call.     *)
Take(w) ==
    /\ pc[w] = "test"
    /\ ~stop
    /\ ~is_future(sleep_until) /\ queue # <<>>
    /\ queue' = prio_pop(queue)
    /\ sleep_until' = IF queue' = <<>> THEN None ELSE Head(queue').wait_until
    /\ work' = [work EXCEPT ![w] = Popped]
    /\ pc' = [pc EXCEPT ![w] = "run"]
    /\ lock' = Nobody
    /\ overslept' = FALSE
    /\ UNCHANGED <<stop, thread_count, deadline, main, dangling, fault,
                   finished, now, read>>

(* The callback returns and the node is freed.                             *)
Return(w) ==
    /\ pc[w] = "run"
    /\ finished' = finished \cup {work[w]}
    /\ work' = [work EXCEPT ![w] = NoJob]
    /\ pc' = [pc EXCEPT ![w] = "idle"]
    /\ UNCHANGED <<queue, sleep_until, stop, thread_count, lock, deadline,
                   main, dangling, fault, now, readings>>

(* The pool was stopped: count down, signal finished_cond, unlock.         *)
Exit(w) ==
    /\ pc[w] = "test"
    /\ stop
    /\ thread_count' = thread_count - 1
    /\ pc' = [pc EXCEPT ![w] = "exiting"]
    /\ main' = IF main = "waiting" THEN "join" ELSE main
    /\ lock' = Nobody
    /\ UNCHANGED <<queue, sleep_until, stop, deadline, work, dangling, fault,
                   finished, now, readings>>

(* curl_easy_cleanup on the handle of the thread, and its end.             *)
CurlCleanup(w) ==
    /\ pc[w] = "exiting"
    /\ pc' = [pc EXCEPT ![w] = "gone"]
    /\ UNCHANGED <<queue, sleep_until, stop, thread_count, lock, deadline,
                   work, main, dangling, fault, finished, now, readings>>

-----------------------------------------------------------------------------
(* t_pool_destroy up to its unlock: stop, free the work and the nodes (the *)
(* head is not reset), wake every waiter.                                  *)
DestroyBegin ==
    /\ main = "loop"
    /\ lock = Nobody
    /\ stop' = TRUE
    /\ dangling' = (queue # <<>>)
    /\ queue' = <<>>
    /\ Broadcast
    /\ main' = "join"
    /\ UNCHANGED <<sleep_until, thread_count, lock, deadline, work, fault,
                   finished, now, readings>>

NobodyLeft_any == TRUE
NobodyLeft == thread_count <= 0

(* The wait loop of t_pool_wait.                                           *)
JoinWaits ==
    /\ main = "join"
    /\ lock = Nobody
    /\ ~NobodyLeft
    /\ main' = "waiting"
    /\ UNCHANGED <<queue, sleep_until, stop, thread_count, lock, threadVars,
                   dangling, fault, finished, now, readings>>

JoinReturns ==
    /\ main = "join"
    /\ lock = Nobody
    /\ NobodyLeft
    /\ main' = "joined"
    /\ UNCHANGED <<queue, sleep_until, stop, thread_count, lock, threadVars,
                   dangling, fault, finished, now, readings>>

MainSpurious ==
    /\ main = "waiting"
    /\ main' = "join"
    /\ UNCHANGED <<queue, sleep_until, stop, thread_count, lock, threadVars,
                   dangling, fault, finished, now, readings>>

(* The rest of t_pool_destroy: destroy and free everything.                *)
FreePool ==
    /\ main = "joined"
    /\ main' = "freed"
    /\ UNCHANGED <<queue, sleep_until, stop, thread_count, lock, threadVars,
                   dangling, fault, finished, now, readings>>

(* Time passes; bounded by MaxTime.                                        *)
Tick ==
    /\ now' \in {n \in (now + 1)..MaxTime : n \notin Unnormalised}
    /\ UNCHANGED <<queue, sleep_until, stop, thread_count, lock, threadVars,
                   main, dangling, fault, finished, readings>>

-----------------------------------------------------------------------------
WorkerStep(w) ==
    \/ Lock(w) \/ MustWait(w) \/ TimedWait(w) \/ RefusedWait(w)
    \/ UntimedWait(w) \/ Timeout(w) \/ Take(w) \/ Return(w)
    \/ Exit(w) \/ CurlCleanup(w)

Destroying == JoinWaits \/ JoinReturns \/ FreePool

Finished == main = "freed" /\ \A w \in Workers : pc[w] \in {"gone", "absent"}

(* What follows the use of a freed node is not modelled: nothing happens.  *)
Next ==
    \/ /\ ~fault
       /\ \/ \E w \in Workers : WorkerStep(w) \/ Spurious(w)
          \/ \E j \in Jobs, t \in WaitTimes :
                MainAdds(j, t) \/ \E w \in Workers : CallbackAdds(w, j, t)
          \/ DestroyBegin \/ Destroying \/ MainSpurious
          \/ Tick
    \/ (Finished \/ fault) /\ UNCHANGED vars

Spec == Init /\ [][Next]_vars

(* Threads are scheduled, a mutex that is free often enough is obtained,   *)
(* callbacks return and time passes.  Nothing makes the event loop end.    *)
Fairness ==
    /\ \A w \in Workers :
          /\ SF_vars(~fault /\ Lock(w))
          /\ WF_vars(~fault /\ WorkerStep(w))
    /\ SF_vars(~fault /\ (JoinWaits \/ JoinReturns))
    /\ WF_vars(~fault /\ Destroying)
    /\ WF_vars(~fault /\ Tick)

FairSpec == Spec /\ Fairness

-----------------------------------------------------------------------------
Present == {w \in Workers : pc[w] # "absent"}

(* Threads that pool->thread_count counts: those that have not left the    *)
(* loop, and those that were never created.                                *)
Counted == {w \in Workers : pc[w] \notin {"exiting", "gone"}}

(* Threads that come back to the wait loop without being signalled.        *)
Active == {w \in Workers : pc[w] \in {"idle", "test", "choose", "run"}}

TypeOK ==
    /\ queue \in Seq(Node)
    /\ sleep_until \in WaitTimes \cup {None}
    /\ stop \in BOOLEAN
    /\ thread_count \in Int
    /\ lock \in Workers \cup {Nobody}
    /\ pc \in [Workers -> WorkerPc]
    /\ deadline \in [Workers -> WaitTimes \cup {None}]
    /\ work \in [Workers -> Jobs \cup {NoJob}]
    /\ main \in MainPc
    /\ dangling \in BOOLEAN
    /\ fault \in BOOLEAN
    /\ finished \subseteq Jobs
    /\ now \in 1..MaxTime
    /\ read \in 0..MaxTime
    /\ overslept \in BOOLEAN

(* No two workers are in the critical section of thread_work_loop, the     *)
(* refused wait included, where the mutex stays locked.                    *)
MutualExclusion ==
    \A w \in Workers : pc[w] \in {"test", "choose"} <=> lock = w

(* sleep_until follows the queue although t_pool_add_work and              *)
(* t_pool_pop_work update it in different ways: it is the time of the head *)
(* or of the last node, and never later than the head.                     *)
SleepUntilHeadOrLast ==
    ~dangling =>
      IF queue = <<>> THEN sleep_until = None
      ELSE /\ sleep_until <= queue[1].wait_until
           /\ sleep_until \in {queue[1].wait_until,
                               queue[Len(queue)].wait_until}

(* Queued work is attended: some thread comes back to the queue by itself, *)
(* or by the time the pool sleeps until; unless the last one that went to  *)
(* sleep found that time in the future, read the clock again to choose its *)
(* wait, found it in the past, and chose to sleep without a limit          *)
(* (t_pool.c:26-27).  t_pool_add_work signals one thread only, the thread  *)
(* that takes work signals none, and a signal is lost on a thread that     *)
(* does not wait: due or not, no work may be left because of that.         *)
QueueAttended ==
    (/\ queue # <<>>
     /\ ~stop
     /\ Present # {})
    => \/ Active # {}
       \/ \E w \in Workers : pc[w] = "timed" /\ deadline[w] <= sleep_until
       \/ overslept

(* A job is in one place: queued once, run by one worker, or finished.     *)
OnePlace ==
    /\ \A i, j \in 1..Len(queue) : queue[i].job = queue[j].job => i = j
    /\ \A v, w \in Workers :
          pc[v] = "run" /\ pc[w] = "run" /\ work[v] = work[w] => v = w
    /\ Queued \cap Running = {}
    /\ (Queued \cup Running) \cap finished = {}

(* The memory of the pool is freed only when no thread uses it any more:   *)
(* every thread that was created has left the loop.                        *)
FreedAfterExit ==
    main \in {"joined", "freed"} =>
        \A w \in Workers : pc[w] \in {"exiting", "gone"}

(* A freed node is used only by a callback that outlives the shutdown, and *)
(* never before t_pool_wait has returned to free the pool.                 *)
FaultOnlyInShutdown == fault => stop /\ main \in {"join", "waiting"}

(* What the invariants above rest on: the counter is exact, the shutdown   *)
(* starts with stop, threads leave the loop only then, only the shutdown   *)
(* leaves a dangling head, a worker has a job just while it runs it.       *)
Bookkeeping ==
    /\ thread_count = Cardinality(Counted)
    /\ stop <=> main # "loop"
    /\ \A w \in Workers : pc[w] \in {"exiting", "gone"} => stop
    /\ dangling => stop
    /\ \A w \in Workers : pc[w] = "run" <=> work[w] # NoJob

(* A thread that is about to choose its wait has read the clock no later   *)
(* than sleep_until, which nobody has changed since.                       *)
ReadInTime ==
    \A w \in Workers :
        pc[w] = "choose" => queue = <<>> \/ read <= sleep_until

(* The inductive invariant of the proofs.                                  *)
IInv ==
    /\ TypeOK
    /\ Bookkeeping
    /\ MutualExclusion
    /\ SleepUntilHeadOrLast
    /\ ReadInTime
    /\ QueueAttended
    /\ OnePlace
    /\ FreedAfterExit
    /\ FaultOnlyInShutdown

(* disco.c:57: t_pool_destroy "closes and waits for all threads".  What    *)
(* follows it in disco.c, curl_global_cleanup, relies on it.               *)
ThreadsEndBeforeDestroyReturns ==
    main = "freed" => \A w \in Workers : pc[w] = "gone"

(* t_pool_destroy returns: every thread, wherever it is when the pool is   *)
(* stopped, is woken, runs its callback to the end and counts itself down. *)
DestroyReturns ==
    (stop /\ Present = Workers) ~> (main = "freed" \/ fault)

(* Queued work is started unless the pool is stopped or has no threads,    *)
(* whatever the order in which it waits; or until every thread sleeps      *)
(* without a limit, the last one because the clock passed sleep_until      *)
(* between its two readings (t_pool.c:26-27).                              *)
QueuedWorkStarts ==
    \A j \in Jobs :
        j \in Queued ~>
            \/ j \notin Queued \/ stop \/ Present = {}
            \/ overslept /\ \A w \in Workers : pc[w] \in {"untimed", "absent"}

(* The pool does what WorkPool promises.                                   *)
Promise == INSTANCE WorkPool WITH
    Threads <- Workers,
    pending <- Nodes(queue),
    running <- work,
    stopped <- stop

ImplementsWorkPool == Promise!Spec
====
