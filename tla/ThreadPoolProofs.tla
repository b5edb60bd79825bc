---- MODULE ThreadPoolProofs ----
(***************************************************************************)
(* The safety invariants of the thread pool, for any number of workers,    *)
(* jobs and instants.                                                      *)
(***************************************************************************)
EXTENDS ThreadPool, ListProofs, FiniteSetTheorems

USE ThreadsAssumption, JobsAssumption, TimeAssumption
DEF ThreadsAssumption, JobsAssumption, TimeAssumption
USE DEF Sooner, Abstime, Popped, Broadcast, NobodyLeft, readings

(* Everything a worker or the shutdown does, as one disjunction.           *)
LEMMA NextCases ==
    ASSUME Next
    PROVE  \/ \E w \in Workers : WorkerStep(w) \/ Spurious(w)
           \/ \E j \in Jobs, t \in WaitTimes : MainAdds(j, t)
           \/ \E w \in Workers, j \in Jobs, t \in WaitTimes :
                 CallbackAdds(w, j, t)
           \/ DestroyBegin
           \/ Destroying
           \/ MainSpurious
           \/ Tick
           \/ UNCHANGED vars
BY DEF Next

(* Instants are integers, so the lemmas on the queue apply to nodes.       *)
LEMMA NodeTimes == \A e \in Node : e.wait_until \in Int
<1> SUFFICES ASSUME NEW e \in Node PROVE e.wait_until \in Int
  OBVIOUS
<1>1. e.wait_until \in WaitTimes
  BY DEF Node
<1>2. WaitTimes \subseteq Int
  OBVIOUS
<1> QED
  BY <1>1, <1>2

(* The state invariant of the types holds initially.                       *)
LEMMA InitType == Init => TypeOK
<1> SUFFICES ASSUME Init PROVE TypeOK
  OBVIOUS
<1>1. pc \in [Workers -> WorkerPc]
  BY DEF Init, WorkerPc
<1>2. Cardinality(Workers) \in Int
  BY FS_CardinalityType
<1>3. queue \in Seq(Node)
  BY EmptySeq DEF Init
<1>4. /\ deadline \in [Workers -> WaitTimes \cup {None}]
      /\ work \in [Workers -> Jobs \cup {NoJob}]
  BY DEF Init
<1>5. now \in 1..MaxTime /\ read \in 0..MaxTime
  BY DEF Init
<1> QED
  BY <1>1, <1>2, <1>3, <1>4, <1>5 DEF Init, TypeOK, MainPc

(* Signalling moves at most one waiter to the mutex.                       *)
LEMMA SignalType ==
    ASSUME pc \in [Workers -> WorkerPc], SignalWork
    PROVE  pc' \in [Workers -> WorkerPc]
<1>1. CASE UNCHANGED pc
  BY <1>1
<1>2. ASSUME NEW w \in Waiting, pc' = [pc EXCEPT ![w] = "idle"]
      PROVE  pc' \in [Workers -> WorkerPc]
  BY <1>2 DEF WorkerPc
<1> QED
  BY <1>1, <1>2 DEF SignalWork

LEMMA AddWorkType ==
    ASSUME TypeOK, NEW j \in Jobs, NEW t \in WaitTimes, AddWork(j, t)
    PROVE  TypeOK'
<1>1. [job |-> j, wait_until |-> t] \in Node
  BY DEF Node
<1>2. queue' \in Seq(Node)
  BY <1>1, NodeTimes, PushType DEF AddWork, TypeOK
<1>3. sleep_until' \in WaitTimes \cup {None}
  BY DEF AddWork, TypeOK
<1>4. pc' \in [Workers -> WorkerPc]
  BY SignalType DEF AddWork, TypeOK
<1> QED
  BY <1>2, <1>3, <1>4 DEF AddWork, TypeOK

LEMMA TypeStep ==
    ASSUME TypeOK, Bookkeeping, [Next]_vars
    PROVE  TypeOK'
<1> USE DEF WorkerPc, MainPc
<1>1. ASSUME NEW w \in Workers, Lock(w) PROVE TypeOK'
  BY <1>1 DEF TypeOK, Lock
<1>2. ASSUME NEW w \in Workers, MustWait(w) PROVE TypeOK'
  BY <1>2 DEF TypeOK, MustWait
<1>3. ASSUME NEW w \in Workers, TimedWait(w) PROVE TypeOK'
  <2>1. deadline' \in [Workers -> WaitTimes \cup {None}]
    BY <1>3 DEF TypeOK, TimedWait
  <2>2. read' \in 0..MaxTime /\ overslept' \in BOOLEAN
    <3>1. read' = 0
      BY <1>3 DEF TimedWait
    <3>2. overslept' = FALSE
      BY <1>3 DEF TimedWait
    <3>3. read' \in 0..MaxTime
      BY <3>1
    <3>4. overslept' \in BOOLEAN
      BY <3>2, Zenon
    <3> QED
      BY <3>3, <3>4
  <2>3. pc' \in [Workers -> WorkerPc]
    BY <1>3 DEF TypeOK, TimedWait
  <2> QED
    BY <1>3, <2>1, <2>2, <2>3 DEF TypeOK, TimedWait
<1>4. ASSUME NEW w \in Workers, RefusedWait(w) PROVE TypeOK'
  BY <1>4 DEF TypeOK, RefusedWait
<1>5. ASSUME NEW w \in Workers, UntimedWait(w) PROVE TypeOK'
  <2>1. overslept' \in BOOLEAN
    BY <1>5 DEF UntimedWait
  <2> QED
    BY <1>5, <2>1 DEF TypeOK, UntimedWait
<1>6. ASSUME NEW w \in Workers, Timeout(w) \/ Spurious(w) PROVE TypeOK'
  BY <1>6 DEF TypeOK, Timeout, Spurious
<1>7. ASSUME NEW w \in Workers, Take(w) PROVE TypeOK'
  <2>1. queue \in Seq(Node) /\ queue # <<>>
    BY <1>7 DEF Take, TypeOK
  <2>2. queue' \in Seq(Node) /\ Head(queue) \in Node
    BY <1>7, <2>1, PopShifts DEF Take
  <2>3. sleep_until' \in WaitTimes \cup {None}
    <3>1. CASE queue' = <<>>
      BY <1>7, <3>1 DEF Take
    <3>2. CASE queue' # <<>>
      <4>1. Head(queue') \in Node
        BY <2>2, <3>2, PopShifts
      <4> QED
        BY <1>7, <3>2, <4>1 DEF Take, Node
    <3> QED
      BY <3>1, <3>2
  <2>4. work' \in [Workers -> Jobs \cup {NoJob}]
    BY <1>7, <2>2 DEF Take, TypeOK, Node
  <2> QED
    BY <1>7, <2>2, <2>3, <2>4 DEF Take, TypeOK
<1>8. ASSUME NEW w \in Workers, Return(w) PROVE TypeOK'
  <2>1. work[w] \in Jobs
    BY <1>8 DEF Return, TypeOK, Bookkeeping
  <2> QED
    BY <1>8, <2>1 DEF TypeOK, Return
<1>9. ASSUME NEW w \in Workers, Exit(w) PROVE TypeOK'
  BY <1>9 DEF TypeOK, Exit
<1>10. ASSUME NEW w \in Workers, CurlCleanup(w) PROVE TypeOK'
  BY <1>10 DEF TypeOK, CurlCleanup
<1>11. ASSUME NEW j \in Jobs, NEW t \in WaitTimes, MainAdds(j, t)
       PROVE  TypeOK'
  BY <1>11, AddWorkType DEF MainAdds
<1>12. ASSUME NEW w \in Workers, NEW j \in Jobs, NEW t \in WaitTimes,
              CallbackAdds(w, j, t)
       PROVE  TypeOK'
  <2>1. CASE AddWork(j, t)
    BY <2>1, AddWorkType
  <2>2. CASE AddWorkAfterFree
    BY <2>2 DEF AddWorkAfterFree, TypeOK, threadVars
  <2> QED
    BY <1>12, <2>1, <2>2 DEF CallbackAdds
<1>13. CASE DestroyBegin
  BY <1>13 DEF TypeOK, DestroyBegin
<1>14. CASE Destroying
  BY <1>14 DEF TypeOK, Destroying, JoinWaits, JoinReturns, FreePool, threadVars
<1>15. CASE MainSpurious
  BY <1>15 DEF TypeOK, MainSpurious, threadVars
<1>16. CASE Tick
  BY <1>16 DEF TypeOK, Tick, threadVars
<1>17. CASE UNCHANGED vars
  BY <1>17 DEF TypeOK, vars
<1> QED
  BY NextCases, <1>1, <1>2, <1>3, <1>4, <1>5, <1>6, <1>7, <1>8, <1>9,
     <1>10, <1>11, <1>12, <1>13, <1>14, <1>15, <1>16, <1>17
  DEF WorkerStep

(* A signal leaves every thread where it is but one waiter, if there is    *)
(* one, which goes for the mutex.                                          *)
LEMMA SignalEffect ==
    ASSUME pc \in [Workers -> WorkerPc], SignalWork
    PROVE  /\ \A v \in Workers :
                 \/ pc'[v] = pc[v]
                 \/ pc[v] \in {"timed", "untimed"} /\ pc'[v] = "idle"
           /\ Waiting # {} => \E v \in Workers : pc'[v] = "idle"
<1>1. CASE Waiting = {}
  BY <1>1 DEF SignalWork
<1>2. ASSUME NEW w \in Waiting, pc' = [pc EXCEPT ![w] = "idle"]
      PROVE  /\ \A v \in Workers :
                    \/ pc'[v] = pc[v]
                    \/ pc[v] \in {"timed", "untimed"} /\ pc'[v] = "idle"
             /\ \E v \in Workers : pc'[v] = "idle"
  <2>1. w \in Workers /\ pc[w] \in {"timed", "untimed"} /\ pc'[w] = "idle"
    BY <1>2 DEF Waiting
  <2>2. \A v \in Workers : v # w => pc'[v] = pc[v]
    BY <1>2
  <2> QED
    BY <2>1, <2>2
<1> QED
  BY <1>1, <1>2 DEF SignalWork

-----------------------------------------------------------------------------
(* The counter of threads, and when threads and the shutdown may move.     *)

LEMMA InitBookkeeping == Init => Bookkeeping
<1> SUFFICES ASSUME Init PROVE Bookkeeping
  OBVIOUS
<1>1. pc \in [Workers -> {"idle", "absent"}]
  BY DEF Init
<1>2. Counted = Workers
  BY <1>1 DEF Counted
<1> QED
  BY <1>1, <1>2 DEF Init, Bookkeeping

(* A step in which no thread enters or leaves the callbacks or the loop,   *)
(* and that leaves main, stop and dangling alone, keeps the books.         *)
LEMMA BookkeepingFrame ==
    ASSUME TypeOK, Bookkeeping, pc' \in [Workers -> WorkerPc],
           UNCHANGED <<stop, thread_count, work, dangling>>,
           main = "loop" <=> main' = "loop",
           \A v \in Workers :
              /\ pc'[v] = "run" <=> pc[v] = "run"
              /\ pc'[v] \in {"exiting", "gone"} <=> pc[v] \in {"exiting", "gone"}
    PROVE  Bookkeeping'
<1>1. Counted' = Counted
  BY DEF Counted
<1> QED
  BY <1>1 DEF Bookkeeping

LEMMA AddWorkBookkeeping ==
    ASSUME TypeOK, Bookkeeping, NEW j \in Jobs, NEW t \in WaitTimes,
           AddWork(j, t)
    PROVE  Bookkeeping'
<1>1. pc' \in [Workers -> WorkerPc]
  BY AddWorkType DEF TypeOK
<1>2. \A v \in Workers :
         \/ pc'[v] = pc[v]
         \/ pc[v] \in {"timed", "untimed"} /\ pc'[v] = "idle"
  BY SignalEffect DEF AddWork, TypeOK
<1>3. \A v \in Workers :
         /\ pc'[v] = "run" <=> pc[v] = "run"
         /\ pc'[v] \in {"exiting", "gone"} <=> pc[v] \in {"exiting", "gone"}
  BY <1>2
<1>4. UNCHANGED <<stop, thread_count, work, dangling, main>>
  BY DEF AddWork
<1> QED
  BY <1>1, <1>3, <1>4, BookkeepingFrame

LEMMA BookkeepingStep ==
    ASSUME TypeOK, Bookkeeping, [Next]_vars
    PROVE  Bookkeeping'
<1> USE DEF TypeOK
<1>0. TypeOK'
  BY TypeStep
<1>1. ASSUME NEW w \in Workers,
             \/ Lock(w) \/ MustWait(w) \/ TimedWait(w) \/ RefusedWait(w)
             \/ UntimedWait(w) \/ Timeout(w) \/ Spurious(w) \/ CurlCleanup(w)
      PROVE  Bookkeeping'
  <2>1. \A v \in Workers :
           /\ pc'[v] = "run" <=> pc[v] = "run"
           /\ pc'[v] \in {"exiting", "gone"} <=> pc[v] \in {"exiting", "gone"}
    BY <1>1 DEF Lock, MustWait, TimedWait, RefusedWait, UntimedWait,
                Timeout, Spurious, Waiting, CurlCleanup
  <2>2. UNCHANGED <<stop, thread_count, work, dangling, main>>
    BY <1>1 DEF Lock, MustWait, TimedWait, RefusedWait, UntimedWait,
                Timeout, Spurious, CurlCleanup
  <2> QED
    BY <1>0, <2>1, <2>2, BookkeepingFrame
<1>2. ASSUME NEW w \in Workers, Take(w) PROVE Bookkeeping'
  <2>1. queue \in Seq(Node) /\ queue # <<>>
    BY <1>2 DEF Take
  <2>2. Head(queue).job \in Jobs
    <3>1. Head(queue) \in Node
      BY <2>1, PopShifts
    <3> QED
      BY <3>1 DEF Node
  <2>3. Counted' = Counted
    BY <1>2 DEF Take, Counted
  <2>4. \A v \in Workers : pc'[v] = "run" <=> work'[v] # NoJob
    BY <1>2, <2>2 DEF Take, Bookkeeping
  <2> QED
    BY <1>2, <2>3, <2>4 DEF Take, Bookkeeping
<1>3. ASSUME NEW w \in Workers, Return(w) PROVE Bookkeeping'
  <2>1. Counted' = Counted
    BY <1>3 DEF Return, Counted
  <2>2. \A v \in Workers : pc'[v] = "run" <=> work'[v] # NoJob
    BY <1>3 DEF Return, Bookkeeping
  <2> QED
    BY <1>3, <2>1, <2>2 DEF Return, Bookkeeping
<1>4. ASSUME NEW w \in Workers, Exit(w) PROVE Bookkeeping'
  <2>1. Counted' = Counted \ {w} /\ w \in Counted
    BY <1>4 DEF Exit, Counted
  <2>2. IsFiniteSet(Counted)
    BY FS_Subset DEF Counted
  <2>3. Cardinality(Counted') = Cardinality(Counted) - 1
    BY <2>1, <2>2, FS_RemoveElement
  <2>4. \A v \in Workers : pc'[v] = "run" <=> work'[v] # NoJob
    BY <1>4 DEF Exit, Bookkeeping
  <2>5. stop' /\ main' # "loop"
    BY <1>4 DEF Exit, Bookkeeping
  <2> QED
    BY <1>4, <2>3, <2>4, <2>5 DEF Exit, Bookkeeping
<1>5. ASSUME NEW j \in Jobs, NEW t \in WaitTimes, MainAdds(j, t)
      PROVE  Bookkeeping'
  BY <1>5, AddWorkBookkeeping DEF MainAdds
<1>6. ASSUME NEW w \in Workers, NEW j \in Jobs, NEW t \in WaitTimes,
             CallbackAdds(w, j, t)
      PROVE  Bookkeeping'
  <2>1. CASE AddWork(j, t)
    BY <2>1, AddWorkBookkeeping
  <2>2. CASE AddWorkAfterFree
    BY <2>2, <1>0, BookkeepingFrame DEF AddWorkAfterFree, threadVars
  <2> QED
    BY <1>6, <2>1, <2>2 DEF CallbackAdds
<1>7. CASE DestroyBegin
  <2>1. \A v \in Workers :
           /\ pc'[v] = "run" <=> pc[v] = "run"
           /\ pc'[v] \in {"exiting", "gone"} <=> pc[v] \in {"exiting", "gone"}
    BY <1>7 DEF DestroyBegin, Waiting
  <2>2. Counted' = Counted
    BY <2>1 DEF Counted
  <2> QED
    BY <1>7, <2>1, <2>2 DEF DestroyBegin, Bookkeeping
<1>8. CASE Destroying \/ MainSpurious \/ Tick \/ UNCHANGED vars
  BY <1>8, <1>0, BookkeepingFrame
  DEF Destroying, JoinWaits, JoinReturns, FreePool, MainSpurious, Tick,
      threadVars, vars
<1> QED
  BY NextCases, <1>1, <1>2, <1>3, <1>4, <1>5, <1>6, <1>7, <1>8
  DEF WorkerStep

-----------------------------------------------------------------------------
(* The mutex.                                                              *)

LEMMA MutexStep ==
    ASSUME TypeOK, MutualExclusion, [Next]_vars
    PROVE  MutualExclusion'
<1> USE DEF TypeOK, MutualExclusion
<1>1. ASSUME NEW w \in Workers, WorkerStep(w) \/ Spurious(w)
      PROVE  MutualExclusion'
  BY <1>1 DEF WorkerStep, Lock, MustWait, TimedWait, RefusedWait, UntimedWait,
              Timeout, Spurious, Waiting, CurlCleanup, Take, Return, Exit
<1>2. ASSUME NEW j \in Jobs, NEW t \in WaitTimes, AddWork(j, t)
      PROVE  MutualExclusion'
  BY <1>2, SignalEffect DEF AddWork
<1>3. CASE DestroyBegin
  BY <1>3 DEF DestroyBegin, Waiting
<1>4. CASE \/ AddWorkAfterFree \/ Destroying \/ MainSpurious \/ Tick
           \/ UNCHANGED vars
  BY <1>4 DEF AddWorkAfterFree, Destroying, JoinWaits, JoinReturns, FreePool,
              MainSpurious, Tick, threadVars, vars
<1> QED
  BY NextCases, <1>1, <1>2, <1>3, <1>4 DEF MainAdds, CallbackAdds

-----------------------------------------------------------------------------
(* The time the pool sleeps until.                                         *)

LEMMA AddWorkSleepUntil ==
    ASSUME TypeOK, SleepUntilHeadOrLast, NEW j \in Jobs, NEW t \in WaitTimes,
           AddWork(j, t)
    PROVE  SleepUntilHeadOrLast'
<1> DEFINE node == [job |-> j, wait_until |-> t]
           p == Cursor(queue, t)
<1>1. node \in Node /\ node.wait_until = t /\ t \in Nat
  BY DEF Node
<1>2. queue' = prio_push(queue, node) /\ ~dangling
  BY DEF AddWork
<1>3. sleep_until' = IF sleep_until = None \/ sleep_until > t
                     THEN t ELSE sleep_until
  BY DEF AddWork
<1>4. CASE queue = <<>>
  <2>1. queue' = <<node>> /\ sleep_until' = t
    BY <1>2, <1>3, <1>4 DEF prio_push, SleepUntilHeadOrLast
  <2> QED
    BY <2>1, <1>1 DEF SleepUntilHeadOrLast
<1>5. CASE queue # <<>>
  <2> DEFINE n == Len(queue)
  <2>1. /\ p \in 1..n
        /\ p = n \/ queue[p].wait_until > t
        /\ \A i \in 1..(p - 1) : queue[i].wait_until <= t
        /\ Len(queue') = n + 1
        /\ \A i \in 1..Len(queue') :
              queue'[i] = IF i < p THEN queue[i]
                          ELSE IF i = p THEN node ELSE queue[i - 1]
    <3> HIDE DEF node, p, n
    <3>1. queue \in Seq(Node)
      BY DEF TypeOK
    <3>2. InsertedAt(queue, node, Cursor(queue, node.wait_until),
                     prio_push(queue, node))
      BY <1>1, <1>5, <3>1, NodeTimes, PushInserts
    <3>3. Cursor(queue, node.wait_until) = p
      BY <1>1 DEF p
    <3>4. InsertedAt(queue, node, p, queue')
      BY <1>2, <3>2, <3>3
    <3> QED
      BY <1>1, <3>4 DEF InsertedAt, n
  <2>2. n \in Nat \ {0}
    BY <1>5, LenProperties, EmptySeq DEF TypeOK
  <2>3. \A i \in 1..n : queue[i].wait_until \in Nat
    <3> SUFFICES ASSUME NEW i \in 1..n PROVE queue[i].wait_until \in Nat
      OBVIOUS
    <3>1. queue[i] \in Node
      BY ElementOfSeq DEF TypeOK
    <3> QED
      BY <3>1 DEF Node
  <2>4. /\ sleep_until <= queue[1].wait_until
        /\ sleep_until \in {queue[1].wait_until, queue[n].wait_until}
    BY <1>2, <1>5 DEF SleepUntilHeadOrLast
  <2>5. sleep_until \in Nat /\ sleep_until # None
    BY <2>2, <2>3, <2>4 DEF None
  <2>6. /\ 1 \in 1..Len(queue') /\ n + 1 \in 1..Len(queue')
        /\ queue'[n + 1] = queue[n]
        /\ queue'[1] = IF p = 1 THEN node ELSE queue[1]
    BY <2>1, <2>2
  <2>7. queue' # <<>>
    BY <2>1, <2>2, EmptySeq
  <2> HIDE DEF p, n, node
  <2>8. CASE sleep_until > t
    <3>1. p = 1
      BY <2>1, <2>2, <2>3, <2>4, <2>5, <2>8, <1>1
    <3> QED
      BY <1>1, <1>3, <2>1, <2>6, <2>7, <2>8, <3>1 DEF SleepUntilHeadOrLast
  <2>9. CASE sleep_until <= t
    <3>1. sleep_until' = sleep_until
      BY <1>1, <1>3, <2>5, <2>9
    <3>2. CASE p = 1
      <4>1. sleep_until = queue[n].wait_until
        BY <3>2, <2>1, <2>2, <2>3, <2>4, <2>5, <2>9, <1>1
      <4>2. queue'[1].wait_until = t
        BY <1>1, <2>6, <3>2
      <4>3. Len(queue') = n + 1 /\ queue'[n + 1].wait_until = sleep_until
        BY <2>1, <2>6, <4>1
      <4> QED
        BY <2>7, <2>9, <3>1, <4>2, <4>3 DEF SleepUntilHeadOrLast
    <3>3. CASE p # 1
      BY <2>1, <2>4, <2>6, <2>7, <3>1, <3>3 DEF SleepUntilHeadOrLast
    <3> QED
      BY <3>2, <3>3
  <2> QED
    BY <2>5, <2>8, <2>9, <1>1
<1> QED
  BY <1>4, <1>5

LEMMA TakeSleepUntil ==
    ASSUME TypeOK, NEW w \in Workers, Take(w)
    PROVE  SleepUntilHeadOrLast'
<1>1. queue' \in Seq(Node)
  BY PopShifts DEF Take, TypeOK
<1>2. CASE queue' = <<>>
  BY <1>2 DEF Take, SleepUntilHeadOrLast
<1>3. CASE queue' # <<>>
  <2>1. sleep_until' = queue'[1].wait_until /\ queue'[1] \in Node
    BY <1>1, <1>3, PopShifts DEF Take
  <2>2. queue'[1].wait_until \in Nat
    BY <2>1 DEF Node
  <2> QED
    BY <1>3, <2>1, <2>2 DEF SleepUntilHeadOrLast
<1> QED
  BY <1>2, <1>3

LEMMA SleepUntilStep ==
    ASSUME TypeOK, Bookkeeping, SleepUntilHeadOrLast, [Next]_vars
    PROVE  SleepUntilHeadOrLast'
<1>1. ASSUME NEW w \in Workers, Take(w)
      PROVE  SleepUntilHeadOrLast'
  BY <1>1, TakeSleepUntil
<1>2. ASSUME NEW j \in Jobs, NEW t \in WaitTimes, AddWork(j, t)
      PROVE  SleepUntilHeadOrLast'
  BY <1>2, AddWorkSleepUntil
<1>3. CASE DestroyBegin
  <2>1. CASE queue = <<>>
    <3>1. ~dangling /\ queue' = <<>> /\ sleep_until' = sleep_until
      BY <1>3 DEF DestroyBegin, Bookkeeping
    <3> QED
      BY <2>1, <3>1 DEF SleepUntilHeadOrLast
  <2>2. CASE queue # <<>>
    <3>1. dangling'
      BY <1>3, <2>2 DEF DestroyBegin
    <3> QED
      BY <3>1 DEF SleepUntilHeadOrLast
  <2> QED
    BY <2>1, <2>2
<1>4. ASSUME NEW w \in Workers,
             \/ Lock(w) \/ MustWait(w) \/ TimedWait(w) \/ RefusedWait(w)
             \/ UntimedWait(w) \/ Timeout(w) \/ Spurious(w) \/ CurlCleanup(w)
             \/ Return(w) \/ Exit(w)
      PROVE  SleepUntilHeadOrLast'
  <2>1. UNCHANGED <<queue, sleep_until, dangling>>
    BY <1>4 DEF Lock, MustWait, TimedWait, RefusedWait, UntimedWait, Timeout,
                Spurious, CurlCleanup, Return, Exit
  <2> QED
    BY <2>1 DEF SleepUntilHeadOrLast
<1>5. CASE \/ AddWorkAfterFree \/ Destroying \/ MainSpurious \/ Tick
           \/ UNCHANGED vars
  <2>1. UNCHANGED <<queue, sleep_until, dangling>>
    BY <1>5 DEF AddWorkAfterFree, Destroying, JoinWaits, JoinReturns, FreePool,
                MainSpurious, Tick, vars
  <2> QED
    BY <2>1 DEF SleepUntilHeadOrLast
<1> QED
  BY NextCases, <1>1, <1>2, <1>3, <1>4, <1>5
  DEF MainAdds, CallbackAdds, WorkerStep

-----------------------------------------------------------------------------
(* Queued work is attended.                                                *)

(* A new node signals a waiter; if nobody waits, every thread there is is  *)
(* on its way back to the queue already.                                   *)
LEMMA AddWorkAttended ==
    ASSUME TypeOK, Bookkeeping, NEW j \in Jobs, NEW t \in WaitTimes,
           AddWork(j, t)
    PROVE  QueueAttended'
<1> SUFFICES ASSUME ~stop', Present' # {}
             PROVE  Active' # {}
  BY DEF QueueAttended
<1>1. /\ \A v \in Workers :
            \/ pc'[v] = pc[v]
            \/ pc[v] \in {"timed", "untimed"} /\ pc'[v] = "idle"
      /\ Waiting # {} => \E v \in Workers : pc'[v] = "idle"
  BY SignalEffect DEF AddWork, TypeOK
<1>2. CASE Waiting # {}
  BY <1>1, <1>2 DEF Active
<1>3. CASE Waiting = {}
  <2>1. PICK v \in Workers : pc'[v] # "absent"
    BY DEF Present
  <2>2. pc'[v] = pc[v] /\ pc[v] \notin {"timed", "untimed"}
    BY <1>1, <1>3 DEF Waiting
  <2>3. pc[v] \notin {"exiting", "gone"}
    BY DEF Bookkeeping, AddWork
  <2>4. pc[v] \in {"idle", "test", "choose", "run"}
    BY <2>1, <2>2, <2>3 DEF TypeOK, WorkerPc
  <2> QED
    BY <2>2, <2>4 DEF Active
<1> QED
  BY <1>2, <1>3

(* The time a thread read in the condition of the wait loop still comes    *)
(* before sleep_until when it chooses its wait: it holds the mutex.        *)
LEMMA ReadStep ==
    ASSUME TypeOK, MutualExclusion, ReadInTime, [Next]_vars
    PROVE  ReadInTime'
<1> USE DEF TypeOK, MutualExclusion, ReadInTime
<1>1. ASSUME NEW w \in Workers, MustWait(w) PROVE ReadInTime'
  BY <1>1 DEF MustWait, is_future
<1>2. ASSUME NEW w \in Workers,
             \/ Lock(w) \/ TimedWait(w) \/ RefusedWait(w) \/ UntimedWait(w)
             \/ Take(w)
      PROVE  ReadInTime'
  <2>1. \A v \in Workers : pc'[v] # "choose"
    BY <1>2 DEF Lock, TimedWait, RefusedWait, UntimedWait, Take
  <2> QED
    BY <2>1
<1>3. ASSUME NEW w \in Workers,
             \/ Timeout(w) \/ Spurious(w) \/ Return(w) \/ Exit(w)
             \/ CurlCleanup(w)
      PROVE  ReadInTime'
  <2>1. \A v \in Workers : pc'[v] = "choose" => pc[v] = "choose"
    BY <1>3 DEF Timeout, Spurious, Return, Exit, CurlCleanup
  <2>2. UNCHANGED <<queue, sleep_until, read>>
    BY <1>3 DEF Timeout, Spurious, Return, Exit, CurlCleanup
  <2> QED
    BY <2>1, <2>2
<1>4. ASSUME NEW j \in Jobs, NEW t \in WaitTimes, AddWork(j, t)
      PROVE  ReadInTime'
  <2>1. \A v \in Workers : pc'[v] # "choose"
    BY <1>4, SignalEffect DEF AddWork
  <2> QED
    BY <2>1
<1>5. CASE DestroyBegin
  BY <1>5 DEF DestroyBegin
<1>6. CASE \/ AddWorkAfterFree \/ Destroying \/ MainSpurious \/ Tick
           \/ UNCHANGED vars
  <2>1. UNCHANGED <<pc, queue, sleep_until, read>>
    BY <1>6 DEF AddWorkAfterFree, Destroying, JoinWaits, JoinReturns, FreePool,
                MainSpurious, Tick, threadVars, vars
  <2> QED
    BY <2>1
<1> QED
  BY NextCases, <1>1, <1>2, <1>3, <1>4, <1>5, <1>6
  DEF MainAdds, CallbackAdds, WorkerStep

LEMMA AttendedStep ==
    ASSUME TypeOK, Bookkeeping, ReadInTime, QueueAttended, [Next]_vars
    PROVE  QueueAttended'
<1> USE DEF TypeOK
<1>1. ASSUME NEW w \in Workers,
             Lock(w) \/ MustWait(w) \/ RefusedWait(w) \/ Timeout(w) \/ Spurious(w)
             \/ Take(w) \/ Return(w)
      PROVE  QueueAttended'
  <2>1. w \in Active'
    BY <1>1 DEF Active, Lock, MustWait, RefusedWait, Timeout, Spurious, Take,
                Return
  <2> QED
    BY <2>1 DEF QueueAttended
<1>2. ASSUME NEW w \in Workers, TimedWait(w) PROVE QueueAttended'
  <2>1. pc'[w] = "timed" /\ deadline'[w] = sleep_until'
    BY <1>2 DEF TimedWait
  <2>2. sleep_until' \in Int
    BY <1>2 DEF TimedWait, None
  <2> QED
    BY <2>1, <2>2 DEF QueueAttended
<1>3. ASSUME NEW w \in Workers, UntimedWait(w) PROVE QueueAttended'
  <2>1. pc[w] = "choose" /\ queue' = queue
    BY <1>3 DEF UntimedWait
  <2>2. CASE queue = <<>>
    BY <2>1, <2>2 DEF QueueAttended
  <2>3. CASE queue # <<>>
    <3>1. read <= sleep_until
      BY <2>1, <2>3 DEF ReadInTime
    <3>2. ~(now <= sleep_until)
      BY <1>3, <2>3 DEF UntimedWait, SleepsUntilHead, is_future
    <3>3. sleep_until < now
      BY <3>2 DEF None
    <3>4. overslept' = (queue # <<>> /\ read <= sleep_until /\ sleep_until < now)
      BY <1>3 DEF UntimedWait
    <3>5. overslept'
      BY <2>3, <3>1, <3>3, <3>4
    <3> QED
      BY <3>5 DEF QueueAttended
  <2> QED
    BY <2>2, <2>3
<1>4. ASSUME NEW w \in Workers, Exit(w) PROVE QueueAttended'
  BY <1>4 DEF Exit, QueueAttended
<1>5. ASSUME NEW w \in Workers, CurlCleanup(w) PROVE QueueAttended'
  BY <1>5 DEF CurlCleanup, QueueAttended, Bookkeeping
<1>6. ASSUME NEW j \in Jobs, NEW t \in WaitTimes, AddWork(j, t)
      PROVE  QueueAttended'
  BY <1>6, AddWorkAttended
<1>7. CASE DestroyBegin
  BY <1>7 DEF DestroyBegin, QueueAttended
<1>8. CASE \/ AddWorkAfterFree \/ Destroying \/ MainSpurious \/ Tick
           \/ UNCHANGED vars
  <2>1. UNCHANGED <<queue, stop, pc, deadline, sleep_until, overslept>>
    BY <1>8 DEF AddWorkAfterFree, Destroying, JoinWaits, JoinReturns, FreePool,
                MainSpurious, Tick, threadVars, vars
  <2> QED
    BY <2>1 DEF QueueAttended, Present, Active
<1> QED
  BY NextCases, <1>1, <1>2, <1>3, <1>4, <1>5, <1>6, <1>7, <1>8
  DEF MainAdds, CallbackAdds, WorkerStep

-----------------------------------------------------------------------------
(* The shutdown.                                                           *)

LEMMA FreedStep ==
    ASSUME TypeOK, Bookkeeping, FreedAfterExit, [Next]_vars
    PROVE  FreedAfterExit'
<1> USE DEF TypeOK
<1>1. ASSUME NEW w \in Workers, WorkerStep(w) \/ Spurious(w)
      PROVE  FreedAfterExit'
  <2>1. main' \in {"joined", "freed"} => main \in {"joined", "freed"}
    BY <1>1 DEF WorkerStep, Lock, MustWait, TimedWait, RefusedWait, UntimedWait,
                Timeout, Spurious, CurlCleanup, Take, Return, Exit
  <2>2. \A v \in Workers :
           pc[v] \in {"exiting", "gone"} => pc'[v] \in {"exiting", "gone"}
    BY <1>1 DEF WorkerStep, Lock, MustWait, TimedWait, RefusedWait, UntimedWait,
                Timeout, Spurious, Waiting, CurlCleanup, Take, Return, Exit
  <2> QED
    BY <2>1, <2>2 DEF FreedAfterExit
<1>2. ASSUME NEW j \in Jobs, NEW t \in WaitTimes, AddWork(j, t)
      PROVE  FreedAfterExit'
  BY <1>2, SignalEffect DEF AddWork, FreedAfterExit
<1>3. CASE DestroyBegin
  BY <1>3 DEF DestroyBegin, FreedAfterExit
<1>4. CASE JoinReturns
  <2>1. IsFiniteSet(Counted)
    BY FS_Subset DEF Counted
  <2>2. Cardinality(Counted) = 0
    BY <1>4, <2>1, FS_CardinalityType DEF JoinReturns, Bookkeeping
  <2>3. Counted = {}
    BY <2>1, <2>2, FS_EmptySet
  <2> QED
    BY <1>4, <2>3 DEF JoinReturns, FreedAfterExit, Counted, threadVars
<1>5. CASE \/ AddWorkAfterFree \/ JoinWaits \/ FreePool \/ MainSpurious
           \/ Tick \/ UNCHANGED vars
  BY <1>5 DEF AddWorkAfterFree, JoinWaits, FreePool, MainSpurious, Tick,
              threadVars, vars, FreedAfterExit
<1> QED
  BY NextCases, <1>1, <1>2, <1>3, <1>4, <1>5
  DEF MainAdds, CallbackAdds, Destroying

LEMMA FaultStep ==
    ASSUME TypeOK, Bookkeeping, FreedAfterExit, FaultOnlyInShutdown, [Next]_vars
    PROVE  FaultOnlyInShutdown'
<1>1. ASSUME NEW w \in Workers, pc[w] = "run", AddWorkAfterFree
      PROVE  FaultOnlyInShutdown'
  <2>1. stop /\ main \in {"join", "waiting"}
    BY <1>1 DEF AddWorkAfterFree, Bookkeeping, FreedAfterExit, TypeOK, MainPc
  <2> QED
    BY <1>1, <2>1 DEF AddWorkAfterFree, FaultOnlyInShutdown
<1>2. CASE ~fault /\ ~fault'
  BY <1>2 DEF FaultOnlyInShutdown
<1>3. CASE UNCHANGED vars
  BY <1>3 DEF vars, FaultOnlyInShutdown
<1>4. ~fault \/ UNCHANGED vars
  BY DEF Next
<1>5. \/ fault' = fault
      \/ \E w \in Workers : pc[w] = "run" /\ AddWorkAfterFree
  BY NextCases
  DEF WorkerStep, Lock, MustWait, TimedWait, RefusedWait, UntimedWait, Timeout,
      Spurious, CurlCleanup, Take, Return, Exit, MainAdds, CallbackAdds,
      AddWork, DestroyBegin, Destroying, JoinWaits, JoinReturns, FreePool,
      MainSpurious, Tick, vars
<1> QED
  BY <1>1, <1>2, <1>3, <1>4, <1>5 DEF TypeOK

-----------------------------------------------------------------------------
(* A job is in one place.                                                  *)

LEMMA AddWorkOnePlace ==
    ASSUME TypeOK, OnePlace, NEW j \in Jobs, NEW t \in WaitTimes,
           AddWork(j, t)
    PROVE  OnePlace'
<1> DEFINE node == [job |-> j, wait_until |-> t]
           p == Cursor(queue, t)
<1>1. node \in Node /\ node.job = j /\ node.wait_until = t
  BY DEF Node
<1>2. queue \in Seq(Node) /\ queue' = prio_push(queue, node)
  BY DEF AddWork, TypeOK
<1>3. /\ \A i \in 1..Len(queue) : queue[i].job # j
      /\ j \notin Running /\ j \notin finished
  BY DEF AddWork, Fresh, Queued, Nodes
<1>4. \A i, k \in 1..Len(queue') : queue'[i].job = queue'[k].job => i = k
  <2>1. CASE queue = <<>>
    BY <1>2, <2>1 DEF prio_push
  <2>2. CASE queue # <<>>
    <3>1. InsertedAt(queue, node, Cursor(queue, node.wait_until), queue')
      <4> HIDE DEF node
      <4> QED
        BY <1>1, <1>2, <2>2, NodeTimes, PushInserts
    <3>2. InsertedAt(queue, node, p, queue')
      BY <1>1, <3>1
    <3>3. Len(queue) \in Nat
      BY <1>2, LenProperties
    <3> HIDE DEF node, p
    <3>4. ASSUME NEW i \in 1..Len(queue'), NEW k \in 1..Len(queue'),
                 queue'[i].job = queue'[k].job
          PROVE  i = k
      <4> DEFINE at(x) == IF x < p THEN x ELSE x - 1
      <4>1. \A x \in 1..Len(queue') :
               x # p => /\ at(x) \in 1..Len(queue)
                        /\ queue'[x] = queue[at(x)]
        BY <3>2, <3>3 DEF InsertedAt
      <4>2. queue'[p] = node
        BY <3>2, <3>3 DEF InsertedAt
      <4>3. CASE i = p /\ k # p
        BY <1>1, <1>3, <3>4, <4>1, <4>2, <4>3
      <4>4. CASE i # p /\ k = p
        BY <1>1, <1>3, <3>4, <4>1, <4>2, <4>4
      <4>5. CASE i # p /\ k # p
        <5>1. at(i) = at(k)
          BY <3>4, <4>1, <4>5 DEF OnePlace
        <5>2. p \in Int /\ i \in Int /\ k \in Int
          BY <3>2, <3>3 DEF InsertedAt
        <5> QED
          BY <5>1, <5>2, <4>5
      <4> QED
        BY <4>3, <4>4, <4>5
    <3> QED
      BY <3>4
  <2> QED
    BY <2>1, <2>2
<1>5. Queued' = Queued \cup {j}
  <2>1. Nodes(queue') = Nodes(queue) \cup {node}
    <3> HIDE DEF node
    <3> QED
      BY <1>1, <1>2, NodeTimes, PushNodes
  <2> QED
    BY <1>1, <2>1 DEF Queued
<1>6. /\ \A v \in Workers : pc'[v] = "run" <=> pc[v] = "run"
      /\ work' = work /\ finished' = finished
  BY SignalEffect DEF AddWork, TypeOK
<1>7. Running' = Running
  BY <1>6 DEF Running
<1> QED
  BY <1>3, <1>4, <1>5, <1>6, <1>7 DEF OnePlace

LEMMA TakeOnePlace ==
    ASSUME TypeOK, OnePlace, NEW w \in Workers, Take(w)
    PROVE  OnePlace'
<1> DEFINE j == Head(queue).job
<1>1. /\ queue \in Seq(Node) /\ queue # <<>> /\ queue' = prio_pop(queue)
      /\ pc' = [pc EXCEPT ![w] = "run"]
      /\ work' = [work EXCEPT ![w] = j]
      /\ finished' = finished
      /\ pc[w] = "test"
      /\ pc \in [Workers -> WorkerPc]
      /\ work \in [Workers -> Jobs \cup {NoJob}]
  BY DEF Take, TypeOK
<1>2. /\ Len(queue) \in Nat \ {0}
      /\ Len(queue') = Len(queue) - 1
      /\ \A i \in 1..(Len(queue) - 1) : queue'[i] = queue[i + 1]
      /\ j = queue[1].job
  BY <1>1, PopShifts
<1> HIDE DEF j
<1>3. \A i, k \in 1..Len(queue) : queue[i].job = queue[k].job => i = k
  BY DEF OnePlace
<1>4. \A i, k \in 1..Len(queue') : queue'[i].job = queue'[k].job => i = k
  <2> SUFFICES ASSUME NEW i \in 1..Len(queue'), NEW k \in 1..Len(queue'),
                      queue'[i].job = queue'[k].job
               PROVE  i = k
    OBVIOUS
  <2>1. /\ i + 1 \in 1..Len(queue) /\ k + 1 \in 1..Len(queue)
        /\ queue'[i] = queue[i + 1] /\ queue'[k] = queue[k + 1]
    BY <1>2
  <2>2. i + 1 = k + 1
    BY <1>3, <2>1
  <2> QED
    BY <1>2, <2>2
<1>5. Queued' \subseteq Queued /\ j \in Queued /\ j \notin Queued'
  <2>1. ASSUME NEW i \in 1..Len(queue')
        PROVE  queue'[i].job \in Queued /\ queue'[i].job # j
    <3>1. i + 1 \in 1..Len(queue) /\ 1 \in 1..Len(queue) /\ i + 1 # 1
          /\ queue'[i] = queue[i + 1]
      BY <1>2
    <3> QED
      BY <1>2, <1>3, <3>1 DEF Queued, Nodes
  <2>2. 1 \in 1..Len(queue)
    BY <1>2
  <2> QED
    BY <1>2, <2>1, <2>2 DEF Queued, Nodes
<1>6. \A v \in Workers :
         /\ v # w => pc'[v] = pc[v] /\ work'[v] = work[v]
         /\ v = w => pc'[v] = "run" /\ work'[v] = j
  BY <1>1
<1>7. Running' = Running \cup {j}
  BY <1>1, <1>6 DEF Running
<1>8. j \notin Running /\ j \notin finished
  BY <1>5 DEF OnePlace
<1>9. \A u, v \in Workers :
         pc'[u] = "run" /\ pc'[v] = "run" /\ work'[u] = work'[v] => u = v
  BY <1>6, <1>8 DEF OnePlace, Running
<1> QED
  BY <1>1, <1>4, <1>5, <1>7, <1>8, <1>9 DEF OnePlace

LEMMA ReturnOnePlace ==
    ASSUME TypeOK, OnePlace, NEW w \in Workers, Return(w)
    PROVE  OnePlace'
<1>1. /\ queue' = queue
      /\ pc' = [pc EXCEPT ![w] = "idle"]
      /\ finished' = finished \cup {work[w]}
      /\ work' = [work EXCEPT ![w] = NoJob]
      /\ pc[w] = "run"
      /\ pc \in [Workers -> WorkerPc]
      /\ work \in [Workers -> Jobs \cup {NoJob}]
  BY DEF Return, TypeOK
<1>2. Queued' = Queued
  BY <1>1 DEF Queued
<1>3. \A v \in Workers :
         /\ v # w => pc'[v] = pc[v] /\ work'[v] = work[v]
         /\ v = w => pc'[v] = "idle"
  BY <1>1
<1>4. Running' = Running \ {work[w]} /\ work[w] \in Running
  BY <1>1, <1>3 DEF Running, OnePlace
<1> QED
  BY <1>1, <1>2, <1>3, <1>4 DEF OnePlace

LEMMA OnePlaceStep ==
    ASSUME TypeOK, OnePlace, [Next]_vars
    PROVE  OnePlace'
<1>1. ASSUME NEW w \in Workers, Take(w) PROVE OnePlace'
  BY <1>1, TakeOnePlace
<1>2. ASSUME NEW w \in Workers, Return(w) PROVE OnePlace'
  BY <1>2, ReturnOnePlace
<1>3. ASSUME NEW j \in Jobs, NEW t \in WaitTimes, AddWork(j, t)
      PROVE  OnePlace'
  BY <1>3, AddWorkOnePlace
<1>4. ASSUME queue' = queue \/ queue' = <<>>, UNCHANGED <<work, finished>>,
             \A v \in Workers : pc'[v] = "run" <=> pc[v] = "run"
      PROVE  OnePlace'
  <2>1. Running' = Running
    BY <1>4 DEF Running
  <2>2. Queued' \subseteq Queued
    BY <1>4 DEF Queued, Nodes
  <2> QED
    BY <1>4, <2>1, <2>2 DEF OnePlace
<1>5. ASSUME NEW w \in Workers,
             \/ Lock(w) \/ MustWait(w) \/ TimedWait(w) \/ RefusedWait(w)
             \/ UntimedWait(w) \/ Timeout(w) \/ Spurious(w) \/ CurlCleanup(w)
             \/ Exit(w)
      PROVE  OnePlace'
  <2>1. UNCHANGED <<queue, work, finished>>
    BY <1>5 DEF Lock, MustWait, TimedWait, RefusedWait, UntimedWait, Timeout,
                Spurious, CurlCleanup, Exit
  <2>2. \A v \in Workers : pc'[v] = "run" <=> pc[v] = "run"
    BY <1>5 DEF TypeOK, Lock, MustWait, TimedWait, RefusedWait, UntimedWait,
                Timeout, Spurious, Waiting, CurlCleanup, Exit
  <2> QED
    BY <1>4, <2>1, <2>2
<1>6. CASE DestroyBegin
  <2>1. \A v \in Workers : pc'[v] = "run" <=> pc[v] = "run"
    BY <1>6 DEF DestroyBegin, Waiting
  <2> QED
    BY <1>4, <1>6, <2>1 DEF DestroyBegin
<1>7. CASE \/ AddWorkAfterFree \/ Destroying \/ MainSpurious \/ Tick
           \/ UNCHANGED vars
  <2>1. UNCHANGED <<queue, work, finished, pc>>
    BY <1>7 DEF AddWorkAfterFree, Destroying, JoinWaits, JoinReturns, FreePool,
                MainSpurious, Tick, threadVars, vars
  <2> QED
    BY <1>4, <2>1
<1> QED
  BY NextCases, <1>1, <1>2, <1>3, <1>5, <1>6, <1>7
  DEF MainAdds, CallbackAdds, WorkerStep

-----------------------------------------------------------------------------
(* The inductive invariant.                                                *)

LEMMA InitInv == Init => IInv
<1> SUFFICES ASSUME Init PROVE IInv
  OBVIOUS
<1>1. TypeOK /\ Bookkeeping
  BY InitType, InitBookkeeping
<1>2. \A w \in Workers : pc[w] \in {"idle", "absent"}
  BY DEF Init
<1>3. MutualExclusion /\ FreedAfterExit /\ FaultOnlyInShutdown
  BY <1>2 DEF Init, MutualExclusion, FreedAfterExit, FaultOnlyInShutdown
<1>4. SleepUntilHeadOrLast /\ ReadInTime /\ QueueAttended
  BY <1>2 DEF Init, SleepUntilHeadOrLast, ReadInTime, QueueAttended
<1>5. OnePlace
  <2>1. Running = {} /\ Queued = {} /\ queue = <<>>
    BY <1>2 DEF Running, Queued, Nodes, Init
  <2> QED
    BY <1>2, <2>1 DEF OnePlace, Init
<1> QED
  BY <1>1, <1>3, <1>4, <1>5 DEF IInv

LEMMA NextInv == IInv /\ [Next]_vars => IInv'
BY TypeStep, BookkeepingStep, MutexStep, SleepUntilStep, ReadStep,
   AttendedStep, OnePlaceStep, FreedStep, FaultStep
DEF IInv

THEOREM InvariantHolds == Spec => []IInv
BY InitInv, NextInv, PTL DEF Spec

-----------------------------------------------------------------------------
(* What a reader should know of.                                           *)

(* Every variable keeps its type (t_pool.c, all operations).               *)
THEOREM TypeCorrect == Spec => []TypeOK
BY InvariantHolds, PTL DEF IInv

(* The wait loop and t_pool_add_work lose no wake-up, for work that is due *)
(* as for work that is not, unless the last thread to sleep found          *)
(* sleep_until ahead in one reading of the clock and behind in the next    *)
(* (t_pool.c:26-38, 81-104).                                               *)
THEOREM WorkIsAttended == Spec => []QueueAttended
BY InvariantHolds, PTL DEF IInv

(* sleep_until is the time of the head or of the last node                 *)
(* (t_pool.c:94-99, 112-117).                                              *)
THEOREM SleepUntilIsSound == Spec => []SleepUntilHeadOrLast
BY InvariantHolds, PTL DEF IInv

(* No job is queued twice, run by two workers, or run again                *)
(* (t_pool.c:48-54).                                                       *)
THEOREM JobsRunOnce == Spec => []OnePlace
BY InvariantHolds, PTL DEF IInv

(* The pool is freed only after every thread has left its loop             *)
(* (t_pool.c:121-152).                                                     *)
THEOREM FreedSafely == Spec => []FreedAfterExit
BY InvariantHolds, PTL DEF IInv

(* A freed node of the queue is used only while t_pool_destroy waits for   *)
(* the callbacks to return (t_pool.c:91, 139-143).                         *)
THEOREM FaultsAreLate == Spec => []FaultOnlyInShutdown
BY InvariantHolds, PTL DEF IInv

-----------------------------------------------------------------------------
(* The thread pool implements WorkPool.                                    *)

Pending == Nodes(queue)

(* Taking the head moves it from the pending nodes to a thread, and some   *)
(* node is due when that happens.                                          *)
LEMMA TakeStarts ==
    ASSUME IInv, NEW w \in Workers, Take(w)
    PROVE  \E n \in Pending : Promise!Start(w, n)
<1>0. PICK n : n = Head(queue)
  OBVIOUS
<1>1. /\ queue \in Seq(Node) /\ queue # <<>> /\ queue' = prio_pop(queue)
      /\ work' = [work EXCEPT ![w] = n.job]
      /\ finished' = finished /\ now' = now /\ stop' = stop /\ ~stop
      /\ pc[w] = "test" /\ ~(now <= sleep_until)
  BY <1>0 DEF Take, IInv, TypeOK, is_future
<1>2. /\ Len(queue) \in Nat \ {0}
      /\ Len(queue') = Len(queue) - 1
      /\ \A i \in 1..(Len(queue) - 1) : queue'[i] = queue[i + 1]
      /\ n = queue[1]
  BY <1>0, <1>1, PopShifts
<1>3. n \in Pending
  <2>1. 1 \in 1..Len(queue)
    BY <1>2
  <2> QED
    BY <1>2, <2>1 DEF Pending, Nodes
<1>4. Pending' = Pending \ {n}
  <2>1. ASSUME NEW i \in 1..Len(queue')
        PROVE  queue'[i] \in Pending \ {n}
    <3>1. /\ i + 1 \in 1..Len(queue) /\ i + 1 # 1 /\ 1 \in 1..Len(queue)
          /\ queue'[i] = queue[i + 1]
      BY <1>2
    <3>2. queue[i + 1].job # queue[1].job
      BY <3>1 DEF IInv, OnePlace
    <3> QED
      BY <1>2, <3>1, <3>2 DEF Pending, Nodes
  <2>2. ASSUME NEW k \in 1..Len(queue), queue[k] # n
        PROVE  queue[k] \in Pending'
    <3>1. /\ k - 1 \in 1..Len(queue')
          /\ queue'[k - 1] = queue[(k - 1) + 1]
          /\ (k - 1) + 1 = k
      BY <1>2, <2>2
    <3> QED
      BY <3>1 DEF Pending, Nodes
  <2>3. Pending' = {queue'[i] : i \in 1..Len(queue')}
    BY DEF Pending, Nodes
  <2>4. Pending' \subseteq Pending \ {n}
    BY <2>1, <2>3
  <2>5. Pending \ {n} \subseteq Pending'
    BY <2>2 DEF Pending, Nodes
  <2> QED
    BY <2>4, <2>5
<1>5. work[w] = NoJob
  BY <1>1 DEF IInv, Bookkeeping
<1>6. \E d \in Pending : d.wait_until < now
  <2>1. ~dangling
    BY <1>1 DEF IInv, Bookkeeping
  <2>2. sleep_until \in {queue[1].wait_until, queue[Len(queue)].wait_until}
    BY <1>1, <2>1 DEF IInv, SleepUntilHeadOrLast
  <2>3. 1 \in 1..Len(queue) /\ Len(queue) \in 1..Len(queue)
    BY <1>2
  <2>4. queue[1] \in Pending /\ queue[Len(queue)] \in Pending
    BY <2>3 DEF Pending, Nodes
  <2>5. sleep_until \in Int /\ now \in Int
    BY DEF IInv, TypeOK, None
  <2> QED
    BY <1>1, <2>2, <2>4, <2>5
<1>7. Promise!Start(w, n)
  BY <1>1, <1>4, <1>5, <1>6 DEF Promise!Start, Pending
<1> QED
  BY <1>3, <1>7

LEMMA AddWorkSubmits ==
    ASSUME IInv, NEW j \in Jobs, NEW t \in WaitTimes, AddWork(j, t)
    PROVE  Promise!Submit(j, t)
<1> DEFINE node == [job |-> j, wait_until |-> t]
<1>1. node \in Node
  BY DEF Node
<1>2. queue \in Seq(Node) /\ queue' = prio_push(queue, node)
  BY DEF AddWork, IInv, TypeOK
<1>3. Pending' = Pending \cup {node}
  <2> HIDE DEF node
  <2>1. Nodes(queue') = Nodes(queue) \cup {node}
    BY <1>1, <1>2, NodeTimes, PushNodes
  <2> QED
    BY <2>1 DEF Pending
<1>4. /\ j \notin finished
      /\ \A n \in Pending : n.job # j
  BY DEF AddWork, Fresh, Queued, Pending
<1>5. \A w \in Workers : work[w] # j
  BY DEF AddWork, Fresh, Running, IInv, Bookkeeping
<1>6. UNCHANGED <<work, finished, stop, now>>
  BY DEF AddWork
<1> QED
  BY <1>3, <1>4, <1>5, <1>6 DEF Promise!Submit, Pending

LEMMA PromiseStep == IInv /\ [Next]_vars => [Promise!Next]_(Promise!vars)
<1> SUFFICES ASSUME IInv, [Next]_vars PROVE [Promise!Next]_(Promise!vars)
  OBVIOUS
<1>1. ASSUME NEW w \in Workers, Take(w) PROVE Promise!Next
  BY <1>1, TakeStarts DEF Promise!Next, Pending
<1>2. ASSUME NEW w \in Workers, Return(w) PROVE Promise!Next
  <2>1. Promise!Finish(w)
    BY <1>2 DEF Return, Promise!Finish, IInv, Bookkeeping
  <2> QED
    BY <2>1 DEF Promise!Next
<1>3. ASSUME NEW j \in Jobs, NEW t \in WaitTimes, AddWork(j, t)
      PROVE  Promise!Next
  BY <1>3, AddWorkSubmits DEF Promise!Next
<1>4. CASE DestroyBegin
  <2>1. Promise!Stop
    BY <1>4 DEF DestroyBegin, Nodes, Promise!Stop, IInv, Bookkeeping
  <2> QED
    BY <2>1 DEF Promise!Next
<1>5. CASE Tick
  <2>1. Promise!Tick
    BY <1>5 DEF Tick, Promise!Tick, IInv, TypeOK, threadVars
  <2> QED
    BY <2>1 DEF Promise!Next
<1>6. ASSUME NEW w \in Workers,
             \/ Lock(w) \/ MustWait(w) \/ TimedWait(w) \/ RefusedWait(w)
             \/ UntimedWait(w) \/ Timeout(w) \/ Spurious(w) \/ CurlCleanup(w)
             \/ Exit(w)
      PROVE  UNCHANGED Promise!vars
  <2>1. UNCHANGED <<queue, work, finished, stop, now>>
    BY <1>6 DEF Lock, MustWait, TimedWait, RefusedWait, UntimedWait, Timeout,
                Spurious, CurlCleanup, Exit
  <2> QED
    BY <2>1 DEF Promise!vars
<1>7. CASE AddWorkAfterFree \/ Destroying \/ MainSpurious \/ UNCHANGED vars
  <2>1. UNCHANGED <<queue, work, finished, stop, now>>
    BY <1>7 DEF AddWorkAfterFree, Destroying, JoinWaits, JoinReturns, FreePool,
                MainSpurious, threadVars, vars
  <2> QED
    BY <2>1 DEF Promise!vars
<1> QED
  BY NextCases, <1>1, <1>2, <1>3, <1>4, <1>5, <1>6, <1>7
  DEF MainAdds, CallbackAdds, WorkerStep

(* Every behaviour of the threads, the mutex and the condition variables   *)
(* is one that WorkPool allows: work starts at most once, on an idle       *)
(* thread, while some work is due, and never after the shutdown began.     *)
THEOREM PoolImplementsWorkPool == Spec => ImplementsWorkPool
<1>1. Init => Promise!Init
  BY DEF Init, Promise!Init, Nodes
<1>2. IInv /\ [Next]_vars => [Promise!Next]_(Promise!vars)
  BY PromiseStep
<1> QED
  BY <1>1, <1>2, InvariantHolds, PTL
  DEF Spec, ImplementsWorkPool, Promise!Spec
====
