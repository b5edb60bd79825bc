---- MODULE WorkPool ----
(***************************************************************************)
(* What the thread pool of utils/t_pool.c promises, without threads,       *)
(* locks, condition variables or an order of the queue: work is started at *)
(* most once, by one thread that runs nothing else meanwhile, only while   *)
(* some pending work is due, and never after the pool was stopped.         *)
(*                                                                         *)
(* It does not promise that the work which is started is the work that is  *)
(* due: prio_push keeps only a part of the queue in order.                 *)
(***************************************************************************)
EXTENDS Integers

CONSTANTS Threads,     \* the threads of the pool
          Jobs,        \* work nodes, one for each call of t_pool_add_work
          NoJob,       \* what an idle thread runs
          WaitTimes    \* the instants callers ask for

VARIABLES pending,     \* nodes: records of a job and the instant it waits for
          running,     \* what each thread runs
          finished,    \* jobs whose callback has returned
          stopped,     \* t_pool_destroy was called
          now          \* the clock

vars == <<pending, running, finished, stopped, now>>

Init ==
    /\ pending = {}
    /\ running = [w \in Threads |-> NoJob]
    /\ finished = {}
    /\ stopped = FALSE
    /\ now \in Int

Submit(j, t) ==
    /\ j \notin finished
    /\ \A w \in Threads : running[w] # j
    /\ \A n \in pending : n.job # j
    /\ pending' = pending \cup {[job |-> j, wait_until |-> t]}
    /\ UNCHANGED <<running, finished, stopped, now>>

Start(w, n) ==
    /\ ~stopped
    /\ running[w] = NoJob
    /\ \E d \in pending : d.wait_until < now
    /\ pending' = pending \ {n}
    /\ running' = [running EXCEPT ![w] = n.job]
    /\ UNCHANGED <<finished, stopped, now>>

Finish(w) ==
    /\ running[w] # NoJob
    /\ running' = [running EXCEPT ![w] = NoJob]
    /\ finished' = finished \cup {running[w]}
    /\ UNCHANGED <<pending, stopped, now>>

Stop ==
    /\ ~stopped
    /\ stopped' = TRUE
    /\ pending' = {}
    /\ UNCHANGED <<running, finished, now>>

Tick ==
    /\ now' > now
    /\ UNCHANGED <<pending, running, finished, stopped>>

Next ==
    \/ \E j \in Jobs, t \in WaitTimes : Submit(j, t)
    \/ \E w \in Threads, n \in pending : Start(w, n)
    \/ \E w \in Threads : Finish(w)
    \/ Stop
    \/ Tick

Spec == Init /\ [][Next]_vars
====
