---- MODULE PrioQueue ----
(***************************************************************************)
(* The priority queue of utils/prio_queue.c under any sequence of pushes,  *)
(* pops and one destroy.  It is a sequential component: its only client,   *)
(* utils/t_pool.c, calls it under the lock of the pool.                    *)
(***************************************************************************)
EXTENDS PrioQueueOps, FiniteSets

CONSTANTS Times,       \* the instants a caller may pass as wait_until
          MaxPushes    \* bound on the calls of prio_push

ASSUME TimesAssumption == Times \subseteq Nat
ASSUME MaxPushesAssumption == MaxPushes \in Nat

VARIABLES queue,       \* the list, head first
          size,        \* the field size
          pushes,      \* calls of prio_push so far: the data of the next node
          live,        \* nodes of the queue that are allocated and not freed
          destroyed    \* prio_destroy_queue has run

vars == <<queue, size, pushes, live, destroyed>>

Node == [data : 1..MaxPushes, wait_until : Times]

Init ==
    /\ queue = <<>>
    /\ size = 0
    /\ pushes = 0
    /\ live = {}
    /\ destroyed = FALSE

Push(t) ==
    LET node == [data |-> pushes + 1, wait_until |-> t]
    IN /\ ~destroyed
       /\ pushes < MaxPushes
       /\ pushes' = pushes + 1
       /\ queue' = prio_push(queue, node)
       /\ size' = IF queue = <<>> THEN 1 ELSE size + 1
       /\ live' = live \cup {node}
       /\ UNCHANGED destroyed

(* The popped node is handed to the caller, t_pool_pop_work, which frees   *)
(* it.                                                                     *)
Pop ==
    /\ ~destroyed
    /\ queue # <<>>
    /\ queue' = prio_pop(queue)
    /\ size' = size - 1
    /\ live' = live \ {Head(queue)}
    /\ UNCHANGED <<pushes, destroyed>>

(* Head and size are left as they are: afterwards the head dangles.        *)
Destroy ==
    /\ ~destroyed
    /\ queue # <<>>
    /\ destroyed' = TRUE
    /\ live' = live \ prio_destroy_queue(queue)
    /\ UNCHANGED <<queue, size, pushes>>

Next == (\E t \in Times : Push(t)) \/ Pop \/ Destroy

Spec == Init /\ [][Next]_vars

-----------------------------------------------------------------------------
(* Every field has its type, and the counter agrees with the list: the     *)
(* wait loop of t_pool.c reads size, its pop reads head.                   *)
TypeOK ==
    /\ queue \in Seq(Node)
    /\ size = Len(queue)
    /\ pushes \in 0..MaxPushes
    /\ live \subseteq Node
    /\ destroyed \in BOOLEAN

(* What remains of the order the queue is named for: prio_push keeps every *)
(* node but the last one in order, and the last one is the one that was    *)
(* pushed first of all that are queued, whatever its time, because later   *)
(* nodes are only ever put before it (prio_queue.c:22).                    *)
SortedButLast ==
    \A i, j \in 1..(Len(queue) - 1) :
        i < j => queue[i].wait_until <= queue[j].wait_until
LastIsFirstIn ==
    \A i \in 1..Len(queue) : queue[Len(queue)].data <= queue[i].data
QueueOrder == SortedButLast /\ LastIsFirstIn

(* Every allocated node is reachable from the head until the queue is      *)
(* destroyed, and destroying it leaks at most the last node                *)
(* (prio_destroy_queue, do-while on cur->next).                            *)
NothingLeaks ==
    IF destroyed THEN live \subseteq {queue[Len(queue)]}
    ELSE live = Nodes(queue)
====
