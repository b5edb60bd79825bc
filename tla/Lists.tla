---- MODULE Lists ----
(***************************************************************************)
(* The lists the program links its nodes in, as sequences, first one       *)
(* first: the priority queue of utils/prio_queue.c and the tail queues     *)
(* (sys/queue.h) of utils/cache.c.                                         *)
(***************************************************************************)
EXTENDS Integers, Sequences, SequencesExt

(* The nodes that can be reached from the first one.                       *)
Nodes(q) == {q[i] : i \in 1..Len(q)}

(* TAILQ_REMOVE of a node that is in the list.                             *)
Without(q, n) == RemoveAt(q, CHOOSE i \in 1..Len(q) : q[i] = n)

(* TAILQ_REMOVE and TAILQ_INSERT_TAIL.                                     *)
MoveToTail(q, n) == Append(Without(q, n), n)
====
