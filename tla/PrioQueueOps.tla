---- MODULE PrioQueueOps ----
(***************************************************************************)
(* The linked list of utils/prio_queue.c as a sequence of nodes, head      *)
(* first.  A node is a record with at least the field wait_until.          *)
(*                                                                         *)
(* An instant is an integer: the rank of (tv_sec, tv_usec) in the          *)
(* lexicographic order, which is the only order the code ever applies to a *)
(* timeval.                                                                *)
(***************************************************************************)
EXTENDS Lists

(* Definitions that end in an underscore and a word are variants of the    *)
(* one that follows them, with a mistake in it.                            *)

StopsAt_earlier(q, t) == {p \in 1..Len(q) : p = Len(q) \/ q[p].wait_until < t}

(* Where the walk of prio_push may stop: it advances while the node under  *)
(* the cursor has a successor and is not later than the new one, so the    *)
(* cursor never leaves the list.                                           *)
StopsAt(q, t) ==
    {p \in 1..Len(q) : p = Len(q) \/ q[p].wait_until > t}

(* The cursor at the end of that walk: the first place where it may stop.  *)
Cursor(q, t) ==
    CHOOSE p \in StopsAt(q, t) : \A r \in StopsAt(q, t) : p <= r

(* prio_push: the new node goes before the cursor, never after the tail.   *)
prio_push(q, node) ==
    IF q = <<>> THEN <<node>>
    ELSE InsertAt(q, Cursor(q, node.wait_until), node)

(* prio_pop: the list without its head.                                    *)
prio_pop(q) == IF q = <<>> THEN q ELSE Tail(q)

prio_destroy_queue_head(q) == {q[1]}

(* What prio_destroy_queue frees: the loop ends at the last node of a list *)
(* of two or more without freeing it.                                      *)
prio_destroy_queue(q) ==
    {q[i] : i \in 1..(IF Len(q) = 1 THEN 1 ELSE Len(q) - 1)}
====
