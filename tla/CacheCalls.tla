---- MODULE CacheCalls ----
(***************************************************************************)
(* The functions of utils/cache.c when several threads are in them at      *)
(* once: the event loop, and workers that cache the messages of a list     *)
(* (web/request.c) or look messages up (discord/message.c). There is no    *)
(* lock, and the map and the queue that a call works on are static         *)
(* variables of the function, which another call of it may change.         *)
(*                                                                         *)
(* The queues are the pointers of TAILQ (sys/queue.h), so that a node may  *)
(* end up anywhere. An operation on a map or a queue is a step; what two   *)
(* of them do to each other when they overlap is left out. Cache has the   *)
(* calls that do not overlap, and the failures of hashmap_put.             *)
(***************************************************************************)
EXTENDS Lists

CONSTANTS Threads,
          MayUse,       \* the objects each thread uses: their types and ids
          Types, Ids,
          MaxSize,      \* the limit of each cache
          MaxSets,      \* bound on the objects made
          MaxCalls,     \* bound on the calls
          NoNode

ASSUME TypesAssumption == MayUse \in [Threads -> SUBSET (Types \X Ids)]
ASSUME SizesAssumption == MaxSize \in Nat \ {0, 1} /\ MaxSets \in Nat /\ MaxCalls \in Nat

VARIABLES selected,   \* the static map and queue of each function
          map,        \* of each cache
          next,       \* tqh_first of each queue, tqe_next of each node
          prev,       \* what tqe_prev of each node is in: its queue or a node
          last,       \* what tqh_last of each queue is in
          size,       \* queue->size
          freed,      \* nodes that were freed, with their keys
          sets,       \* objects made so far
          calls,      \* calls begun so far
          call,       \* the call of each thread
          mixed,      \* functions that were called for two caches at once (history)
          together,   \* caches on which two calls were at once (history)
          fault       \* memory was used that is freed, NULL or not initialised

links == <<next, prev, last>>
shared == <<map, links, size, freed>>
counts == <<sets, calls>>
history == <<mixed, together>>
vars == <<selected, shared, counts, call, history, fault>>

Functions == {"set", "get", "delete"}
Node == [type : Types, id : Ids, nr : 1..MaxSets]

ASSUME NamesAssumption ==
    /\ "none" \notin Types
    /\ NoNode \notin Node \cup Types
    /\ Types \cap Node = {}

(* fn is the function a thread is in, for the cache type; outer is its     *)
(* caller, if that is discord_cache_set; node what hashmap_get found, new  *)
(* what is to be cached; left the nodes the clean-up has still to delete.  *)
NoCall == [fn |-> "none", at |-> "none", type |-> "none", id |-> NoNode,
           outer |-> FALSE, node |-> NoNode, new |-> NoNode, left |-> 0]

Init ==
    /\ selected = [f \in Functions |-> "none"]
    /\ map = [type \in Types |-> [id \in Ids |-> NoNode]]
    /\ next = [l \in Types \cup Node |-> NoNode]
    /\ prev = [n \in Node |-> NoNode]
    /\ last = [type \in Types |-> type]
    /\ size = [type \in Types |-> 0]
    /\ freed = {} /\ sets = 0 /\ calls = 0
    /\ call = [t \in Threads |-> NoCall]
    /\ mixed = {} /\ together = {}
    /\ fault = FALSE

-----------------------------------------------------------------------------
(* Definitions that end in an underscore and a word are variants of the    *)
(* one that follows them, with a mistake in it.                            *)

Shares_all(f) == Functions
Shares(f) == {f}

(* The switch at the beginning of a function. The clean-up is a call of    *)
(* discord_cache_delete in discord_cache_set.                              *)
Select(t, f, type, id, new) ==
    LET others == {u \in Threads \ {t} : call[u].fn # "none"} IN
    /\ selected' = [g \in Functions |-> IF g \in Shares(f) THEN type ELSE selected[g]]
    /\ call' = [call EXCEPT ![t] =
          [@ EXCEPT !.fn = f, !.at = "lookup", !.type = type, !.id = id,
                    !.outer = call[t].fn = "set", !.new = new]]
    /\ mixed' = mixed \cup
          {g \in {f} : \E u \in others : call[u].type # type
                /\ (call[u].fn = f \/ (f = "set" /\ call[u].outer))}
    /\ together' = together \cup {y \in {type} : \E u \in others : call[u].type = y}

(* What a function works on: the static pointers, which the compiler may   *)
(* have kept in registers since the switch.                                *)
Works(t) == {call[t].type, selected[call[t].fn]}

Goes(t, at) == call' = [call EXCEPT ![t].at = at]

Returns(t) == call' = [call EXCEPT ![t] =
    IF @.outer THEN [@ EXCEPT !.fn = "set", !.at = "loop", !.outer = FALSE,
                              !.left = call[t].left - 1]
    ELSE NoCall]

discord_cache_set(t, type, id) ==
    /\ call[t] = NoCall /\ sets < MaxSets /\ calls < MaxCalls
    /\ sets' = sets + 1 /\ calls' = calls + 1
    /\ Select(t, "set", type, id, [type |-> type, id |-> id, nr |-> sets + 1])
    /\ UNCHANGED <<shared, fault>>

discord_cache_get(t, type, id) ==
    /\ call[t] = NoCall /\ calls < MaxCalls
    /\ calls' = calls + 1
    /\ Select(t, "get", type, id, NoNode)
    /\ UNCHANGED <<shared, sets, fault>>

discord_cache_delete(t, type, id) ==
    /\ call[t] = NoCall /\ calls < MaxCalls
    /\ calls' = calls + 1
    /\ Select(t, "delete", type, id, NoNode)
    /\ UNCHANGED <<shared, sets, fault>>

(* A misuse of memory; the call gets no further.                           *)
Faults(bad) == bad /\ fault' = TRUE /\ UNCHANGED <<selected, shared, call, history>>

(* hashmap_get compares with the key of the entry it finds, which is freed *)
(* with its node.                                                          *)
Lookup(t) ==
    /\ call[t].at = "lookup"
    /\ \E y \in Works(t) : LET n == map[y][call[t].id] IN
        \/ Faults(n \in freed)
        \/ /\ n \notin freed
           /\ IF n # NoNode THEN call' = [call EXCEPT ![t].at = "unlink", ![t].node = n]
              ELSE IF call[t].fn = "set" THEN Goes(t, "put")
              ELSE Returns(t)
           /\ UNCHANGED <<selected, shared, history, fault>>
    /\ UNCHANGED counts

(* TAILQ_REMOVE: the neighbours of the node are linked to each other,      *)
(* whichever queue they are in; a last node gives its place to the one     *)
(* before it, in the queue that was asked for. A node that is mapped and   *)
(* not inserted yet has whatever links malloc left in it.                  *)
Unlink(t) == LET n == call[t].node before == prev[n] after == next[n] IN
    /\ call[t].at = "unlink"
    /\ \/ Faults({n, before, after} \cap freed # {} \/ before = NoNode)
       \/ /\ {n, before, after} \cap freed = {} /\ before # NoNode
          /\ next' = [next EXCEPT ![before] = after]
          /\ IF after = NoNode
             THEN /\ \E y \in Works(t) : last' = [last EXCEPT ![y] = before]
                  /\ UNCHANGED prev
             ELSE prev' = [prev EXCEPT ![after] = before] /\ UNCHANGED last
          /\ Goes(t, IF call[t].fn = "delete" THEN "free" ELSE "relink")
          /\ UNCHANGED <<selected, map, size, freed, history, fault>>
    /\ UNCHANGED counts

(* TAILQ_INSERT_TAIL, in the queue that was asked for.                     *)
InsertTail(y, n) ==
    /\ next' = [next EXCEPT ![n] = NoNode, ![last[y]] = n]
    /\ prev' = [prev EXCEPT ![n] = last[y]]
    /\ last' = [last EXCEPT ![y] = n]

Relink(t) == LET n == call[t].node IN
    /\ call[t].at = "relink"
    /\ \E y \in Works(t) :
        \/ Faults({n, last[y]} \cap freed # {})
        \/ /\ {n, last[y]} \cap freed = {}
           /\ InsertTail(y, n)
           /\ IF call[t].fn = "set" THEN Goes(t, "put") ELSE Returns(t)
           /\ UNCHANGED <<selected, map, size, freed, history, fault>>
    /\ UNCHANGED counts

(* The new node is counted, and hashmap_put.                               *)
Put(t) ==
    /\ call[t].at = "put"
    /\ \E y \in Works(t) :
        \/ Faults(map[y][call[t].id] \in freed)
        \/ /\ map[y][call[t].id] \notin freed
           /\ map' = [map EXCEPT ![y][call[t].id] = call[t].new]
           /\ size' = [size EXCEPT ![y] = @ + 1]
           /\ Goes(t, "insert")
           /\ UNCHANGED <<selected, links, freed, history, fault>>
    /\ UNCHANGED counts

(* The new node is put at the end of the queue.                            *)
Insert(t) ==
    /\ call[t].at = "insert"
    /\ \E y \in Works(t) :
        \/ Faults({call[t].new, last[y]} \cap freed # {})
        \/ /\ {call[t].new, last[y]} \cap freed = {}
           /\ InsertTail(y, call[t].new)
           /\ Goes(t, "clean")
           /\ UNCHANGED <<selected, map, size, freed, history, fault>>
    /\ UNCHANGED counts

(* to_remove, for the limit of the cache that was asked for.               *)
Clean(t) ==
    /\ call[t].at = "clean"
    /\ \E y \in Works(t) :
        call' = [call EXCEPT ![t].at = "loop",
                             ![t].left = IF size[y] > MaxSize THEN size[y] - MaxSize ELSE 0]
    /\ UNCHANGED <<selected, shared, counts, history, fault>>

(* The id of the first node is deleted, from the cache that was asked for. *)
Loop(t) ==
    /\ call[t].at = "loop"
    /\ \/ /\ call[t].left = 0 /\ Returns(t)
          /\ UNCHANGED <<selected, history, fault>>
       \/ /\ call[t].left # 0
          /\ \E y \in Works(t) :
              \/ Faults(next[y] \in freed \cup {NoNode})
              \/ /\ next[y] \notin freed \cup {NoNode}
                 /\ Select(t, "delete", call[t].type, next[y].id, call[t].new)
                 /\ UNCHANGED fault
    /\ UNCHANGED <<shared, counts>>

Unbound_kept(y, id) == map
Unbound(y, id) == [map EXCEPT ![y][id] = NoNode]

(* hashmap_remove, which compares keys too; the object is destroyed as one *)
(* of the cache that was asked for, its node freed and counted off.        *)
Free(t) == LET n == call[t].node IN
    /\ call[t].at = "free"
    /\ \E y \in Works(t) : LET wrong == {n, map[y][call[t].id]} \cap freed # {} \/ n.type # call[t].type IN
        \/ Faults(wrong)
        \/ /\ ~wrong
           /\ map' = Unbound(y, call[t].id)
           /\ freed' = freed \cup {n}
           /\ size' = [size EXCEPT ![y] = @ - 1]
           /\ Returns(t)
           /\ UNCHANGED <<selected, links, history, fault>>
    /\ UNCHANGED counts

Step(t) ==
    \/ \E o \in MayUse[t] :
        \/ discord_cache_set(t, o[1], o[2])
        \/ discord_cache_get(t, o[1], o[2])
        \/ discord_cache_delete(t, o[1], o[2])
    \/ Lookup(t) \/ Unlink(t) \/ Relink(t) \/ Put(t) \/ Insert(t) \/ Clean(t) \/ Loop(t) \/ Free(t)

(* What the program does after a misuse of memory is not modelled.         *)
Next == ~fault /\ \E t \in Threads : Step(t)

Spec == Init /\ [][Next]_vars

-----------------------------------------------------------------------------
(* The properties.                                                         *)

NodeOf(y) == {n \in Node : n.type = y}
Mapped(y) == {map[y][id] : id \in Ids} \ {NoNode}

(* The pointers of a cache lead to its nodes only.                         *)
InPlace(y) ==
    LET places == {y} \cup NodeOf(y) IN
    /\ last[y] \in places
    /\ \A l \in places : next[l] \in NodeOf(y) \cup {NoNode}
    /\ \A n \in NodeOf(y) : prev[n] \in places \cup {NoNode}

(* A node gets into the map of another cache only when discord_cache_set   *)
(* was called for two caches at once, and into the queue of another one    *)
(* only when one of the functions was: the pointers are static, and a call *)
(* of another function, or for the same cache, does not change them        *)
(* (cache.c:143, 222, 254).                                                *)
OnlyMixedMisplaces ==
    /\ "set" \notin mixed => \A y \in Types : Mapped(y) \subseteq NodeOf(y)
    /\ mixed = {} => \A y \in Types : InPlace(y)

(* The pointers of the queue y link the nodes of q, in this order.         *)
Place(y, q, i) == IF i = 0 THEN y ELSE q[i]
Links(y, q) ==
    /\ IsInjective(q)
    /\ \A i \in 1..Len(q) :
          next[Place(y, q, i - 1)] = q[i] /\ prev[q[i]] = Place(y, q, i - 1)
    /\ next[Place(y, q, Len(q))] = NoNode /\ last[y] = Place(y, q, Len(q))

Orders(y) == SeqOf({next[l] : l \in {y} \cup Node} \ {NoNode}, MaxSets)

(* Threads that never use one cache at once, nor one function for two      *)
(* caches at once, need no lock: no memory is misused, the pointers of     *)
(* each cache make a queue, what it maps is in there unless a call is      *)
(* about to see to that, and its counter is right when none is in it.      *)
SafeApart ==
    mixed = {} /\ together = {} =>
        /\ ~fault
        /\ \A y \in Types : \E q \in Orders(y) :
            LET inside == {t \in Threads : call[t].type = y} IN
            /\ Links(y, q)
            /\ Mapped(y) \subseteq Nodes(q) \cup
                    {call[t].new : t \in inside} \cup {call[t].node : t \in inside}
            /\ inside = {} => size[y] = Len(q)
====
