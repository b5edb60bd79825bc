---- MODULE Cache ----
(***************************************************************************)
(* One of the three caches of utils/cache.c, under calls that do not       *)
(* overlap: a tail queue of nodes, least recently used first, and a hash   *)
(* map from ids to nodes.                                                  *)
(*                                                                         *)
(* The code of the three caches is one: type selects map, queue and limit. *)
(* The nodes carry the object they were made for, and are numbered by the  *)
(* call of discord_cache_set that made them.                               *)
(***************************************************************************)
EXTENDS Lists

CONSTANTS Ids,          \* ids of messages, channels or guilds
          MaxSize,      \* max_message_cache_size and its like
          MaxSets,      \* bound on the calls of discord_cache_set
          MaxFailures,  \* bound on the calls in which hashmap_put fails
          NoNode        \* hashmap_get found nothing

(* discord_cache_init raises a smaller limit to 2.                         *)
ASSUME MaxSizeAssumption == MaxSize \in Nat /\ MaxSize >= 2
ASSUME BoundsAssumption == MaxSets \in Nat /\ MaxFailures \in Nat
ASSUME NoNodeAssumption == NoNode \notin [id : Ids, nr : 1..MaxSets]

VARIABLES queue,        \* TAILQ of nodes, the first one first
          map,          \* what the hash map holds for each id
          size,         \* queue->size
          toRemove,     \* rounds the loop of discord_cache_set has to go
          sets,         \* calls of discord_cache_set so far
          failed,       \* those whose hashmap_put failed
          freed,        \* nodes that are freed, their objects destroyed
          fault,        \* the first node of an empty queue was used
          destroyed     \* discord_cache_destroy has run

vars == <<queue, map, size, toRemove, sets, failed, freed, fault, destroyed>>

Node == [id : Ids, nr : 1..MaxSets]

-----------------------------------------------------------------------------
(* Definitions that end in an underscore and a word are variants of the    *)
(* one that follows them, with a mistake in it.                            *)

Init ==
    /\ queue = <<>>
    /\ map = [id \in Ids |-> NoNode]
    /\ size = 0
    /\ toRemove = 0
    /\ sets = 0
    /\ failed = 0
    /\ freed = {}
    /\ fault = FALSE
    /\ destroyed = FALSE

(* No call is under way.                                                   *)
Idle == toRemove = 0 /\ ~destroyed /\ ~fault

(* The old node of the id, if there is one, moves to the tail; it stays    *)
(* there when hashmap_put binds the id to the new node.                    *)
Refreshed(id) == IF map[id] = NoNode THEN queue ELSE MoveToTail(queue, map[id])

(* The map after hashmap_put.                                              *)
Bound_once(id, n) == IF map[id] = NoNode THEN [map EXCEPT ![id] = n] ELSE map
Bound(id, n) == [map EXCEPT ![id] = n]

(* The rounds of the clean-up loop for a queue of the counted size.        *)
ToRemove_fewer(s) == IF s > MaxSize + 1 THEN s - MaxSize ELSE 0
ToRemove_more(s) == IF s > MaxSize THEN s - MaxSize + 1 ELSE 0
ToRemove(s) == IF s > MaxSize THEN s - MaxSize ELSE 0

(* discord_cache_set up to its clean-up loop.                              *)
Set(id) ==
    LET node == [id |-> id, nr |-> sets + 1]
    IN /\ Idle
       /\ sets < MaxSets
       /\ sets' = sets + 1
       /\ queue' = Append(Refreshed(id), node)
       /\ map' = Bound(id, node)
       /\ size' = size + 1
       /\ toRemove' = ToRemove(size + 1)
       /\ UNCHANGED <<failed, freed, fault, destroyed>>

(* discord_cache_set when hashmap_put fails: the node is counted, and lost.*)
SetFails(id) ==
    /\ Idle
    /\ sets < MaxSets
    /\ failed < MaxFailures
    /\ sets' = sets + 1
    /\ failed' = failed + 1
    /\ queue' = Refreshed(id)
    /\ size' = size + 1
    /\ UNCHANGED <<map, toRemove, freed, fault, destroyed>>

DeleteBinding_bound(id) ==
    IF map[id] = NoNode THEN UNCHANGED <<queue, map, size, freed>>
    ELSE /\ queue' = Without(queue, map[id])
         /\ size' = size - 1
         /\ freed' = freed \cup {map[id]}
         /\ UNCHANGED map

(* discord_cache_delete, for callers and for the clean-up loop.            *)
DeleteBinding(id) ==
    IF map[id] = NoNode THEN UNCHANGED <<queue, map, size, freed>>
    ELSE /\ queue' = Without(queue, map[id])
         /\ map' = [map EXCEPT ![id] = NoNode]
         /\ size' = size - 1
         /\ freed' = freed \cup {map[id]}

(* One round of the clean-up loop: it deletes the id of the first node,    *)
(* whichever node the map holds for that id.                               *)
EvictFirst ==
    /\ toRemove > 0
    /\ ~fault
    /\ queue # <<>>
    /\ toRemove' = toRemove - 1
    /\ DeleteBinding(Head(queue).id)
    /\ UNCHANGED <<sets, failed, fault, destroyed>>

EvictFromEmpty ==
    /\ toRemove > 0
    /\ ~fault
    /\ queue = <<>>
    /\ fault' = TRUE
    /\ UNCHANGED <<queue, map, size, toRemove, sets, failed, freed, destroyed>>

(* discord_cache_get: a node that is found moves to the tail.              *)
Get(id) ==
    /\ Idle
    /\ queue' = Refreshed(id)
    /\ UNCHANGED <<map, size, toRemove, sets, failed, freed, fault, destroyed>>

Delete(id) ==
    /\ Idle
    /\ DeleteBinding(id)
    /\ UNCHANGED <<toRemove, sets, failed, fault, destroyed>>

(* discord_cache_destroy                                                   *)
Destroy ==
    /\ Idle
    /\ destroyed' = TRUE
    /\ freed' = freed \cup Nodes(queue)
    /\ size' = size - Len(queue)
    /\ queue' = <<>>
    /\ map' = [id \in Ids |-> NoNode]
    /\ UNCHANGED <<toRemove, sets, failed, fault>>

Next ==
    \/ \E id \in Ids : Set(id) \/ SetFails(id) \/ Get(id) \/ Delete(id)
    \/ EvictFirst
    \/ EvictFromEmpty
    \/ Destroy

Spec == Init /\ [][Next]_vars

-----------------------------------------------------------------------------
TypeOK ==
    /\ queue \in Seq(Node)
    /\ map \in [Ids -> Node \cup {NoNode}]
    /\ size \in Nat
    /\ toRemove \in Nat
    /\ sets \in 0..MaxSets
    /\ failed \in 0..MaxFailures
    /\ freed \subseteq Node
    /\ fault \in BOOLEAN
    /\ destroyed \in BOOLEAN

Mapped == {id \in Ids : map[id] # NoNode}

(* What the map holds for an id is a node of the queue made for that id,   *)
(* and the newest of them: TAILQ_REMOVE is only ever given a linked node,  *)
(* and nobody is handed an object that was replaced (cache.c:176, 241,     *)
(* 270).                                                                   *)
MapIsNewestInQueue ==
    \A id \in Mapped :
        /\ map[id] \in Nodes(queue)
        /\ map[id].id = id
        /\ \A n \in Nodes(queue) : n.id = id => n.nr <= map[id].nr

(* A node is linked once and never after it was freed, whichever way it    *)
(* was moved (cache.c:180, 194, 244, 272).                                 *)
LinkedOnce ==
    /\ IsInjective(queue)
    /\ Nodes(queue) \cap freed = {}

(* The counter is the length of the queue plus one for each hashmap_put    *)
(* that failed (cache.c:186 counts before cache.c:190 returns).            *)
SizeCounts == size = Len(queue) + failed

(* No id of the queue was set again while it was cached.                   *)
NoStale == \A n \in Nodes(queue) : map[n.id] = n

(* The first node of the queue is an older one of an id that is not bound  *)
(* any more.                                                               *)
FirstIsStale == queue # <<>> /\ map[queue[1].id] = NoNode

(* The limit holds between calls, whatever was set again, moved or deleted *)
(* by its id, as long as the clean-up loop finds a first node whose id is  *)
(* bound: otherwise its rounds delete nothing, and that node stays first   *)
(* until its id is set again (cache.c:197, 204; cache.h:39).               *)
BoundedUnlessStale == toRemove = 0 /\ failed = 0 => size <= MaxSize \/ FirstIsStale

(* The clean-up loop, which goes by the counter and not by the queue, only *)
(* meets an empty queue when hashmap_put failed more often before than the *)
(* cache has places (cache.c:201).                                         *)
LoopFindsNode == fault => failed > MaxSize

(* The invariant the proofs use: nodes are numbered by the calls so far,   *)
(* the clean-up loop has no more rounds than there are nodes over the      *)
(* limit, and the limit is exceeded by no more than those rounds.          *)
Numbered == \A n \in Nodes(queue) \cup freed : n.nr <= sets
RoundsLeft == toRemove > 0 => toRemove + MaxSize <= size
BoundedInLoop == failed = 0 => size <= MaxSize + toRemove \/ FirstIsStale

IInv ==
    /\ TypeOK
    /\ MapIsNewestInQueue
    /\ LinkedOnce
    /\ SizeCounts
    /\ LoopFindsNode
    /\ Numbered
    /\ RoundsLeft
    /\ BoundedInLoop

(* The cache does what KeyStore promises.                                  *)
Promise == INSTANCE KeyStore WITH
    Objects <- Node,
    Nothing <- NoNode,
    store <- map,
    held <- Nodes(queue),
    closed <- destroyed

ImplementsKeyStore == Promise!Spec
====
