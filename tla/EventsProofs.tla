---- MODULE EventsProofs ----
(***************************************************************************)
(* Proofs about Cache and Events.                                          *)
(*                                                                         *)
(* Cache: the map and the queue of a cache agree, nodes are linked once    *)
(* and never after they were freed, the counter is what it should be, and  *)
(* the cache implements KeyStore, for any ids, any limit and any number of *)
(* calls.                                                                  *)
(*                                                                         *)
(* Events: who owns which block of memory, what an update presents as old, *)
(* and what is left of a list of messages, for any structures that the     *)
(* JSON may describe and any number of copies.                             *)
(***************************************************************************)
EXTENDS Events, ListProofs, FiniteSetTheorems

-----------------------------------------------------------------------------
(* The inductive invariant.                                                *)

(* The pointers of a message or an interaction: with each the ones on the  *)
(* way to it, all of them pointers that a copy copies, and the user that a *)
(* member is given.                                                        *)
Complete(kind, parts) ==
    /\ parts \subseteq Seq(Fields)
    /\ \A p \in parts : p # <<>> => Front(p) \in parts
    /\ \A p \in parts : Along(CopiedOf, kind, p)
    /\ \A p \in parts : p # <<>> /\ Last(p) = "member" /\ Beside(p, "user") \in parts
            => Append(p, "user") \in parts

PartsFormed(kind, o, s) ==
    /\ Complete(kind, DOMAIN s)
    /\ \A p \in DOMAIN s : s[p] = Block(o, DOMAIN s, p)

(* Copies are made of cached objects only, whose icons are their own.      *)
ChannelFormed(o, s) ==
    /\ DOMAIN s \subseteq {<<>>, <<"topic">>, <<"icon">>}
    /\ \A p \in DOMAIN s \ {<<"icon">>} :
        s[p] = <<o, p>> \/ (o > MaxSets /\ s[p] = <<o, <<"icon">>>>)
    /\ <<"icon">> \in DOMAIN s => \E x \in 1..MaxSets :
        s[<<"icon">>] = <<x, <<"icon">>>> /\ (o <= MaxSets => x = o)

Formed(o, s) == IF type = "channel" THEN ChannelFormed(o, s) ELSE PartsFormed(type, o, s)
AllFormed == \A o \in Objects : Formed(o, objects[o])

(* The numbers that are taken, and what is left of the objects of each.    *)
Taken == 1..sets \cup (MaxSets + 1)..(MaxSets + copies)
OnlyTaken ==
    /\ \A b \in heap : b[1] \in Taken
    /\ \A o \in Objects \ Taken : objects[o] = NoStructure

ReplacedTopic(b) == b[2] = <<"topic">> /\ b[1] > MaxSets
LeftBehind(b) == \E i \in DOMAIN b[2] : b[2][i] \in {"referenced_message", "body"}
Reached ==
    \A b \in heap :
        \/ b[1] \in Live /\ b \in Blocks(objects[b[1]])
        \/ ReplacedTopic(b)
        \/ b[1] \notin Live /\ LeftBehind(b)

Lost == {o \in Live : o <= MaxSets /\ \A n \in Nodes(queue) : n.nr # o}
LostCounted == misuse = "none" => Cardinality(Lost) <= failed

(* Whatever was cached for an id is no newer than what the map holds for   *)
(* it; and what event_handle got is no older than what events had cached.  *)
NewestOfAll ==
    \A id \in Mapped : \A n \in Nodes(queue) \cup freed : n.id = id => n.nr <= map[id].nr
ServedKnown == served \subseteq Nodes(queue) \cup freed
GotNewest ==
    event.phase \in {"update", "delete"} /\ event.got # NoNode =>
        /\ event.got.id = event.id /\ event.got.nr <= sets
        /\ event.new = NoNode
        /\ \A n \in served : n.id = event.id => n.nr <= event.got.nr

(* The last c nodes of q.                                                  *)
LastOf(q, c) == {q[i] : i \in (Len(q) - c + 1)..Len(q)}

(* While nothing else used the cache, and no id was set twice, a list is   *)
(* at the end of the queue.                                                *)
ListAtTail ==
    list.alone /\ failed = 0 /\ NoStale /\ Cardinality(list.nodes) <= MaxSize =>
        /\ Cardinality(list.nodes) <= Len(queue)
        /\ list.nodes = LastOf(queue, Cardinality(list.nodes))

EventsIInv ==
    /\ IInv /\ EventsTypeOK
    /\ AllFormed /\ OnlyTaken /\ Reached /\ LostCounted
    /\ SharedOnlyIcons /\ DanglingOnlyIcons
    /\ NewestOfAll /\ ServedKnown /\ GotNewest /\ OldIsPrevious
    /\ ListAtTail /\ ListIntact

-----------------------------------------------------------------------------
USE DEF Bound, ToRemove

-----------------------------------------------------------------------------
(* Both structures of the queue after the three ways the code relinks it.  *)

LEMMA RefreshedKeeps ==
    ASSUME IInv, NEW id \in Ids
    PROVE  /\ Refreshed(id) \in Seq(Node)
           /\ Len(Refreshed(id)) = Len(queue)
           /\ Len(queue) \in Nat
           /\ Nodes(Refreshed(id)) = Nodes(queue)
           /\ IsInjective(Refreshed(id))
<1>1. queue \in Seq(Node) /\ IsInjective(queue) /\ Len(queue) \in Nat
  BY LenProperties DEF IInv, TypeOK, LinkedOnce
<1>2. CASE map[id] = NoNode
  BY <1>1, <1>2 DEF Refreshed
<1>3. CASE map[id] # NoNode
  <2>1. map[id] \in Nodes(queue) /\ map[id] \in Node
    BY <1>3 DEF IInv, MapIsNewestInQueue, Mapped, TypeOK
  <2>2. Refreshed(id) = MoveToTail(queue, map[id])
    BY <1>3 DEF Refreshed
  <2> QED
    BY <1>1, <2>1, <2>2, MoveKeeps
<1> QED
  BY <1>2, <1>3

LEMMA DeleteBindingKeeps ==
    ASSUME IInv, NEW id \in Ids, DeleteBinding(id), failed' = failed
    PROVE  /\ queue' \in Seq(Node)
           /\ map' \in [Ids -> Node \cup {NoNode}]
           /\ size' \in Nat
           /\ freed' \subseteq Node
           /\ MapIsNewestInQueue'
           /\ LinkedOnce'
           /\ SizeCounts'
           /\ Nodes(queue') \cup freed' = Nodes(queue) \cup freed
<1>1. /\ queue \in Seq(Node) /\ IsInjective(queue) /\ Len(queue) \in Nat
      /\ map \in [Ids -> Node \cup {NoNode}] /\ size \in Nat
      /\ freed \subseteq Node /\ failed \in Nat
      /\ size = Len(queue) + failed
      /\ Nodes(queue) \cap freed = {}
  BY BoundsAssumption, LenProperties DEF IInv, TypeOK, LinkedOnce, SizeCounts
<1>2. CASE map[id] = NoNode
  <2>1. UNCHANGED <<queue, map, size, freed>>
    BY <1>2 DEF DeleteBinding
  <2> QED
    BY <1>1, <2>1 DEF IInv, MapIsNewestInQueue, Mapped, LinkedOnce, SizeCounts
<1>3. CASE map[id] # NoNode
  <2>1. /\ queue' = Without(queue, map[id])
        /\ map' = [map EXCEPT ![id] = NoNode]
        /\ size' = size - 1
        /\ freed' = freed \cup {map[id]}
    BY <1>3 DEF DeleteBinding
  <2>2. map[id] \in Nodes(queue) /\ map[id] \in Node /\ map[id].id = id
    BY <1>1, <1>3 DEF IInv, MapIsNewestInQueue, Mapped
  <2>3. queue' \in Seq(Node) /\ Lacks(queue, map[id], queue')
    BY <1>1, <2>1, <2>2, WithoutLacks
  <2>4. /\ Len(queue') = Len(queue) - 1
        /\ Len(queue) \in Nat \ {0}
        /\ Nodes(queue') = Nodes(queue) \ {map[id]}
        /\ IsInjective(queue')
    BY <2>3 DEF Lacks
  <2>5. size' \in Nat /\ SizeCounts'
    BY <1>1, <2>1, <2>4 DEF SizeCounts
  <2>6. LinkedOnce'
    BY <1>1, <2>1, <2>4 DEF LinkedOnce
  <2>7. /\ map' \in [Ids -> Node \cup {NoNode}]
        /\ freed' \subseteq Node
        /\ Nodes(queue') \cup freed' = Nodes(queue) \cup freed
    BY <1>1, <2>1, <2>2, <2>4
  <2>8. MapIsNewestInQueue'
    <3>1. SUFFICES ASSUME NEW other \in Ids, map'[other] # NoNode
                   PROVE  /\ map'[other] \in Nodes(queue')
                          /\ map'[other].id = other
                          /\ \A n \in Nodes(queue') :
                                n.id = other => n.nr <= map'[other].nr
      BY DEF MapIsNewestInQueue, Mapped
    <3>2. other # id /\ map'[other] = map[other]
      BY <1>1, <2>1, <3>1
    <3>3. /\ map[other] \in Nodes(queue) /\ map[other].id = other
          /\ \A n \in Nodes(queue) : n.id = other => n.nr <= map[other].nr
      BY <3>1, <3>2 DEF IInv, MapIsNewestInQueue, Mapped
    <3> QED
      BY <2>2, <2>4, <3>2, <3>3
  <2> QED
    BY <2>3, <2>5, <2>6, <2>7, <2>8
<1> QED
  BY <1>2, <1>3

(* When a deletion leaves no stale node, there was none before, and if the *)
(* id was that of a linked node it was bound.                              *)
LEMMA DeleteShowsStale ==
    ASSUME IInv, NEW id \in Ids, DeleteBinding(id), NoStale'
    PROVE  /\ NoStale
           /\ (\E n \in Nodes(queue) : n.id = id) => size' = size - 1
<1>1. /\ map \in [Ids -> Node \cup {NoNode}] /\ queue \in Seq(Node)
      /\ IsInjective(queue)
  BY DEF IInv, TypeOK, LinkedOnce
<1>2. NoNode \notin Nodes(queue)
  <2>1. \A i \in 1..Len(queue) : queue[i] \in Node
    BY <1>1, ElementOfSeq
  <2> QED
    BY <2>1, NoNodeAssumption DEF Nodes, Node
<1>3. CASE map[id] = NoNode
  <2>1. UNCHANGED <<queue, map, size, freed>>
    BY <1>3 DEF DeleteBinding
  <2> QED
    BY <1>2, <1>3, <2>1 DEF NoStale
<1>4. CASE map[id] # NoNode
  <2>1. /\ map' = [map EXCEPT ![id] = NoNode]
        /\ queue' = Without(queue, map[id])
        /\ size' = size - 1
    BY <1>4 DEF DeleteBinding
  <2>2. map[id] \in Nodes(queue) /\ map[id].id = id
    BY <1>4 DEF IInv, MapIsNewestInQueue, Mapped
  <2>3. Nodes(queue') = Nodes(queue) \ {map[id]}
    BY <1>1, <2>1, <2>2, WithoutLacks DEF Lacks
  <2>4. ASSUME NEW n \in Nodes(queue)
        PROVE  map[n.id] = n
    <3>1. CASE n = map[id]
      BY <2>2, <3>1
    <3>2. CASE n # map[id]
      <4>1. map'[n.id] = n
        BY <2>3, <3>2 DEF NoStale
      <4>2. n.id \in Ids
        <5>1. \A i \in 1..Len(queue) : queue[i] \in Node
          BY <1>1, ElementOfSeq
        <5> QED
          BY <5>1 DEF Nodes, Node
      <4> QED
        BY <1>1, <1>2, <2>1, <2>4, <4>1, <4>2
    <3> QED
      BY <3>1, <3>2
  <2> QED
    BY <2>1, <2>4 DEF NoStale
<1> QED
  BY <1>3, <1>4

(* A first node that is stale stays where it is when a node of another id  *)
(* is unlinked, at whichever place.                                        *)
LEMMA FirstStays ==
    ASSUME IInv, FirstIsStale, NEW id \in Ids, map[id] # NoNode
    PROVE  LET rest == Without(queue, map[id])
           IN  /\ rest # <<>> /\ rest[1] = queue[1]
               /\ Append(rest, map[id]) # <<>> /\ Append(rest, map[id])[1] = queue[1]
               /\ queue[1].id \in Ids \ {id}
<1>1. PICK rest : rest = Without(queue, map[id])
  OBVIOUS
<1>2. /\ queue \in Seq(Node) /\ IsInjective(queue) /\ queue # <<>> /\ Len(queue) \in Nat
      /\ map[id] \in Nodes(queue) /\ map[id] \in Node /\ map[id].id = id
  BY LenProperties
  DEF IInv, TypeOK, LinkedOnce, MapIsNewestInQueue, Mapped, FirstIsStale
<1>3. 1 \in 1..Len(queue) /\ queue[1] \in Node
  BY <1>2, EmptySeq, ElementOfSeq
<1>4. queue[1].id \in Ids \ {id} /\ queue[1] # map[id]
  BY <1>2, <1>3 DEF FirstIsStale, Node
<1>5. /\ rest \in Seq(Node) /\ Len(rest) = Len(queue) - 1
      /\ \E k \in 1..Len(queue) : queue[k] = map[id] /\ \A i \in 1..(Len(queue) - 1) :
            rest[i] = IF i < k THEN queue[i] ELSE queue[i + 1]
  BY <1>1, <1>2, WithoutLacks DEF Lacks
<1>6. PICK k \in 1..Len(queue) : queue[k] = map[id] /\ \A i \in 1..(Len(queue) - 1) :
            rest[i] = IF i < k THEN queue[i] ELSE queue[i + 1]
  BY <1>5
<1>7. k > 1 /\ 1 \in 1..(Len(queue) - 1)
  BY <1>2, <1>4, <1>6
<1>8. rest[1] = queue[1] /\ Len(rest) > 0
  BY <1>5, <1>6, <1>7
<1>9. /\ Append(rest, map[id])[1] = rest[1] /\ Len(Append(rest, map[id])) = Len(rest) + 1
      /\ 1 \in 1..Len(rest)
  BY <1>2, <1>5, <1>7, AppendProperties
<1>10. rest # <<>> /\ Append(rest, map[id]) # <<>>
  BY <1>8, <1>9
<1> QED
  BY <1>1, <1>4, <1>8, <1>9, <1>10

-----------------------------------------------------------------------------
(* The invariant.                                                          *)

LEMMA InitInvariant == Init => IInv
<1> SUFFICES ASSUME Init PROVE IInv
  OBVIOUS
<1>1. Nodes(queue) = {}
  BY DEF Init, Nodes
<1>2. TypeOK
  <2>1. /\ map \in [Ids -> Node \cup {NoNode}] /\ freed \subseteq Node
        /\ size \in Nat /\ toRemove \in Nat /\ queue \in Seq(Node)
    BY DEF Init
  <2>2. sets \in 0..MaxSets /\ failed \in 0..MaxFailures
    BY BoundsAssumption DEF Init
  <2>3. fault \in BOOLEAN /\ destroyed \in BOOLEAN
    BY DEF Init
  <2> QED
    BY <2>1, <2>2, <2>3 DEF TypeOK
<1>3. IsInjective(queue)
  BY DEF Init, IsInjective
<1>4. MapIsNewestInQueue /\ Numbered
  BY <1>1 DEF Init, MapIsNewestInQueue, Mapped, Numbered
<1>5. LinkedOnce /\ SizeCounts /\ LoopFindsNode /\ RoundsLeft
  BY <1>1, <1>3 DEF Init, LinkedOnce, SizeCounts, LoopFindsNode, RoundsLeft
<1>6. BoundedInLoop
  BY MaxSizeAssumption DEF Init, BoundedInLoop
<1> QED
  BY <1>2, <1>4, <1>5, <1>6 DEF IInv

(* discord_cache_set links a node that is new, under the newest number.    *)
LEMMA SetLinks ==
    ASSUME IInv, NEW id \in Ids, Set(id)
    PROVE  LET node == [id |-> id, nr |-> sets + 1]
           IN  /\ node \in Node
               /\ node \notin Nodes(queue) \cup freed
               /\ queue' \in Seq(Node)
               /\ Len(queue') = Len(queue) + 1
               /\ Len(queue) \in Nat
               /\ Nodes(queue') = Nodes(queue) \cup {node}
               /\ IsInjective(queue')
<1> DEFINE node == [id |-> id, nr |-> sets + 1]
<1>1. sets \in Nat /\ sets < MaxSets /\ MaxSets \in Nat
  BY BoundsAssumption DEF IInv, TypeOK, Set
<1>2. node \in Node
  BY <1>1 DEF Node
<1>3. node \notin Nodes(queue) \cup freed
  <2>1. node.nr = sets + 1
    OBVIOUS
  <2> QED
    BY <1>1, <2>1 DEF IInv, Numbered
<1>4. queue' = Append(Refreshed(id), node)
  BY DEF Set
<1> HIDE DEF node
<1>5. Gains(Refreshed(id), node, queue') /\ queue' \in Seq(Node)
  BY <1>2, <1>3, <1>4, RefreshedKeeps, AppendGains
<1> QED
  BY <1>2, <1>3, <1>5, RefreshedKeeps DEF Gains, node

LEMMA SetInvariant ==
    ASSUME IInv, NEW id \in Ids, Set(id)
    PROVE  IInv'
<1>1. PICK node : node = [id |-> id, nr |-> sets + 1]
  OBVIOUS
<1>2. /\ node \in Node /\ node \notin Nodes(queue) \cup freed
      /\ queue' \in Seq(Node) /\ Len(queue') = Len(queue) + 1
      /\ Len(queue) \in Nat
      /\ Nodes(queue') = Nodes(queue) \cup {node} /\ IsInjective(queue')
  BY <1>1, SetLinks
<1>3. node.id = id /\ node.nr = sets + 1
  BY <1>1
<1>4. /\ toRemove = 0 /\ ~fault /\ sets < MaxSets /\ sets' = sets + 1
      /\ map' = [map EXCEPT ![id] = node] /\ size' = size + 1
      /\ toRemove' = IF size' > MaxSize THEN size' - MaxSize ELSE 0
      /\ failed' = failed /\ freed' = freed /\ fault' = fault
      /\ destroyed' = destroyed
  BY <1>1 DEF Set, Idle
<1>5. /\ map \in [Ids -> Node \cup {NoNode}] /\ size \in Nat /\ sets \in 0..MaxSets
      /\ failed \in 0..MaxFailures /\ freed \subseteq Node
      /\ destroyed \in BOOLEAN
  BY DEF IInv, TypeOK
<1>6. MaxSize \in Nat /\ MaxSets \in Nat
  BY MaxSizeAssumption, BoundsAssumption
<1>7. size' \in Nat /\ toRemove' \in Nat /\ sets' \in 0..MaxSets
  BY <1>4, <1>5, <1>6
<1>8. map' \in [Ids -> Node \cup {NoNode}]
  BY <1>2, <1>4, <1>5
<1>9. TypeOK'
  <2>1. fault' \in BOOLEAN /\ destroyed' \in BOOLEAN
    BY <1>4 DEF IInv, TypeOK
  <2>2. failed' \in 0..MaxFailures /\ freed' \subseteq Node
    BY <1>4, <1>5
  <2> QED
    BY <1>2, <1>7, <1>8, <2>1, <2>2 DEF TypeOK
<1>10. \A n \in Nodes(queue) \cup freed : n.nr <= sets
  BY DEF IInv, Numbered
<1>11. \A n \in Nodes(queue) \cup freed : n \in Node /\ n.nr \in Int
  <2>1. \A i \in 1..Len(queue) : queue[i] \in Node
    BY ElementOfSeq DEF IInv, TypeOK
  <2>2. \A n \in Nodes(queue) \cup freed : n \in Node
    BY <2>1, <1>5 DEF Nodes
  <2>3. \A n \in Node : n.nr \in Int
    BY <1>6 DEF Node
  <2> QED
    BY <2>2, <2>3
<1>12. MapIsNewestInQueue'
  <2>1. SUFFICES ASSUME NEW other \in Ids, map'[other] # NoNode
                 PROVE  /\ map'[other] \in Nodes(queue')
                        /\ map'[other].id = other
                        /\ \A n \in Nodes(queue') :
                              n.id = other => n.nr <= map'[other].nr
    BY DEF MapIsNewestInQueue, Mapped
  <2>2. CASE other = id
    <3>1. map'[other] = node
      BY <1>4, <1>5, <2>2
    <3>2. \A n \in Nodes(queue') : n.nr <= sets + 1
      BY <1>2, <1>3, <1>5, <1>10, <1>11
    <3> QED
      BY <1>2, <1>3, <2>2, <3>1, <3>2
  <2>3. CASE other # id
    <3>1. map'[other] = map[other]
      BY <1>4, <1>5, <2>3
    <3> QED
      BY <1>2, <1>3, <2>1, <2>3, <3>1 DEF IInv, MapIsNewestInQueue, Mapped
  <2> QED
    BY <2>2, <2>3
<1>13. LinkedOnce'
  BY <1>2, <1>4 DEF IInv, LinkedOnce
<1>14. SizeCounts'
  BY <1>2, <1>4, <1>5 DEF IInv, SizeCounts
<1>15. LoopFindsNode'
  BY <1>4 DEF IInv, LoopFindsNode
<1>16. Numbered'
  BY <1>2, <1>3, <1>4, <1>5, <1>10, <1>11 DEF Numbered
<1>17. RoundsLeft' /\ BoundedInLoop'
  BY <1>4, <1>5, <1>6, <1>7 DEF RoundsLeft, BoundedInLoop
<1> QED
  BY <1>9, <1>12, <1>13, <1>14, <1>15, <1>16, <1>17 DEF IInv

LEMMA RefreshInvariant ==
    ASSUME IInv, NEW id \in Ids, Get(id) \/ SetFails(id)
    PROVE  IInv'
<1>1. /\ queue' = Refreshed(id) /\ toRemove = 0 /\ ~fault
      /\ UNCHANGED <<map, toRemove, freed, fault, destroyed>>
      /\ \/ UNCHANGED <<size, sets, failed>>
         \/ /\ sets < MaxSets /\ failed < MaxFailures
            /\ sets' = sets + 1 /\ failed' = failed + 1 /\ size' = size + 1
  BY DEF Get, SetFails, Idle
<1>2. /\ queue' \in Seq(Node) /\ Len(queue') = Len(queue)
      /\ Len(queue) \in Nat
      /\ Nodes(queue') = Nodes(queue) /\ IsInjective(queue')
  BY <1>1, RefreshedKeeps
<1>3. MaxSize \in Nat /\ MaxSets \in Nat /\ MaxFailures \in Nat
  BY MaxSizeAssumption, BoundsAssumption
<1>4. /\ size \in Nat /\ sets \in 0..MaxSets /\ failed \in 0..MaxFailures
  BY DEF IInv, TypeOK
<1>5. size' \in Nat /\ sets' \in 0..MaxSets /\ failed' \in 0..MaxFailures
  BY <1>1, <1>3, <1>4
<1>6. TypeOK'
  BY <1>1, <1>2, <1>5 DEF IInv, TypeOK
<1>7. MapIsNewestInQueue' /\ LinkedOnce'
  BY <1>1, <1>2 DEF IInv, MapIsNewestInQueue, Mapped, LinkedOnce
<1>8. SizeCounts' /\ LoopFindsNode'
  BY <1>1, <1>2, <1>4 DEF IInv, SizeCounts, LoopFindsNode
<1>9. Numbered'
  <2>1. \A n \in Node : n.nr \in Int
    BY <1>3 DEF Node
  <2>2. \A i \in 1..Len(queue) : queue[i] \in Node
    BY ElementOfSeq DEF IInv, TypeOK
  <2>3. \A n \in Nodes(queue) \cup freed : n.nr \in Int
    BY <2>1, <2>2 DEF IInv, TypeOK, Nodes
  <2>4. \A n \in Nodes(queue) \cup freed : n.nr <= sets
    BY DEF IInv, Numbered
  <2> QED
    BY <1>1, <1>2, <1>4, <2>3, <2>4 DEF Numbered
<1>10. RoundsLeft'
  BY <1>1 DEF RoundsLeft
<1>11. BoundedInLoop'
  <2>1. SUFFICES ASSUME failed' = 0
                 PROVE  size' <= MaxSize + toRemove' \/ FirstIsStale'
    BY DEF BoundedInLoop
  <2>2. UNCHANGED <<size, sets, failed>> /\ failed = 0
    BY <2>1, <1>1, <1>4
  <2>3. CASE FirstIsStale
    <3>1. CASE map[id] = NoNode
      BY <1>1, <2>3, <3>1 DEF Refreshed, FirstIsStale
    <3>2. CASE map[id] # NoNode
      <4>1. queue' = Append(Without(queue, map[id]), map[id])
        BY <1>1, <3>2 DEF Refreshed, MoveToTail
      <4>2. queue' # <<>> /\ queue'[1] = queue[1]
        BY <2>3, <3>2, <4>1, FirstStays
      <4> QED
        BY <1>1, <2>3, <4>2 DEF FirstIsStale
    <3> QED
      BY <3>1, <3>2
  <2>4. CASE ~FirstIsStale
    BY <1>1, <2>2, <2>4 DEF IInv, BoundedInLoop
  <2> QED
    BY <2>3, <2>4
<1> QED
  BY <1>6, <1>7, <1>8, <1>9, <1>10, <1>11 DEF IInv

LEMMA DeletingInvariant ==
    ASSUME IInv, NEW id \in Ids, DeleteBinding(id),
           UNCHANGED <<sets, failed, fault, destroyed>>,
           \/ toRemove = 0 /\ toRemove' = 0
           \/ /\ toRemove > 0 /\ toRemove' = toRemove - 1
              /\ queue # <<>> /\ id = queue[1].id
    PROVE  IInv'
<1>1. /\ queue' \in Seq(Node) /\ map' \in [Ids -> Node \cup {NoNode}]
      /\ size' \in Nat /\ freed' \subseteq Node /\ MapIsNewestInQueue'
      /\ LinkedOnce' /\ SizeCounts'
      /\ Nodes(queue') \cup freed' = Nodes(queue) \cup freed
  BY DeleteBindingKeeps
<1>2. /\ toRemove \in Nat /\ size \in Nat /\ MaxSize \in Nat
      /\ size' \in {size, size - 1}
  BY MaxSizeAssumption DEF IInv, TypeOK, DeleteBinding
<1>3. toRemove' \in Nat
  BY <1>2
<1>4. TypeOK'
  BY <1>1, <1>3 DEF IInv, TypeOK
<1>5. LoopFindsNode' /\ Numbered'
  BY <1>1 DEF IInv, LoopFindsNode, Numbered
<1>6. RoundsLeft'
  BY <1>2 DEF IInv, RoundsLeft
<1>7. BoundedInLoop'
  <2>1. SUFFICES ASSUME failed = 0
                 PROVE  size' <= MaxSize + toRemove' \/ FirstIsStale'
    BY DEF BoundedInLoop
  <2>2. CASE FirstIsStale
    <3>1. CASE map[id] = NoNode
      BY <2>2, <3>1 DEF DeleteBinding, FirstIsStale
    <3>2. CASE map[id] # NoNode
      <4>1. queue' = Without(queue, map[id]) /\ map' = [map EXCEPT ![id] = NoNode]
        BY <3>2 DEF DeleteBinding
      <4>2. queue' # <<>> /\ queue'[1] = queue[1] /\ queue[1].id \in Ids \ {id}
        BY <2>2, <3>2, <4>1, FirstStays
      <4>3. map'[queue[1].id] = map[queue[1].id]
        BY <4>1, <4>2 DEF IInv, TypeOK
      <4> QED
        BY <2>2, <4>2, <4>3 DEF FirstIsStale
    <3> QED
      BY <3>1, <3>2
  <2>3. CASE ~FirstIsStale
    <3>1. size <= MaxSize + toRemove
      BY <2>1, <2>3 DEF IInv, BoundedInLoop
    <3>2. CASE toRemove = 0 /\ toRemove' = 0
      BY <1>2, <3>1, <3>2
    <3>3. CASE toRemove' = toRemove - 1 /\ queue # <<>> /\ id = queue[1].id
      <4>1. size' = size - 1
        BY <2>3, <3>3 DEF DeleteBinding, FirstIsStale
      <4> QED
        BY <1>2, <3>1, <3>3, <4>1
    <3> QED
      BY <3>2, <3>3
  <2> QED
    BY <2>2, <2>3
<1> QED
  BY <1>1, <1>4, <1>5, <1>6, <1>7 DEF IInv

LEMMA EvictInvariant ==
    ASSUME IInv, EvictFirst
    PROVE  IInv'
<1>1. PICK id : id = Head(queue).id
  OBVIOUS
<1>2. /\ queue \in Seq(Node) /\ queue # <<>>
  BY DEF IInv, TypeOK, EvictFirst
<1>3. Head(queue) = queue[1] /\ queue[1] \in Node /\ 1 \in 1..Len(queue)
  BY <1>2, LenProperties, EmptySeq, ElementOfSeq
<1>4. id \in Ids /\ id = queue[1].id
  BY <1>1, <1>3 DEF Node
<1>5. /\ DeleteBinding(id) /\ toRemove > 0 /\ toRemove' = toRemove - 1
      /\ UNCHANGED <<sets, failed, fault, destroyed>>
  BY <1>1 DEF EvictFirst
<1> QED
  BY <1>2, <1>4, <1>5, DeletingInvariant

LEMMA FaultInvariant ==
    ASSUME IInv, EvictFromEmpty
    PROVE  IInv'
<1>1. /\ queue = <<>> /\ toRemove > 0 /\ fault'
      /\ UNCHANGED <<queue, map, size, toRemove, sets, failed, freed, destroyed>>
  BY DEF EvictFromEmpty
<1>2. failed > MaxSize
  <2>1. Len(queue) = 0
    BY <1>1
  <2>2. toRemove + MaxSize <= size /\ size = Len(queue) + failed
    BY <1>1 DEF IInv, RoundsLeft, SizeCounts
  <2> QED
    BY <1>1, <2>1, <2>2, MaxSizeAssumption, BoundsAssumption DEF IInv, TypeOK
<1>3. TypeOK'
  BY <1>1 DEF IInv, TypeOK, EvictFromEmpty
<1>4. MapIsNewestInQueue' /\ LinkedOnce' /\ SizeCounts' /\ Numbered'
  BY <1>1 DEF IInv, MapIsNewestInQueue, Mapped, LinkedOnce, SizeCounts, Numbered
<1>5. LoopFindsNode' /\ RoundsLeft' /\ BoundedInLoop'
  BY <1>1, <1>2
  DEF IInv, LoopFindsNode, RoundsLeft, BoundedInLoop, FirstIsStale
<1> QED
  BY <1>3, <1>4, <1>5 DEF IInv

LEMMA DestroyInvariant ==
    ASSUME IInv, Destroy
    PROVE  IInv'
<1>1. /\ toRemove = 0 /\ destroyed' = TRUE /\ queue' = <<>>
      /\ freed' = freed \cup Nodes(queue) /\ size' = size - Len(queue)
      /\ map' = [id \in Ids |-> NoNode]
      /\ UNCHANGED <<toRemove, sets, failed, fault>>
  BY DEF Destroy, Idle
<1>2. /\ queue \in Seq(Node) /\ size \in Nat /\ freed \subseteq Node
      /\ Len(queue) \in Nat /\ failed \in Nat /\ size = Len(queue) + failed
  BY BoundsAssumption, LenProperties DEF IInv, TypeOK, SizeCounts
<1>3. Nodes(queue) \subseteq Node
  BY <1>2, ElementOfSeq DEF Nodes
<1>4. Nodes(queue') = {} /\ Len(queue') = 0 /\ queue' \in Seq(Node)
  BY <1>1 DEF Nodes
<1>5. IsInjective(queue')
  BY <1>1 DEF IsInjective
<1>6. size' = failed
  BY <1>1, <1>2
<1>7. TypeOK'
  BY <1>1, <1>2, <1>3, <1>4, <1>6 DEF IInv, TypeOK
<1>8. MapIsNewestInQueue'
  BY <1>1 DEF MapIsNewestInQueue, Mapped
<1>9. LinkedOnce'
  BY <1>4, <1>5 DEF LinkedOnce
<1>10. SizeCounts' /\ LoopFindsNode' /\ RoundsLeft'
  BY <1>1, <1>2, <1>4, <1>6
  DEF IInv, SizeCounts, LoopFindsNode, RoundsLeft
<1>11. Numbered'
  BY <1>1, <1>4 DEF IInv, Numbered
<1>12. BoundedInLoop'
  BY <1>1, <1>6, MaxSizeAssumption DEF BoundedInLoop
<1> QED
  BY <1>7, <1>8, <1>9, <1>10, <1>11, <1>12 DEF IInv

LEMMA StepInvariant == IInv /\ [Next]_vars => IInv'
<1> SUFFICES ASSUME IInv, [Next]_vars PROVE IInv'
  OBVIOUS
<1>1. ASSUME NEW id \in Ids, Set(id) PROVE IInv'
  BY <1>1, SetInvariant
<1>2. ASSUME NEW id \in Ids, SetFails(id) \/ Get(id) PROVE IInv'
  BY <1>2, RefreshInvariant
<1>3. ASSUME NEW id \in Ids, Delete(id) PROVE IInv'
  <2>1. /\ DeleteBinding(id) /\ toRemove = 0 /\ toRemove' = 0
        /\ UNCHANGED <<sets, failed, fault, destroyed>>
    BY <1>3 DEF Delete, Idle
  <2> QED
    BY <2>1, DeletingInvariant
<1>4. CASE EvictFirst
  BY <1>4, EvictInvariant
<1>5. CASE EvictFromEmpty
  BY <1>5, FaultInvariant
<1>6. CASE Destroy
  BY <1>6, DestroyInvariant
<1>7. CASE UNCHANGED vars
  BY <1>7 DEF vars, IInv, TypeOK, MapIsNewestInQueue, Mapped, LinkedOnce,
              SizeCounts, LoopFindsNode, Numbered, RoundsLeft, BoundedInLoop,
              FirstIsStale
<1> QED
  BY <1>1, <1>2, <1>3, <1>4, <1>5, <1>6, <1>7 DEF Next

(* The invariant holds in every reachable state of the cache.              *)
THEOREM InvariantHolds == Spec => []IInv
BY InitInvariant, StepInvariant, PTL DEF Spec

(* The map and the queue agree, and no freed or foreign node is ever       *)
(* unlinked (cache.c:180, 244, 272).                                       *)
THEOREM StructuresAgree == Spec => [](MapIsNewestInQueue /\ LinkedOnce)
BY InvariantHolds, PTL DEF IInv

(* The counter of a cache (cache.c:186, 289).                              *)
THEOREM CounterIsExact == Spec => []SizeCounts
BY InvariantHolds, PTL DEF IInv

(* The clean-up loop meets an empty queue only after more failures of      *)
(* hashmap_put than the cache has places (cache.c:201).                    *)
THEOREM LoopIsSafe == Spec => []LoopFindsNode
BY InvariantHolds, PTL DEF IInv

(* The limit holds between calls, unless the first node is one whose id is *)
(* not bound, which the clean-up loop does not get rid of (cache.c:204).   *)
THEOREM LimitHolds == Spec => []BoundedUnlessStale
<1>1. IInv => BoundedUnlessStale
  BY MaxSizeAssumption DEF IInv, BoundedInLoop, BoundedUnlessStale
<1> QED
  BY <1>1, InvariantHolds, PTL

-----------------------------------------------------------------------------
(* The cache implements KeyStore.                                          *)

Held == Nodes(queue)

LEMMA SetPuts ==
    ASSUME IInv, NEW id \in Ids, Set(id)
    PROVE  \E object \in Node : Promise!Put(id, object)
<1>1. PICK node : node = [id |-> id, nr |-> sets + 1]
  OBVIOUS
<1>2. /\ node \in Node /\ node \notin Held \cup freed
      /\ Held' = Held \cup {node}
  BY <1>1, SetLinks DEF Held
<1>3. /\ ~destroyed /\ map' = [map EXCEPT ![id] = node]
      /\ UNCHANGED <<freed, destroyed>>
  BY <1>1 DEF Set, Idle
<1>4. Promise!Put(id, node)
  BY <1>2, <1>3 DEF Promise!Put, Held
<1> QED
  BY <1>2, <1>4

LEMMA DeletionDrops ==
    ASSUME IInv, NEW id \in Ids, DeleteBinding(id), ~destroyed,
           destroyed' = destroyed, failed' = failed
    PROVE  Promise!Drop(id) \/ UNCHANGED Promise!vars
<1>1. CASE map[id] = NoNode
  BY <1>1 DEF DeleteBinding, Promise!vars
<1>2. CASE map[id] # NoNode
  <2>1. map[id] \in Held
    BY <1>2 DEF IInv, MapIsNewestInQueue, Mapped, Held
  <2>2. /\ queue' = Without(queue, map[id])
        /\ map' = [map EXCEPT ![id] = NoNode]
        /\ freed' = freed \cup {map[id]}
    BY <1>2 DEF DeleteBinding
  <2>3. Lacks(queue, map[id], queue')
    BY <2>1, <2>2, WithoutLacks DEF Held, IInv, TypeOK, LinkedOnce
  <2>4. Held' = Held \ {map[id]}
    BY <2>3 DEF Lacks, Held
  <2>5. Promise!Drop(id)
    BY <2>1, <2>2, <2>4 DEF Promise!Drop, Held
  <2> QED
    BY <2>5
<1> QED
  BY <1>1, <1>2

LEMMA PromiseStep ==
    ASSUME IInv, (toRemove > 0 => ~destroyed), [Next]_vars
    PROVE  [Promise!Next]_(Promise!vars)
<1>1. ASSUME NEW id \in Ids, Set(id) PROVE Promise!Next
  BY <1>1, SetPuts DEF Promise!Next
<1>2. ASSUME NEW id \in Ids, SetFails(id) \/ Get(id) PROVE UNCHANGED Promise!vars
  <2>1. UNCHANGED <<map, freed, destroyed>> /\ queue' = Refreshed(id)
    BY <1>2 DEF SetFails, Get
  <2>2. Nodes(queue') = Nodes(queue)
    BY <2>1, RefreshedKeeps
  <2> QED
    BY <2>1, <2>2 DEF Promise!vars
<1>3. ASSUME NEW id \in Ids, Delete(id) PROVE Promise!Next \/ UNCHANGED Promise!vars
  <2>1. /\ DeleteBinding(id) /\ ~destroyed /\ destroyed' = destroyed
        /\ failed' = failed
    BY <1>3 DEF Delete, Idle
  <2> QED
    BY <2>1, DeletionDrops DEF Promise!Next
<1>4. CASE EvictFirst
  <2>1. PICK id : id = Head(queue).id
    OBVIOUS
  <2>2. id \in Ids
    <3>1. queue \in Seq(Node) /\ queue # <<>>
      BY <1>4 DEF EvictFirst, IInv, TypeOK
    <3>2. Head(queue) \in Node
      BY <3>1, HeadTailProperties
    <3> QED
      BY <2>1, <3>2 DEF Node
  <2>3. /\ DeleteBinding(id) /\ ~destroyed /\ destroyed' = destroyed
        /\ failed' = failed
    BY <1>4, <2>1 DEF EvictFirst
  <2> QED
    BY <2>2, <2>3, DeletionDrops DEF Promise!Next
<1>5. CASE EvictFromEmpty \/ UNCHANGED vars
  <2>1. UNCHANGED <<map, queue, freed, destroyed>>
    BY <1>5 DEF EvictFromEmpty, vars
  <2> QED
    BY <2>1 DEF Promise!vars
<1>6. CASE Destroy
  <2>1. Promise!Close
    BY <1>6 DEF Destroy, Idle, Nodes, Promise!Close
  <2> QED
    BY <2>1 DEF Promise!Next
<1> QED
  BY <1>1, <1>2, <1>3, <1>4, <1>5, <1>6 DEF Next

(* No clean-up loop is under way in a cache that was destroyed.            *)
LoopEnds == destroyed => toRemove = 0

LEMMA LoopEndsHolds == Spec => []LoopEnds
<1>1. Init => LoopEnds
  BY DEF Init, LoopEnds
<1>2. LoopEnds /\ [Next]_vars => LoopEnds'
  <2> SUFFICES ASSUME LoopEnds, [Next]_vars PROVE LoopEnds'
    OBVIOUS
  <2>1. ASSUME NEW id \in Ids, Set(id) PROVE LoopEnds'
    BY <2>1 DEF LoopEnds, Set, Idle
  <2>2. ASSUME NEW id \in Ids, SetFails(id) \/ Get(id) \/ Delete(id)
        PROVE  LoopEnds'
    BY <2>2 DEF LoopEnds, SetFails, Get, Delete, Idle
  <2>3. CASE EvictFirst \/ EvictFromEmpty
    <3>1. ~destroyed
      BY <2>3 DEF LoopEnds, EvictFirst, EvictFromEmpty
    <3> QED
      BY <2>3, <3>1 DEF LoopEnds, EvictFirst, EvictFromEmpty
  <2>4. CASE Destroy \/ UNCHANGED vars
    BY <2>4 DEF LoopEnds, Destroy, Idle, vars
  <2> QED
    BY <2>1, <2>2, <2>3, <2>4 DEF Next
<1> QED
  BY <1>1, <1>2, PTL DEF Spec

(* Every behaviour of the queue, the map and the clean-up loop is one that *)
(* KeyStore allows: an object is freed only when its own binding is        *)
(* dropped, and all that are held are freed at the end.                    *)
THEOREM CacheImplementsKeyStore == Spec => ImplementsKeyStore
<1>1. Init => Promise!Init
  BY DEF Init, Promise!Init, Nodes
<1>2. IInv /\ LoopEnds /\ [Next]_vars => [Promise!Next]_(Promise!vars)
  BY PromiseStep DEF LoopEnds, IInv, TypeOK
<1> QED
  BY <1>1, <1>2, InvariantHolds, LoopEndsHolds, PTL
  DEF Spec, ImplementsKeyStore, Promise!Spec

-----------------------------------------------------------------------------
(* What the actions do to the cache, to the event under way and to the     *)
(* list.                                                                   *)

LEMMA StoreSteps ==
    ASSUME NEW id \in Ids, Store(id)
    PROVE  Next /\ sets' = sets + 1 /\ sets < MaxSets /\ toRemove = 0
BY DEF Store, Next, Set, SetFails, Idle

LEMMA KnownAreNodes ==
    ASSUME IInv
    PROVE  /\ \A n \in Nodes(queue) \cup freed : n \in Node /\ n.nr \in Int
           /\ Nodes(queue) \cup freed \subseteq Node
<1>1. \A i \in 1..Len(queue) : queue[i] \in Node
  BY ElementOfSeq DEF IInv, TypeOK
<1>2. \A n \in Nodes(queue) \cup freed : n \in Node
  BY <1>1 DEF Nodes, IInv, TypeOK
<1>3. \A n \in Node : n.nr \in Int
  BY BoundsAssumption DEF Node
<1> QED
  BY <1>2, <1>3

LEMMA CacheSteps ==
    ASSUME EventsTypeOK, [EventsNext]_allVars
    PROVE  [Next]_vars
<1>1. ASSUME NEW id \in Ids, NEW parts \in Parts,
             ReceiveCreate(id, parts) \/ ListMessage(id, parts)
      PROVE  Next
  BY <1>1, StoreSteps DEF ReceiveCreate, ListMessage
<1>2. ASSUME NEW id \in Ids, ReceiveUpdate(id) \/ ReceiveDelete(id)
      PROVE  Next
  BY <1>2 DEF ReceiveUpdate, ReceiveDelete, Next
<1>3. ASSUME NEW parts \in Parts, FinishUpdate(parts)
      PROVE  Next
  <2>1. Store(event.id) /\ event.id \in Ids
    BY <1>3 DEF FinishUpdate, EventsTypeOK
  <2> QED
    BY <2>1, StoreSteps
<1>4. CASE Evict
  BY <1>4 DEF Evict, Next
<1>5. CASE CopyGone \/ FinishDelete \/ Deliver \/ ReceiveList \/ CallList \/ ListDone
  BY <1>5 DEF CopyGone, FinishDelete, Deliver, ReceiveList, CallList, ListDone
<1>6. ASSUME NEW parts \in InteractionParts, ReceiveInteraction(parts)
      PROVE  UNCHANGED vars
  BY <1>6 DEF ReceiveInteraction
<1>7. ASSUME NEW c \in Objects, UserDestroys(c)
      PROVE  UNCHANGED vars
  BY <1>7 DEF UserDestroys
<1>8. CASE UNCHANGED allVars
  BY <1>8 DEF allVars
<1> QED
  BY <1>1, <1>2, <1>3, <1>4, <1>5, <1>6, <1>7, <1>8 DEF EventsNext

(* No node that was in the cache is forgotten, and the numbers grow.       *)
LEMMA NodesKept ==
    ASSUME IInv, [Next]_vars
    PROVE  /\ Nodes(queue) \cup freed \subseteq Nodes(queue') \cup freed'
           /\ freed \subseteq freed'
           /\ sets \in Int /\ sets' \in {sets, sets + 1}
<1>0. sets \in Int
  BY BoundsAssumption DEF IInv, TypeOK
<1>1. ASSUME NEW id \in Ids, Set(id)
      PROVE  Nodes(queue') = Nodes(queue) \cup {[id |-> id, nr |-> sets + 1]}
             /\ freed' = freed /\ sets' = sets + 1
  BY <1>1, SetLinks DEF Set
<1>2. ASSUME NEW id \in Ids, SetFails(id) \/ Get(id)
      PROVE  Nodes(queue') = Nodes(queue) /\ freed' = freed
             /\ sets' \in {sets, sets + 1}
  BY <1>2, RefreshedKeeps DEF SetFails, Get
<1>3. ASSUME NEW id \in Ids, DeleteBinding(id), UNCHANGED <<failed, sets>>
      PROVE  Nodes(queue') \cup freed' = Nodes(queue) \cup freed
             /\ freed \subseteq freed' /\ sets' = sets
  BY <1>3, DeleteBindingKeeps DEF DeleteBinding
<1>4. CASE EvictFirst
  <2>1. Head(queue) \in Node
    BY <1>4, HeadTailProperties DEF EvictFirst, IInv, TypeOK
  <2>2. Head(queue).id \in Ids
    BY <2>1 DEF Node
  <2> QED
    BY <1>0, <1>3, <1>4, <2>2 DEF EvictFirst
<1>5. CASE EvictFromEmpty \/ UNCHANGED vars
  BY <1>0, <1>5 DEF EvictFromEmpty, vars
<1>6. CASE Destroy
  BY <1>0, <1>6 DEF Destroy, Nodes
<1>8. ASSUME NEW id \in Ids, Delete(id)
      PROVE  DeleteBinding(id) /\ UNCHANGED <<failed, sets>>
  BY <1>8 DEF Delete
<1> QED
  BY <1>0, <1>1, <1>2, <1>3, <1>4, <1>5, <1>6, <1>8 DEF Next

-----------------------------------------------------------------------------
(* What is old and what is new.                                            *)

LEMMA NewestStep ==
    ASSUME IInv, NewestOfAll, [Next]_vars
    PROVE  NewestOfAll'
<1> DEFINE Known == Nodes(queue) \cup freed
<1>1. SUFFICES ASSUME NEW id \in Ids, map'[id] # NoNode, NEW n \in Known', n.id = id
               PROVE  n.nr <= map'[id].nr
  BY DEF NewestOfAll, Mapped
<1>2. map \in [Ids -> Node \cup {NoNode}] /\ sets \in Int
  BY BoundsAssumption DEF IInv, TypeOK
<1>3. /\ \A k \in Known : k.nr <= sets
      /\ map[id] # NoNode => \A k \in Known : k.id = id => k.nr <= map[id].nr
  BY DEF IInv, Numbered, NewestOfAll, Mapped
<1>4. ASSUME NEW x \in Ids, Set(x)
      PROVE  n.nr <= map'[id].nr
  <2>1. PICK node : node = [id |-> x, nr |-> sets + 1]
    OBVIOUS
  <2>2. /\ Nodes(queue') = Nodes(queue) \cup {node} /\ freed' = freed
        /\ map' = [map EXCEPT ![x] = node] /\ node.id = x /\ node.nr = sets + 1
    BY <1>4, <2>1, SetLinks DEF Set
  <2>3. n \in Known \cup {node}
    BY <2>2
  <2>4. CASE x = id
    <3>1. map'[id].nr = sets + 1
      BY <1>2, <2>2, <2>4
    <3>2. n \in Known => n.nr <= sets /\ n.nr \in Int
      BY <1>3, KnownAreNodes DEF Node
    <3> QED
      BY <1>2, <2>2, <2>3, <3>1, <3>2
  <2>5. CASE x # id
    BY <1>1, <1>2, <1>3, <2>2, <2>3, <2>5
  <2> QED
    BY <2>4, <2>5
<1>5. ASSUME map'[id] = map[id], Known' = Known
      PROVE  n.nr <= map'[id].nr
  BY <1>1, <1>3, <1>5
<1>6. ASSUME NEW x \in Ids, SetFails(x) \/ Get(x)
      PROVE  n.nr <= map'[id].nr
  BY <1>5, <1>6, RefreshedKeeps DEF SetFails, Get
<1>7. ASSUME NEW x \in Ids, DeleteBinding(x), failed' = failed
      PROVE  n.nr <= map'[id].nr
  <2>1. Known' = Known
    BY <1>7, DeleteBindingKeeps
  <2>2. map'[id] = map[id]
    BY <1>1, <1>2, <1>7 DEF DeleteBinding
  <2> QED
    BY <1>5, <2>1, <2>2
<1>8. CASE EvictFirst
  <2>1. Head(queue) \in Node
    BY <1>8, HeadTailProperties DEF EvictFirst, IInv, TypeOK
  <2>2. Head(queue).id \in Ids
    BY <2>1 DEF Node
  <2> QED
    BY <1>7, <1>8, <2>2 DEF EvictFirst
<1>9. CASE EvictFromEmpty \/ UNCHANGED vars
  BY <1>5, <1>9 DEF EvictFromEmpty, vars
<1>10. CASE Destroy
  BY <1>1, <1>10 DEF Destroy
<1>11. ASSUME NEW x \in Ids, Delete(x)
       PROVE  DeleteBinding(x) /\ failed' = failed
  BY <1>11 DEF Delete
<1> QED
  BY <1>4, <1>6, <1>7, <1>8, <1>9, <1>10, <1>11 DEF Next

OldIInv == ServedKnown /\ GotNewest /\ OldIsPrevious

(* An action that leaves the event alone, or does not choose an old object.*)
LEMMA OtherEventStep ==
    ASSUME IInv, EventsTypeOK, OldIInv, [Next]_vars, served' = served,
           event' = event \/ event' = NoEvent
    PROVE  OldIInv'
<1>1. /\ Nodes(queue) \cup freed \subseteq Nodes(queue') \cup freed'
      /\ sets \in Int /\ sets' \in {sets, sets + 1}
  BY NodesKept
<1>2. ServedKnown'
  BY <1>1 DEF ServedKnown, OldIInv
<1>3. CASE event' = event
  <2>1. event.got # NoNode => event.got.nr \in Int
    BY BoundsAssumption DEF EventsTypeOK, Node
  <2> QED
    BY <1>1, <1>2, <1>3, <2>1 DEF OldIInv, GotNewest, OldIsPrevious
<1>4. CASE event' = NoEvent
  BY <1>2, <1>4 DEF OldIInv, GotNewest, OldIsPrevious, NoEvent
<1> QED
  BY <1>3, <1>4

(* The node that Store adds, unless hashmap_put fails.                     *)
LEMMA StoreKnown ==
    ASSUME IInv, NEW id \in Ids, Store(id), ServedKnown,
           served' = served \cup
               (IF failed' = failed THEN {[id |-> id, nr |-> sets']} ELSE {})
    PROVE  /\ ServedKnown'
           /\ sets' = sets + 1 /\ sets \in Int
           /\ \A n \in served' : n \in served \/ n.nr = sets'
<1>1. /\ Nodes(queue) \cup freed \subseteq Nodes(queue') \cup freed'
      /\ sets \in Int
  BY StoreSteps, NodesKept
<1>2. sets' = sets + 1
  BY StoreSteps
<1>3. CASE failed' = failed
  <2>1. Set(id)
    BY <1>3, BoundsAssumption DEF Store, SetFails, IInv, TypeOK
  <2>2. [id |-> id, nr |-> sets'] \in Nodes(queue')
    BY <1>2, <2>1, SetLinks
  <2> QED
    BY <1>1, <1>2, <1>3, <2>2 DEF ServedKnown
<1>4. CASE failed' # failed
  BY <1>1, <1>2, <1>4 DEF ServedKnown
<1> QED
  BY <1>3, <1>4

LEMMA OldStep ==
    ASSUME IInv, EventsTypeOK, NewestOfAll, OldIInv, [EventsNext]_allVars
    PROVE  OldIInv'
<1>1. ASSUME NEW id \in Ids, NEW parts \in Parts, ReceiveCreate(id, parts)
      PROVE  OldIInv'
  <2>1. /\ Store(id)
        /\ served' = served \cup
               (IF failed' = failed THEN {[id |-> id, nr |-> sets']} ELSE {})
        /\ event'.phase = "deliver" /\ event'.new = NoNode
    BY <1>1 DEF ReceiveCreate, NoEvent
  <2>2. ServedKnown'
    BY <2>1, StoreKnown DEF OldIInv
  <2> QED
    BY <2>1, <2>2 DEF OldIInv, GotNewest, OldIsPrevious
<1>2. ASSUME NEW id \in Ids, ReceiveUpdate(id) \/ ReceiveDelete(id)
      PROVE  OldIInv'
  <2>1. /\ Get(id) /\ served' = served /\ sets' = sets
        /\ event' = [NoEvent EXCEPT !.phase = event'.phase, !.id = id, !.got = map[id]]
        /\ event'.phase \in {"update", "delete"}
    BY <1>2 DEF ReceiveUpdate, ReceiveDelete, NoEvent, Get
  <2>2. /\ event'.id = id /\ event'.got = map[id] /\ event'.new = NoNode
    BY <2>1 DEF NoEvent
  <2>3. ServedKnown'
    BY <2>1, NodesKept DEF OldIInv, ServedKnown, Next
  <2>4. ASSUME map[id] # NoNode
        PROVE  /\ map[id].id = id /\ map[id].nr <= sets
               /\ \A n \in served : n.id = id => n.nr <= map[id].nr
    <3>1. map[id].id = id /\ map[id] \in Nodes(queue)
      BY <2>4 DEF IInv, MapIsNewestInQueue, Mapped
    <3>2. map[id].nr <= sets
      BY <3>1 DEF IInv, Numbered
    <3> QED
      BY <2>4, <3>1, <3>2 DEF NewestOfAll, Mapped, OldIInv, ServedKnown
  <2>5. GotNewest'
    BY <2>1, <2>2, <2>4 DEF GotNewest
  <2>6. OldIsPrevious'
    BY <2>2 DEF OldIsPrevious
  <2> QED
    BY <2>3, <2>5, <2>6 DEF OldIInv
<1>3. ASSUME NEW parts \in Parts, FinishUpdate(parts)
      PROVE  OldIInv'
  <2>1. /\ Store(event.id) /\ event.id \in Ids /\ event.phase = "update"
        /\ served' = served \cup
               (IF failed' = failed THEN {[id |-> event.id, nr |-> sets']} ELSE {})
    BY <1>3 DEF FinishUpdate, EventsTypeOK, Stored
  <2>2. /\ event'.phase = "deliver" /\ event'.got = event.got /\ event'.id = event.id
        /\ event'.new.nr = sets'
        /\ event.got = NoNode => event'.old = 0
    BY <1>3 DEF FinishUpdate, EventsTypeOK
  <2>3. /\ ServedKnown' /\ sets' = sets + 1 /\ sets \in Int
        /\ \A n \in served' : n \in served \/ n.nr = sets'
    BY <2>1, StoreKnown DEF OldIInv
  <2>4. ASSUME event.got # NoNode
        PROVE  /\ event.got.id = event.id /\ event.got.nr < sets'
               /\ \A n \in served' :
                    n.id = event.id /\ n.nr < sets' => n.nr <= event.got.nr
    <3>1. /\ event.got.id = event.id /\ event.got.nr <= sets
          /\ \A n \in served : n.id = event.id => n.nr <= event.got.nr
      BY <2>1, <2>4 DEF OldIInv, GotNewest
    <3>2. event.got.nr \in Int
      BY <2>4, BoundsAssumption DEF EventsTypeOK, Node
    <3>3. event.got.nr < sets'
      BY <2>3, <3>1, <3>2
    <3>4. ASSUME NEW n \in served', n.id = event.id, n.nr < sets'
          PROVE  n.nr <= event.got.nr
      BY <2>3, <3>1, <3>4
    <3> QED
      BY <3>1, <3>3, <3>4
  <2>5. GotNewest'
    BY <2>2 DEF GotNewest
  <2>6. OldIsPrevious'
    BY <2>2, <2>4 DEF OldIsPrevious
  <2> QED
    BY <2>3, <2>5, <2>6 DEF OldIInv
<1>4. CASE FinishDelete
  <2>1. /\ UNCHANGED vars /\ served' = served
        /\ event.phase = "delete" /\ event'.phase = "deliver"
        /\ event'.new = event.new
        /\ event.got = NoNode => event'.old = 0
    BY <1>4 DEF FinishDelete, EventsTypeOK
  <2>2. ServedKnown'
    BY <2>1 DEF vars, OldIInv, ServedKnown
  <2>3. GotNewest'
    BY <2>1 DEF GotNewest
  <2>4. OldIsPrevious'
    BY <2>1 DEF OldIInv, GotNewest, OldIsPrevious
  <2> QED
    BY <2>2, <2>3, <2>4 DEF OldIInv
<1>5. ASSUME served' = served, event' = event \/ event' = NoEvent
      PROVE  OldIInv'
  BY <1>5, CacheSteps, OtherEventStep
<1>6. ASSUME NEW id \in Ids, NEW parts \in Parts, ListMessage(id, parts)
      PROVE  OldIInv'
  BY <1>5, <1>6 DEF ListMessage
<1>7. CASE CopyGone \/ Deliver \/ ReceiveList \/ CallList \/ ListDone \/ Evict
  BY <1>5, <1>7 DEF CopyGone, Deliver, ReceiveList, CallList, ListDone, Evict, eventVars
<1>8. ASSUME NEW parts \in InteractionParts, ReceiveInteraction(parts)
      PROVE  OldIInv'
  BY <1>5, <1>8 DEF ReceiveInteraction
<1>9. ASSUME NEW c \in Objects, UserDestroys(c)
      PROVE  OldIInv'
  BY <1>5, <1>9 DEF UserDestroys
<1>10. CASE UNCHANGED allVars
  BY <1>5, <1>10 DEF allVars
<1> QED
  BY <1>1, <1>2, <1>3, <1>4, <1>6, <1>7, <1>8, <1>9, <1>10 DEF EventsNext

(* TAILQ_REMOVE of the first node.                                         *)
LEMMA WithoutFirst ==
    ASSUME NEW S, NEW q \in Seq(S), q # <<>>, IsInjective(q)
    PROVE  Without(q, Head(q)) = Tail(q)
<1> DEFINE k == CHOOSE i \in 1..Len(q) : q[i] = Head(q)
<1>1. Len(q) \in Nat \ {0} /\ Head(q) = q[1] /\ DOMAIN q = 1..Len(q)
  BY LenProperties, EmptySeq
<1>2. k \in 1..Len(q) /\ q[k] = q[1] /\ 1 \in 1..Len(q)
  BY <1>1
<1>3. k = 1
  BY <1>1, <1>2 DEF IsInjective
<1> HIDE DEF k
<1>4. Without(q, Head(q)) = SubSeq(q, 1, 0) \o SubSeq(q, 2, Len(q))
  <2>1. Without(q, Head(q)) = SubSeq(q, 1, k - 1) \o SubSeq(q, k + 1, Len(q))
    BY DEF Without, RemoveAt, k
  <2> QED
    BY <1>3, <2>1
<1>5. SubSeq(q, 1, 0) = <<>>
  BY SubSeqEmpty
<1>6. SubSeq(q, 2, Len(q)) = Tail(q)
  BY <1>1, TailIsSubSeq
<1>7. <<>> \o Tail(q) = Tail(q)
  BY ConcatEmptySeq
<1> QED
  BY <1>4, <1>5, <1>6, <1>7

-----------------------------------------------------------------------------
(* The list of messages.                                                   *)

(* One more node at the end of the queue and of the list.                  *)
LEMMA LastOfAppended ==
    ASSUME NEW S, NEW q \in Seq(S), NEW n \in S, NEW c \in Nat, c <= Len(q)
    PROVE  LastOf(Append(q, n), c + 1) = LastOf(q, c) \cup {n}
<1> DEFINE r == Append(q, n)
<1>1. /\ Len(q) \in Nat /\ Len(r) = Len(q) + 1 /\ r[Len(q) + 1] = n
      /\ \A i \in 1..Len(q) : r[i] = q[i]
  BY LenProperties, AppendProperties
<1> HIDE DEF r
<1>2. Len(r) - (c + 1) + 1 = Len(q) - c + 1
  BY <1>1
<1>3. \A i \in (Len(q) - c + 1)..Len(r) : i \in (Len(q) - c + 1)..Len(q) \/ i = Len(q) + 1
  BY <1>1
<1>4. \A i \in (Len(q) - c + 1)..Len(q) : i \in 1..Len(q) /\ i \in (Len(q) - c + 1)..Len(r)
  BY <1>1
<1>5. Len(q) + 1 \in (Len(q) - c + 1)..Len(r)
  BY <1>1
<1>6. LastOf(r, c + 1) = {r[i] : i \in (Len(q) - c + 1)..Len(r)}
  BY <1>2 DEF LastOf
<1>7. {r[i] : i \in (Len(q) - c + 1)..Len(r)} \subseteq LastOf(q, c) \cup {n}
  BY <1>1, <1>3, <1>4 DEF LastOf
<1>8. LastOf(q, c) \cup {n} \subseteq {r[i] : i \in (Len(q) - c + 1)..Len(r)}
  BY <1>1, <1>4, <1>5 DEF LastOf
<1> QED
  BY <1>6, <1>7, <1>8 DEF r

(* The first node of a longer queue is not among its last.                 *)
LEMMA LastOfTail ==
    ASSUME NEW S, NEW q \in Seq(S), NEW c \in Nat, c < Len(q)
    PROVE  LastOf(Tail(q), c) = LastOf(q, c) /\ c <= Len(Tail(q))
<1>1. Len(q) \in Nat /\ q # <<>>
  BY LenProperties, EmptySeq
<1>2. Len(Tail(q)) = Len(q) - 1 /\ \A i \in 1..(Len(q) - 1) : Tail(q)[i] = q[i + 1]
  BY <1>1, HeadTailProperties
<1>3. ASSUME NEW i \in (Len(q) - 1 - c + 1)..(Len(q) - 1)
      PROVE  Tail(q)[i] = q[i + 1] /\ i + 1 \in (Len(q) - c + 1)..Len(q)
  BY <1>1, <1>2
<1>4. ASSUME NEW j \in (Len(q) - c + 1)..Len(q)
      PROVE  /\ j - 1 \in (Len(q) - 1 - c + 1)..(Len(q) - 1)
             /\ q[j] = Tail(q)[j - 1]
  <2>1. j - 1 \in 1..(Len(q) - 1) /\ (j - 1) + 1 = j
    BY <1>1
  <2> QED
    BY <1>1, <1>2, <2>1
<1>5. LastOf(Tail(q), c) = {Tail(q)[i] : i \in (Len(q) - 1 - c + 1)..(Len(q) - 1)}
  BY <1>2 DEF LastOf
<1>6. LastOf(Tail(q), c) = LastOf(q, c)
  <2> DEFINE t == Tail(q)
             low == Len(q) - 1 - c + 1
  <2>1. /\ LastOf(t, c) = {t[i] : i \in low..(Len(q) - 1)}
        /\ \A i \in low..(Len(q) - 1) : t[i] \in LastOf(q, c)
    BY <1>3, <1>5 DEF LastOf
  <2>2. \A j \in (Len(q) - c + 1)..Len(q) : q[j] \in {t[i] : i \in low..(Len(q) - 1)}
    BY <1>4
  <2> HIDE DEF t, low
  <2>3. LastOf(t, c) \subseteq LastOf(q, c)
    BY <2>1
  <2>4. LastOf(q, c) \subseteq LastOf(t, c)
    BY <2>1, <2>2 DEF LastOf
  <2> QED
    BY <2>3, <2>4 DEF t
<1> QED
  BY <1>1, <1>2, <1>6

LEMMA LastOfWithin ==
    ASSUME NEW S, NEW q \in Seq(S), NEW c \in Nat, c <= Len(q)
    PROVE  LastOf(q, c) \subseteq Nodes(q)
BY LenProperties DEF LastOf, Nodes

(* When no id is set twice, a node is only put at the end of the queue.    *)
LEMMA SetAppends ==
    ASSUME IInv, NEW id \in Ids, Set(id), NoStale'
    PROVE  /\ queue' = Append(queue, [id |-> id, nr |-> sets + 1])
           /\ [id |-> id, nr |-> sets + 1] \in Node
           /\ [id |-> id, nr |-> sets + 1] \notin Nodes(queue)
           /\ NoStale
<1>1. PICK node : node = [id |-> id, nr |-> sets + 1]
  OBVIOUS
<1>2. /\ node \in Node /\ node \notin Nodes(queue)
      /\ Nodes(queue') = Nodes(queue) \cup {node}
  BY <1>1, SetLinks
<1>3. map' = [map EXCEPT ![id] = node] /\ queue' = Append(Refreshed(id), node)
  BY <1>1 DEF Set
<1>4. map \in [Ids -> Node \cup {NoNode}]
  BY DEF IInv, TypeOK
<1>5. \A n \in Nodes(queue) : map'[n.id] = n /\ n.id \in Ids
  BY <1>2, KnownAreNodes DEF NoStale, Node
<1>6. \A n \in Nodes(queue) : n.id # id
  BY <1>2, <1>3, <1>4, <1>5
<1>7. map[id] = NoNode
  BY <1>6 DEF IInv, MapIsNewestInQueue, Mapped
<1>8. NoStale
  BY <1>3, <1>4, <1>5, <1>6 DEF NoStale
<1> QED
  BY <1>1, <1>2, <1>3, <1>7, <1>8 DEF Refreshed

LEMMA ListTyped ==
    ASSUME EventsTypeOK
    PROVE  /\ IsFiniteSet(list.nodes) /\ Cardinality(list.nodes) \in Nat
           /\ list.nodes \subseteq Node
BY FS_CardinalityType DEF EventsTypeOK

LEMMA ListMessageAtTail ==
    ASSUME IInv, EventsTypeOK, ListAtTail,
           NEW id \in Ids, NEW parts \in Parts, ListMessage(id, parts)
    PROVE  ListAtTail'
<1> DEFINE node == [id |-> id, nr |-> sets + 1]
           c == Cardinality(list.nodes)
<1>1. SUFFICES ASSUME list'.alone, failed' = 0, NoStale', Cardinality(list'.nodes) <= MaxSize
               PROVE  /\ Cardinality(list'.nodes) <= Len(queue')
                      /\ list'.nodes = LastOf(queue', Cardinality(list'.nodes))
  BY DEF ListAtTail
<1>2. /\ list'.alone = list.alone /\ list'.nodes = list.nodes \cup {node}
      /\ Store(id)
  BY DEF ListMessage, EventsTypeOK
<1>3. failed = 0 /\ Set(id)
  BY <1>1, <1>2, BoundsAssumption DEF Store, Set, SetFails, IInv, TypeOK
<1>4. /\ queue' = Append(queue, node) /\ NoStale
      /\ node \in Node /\ node \notin Nodes(queue)
  BY <1>1, <1>3, SetAppends
<1>5. queue \in Seq(Node) /\ IsFiniteSet(list.nodes) /\ c \in Nat /\ Len(queue) \in Nat
  BY ListTyped, LenProperties DEF IInv, TypeOK
<1> HIDE DEF node
<1>6. Cardinality(list'.nodes) = c + 1 /\ c <= Len(queue) /\ list.nodes = LastOf(queue, c)
  <2>1. node \in list.nodes => Cardinality(list'.nodes) = c
    BY <1>2, <1>5, FS_AddElement
  <2>2. node \notin list.nodes => Cardinality(list'.nodes) = c + 1
    BY <1>2, <1>5, FS_AddElement
  <2>3. c <= MaxSize
    BY <1>1, <1>5, <2>1, <2>2, MaxSizeAssumption
  <2>4. c <= Len(queue) /\ list.nodes = LastOf(queue, c)
    BY <1>1, <1>2, <1>3, <1>4, <2>3 DEF ListAtTail
  <2>5. node \notin list.nodes
    BY <1>4, <1>5, <2>4, LastOfWithin
  <2> QED
    BY <2>2, <2>4, <2>5
<1>7. Len(queue') = Len(queue) + 1
  BY <1>4, <1>5, AppendProperties
<1>8. LastOf(queue', c + 1) = LastOf(queue, c) \cup {node}
  BY <1>4, <1>5, <1>6, LastOfAppended
<1>9. list'.nodes = LastOf(queue', c + 1) /\ c + 1 <= Len(queue')
  BY <1>2, <1>5, <1>6, <1>7, <1>8
<1> HIDE DEF c
<1> QED
  BY <1>6, <1>9

LEMMA EvictAtTail ==
    ASSUME IInv, EventsTypeOK, ListAtTail, EvictFirst, list' = list
    PROVE  ListAtTail'
<1> DEFINE c == Cardinality(list.nodes)
<1>1. SUFFICES ASSUME list.alone, failed' = 0, NoStale', c <= MaxSize
               PROVE  c <= Len(queue') /\ list.nodes = LastOf(queue', c)
  BY DEF ListAtTail
<1>2. /\ toRemove > 0 /\ failed = 0 /\ queue # <<>> /\ DeleteBinding(Head(queue).id)
  BY <1>1 DEF EvictFirst
<1>3. /\ queue \in Seq(Node) /\ IsInjective(queue) /\ Len(queue) \in Nat /\ c \in Nat
      /\ toRemove \in Nat /\ NoNode \notin Node
  BY ListTyped, LenProperties, NoNodeAssumption DEF IInv, TypeOK, LinkedOnce, Node
<1>4. Head(queue) \in Nodes(queue) /\ Head(queue) \in Node
  BY <1>2, <1>3, LenProperties, EmptySeq, ElementOfSeq DEF Nodes
<1>5. Head(queue).id \in Ids
  BY <1>4 DEF Node
<1>6. NoStale
  BY <1>1, <1>2, <1>5, DeleteShowsStale
<1>7. map[Head(queue).id] = Head(queue)
  BY <1>4, <1>6 DEF NoStale
<1>8. queue' = Tail(queue)
  BY <1>2, <1>3, <1>4, <1>7, WithoutFirst DEF DeleteBinding
<1>9. c <= Len(queue) /\ list.nodes = LastOf(queue, c)
  BY <1>1, <1>2, <1>6 DEF ListAtTail
<1>10. c < Len(queue)
  BY <1>1, <1>2, <1>3, MaxSizeAssumption DEF IInv, RoundsLeft, SizeCounts, TypeOK
<1> QED
  BY <1>3, <1>8, <1>9, <1>10, LastOfTail

LEMMA ListStep ==
    ASSUME IInv, EventsTypeOK, ListAtTail, [EventsNext]_allVars
    PROVE  ListAtTail'
<1>1. ASSUME NEW id \in Ids, NEW parts \in Parts, ListMessage(id, parts)
      PROVE  ListAtTail'
  BY <1>1, ListMessageAtTail
<1>2. CASE Evict
  BY <1>2, EvictAtTail DEF Evict
<1>3. ASSUME ~list'.alone
      PROVE  ListAtTail'
  BY <1>3 DEF ListAtTail
<1>4. ASSUME UNCHANGED vars, list'.nodes = list.nodes, list'.alone = list.alone
      PROVE  ListAtTail'
  BY <1>4 DEF ListAtTail, NoStale, vars
<1>5. CASE ReceiveList
  <2>1. UNCHANGED vars /\ list'.nodes = {} /\ queue \in Seq(Node)
    BY <1>5 DEF ReceiveList, IInv, TypeOK
  <2>2. Len(queue') \in Nat
    BY <2>1, LenProperties DEF vars
  <2>3. Cardinality(list'.nodes) = 0
    BY <2>1, FS_EmptySet
  <2>4. LastOf(queue', 0) = {}
    BY <2>2 DEF LastOf
  <2> QED
    BY <2>1, <2>2, <2>3, <2>4 DEF ListAtTail
<1>6. CASE CallList
  BY <1>4, <1>6 DEF CallList, EventsTypeOK
<1>7. CASE ListDone
  BY <1>3, <1>7 DEF ListDone, NoList
<1>8. CASE CopyGone \/ FinishDelete \/ Deliver
  BY <1>4, <1>8 DEF CopyGone, FinishDelete, Deliver
<1>9. ASSUME NEW parts \in InteractionParts, ReceiveInteraction(parts)
      PROVE  ListAtTail'
  BY <1>4, <1>9 DEF ReceiveInteraction
<1>10. ASSUME NEW c \in Objects, UserDestroys(c)
       PROVE  ListAtTail'
  BY <1>4, <1>10 DEF UserDestroys
<1>11. CASE UNCHANGED allVars
  BY <1>4, <1>11 DEF allVars
<1>12. ASSUME NEW id \in Ids, NEW parts \in Parts, ReceiveCreate(id, parts)
       PROVE  ListAtTail'
  BY <1>3, <1>12 DEF ReceiveCreate, Disturbed, EventsTypeOK
<1>13. ASSUME NEW id \in Ids, ReceiveUpdate(id) \/ ReceiveDelete(id)
       PROVE  ListAtTail'
  BY <1>3, <1>13 DEF ReceiveUpdate, ReceiveDelete, Disturbed, EventsTypeOK
<1>14. ASSUME NEW parts \in Parts, FinishUpdate(parts)
       PROVE  ListAtTail'
  BY <1>3, <1>14 DEF FinishUpdate, Disturbed, EventsTypeOK
<1> QED
  BY <1>1, <1>2, <1>5, <1>6, <1>7, <1>8, <1>9, <1>10, <1>11, <1>12, <1>13, <1>14
  DEF EventsNext

(* A list at the end of the queue has not been freed.                      *)
LEMMA ListIsIntact ==
    ASSUME IInv, EventsTypeOK, ListAtTail
    PROVE  ListIntact
<1>1. queue \in Seq(Node) /\ Cardinality(list.nodes) \in Nat
  BY ListTyped DEF IInv, TypeOK
<1> QED
  BY <1>1, LastOfWithin DEF ListAtTail, ListIntact, IInv, LinkedOnce

(* The path but for its last field, and the last field.                    *)
LEMMA FrontAndLast ==
    ASSUME NEW S, NEW p \in Seq(S), p # <<>>
    PROVE  /\ Front(p) \in Seq(S) /\ Last(p) \in S
           /\ Len(p) \in Nat \ {0} /\ Len(Front(p)) = Len(p) - 1
           /\ Last(p) = p[Len(p)]
           /\ \A i \in 1..(Len(p) - 1) : Front(p)[i] = p[i]
           /\ p = Append(Front(p), Last(p))
<1>1. Len(p) \in Nat \ {0} /\ \A i \in 1..Len(p) : p[i] \in S
  BY LenProperties, EmptySeq, ElementOfSeq
<1>2. Front(p) = SubSeq(p, 1, Len(p) - 1) /\ Last(p) = p[Len(p)]
  BY DEF Front, Last
<1>3. /\ 1 \in Int /\ Len(p) - 1 \in Int /\ \A i \in 1..(Len(p) - 1) : p[i] \in S
  BY <1>1
<1>4. /\ Front(p) \in Seq(S)
      /\ Len(Front(p)) = IF 1 <= Len(p) - 1 THEN (Len(p) - 1) - 1 + 1 ELSE 0
      /\ \A i \in 1..((Len(p) - 1) - 1 + 1) : Front(p)[i] = p[1 + i - 1]
  BY <1>2, <1>3, SubSeqProperties
<1>5. Len(Front(p)) = Len(p) - 1 /\ \A i \in 1..(Len(p) - 1) : Front(p)[i] = p[i]
  <2> DEFINE f == Front(p)
             n == Len(p)
  <2>1. /\ n \in Nat \ {0}
        /\ Len(f) = IF 1 <= n - 1 THEN (n - 1) - 1 + 1 ELSE 0
        /\ \A i \in 1..((n - 1) - 1 + 1) : f[i] = p[1 + i - 1]
    BY <1>1, <1>4
  <2> HIDE DEF f, n
  <2>2. Len(f) = n - 1
    BY <2>1
  <2>3. ASSUME NEW i \in 1..(n - 1)
        PROVE  f[i] = p[i]
    <3>1. i \in 1..((n - 1) - 1 + 1) /\ 1 + i - 1 = i
      BY <2>1
    <3> QED
      BY <2>1, <3>1
  <2> QED
    BY <2>2, <2>3 DEF f, n
<1>6. p = Append(Front(p), Last(p))
  <2> DEFINE q == Append(Front(p), Last(p))
  <2>1. /\ q \in Seq(S) /\ Len(q) = Len(Front(p)) + 1
        /\ \A i \in 1..Len(Front(p)) : q[i] = Front(p)[i]
        /\ q[Len(Front(p)) + 1] = Last(p)
    BY <1>1, <1>2, <1>4, AppendProperties
  <2> HIDE DEF q
  <2>2. Len(q) = Len(p) /\ \A i \in 1..Len(p) : q[i] = p[i]
    BY <1>1, <1>2, <1>5, <2>1
  <2>3. q = p
    BY <2>1, <2>2, SeqEqual
  <2> QED
    BY <2>3 DEF q
<1> QED
  BY <1>1, <1>2, <1>4, <1>5, <1>6

LEMMA FrontOfAppend ==
    ASSUME NEW S, NEW p \in Seq(S), NEW x \in S
    PROVE  /\ Append(p, x) \in Seq(S) /\ Append(p, x) # <<>>
           /\ Len(Append(p, x)) = Len(p) + 1 /\ Len(p) \in Nat
           /\ Front(Append(p, x)) = p /\ Last(Append(p, x)) = x
           /\ \A i \in 1..Len(p) : Append(p, x)[i] = p[i]
           /\ Append(p, x)[Len(p) + 1] = x
<1> DEFINE r == Append(p, x)
<1>1. /\ r \in Seq(S) /\ Len(r) = Len(p) + 1 /\ Len(p) \in Nat
      /\ \A i \in 1..Len(p) : r[i] = p[i]
      /\ r[Len(p) + 1] = x
  BY AppendProperties, LenProperties
<1> HIDE DEF r
<1>2. r # <<>>
  BY <1>1, EmptySeq
<1>3. /\ Front(r) \in Seq(S) /\ Len(Front(r)) = Len(r) - 1 /\ Last(r) = r[Len(r)]
      /\ \A i \in 1..(Len(r) - 1) : Front(r)[i] = r[i]
  BY <1>1, <1>2, FrontAndLast
<1>4. Len(Front(r)) = Len(p) /\ \A i \in 1..Len(p) : Front(r)[i] = p[i]
  BY <1>1, <1>3
<1>5. Front(r) = p
  BY <1>3, <1>4, SeqEqual
<1> QED
  BY <1>1, <1>2, <1>3, <1>5 DEF r

-----------------------------------------------------------------------------
(* Paths.                                                                  *)

(* The kind of structure that a path leads to.                             *)
EndKind(kind, p) == IF p = <<>> THEN kind ELSE KindOf(Last(p))

LEMMA AlongEmpty ==
    ASSUME NEW kind
    PROVE  Along(CopiedOf, kind, <<>>) /\ Along(DestroyedOf, kind, <<>>)
BY DEF Along

(* One more field, in each of the tables.                                  *)
LEMMA AlongAppend ==
    ASSUME NEW kind, NEW p \in Seq(Fields), NEW x \in Fields
    PROVE  /\ Along(CopiedOf, kind, Append(p, x))
                <=> Along(CopiedOf, kind, p) /\ x \in CopiedOf(EndKind(kind, p))
           /\ Along(DestroyedOf, kind, Append(p, x))
                <=> Along(DestroyedOf, kind, p) /\ x \in DestroyedOf(EndKind(kind, p))
           /\ Along(MadeOf, kind, Append(p, x))
                <=> Along(MadeOf, kind, p) /\ x \in MadeOf(EndKind(kind, p))
<1> DEFINE r == Append(p, x)
           n == Len(p)
           field(i) == IF i = 1 THEN kind ELSE KindOf(r[i - 1])
<1>1. /\ r \in Seq(Fields) /\ Len(r) = n + 1 /\ n \in Nat
      /\ \A i \in 1..n : r[i] = p[i]
      /\ r[n + 1] = x
  BY FrontOfAppend
<1>2. DOMAIN r = 1..(n + 1) /\ DOMAIN p = 1..n
  BY <1>1, LenProperties
<1>3. EndKind(kind, p) = field(n + 1)
  <2>1. CASE p = <<>>
    <3>1. n = 0
      BY <2>1
    <3> QED
      BY <2>1, <3>1 DEF EndKind
  <2>2. CASE p # <<>>
    <3>1. n # 0 /\ Last(p) = p[n]
      BY <2>2, FrontAndLast
    <3>2. n \in 1..n /\ (n + 1) - 1 = n /\ n + 1 # 1
      BY <1>1, <3>1
    <3> QED
      BY <1>1, <2>2, <3>1, <3>2 DEF EndKind
  <2> QED
    BY <2>1, <2>2
<1>4. ASSUME NEW i \in 1..n
      PROVE  r[i] = p[i] /\ field(i) = (IF i = 1 THEN kind ELSE KindOf(p[i - 1]))
  <2>1. i # 1 => i - 1 \in 1..n
    BY <1>1
  <2> QED
    BY <1>1, <2>1
<1>5. \A i \in 1..(n + 1) : i \in 1..n \/ i = n + 1
  BY <1>1
<1>6. 1..n \subseteq 1..(n + 1) /\ n + 1 \in 1..(n + 1)
  BY <1>1
<1>7. /\ Along(CopiedOf, kind, r) <=> \A i \in 1..(n + 1) : r[i] \in CopiedOf(field(i))
      /\ Along(CopiedOf, kind, p) <=> \A i \in 1..n : r[i] \in CopiedOf(field(i))
  BY <1>2, <1>4 DEF Along
<1>8. /\ Along(DestroyedOf, kind, r) <=> \A i \in 1..(n + 1) : r[i] \in DestroyedOf(field(i))
      /\ Along(DestroyedOf, kind, p) <=> \A i \in 1..n : r[i] \in DestroyedOf(field(i))
  BY <1>2, <1>4 DEF Along
<1>9. /\ Along(MadeOf, kind, r) <=> \A i \in 1..(n + 1) : r[i] \in MadeOf(field(i))
      /\ Along(MadeOf, kind, p) <=> \A i \in 1..n : r[i] \in MadeOf(field(i))
  BY <1>2, <1>4 DEF Along
<1> HIDE DEF field, n
<1>10. r[n + 1] = x
  BY <1>1
<1> HIDE DEF r
<1>11. /\ Along(CopiedOf, kind, r)
            <=> Along(CopiedOf, kind, p) /\ x \in CopiedOf(EndKind(kind, p))
  BY <1>3, <1>5, <1>6, <1>7, <1>10
<1>12. /\ Along(DestroyedOf, kind, r)
            <=> Along(DestroyedOf, kind, p) /\ x \in DestroyedOf(EndKind(kind, p))
  BY <1>3, <1>5, <1>6, <1>8, <1>10
<1>13. /\ Along(MadeOf, kind, r)
            <=> Along(MadeOf, kind, p) /\ x \in MadeOf(EndKind(kind, p))
  BY <1>3, <1>5, <1>6, <1>9, <1>10
<1> QED
  BY <1>11, <1>12, <1>13 DEF r

(* What the tables say of each other, and of users and members.            *)
LEMMA TablesAgree ==
    /\ \A kind : MadeOf(kind) \subseteq CopiedOf(kind)
    /\ \A kind : CopiedOf(kind) \subseteq
            DestroyedOf(kind) \cup {"referenced_message", "body"}
    /\ \A kind : "member" \in CopiedOf(kind) => kind \in {"message", "interaction"}
    /\ CopiedOf("user") = {} /\ CopiedOf("member") = {"user"}
    /\ "body" \in CopiedOf("component")
    /\ \A kind \in {"message", "interaction"} : "member" \in DestroyedOf(kind)
    /\ DestroyedOf("member") = {"user"}
    /\ KindOf("user") = "user" /\ KindOf("member") = "member"
    /\ KindOf("component") = "component"
<1> USE DEF MadeOf, CopiedOf, DestroyedOf, KindOf, json_to_message,
        json_to_interaction, json_to_interaction_data,
        json_to_interaction_data_option, copy_message, copy_interaction,
        copy_interaction_data, copy_interaction_data_option, copy_component,
        destroy_message, destroy_interaction, destroy_interaction_data,
        destroy_interaction_data_option, destroy_component, destroy_member,
        MessageFields, InteractionFields, DataFields, OptionFields, ComponentFields
<1>1. \A kind : MadeOf(kind) \subseteq CopiedOf(kind)
  OBVIOUS
<1>2. \A kind : CopiedOf(kind) \subseteq
            DestroyedOf(kind) \cup {"referenced_message", "body"}
  OBVIOUS
<1>3. \A kind : "member" \in CopiedOf(kind) => kind \in {"message", "interaction"}
  OBVIOUS
<1>4. /\ CopiedOf("user") = {} /\ CopiedOf("member") = {"user"}
      /\ "body" \in CopiedOf("component")
      /\ \A kind \in {"message", "interaction"} : "member" \in DestroyedOf(kind)
      /\ DestroyedOf("member") = {"user"}
  OBVIOUS
<1>5. /\ KindOf("user") = "user" /\ KindOf("member") = "member"
      /\ KindOf("component") = "component"
  OBVIOUS
<1> QED
  BY <1>1, <1>2, <1>3, <1>4, <1>5

(* The last step of a path.                                                *)
LEMMA LastStep ==
    ASSUME NEW kind, NEW p \in Seq(Fields), p # <<>>
    PROVE  /\ Along(CopiedOf, kind, p)
                <=> /\ Along(CopiedOf, kind, Front(p))
                    /\ Last(p) \in CopiedOf(EndKind(kind, Front(p)))
           /\ Along(DestroyedOf, kind, p)
                <=> /\ Along(DestroyedOf, kind, Front(p))
                    /\ Last(p) \in DestroyedOf(EndKind(kind, Front(p)))
           /\ Along(MadeOf, kind, p)
                <=> /\ Along(MadeOf, kind, Front(p))
                    /\ Last(p) \in MadeOf(EndKind(kind, Front(p)))
<1> DEFINE f == Front(p)
           x == Last(p)
<1>1. f \in Seq(Fields) /\ x \in Fields /\ p = Append(f, x)
  BY FrontAndLast
<1> HIDE DEF f, x
<1>2. /\ Along(CopiedOf, kind, Append(f, x))
            <=> Along(CopiedOf, kind, f) /\ x \in CopiedOf(EndKind(kind, f))
      /\ Along(DestroyedOf, kind, Append(f, x))
            <=> Along(DestroyedOf, kind, f) /\ x \in DestroyedOf(EndKind(kind, f))
      /\ Along(MadeOf, kind, Append(f, x))
            <=> Along(MadeOf, kind, f) /\ x \in MadeOf(EndKind(kind, f))
  BY <1>1, AlongAppend
<1>3. /\ Along(CopiedOf, kind, p)
            <=> Along(CopiedOf, kind, f) /\ x \in CopiedOf(EndKind(kind, f))
      /\ Along(DestroyedOf, kind, p)
            <=> Along(DestroyedOf, kind, f) /\ x \in DestroyedOf(EndKind(kind, f))
      /\ Along(MadeOf, kind, p)
            <=> Along(MadeOf, kind, f) /\ x \in MadeOf(EndKind(kind, f))
  BY <1>1, <1>2
<1> QED
  BY <1>3 DEF f, x

(* Nothing is beyond a user, and only a user is beyond a member.           *)
LEMMA UserEndsPath ==
    ASSUME NEW kind, NEW p \in Seq(Fields), p # <<>>, Along(CopiedOf, kind, p)
    PROVE  /\ Front(p) # <<>> => Last(Front(p)) # "user"
           /\ Front(p) # <<>> /\ Last(Front(p)) = "member" => Last(p) = "user"
           /\ \A i \in 1..Len(p) : p[i] = "user" => i = Len(p)
<1>1. Last(p) \in CopiedOf(EndKind(kind, Front(p)))
  BY LastStep
<1>2. CopiedOf("user") = {} /\ CopiedOf("member") = {"user"}
      /\ KindOf("user") = "user" /\ KindOf("member") = "member"
  BY TablesAgree
<1>3. Front(p) # <<>> => Last(p) \in CopiedOf(KindOf(Last(Front(p))))
  BY <1>1 DEF EndKind
<1>4. ASSUME NEW i \in 1..Len(p), p[i] = "user", i # Len(p)
      PROVE  FALSE
  <2>1. Len(p) \in Nat /\ DOMAIN p = 1..Len(p)
    BY LenProperties
  <2>2. i + 1 \in DOMAIN p /\ i + 1 # 1 /\ (i + 1) - 1 = i
    <3> DEFINE n == Len(p)
    <3>1. n \in Nat /\ i \in 1..n /\ i # n
      BY <1>4, <2>1
    <3> HIDE DEF n
    <3>2. i + 1 \in 1..n /\ i + 1 # 1 /\ (i + 1) - 1 = i
      BY <3>1
    <3> QED
      BY <2>1, <3>2 DEF n
  <2>3. \A j \in DOMAIN p : p[j] \in CopiedOf(IF j = 1 THEN kind ELSE KindOf(p[j - 1]))
    BY DEF Along
  <2>4. p[i + 1] \in CopiedOf(KindOf(p[i]))
    BY <2>2, <2>3
  <2> QED
    BY <1>2, <1>4, <2>4
<1> QED
  BY <1>2, <1>3, <1>4

-----------------------------------------------------------------------------
(* How structures are made and copied.                                     *)

(* What Complete says of one path.                                         *)
LEMMA PathFacts ==
    ASSUME NEW kind, NEW parts, Complete(kind, parts), NEW p \in parts, p # <<>>
    PROVE  /\ p \in Seq(Fields) /\ Front(p) \in parts /\ Along(CopiedOf, kind, p)
           /\ Front(p) \in Seq(Fields) /\ Last(p) \in Fields
           /\ p = Append(Front(p), Last(p))
           /\ Front(p) # <<>> => Last(Front(p)) # "user"
           /\ Front(p) # <<>> /\ Last(Front(p)) = "member" => Last(p) = "user"
           /\ \A i \in 1..Len(p) : p[i] = "user" => i = Len(p)
<1>1. p \in Seq(Fields) /\ Front(p) \in parts /\ Along(CopiedOf, kind, p)
  BY DEF Complete
<1>2. /\ Front(p) \in Seq(Fields) /\ Last(p) \in Fields
      /\ p = Append(Front(p), Last(p))
  BY <1>1, FrontAndLast
<1> QED
  BY <1>1, <1>2, UserEndsPath

(* GivenUser, in terms of fronts instead of lengths.                       *)
LEMMA GivenUserMeans ==
    ASSUME NEW p \in Seq(Fields), p # <<>>, NEW parts
    PROVE  GivenUser(parts, p) <=>
                /\ Last(p) = "user" /\ Front(p) # <<>> /\ Last(Front(p)) = "member"
                /\ Append(Front(Front(p)), "user") \in parts
<1>1. /\ Len(p) \in Nat \ {0} /\ Len(Front(p)) = Len(p) - 1
      /\ Front(p) \in Seq(Fields)
  BY FrontAndLast
<1>2. Len(p) > 1 <=> Front(p) # <<>>
  BY <1>1, EmptySeq
<1> QED
  BY <1>2 DEF GivenUser, Beside

LEMMA LeftToMemberMeans ==
    ASSUME NEW kind, NEW p \in Seq(Fields), Along(CopiedOf, kind, p), NEW parts
    PROVE  LeftToMember(parts, p) <=>
                /\ p # <<>> /\ Last(p) = "user"
                /\ Append(Front(p), "member") \in parts
<1>1. CASE p = <<>>
  BY <1>1 DEF LeftToMember
<1>2. CASE p # <<>>
  <2>1. /\ DOMAIN p = 1..Len(p) /\ Len(p) \in Nat \ {0} /\ Last(p) = p[Len(p)]
        /\ Front(p) = SubSeq(p, 1, Len(p) - 1)
    BY <1>2, FrontAndLast, LenProperties DEF Front
  <2>2. \A i \in 1..Len(p) : p[i] = "user" => i = Len(p)
    BY <1>2, UserEndsPath
  <2>3. Len(p) \in DOMAIN p
    BY <2>1
  <2>4. LeftToMember(parts, p) <=>
            \E i \in DOMAIN p : p[i] = "user" /\ Append(SubSeq(p, 1, i - 1), "member") \in parts
    BY DEF LeftToMember
  <2>5. (\E i \in DOMAIN p : p[i] = "user" /\ Append(SubSeq(p, 1, i - 1), "member") \in parts)
            <=> /\ p[Len(p)] = "user"
                /\ Append(SubSeq(p, 1, Len(p) - 1), "member") \in parts
    BY <2>1, <2>2, <2>3
  <2> QED
    BY <1>2, <2>1, <2>4, <2>5
<1> QED
  BY <1>1, <1>2

(* What is made from JSON.                                                 *)
LEMMA FromPartsComplete ==
    ASSUME NEW kind \in {"message", "interaction"}, NEW o, NEW parts, Whole(parts),
           \A p \in parts : Along(MadeOf, kind, p)
    PROVE  PartsFormed(kind, o, FromParts(o, parts)) /\ <<>> \in DOMAIN FromParts(o, parts)
<1> DEFINE bodies == json_to_component(parts)
           users == json_to_member(parts)
           all == {<<>>} \cup parts \cup bodies \cup users
<1>1. ASSUME NEW p \in parts
      PROVE  /\ p \in Seq(Fields) /\ p # <<>> /\ Front(p) \in {<<>>} \cup parts
             /\ Along(CopiedOf, kind, p)
             /\ Front(p) \in Seq(Fields) /\ Last(p) \in Fields
             /\ p = Append(Front(p), Last(p))
  <2>1. p \in Seq(Fields) /\ p # <<>> /\ Front(p) \in {<<>>} \cup parts
    BY DEF Whole
  <2>2. DOMAIN p = 1..Len(p) /\ \A i \in DOMAIN p :
            p[i] \in MadeOf(IF i = 1 THEN kind ELSE KindOf(p[i - 1]))
    BY <2>1, LenProperties DEF Along
  <2>3. Along(CopiedOf, kind, p)
    <3>1. \A k : MadeOf(k) \subseteq CopiedOf(k)
      BY TablesAgree
    <3>2. \A i \in DOMAIN p : p[i] \in CopiedOf(IF i = 1 THEN kind ELSE KindOf(p[i - 1]))
      BY <2>2, <3>1
    <3> QED
      BY <3>2 DEF Along
  <2> QED
    BY <2>1, <2>3, FrontAndLast
<1>2. ASSUME NEW p \in bodies
      PROVE  \E q \in parts : p = Append(q, "body") /\ Last(q) = "component"
  BY DEF json_to_component
<1>3. ASSUME NEW p \in users
      PROVE  \E q \in parts : /\ p = Append(q, "user") /\ Last(q) = "member"
                              /\ Beside(q, "user") \in parts
  BY DEF json_to_member
<1>4. ASSUME NEW q \in parts, NEW x \in Fields
      PROVE  /\ Append(q, x) \in Seq(Fields) /\ Append(q, x) # <<>>
             /\ Front(Append(q, x)) = q /\ Last(Append(q, x)) = x
             /\ Along(CopiedOf, kind, Append(q, x)) <=> x \in CopiedOf(KindOf(Last(q)))
  <2>1. q \in Seq(Fields) /\ q # <<>> /\ Along(CopiedOf, kind, q)
    BY <1>1
  <2>2. EndKind(kind, q) = KindOf(Last(q))
    BY <2>1 DEF EndKind
  <2>3. Along(CopiedOf, kind, Append(q, x))
            <=> Along(CopiedOf, kind, q) /\ x \in CopiedOf(EndKind(kind, q))
    BY <2>1, AlongAppend
  <2>4. /\ Append(q, x) \in Seq(Fields) /\ Append(q, x) # <<>>
        /\ Front(Append(q, x)) = q /\ Last(Append(q, x)) = x
    BY <2>1, FrontOfAppend
  <2>5. Along(CopiedOf, kind, Append(q, x)) <=> x \in CopiedOf(KindOf(Last(q)))
    BY <2>1, <2>2, <2>3
  <2> QED
    BY <2>4, <2>5
<1>5. /\ "body" \in CopiedOf(KindOf("component")) /\ "user" \in CopiedOf(KindOf("member"))
      /\ "body" \in Fields /\ "user" \in Fields
  <2>1. /\ "body" \in CopiedOf("component") /\ KindOf("component") = "component"
        /\ CopiedOf("member") = {"user"} /\ KindOf("member") = "member"
    BY TablesAgree
  <2>2. "body" \in Fields /\ "user" \in Fields
    BY DEF Fields, MessageFields, ComponentFields
  <2> QED
    BY <2>1, <2>2
<1>6. ASSUME NEW p \in bodies
      PROVE  /\ p \in Seq(Fields) /\ p # <<>> /\ Front(p) \in parts /\ Last(p) = "body"
             /\ Along(CopiedOf, kind, p)
  <2>1. PICK q \in parts : p = Append(q, "body") /\ Last(q) = "component"
    BY <1>2
  <2>2. /\ Append(q, "body") \in Seq(Fields) /\ Append(q, "body") # <<>>
        /\ Front(Append(q, "body")) = q /\ Last(Append(q, "body")) = "body"
        /\ Along(CopiedOf, kind, Append(q, "body")) <=> "body" \in CopiedOf(KindOf(Last(q)))
    BY <1>4, <1>5
  <2> QED
    BY <1>5, <2>1, <2>2
<1>7. ASSUME NEW p \in users
      PROVE  /\ p \in Seq(Fields) /\ p # <<>> /\ Front(p) \in parts /\ Last(p) = "user"
             /\ Last(Front(p)) = "member"
             /\ Along(CopiedOf, kind, p)
  <2>1. PICK q \in parts : p = Append(q, "user") /\ Last(q) = "member"
    BY <1>3
  <2>2. /\ Append(q, "user") \in Seq(Fields) /\ Append(q, "user") # <<>>
        /\ Front(Append(q, "user")) = q /\ Last(Append(q, "user")) = "user"
        /\ Along(CopiedOf, kind, Append(q, "user")) <=> "user" \in CopiedOf(KindOf(Last(q)))
    BY <1>4, <1>5
  <2> QED
    BY <1>5, <2>1, <2>2
<1> HIDE DEF bodies, users
<1>8. all \subseteq Seq(Fields)
  BY <1>1, <1>6, <1>7, EmptySeq
<1>9. \A p \in all : p # <<>> => Front(p) \in all
  BY <1>1, <1>6, <1>7
<1>10. \A p \in all : Along(CopiedOf, kind, p)
  BY <1>1, <1>6, <1>7, AlongEmpty
<1>11. ASSUME NEW p \in all, p # <<>>, Last(p) = "member", Beside(p, "user") \in all
       PROVE  Append(p, "user") \in all
  <2>1. p \in parts
    BY <1>6, <1>7, <1>11
  <2>2. /\ Front(p) \in {<<>>} \cup parts /\ Front(p) \in Seq(Fields)
        /\ Beside(p, "user") = Append(Front(p), "user")
    BY <1>1, <2>1 DEF Beside
  <2>3. /\ Beside(p, "user") # <<>> /\ Last(Beside(p, "user")) = "user"
        /\ Front(Beside(p, "user")) = Front(p)
    <3>1. ASSUME NEW f \in Seq(Fields)
          PROVE  /\ Append(f, "user") # <<>> /\ Last(Append(f, "user")) = "user"
                 /\ Front(Append(f, "user")) = f
      BY <1>5, FrontOfAppend
    <3> QED
      BY <2>2, <3>1
  <2>4. Front(p) # <<>> => Last(Front(p)) # "member"
    <3>1. p \in Seq(Fields) /\ p # <<>> /\ Along(CopiedOf, kind, p)
      BY <1>1, <2>1
    <3> QED
      BY <1>11, <3>1, UserEndsPath
  <2>5. Front(p) \in Seq(Fields) /\ Front(p) \in parts => Front(p) # <<>>
    BY <1>1
  <2>6. Beside(p, "user") \notin bodies /\ Beside(p, "user") \notin users
    <3> DEFINE b == Beside(p, "user")
    <3>1. Last(b) = "user" /\ Front(b) = Front(p)
      BY <2>3
    <3> HIDE DEF b
    <3>2. ASSUME b \in bodies PROVE FALSE
      <4>1. Last(b) = "body"
        BY <1>6, <3>2
      <4> QED
        BY <3>1, <4>1
    <3>3. ASSUME b \in users PROVE FALSE
      <4>1. Front(b) \in parts /\ Last(Front(b)) = "member"
        BY <1>7, <3>3
      <4>2. Front(p) # <<>>
        BY <2>2, <2>5, <3>1, <4>1
      <4> QED
        BY <2>4, <3>1, <4>1, <4>2
    <3> QED
      BY <3>2, <3>3 DEF b
  <2>7. Beside(p, "user") \in parts
    BY <1>11, <2>3, <2>6
  <2>8. p \in {q \in parts : Last(q) = "member" /\ Beside(q, "user") \in parts}
    BY <1>11, <2>1, <2>7
  <2>9. Append(p, "user") \in users
    BY <2>8 DEF users, json_to_member
  <2> QED
    BY <2>9
<1>12. Complete(kind, all)
  BY <1>8, <1>9, <1>10, <1>11 DEF Complete
<1>13. FromParts(o, parts) = [p \in all |-> Block(o, all, p)]
  BY DEF FromParts, bodies, users
<1> HIDE DEF all
<1>14. /\ DOMAIN FromParts(o, parts) = all
       /\ \A p \in all : FromParts(o, parts)[p] = Block(o, all, p)
  BY <1>13
<1> QED
  BY <1>12, <1>14 DEF PartsFormed, all

(* A copy has the pointers of the source, but for the users of members     *)
(* that are not beside them, and blocks of its own.                        *)
LEMMA CopyPartsFormed ==
    ASSUME NEW kind, NEW o, NEW c, NEW s, PartsFormed(kind, o, s)
    PROVE  PartsFormed(kind, c, CopyParts(c, kind, s))
<1> DEFINE d == DOMAIN s
           r == copy_member(d)
<1>1. Complete(kind, d)
  BY DEF PartsFormed
<1>2. ASSUME NEW p \in d
      PROVE  /\ p \in Seq(Fields) /\ Along(CopiedOf, kind, p)
             /\ p # <<>> => /\ Front(p) \in d /\ Front(p) \in Seq(Fields)
                            /\ Front(p) # <<>> => Last(Front(p)) # "user"
  BY <1>1, PathFacts DEF Complete
<1>3. ASSUME NEW p \in d
      PROVE  p \in r <=> (/\ p # <<>> /\ Last(p) = "user"
                          /\ Front(p) # <<>> /\ Last(Front(p)) = "member"
                          => GivenUser(d, p))
  <2>1. p \in r <=> (Len(p) > 1 /\ Last(p) = "user" /\ Last(Front(p)) = "member"
                        => GivenUser(d, p))
    BY DEF copy_member
  <2>2. CASE p = <<>>
    <3>1. ~(Len(p) > 1)
      BY <2>2
    <3> QED
      BY <2>1, <2>2, <3>1
  <2>3. CASE p # <<>>
    <3>1. Len(p) \in Nat \ {0} /\ Len(Front(p)) = Len(p) - 1 /\ Front(p) \in Seq(Fields)
      BY <1>2, <2>3, FrontAndLast
    <3>2. Len(p) > 1 <=> Front(p) # <<>>
      BY <3>1, EmptySeq
    <3> QED
      BY <2>1, <2>3, <3>2
  <2> QED
    BY <2>2, <2>3
<1>4. r \subseteq d
  BY DEF copy_member
<1> HIDE DEF r
<1>5. ASSUME NEW p \in r, p # <<>>
      PROVE  Front(p) \in r
  <2>1. Front(p) \in d /\ (Front(p) # <<>> => Last(Front(p)) # "user")
    BY <1>2, <1>4, <1>5
  <2> QED
    BY <1>3, <2>1
<1>6. ASSUME NEW p \in d
      PROVE  GivenUser(r, p) <=> GivenUser(d, p)
  <2> DEFINE b == Append(Front(Front(p)), "user")
  <2>1. CASE p = <<>>
    <3>1. ~(Len(p) > 1)
      BY <2>1
    <3> QED
      BY <2>1, <3>1 DEF GivenUser
  <2>2. CASE p # <<>>
    <3>1. /\ GivenUser(r, p) <=> /\ Last(p) = "user" /\ Front(p) # <<>>
                                 /\ Last(Front(p)) = "member" /\ b \in r
          /\ GivenUser(d, p) <=> /\ Last(p) = "user" /\ Front(p) # <<>>
                                 /\ Last(Front(p)) = "member" /\ b \in d
      BY <1>2, <2>2, GivenUserMeans
    <3>2. ASSUME Front(p) # <<>>, Last(Front(p)) = "member", b \in d
          PROVE  b \in r
      <4>1. Front(p) \in d /\ Front(p) \in Seq(Fields)
        BY <1>2, <2>2
      <4>2. /\ Front(Front(p)) \in Seq(Fields) /\ Along(CopiedOf, kind, Front(p))
            /\ "user" \in Fields
        BY <1>2, <3>2, <4>1, FrontAndLast DEF Fields, MessageFields
      <4>3. Front(Front(p)) # <<>> => Last(Front(Front(p))) # "member"
        BY <3>2, <4>1, <4>2, UserEndsPath
      <4>4. Front(b) = Front(Front(p))
        BY <4>2, FrontOfAppend
      <4> HIDE DEF b
      <4> QED
        BY <1>3, <3>2, <4>3, <4>4
    <3> QED
      BY <1>4, <3>1, <3>2
  <2> QED
    BY <2>1, <2>2
<1>7. ASSUME NEW p \in r, p # <<>>, Last(p) = "member", Beside(p, "user") \in r
      PROVE  Append(p, "user") \in r
  <2> DEFINE u == Append(p, "user")
  <2>1. u \in d /\ p \in d /\ Beside(p, "user") \in d
    BY <1>1, <1>4, <1>7 DEF Complete
  <2>2. p \in Seq(Fields) /\ "user" \in Fields
    BY <1>2, <2>1 DEF Fields, MessageFields
  <2>3. u \in Seq(Fields) /\ u # <<>> /\ Front(u) = p /\ Last(u) = "user"
    BY <2>2, FrontOfAppend
  <2> HIDE DEF u
  <2>4. GivenUser(d, u)
    BY <1>7, <2>1, <2>3, GivenUserMeans DEF Beside
  <2> QED
    BY <1>3, <2>1, <2>4 DEF u
<1>8. Complete(kind, r)
  BY <1>2, <1>4, <1>5, <1>7 DEF Complete
<1>9. /\ DOMAIN CopyParts(c, kind, s) = r
      /\ \A p \in r : CopyParts(c, kind, s)[p] = Block(c, d, p)
  BY <1>2, <1>4 DEF CopyParts, r
<1>10. ASSUME NEW p \in r
       PROVE  Block(c, d, p) = Block(c, r, p)
  <2>1. GivenUser(r, p) <=> GivenUser(d, p)
    BY <1>4, <1>6
  <2> QED
    BY <2>1 DEF Block
<1> HIDE DEF d
<1> QED
  BY <1>8, <1>9, <1>10 DEF PartsFormed

(* Two pointers that are freed never lead to the same block.               *)
LEMMA FreedOnce ==
    ASSUME NEW kind, NEW o, NEW s, PartsFormed(kind, o, s)
    PROVE  ~FreesTwice(s, FreedParts(kind, DOMAIN s))
<1> DEFINE d == DOMAIN s
           f == FreedParts(kind, d)
<1>1. Complete(kind, d) /\ \A p \in d : s[p] = Block(o, d, p)
  BY DEF PartsFormed
<1>2. f \subseteq d /\ \A p \in f : ~LeftToMember(d, p)
  BY DEF FreedParts
<1>3. \A p \in d : p \in Seq(Fields) /\ Along(CopiedOf, kind, p)
  BY <1>1 DEF Complete
<1>4. ASSUME NEW p \in d
      PROVE  ~GivenUser(d, p) => s[p] = <<o, p>>
  BY <1>1 DEF Block
<1>5. ASSUME NEW p \in d, GivenUser(d, p)
      PROVE  /\ p # <<>> /\ p = Append(Append(Front(Front(p)), "member"), "user")
             /\ Front(p) = Append(Front(Front(p)), "member") /\ Front(p) \in d
             /\ s[p] = <<o, Append(Front(Front(p)), "user")>>
             /\ Front(Front(p)) \in Seq(Fields)
  <2>1. p # <<>>
    BY <1>5 DEF GivenUser
  <2>2. /\ Last(p) = "user" /\ Front(p) # <<>> /\ Last(Front(p)) = "member"
    BY <1>3, <1>5, <2>1, GivenUserMeans
  <2>3. p = Append(Front(p), Last(p)) /\ Front(p) \in d
    BY <1>1, <2>1, PathFacts
  <2>4. Front(p) = Append(Front(Front(p)), Last(Front(p))) /\ Front(Front(p)) \in Seq(Fields)
    BY <1>1, <2>2, <2>3, PathFacts
  <2>5. s[p] = <<o, Append(Front(Front(p)), "user")>>
    BY <1>1, <1>5 DEF Block, Beside
  <2> QED
    BY <2>1, <2>2, <2>3, <2>4, <2>5
<1> HIDE DEF d, f
<1>6. ASSUME NEW p \in f, NEW q \in f, s[p] = s[q], GivenUser(d, p), ~GivenUser(d, q)
      PROVE  FALSE
  <2> DEFINE m == Front(Front(p))
  <2>1. q = Append(m, "user") /\ m \in Seq(Fields) /\ Append(m, "member") \in d
    <3>1. p \in d /\ q \in d
      BY <1>2
    <3>2. /\ s[p] = <<o, Append(m, "user")>> /\ m \in Seq(Fields)
          /\ Front(p) = Append(m, "member") /\ Front(p) \in d
      BY <1>5, <1>6, <3>1
    <3>3. s[q] = <<o, q>>
      BY <1>4, <1>6, <3>1
    <3> HIDE DEF m
    <3>4. <<o, Append(m, "user")>> = <<o, q>>
      BY <1>6, <3>2, <3>3
    <3> QED
      BY <3>2, <3>4
  <2> HIDE DEF m
  <2>2. "user" \in Fields
    BY DEF Fields, MessageFields
  <2>3. q # <<>> /\ Front(q) = m /\ Last(q) = "user"
    BY <2>1, <2>2, FrontOfAppend
  <2>4. LeftToMember(d, q)
    BY <1>2, <1>3, <2>1, <2>3, LeftToMemberMeans
  <2> QED
    BY <1>2, <2>4
<1>7. ASSUME NEW p \in f, NEW q \in f, s[p] = s[q], GivenUser(d, p), GivenUser(d, q)
      PROVE  p = q
  <2> DEFINE m == Front(Front(p))
             n == Front(Front(q))
  <2>1. /\ Append(m, "user") = Append(n, "user") /\ m \in Seq(Fields) /\ n \in Seq(Fields)
        /\ p = Append(Append(m, "member"), "user") /\ q = Append(Append(n, "member"), "user")
    <3>1. p \in d /\ q \in d
      BY <1>2
    <3>2. /\ s[p] = <<o, Append(m, "user")>> /\ m \in Seq(Fields)
          /\ p = Append(Append(m, "member"), "user")
      BY <1>5, <1>7, <3>1
    <3>3. /\ s[q] = <<o, Append(n, "user")>> /\ n \in Seq(Fields)
          /\ q = Append(Append(n, "member"), "user")
      BY <1>5, <1>7, <3>1
    <3> HIDE DEF m, n
    <3>4. <<o, Append(m, "user")>> = <<o, Append(n, "user")>>
      BY <1>7, <3>2, <3>3
    <3> QED
      BY <3>2, <3>3, <3>4
  <2> HIDE DEF m, n
  <2>2. "user" \in Fields
    BY DEF Fields, MessageFields
  <2>3. Front(Append(m, "user")) = m /\ Front(Append(n, "user")) = n
    BY <2>1, <2>2, FrontOfAppend
  <2> QED
    BY <2>1, <2>3
<1>8. ASSUME NEW p \in f, NEW q \in f, s[p] = s[q], ~GivenUser(d, p), ~GivenUser(d, q)
      PROVE  p = q
  BY <1>2, <1>4, <1>8
<1> QED
  BY <1>6, <1>7, <1>8 DEF FreesTwice, f, d

(* What is not freed, and is not the same block as one that is, belongs to *)
(* a message that a message referred to or to the type of a component.     *)
LEMMA UnfreedIsLeft ==
    ASSUME NEW kind, NEW o, NEW s, PartsFormed(kind, o, s), NEW p \in DOMAIN s,
           \A q \in FreedParts(kind, DOMAIN s) : s[q] # s[p]
    PROVE  LeftBehind(s[p])
<1> DEFINE d == DOMAIN s
           f == FreedParts(kind, d)
<1>1. Complete(kind, d) /\ \A q \in d : s[q] = Block(o, d, q)
  BY DEF PartsFormed
<1>2. \A q \in d : Along(DestroyedOf, kind, q) /\ ~LeftToMember(d, q) => q \in f
  BY DEF FreedParts
<1>3. p \in d /\ p \notin f /\ \A q \in f : s[q] # s[p]
  OBVIOUS
<1> HIDE DEF d, f
<1>4. p \in Seq(Fields) /\ Along(CopiedOf, kind, p)
  BY <1>1, <1>3 DEF Complete
<1>5. Len(p) \in Nat /\ DOMAIN p = 1..Len(p)
  BY <1>4, LenProperties
<1>6. "user" \in Fields /\ "member" \in Fields
  BY DEF Fields, MessageFields
<1>7. CASE ~Along(DestroyedOf, kind, p)
  <2>1. PICK i \in 1..Len(p) : p[i] \in {"referenced_message", "body"}
    <3>1. PICK i \in DOMAIN p : p[i] \notin DestroyedOf(IF i = 1 THEN kind ELSE KindOf(p[i - 1]))
      BY <1>7 DEF Along
    <3>2. \A j \in DOMAIN p : p[j] \in CopiedOf(IF j = 1 THEN kind ELSE KindOf(p[j - 1]))
      BY <1>4 DEF Along
    <3>3. \A k : CopiedOf(k) \subseteq DestroyedOf(k) \cup {"referenced_message", "body"}
      BY TablesAgree
    <3>4. p[i] \in {"referenced_message", "body"}
      BY <3>1, <3>2, <3>3
    <3> QED
      BY <1>5, <3>1, <3>4
  <2>2. CASE ~GivenUser(d, p)
    <3>1. s[p][2] = p
      BY <1>1, <1>3, <2>2 DEF Block
    <3> QED
      BY <1>5, <2>1, <3>1 DEF LeftBehind
  <2>3. CASE GivenUser(d, p)
    <3> DEFINE m == Front(Front(p))
               g == Append(m, "user")
    <3>1. p # <<>>
      BY <2>3 DEF GivenUser
    <3>2. Last(p) = "user" /\ Front(p) # <<>> /\ Last(Front(p)) = "member"
      BY <1>4, <2>3, <3>1, GivenUserMeans
    <3>3. p = Append(Front(p), "user") /\ Front(p) \in d /\ Front(p) \in Seq(Fields)
      BY <1>1, <1>3, <3>1, <3>2, PathFacts
    <3>4. m \in Seq(Fields) /\ Front(p) = Append(m, "member")
      BY <3>2, <3>3, FrontAndLast
    <3>5. s[p][2] = g
      <4>1. s[p] = Block(o, d, p)
        BY <1>1, <1>3
      <4>2. Block(o, d, p) = <<o, Beside(Front(p), "user")>>
        BY <2>3 DEF Block
      <4>3. Beside(Front(p), "user") = g
        BY DEF Beside
      <4> QED
        BY <4>1, <4>2, <4>3
    <3> HIDE DEF m
    <3>6. /\ Len(Append(m, "member")) = Len(m) + 1 /\ Len(m) \in Nat
          /\ \A j \in 1..Len(m) : Append(m, "member")[j] = m[j]
          /\ Append(m, "member")[Len(m) + 1] = "member"
          /\ Append(m, "member") \in Seq(Fields)
      BY <1>6, <3>4, FrontOfAppend
    <3>7. /\ g \in Seq(Fields) /\ Len(g) = Len(m) + 1 /\ \A j \in 1..Len(m) : g[j] = m[j]
      BY <1>6, <3>4, FrontOfAppend
    <3> DEFINE n == Append(m, "member")
    <3>8. p = Append(n, "user") /\ n \in Seq(Fields) /\ Len(n) = Len(m) + 1
      BY <3>3, <3>4, <3>6
    <3> HIDE DEF n, g
    <3>9. /\ Len(p) = Len(n) + 1 /\ \A j \in 1..Len(n) : p[j] = n[j]
          /\ p[Len(n) + 1] = "user"
      BY <1>6, <3>8, FrontOfAppend
    <3>10. i # Len(m) + 2
      BY <2>1, <3>6, <3>8, <3>9
    <3>11. i # Len(m) + 1
      <4>1. Len(m) + 1 \in 1..Len(n)
        BY <3>6, <3>8
      <4>2. p[Len(m) + 1] = "member"
        BY <3>6, <3>9, <4>1 DEF n
      <4> QED
        BY <2>1, <4>2
    <3>12. i \in 1..Len(m) /\ i \in 1..Len(n)
      BY <2>1, <3>6, <3>8, <3>9, <3>10, <3>11
    <3>13. g[i] = p[i]
      BY <3>6, <3>7, <3>9, <3>12 DEF n
    <3>14. i \in DOMAIN g
      BY <3>6, <3>7, <3>12, LenProperties
    <3> QED
      BY <2>1, <3>5, <3>13, <3>14 DEF LeftBehind
  <2> QED
    BY <2>2, <2>3
<1>8. CASE Along(DestroyedOf, kind, p)
  <2> DEFINE m == Append(Front(p), "member")
             u == Append(m, "user")
  <2>1. LeftToMember(d, p)
    BY <1>2, <1>3, <1>8
  <2>2. p # <<>> /\ Last(p) = "user" /\ m \in d
    BY <1>4, <2>1, LeftToMemberMeans
  <2>3. /\ p = Append(Front(p), "user") /\ Front(p) \in Seq(Fields)
        /\ Along(DestroyedOf, kind, Front(p))
    BY <1>4, <1>8, <2>2, FrontAndLast, LastStep
  <2>4. /\ m \in Seq(Fields) /\ m # <<>> /\ Front(m) = Front(p) /\ Last(m) = "member"
    BY <1>6, <2>3, FrontOfAppend
  <2>5. /\ Along(CopiedOf, kind, m)
        /\ "member" \in CopiedOf(EndKind(kind, Front(p)))
    <3>1. Along(CopiedOf, kind, m)
      BY <1>1, <2>2 DEF Complete
    <3> QED
      BY <1>6, <2>3, <3>1, AlongAppend
  <2>6. Along(DestroyedOf, kind, m)
    <3>1. "member" \in DestroyedOf(EndKind(kind, Front(p)))
      BY <2>5, TablesAgree
    <3> QED
      BY <1>6, <2>3, <3>1, AlongAppend
  <2> HIDE DEF m
  <2>7. /\ u \in Seq(Fields) /\ u # <<>> /\ Front(u) = m /\ Last(u) = "user"
    BY <1>6, <2>4, FrontOfAppend
  <2>8. Along(DestroyedOf, kind, u)
    <3>1. EndKind(kind, m) = "member" /\ "user" \in DestroyedOf("member")
      BY <2>4, TablesAgree DEF EndKind
    <3> QED
      BY <1>6, <2>4, <2>6, <3>1, AlongAppend
  <2>9. Beside(m, "user") = p
    BY <2>3, <2>4 DEF Beside
  <2>10. u \in d
    BY <1>1, <1>3, <2>2, <2>4, <2>9 DEF Complete
  <2> HIDE DEF u
  <2>11. GivenUser(d, u)
    BY <1>3, <2>4, <2>7, <2>9, GivenUserMeans DEF Beside
  <2>12. s[u] = <<o, p>>
    BY <1>1, <2>7, <2>9, <2>10, <2>11 DEF Block
  <2>13. ~GivenUser(d, p)
    <3>1. ASSUME GivenUser(d, p) PROVE FALSE
      <4>1. Front(p) # <<>> /\ Last(Front(p)) = "member"
        BY <1>4, <2>2, <3>1, GivenUserMeans
      <4>2. Last(m) = "user"
        BY <2>4, <2>5, <4>1, UserEndsPath
      <4> QED
        BY <2>4, <4>2
    <3> QED
      BY <3>1
  <2>14. s[p] = <<o, p>>
    BY <1>1, <1>3, <2>13 DEF Block
  <2>15. ~LeftToMember(d, u)
    <3>1. ASSUME LeftToMember(d, u) PROVE FALSE
      <4> DEFINE w == Append(m, "member")
      <4>1. w \in d
        BY <1>1, <2>7, <2>10, <3>1, LeftToMemberMeans DEF Complete
      <4>2. w \in Seq(Fields) /\ w # <<>> /\ Front(w) = m /\ Last(w) = "member"
        BY <1>6, <2>4, FrontOfAppend
      <4> HIDE DEF w
      <4>3. Along(CopiedOf, kind, w)
        BY <1>1, <4>1 DEF Complete
      <4>4. Last(w) = "user"
        BY <2>4, <4>2, <4>3, UserEndsPath
      <4> QED
        BY <4>2, <4>4
    <3> QED
      BY <3>1
  <2>16. u \in f
    BY <1>2, <2>8, <2>10, <2>15
  <2> QED
    BY <1>3, <2>12, <2>14, <2>16
<1> QED
  BY <1>7, <1>8

-----------------------------------------------------------------------------
(* Memory.                                                                 *)

MemoryIInv == AllFormed /\ OnlyTaken /\ Reached /\ DanglingOnlyIcons

LEMMA ObjectNumbers ==
    ASSUME EventsTypeOK, sets \in 0..MaxSets
    PROVE  /\ MaxSets \in Nat /\ MaxCopies \in Nat /\ copies \in 0..MaxCopies
           /\ Objects \subseteq Int /\ 1..MaxSets \subseteq Objects
           /\ \A i \in 1..MaxCopies : MaxSets + i \in Objects
           /\ Taken \subseteq Objects
           /\ type \in {"channel", "message", "interaction"}
BY BoundsAssumption, EventBoundsAssumption DEF EventsTypeOK, Objects, Taken

(* A pointer leads to a block of its own structure, or is an icon.         *)
LEMMA BlocksOwn ==
    ASSUME NEW o, NEW s, Formed(o, s), NEW p \in DOMAIN s
    PROVE  /\ type = "channel" /\ p = <<"icon">>
                => \E x \in 1..MaxSets : s[p] = <<x, <<"icon">>>>
           /\ type = "channel" /\ p # <<"icon">>
                => s[p] = <<o, p>> \/ (o > MaxSets /\ s[p] = <<o, <<"icon">>>>)
           /\ ~(type = "channel" /\ p = <<"icon">>) => s[p][1] = o
<1>1. CASE type = "channel"
  <2>1. ChannelFormed(o, s)
    BY <1>1 DEF Formed
  <2>2. CASE p = <<"icon">>
    BY <1>1, <2>1, <2>2 DEF ChannelFormed
  <2>3. CASE p # <<"icon">>
    <3>1. s[p] = <<o, p>> \/ (o > MaxSets /\ s[p] = <<o, <<"icon">>>>)
      BY <2>1, <2>3 DEF ChannelFormed
    <3> QED
      BY <2>3, <3>1
  <2> QED
    BY <2>2, <2>3
<1>2. CASE type # "channel"
  <2>1. s[p] = Block(o, DOMAIN s, p)
    BY <1>2 DEF Formed, PartsFormed
  <2> QED
    BY <1>2, <2>1 DEF Block
<1> QED
  BY <1>1, <1>2

LEMMA FormedShares ==
    ASSUME EventsTypeOK, AllFormed, sets \in 0..MaxSets
    PROVE  SharedOnlyIcons
<1>1. SUFFICES ASSUME NEW o \in Live, NEW q \in Live, o # q,
                      NEW p \in DOMAIN objects[o], p # <<"icon">>,
                      NEW r \in DOMAIN objects[q], objects[o][p] = objects[q][r]
               PROVE  FALSE
  BY DEF SharedOnlyIcons, Blocks
<1>2. /\ o \in Objects /\ q \in Objects /\ Formed(o, objects[o]) /\ Formed(q, objects[q])
  BY DEF Live, AllFormed
<1>3. o \in Int /\ MaxSets \in Int
  BY <1>2, ObjectNumbers
<1>4. objects[o][p][1] = o
  BY <1>1, <1>2, BlocksOwn
<1>5. CASE ~(type = "channel" /\ r = <<"icon">>)
  <2>1. objects[q][r][1] = q
    BY <1>2, <1>5, BlocksOwn
  <2> QED
    BY <1>1, <1>4, <2>1
<1>6. CASE type = "channel" /\ r = <<"icon">>
  <2>1. PICK x \in 1..MaxSets : objects[q][r] = <<x, <<"icon">>>>
    BY <1>2, <1>6, BlocksOwn
  <2>2. \/ objects[o][p] = <<o, p>>
        \/ o > MaxSets /\ objects[o][p] = <<o, <<"icon">>>>
    BY <1>1, <1>2, <1>6, BlocksOwn
  <2>3. ~(o > MaxSets)
    BY <1>1, <1>3, <1>4, <2>1
  <2> QED
    BY <1>1, <2>1, <2>2, <2>3
<1> QED
  BY <1>5, <1>6

(* New structures are made in F; nothing else changes.                     *)
Grows(F) ==
    /\ type' = type /\ DOMAIN objects' = Objects
    /\ F \subseteq Objects /\ F \cap Taken = {} /\ Taken \cup F \subseteq Taken'
    /\ \A q \in Objects \ F : objects'[q] = objects[q]
    /\ \A q \in F :
        /\ Formed(q, objects'[q])
        /\ \A p \in DOMAIN objects'[q] :
            objects'[q][p] \in heap' \/ (type = "channel" /\ p = <<"icon">>)
    /\ heap \subseteq heap'
    /\ \A b \in heap' \ heap :
        b[1] \in F /\ (b \in Blocks(objects'[b[1]]) \/ ReplacedTopic(b))
    /\ misuse' = "double" => misuse = "double"

LEMMA NoStructureFormed ==
    ASSUME NEW o
    PROVE  Formed(o, NoStructure) /\ DOMAIN NoStructure = {}
<1>1. DOMAIN NoStructure = {}
  BY DEF NoStructure
<1>2. ChannelFormed(o, NoStructure)
  BY <1>1 DEF ChannelFormed
<1>3. PartsFormed(type, o, NoStructure)
  BY <1>1 DEF PartsFormed, Complete
<1> QED
  BY <1>1, <1>2, <1>3 DEF Formed

LEMMA GrowsKeeps ==
    ASSUME MemoryIInv, NEW F, Grows(F)
    PROVE  MemoryIInv'
<1>1. type' = type /\ \A q \in Objects \ F : objects'[q] = objects[q]
  BY DEF Grows
<1>2. AllFormed'
  <2>1. ASSUME NEW o \in Objects PROVE Formed(o, objects'[o])
    <3>1. o \in F => Formed(o, objects'[o])
      BY DEF Grows
    <3>2. o \notin F => objects'[o] = objects[o] /\ Formed(o, objects[o])
      BY <1>1 DEF MemoryIInv, AllFormed
    <3> QED
      BY <3>1, <3>2
  <2> QED
    BY <1>1, <2>1 DEF AllFormed, Formed
<1>3. OnlyTaken'
  <2>1. /\ Taken \cup F \subseteq Taken' /\ F \cap Taken = {}
        /\ \A b \in heap' : b \in heap \/ b[1] \in F
    BY DEF Grows
  <2>2. /\ \A b \in heap : b[1] \in Taken
        /\ \A o \in Objects \ Taken : objects[o] = NoStructure
    BY DEF MemoryIInv, OnlyTaken
  <2>3. \A o \in Objects \ Taken' : objects'[o] = NoStructure
    BY <1>1, <2>1, <2>2
  <2> QED
    BY <2>1, <2>2, <2>3 DEF OnlyTaken
<1>4. Reached'
  <2>1. SUFFICES ASSUME NEW b \in heap'
                 PROVE  \/ b[1] \in Live' /\ b \in Blocks(objects'[b[1]])
                        \/ ReplacedTopic(b)
                        \/ b[1] \notin Live' /\ LeftBehind(b)
    BY DEF Reached
  <2>2. CASE b \in heap
    <3>1. b[1] \in Taken /\ b[1] \notin F
      BY <2>2 DEF MemoryIInv, OnlyTaken, Grows
    <3>2. b[1] \in Objects => objects'[b[1]] = objects[b[1]]
      BY <1>1, <3>1
    <3>3. b[1] \in Live' <=> b[1] \in Live
      BY <3>2 DEF Live
    <3>4. \/ b[1] \in Live /\ b \in Blocks(objects[b[1]])
          \/ ReplacedTopic(b)
          \/ b[1] \notin Live /\ LeftBehind(b)
      BY <2>2 DEF MemoryIInv, Reached
    <3>5. b[1] \in Live => b[1] \in Objects
      BY DEF Live
    <3> QED
      BY <3>2, <3>3, <3>4, <3>5
  <2>3. CASE b \notin heap
    <3>1. b[1] \in F /\ b[1] \in Objects /\ (b \in Blocks(objects'[b[1]]) \/ ReplacedTopic(b))
      BY <2>3 DEF Grows
    <3>2. b \in Blocks(objects'[b[1]]) => b[1] \in Live'
      BY <3>1, NoStructureFormed DEF Blocks, Live
    <3> QED
      BY <3>1, <3>2
  <2> QED
    BY <2>2, <2>3
<1>5. DanglingOnlyIcons'
  <2>1. SUFFICES ASSUME NEW o \in Live', NEW p \in DOMAIN objects'[o],
                        ~(type = "channel" /\ p = <<"icon">>)
                 PROVE  objects'[o][p] \in heap'
    BY <1>1 DEF DanglingOnlyIcons, Grows, MemoryIInv
  <2>2. CASE o \in F
    BY <2>1, <2>2 DEF Grows
  <2>3. CASE o \notin F
    <3>1. o \in Live /\ objects'[o] = objects[o]
      BY <1>1, <2>3 DEF Live
    <3>2. objects[o][p] \in heap
      BY <2>1, <3>1 DEF MemoryIInv, DanglingOnlyIcons
    <3> QED
      BY <3>1, <3>2 DEF Grows
  <2> QED
    BY <2>2, <2>3
<1> QED
  BY <1>2, <1>3, <1>4, <1>5 DEF MemoryIInv

LEMMA FreedWithin ==
    ASSUME NEW s
    PROVE  Freed(s) \subseteq DOMAIN s
BY DEF Freed, destroy_channel, FreedParts

(* What is freed of an object whose pointers are sound is allocated, and   *)
(* freed once.                                                             *)
LEMMA DoubleIsIcon ==
    ASSUME MemoryIInv, NEW o \in Live, type # "channel"
    PROVE  /\ ~FreesTwice(objects[o], Freed(objects[o]))
           /\ {objects[o][p] : p \in Freed(objects[o])} \subseteq heap
<1>1. PartsFormed(type, o, objects[o])
  BY DEF MemoryIInv, AllFormed, Live, Formed
<1>2. Freed(objects[o]) = FreedParts(type, DOMAIN objects[o])
  BY DEF Freed
<1>3. ~FreesTwice(objects[o], Freed(objects[o]))
  BY <1>1, <1>2, FreedOnce
<1>4. \A p \in DOMAIN objects[o] : objects[o][p] \in heap
  BY DEF MemoryIInv, DanglingOnlyIcons
<1> QED
  BY <1>3, <1>4, FreedWithin

(* The blocks of an object that is destroyed are freed, but for the ones   *)
(* that are left behind.                                                   *)
LEMMA DestroyLeaves ==
    ASSUME MemoryIInv, NEW o \in Live, NEW p \in DOMAIN objects[o],
           \A q \in Freed(objects[o]) : objects[o][q] # objects[o][p]
    PROVE  LeftBehind(objects[o][p])
<1>1. type # "channel"
  <2>1. type = "channel" => Freed(objects[o]) = DOMAIN objects[o]
    BY DEF Freed, destroy_channel
  <2> QED
    BY <2>1
<1>2. PartsFormed(type, o, objects[o])
  BY <1>1 DEF MemoryIInv, AllFormed, Live, Formed
<1>3. Freed(objects[o]) = FreedParts(type, DOMAIN objects[o])
  BY <1>1 DEF Freed
<1> QED
  BY <1>2, <1>3, UnfreedIsLeft

LEMMA DestroyKeeps ==
    ASSUME EventsTypeOK, MemoryIInv, misuse = "none", sets \in 0..MaxSets,
           NEW o \in Objects, DestroyObject(o), UNCHANGED <<type, sets, copies>>
    PROVE  MemoryIInv' /\ DOMAIN objects' = Objects
<1> DEFINE s == objects[o]
           freedBlocks == {s[p] : p \in Freed(s)}
<1>1. DOMAIN objects = Objects
  BY DEF EventsTypeOK
<1>2. CASE UNCHANGED <<objects, heap>>
  <2>1. misuse' = "double" => type = "channel"
    <3>1. SUFFICES ASSUME type # "channel", misuse' = "double" PROVE FALSE
      OBVIOUS
    <3>2. FreesTwice(s, Freed(s)) \/ ~(freedBlocks \subseteq heap)
      BY <3>1, <1>2 DEF DestroyObject
    <3>3. CASE o \in Live
      BY <3>1, <3>2, <3>3, DoubleIsIcon
    <3>4. CASE o \notin Live
      <4>1. DOMAIN s = {}
        BY <3>4, NoStructureFormed DEF Live
      <4>2. Freed(s) = {}
        BY <4>1, FreedWithin
      <4> HIDE DEF s
      <4> QED
        BY <3>2, <4>2 DEF FreesTwice
    <3> QED
      BY <3>3, <3>4
  <2>2. AllFormed' /\ OnlyTaken' /\ Reached'
    BY <1>2 DEF MemoryIInv, AllFormed, Formed, PartsFormed, ChannelFormed,
                OnlyTaken, Taken, Reached, Live
  <2>3. DanglingOnlyIcons'
    BY <1>2, <2>1 DEF MemoryIInv, DanglingOnlyIcons, Live
  <2> QED
    BY <1>1, <1>2, <2>2, <2>3 DEF MemoryIInv
<1>3. CASE ~UNCHANGED <<objects, heap>>
  <2>1. /\ objects' = [objects EXCEPT ![o] = NoStructure]
        /\ heap' = heap \ freedBlocks /\ misuse' = misuse
    BY <1>3 DEF DestroyObject
  <2> HIDE DEF freedBlocks
  <2>2. /\ DOMAIN objects' = Objects /\ objects'[o] = NoStructure
        /\ \A q \in Objects \ {o} : objects'[q] = objects[q]
    BY <1>1, <2>1
  <2>3. Live' = Live \ {o}
    BY <2>2 DEF Live
  <2>4. AllFormed'
    <3>1. ASSUME NEW q \in Objects PROVE Formed(q, objects'[q])
      <4>1. CASE q = o
        BY <2>2, <4>1, NoStructureFormed
      <4>2. CASE q # o
        BY <2>2, <4>2 DEF MemoryIInv, AllFormed
      <4> QED
        BY <4>1, <4>2
    <3> QED
      BY <3>1 DEF AllFormed, Formed
  <2>5. OnlyTaken'
    <3>1. heap' \subseteq heap /\ Taken' = Taken
      BY <2>1 DEF Taken
    <3>2. \A q \in Objects \ Taken : objects'[q] = NoStructure
      BY <2>2 DEF MemoryIInv, OnlyTaken
    <3> QED
      BY <3>1, <3>2 DEF MemoryIInv, OnlyTaken
  <2>6. Reached'
    <3>1. SUFFICES ASSUME NEW b \in heap'
                   PROVE  \/ b[1] \in Live' /\ b \in Blocks(objects'[b[1]])
                          \/ ReplacedTopic(b)
                          \/ b[1] \notin Live' /\ LeftBehind(b)
      BY DEF Reached
    <3>2. b \in heap /\ b \notin freedBlocks
      BY <2>1
    <3>3. \/ b[1] \in Live /\ b \in Blocks(objects[b[1]])
          \/ ReplacedTopic(b)
          \/ b[1] \notin Live /\ LeftBehind(b)
      BY <3>2 DEF MemoryIInv, Reached
    <3>4. CASE b[1] = o /\ b[1] \in Live /\ b \in Blocks(objects[b[1]])
      <4>1. PICK p \in DOMAIN s : b = s[p]
        BY <3>4 DEF Blocks
      <4>2. \A q \in Freed(s) : s[q] # s[p]
        BY <3>2, <4>1 DEF freedBlocks
      <4>3. LeftBehind(b)
        BY <3>4, <4>1, <4>2, DestroyLeaves
      <4> QED
        BY <2>3, <3>4, <4>3
    <3>5. CASE b[1] # o /\ b[1] \in Live /\ b \in Blocks(objects[b[1]])
      <4>1. objects'[b[1]] = objects[b[1]]
        BY <2>2, <3>5 DEF Live
      <4> QED
        BY <2>3, <3>5, <4>1
    <3> QED
      BY <2>3, <3>3, <3>4, <3>5
  <2>7. DanglingOnlyIcons'
    <3>1. SUFFICES ASSUME NEW q \in Live', NEW p \in DOMAIN objects'[q],
                          ~(type = "channel" /\ p = <<"icon">>)
                   PROVE  objects'[q][p] \in heap'
      BY <2>1 DEF DanglingOnlyIcons, MemoryIInv
    <3>2. q \in Live /\ q # o /\ objects'[q] = objects[q] /\ q \in Objects
      BY <2>2, <2>3 DEF Live
    <3>3. objects[q][p] \in heap
      BY <3>1, <3>2 DEF MemoryIInv, DanglingOnlyIcons
    <3>4. objects[q][p] \notin freedBlocks
      <4>1. SUFFICES ASSUME NEW r \in Freed(s), objects[q][p] = s[r]
                     PROVE  FALSE
        BY DEF freedBlocks
      <4>2. r \in DOMAIN s
        BY FreedWithin
      <4>3. o \in Live
        BY <4>2, NoStructureFormed DEF Live
      <4>4. CASE p # <<"icon">>
        <5>1. {objects[q][x] : x \in DOMAIN objects[q] \ {<<"icon">>}}
                \cap Blocks(objects[o]) = {}
          BY <3>2, <4>3, FormedShares DEF SharedOnlyIcons, MemoryIInv
        <5>2. objects[q][p] \in Blocks(objects[o])
          BY <4>1, <4>2 DEF Blocks
        <5>3. p \in DOMAIN objects[q] \ {<<"icon">>}
          BY <3>1, <3>2, <4>4
        <5> QED
          BY <5>1, <5>2, <5>3
      <4>5. CASE p = <<"icon">>
        <5>1. type # "channel"
          BY <3>1, <4>5
        <5>2. objects[q][p][1] = q
          BY <3>1, <3>2, <5>1, BlocksOwn DEF MemoryIInv, AllFormed
        <5>3. s[r][1] = o
          BY <4>2, <5>1, BlocksOwn DEF MemoryIInv, AllFormed
        <5> QED
          BY <3>2, <4>1, <5>2, <5>3
      <4> QED
        BY <4>4, <4>5
    <3> QED
      BY <2>1, <3>2, <3>3, <3>4
  <2> QED
    BY <2>2, <2>4, <2>5, <2>6, <2>7 DEF MemoryIInv
<1> QED
  BY <1>2, <1>3

(* Structures made from JSON.                                              *)
LEMMA MadeFormed ==
    ASSUME EventsTypeOK, NEW o \in Objects, NEW parts,
           IF type = "interaction" THEN parts \in InteractionParts
           ELSE parts \in Parts /\ o \in 1..MaxSets
    PROVE  LET s == FromJson(o, parts)
           IN  Formed(o, s) /\ \A p \in DOMAIN s : s[p][1] = o
<1> DEFINE s == FromJson(o, parts)
<1>1. CASE type = "channel"
  <2>1. parts \subseteq {<<"topic">>, <<"icon">>} /\ o \in 1..MaxSets
    BY <1>1, PartsAssumption DEF Parts
  <2>2. s = [p \in {<<>>} \cup parts |-> <<o, p>>]
    BY <1>1 DEF FromJson, json_to_channel
  <2> HIDE DEF s
  <2>3. DOMAIN s = {<<>>} \cup parts /\ \A p \in DOMAIN s : s[p] = <<o, p>>
    BY <2>2
  <2>4. ChannelFormed(o, s)
    BY <2>1, <2>3 DEF ChannelFormed
  <2> QED
    BY <1>1, <2>3, <2>4 DEF Formed, s
<1>2. CASE type # "channel"
  <2>1. Whole(parts) /\ \A p \in parts : Along(MadeOf, type, p)
    <3>1. CASE type = "message"
      BY <3>1, PartsAssumption DEF Parts
    <3>2. CASE type = "interaction"
      BY <3>2, PartsAssumption
    <3> QED
      BY <1>2, <3>1, <3>2 DEF EventsTypeOK
  <2>2. s = FromParts(o, parts) /\ type \in {"message", "interaction"}
    BY <1>2 DEF FromJson, EventsTypeOK
  <2>3. PartsFormed(type, o, s)
    BY <2>1, <2>2, FromPartsComplete
  <2> HIDE DEF s
  <2>4. Formed(o, s)
    BY <1>2, <2>3 DEF Formed
  <2> QED
    BY <1>2, <2>4, BlocksOwn DEF s
<1> QED
  BY <1>1, <1>2

LEMMA CopyFormed ==
    ASSUME type \in {"channel", "message"}, MaxSets \in Nat, NEW a, NEW s, Formed(a, s),
           NEW c \in Int, c > MaxSets
    PROVE  Formed(c, Copy(c, s))
<1>1. CASE type = "message"
  BY <1>1, CopyPartsFormed DEF Formed, Copy
<1>2. CASE type = "channel"
  <2> DEFINE r == copy_channel(c, s)
  <2>1. ChannelFormed(a, s)
    BY <1>2 DEF Formed
  <2>2. CASE <<"icon">> \notin DOMAIN s
    <3>1. DOMAIN r = DOMAIN s /\ \A p \in DOMAIN r : r[p] = <<c, p>>
      BY <2>2 DEF copy_channel
    <3> HIDE DEF r
    <3> QED
      BY <1>2, <2>1, <2>2, <3>1 DEF Formed, Copy, ChannelFormed, r
  <2>3. CASE <<"icon">> \in DOMAIN s
    <3>1. /\ DOMAIN r = DOMAIN s \cup {<<"topic">>}
          /\ r[<<"icon">>] = s[<<"icon">>]
          /\ \A p \in DOMAIN r \ {<<"icon">>} : r[p] = <<c, p>> \/ r[p] = <<c, <<"icon">>>>
      BY <2>3 DEF copy_channel
    <3>2. \E x \in 1..MaxSets : s[<<"icon">>] = <<x, <<"icon">>>>
      BY <2>1, <2>3 DEF ChannelFormed
    <3>3. ~(c <= MaxSets)
      OBVIOUS
    <3> HIDE DEF r
    <3>4. ChannelFormed(c, r)
      BY <2>1, <3>1, <3>2, <3>3 DEF ChannelFormed
    <3> QED
      BY <1>2, <3>4 DEF Formed, Copy, r
  <2> QED
    BY <2>2, <2>3
<1> QED
  BY <1>1, <1>2

(* What is allocated for a copy.                                           *)
LEMMA CopyBlocksFit ==
    ASSUME NEW c, c > MaxSets, NEW s, Formed(c, Copy(c, s))
    PROVE  /\ \A b \in CopyBlocks(c, s) :
                b[1] = c /\ (b \in Blocks(Copy(c, s)) \/ ReplacedTopic(b))
           /\ \A p \in DOMAIN Copy(c, s) :
                Copy(c, s)[p] \in CopyBlocks(c, s) \/ (type = "channel" /\ p = <<"icon">>)
<1> DEFINE r == Copy(c, s)
<1> HIDE DEF r
<1>1. Formed(c, r)
  BY DEF r
<1>2. CopyBlocks(c, s) = {b \in Blocks(r) : b[1] = c}
        \cup {<<c, p>> : p \in DOMAIN s \cap {<<"topic">>}}
  BY DEF CopyBlocks, r
<1>3. ASSUME NEW p \in DOMAIN r, ~(type = "channel" /\ p = <<"icon">>)
      PROVE  r[p] \in CopyBlocks(c, s)
  <2>1. r[p][1] = c
    BY <1>1, <1>3, BlocksOwn
  <2>2. r[p] \in Blocks(r)
    BY DEF Blocks
  <2> QED
    BY <1>2, <2>1, <2>2
<1>4. ASSUME NEW b \in CopyBlocks(c, s)
      PROVE  b[1] = c /\ (b \in Blocks(r) \/ ReplacedTopic(b))
  BY <1>2 DEF ReplacedTopic
<1> QED
  BY <1>3, <1>4 DEF r

(* The numbers the next objects get.                                       *)
LEMMA NextNumbers ==
    ASSUME EventsTypeOK, IInv
    PROVE  /\ sets \in 0..MaxSets /\ MaxSets \in Nat /\ copies \in Nat /\ MaxCopies \in Nat
           /\ sets < MaxSets => /\ sets + 1 \in Objects \ Taken
                                /\ sets + 1 \in 1..MaxSets
           /\ \A i \in 1..2 : copies + i <= MaxCopies =>
                /\ MaxSets + copies + i \in Objects \ Taken
                /\ MaxSets + copies + i > MaxSets
                /\ MaxSets + copies + i \in Int
<1>1. sets \in 0..MaxSets
  BY DEF IInv, TypeOK
<1> QED
  BY <1>1, ObjectNumbers DEF Taken, Objects

(* Nothing is allocated.                                                   *)
LEMMA SameGrows ==
    ASSUME EventsTypeOK, UNCHANGED <<objects, heap, type>>, Taken \subseteq Taken',
           misuse' = "double" => misuse = "double"
    PROVE  Grows({})
BY DEF Grows, EventsTypeOK

LEMMA TakenGrows ==
    ASSUME IInv, EventsTypeOK, sets' \in {sets, sets + 1}, copies' \in Int, copies <= copies'
    PROVE  Taken \subseteq Taken'
BY ObjectNumbers DEF Taken, IInv, TypeOK

(* An object made from JSON and a copy of it.                              *)
LEMMA PairGrows ==
    ASSUME EventsTypeOK, MaxSets \in Nat, type # "interaction",
           NEW o \in Objects \ Taken, o \in 1..MaxSets,
           NEW c \in Objects \ Taken, c \in Int, c > MaxSets,
           NEW s, Formed(o, s), \A p \in DOMAIN s : s[p][1] = o,
           objects' = [objects EXCEPT ![o] = s, ![c] = Copy(c, s)],
           heap' = heap \cup Blocks(s) \cup CopyBlocks(c, s),
           Taken \cup {o, c} \subseteq Taken', type' = type, misuse' # "double"
    PROVE  Grows({o, c})
<1> DEFINE r == Copy(c, s)
<1>1. /\ objects' = [objects EXCEPT ![o] = s, ![c] = r]
      /\ heap' = heap \cup Blocks(s) \cup CopyBlocks(c, s)
      /\ o # c
  OBVIOUS
<1>2. Formed(c, r)
  BY CopyFormed DEF EventsTypeOK
<1>3. /\ \A b \in CopyBlocks(c, s) : b[1] = c /\ (b \in Blocks(r) \/ ReplacedTopic(b))
      /\ \A p \in DOMAIN r : r[p] \in CopyBlocks(c, s) \/ (type = "channel" /\ p = <<"icon">>)
  BY <1>2, CopyBlocksFit
<1> HIDE DEF r
<1>4. /\ DOMAIN objects' = Objects /\ objects'[o] = s /\ objects'[c] = r
      /\ \A q \in Objects \ {o, c} : objects'[q] = objects[q]
  BY <1>1 DEF EventsTypeOK
<1>5. /\ \A b \in Blocks(s) : b[1] = o
      /\ \A p \in DOMAIN s : s[p] \in Blocks(s)
  BY DEF Blocks
<1>6. ASSUME NEW q \in {o, c}
      PROVE  /\ Formed(q, objects'[q])
             /\ \A p \in DOMAIN objects'[q] :
                    objects'[q][p] \in heap' \/ (type = "channel" /\ p = <<"icon">>)
  <2>1. CASE q = o
    <3>1. objects'[q] = s /\ Formed(q, s)
      BY <1>4, <2>1
    <3>2. \A p \in DOMAIN s : s[p] \in heap'
      BY <1>1, <1>5
    <3> QED
      BY <3>1, <3>2
  <2>2. CASE q = c
    <3>1. objects'[q] = r /\ Formed(q, r)
      BY <1>2, <1>4, <2>2
    <3>2. \A p \in DOMAIN r : r[p] \in heap' \/ (type = "channel" /\ p = <<"icon">>)
      BY <1>1, <1>3
    <3> QED
      BY <3>1, <3>2
  <2> QED
    BY <2>1, <2>2
<1>7. ASSUME NEW b \in heap' \ heap
      PROVE  b[1] \in {o, c} /\ (b \in Blocks(objects'[b[1]]) \/ ReplacedTopic(b))
  <2>1. b \in Blocks(s) \/ b \in CopyBlocks(c, s)
    BY <1>1
  <2> QED
    BY <1>3, <1>4, <1>5, <2>1
<1> QED
  BY <1>1, <1>4, <1>6, <1>7 DEF Grows

LEMMA CreateGrows ==
    ASSUME IInv, EventsTypeOK, NEW id \in Ids, NEW parts \in Parts, ReceiveCreate(id, parts)
    PROVE  Grows({sets + 1, MaxSets + copies + 1})
<1> DEFINE o == sets + 1
           c == MaxSets + copies + 1
           s == FromJson(o, parts)
<1>1. /\ misuse = "none" /\ type # "interaction" /\ copies < MaxCopies /\ copies' = copies + 1
      /\ objects' = [objects EXCEPT ![o] = s, ![c] = Copy(c, s)]
      /\ heap' = heap \cup Blocks(s) \cup CopyBlocks(c, s)
      /\ misuse' \in {"none", "shape"}
      /\ Store(id) /\ type' = type
  BY DEF ReceiveCreate, Sound
<1>2. sets' = sets + 1 /\ sets < MaxSets
  BY <1>1, StoreSteps
<1>3. /\ o \in Objects \ Taken /\ o \in 1..MaxSets
      /\ c \in Objects \ Taken /\ c > MaxSets /\ c \in Int
      /\ MaxSets \in Nat /\ sets \in 0..MaxSets /\ copies \in Nat
  <2>1. 1 \in 1..2 /\ copies + 1 <= MaxCopies
    BY <1>1, NextNumbers
  <2> QED
    BY <1>2, <2>1, NextNumbers
<1>4. Formed(o, s) /\ \A p \in DOMAIN s : s[p][1] = o
  BY <1>1, <1>3, MadeFormed
<1>5. Taken \subseteq Taken'
  BY <1>1, <1>2, <1>3, TakenGrows
<1>6. o \in Taken' /\ c \in Taken'
  BY <1>1, <1>2, <1>3 DEF Taken
<1> HIDE DEF o, c, s
<1>7. Grows({o, c})
  BY <1>1, <1>3, <1>4, <1>5, <1>6, PairGrows
<1> QED
  BY <1>7 DEF o, c

(* An object made from JSON alone.                                         *)
LEMMA MadeGrows ==
    ASSUME EventsTypeOK, NEW o \in Objects \ Taken, NEW s, Formed(o, s),
           \A p \in DOMAIN s : s[p][1] = o,
           objects' = [objects EXCEPT ![o] = s], heap' = heap \cup Blocks(s),
           Taken \cup {o} \subseteq Taken', UNCHANGED <<type, misuse>>
    PROVE  Grows({o})
<1>1. /\ DOMAIN objects' = Objects /\ objects'[o] = s
      /\ \A q \in Objects \ {o} : objects'[q] = objects[q]
  BY DEF EventsTypeOK
<1>2. /\ \A b \in Blocks(s) : b[1] = o
      /\ \A p \in DOMAIN s : s[p] \in Blocks(s)
  BY DEF Blocks
<1> QED
  BY <1>1, <1>2 DEF Grows

LEMMA ListMessageGrows ==
    ASSUME IInv, EventsTypeOK,
           NEW id \in Ids, NEW parts \in Parts, ListMessage(id, parts)
    PROVE  Grows({sets + 1})
<1> DEFINE o == sets + 1
           s == FromJson(o, parts)
<1>1. /\ objects' = [objects EXCEPT ![o] = s] /\ heap' = heap \cup Blocks(s)
      /\ Store(id) /\ type = "message" /\ UNCHANGED <<type, copies, misuse>>
  BY DEF ListMessage, EventsTypeOK
<1>2. sets' = sets + 1 /\ sets < MaxSets
  BY <1>1, StoreSteps
<1>3. o \in Objects \ Taken /\ o \in 1..MaxSets /\ sets \in 0..MaxSets /\ copies \in Nat
  BY <1>2, NextNumbers
<1>4. Formed(o, s) /\ \A p \in DOMAIN s : s[p][1] = o
  BY <1>1, <1>3, MadeFormed
<1>5. Taken \cup {o} \subseteq Taken'
  BY <1>1, <1>2, <1>3, TakenGrows DEF Taken
<1> HIDE DEF o, s
<1>6. Grows({o})
  BY <1>1, <1>3, <1>4, <1>5, MadeGrows
<1> QED
  BY <1>6 DEF o

LEMMA InteractionGrows ==
    ASSUME IInv, EventsTypeOK, NEW parts \in InteractionParts, ReceiveInteraction(parts)
    PROVE  Grows({MaxSets + copies + 1})
<1> DEFINE o == MaxSets + copies + 1
           s == FromJson(o, parts)
<1>1. /\ objects' = [objects EXCEPT ![o] = s] /\ heap' = heap \cup Blocks(s)
      /\ type = "interaction" /\ UNCHANGED <<type, misuse, sets>>
      /\ copies < MaxCopies /\ copies' = copies + 1
  BY DEF ReceiveInteraction, vars
<1>2. o \in Objects \ Taken /\ sets \in 0..MaxSets /\ copies \in Nat /\ MaxSets \in Nat
  <2>1. 1 \in 1..2 /\ copies + 1 <= MaxCopies
    BY <1>1, NextNumbers
  <2> QED
    BY <2>1, NextNumbers
<1>3. Formed(o, s) /\ \A p \in DOMAIN s : s[p][1] = o
  BY <1>1, <1>2, MadeFormed
<1>4. Taken \cup {o} \subseteq Taken'
  BY <1>1, <1>2, TakenGrows DEF Taken
<1> HIDE DEF o, s
<1>5. Grows({o})
  BY <1>1, <1>2, <1>3, <1>4, MadeGrows
<1> QED
  BY <1>5 DEF o

(* The copy of a cached object.                                            *)
LEMMA CachedCopied ==
    ASSUME IInv, EventsTypeOK, AllFormed, type # "interaction", event.got # NoNode,
           NEW a \in Int, a > MaxSets
    PROVE  LET k == objects[event.got.nr]
           IN  /\ Formed(a, Copy(a, k))
               /\ \A b \in CopyBlocks(a, k) :
                    b[1] = a /\ (b \in Blocks(Copy(a, k)) \/ ReplacedTopic(b))
               /\ \A p \in DOMAIN Copy(a, k) :
                    Copy(a, k)[p] \in CopyBlocks(a, k) \/ (type = "channel" /\ p = <<"icon">>)
<1> DEFINE k == objects[event.got.nr]
<1>1. event.got.nr \in Objects /\ MaxSets \in Nat /\ type \in {"channel", "message"}
  <2>1. event.got \in Node
    BY DEF EventsTypeOK
  <2>2. event.got.nr \in 1..MaxSets
    BY <2>1 DEF Node
  <2> QED
    BY <2>2, ObjectNumbers DEF IInv, TypeOK
<1>2. Formed(event.got.nr, k)
  BY <1>1 DEF AllFormed
<1> HIDE DEF k
<1>3. Formed(a, Copy(a, k))
  BY <1>1, <1>2, CopyFormed
<1>4. /\ \A b \in CopyBlocks(a, k) :
            b[1] = a /\ (b \in Blocks(Copy(a, k)) \/ ReplacedTopic(b))
      /\ \A p \in DOMAIN Copy(a, k) :
            Copy(a, k)[p] \in CopyBlocks(a, k) \/ (type = "channel" /\ p = <<"icon">>)
  BY <1>3, CopyBlocksFit
<1> QED
  BY <1>3, <1>4 DEF k

(* A copy of nothing is nothing.                                           *)
LEMMA EmptyCopy ==
    ASSUME NEW a
    PROVE  CopyBlocks(a, NoStructure) = {}
<1>1. DOMAIN NoStructure = {}
  BY NoStructureFormed
<1>2. DOMAIN Copy(a, NoStructure) = {}
  BY <1>1 DEF Copy, copy_channel, CopyParts, copy_member
<1> QED
  BY <1>1, <1>2 DEF CopyBlocks, Blocks

LEMMA DeleteGrows ==
    ASSUME IInv, EventsTypeOK, AllFormed, FinishDelete
    PROVE  \E F : Grows(F)
<1>1. /\ misuse = "none" /\ type # "interaction" /\ type' = type
      /\ misuse' \in {"none", "shape"} /\ sets' = sets
  BY DEF FinishDelete, Sound, EventsTypeOK, vars
<1>2. sets \in 0..MaxSets /\ MaxSets \in Nat /\ copies \in Nat
  BY NextNumbers
<1>3. CASE event.got = NoNode
  <2>1. copies' = copies /\ objects' = objects
        /\ heap' = heap \cup CopyBlocks(MaxSets + copies + 1, NoStructure)
    BY <1>3 DEF FinishDelete
  <2>2. heap' = heap
    BY <2>1, EmptyCopy
  <2>3. Taken \subseteq Taken'
    BY <1>1, <1>2, <2>1 DEF Taken
  <2> QED
    BY <1>1, <2>1, <2>2, <2>3, SameGrows
<1>4. CASE event.got # NoNode
  <2> DEFINE a == MaxSets + copies + 1
             k == objects[event.got.nr]
             r == Copy(a, k)
  <2>1. /\ copies < MaxCopies /\ copies' = copies + 1
        /\ objects' = [objects EXCEPT ![a] = r]
        /\ heap' = heap \cup CopyBlocks(a, k)
    BY <1>4 DEF FinishDelete
  <2>2. a \in Objects \ Taken /\ a > MaxSets /\ a \in Int
    <3>1. 1 \in 1..2 /\ copies + 1 <= MaxCopies
      BY <2>1, NextNumbers
    <3> QED
      BY <3>1, NextNumbers
  <2>3. /\ Formed(a, r)
        /\ \A b \in CopyBlocks(a, k) : b[1] = a /\ (b \in Blocks(r) \/ ReplacedTopic(b))
        /\ \A p \in DOMAIN r : r[p] \in CopyBlocks(a, k) \/ (type = "channel" /\ p = <<"icon">>)
    BY <1>1, <1>4, <2>2, CachedCopied
  <2>4. Taken \subseteq Taken' /\ a \in Taken'
    BY <1>1, <1>2, <2>1 DEF Taken
  <2> HIDE DEF a, k, r
  <2>5. /\ DOMAIN objects' = Objects /\ objects'[a] = r
        /\ \A q \in Objects \ {a} : objects'[q] = objects[q]
    BY <2>1, <2>2 DEF EventsTypeOK
  <2>6. Grows({a})
    BY <1>1, <2>1, <2>2, <2>3, <2>4, <2>5 DEF Grows
  <2> QED
    BY <2>6
<1> QED
  BY <1>3, <1>4

LEMMA UpdateGrows ==
    ASSUME IInv, EventsTypeOK, AllFormed, NEW parts \in Parts, FinishUpdate(parts)
    PROVE  \E F : Grows(F)
<1> DEFINE o == sets + 1
           a == MaxSets + copies + 1
           s == FromJson(o, parts)
<1>1. /\ misuse = "none" /\ type # "interaction" /\ type' = type
      /\ misuse' \in {"none", "shape"} /\ Store(event.id) /\ event.id \in Ids
  BY DEF FinishUpdate, Sound, EventsTypeOK
<1>2. sets' = sets + 1 /\ sets < MaxSets
  BY <1>1, StoreSteps
<1>3. /\ o \in Objects \ Taken /\ o \in 1..MaxSets
      /\ MaxSets \in Nat /\ sets \in 0..MaxSets /\ copies \in Nat /\ MaxCopies \in Nat
  BY <1>2, NextNumbers
<1>4. Formed(o, s) /\ \A p \in DOMAIN s : s[p][1] = o
  BY <1>1, <1>3, MadeFormed
<1>5. 1 \in 1..2 /\ 2 \in 1..2
  OBVIOUS
<1>6. CASE event.got = NoNode
  <2>1. /\ a <= MaxSets + MaxCopies /\ copies' = a - MaxSets
        /\ objects' = [objects EXCEPT ![o] = s, ![a] = Copy(a, s)]
        /\ heap' = heap \cup Blocks(s) \cup CopyBlocks(a, s) \cup CopyBlocks(a, NoStructure)
    BY <1>6 DEF FinishUpdate
  <2>2. copies + 1 <= MaxCopies /\ copies' = copies + 1
    BY <1>3, <2>1
  <2>3. a \in Objects \ Taken /\ a > MaxSets /\ a \in Int
    BY <1>5, <2>2, NextNumbers
  <2>4. Taken \subseteq Taken' /\ o \in Taken' /\ a \in Taken'
    BY <1>2, <1>3, <2>2 DEF Taken
  <2>5. heap' = heap \cup Blocks(s) \cup CopyBlocks(a, s)
    BY <2>1, EmptyCopy
  <2> HIDE DEF o, a, s
  <2>6. Grows({o, a})
    BY <1>1, <1>3, <1>4, <2>1, <2>3, <2>4, <2>5, PairGrows
  <2> QED
    BY <2>6
<1>7. CASE event.got # NoNode
  <2> DEFINE c == a + 1
             k == objects[event.got.nr]
             r == Copy(c, s)
             t == Copy(a, k)
  <2>1. /\ c <= MaxSets + MaxCopies /\ copies' = c - MaxSets
        /\ objects' = [[objects EXCEPT ![o] = s, ![c] = r] EXCEPT ![a] = t]
        /\ heap' = heap \cup Blocks(s) \cup CopyBlocks(c, s) \cup CopyBlocks(a, k)
    BY <1>7 DEF FinishUpdate
  <2>2. /\ copies + 1 <= MaxCopies /\ copies + 2 <= MaxCopies /\ copies' = copies + 2
        /\ c = MaxSets + copies + 2
    BY <1>3, <2>1
  <2>3. /\ a \in Objects \ Taken /\ a > MaxSets /\ a \in Int
        /\ c \in Objects \ Taken /\ c > MaxSets /\ c \in Int
    BY <1>5, <2>2, NextNumbers
  <2>4. o # a /\ o # c /\ a # c
    BY <1>3, <2>3
  <2>5. Taken \subseteq Taken' /\ o \in Taken' /\ a \in Taken' /\ c \in Taken'
    BY <1>2, <1>3, <2>2 DEF Taken
  <2>6. /\ Formed(a, t)
        /\ \A b \in CopyBlocks(a, k) : b[1] = a /\ (b \in Blocks(t) \/ ReplacedTopic(b))
        /\ \A p \in DOMAIN t : t[p] \in CopyBlocks(a, k) \/ (type = "channel" /\ p = <<"icon">>)
    BY <1>1, <1>7, <2>3, CachedCopied
  <2> HIDE DEF o, a, s, k, t, c
  <2>7. Formed(c, r)
    BY <1>1, <1>3, <1>4, <2>3, CopyFormed DEF EventsTypeOK
  <2>8. /\ \A b \in CopyBlocks(c, s) : b[1] = c /\ (b \in Blocks(r) \/ ReplacedTopic(b))
        /\ \A p \in DOMAIN r : r[p] \in CopyBlocks(c, s) \/ (type = "channel" /\ p = <<"icon">>)
    BY <2>3, <2>7, CopyBlocksFit
  <2> HIDE DEF r
  <2>9. /\ DOMAIN objects' = Objects
        /\ objects'[o] = s /\ objects'[c] = r /\ objects'[a] = t
        /\ \A q \in Objects \ {o, c, a} : objects'[q] = objects[q]
    BY <1>3, <2>1, <2>3, <2>4 DEF EventsTypeOK
  <2>10. /\ \A b \in Blocks(s) : b[1] = o
         /\ \A p \in DOMAIN s : s[p] \in Blocks(s)
    BY <1>4 DEF Blocks
  <2>11. ASSUME NEW q \in {o, c, a}
         PROVE  /\ Formed(q, objects'[q])
                /\ \A p \in DOMAIN objects'[q] :
                      objects'[q][p] \in heap' \/ (type = "channel" /\ p = <<"icon">>)
    <3>1. CASE q = o
      <4>1. objects'[q] = s /\ Formed(q, s)
        BY <1>4, <2>9, <3>1
      <4>2. \A p \in DOMAIN s : s[p] \in heap'
        BY <2>1, <2>10
      <4> QED
        BY <4>1, <4>2
    <3>2. CASE q = c
      <4>1. objects'[q] = r /\ Formed(q, r)
        BY <2>7, <2>9, <3>2
      <4>2. \A p \in DOMAIN r : r[p] \in heap' \/ (type = "channel" /\ p = <<"icon">>)
        BY <2>1, <2>8
      <4> QED
        BY <4>1, <4>2
    <3>3. CASE q = a
      <4>1. objects'[q] = t /\ Formed(q, t)
        BY <2>6, <2>9, <3>3
      <4>2. \A p \in DOMAIN t : t[p] \in heap' \/ (type = "channel" /\ p = <<"icon">>)
        BY <2>1, <2>6
      <4> QED
        BY <4>1, <4>2
    <3> QED
      BY <3>1, <3>2, <3>3
  <2>12. ASSUME NEW b \in heap' \ heap
         PROVE  b[1] \in {o, c, a} /\ (b \in Blocks(objects'[b[1]]) \/ ReplacedTopic(b))
    <3>1. b \in Blocks(s) \/ b \in CopyBlocks(c, s) \/ b \in CopyBlocks(a, k)
      BY <2>1
    <3>2. CASE b \in Blocks(s)
      BY <2>9, <2>10, <3>2
    <3>3. CASE b \in CopyBlocks(c, s)
      BY <2>8, <2>9, <3>3
    <3>4. CASE b \in CopyBlocks(a, k)
      BY <2>6, <2>9, <3>4
    <3> QED
      BY <3>1, <3>2, <3>3, <3>4
  <2>13. Grows({o, c, a})
    BY <1>1, <1>3, <2>1, <2>3, <2>5, <2>9, <2>11, <2>12 DEF Grows
  <2> QED
    BY <2>13
<1> QED
  BY <1>6, <1>7

(* Every action but the ones that destroy makes structures, or none.       *)
LEMMA OthersGrow ==
    ASSUME IInv, EventsTypeOK, AllFormed, EventsNext,
           ~Evict, \A c \in Objects : ~UserDestroys(c)
    PROVE  \E F : Grows(F)
<1>1. ASSUME NEW id \in Ids, NEW parts \in Parts, ReceiveCreate(id, parts)
      PROVE  \E F : Grows(F)
  BY <1>1, CreateGrows
<1>2. ASSUME NEW id \in Ids, NEW parts \in Parts, ListMessage(id, parts)
      PROVE  \E F : Grows(F)
  BY <1>2, ListMessageGrows
<1>3. ASSUME NEW parts \in Parts, FinishUpdate(parts)
      PROVE  \E F : Grows(F)
  BY <1>3, UpdateGrows
<1>4. CASE FinishDelete
  BY <1>4, DeleteGrows
<1>5. ASSUME NEW parts \in InteractionParts, ReceiveInteraction(parts)
      PROVE  \E F : Grows(F)
  BY <1>5, InteractionGrows
<1>6. ASSUME UNCHANGED <<objects, heap, type, sets, copies>>,
             misuse' = "double" => misuse = "double"
      PROVE  \E F : Grows(F)
  BY <1>6, SameGrows DEF Taken
<1>7. ASSUME NEW id \in Ids, ReceiveUpdate(id) \/ ReceiveDelete(id)
      PROVE  \E F : Grows(F)
  BY <1>6, <1>7 DEF ReceiveUpdate, ReceiveDelete, Get
<1>8. CASE CopyGone \/ Deliver \/ ReceiveList \/ CallList \/ ListDone
  BY <1>6, <1>8 DEF CopyGone, Deliver, ReceiveList, CallList, ListDone, vars, eventVars
<1> QED
  BY <1>1, <1>2, <1>3, <1>4, <1>5, <1>7, <1>8 DEF EventsNext

(* The clean-up loop destroys the object of the node it frees.             *)
LEMMA EvictDestroys ==
    ASSUME IInv, EvictFirst
    PROVE  \/ UNCHANGED <<queue, freed>>
           \/ \E n \in Node : /\ freed' \ freed = {n}
                              /\ Nodes(queue') = Nodes(queue) \ {n}
<1> DEFINE id == Head(queue).id
<1>1. /\ queue \in Seq(Node) /\ IsInjective(queue) /\ DeleteBinding(id)
      /\ Nodes(queue) \cap freed = {}
  BY DEF EvictFirst, IInv, TypeOK, LinkedOnce
<1>2. id \in Ids
  <2>1. Head(queue) \in Node
    BY HeadTailProperties DEF EvictFirst, IInv, TypeOK
  <2> QED
    BY <2>1 DEF Node
<1> HIDE DEF id
<1>3. CASE map[id] = NoNode
  BY <1>1, <1>3 DEF DeleteBinding
<1>4. CASE map[id] # NoNode
  <2>1. queue' = Without(queue, map[id]) /\ freed' = freed \cup {map[id]}
    BY <1>1, <1>4 DEF DeleteBinding
  <2>2. map[id] \in Nodes(queue) /\ map[id] \in Node
    BY <1>2, <1>4, KnownAreNodes DEF IInv, MapIsNewestInQueue, Mapped
  <2>3. Nodes(queue') = Nodes(queue) \ {map[id]}
    BY <1>1, <2>1, <2>2, WithoutLacks DEF Lacks
  <2> QED
    BY <1>1, <2>1, <2>2, <2>3
<1> QED
  BY <1>3, <1>4

LEMMA MemoryStep ==
    ASSUME IInv, EventsTypeOK, MemoryIInv, [EventsNext]_allVars
    PROVE  MemoryIInv' /\ DOMAIN objects' = Objects
<1>1. ASSUME UNCHANGED <<objects, heap, type, sets, copies>>,
             misuse' = "double" => misuse = "double"
      PROVE  MemoryIInv' /\ DOMAIN objects' = Objects
  <2>1. Grows({})
    BY <1>1, SameGrows DEF Taken
  <2> QED
    BY <2>1, GrowsKeeps DEF Grows
<1>2. CASE EventsNext /\ ~Evict /\ \A c \in Objects : ~UserDestroys(c)
  <2>1. PICK F : Grows(F)
    BY <1>2, OthersGrow DEF MemoryIInv
  <2> QED
    BY <2>1, GrowsKeeps DEF Grows
<1>3. ASSUME NEW c \in Objects, UserDestroys(c)
      PROVE  MemoryIInv' /\ DOMAIN objects' = Objects
  <2>1. DestroyObject(c) /\ misuse = "none" /\ UNCHANGED <<type, sets, copies>>
    BY <1>3 DEF UserDestroys, Sound, vars
  <2> QED
    BY <2>1, DestroyKeeps DEF IInv, TypeOK
<1>4. CASE Evict
  <2>1. EvictFirst /\ misuse = "none" /\ UNCHANGED <<type, sets, copies>>
    BY <1>4 DEF Evict, Sound, EvictFirst
  <2>2. CASE UNCHANGED <<objects, heap, misuse>>
    BY <1>1, <2>1, <2>2
  <2>3. CASE ~UNCHANGED <<objects, heap, misuse>>
    <3>1. PICK n \in freed' \ freed : DestroyObject(n.nr)
      BY <1>4, <2>3 DEF Evict
    <3>2. n \in Node
      BY <2>1, <3>1, EvictDestroys
    <3>3. n.nr \in Objects
      <4>1. n.nr \in 1..MaxSets
        BY <3>2 DEF Node
      <4> QED
        BY <4>1, ObjectNumbers DEF IInv, TypeOK
    <3> QED
      BY <2>1, <3>1, <3>3, DestroyKeeps DEF IInv, TypeOK
  <2> QED
    BY <2>2, <2>3
<1>5. CASE UNCHANGED allVars
  BY <1>1, <1>5 DEF allVars, vars
<1> QED
  BY <1>2, <1>3, <1>4, <1>5

-----------------------------------------------------------------------------
(* What is lost.                                                           *)

LEMMA LostFinite ==
    ASSUME IInv
    PROVE  /\ IsFiniteSet(Lost) /\ Cardinality(Lost) \in Nat
           /\ failed \in Nat
           /\ \A S \in SUBSET Lost : IsFiniteSet(S) /\ Cardinality(S) <= Cardinality(Lost)
           /\ \A x : Cardinality(Lost \cup {x}) <= Cardinality(Lost) + 1
                     /\ IsFiniteSet(Lost \cup {x})
<1>1. IsFiniteSet(Lost)
  <2>1. Lost \subseteq 1..MaxSets
    BY BoundsAssumption, EventBoundsAssumption DEF Lost, Live, Objects
  <2>2. IsFiniteSet(1..MaxSets)
    BY BoundsAssumption, FS_Interval
  <2> QED
    BY <2>1, <2>2, FS_Subset
<1>2. Cardinality(Lost) \in Nat
  BY <1>1, FS_CardinalityType
<1>3. \A S \in SUBSET Lost : IsFiniteSet(S) /\ Cardinality(S) <= Cardinality(Lost)
  BY <1>1, FS_Subset
<1>4. \A x : Cardinality(Lost \cup {x}) <= Cardinality(Lost) + 1 /\ IsFiniteSet(Lost \cup {x})
  BY <1>1, <1>2, FS_AddElement
<1>5. failed \in Nat
  BY BoundsAssumption DEF IInv, TypeOK
<1> QED
  BY <1>1, <1>2, <1>3, <1>4, <1>5

(* Lost objects are only found or destroyed, or added by a failure.        *)
LEMMA LostFewer ==
    ASSUME IInv, LostCounted, misuse = "none",
           \/ Lost' \subseteq Lost /\ failed' = failed
           \/ failed' = failed + 1 /\ \E x : Lost' \subseteq Lost \cup {x}
    PROVE  LostCounted'
<1>1. Cardinality(Lost) <= failed
  BY DEF LostCounted
<1>2. /\ IsFiniteSet(Lost) /\ Cardinality(Lost) \in Nat /\ failed \in Nat
      /\ \A S \in SUBSET Lost : IsFiniteSet(S) /\ Cardinality(S) <= Cardinality(Lost)
      /\ \A x : Cardinality(Lost \cup {x}) <= Cardinality(Lost) + 1
                /\ IsFiniteSet(Lost \cup {x})
  BY LostFinite
<1>3. CASE Lost' \subseteq Lost /\ failed' = failed
  <2>1. Cardinality(Lost') \in Nat /\ Cardinality(Lost') <= Cardinality(Lost)
    BY <1>2, <1>3, FS_CardinalityType
  <2> QED
    BY <1>1, <1>2, <1>3, <2>1 DEF LostCounted
<1>4. CASE failed' = failed + 1 /\ \E x : Lost' \subseteq Lost \cup {x}
  <2>1. PICK x : Lost' \subseteq Lost \cup {x}
    BY <1>4
  <2>2. IsFiniteSet(Lost \cup {x}) /\ Cardinality(Lost \cup {x}) <= Cardinality(Lost) + 1
    BY <1>2
  <2>3. /\ Cardinality(Lost') \in Nat /\ Cardinality(Lost \cup {x}) \in Nat
        /\ Cardinality(Lost') <= Cardinality(Lost \cup {x})
    BY <2>1, <2>2, FS_Subset, FS_CardinalityType
  <2> QED
    BY <1>1, <1>2, <1>4, <2>2, <2>3 DEF LostCounted
<1> QED
  BY <1>3, <1>4

(* What the actions that do not evict ask of the cache.                    *)
LEMMA OthersCache ==
    ASSUME EventsTypeOK, EventsNext, ~Evict
    PROVE  \/ \E id \in Ids : Set(id) \/ SetFails(id) \/ Get(id)
           \/ UNCHANGED vars
<1>1. ASSUME NEW id \in Ids, NEW parts \in Parts,
             ReceiveCreate(id, parts) \/ ListMessage(id, parts)
      PROVE  Set(id) \/ SetFails(id)
  BY <1>1 DEF ReceiveCreate, ListMessage, Store
<1>2. ASSUME NEW id \in Ids, ReceiveUpdate(id) \/ ReceiveDelete(id)
      PROVE  Get(id)
  BY <1>2 DEF ReceiveUpdate, ReceiveDelete
<1>3. ASSUME NEW parts \in Parts, FinishUpdate(parts)
      PROVE  event.id \in Ids /\ (Set(event.id) \/ SetFails(event.id))
  BY <1>3 DEF FinishUpdate, Store, EventsTypeOK
<1>4. CASE CopyGone \/ FinishDelete \/ Deliver \/ ReceiveList \/ CallList \/ ListDone
  BY <1>4 DEF CopyGone, FinishDelete, Deliver, ReceiveList, CallList, ListDone
<1>5. ASSUME NEW parts \in InteractionParts, ReceiveInteraction(parts)
      PROVE  UNCHANGED vars
  BY <1>5 DEF ReceiveInteraction
<1>6. ASSUME NEW c \in Objects, UserDestroys(c)
      PROVE  UNCHANGED vars
  BY <1>6 DEF UserDestroys
<1> QED
  BY <1>1, <1>2, <1>3, <1>4, <1>5, <1>6 DEF EventsNext

(* Nothing happens after a misuse of memory.                               *)
LEMMA OnlyWhenSound ==
    ASSUME EventsNext
    PROVE  misuse = "none"
<1>1. ASSUME NEW id \in Ids, NEW parts \in Parts,
             ReceiveCreate(id, parts) \/ ListMessage(id, parts)
      PROVE  Sound
  BY <1>1 DEF ReceiveCreate, ListMessage
<1>2. ASSUME NEW id \in Ids, ReceiveUpdate(id) \/ ReceiveDelete(id)
      PROVE  Sound
  BY <1>2 DEF ReceiveUpdate, ReceiveDelete
<1>3. ASSUME NEW parts \in Parts, FinishUpdate(parts)
      PROVE  Sound
  BY <1>3 DEF FinishUpdate
<1>4. CopyGone \/ Deliver \/ Evict => Sound
  BY DEF CopyGone, Deliver, Evict
<1>7. FinishDelete => Sound
  BY DEF FinishDelete
<1>8. ReceiveList \/ CallList \/ ListDone => Sound
  BY DEF ReceiveList, CallList, ListDone
<1>5. ASSUME NEW parts \in InteractionParts, ReceiveInteraction(parts)
      PROVE  Sound
  BY <1>5 DEF ReceiveInteraction
<1>6. ASSUME NEW c \in Objects, UserDestroys(c)
      PROVE  Sound
  BY <1>6 DEF UserDestroys
<1> QED
  BY <1>1, <1>2, <1>3, <1>4, <1>5, <1>6, <1>7, <1>8 DEF EventsNext, Sound

(* Only the structure that Store was called for can be a new loss.         *)
LEMMA LostGrows ==
    ASSUME IInv, EventsTypeOK, NEW F, Grows(F), sets' \in {sets, sets + 1},
           Nodes(queue) \subseteq Nodes(queue')
    PROVE  /\ Lost' \subseteq Lost \cup {sets + 1}
           /\ sets' = sets => Lost' \subseteq Lost
           /\ (\E n \in Nodes(queue') : n.nr = sets + 1) => Lost' \subseteq Lost
<1>1. /\ Objects \subseteq Int /\ MaxSets \in Nat /\ sets \in 0..MaxSets
  BY ObjectNumbers DEF IInv, TypeOK
<1>2. /\ F \subseteq Objects /\ F \cap Taken = {} /\ F \subseteq Taken'
      /\ \A q \in Objects \ F : objects'[q] = objects[q]
  BY DEF Grows
<1>3. ASSUME NEW o \in F, o <= MaxSets
      PROVE  o = sets + 1 /\ sets' = sets + 1
  <2>1. o \notin 1..sets /\ o \in Int
    BY <1>1, <1>2 DEF Taken
  <2>2. o \in 1..sets' \/ o >= MaxSets + 1
    BY <1>2 DEF Taken
  <2> QED
    BY <1>1, <1>3, <2>1, <2>2
<1>4. ASSUME NEW o \in Lost'
      PROVE  o \in Lost \/ (o = sets + 1 /\ sets' = sets + 1)
  <2>1. o \in Objects /\ objects'[o] # NoStructure /\ o <= MaxSets
        /\ \A n \in Nodes(queue') : n.nr # o
    BY DEF Lost, Live
  <2>2. CASE o \in F
    BY <1>3, <2>1, <2>2
  <2>3. CASE o \notin F
    BY <1>2, <2>1, <2>3 DEF Lost, Live
  <2> QED
    BY <2>2, <2>3
<1>5. ASSUME NEW n \in Nodes(queue'), n.nr = sets + 1
      PROVE  sets + 1 \notin Lost'
  BY <1>5 DEF Lost
<1> QED
  BY <1>1, <1>4, <1>5

(* A destroyed object is not lost.                                         *)
LEMMA DestroyedLost ==
    ASSUME EventsTypeOK, NEW o \in Objects, DestroyObject(o), misuse' = "none"
    PROVE  Live' = Live \ {o}
<1>1. objects' = [objects EXCEPT ![o] = NoStructure]
  BY DEF DestroyObject
<1> QED
  BY <1>1 DEF Live, EventsTypeOK

LEMMA LostStep ==
    ASSUME IInv, EventsTypeOK, AllFormed, LostCounted, [EventsNext]_allVars
    PROVE  LostCounted'
<1>1. CASE EventsNext /\ ~Evict /\ \A c \in Objects : ~UserDestroys(c)
  <2>1. PICK F : Grows(F)
    BY <1>1, OthersGrow
  <2>2. misuse = "none" /\ sets \in Int
    BY <1>1, OnlyWhenSound, BoundsAssumption DEF IInv, TypeOK
  <2>3. ASSUME NEW id \in Ids, Set(id)
        PROVE  LostCounted'
    <3>1. sets' = sets + 1 /\ failed' = failed
      BY <2>3 DEF Set
    <3>2. PICK n : /\ n = [id |-> id, nr |-> sets + 1]
                   /\ Nodes(queue') = Nodes(queue) \cup {n}
      BY <2>3, SetLinks
    <3>3. Lost' \subseteq Lost
      <4>1. n \in Nodes(queue') /\ n.nr = sets + 1 /\ Nodes(queue) \subseteq Nodes(queue')
        BY <3>2
      <4> QED
        BY <2>1, <3>1, <4>1, LostGrows
    <3> QED
      BY <2>2, <3>1, <3>3, LostFewer
  <2>4. ASSUME NEW id \in Ids, SetFails(id)
        PROVE  LostCounted'
    <3>1. Nodes(queue') = Nodes(queue) /\ sets' = sets + 1 /\ failed' = failed + 1
      BY <2>4, RefreshedKeeps DEF SetFails
    <3>2. Lost' \subseteq Lost \cup {sets + 1}
      BY <2>1, <3>1, LostGrows
    <3> QED
      BY <2>2, <3>1, <3>2, LostFewer
  <2>5. ASSUME NEW id \in Ids, Get(id)
        PROVE  LostCounted'
    <3>1. Nodes(queue') = Nodes(queue) /\ sets' = sets /\ failed' = failed
      BY <2>5, RefreshedKeeps DEF Get
    <3>2. Lost' \subseteq Lost
      BY <2>1, <3>1, LostGrows
    <3> QED
      BY <2>2, <3>1, <3>2, LostFewer
  <2>6. CASE UNCHANGED vars
    <3>1. queue' = queue /\ sets' = sets /\ failed' = failed
      BY <2>6 DEF vars
    <3>2. Lost' \subseteq Lost
      BY <2>1, <3>1, LostGrows
    <3> QED
      BY <2>2, <3>1, <3>2, LostFewer
  <2> QED
    BY <1>1, <2>3, <2>4, <2>5, <2>6, OthersCache
<1>2. ASSUME NEW c \in Objects, UserDestroys(c)
      PROVE  LostCounted'
  <2>1. misuse = "none" /\ DestroyObject(c) /\ queue' = queue /\ failed' = failed
    BY <1>2 DEF UserDestroys, Sound, vars
  <2>2. CASE misuse' = "none"
    <3>1. Lost' \subseteq Lost
      BY <2>1, <2>2, DestroyedLost DEF Lost
    <3> QED
      BY <2>1, <3>1, LostFewer
  <2> QED
    BY <2>2 DEF LostCounted
<1>3. CASE Evict
  <2>1. misuse = "none" /\ EvictFirst /\ failed' = failed
    BY <1>3 DEF Evict, Sound, EvictFirst
  <2>2. CASE freed' = freed /\ UNCHANGED <<objects, heap, misuse>>
    <3>1. queue' = queue
      BY <2>1, <2>2, EvictDestroys
    <3>2. Lost' = Lost
      BY <2>2, <3>1 DEF Lost, Live
    <3> QED
      BY <2>1, <3>2, LostFewer
  <2>3. ASSUME NEW n \in freed' \ freed, DestroyObject(n.nr), misuse' = "none"
        PROVE  LostCounted'
    <3>1. n \in Node /\ Nodes(queue') = Nodes(queue) \ {n}
      BY <2>1, EvictDestroys
    <3>2. n.nr \in Objects
      <4>1. n.nr \in 1..MaxSets
        BY <3>1 DEF Node
      <4> QED
        BY <4>1, ObjectNumbers DEF IInv, TypeOK
    <3>3. Live' = Live \ {n.nr}
      BY <2>3, <3>2, DestroyedLost
    <3>4. Lost' \subseteq Lost
      BY <3>1, <3>3 DEF Lost
    <3> QED
      BY <2>1, <3>4, LostFewer
  <2>4. CASE misuse' # "none"
    BY <2>4 DEF LostCounted
  <2> QED
    BY <1>3, <2>2, <2>3, <2>4 DEF Evict
<1>4. CASE UNCHANGED allVars
  BY <1>4 DEF allVars, vars, LostCounted, Lost, Live
<1> QED
  BY <1>1, <1>2, <1>3, <1>4

-----------------------------------------------------------------------------
(* Types.                                                                  *)

LEMMA EventNumbers ==
    ASSUME IInv, EventsTypeOK
    PROVE  /\ MaxSets \in Nat /\ MaxCopies \in Nat /\ copies \in 0..MaxCopies
           /\ sets \in 0..MaxSets
           /\ map \in [Ids -> Node \cup {NoNode}]
           /\ \A c \in Nat : c <= MaxSets + MaxCopies => c \in 0..(MaxSets + MaxCopies)
BY BoundsAssumption, EventBoundsAssumption DEF IInv, TypeOK, EventsTypeOK

(* What event_handle is doing.                                             *)
EventTyped ==
    /\ event \in [phase : {"none", "update", "delete", "deliver"},
                  id : Ids \cup {NoNode}, got : Node \cup {NoNode}, new : Node \cup {NoNode},
                  old : 0..(MaxSets + MaxCopies), copy : 0..(MaxSets + MaxCopies)]
    /\ event.phase # "none" => event.id \in Ids /\ type # "interaction"

LEMMA EventTypeStep ==
    ASSUME IInv, EventsTypeOK, [EventsNext]_allVars
    PROVE  EventTyped'
<1>0. EventTyped
  BY DEF EventTyped, EventsTypeOK
<1>1. NoEvent \in [phase : {"none", "update", "delete", "deliver"},
                  id : Ids \cup {NoNode}, got : Node \cup {NoNode}, new : Node \cup {NoNode},
                  old : 0..(MaxSets + MaxCopies), copy : 0..(MaxSets + MaxCopies)]
  BY EventNumbers DEF NoEvent
<1>2. ASSUME NEW id \in Ids, NEW parts \in Parts, ReceiveCreate(id, parts)
      PROVE  EventTyped'
  <2>1. /\ event' = [NoEvent EXCEPT !.phase = "deliver", !.id = id,
                                    !.copy = MaxSets + copies + 1]
        /\ type' = type /\ type # "interaction" /\ copies < MaxCopies
    BY <1>2 DEF ReceiveCreate
  <2>2. MaxSets + copies + 1 \in 0..(MaxSets + MaxCopies)
    BY <2>1, EventNumbers
  <2> QED
    BY <1>1, <2>1, <2>2 DEF EventTyped
<1>3. ASSUME NEW id \in Ids, ReceiveUpdate(id) \/ ReceiveDelete(id)
      PROVE  EventTyped'
  <2>1. PICK phase \in {"update", "delete"} :
            /\ event' = [NoEvent EXCEPT !.phase = phase, !.id = id, !.got = map[id]]
            /\ type' = type /\ type # "interaction"
    BY <1>3 DEF ReceiveUpdate, ReceiveDelete
  <2>2. map[id] \in Node \cup {NoNode}
    BY EventNumbers
  <2> QED
    BY <1>1, <2>1, <2>2 DEF EventTyped
<1>4. ASSUME NEW parts \in Parts, FinishUpdate(parts)
      PROVE  EventTyped'
  <2>1. /\ type' = type /\ event.phase = "update" /\ Store(event.id)
        /\ event' = [event EXCEPT !.phase = "deliver", !.copy = event'.copy,
                        !.old = event'.old, !.new = [id |-> event.id, nr |-> sets']]
        /\ event'.copy \in {MaxSets + copies + 1, MaxSets + copies + 1 + 1}
        /\ event'.copy <= MaxSets + MaxCopies
        /\ event'.old \in {0, MaxSets + copies + 1}
        /\ event'.old # 0 => event'.copy = MaxSets + copies + 1 + 1
    BY <1>4, <1>0 DEF FinishUpdate, EventTyped
  <2>2. /\ event'.copy \in 0..(MaxSets + MaxCopies)
        /\ event'.old \in 0..(MaxSets + MaxCopies)
    BY <2>1, EventNumbers
  <2>3. event.id \in Ids /\ type # "interaction"
    BY <1>0, <2>1 DEF EventTyped
  <2>4. sets' = sets + 1 /\ sets < MaxSets
    BY <2>1, <2>3, StoreSteps
  <2>5. [id |-> event.id, nr |-> sets'] \in Node
    BY <2>3, <2>4, EventNumbers DEF Node
  <2> QED
    BY <1>0, <2>1, <2>2, <2>3, <2>5 DEF EventTyped
<1>5. CASE FinishDelete
  <2>1. /\ type' = type /\ event.phase = "delete"
        /\ event' = [event EXCEPT !.phase = "deliver", !.old = event'.old]
        /\ event'.old \in {0, MaxSets + copies + 1}
        /\ event'.old # 0 => copies < MaxCopies
    BY <1>5, <1>0 DEF FinishDelete, EventTyped
  <2>2. event'.old \in 0..(MaxSets + MaxCopies)
    BY <2>1, EventNumbers
  <2> QED
    BY <1>0, <2>1, <2>2 DEF EventTyped
<1>6. ASSUME type' = type, event' = event \/ event' = NoEvent
      PROVE  EventTyped'
  BY <1>0, <1>1, <1>6 DEF EventTyped, NoEvent
<1>7. ASSUME NEW id \in Ids, NEW parts \in Parts, ListMessage(id, parts)
      PROVE  EventTyped'
  BY <1>6, <1>7 DEF ListMessage
<1>8. CASE CopyGone \/ Deliver \/ ReceiveList \/ CallList \/ ListDone \/ Evict
  BY <1>6, <1>8 DEF CopyGone, Deliver, ReceiveList, CallList, ListDone, Evict, eventVars
<1>9. ASSUME NEW parts \in InteractionParts, ReceiveInteraction(parts)
      PROVE  EventTyped'
  BY <1>6, <1>9 DEF ReceiveInteraction
<1>10. ASSUME NEW c \in Objects, UserDestroys(c)
       PROVE  EventTyped'
  BY <1>6, <1>10 DEF UserDestroys
<1>11. CASE UNCHANGED allVars
  BY <1>6, <1>11 DEF allVars
<1> QED
  BY <1>2, <1>3, <1>4, <1>5, <1>7, <1>8, <1>9, <1>10, <1>11 DEF EventsNext

(* What request_t_pool does with a list.                                   *)
ListTypeOK ==
    /\ list \in [phase : {"none", "fill", "call"}, nodes : SUBSET Node, alone : BOOLEAN]
    /\ IsFiniteSet(list.nodes)
    /\ list.phase # "none" => type = "message"

LEMMA ListTypeStep ==
    ASSUME IInv, EventsTypeOK, [EventsNext]_allVars
    PROVE  ListTypeOK'
<1>0. ListTypeOK
  BY DEF ListTypeOK, EventsTypeOK
<1>1. IsFiniteSet({})
  BY FS_EmptySet
<1>2. ASSUME NEW id \in Ids, NEW parts \in Parts, ListMessage(id, parts)
      PROVE  ListTypeOK'
  <2> DEFINE n == [id |-> id, nr |-> sets + 1]
  <2>1. /\ list' = [list EXCEPT !.nodes = list.nodes \cup {n}]
        /\ type' = type /\ list.phase = "fill" /\ Store(id)
    BY <1>2 DEF ListMessage
  <2>2. n \in Node
    BY <2>1, StoreSteps, EventNumbers DEF Node
  <2>3. IsFiniteSet(list.nodes \cup {n})
    BY <1>0, FS_AddElement DEF ListTypeOK
  <2> HIDE DEF n
  <2> QED
    BY <1>0, <2>1, <2>2, <2>3 DEF ListTypeOK
<1>3. ASSUME type' = type, Disturbed
      PROVE  ListTypeOK'
  BY <1>0, <1>3 DEF ListTypeOK, Disturbed
<1>4. ASSUME type' = type, list' = list
      PROVE  ListTypeOK'
  BY <1>0, <1>4 DEF ListTypeOK
<1>5. CASE ReceiveList
  BY <1>1, <1>5 DEF ListTypeOK, ReceiveList
<1>6. CASE CallList
  <2>1. list' = [list EXCEPT !.phase = "call"] /\ list.phase \in {"fill", "call"} /\ type' = type
    BY <1>6 DEF CallList
  <2> QED
    BY <1>0, <2>1 DEF ListTypeOK
<1>7. CASE ListDone
  BY <1>1, <1>7 DEF ListTypeOK, ListDone, NoList
<1>8. ASSUME NEW id \in Ids, NEW parts \in Parts, ReceiveCreate(id, parts)
      PROVE  ListTypeOK'
  BY <1>3, <1>8 DEF ReceiveCreate
<1>9. ASSUME NEW id \in Ids, ReceiveUpdate(id) \/ ReceiveDelete(id)
      PROVE  ListTypeOK'
  BY <1>3, <1>9 DEF ReceiveUpdate, ReceiveDelete
<1>10. ASSUME NEW parts \in Parts, FinishUpdate(parts)
       PROVE  ListTypeOK'
  BY <1>3, <1>10 DEF FinishUpdate
<1>11. CASE CopyGone \/ FinishDelete \/ Deliver \/ Evict
  BY <1>4, <1>11 DEF CopyGone, FinishDelete, Deliver, Evict
<1>12. ASSUME NEW parts \in InteractionParts, ReceiveInteraction(parts)
       PROVE  ListTypeOK'
  BY <1>4, <1>12 DEF ReceiveInteraction
<1>13. ASSUME NEW c \in Objects, UserDestroys(c)
       PROVE  ListTypeOK'
  BY <1>4, <1>13 DEF UserDestroys
<1>14. CASE UNCHANGED allVars
  BY <1>4, <1>14 DEF allVars
<1> QED
  BY <1>2, <1>5, <1>6, <1>7, <1>8, <1>9, <1>10, <1>11, <1>12, <1>13, <1>14 DEF EventsNext

(* The other variables.                                                    *)
RestTypeOK ==
    /\ type \in {"channel", "message", "interaction"}
    /\ copies \in 0..MaxCopies
    /\ misuse \in {"none", "shape", "stale", "double"}
    /\ served \subseteq Node
    /\ owned \subseteq Objects

LEMMA DestroyMisuse ==
    ASSUME NEW o, DestroyObject(o), misuse = "none"
    PROVE  misuse' \in {"none", "shape", "stale", "double"}
BY DEF DestroyObject

LEMMA RestTypeStep ==
    ASSUME IInv, EventsTypeOK, [EventsNext]_allVars
    PROVE  RestTypeOK'
<1>0. RestTypeOK
  BY DEF RestTypeOK, EventsTypeOK
<1>1. ASSUME type' = type, misuse' \in {misuse, "shape", "stale"}, served' \subseteq Node,
             copies' \in 0..MaxCopies, owned' \subseteq Objects
      PROVE  RestTypeOK'
  BY <1>0, <1>1 DEF RestTypeOK
<1>2. ASSUME type' = type, misuse' \in {misuse, "stale"},
             UNCHANGED <<copies, served, owned>>
      PROVE  RestTypeOK'
  BY <1>0, <1>2 DEF RestTypeOK
<1>3. ASSUME NEW id \in Ids, NEW parts \in Parts, ReceiveCreate(id, parts)
      PROVE  RestTypeOK'
  <2>1. /\ type' = type /\ misuse' \in {misuse, "shape"} /\ owned' = owned
        /\ copies < MaxCopies /\ copies' = copies + 1 /\ Store(id)
        /\ served' \subseteq served \cup {[id |-> id, nr |-> sets']}
    BY <1>3 DEF ReceiveCreate
  <2>2. [id |-> id, nr |-> sets'] \in Node
    BY <2>1, StoreSteps, EventNumbers DEF Node
  <2>3. copies' \in 0..MaxCopies
    BY <2>1, EventNumbers
  <2> QED
    BY <1>0, <1>1, <2>1, <2>2, <2>3 DEF RestTypeOK
<1>4. ASSUME NEW parts \in Parts, FinishUpdate(parts)
      PROVE  RestTypeOK'
  <2>1. /\ type' = type /\ misuse' \in {misuse, "shape"} /\ owned' = owned
        /\ Store(event.id) /\ event.id \in Ids
        /\ served' \subseteq served \cup {[id |-> event.id, nr |-> sets']}
    BY <1>4 DEF FinishUpdate, Stored, EventsTypeOK
  <2>2. [id |-> event.id, nr |-> sets'] \in Node
    BY <2>1, StoreSteps, EventNumbers DEF Node
  <2>3. PICK c \in {MaxSets + copies + 1, MaxSets + copies + 1 + 1} :
            c <= MaxSets + MaxCopies /\ copies' = c - MaxSets
    BY <1>4 DEF FinishUpdate
  <2>4. copies' \in 0..MaxCopies
    BY <2>3, EventNumbers
  <2> QED
    BY <1>0, <1>1, <2>1, <2>2, <2>4 DEF RestTypeOK
<1>5. CASE FinishDelete
  <2>1. /\ type' = type /\ misuse' \in {misuse, "shape"} /\ owned' = owned
        /\ served' = served
        /\ copies' = copies \/ (copies < MaxCopies /\ copies' = copies + 1)
    BY <1>5 DEF FinishDelete
  <2>2. copies' \in 0..MaxCopies
    BY <2>1, EventNumbers
  <2> QED
    BY <1>0, <1>1, <2>1, <2>2 DEF RestTypeOK
<1>6. ASSUME NEW parts \in InteractionParts, ReceiveInteraction(parts)
      PROVE  RestTypeOK'
  <2>1. /\ UNCHANGED <<type, misuse, served>> /\ owned' = owned \cup {MaxSets + copies + 1}
        /\ copies < MaxCopies /\ copies' = copies + 1
    BY <1>6 DEF ReceiveInteraction
  <2>2. copies' \in 0..MaxCopies /\ MaxSets + copies + 1 \in Objects
    BY <2>1, EventNumbers DEF Objects
  <2> QED
    BY <1>0, <1>1, <2>1, <2>2 DEF RestTypeOK
<1>7. CASE Deliver
  <2>1. /\ UNCHANGED <<type, misuse, served, copies>>
        /\ owned' = owned \cup ({event.old, event.copy} \ {0})
    BY <1>7 DEF Deliver
  <2>2. {event.old, event.copy} \ {0} \subseteq Objects
    <3>1. event.old \in 0..(MaxSets + MaxCopies) /\ event.copy \in 0..(MaxSets + MaxCopies)
      BY DEF EventsTypeOK
    <3>2. \A c \in 0..(MaxSets + MaxCopies) : c # 0 => c \in Objects
      BY EventNumbers DEF Objects
    <3> QED
      BY <3>1, <3>2
  <2> QED
    BY <1>0, <1>1, <2>1, <2>2 DEF RestTypeOK
<1>8. ASSUME NEW c \in Objects, UserDestroys(c)
      PROVE  RestTypeOK'
  <2>1. /\ UNCHANGED <<type, copies, served>> /\ owned' \subseteq owned
        /\ misuse = "none" /\ DestroyObject(c)
    BY <1>8 DEF UserDestroys, Sound
  <2> QED
    BY <1>0, <2>1, DestroyMisuse DEF RestTypeOK
<1>9. CASE Evict
  <2>1. UNCHANGED <<type, copies, served, owned>> /\ misuse = "none"
    BY <1>9 DEF Evict, Sound
  <2>2. misuse' = misuse \/ \E o \in {n.nr : n \in freed'} : DestroyObject(o)
    BY <1>9 DEF Evict
  <2> QED
    BY <1>0, <2>1, <2>2, DestroyMisuse DEF RestTypeOK
<1>10. ASSUME NEW id \in Ids, NEW parts \in Parts, ListMessage(id, parts)
       PROVE  RestTypeOK'
  BY <1>2, <1>10 DEF ListMessage
<1>11. ASSUME NEW id \in Ids, ReceiveUpdate(id) \/ ReceiveDelete(id)
       PROVE  RestTypeOK'
  BY <1>2, <1>11 DEF ReceiveUpdate, ReceiveDelete
<1>12. CASE CopyGone \/ ReceiveList \/ CallList \/ ListDone
  BY <1>2, <1>12 DEF CopyGone, ReceiveList, CallList, ListDone, eventVars
<1>13. CASE UNCHANGED allVars
  BY <1>2, <1>13 DEF allVars
<1> QED
  BY <1>3, <1>4, <1>5, <1>6, <1>7, <1>8, <1>9, <1>10, <1>11, <1>12, <1>13 DEF EventsNext

LEMMA EventsTypeStep ==
    ASSUME IInv, EventsTypeOK, MemoryIInv, [EventsNext]_allVars
    PROVE  EventsTypeOK'
BY MemoryStep, EventTypeStep, ListTypeStep, RestTypeStep
DEF EventsTypeOK, EventTyped, ListTypeOK, RestTypeOK, Objects

-----------------------------------------------------------------------------
(* The inductive invariant.                                                *)

LEMMA EventsInitInvariant == EventsInit => EventsIInv
<1> SUFFICES ASSUME EventsInit PROVE EventsIInv
  OBVIOUS
<1>1. IInv /\ Nodes(queue) = {} /\ freed = {} /\ sets = 0 /\ failed = 0 /\ Len(queue) = 0
  BY InitInvariant DEF EventsInit, Init, Nodes
<1>2. /\ type \in {"channel", "message", "interaction"}
      /\ objects = [o \in Objects |-> NoStructure]
      /\ heap = {} /\ copies = 0 /\ misuse = "none" /\ event = NoEvent /\ served = {}
      /\ list = NoList /\ owned = {}
  BY DEF EventsInit
<1>3. MaxSets \in Nat /\ MaxCopies \in Nat
  BY BoundsAssumption, EventBoundsAssumption
<1>4. IsFiniteSet({}) /\ Cardinality({}) = 0
  BY FS_EmptySet
<1>5. EventsTypeOK
  BY <1>2, <1>3, <1>4 DEF EventsTypeOK, NoEvent, NoList
<1>6. Live = {} /\ \A o \in Objects : objects[o] = NoStructure
  BY <1>2 DEF Live
<1>7. AllFormed
  BY <1>6, NoStructureFormed DEF AllFormed
<1>8. OnlyTaken /\ Reached /\ SharedOnlyIcons /\ DanglingOnlyIcons
  BY <1>2, <1>6 DEF OnlyTaken, Reached, SharedOnlyIcons, DanglingOnlyIcons
<1>9. LostCounted
  <2>1. Lost = {}
    BY <1>6 DEF Lost
  <2> QED
    BY <1>1, <1>4, <2>1 DEF LostCounted
<1>10. NewestOfAll /\ ServedKnown /\ GotNewest /\ OldIsPrevious
  BY <1>1, <1>2 DEF NewestOfAll, ServedKnown, GotNewest, OldIsPrevious, NoEvent
<1>11. ListAtTail /\ ListIntact
  BY <1>1, <1>2 DEF ListAtTail, ListIntact, NoList
<1> QED
  BY <1>1, <1>5, <1>7, <1>8, <1>9, <1>10, <1>11 DEF EventsIInv

LEMMA SharesFollows == EventsTypeOK /\ IInv /\ AllFormed => SharedOnlyIcons
BY FormedShares DEF IInv, TypeOK

LEMMA IntactFollows == IInv /\ EventsTypeOK /\ ListAtTail => ListIntact
BY ListIsIntact

LEMMA EventsStepInvariant == EventsIInv /\ [EventsNext]_allVars => EventsIInv'
<1> SUFFICES ASSUME EventsIInv, [EventsNext]_allVars PROVE EventsIInv'
  OBVIOUS
<1>1. IInv /\ EventsTypeOK /\ MemoryIInv /\ OldIInv /\ AllFormed
      /\ LostCounted /\ NewestOfAll /\ ListAtTail
  BY DEF EventsIInv, MemoryIInv, OldIInv
<1>2. [Next]_vars
  BY <1>1, CacheSteps
<1>3. IInv'
  BY <1>1, <1>2, StepInvariant
<1>4. EventsTypeOK'
  BY <1>1, EventsTypeStep
<1>5. MemoryIInv'
  BY <1>1, MemoryStep
<1>6. LostCounted'
  BY <1>1, LostStep
<1>7. NewestOfAll'
  BY <1>1, <1>2, NewestStep
<1>8. OldIInv'
  BY <1>1, OldStep
<1>9. ListAtTail'
  BY <1>1, ListStep
<1>10. SharedOnlyIcons' /\ ListIntact'
  <2>1. AllFormed'
    BY <1>5 DEF MemoryIInv
  <2>2. SharedOnlyIcons'
    BY <1>3, <1>4, <2>1, SharesFollows, PTL
  <2>3. ListIntact'
    BY <1>3, <1>4, <1>9, IntactFollows, PTL
  <2> QED
    BY <2>2, <2>3
<1> QED
  BY <1>3, <1>4, <1>5, <1>6, <1>7, <1>8, <1>9, <1>10
  DEF EventsIInv, MemoryIInv, OldIInv

(* The invariant holds in every reachable state of event_handle, of the    *)
(* lists, of the user and of the clean-up loop (event.c:140, request.c:214,*)
(* cache.c:190).                                                           *)
THEOREM EventsInvariantHolds == EventsSpec => []EventsIInv
BY EventsInitInvariant, EventsStepInvariant, PTL DEF EventsSpec

(* What an update presents as the old object is the last one that an event *)
(* cached, whichever nodes were evicted or replaced meanwhile (event.c:177)*)
THEOREM OldIsPreviousHolds == EventsSpec => []OldIsPrevious
BY EventsInvariantHolds, PTL DEF EventsIInv

(* A list that fits in the cache is intact at its callback, when nothing   *)
(* came in between (message_commands.h:56, request.c:220).                 *)
THEOREM ListIntactHolds == EventsSpec => []ListIntact
BY EventsInvariantHolds, PTL DEF EventsIInv

(* A copy has nothing in common with what it was copied from, or with      *)
(* another copy, but an icon (README.md:60, channel.c:63).                 *)
THEOREM SharedOnlyIconsHolds == EventsSpec => []SharedOnlyIcons
BY EventsInvariantHolds, PTL DEF EventsIInv

(* A pointer never leads to a freed block, and nothing is freed twice, but *)
(* for icons (channel.c:78, message.c:188).                                *)
THEOREM DanglingOnlyIconsHolds == EventsSpec => []DanglingOnlyIcons
BY EventsInvariantHolds, PTL DEF EventsIInv

(* Nothing is lost but what KnownLeaks names (channel.c:64, message.c:187, *)
(* component.c:119, cache.c:190).                                          *)
THEOREM KnownLeaksHolds == EventsSpec => []KnownLeaks
<1>1. EventsIInv => KnownLeaks
  <2> SUFFICES ASSUME EventsIInv, misuse = "none"
               PROVE  /\ \A b \in heap \ UNION {Blocks(objects[o]) : o \in Live} :
                            \/ b[2] = <<"topic">> /\ b[1] > MaxSets
                            \/ /\ b[1] \notin Live
                               /\ \E i \in DOMAIN b[2] :
                                    b[2][i] \in {"referenced_message", "body"}
                      /\ Cardinality({o \in Live : o <= MaxSets
                            /\ \A n \in Nodes(queue) : n.nr # o}) <= failed
    BY DEF KnownLeaks
  <2>1. ASSUME NEW b \in heap, b \notin UNION {Blocks(objects[o]) : o \in Live}
        PROVE  ReplacedTopic(b) \/ (b[1] \notin Live /\ LeftBehind(b))
    BY <2>1 DEF EventsIInv, Reached
  <2>2. Cardinality(Lost) <= failed
    BY DEF EventsIInv, LostCounted
  <2> QED
    BY <2>1, <2>2 DEF ReplacedTopic, LeftBehind, Lost
<1> QED
  BY <1>1, EventsInvariantHolds, PTL
====
