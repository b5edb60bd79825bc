---- MODULE CacheCallsProofs ----
(***************************************************************************)
(* What several threads may do in utils/cache.c without a lock, for any    *)
(* number of threads, caches and ids, and any limit: nodes get into the    *)
(* wrong cache only by two calls of one function for two caches at once,   *)
(* and threads that stay apart do each other no harm.                      *)
(***************************************************************************)
EXTENDS CacheCalls, ListProofs, FiniteSetTheorems

-----------------------------------------------------------------------------
(* The inductive invariant.                                                *)

Call == [fn : Functions \cup {"none"},
         at : {"none", "lookup", "unlink", "relink", "put", "insert", "clean", "loop", "free"},
         type : Types \cup {"none"}, id : Ids \cup {NoNode}, outer : BOOLEAN,
         node : Node \cup {NoNode}, new : Node \cup {NoNode}, left : Nat]

(* The caches: maps, queues and counters.                                  *)
CachesTyped ==
    /\ map \in [Types -> [Ids -> Node \cup {NoNode}]]
    /\ next \in [Types \cup Node -> Node \cup {NoNode}]
    /\ prev \in [Node -> Types \cup Node \cup {NoNode}]
    /\ last \in [Types -> Types \cup Node]
    /\ size \in [Types -> Int]
    /\ freed \subseteq Node

TypeOK ==
    /\ CachesTyped
    /\ selected \in [Functions -> Types \cup {"none"}]
    /\ sets \in 0..MaxSets /\ calls \in 0..MaxCalls
    /\ call \in [Threads -> Call]
    /\ mixed \subseteq Functions /\ together \subseteq Types
    /\ fault \in BOOLEAN

(* How far a call is: which function it is in and what it holds.           *)
CallState(c) ==
    /\ c.at = "none" => c = NoCall
    /\ c.at # "none" => c.fn \in Functions /\ c.type \in Types /\ selected[c.fn] \in Types
    /\ c.at \in {"put", "insert", "clean", "loop"} => c.fn = "set"
    /\ c.at = "relink" => c.fn \in {"set", "get"}
    /\ c.at = "free" => c.fn = "delete"
    /\ c.at \in {"lookup", "unlink", "relink", "free"} => c.id \in Ids
    /\ c.at \in {"unlink", "relink", "free"} => c.node \in Node
    /\ c.fn = "set" => ~c.outer /\ c.id \in Ids
    /\ c.fn = "set" /\ c.at # "loop" => c.left = 0 /\ c.new.id = c.id
    /\ c.outer => c.fn = "delete" /\ c.left > 0 /\ selected["set"] \in Types
    /\ c.fn = "set" \/ c.outer => c.new \in NodeOf(c.type) /\ c.new.nr <= sets

CallStates == \A t \in Threads : CallState(call[t])

(* A function that was not called for two caches at once works on the      *)
(* cache it was called for.                                                *)
KeepsSelected ==
    \A f \in Functions \ mixed : \A t \in Threads :
        call[t].fn = f \/ (f = "set" /\ call[t].outer) => selected[f] = call[t].type

(* The node that a call has in hand is one of its cache.                   *)
Hand(c) == c.at \in {"unlink", "relink", "free"} => c.node.type = c.type
InHand == mixed = {} => \A t \in Threads : Hand(call[t])

(* No two threads are in calls on one cache.                               *)
Alone ==
    together = {} => \A t, u \in Threads :
        t # u /\ call[t].type = call[u].type => call[t].type = "none"

(* The nodes of a cache, when q is what its pointers link.                 *)
All(y, q) == Nodes(q) \cup Mapped(y) \cup (freed \cap NodeOf(y))
Bound(y) == \A id \in Ids : map[y][id] # NoNode => map[y][id].type = y /\ map[y][id].id = id
Kept(y, q) ==
    /\ Links(y, q)
    /\ \A m, n \in Nodes(q) : m.nr = n.nr => m = n
    /\ Bound(y)
    /\ \A n \in All(y, q) : n.nr <= sets
    /\ \A n \in Nodes(q) \cup Mapped(y) : n \notin freed

(* The state a thread finds a cache in that no other thread uses, and      *)
(* leaves it in: when it has linked the nodes that are mapped, and counted *)
(* those that are linked.                                                  *)
InOrder(y, q, known, count) ==
    /\ Mapped(y) \subseteq Nodes(q) \cup known
    /\ size[y] = Len(q) + count

(* A node that can be linked.                                              *)
Spare(q, n) == n \notin freed /\ \A m \in Nodes(q) : m.nr # n.nr

CacheOf(c, q) ==
    /\ c.at = "insert" => InOrder(c.type, q, {c.new}, 1) /\ Spare(q, c.new)
    /\ c.at \in {"relink", "free"} => InOrder(c.type, q, {c.node}, 1) /\ Spare(q, c.node)
    /\ c.at \notin {"insert", "relink", "free"} => InOrder(c.type, q, {}, 0)
    /\ c.fn = "set" /\ c.at \in {"lookup", "unlink", "relink", "put"} =>
            \A n \in All(c.type, q) : n.nr < c.new.nr
    /\ c.at \in {"unlink", "relink", "free"} => map[c.type][c.id] = c.node
    /\ c.left > 0 => size[c.type] >= c.left + MaxSize

Apart(y, q) ==
    /\ Kept(y, q)
    /\ (\A t \in Threads : call[t].type # y) => InOrder(y, q, {}, 0)
    /\ \A t \in Threads : call[t].type = y => CacheOf(call[t], q)

ApartStates ==
    mixed = {} /\ together = {} =>
        /\ ~fault
        /\ \A y \in Types : \E q \in Seq(NodeOf(y)) : Apart(y, q)

IInv == TypeOK /\ CallStates /\ KeepsSelected /\ InHand /\ Alone /\ OnlyMixedMisplaces /\ ApartStates

-----------------------------------------------------------------------------
(* Only one thread takes a step.                                           *)
Others(t) == \A u \in Threads \ {t} : call'[u] = call[u]

(* A step that is not the beginning of a call.                             *)
Goes_on(t) ==
    /\ Others(t)
    /\ UNCHANGED <<selected, counts, history>>
    /\ \/ /\ call'[t].fn = call[t].fn
          /\ call'[t].type = call[t].type
          /\ call'[t].outer = call[t].outer
       \/ /\ call[t].outer
          /\ call'[t].fn = "set" /\ ~call'[t].outer
          /\ call'[t].type = call[t].type
       \/ call'[t] = NoCall

-----------------------------------------------------------------------------
(* The calls.                                                              *)

LEMMA CallFields ==
    ASSUME TypeOK, CallStates, NEW t \in Threads
    PROVE  /\ call[t] \in Call /\ CallState(call[t])
           /\ call[t].fn \in Functions \cup {"none"}
           /\ call[t].type \in Types \cup {"none"}
           /\ call[t].id \in Ids \cup {NoNode}
           /\ call[t].outer \in BOOLEAN
           /\ call[t].node \in Node \cup {NoNode}
           /\ call[t].new \in Node \cup {NoNode}
           /\ call[t].left \in Nat
BY DEF TypeOK, CallStates, Call

(* No call is for no cache.                                                *)
LEMMA Idle ==
    ASSUME TypeOK, CallStates, NEW t \in Threads
    PROVE  /\ call[t].at = "none" <=> call[t].type = "none"
           /\ call[t].at = "none" <=> call[t].fn = "none"
           /\ call[t].at = "none" => call[t] = NoCall
<1>1. CallState(call[t])
  BY CallFields
<1>2. CASE call[t].at = "none"
  <2>1. call[t] = NoCall
    BY <1>1, <1>2 DEF CallState
  <2> QED
    BY <1>2, <2>1 DEF NoCall
<1>3. CASE call[t].at # "none"
  BY <1>1, <1>3, NamesAssumption DEF CallState, Functions
<1> QED
  BY <1>2, <1>3

LEMMA WorksOn ==
    ASSUME TypeOK, CallStates, KeepsSelected, NEW t \in Threads, call[t].at # "none"
    PROVE  /\ Works(t) \subseteq Types
           /\ call[t].fn \in Functions /\ call[t].type \in Types
           /\ call[t].fn \notin mixed => Works(t) = {call[t].type}
BY CallFields DEF CallState, Works, KeepsSelected

(* The calls of the threads that take no step.                             *)
LEMMA OtherCalls ==
    ASSUME TypeOK, CallStates, NEW t \in Threads, Others(t),
           sets' \in Int, sets' >= sets,
           \A f \in Functions : selected[f] \in Types => selected'[f] \in Types
    PROVE  \A u \in Threads \ {t} : CallState(call[u])'
<1> SUFFICES ASSUME NEW u \in Threads \ {t}
             PROVE  CallState(call[u])'
  OBVIOUS
<1>1. call'[u] = call[u] /\ CallState(call[u]) /\ call[u] \in Call
  BY DEF Others, CallStates, TypeOK
<1>2. sets \in Int
  BY DEF TypeOK
<1>3. \A n \in Node : n.nr \in Int
  BY DEF Node
<1> QED
  BY <1>1, <1>2, <1>3 DEF CallState, NodeOf, Functions

(* A thread that goes on works on the cache it was called for.             *)
LEMMA GoingOn ==
    ASSUME TypeOK, CallStates, KeepsSelected, Alone,
           NEW t \in Threads, call[t].at # "none", Goes_on(t)
    PROVE  KeepsSelected' /\ Alone'
<1>1. call[t].outer => call[t].fn = "delete"
  BY CallFields DEF CallState
<1>2. KeepsSelected'
  BY <1>1 DEF KeepsSelected, Goes_on, Others, NoCall, Functions, history, counts
<1>3. Alone'
  BY DEF Alone, Goes_on, Others, NoCall, history, counts
<1> QED
  BY <1>2, <1>3

(* The beginning of a call, or of the clean-up in one: when it may be, and *)
(* what it leaves.                                                         *)
MayBegin(t, f, type) ==
    \/ call[t] = NoCall
    \/ call[t].fn = "set" /\ f = "delete" /\ type = call[t].type

Begun(t, f, type, id, new) ==
    /\ KeepsSelected' /\ Alone' /\ Others(t)
    /\ selected' \in [Functions -> Types \cup {"none"}]
    /\ \A g \in Functions : selected[g] \in Types => selected'[g] \in Types
    /\ mixed \subseteq mixed' /\ together \subseteq together'
    /\ mixed' \subseteq Functions /\ together' \subseteq Types
    /\ call' \in [Threads -> Call]
    /\ call'[t] = [call[t] EXCEPT !.fn = f, !.at = "lookup", !.type = type,
                     !.id = id, !.outer = call[t].fn = "set", !.new = new]
    /\ together' = {} => \A u \in Threads \ {t} : call[u].type # type

LEMMA Selecting ==
    ASSUME TypeOK, CallStates, KeepsSelected, Alone,
           NEW t \in Threads, NEW f \in Functions, NEW type \in Types, NEW id \in Ids,
           NEW new \in Node \cup {NoNode}, Select(t, f, type, id, new), MayBegin(t, f, type)
    PROVE  Begun(t, f, type, id, new)
<1>1. /\ call'[t] = [call[t] EXCEPT !.fn = f, !.at = "lookup", !.type = type,
                            !.id = id, !.outer = call[t].fn = "set", !.new = new]
      /\ Others(t)
      /\ call' \in [Threads -> Call]
  <2>1. [call[t] EXCEPT !.fn = f, !.at = "lookup", !.type = type,
                        !.id = id, !.outer = call[t].fn = "set", !.new = new] \in Call
    <3>1. ASSUME NEW c \in Call, NEW b \in BOOLEAN
          PROVE  [c EXCEPT !.fn = f, !.at = "lookup", !.type = type,
                           !.id = id, !.outer = b, !.new = new] \in Call
      BY DEF Call
    <3>2. (call[t].fn = "set") \in BOOLEAN /\ call[t] \in Call
      BY CallFields
    <3> QED
      BY <3>1, <3>2
  <2> QED
    BY <2>1 DEF Select, TypeOK, Others
<1>2. call'[t].fn = f /\ call'[t].type = type /\ call'[t].outer = (call[t].fn = "set")
  BY <1>1, CallFields DEF Call
<1>3. /\ selected'[f] = type
      /\ \A g \in Functions \ {f} : selected'[g] = selected[g]
      /\ selected' \in [Functions -> Types \cup {"none"}]
  BY DEF Select, Shares, TypeOK
<1>4. /\ mixed \subseteq mixed' /\ together \subseteq together'
      /\ mixed' \subseteq Functions /\ together' \subseteq Types
  BY DEF Select, TypeOK
<1>5. ASSUME NEW u \in Threads \ {t}, call[u].type = type
      PROVE  together' # {}
  <2>1. call[u].fn # "none"
    BY <1>5, Idle, NamesAssumption
  <2>2. type \in together'
    BY <1>5, <2>1 DEF Select
  <2> QED
    BY <2>2
<1>6. ASSUME NEW u \in Threads \ {t}, f \notin mixed',
             call[u].fn = f \/ (f = "set" /\ call[u].outer)
      PROVE  call[u].type = type
  <2>1. call[u].fn # "none"
    BY <1>6, CallFields DEF CallState, Functions
  <2> QED
    BY <1>6, <2>1 DEF Select
<1>7. KeepsSelected'
  <2> SUFFICES ASSUME NEW g \in Functions \ mixed', NEW u \in Threads,
                      call'[u].fn = g \/ (g = "set" /\ call'[u].outer)
               PROVE  selected'[g] = call'[u].type
    BY DEF KeepsSelected
  <2>1. CASE u = t
    <3>1. CASE g = f
      BY <2>1, <3>1, <1>2, <1>3
    <3>2. CASE g # f
      <4>0. NoCall.fn # "set"
        BY DEF NoCall
      <4>1. g = "set" /\ call[t].fn = "set" /\ type = call[t].type
        BY <4>0, <2>1, <3>2, <1>2 DEF MayBegin
      <4> QED
        BY <4>1, <2>1, <3>2, <1>2, <1>3, <1>4 DEF KeepsSelected
    <3> QED
      BY <3>1, <3>2
  <2>2. CASE u # t
    <3>1. call'[u] = call[u]
      BY <2>2, <1>1 DEF Others
    <3>2. CASE g = f
      BY <2>2, <3>1, <3>2, <1>3, <1>6
    <3>3. CASE g # f
      BY <2>2, <3>1, <3>3, <1>3, <1>4 DEF KeepsSelected
    <3> QED
      BY <3>2, <3>3
  <2> QED
    BY <2>1, <2>2
<1>8. Alone'
  <2> SUFFICES ASSUME together' = {}, NEW u \in Threads, NEW v \in Threads,
                      u # v, call'[u].type = call'[v].type
               PROVE  call'[u].type = "none"
    BY DEF Alone
  <2>1. together = {}
    BY <1>4
  <2>2. \A w \in Threads \ {t} : call'[w].type = call[w].type /\ call[w].type # type
    BY <1>1, <1>5 DEF Others
  <2>3. u # t /\ v # t
    BY <2>2, <1>2
  <2> QED
    BY <2>1, <2>2, <2>3 DEF Alone
<1> QED
  BY <1>1, <1>3, <1>4, <1>5, <1>7, <1>8 DEF Begun

(* The end of a call, or of the clean-up in one.                           *)
LEMMA Returning ==
    ASSUME TypeOK, CallStates, NEW t \in Threads, call[t].at # "none", Returns(t),
           UNCHANGED <<selected, counts, history>>
    PROVE  /\ call' \in [Threads -> Call]
           /\ CallStates'
           /\ Goes_on(t)
           /\ ~call[t].outer => call'[t] = NoCall /\ call'[t].type = "none"
           /\ call[t].outer =>
                /\ call'[t].at = "loop" /\ call'[t].fn = "set"
                /\ call'[t].type = call[t].type
                /\ call'[t].left = call[t].left - 1
<1>1. CallState(call[t]) /\ call[t] \in Call
  BY CallFields
<1>2. Others(t)
  BY DEF Returns, TypeOK, Others
<1>3. CASE ~call[t].outer
  <2>1. call'[t] = NoCall
    BY <1>3 DEF Returns, TypeOK
  <2>2. NoCall \in Call
    BY DEF NoCall, Call
  <2>3. call' \in [Threads -> Call]
    BY <1>3, <2>2 DEF Returns, TypeOK
  <2>4. CallState(call[t])'
    BY <2>1 DEF CallState, NoCall
  <2>5. CallStates'
    BY <1>2, <2>4, OtherCalls DEF CallStates, TypeOK, counts
  <2>6. Goes_on(t)
    BY <2>1, <1>2 DEF Goes_on
  <2> QED
    BY <2>1, <2>3, <2>5, <2>6, <1>3 DEF NoCall
<1>4. CASE call[t].outer
  <2>1. call[t].left \in Nat /\ call[t].left > 0
    BY <1>1, <1>4 DEF CallState, Call
  <2>2. [call[t] EXCEPT !.fn = "set", !.at = "loop", !.outer = FALSE,
                        !.left = call[t].left - 1] \in Call
    <3>1. call[t].left - 1 \in Nat
      BY <2>1
    <3> QED
      BY <3>1, <1>1 DEF Call, Functions
  <2>3. call'[t] = [call[t] EXCEPT !.fn = "set", !.at = "loop", !.outer = FALSE,
                                   !.left = call[t].left - 1]
    BY <1>4 DEF Returns, TypeOK
  <2>4. call' \in [Threads -> Call]
    BY <1>4, <2>2 DEF Returns, TypeOK
  <2>5. /\ call'[t].at = "loop" /\ call'[t].fn = "set" /\ call'[t].outer = FALSE
        /\ call'[t].type = call[t].type /\ call'[t].left = call[t].left - 1
        /\ call'[t].id = call[t].id /\ call'[t].new = call[t].new
    BY <2>3, <1>1 DEF Call
  <2>6. /\ call[t].type \in Types /\ call[t].id \in Ids /\ selected["set"] \in Types
        /\ call[t].new \in NodeOf(call[t].type) /\ call[t].new.nr <= sets
    BY <1>1, <1>4 DEF CallState, Functions, Call
  <2>7. CallState(call[t])'
    BY <2>5, <2>6 DEF CallState, NodeOf, Functions, counts
  <2>8. CallStates'
    BY <1>2, <2>7, OtherCalls DEF CallStates, TypeOK, counts
  <2>9. Goes_on(t)
    BY <2>5, <1>2, <1>4 DEF Goes_on
  <2> QED
    BY <2>4, <2>5, <2>8, <2>9, <1>4
<1> QED
  BY <1>3, <1>4

-----------------------------------------------------------------------------
(* The pointers of a queue.                                                *)

(* No place belongs to two caches.                                         *)
LEMMA PlacesApart ==
    ASSUME NEW x \in Types, NEW y \in Types, x # y
    PROVE  /\ ({x} \cup NodeOf(x)) \cap ({y} \cup NodeOf(y)) = {}
           /\ NoNode \notin Types \cup Node /\ x \notin Node
BY NamesAssumption DEF NodeOf

LEMMA PlaceFacts ==
    ASSUME NEW y \in Types, NEW q \in Seq(NodeOf(y)), IsInjective(q)
    PROVE  /\ Len(q) \in Nat /\ Nodes(q) \subseteq NodeOf(y) /\ y \notin Node
           /\ \A i \in 1..Len(q) : q[i] \in NodeOf(y) /\ q[i] \in Node
           /\ \A i \in 0..Len(q) : Place(y, q, i) \in {y} \cup NodeOf(y)
           /\ \A i \in 1..Len(q) : Place(y, q, i) = q[i]
           /\ Place(y, q, 0) = y
           /\ \A i, j \in 0..Len(q) : Place(y, q, i) = Place(y, q, j) => i = j
<1>1. Len(q) \in Nat /\ DOMAIN q = 1..Len(q)
  BY LenProperties
<1>2. \A i \in 1..Len(q) : q[i] \in NodeOf(y)
  BY ElementOfSeq
<1>3. y \notin Node
  BY NamesAssumption
<1>4. /\ \A i \in 1..Len(q) : Place(y, q, i) = q[i] /\ q[i] \in Node
      /\ Place(y, q, 0) = y
  BY <1>1, <1>2 DEF Place, NodeOf
<1>5. \A i \in 0..Len(q) : i = 0 \/ i \in 1..Len(q)
  BY <1>1
<1>6. \A i \in 0..Len(q) : Place(y, q, i) \in {y} \cup NodeOf(y)
  BY <1>2, <1>4, <1>5
<1>7. ASSUME NEW i \in 0..Len(q), NEW j \in 0..Len(q), Place(y, q, i) = Place(y, q, j)
      PROVE  i = j
  <2>1. CASE i = 0 \/ j = 0
    BY <2>1, <1>3, <1>4, <1>5, <1>7
  <2>2. CASE i \in 1..Len(q) /\ j \in 1..Len(q)
    BY <2>2, <1>1, <1>4, <1>7 DEF IsInjective
  <2> QED
    BY <2>1, <2>2, <1>5
<1>8. Nodes(q) \subseteq NodeOf(y)
  BY <1>2 DEF Nodes
<1> QED
  BY <1>1, <1>2, <1>3, <1>4, <1>6, <1>7, <1>8

(* What the pointers of a queue and of its nodes lead to.                  *)
LEMMA Neighbours ==
    ASSUME NEW y \in Types, NEW q \in Seq(NodeOf(y)), Links(y, q)
    PROVE  /\ \A n \in Nodes(q) : /\ prev[n] \in {y} \cup Nodes(q)
                                  /\ next[n] \in Nodes(q) \cup {NoNode}
           /\ last[y] \in {y} \cup Nodes(q)
           /\ Len(q) # 0 => next[y] \in Nodes(q)
<1>1. /\ Len(q) \in Nat
      /\ \A i \in 0..Len(q) : i = 0 \/ i \in 1..Len(q)
      /\ \A i \in 1..Len(q) : Place(y, q, i) = q[i] /\ q[i] \in Nodes(q)
      /\ Place(y, q, 0) = y
  <2>1. Len(q) \in Nat
    BY LenProperties
  <2> QED
    BY <2>1 DEF Place, Nodes
<1>2. /\ \A i \in 1..Len(q) : next[Place(y, q, i - 1)] = q[i] /\ prev[q[i]] = Place(y, q, i - 1)
      /\ next[Place(y, q, Len(q))] = NoNode /\ last[y] = Place(y, q, Len(q))
  BY DEF Links
<1>3. \A i \in 0..Len(q) : Place(y, q, i) \in {y} \cup Nodes(q)
  BY <1>1
<1>4. ASSUME NEW i \in 1..Len(q)
      PROVE  /\ prev[q[i]] \in {y} \cup Nodes(q)
             /\ next[q[i]] \in Nodes(q) \cup {NoNode}
  <2>1. i - 1 \in 0..Len(q)
    BY <1>1
  <2>2. CASE i = Len(q)
    BY <2>1, <2>2, <1>1, <1>2, <1>3
  <2>3. CASE i # Len(q)
    <3>1. i + 1 \in 1..Len(q) /\ (i + 1) - 1 = i
      BY <2>3, <1>1
    <3>2. next[Place(y, q, i)] = q[i + 1]
      BY <3>1, <1>2
    <3> QED
      BY <2>1, <3>1, <3>2, <1>1, <1>2, <1>3
  <2> QED
    BY <2>2, <2>3
<1>5. last[y] \in {y} \cup Nodes(q)
  BY <1>1, <1>2, <1>3
<1>6. ASSUME Len(q) # 0
      PROVE  next[y] \in Nodes(q)
  <2>1. 1 \in 1..Len(q) /\ 1 - 1 = 0
    BY <1>1, <1>6
  <2> QED
    BY <2>1, <1>1, <1>2
<1> QED
  BY <1>4, <1>5, <1>6 DEF Nodes

(* TAILQ_REMOVE, and the queue it leaves.                                  *)
Removes(y, n) ==
    /\ next' = [next EXCEPT ![prev[n]] = next[n]]
    /\ IF next[n] = NoNode THEN last' = [last EXCEPT ![y] = prev[n]] /\ prev' = prev
       ELSE prev' = [prev EXCEPT ![next[n]] = prev[n]] /\ last' = last

LEMMA RemoveLinks ==
    ASSUME CachesTyped, NEW y \in Types, NEW q \in Seq(NodeOf(y)), Links(y, q),
           NEW n \in Nodes(q), Removes(y, n)
    PROVE  Links(y, Without(q, n))'
<1> DEFINE r == Without(q, n)
           L == Len(q)
<1>0. IsInjective(q)
  BY DEF Links
<1>1. /\ r \in Seq(NodeOf(y)) /\ Len(r) = L - 1 /\ IsInjective(r) /\ L \in Nat \ {0}
      /\ \E k \in 1..L : q[k] = n /\ \A i \in 1..(L - 1) :
            r[i] = IF i < k THEN q[i] ELSE q[i + 1]
  BY <1>0, WithoutLacks DEF Lacks
<1>2. PICK k \in 1..L : q[k] = n /\ \A i \in 1..(L - 1) :
            r[i] = IF i < k THEN q[i] ELSE q[i + 1]
  BY <1>1
<1> DEFINE p(i) == Place(y, q, i)
<1>3. /\ y \notin Node /\ NoNode \notin Node
      /\ \A i \in 1..L : q[i] \in Node /\ p(i) = q[i] /\ q[i] \in Nodes(q)
      /\ \A i \in 0..L : p(i) \in Types \cup Node
      /\ p(0) = y
      /\ \A i, j \in 0..L : p(i) = p(j) => i = j
      /\ \A i \in 0..L : i # 0 => p(i) \in Nodes(q)
  BY <1>0, <1>1, PlaceFacts, NamesAssumption DEF NodeOf, Nodes
<1>4. /\ \A i \in 1..L : next[p(i - 1)] = q[i] /\ prev[q[i]] = p(i - 1)
      /\ next[p(L)] = NoNode /\ last[y] = p(L)
  BY DEF Links
<1>5. prev[n] = p(k - 1) /\ n = p(k) /\ k - 1 \in 0..L
  BY <1>1, <1>2, <1>3, <1>4
<1>6. k < L => next[n] = q[k + 1] /\ next[n] \in Node /\ next[n] # NoNode
  <2>1. ASSUME k < L
        PROVE  k + 1 \in 1..L /\ (k + 1) - 1 = k
    BY <1>1, <2>1
  <2> QED
    BY <2>1, <1>3, <1>4, <1>5
<1>7. k = L => next[n] = NoNode
  BY <1>4, <1>5
<1> DEFINE s(i) == Place(y, r, i)
<1>8. \A i \in 0..(L - 1) : s(i) = IF i < k THEN p(i) ELSE p(i + 1)
  <2> SUFFICES ASSUME NEW i \in 0..(L - 1)
               PROVE  s(i) = IF i < k THEN p(i) ELSE p(i + 1)
    OBVIOUS
  <2>1. CASE i = 0
    BY <2>1, <1>1, <1>3 DEF Place
  <2>2. CASE i # 0
    <3>1. i \in 1..(L - 1) /\ i \in 1..L /\ i + 1 \in 1..L
      BY <2>2, <1>1
    <3>2. s(i) = r[i]
      BY <2>2 DEF Place
    <3> QED
      BY <3>1, <3>2, <1>2, <1>3
  <2> QED
    BY <2>1, <2>2
<1> HIDE DEF p, s, r, L
<1>9. /\ next'[p(k - 1)] = next[n]
      /\ \A i \in 0..L : i # k - 1 => next'[p(i)] = next[p(i)]
  BY <1>3, <1>5 DEF Removes, CachesTyped
<1>10. /\ k < L => prev'[q[k + 1]] = p(k - 1) /\ last' = last
       /\ k = L => prev' = prev /\ last'[y] = p(k - 1)
       /\ \A i \in 1..L : i # k + 1 => prev'[q[i]] = prev[q[i]]
  <2>1. CASE k < L
    <3>1. prev' = [prev EXCEPT ![q[k + 1]] = p(k - 1)] /\ last' = last
      BY <2>1, <1>5, <1>6 DEF Removes
    <3>2. k + 1 \in 1..L /\ k # L
      BY <2>1, <1>1
    <3>3. \A i \in 1..L : i # k + 1 => q[i] # q[k + 1]
      <4>1. \A i \in 1..L : i \in 0..L
        BY <1>1
      <4> QED
        BY <4>1, <3>2, <1>3
    <3> QED
      BY <3>1, <3>2, <3>3, <1>3 DEF CachesTyped
  <2>2. CASE k = L
    <3>1. prev' = prev /\ last' = [last EXCEPT ![y] = p(k - 1)]
      BY <2>2, <1>5, <1>7 DEF Removes
    <3>2. ~(k < L)
      BY <2>2, <1>1
    <3> QED
      BY <3>1, <3>2 DEF CachesTyped
  <2> QED
    BY <2>1, <2>2, <1>1, <1>2
<1>11. ASSUME NEW i \in 1..(L - 1)
       PROVE  next'[s(i - 1)] = r[i] /\ prev'[r[i]] = s(i - 1)
  <2>1. CASE i < k
    <3>1. i - 1 \in 0..(L - 1) /\ i - 1 < k /\ i \in 1..L /\ i # k + 1
          /\ i - 1 \in 0..L /\ i - 1 # k - 1
      BY <2>1, <1>1
    <3>2. s(i - 1) = p(i - 1) /\ r[i] = q[i]
      BY <3>1, <2>1, <1>2, <1>8
    <3> QED
      BY <3>1, <3>2, <1>4, <1>9, <1>10
  <2>2. CASE i = k
    <3>1. i - 1 \in 0..(L - 1) /\ i - 1 < k /\ k < L /\ ~(i < k)
      BY <2>2, <1>1
    <3>2. s(i - 1) = p(k - 1) /\ r[i] = q[k + 1]
      BY <3>1, <2>2, <1>2, <1>8
    <3> QED
      BY <3>1, <3>2, <1>6, <1>9, <1>10
  <2>3. CASE i > k
    <3>1. i - 1 \in 0..(L - 1) /\ ~(i - 1 < k) /\ (i - 1) + 1 = i /\ i + 1 \in 1..L
          /\ ~(i < k) /\ i \in 0..L /\ i # k - 1 /\ i + 1 # k + 1 /\ (i + 1) - 1 = i
      BY <2>3, <1>1
    <3>2. s(i - 1) = p(i) /\ r[i] = q[i + 1]
      BY <3>1, <1>2, <1>8
    <3>3. next[p(i)] = q[i + 1] /\ prev[q[i + 1]] = p(i)
      BY <3>1, <1>4
    <3> QED
      BY <3>1, <3>2, <3>3, <1>9, <1>10
  <2> QED
    BY <2>1, <2>2, <2>3, <1>1, <1>2
<1>12. next'[s(L - 1)] = NoNode /\ last'[y] = s(L - 1)
  <2>1. CASE k = L
    <3>1. L - 1 \in 0..(L - 1) /\ L - 1 < k
      BY <2>1, <1>1
    <3>2. s(L - 1) = p(k - 1)
      BY <3>1, <2>1, <1>8
    <3> QED
      BY <3>2, <2>1, <1>7, <1>9, <1>10
  <2>2. CASE k < L
    <3>1. L - 1 \in 0..(L - 1) /\ ~(L - 1 < k) /\ (L - 1) + 1 = L /\ L \in 0..L /\ L # k - 1
      BY <2>2, <1>1
    <3>2. s(L - 1) = p(L)
      BY <3>1, <1>8
    <3> QED
      BY <3>1, <3>2, <2>2, <1>4, <1>9, <1>10
  <2> QED
    BY <2>1, <2>2, <1>1, <1>2
<1>13. Links(y, r)'
  BY <1>1, <1>11, <1>12 DEF Links, s
<1> QED
  BY <1>13 DEF r

(* TAILQ_INSERT_TAIL of a node that the queue has not.                     *)
LEMMA TailLinks ==
    ASSUME CachesTyped, NEW y \in Types, NEW q \in Seq(NodeOf(y)), Links(y, q),
           NEW n \in NodeOf(y), n \notin Nodes(q), InsertTail(y, n)
    PROVE  Links(y, Append(q, n))'
<1> DEFINE r == Append(q, n)
           L == Len(q)
<1>0. IsInjective(q)
  BY DEF Links
<1>1. /\ r \in Seq(NodeOf(y)) /\ Len(r) = L + 1 /\ L \in Nat /\ IsInjective(r)
      /\ \A i \in 1..L : r[i] = q[i]
      /\ r[L + 1] = n
  BY <1>0, AppendGains, AppendProperties DEF Gains
<1> DEFINE p(i) == Place(y, q, i)
           s(i) == Place(y, r, i)
<1>2. /\ y \notin Node /\ n \in Node /\ n # y
      /\ \A i \in 1..L : q[i] \in Node /\ p(i) = q[i] /\ q[i] # n
      /\ \A i \in 0..L : p(i) \in Types \cup Node /\ p(i) # n
      /\ \A i, j \in 0..L : p(i) = p(j) => i = j
  <2>1. /\ y \notin Node
        /\ \A i \in 1..L : q[i] \in Node /\ p(i) = q[i] /\ q[i] \in Nodes(q)
        /\ \A i \in 0..L : p(i) \in {y} \cup NodeOf(y)
        /\ p(0) = y
        /\ \A i, j \in 0..L : p(i) = p(j) => i = j
    BY <1>0, PlaceFacts DEF Nodes
  <2>2. n \in Node /\ n # y
    BY <2>1 DEF NodeOf
  <2>3. \A i \in 0..L : i = 0 \/ i \in 1..L
    BY <1>1
  <2> QED
    BY <2>1, <2>2, <2>3 DEF NodeOf
<1>3. /\ \A i \in 1..L : next[p(i - 1)] = q[i] /\ prev[q[i]] = p(i - 1)
      /\ next[p(L)] = NoNode /\ last[y] = p(L)
  BY DEF Links
<1>4. /\ \A i \in 0..L : s(i) = p(i)
      /\ s(L + 1) = n
  BY <1>1 DEF Place
<1> HIDE DEF p, s, r, L
<1>5. L \in 0..L
  BY <1>1
<1>6. /\ next'[n] = NoNode /\ next'[p(L)] = n
      /\ \A i \in 0..L : i # L => next'[p(i)] = next[p(i)]
      /\ prev'[n] = p(L)
      /\ \A i \in 1..L : prev'[q[i]] = prev[q[i]]
      /\ last'[y] = n
  BY <1>2, <1>3, <1>5 DEF InsertTail, CachesTyped
<1>7. ASSUME NEW i \in 1..(L + 1)
      PROVE  next'[s(i - 1)] = r[i] /\ prev'[r[i]] = s(i - 1)
  <2>1. CASE i = L + 1
    <3>1. i - 1 = L
      BY <2>1, <1>1
    <3> QED
      BY <3>1, <2>1, <1>1, <1>4, <1>5, <1>6
  <2>2. CASE i # L + 1
    <3>1. i \in 1..L /\ i - 1 \in 0..L /\ i - 1 # L
      BY <2>2, <1>1
    <3> QED
      BY <3>1, <1>1, <1>3, <1>4, <1>6
  <2> QED
    BY <2>1, <2>2
<1>8. next'[s(L + 1)] = NoNode /\ last'[y] = s(L + 1)
  BY <1>4, <1>6
<1> QED
  BY <1>1, <1>7, <1>8 DEF Links, s, r

-----------------------------------------------------------------------------
(* The caches.                                                             *)

(* The pointers lead to nodes of their own cache, while no function was    *)
(* called for two.                                                         *)
Places == \A y \in Types : InPlace(y)

(* A step that moves no node misplaces none.                               *)
LEMMA Unmoved ==
    ASSUME OnlyMixedMisplaces, map' = map, UNCHANGED links, mixed \subseteq mixed'
    PROVE  OnlyMixedMisplaces'
BY DEF OnlyMixedMisplaces, InPlace, NodeOf, Mapped, links

(* A step that moves the nodes of one cache.                               *)
LEMMA Moved ==
    ASSUME OnlyMixedMisplaces, map' = map, mixed' = mixed, mixed = {} => Places'
    PROVE  OnlyMixedMisplaces'
BY DEF OnlyMixedMisplaces, Places, NodeOf, Mapped

LEMMA CacheFields ==
    ASSUME TypeOK, NEW y \in Types
    PROVE  /\ Mapped(y) \subseteq Node
           /\ next[y] \in Node \cup {NoNode} /\ last[y] \in Types \cup Node
           /\ \A n \in Node : next[n] \in Node \cup {NoNode}
                    /\ prev[n] \in Types \cup Node \cup {NoNode}
           /\ map[y] \in [Ids -> Node \cup {NoNode}]
           /\ size[y] \in Int /\ sets \in Int /\ freed \subseteq Node
           /\ \A n \in Node : n.nr \in Int /\ n.id \in Ids
<1>1. /\ size[y] \in Int /\ map[y] \in [Ids -> Node \cup {NoNode}]
      /\ next[y] \in Node \cup {NoNode} /\ last[y] \in Types \cup Node
      /\ freed \subseteq Node /\ sets \in Int
  BY DEF TypeOK, CachesTyped
<1>2. Mapped(y) \subseteq Node
  BY <1>1 DEF Mapped
<1>3. \A n \in Node : next[n] \in Node \cup {NoNode}
                    /\ prev[n] \in Types \cup Node \cup {NoNode}
  BY DEF TypeOK, CachesTyped
<1>4. \A n \in Node : n.nr \in Int /\ n.id \in Ids
  BY DEF Node
<1> QED
  BY <1>1, <1>2, <1>3, <1>4

(* What a thread finds that stays apart from the others.                   *)
Found(t, y, q) ==
    /\ q \in Seq(NodeOf(y)) /\ Kept(y, q) /\ CacheOf(call[t], q)

LEMMA Quiet ==
    ASSUME IInv, NEW t \in Threads, call[t].at # "none", mixed = {}, together = {}
    PROVE  /\ Works(t) = {call[t].type} /\ call[t].type \in Types
           /\ \A u \in Threads \ {t} : call[u].type # call[t].type
           /\ ~fault /\ Places /\ Hand(call[t])
           /\ \E q \in Seq(NodeOf(call[t].type)) : Found(t, call[t].type, q)
<1>1. Works(t) = {call[t].type} /\ call[t].type \in Types
  BY WorksOn DEF IInv
<1>2. call[t].type # "none"
  BY Idle DEF IInv
<1>3. \E q \in Seq(NodeOf(call[t].type)) : Found(t, call[t].type, q)
  BY <1>1 DEF IInv, ApartStates, Apart, Found
<1> QED
  BY <1>1, <1>2, <1>3 DEF IInv, Alone, ApartStates, InHand, OnlyMixedMisplaces, Places

(* The cache that the step of a thread is about is its own.                *)
Owns(t, y) ==
    /\ \A u \in Threads \ {t} : call[u].type # y
    /\ call[t].type \in {y, "none"} /\ call'[t].type \in {y, "none"}

(* The step leaves the other caches as they are.                           *)
Elsewhere(y) ==
    \A z \in Types \ {y} :
        /\ map'[z] = map[z] /\ size'[z] = size[z]
        /\ next'[z] = next[z] /\ last'[z] = last[z]
        /\ \A n \in NodeOf(z) : /\ next'[n] = next[n] /\ prev'[n] = prev[n]
                                /\ n \in freed' <=> n \in freed

(* What such a step does to the caches.                                    *)
Settles(t, y) ==
    /\ ~fault' /\ Elsewhere(y)
    /\ \E q \in Seq(NodeOf(y)) :
        /\ Kept(y, q)'
        /\ call'[t].type = "none" => InOrder(y, q, {}, 0)'
        /\ call'[t].type = y => CacheOf(call[t], q)'

LEMMA OtherCaches ==
    ASSUME TypeOK, NEW y \in Types, Elsewhere(y), NEW z \in Types \ {y},
           NEW q \in Seq(NodeOf(z)), Kept(z, q), sets' \in Int, sets' >= sets
    PROVE  /\ Kept(z, q)'
           /\ Mapped(z)' = Mapped(z) /\ All(z, q)' = All(z, q)
           /\ \A known, count : InOrder(z, q, known, count) => InOrder(z, q, known, count)'
           /\ \A n \in NodeOf(z) : Spare(q, n) => Spare(q, n)'
<1>1. IsInjective(q) /\ Links(z, q)
  BY DEF Kept, Links
<1>2. /\ Len(q) \in Nat /\ Nodes(q) \subseteq NodeOf(z)
      /\ \A i \in 1..Len(q) : q[i] \in NodeOf(z)
      /\ \A i \in 0..Len(q) : Place(z, q, i) \in {z} \cup NodeOf(z)
  BY <1>1, PlaceFacts
<1>3. /\ map'[z] = map[z] /\ size'[z] = size[z] /\ last'[z] = last[z]
      /\ \A l \in {z} \cup NodeOf(z) : next'[l] = next[l]
      /\ \A n \in NodeOf(z) : prev'[n] = prev[n] /\ (n \in freed' <=> n \in freed)
  BY DEF Elsewhere
<1>4. Mapped(z)' = Mapped(z) /\ Mapped(z) \subseteq NodeOf(z)
  <2>1. Mapped(z)' = Mapped(z)
    BY <1>3 DEF Mapped
  <2>2. Mapped(z) \subseteq NodeOf(z)
    BY CacheFields DEF Kept, Bound, Mapped, NodeOf
  <2> QED
    BY <2>1, <2>2
<1>5. All(z, q)' = All(z, q)
  <2>1. (freed \cap NodeOf(z))' = freed \cap NodeOf(z)
    BY <1>3 DEF NodeOf
  <2> QED
    BY <2>1, <1>4 DEF All
<1>6. \A i \in 1..Len(q) : i - 1 \in 0..Len(q)
  BY <1>2
<1>7. Len(q) \in 0..Len(q)
  BY <1>2
<1>8. Links(z, q)'
  BY <1>1, <1>2, <1>3, <1>6, <1>7 DEF Links
<1>9. \A n \in All(z, q) : n.nr <= sets'
  <2>1. \A n \in All(z, q) : n.nr \in Int /\ n.nr <= sets
    BY <1>2, <1>4, CacheFields DEF All, NodeOf, Kept
  <2> QED
    BY <2>1, CacheFields
<1>10. Kept(z, q)'
  BY <1>2, <1>3, <1>4, <1>5, <1>8, <1>9 DEF Kept, Bound
<1> QED
  BY <1>3, <1>4, <1>5, <1>10 DEF InOrder, Spare

(* A step leaves the caches of the other threads as they are.              *)
LEMMA ApartFrame ==
    ASSUME IInv, NEW t \in Threads, NEW y \in Types, Others(t),
           sets' \in Int, sets' >= sets,
           mixed \subseteq mixed', together \subseteq together',
           mixed' = {} /\ together' = {} => Owns(t, y) /\ Settles(t, y)
    PROVE  ApartStates'
<1> SUFFICES ASSUME mixed' = {}, together' = {}
             PROVE  /\ ~fault'
                    /\ \A z \in Types : \E q \in Seq(NodeOf(z)) : Apart(z, q)'
  BY DEF ApartStates, NodeOf
<1>0. Owns(t, y) /\ Settles(t, y) /\ mixed = {} /\ together = {}
  OBVIOUS
<1>1. ~fault'
  BY <1>0 DEF Settles
<1>2. \E q \in Seq(NodeOf(y)) : Apart(y, q)'
  <2>1. PICK q \in Seq(NodeOf(y)) :
            /\ Kept(y, q)'
            /\ call'[t].type = "none" => InOrder(y, q, {}, 0)'
            /\ call'[t].type = y => CacheOf(call[t], q)'
    BY <1>0 DEF Settles
  <2>2. (\A u \in Threads : call'[u].type # y) => InOrder(y, q, {}, 0)'
    BY <1>0, <2>1 DEF Owns
  <2>3. ASSUME NEW u \in Threads, call'[u].type = y
        PROVE  CacheOf(call[u], q)'
    <3>1. u = t
      BY <2>3, <1>0 DEF Owns, Others
    <3> QED
      BY <3>1, <2>1, <2>3
  <2> QED
    BY <2>1, <2>2, <2>3 DEF Apart
<1>3. ASSUME NEW z \in Types \ {y}
      PROVE  \E q \in Seq(NodeOf(z)) : Apart(z, q)'
  <2>1. PICK q \in Seq(NodeOf(z)) : Apart(z, q)
    BY <1>0 DEF IInv, ApartStates
  <2>2. /\ Kept(z, q)'
        /\ Mapped(z)' = Mapped(z) /\ All(z, q)' = All(z, q)
        /\ \A known, count : InOrder(z, q, known, count) => InOrder(z, q, known, count)'
        /\ \A n \in NodeOf(z) : Spare(q, n) => Spare(q, n)'
    BY <1>0, <2>1, OtherCaches DEF IInv, Apart, Settles
  <2>3. ASSUME \A u \in Threads : call'[u].type # z
        PROVE  InOrder(z, q, {}, 0)'
    <3>1. \A u \in Threads : call[u].type # z
      BY <1>0, <2>3, NamesAssumption DEF Others, Owns
    <3> QED
      BY <3>1, <2>1, <2>2 DEF Apart
  <2>4. ASSUME NEW u \in Threads, call'[u].type = z
        PROVE  CacheOf(call[u], q)'
    <3>1. u # t /\ call'[u] = call[u]
      BY <2>4, <1>0, NamesAssumption DEF Others, Owns
    <3>2. call[u].type = z /\ CacheOf(call[u], q)
      BY <3>1, <2>1, <2>4 DEF Apart
    <3>3. /\ call[u].at = "insert" => call[u].new \in NodeOf(z)
          /\ call[u].at \in {"relink", "free"} => call[u].node \in NodeOf(z)
      <4>1. CallState(call[u]) /\ Hand(call[u])
        BY <1>0, CallFields DEF IInv, InHand
      <4> QED
        BY <4>1, <3>2 DEF CallState, Hand, NodeOf
    <3>4. map'[z] = map[z] /\ size'[z] = size[z]
      BY <1>0 DEF Settles, Elsewhere
    <3> QED
      BY <3>1, <3>2, <3>3, <3>4, <2>2 DEF CacheOf
  <2> QED
    BY <2>2, <2>3, <2>4 DEF Apart
<1> QED
  BY <1>1, <1>2, <1>3

(* A step inside a call, for the cache y.                                  *)
LEMMA InsideKeeps ==
    ASSUME IInv, NEW t \in Threads, NEW y \in Types, call[t].type = y, Goes_on(t),
           TypeOK', CallState(call[t])', OnlyMixedMisplaces',
           mixed = {} => Hand(call[t])',
           mixed = {} /\ together = {} => Settles(t, y)
    PROVE  IInv'
<1>0. call[t].at # "none"
  BY Idle, NamesAssumption DEF IInv
<1>1. KeepsSelected' /\ Alone'
  BY <1>0, GoingOn DEF IInv
<1>2. /\ Others(t) /\ selected' = selected /\ sets' = sets
      /\ mixed' = mixed /\ together' = together /\ sets \in Int
  BY DEF Goes_on, IInv, TypeOK, history, counts
<1>3. CallStates'
  BY <1>2, OtherCalls DEF IInv, CallStates
<1>4. call'[t].type \in {y, "none"}
  BY DEF Goes_on, NoCall
<1>5. mixed = {} /\ together = {} => Owns(t, y)
  BY <1>0, <1>4, Quiet DEF Owns
<1>6. ApartStates'
  BY <1>2, <1>5, ApartFrame
<1>7. InHand'
  BY <1>2 DEF IInv, InHand, Others, Hand
<1> QED
  BY <1>1, <1>3, <1>6, <1>7 DEF IInv

(* What the end of a call does to the caches, if its thread stays apart.   *)
Restores(t, y) ==
    /\ Elsewhere(y)
    /\ \E q \in Seq(NodeOf(y)) : Kept(y, q)' /\ InOrder(y, q, {}, 0)'
    /\ call[t].outer => size'[y] >= call[t].left - 1 + MaxSize

(* The last step of a call.                                                *)
LEMMA ReturnKeeps ==
    ASSUME IInv, NEW t \in Threads, NEW y \in Types, call[t].type = y, Returns(t),
           UNCHANGED <<selected, counts, history, fault>>,
           CachesTyped', OnlyMixedMisplaces',
           mixed = {} /\ together = {} => Restores(t, y)
    PROVE  IInv'
<1>0. call[t].at # "none" /\ y # "none"
  BY Idle, NamesAssumption DEF IInv
<1>1. /\ call' \in [Threads -> Call] /\ CallStates' /\ Goes_on(t)
      /\ ~call[t].outer => call'[t] = NoCall /\ call'[t].type = "none"
      /\ call[t].outer =>
           /\ call'[t].at = "loop" /\ call'[t].fn = "set"
           /\ call'[t].type = y
           /\ call'[t].left = call[t].left - 1
  BY <1>0, Returning DEF IInv
<1>2. TypeOK'
  BY <1>1 DEF IInv, TypeOK, counts, history
<1>3. CallState(call[t])'
  BY <1>1 DEF CallStates
<1>4. Hand(call[t])'
  BY <1>1 DEF Hand, NoCall
<1>5. ASSUME mixed = {}, together = {}
      PROVE  Settles(t, y)
  <2>1. ~fault' /\ Restores(t, y)
    BY <1>0, <1>5, Quiet
  <2>2. PICK q \in Seq(NodeOf(y)) : Kept(y, q)' /\ InOrder(y, q, {}, 0)'
    BY <2>1 DEF Restores
  <2>3. CASE ~call[t].outer
    BY <1>0, <1>1, <2>1, <2>2, <2>3 DEF Restores, Settles
  <2>4. CASE call[t].outer
    <3>1. CacheOf(call[t], q)'
      BY <1>1, <2>1, <2>2, <2>4 DEF Restores, CacheOf
    <3> QED
      BY <1>0, <1>1, <2>1, <2>2, <2>4, <3>1 DEF Restores, Settles
  <2> QED
    BY <2>3, <2>4
<1> QED
  BY <1>1, <1>2, <1>3, <1>4, <1>5, InsideKeeps

(* A misuse of memory, which cannot be in a thread that stays apart.       *)
LEMMA FaultKeeps ==
    ASSUME IInv, fault' = TRUE, UNCHANGED <<selected, shared, counts, call, history>>,
           ~(mixed = {} /\ together = {})
    PROVE  IInv'
<1>1. UNCHANGED <<selected, map, next, prev, last, size, freed, sets, calls, call, mixed, together>>
  BY DEF shared, links, counts, history
<1>2. TypeOK'
  BY <1>1 DEF IInv, TypeOK, CachesTyped
<1>3. CallStates' /\ KeepsSelected' /\ Alone' /\ InHand'
  BY <1>1 DEF IInv, CallStates, CallState, KeepsSelected, Alone, InHand, Hand
<1>4. OnlyMixedMisplaces'
  BY <1>1, Unmoved DEF IInv, links
<1>5. ApartStates'
  BY <1>1 DEF ApartStates
<1> QED
  BY <1>2, <1>3, <1>4, <1>5 DEF IInv

-----------------------------------------------------------------------------
(* The steps.                                                              *)

(* A cache whose nodes and map stay as they are.                           *)
LEMMA SameCache ==
    ASSUME TypeOK, NEW y \in Types, NEW q \in Seq(NodeOf(y)),
           UNCHANGED <<map, links, freed>>, sets' \in Int, sets' >= sets, Kept(y, q)
    PROVE  /\ Kept(y, q)' /\ Mapped(y)' = Mapped(y) /\ All(y, q)' = All(y, q)
           /\ \A n \in All(y, q) : n.nr \in Int /\ n.nr <= sets
<1>1. Mapped(y)' = Mapped(y) /\ All(y, q)' = All(y, q)
  BY DEF Mapped, All, NodeOf
<1>2. \A n \in All(y, q) : n.nr \in Int /\ n.nr <= sets
  <2>1. Nodes(q) \subseteq Node
    BY PlaceFacts DEF Kept, Links, NodeOf
  <2> QED
    BY <2>1, CacheFields DEF All, Kept
<1>3. Links(y, q)'
  BY DEF Kept, Links, links
<1>4. \A n \in All(y, q) : n.nr <= sets'
  BY <1>2, CacheFields
<1> QED
  BY <1>1, <1>2, <1>3, <1>4 DEF Kept, Bound

(* The beginning of a call.                                                *)
LEMMA BeginKeeps ==
    ASSUME IInv, NEW t \in Threads, NEW f \in Functions, NEW type \in Types, NEW id \in Ids,
           NEW new \in Node \cup {NoNode}, call[t] = NoCall, Select(t, f, type, id, new),
           UNCHANGED <<shared, fault>>, sets' \in 0..MaxSets, sets' >= sets,
           calls' \in 0..MaxCalls,
           f = "set" => new = [type |-> type, id |-> id, nr |-> sets + 1] /\ sets' = sets + 1
    PROVE  IInv'
<1>1. /\ KeepsSelected' /\ Alone' /\ Others(t)
      /\ selected' \in [Functions -> Types \cup {"none"}]
      /\ \A g \in Functions : selected[g] \in Types => selected'[g] \in Types
      /\ mixed \subseteq mixed' /\ together \subseteq together'
      /\ mixed' \subseteq Functions /\ together' \subseteq Types
      /\ call' \in [Threads -> Call]
      /\ call'[t] = [call[t] EXCEPT !.fn = f, !.at = "lookup", !.type = type,
                       !.id = id, !.outer = call[t].fn = "set", !.new = new]
      /\ together' = {} => \A u \in Threads \ {t} : call[u].type # type
  <2>1. TypeOK /\ CallStates /\ KeepsSelected /\ Alone /\ MayBegin(t, f, type)
    BY DEF IInv, MayBegin
  <2>2. Begun(t, f, type, id, new)
    BY <2>1, Selecting
  <2> QED
    BY <2>2 DEF Begun
<1>2. /\ call'[t].fn = f /\ call'[t].at = "lookup" /\ call'[t].type = type
      /\ call'[t].id = id /\ ~call'[t].outer /\ call'[t].new = new
      /\ call'[t].left = 0
  <2>1. /\ call'[t].fn = f /\ call'[t].at = "lookup" /\ call'[t].type = type
        /\ call'[t].id = id /\ call'[t].outer = (call[t].fn = "set")
        /\ call'[t].new = new /\ call'[t].left = call[t].left
    BY <1>1, CallFields DEF Call, IInv
  <2>2. call[t].fn # "set" /\ call[t].left = 0
    BY DEF NoCall
  <2> QED
    BY <2>1, <2>2
<1>3. TypeOK'
  BY <1>1 DEF IInv, TypeOK, CachesTyped, shared, links
<1>4. sets \in Int /\ sets' \in Int
  BY DEF IInv, TypeOK
<1>5. CallState(call[t])'
  <2>1. selected'[f] \in Types
    BY DEF Select, Shares, IInv, TypeOK
  <2>2. f = "set" => new.nr <= sets' /\ new.type = type /\ new.id = id /\ new \in Node
    <3>1. SUFFICES ASSUME f = "set"
                   PROVE  new.nr <= sets' /\ new.type = type /\ new.id = id /\ new \in Node
      OBVIOUS
    <3>2. new = [type |-> type, id |-> id, nr |-> sets + 1] /\ sets' = sets + 1
      BY <3>1
    <3>3. sets + 1 \in 1..MaxSets
      BY <3>2, <1>4, SizesAssumption DEF IInv, TypeOK
    <3> QED
      BY <3>2, <3>3 DEF Node
  <2> QED
    BY <1>2, <2>1, <2>2 DEF CallState, NodeOf
<1>6. CallStates'
  BY <1>1, <1>4, <1>5, OtherCalls DEF CallStates, IInv
<1>7. OnlyMixedMisplaces'
  BY <1>1, Unmoved DEF IInv, shared
<1>8. InHand'
  <2>1. /\ mixed \subseteq mixed' /\ call'[t].at = "lookup"
        /\ \A u \in Threads \ {t} : call'[u] = call[u]
    BY <1>1, <1>2 DEF Others
  <2> QED
    BY <2>1 DEF IInv, InHand, Hand
<1>9. ASSUME mixed' = {}, together' = {}
      PROVE  Owns(t, type) /\ Settles(t, type)
  <2>1. call[t].type = "none" /\ type # "none"
    BY NamesAssumption DEF NoCall
  <2>2. PICK q \in Seq(NodeOf(type)) : Kept(type, q) /\ InOrder(type, q, {}, 0)
    BY <2>1, <1>1, <1>9 DEF IInv, ApartStates, Apart
  <2>3. /\ Kept(type, q)' /\ Mapped(type)' = Mapped(type) /\ All(type, q)' = All(type, q)
        /\ \A n \in All(type, q) : n.nr \in Int /\ n.nr <= sets
    BY <2>2, <1>4, SameCache DEF IInv, shared
  <2>4. InOrder(type, q, {}, 0)'
    BY <2>2, <2>3 DEF InOrder, shared
  <2>5. f = "set" => \A n \in All(type, q) : n.nr < new.nr
    BY <2>3, <1>4
  <2>6. CacheOf(call[t], q)'
    BY <2>3, <2>4, <2>5, <1>2 DEF CacheOf
  <2>7. Elsewhere(type) /\ ~fault'
    BY <1>1, <1>9 DEF Elsewhere, shared, links, IInv, ApartStates
  <2> QED
    BY <2>1, <2>3, <2>6, <2>7, <1>1, <1>2, <1>9 DEF Owns, Settles
<1>10. ApartStates'
  BY <1>1, <1>4, <1>9, ApartFrame
<1> QED
  BY <1>1, <1>3, <1>6, <1>7, <1>8, <1>10 DEF IInv

(* The thread goes on in its function, and moves no other field of its     *)
(* call.                                                                   *)
LEMMA Going ==
    ASSUME IInv, NEW t \in Threads, call[t].at # "none",
           NEW at \in {"relink", "put", "insert", "clean", "loop", "free"}, Goes(t, at),
           UNCHANGED <<selected, counts, history>>
    PROVE  /\ Goes_on(t)
           /\ call' \in [Threads -> Call]
           /\ call'[t].at = at
           /\ call'[t].fn = call[t].fn /\ call'[t].type = call[t].type
           /\ call'[t].id = call[t].id /\ call'[t].outer = call[t].outer
           /\ call'[t].node = call[t].node /\ call'[t].new = call[t].new
           /\ call'[t].left = call[t].left
<1>1. call[t] \in Call
  BY CallFields DEF IInv
<1>2. [call[t] EXCEPT !.at = at] \in Call
  BY <1>1 DEF Call
<1>3. call' \in [Threads -> Call] /\ call'[t] = [call[t] EXCEPT !.at = at] /\ Others(t)
  BY <1>2 DEF Goes, IInv, TypeOK, Others
<1>4. /\ call'[t].at = at
      /\ call'[t].fn = call[t].fn /\ call'[t].type = call[t].type
      /\ call'[t].id = call[t].id /\ call'[t].outer = call[t].outer
      /\ call'[t].node = call[t].node /\ call'[t].new = call[t].new
      /\ call'[t].left = call[t].left
  BY <1>1, <1>3 DEF Call
<1> QED
  BY <1>3, <1>4 DEF Goes_on

LEMMA LookupKeeps ==
    ASSUME IInv, NEW t \in Threads, Lookup(t)
    PROVE  IInv'
<1>1. call[t].at = "lookup" /\ UNCHANGED counts
  BY DEF Lookup
<1>2. /\ call[t] \in Call /\ CallState(call[t]) /\ call[t].id \in Ids
      /\ Works(t) \subseteq Types /\ call[t].type \in Types
      /\ call[t].fn \in Functions
      /\ "set" \notin mixed => \A x \in Types : Mapped(x) \subseteq NodeOf(x)
  BY <1>1, CallFields, WorksOn DEF IInv, CallState, OnlyMixedMisplaces
<1>3. PICK z \in Works(t) :
        \/ Faults(map[z][call[t].id] \in freed)
        \/ /\ IF map[z][call[t].id] # NoNode
              THEN call' = [call EXCEPT ![t].at = "unlink", ![t].node = map[z][call[t].id]]
              ELSE IF call[t].fn = "set" THEN Goes(t, "put")
              ELSE Returns(t)
           /\ UNCHANGED <<selected, shared, history, fault>>
  BY DEF Lookup
<1>4. PICK y \in Types : call[t].type = y
  BY <1>2
<1>5. map[z] \in [Ids -> Node \cup {NoNode}] /\ freed \subseteq Node
  BY <1>2, CacheFields DEF IInv
<1>6. ASSUME mixed = {}, together = {}
      PROVE  /\ z = y /\ ~fault
             /\ \E q \in Seq(NodeOf(y)) :
                  /\ Kept(y, q) /\ InOrder(y, q, {}, 0)
                  /\ call[t].fn = "set" => \A n \in All(y, q) : n.nr < call[t].new.nr
             /\ map[z][call[t].id] \notin freed
             /\ call[t].left > 0 => size[y] >= call[t].left + MaxSize
  <2>1. z = y /\ ~fault
    BY <1>1, <1>4, <1>6, Quiet
  <2>2. PICK q \in Seq(NodeOf(y)) : Kept(y, q) /\ CacheOf(call[t], q)
    BY <1>1, <1>4, <1>6, Quiet DEF Found
  <2>3. map[z][call[t].id] \notin freed
    <3>1. map[z][call[t].id] \in Mapped(y) \cup {NoNode}
      BY <2>1, <1>2 DEF Mapped
    <3> QED
      BY <3>1, <2>2, <1>5, NamesAssumption DEF Kept
  <2> QED
    BY <2>1, <2>2, <2>3, <1>1, <1>4 DEF CacheOf
<1>7. CASE Faults(map[z][call[t].id] \in freed)
  <2>1. map[z][call[t].id] \in freed
    BY <1>7 DEF Faults
  <2> QED
    BY <2>1, <1>1, <1>6, <1>7, FaultKeeps DEF Faults
<1>8. CASE /\ IF map[z][call[t].id] # NoNode
              THEN call' = [call EXCEPT ![t].at = "unlink", ![t].node = map[z][call[t].id]]
              ELSE IF call[t].fn = "set" THEN Goes(t, "put")
              ELSE Returns(t)
           /\ UNCHANGED <<selected, shared, history, fault>>
  <2>1. /\ UNCHANGED <<map, links, size, freed, selected, sets, history, fault>>
        /\ sets' \in Int /\ sets' >= sets
    BY <1>1, <1>8, CacheFields DEF shared, counts, IInv, TypeOK
  <2>2. OnlyMixedMisplaces'
    BY <2>1, Unmoved DEF IInv, history
  <2>3. CachesTyped'
    BY <2>1 DEF IInv, TypeOK, CachesTyped, links
  <2>4. ASSUME mixed = {}, together = {}
        PROVE  /\ ~fault' /\ Elsewhere(y)
               /\ \E q \in Seq(NodeOf(y)) :
                    /\ Kept(y, q)' /\ InOrder(y, q, {}, 0)'
                    /\ call[t].fn = "set" => \A n \in All(y, q)' : n.nr < call[t].new.nr
    <3>1. PICK q \in Seq(NodeOf(y)) :
                  /\ Kept(y, q) /\ InOrder(y, q, {}, 0)
                  /\ call[t].fn = "set" => \A n \in All(y, q) : n.nr < call[t].new.nr
      BY <2>4, <1>6
    <3>2. Kept(y, q)' /\ Mapped(y)' = Mapped(y) /\ All(y, q)' = All(y, q)
      BY <3>1, <2>1, SameCache DEF IInv
    <3>3. InOrder(y, q, {}, 0)'
      BY <3>1, <3>2, <2>1 DEF InOrder
    <3>4. ~fault' /\ Elsewhere(y)
      BY <2>1, <2>4, <1>6 DEF Elsewhere, links
    <3> QED
      BY <3>1, <3>2, <3>3, <3>4
  <2>5. CASE map[z][call[t].id] # NoNode
    <3>1. map[z][call[t].id] \in Node
      BY <1>2, <1>5, <2>5
    <3>2. [call[t] EXCEPT !.at = "unlink", !.node = map[z][call[t].id]] \in Call
      BY <3>1, <1>2 DEF Call
    <3>3. /\ call' \in [Threads -> Call] /\ Others(t)
          /\ call'[t] = [call[t] EXCEPT !.at = "unlink", !.node = map[z][call[t].id]]
      BY <3>2, <1>8, <2>5 DEF Others, IInv, TypeOK
    <3>4. /\ call'[t].at = "unlink" /\ call'[t].node = map[z][call[t].id]
          /\ call'[t].fn = call[t].fn /\ call'[t].type = call[t].type
          /\ call'[t].id = call[t].id /\ call'[t].outer = call[t].outer
          /\ call'[t].new = call[t].new /\ call'[t].left = call[t].left
      BY <3>3, <1>2 DEF Call
    <3>5. Goes_on(t)
      BY <3>3, <3>4, <2>1, <1>1 DEF Goes_on, counts
    <3>6. TypeOK'
      BY <3>3, <2>1, <2>3, <1>1 DEF IInv, TypeOK, counts, history
    <3>7. CallState(call[t])'
      BY <3>1, <3>4, <2>1, <1>1, <1>2 DEF CallState
    <3>8. ASSUME mixed = {}
          PROVE  Hand(call[t])'
      <4>1. z = y
        BY <3>8, <1>1, <1>2, <1>4, WorksOn DEF IInv
      <4>2. map[z][call[t].id] \in Mapped(y)
        BY <4>1, <2>5, <1>2 DEF Mapped
      <4> QED
        BY <4>2, <3>4, <3>8, <1>2, <1>4 DEF Hand, NodeOf
    <3>9. ASSUME mixed = {}, together = {}
          PROVE  Settles(t, y)
      <4>1. PICK q \in Seq(NodeOf(y)) :
                    /\ Kept(y, q)' /\ InOrder(y, q, {}, 0)'
                    /\ call[t].fn = "set" => \A n \in All(y, q)' : n.nr < call[t].new.nr
        BY <3>9, <2>4
      <4>2. CacheOf(call[t], q)'
        BY <4>1, <3>4, <3>9, <2>1, <1>4, <1>6 DEF CacheOf
      <4> QED
        BY <4>1, <4>2, <3>4, <3>9, <2>4, <1>4, NamesAssumption DEF Settles
    <3> QED
      BY <3>5, <3>6, <3>7, <3>8, <3>9, <2>2, <1>4, InsideKeeps
  <2>6. CASE map[z][call[t].id] = NoNode /\ call[t].fn = "set"
    <3>1. Goes(t, "put")
      BY <1>8, <2>6
    <3>2. /\ Goes_on(t)
          /\ call' \in [Threads -> Call]
          /\ call'[t].at = "put"
          /\ call'[t].fn = call[t].fn /\ call'[t].type = call[t].type
          /\ call'[t].id = call[t].id /\ call'[t].outer = call[t].outer
          /\ call'[t].node = call[t].node /\ call'[t].new = call[t].new
          /\ call'[t].left = call[t].left
      BY <3>1, <2>1, <1>1, Going
    <3>3. TypeOK'
      BY <3>2, <2>1, <2>3, <1>1 DEF IInv, TypeOK, counts, history
    <3>4. CallState(call[t])'
      BY <3>2, <2>1, <2>6, <1>1, <1>2 DEF CallState
    <3>5. Hand(call[t])'
      BY <3>2 DEF Hand
    <3>6. ASSUME mixed = {}, together = {}
          PROVE  Settles(t, y)
      <4>1. PICK q \in Seq(NodeOf(y)) :
                    /\ Kept(y, q)' /\ InOrder(y, q, {}, 0)'
                    /\ call[t].fn = "set" => \A n \in All(y, q)' : n.nr < call[t].new.nr
        BY <3>6, <2>4
      <4>2. CacheOf(call[t], q)'
        BY <4>1, <3>2, <3>6, <2>1, <1>4, <1>6 DEF CacheOf
      <4> QED
        BY <4>1, <4>2, <3>2, <3>6, <2>4, <1>4, NamesAssumption DEF Settles
    <3> QED
      BY <3>2, <3>3, <3>4, <3>5, <3>6, <2>2, <1>4, InsideKeeps
  <2>7. CASE map[z][call[t].id] = NoNode /\ call[t].fn # "set"
    <3>1. Returns(t)
      BY <1>8, <2>7
    <3>2. ASSUME mixed = {}, together = {}
          PROVE  Restores(t, y)
      <4>1. call[t].outer => size[y] >= call[t].left + MaxSize
        BY <3>2, <1>2, <1>6 DEF CallState
      <4>2. call[t].left \in Int /\ MaxSize \in Int /\ size[y] \in Int
        BY <1>2, SizesAssumption, CacheFields DEF Call, IInv
      <4>3. call[t].outer => size'[y] >= call[t].left - 1 + MaxSize
        BY <4>1, <4>2, <2>1
      <4> QED
        BY <4>3, <3>2, <2>4 DEF Restores
    <3> QED
      BY <3>1, <3>2, <2>1, <2>2, <2>3, <1>1, <1>4, ReturnKeeps
  <2> QED
    BY <2>5, <2>6, <2>7
<1> QED
  BY <1>3, <1>7, <1>8

(* TAILQ_REMOVE and TAILQ_INSERT_TAIL of a node of the cache, in its       *)
(* queue.                                                                  *)
LEMMA RemovePlaces ==
    ASSUME CachesTyped, Places, NEW y \in Types, NEW n \in NodeOf(y), prev[n] # NoNode,
           Removes(y, n), UNCHANGED <<map, size, freed>>
    PROVE  Places' /\ Elsewhere(y)
<1>1. n \in Node /\ prev[n] \in {y} \cup NodeOf(y) /\ next[n] \in NodeOf(y) \cup {NoNode}
  BY DEF Places, InPlace, NodeOf
<1>2. \A x \in Types \ {y} : prev[n] \notin {x} \cup NodeOf(x) /\ next[n] \notin NodeOf(x)
  BY <1>1, PlacesApart, NamesAssumption DEF NodeOf
<1>3. /\ \A l \in Types \cup Node : next'[l] = IF l = prev[n] THEN next[n] ELSE next[l]
      /\ \A m \in Node : prev'[m] = IF m = next[n] THEN prev[n] ELSE prev[m]
      /\ \A x \in Types : last'[x] = IF x = y /\ next[n] = NoNode THEN prev[n] ELSE last[x]
  BY <1>1, NamesAssumption DEF Removes, CachesTyped
<1>4. \A x \in Types : x \in Types \cup Node /\ NodeOf(x) \subseteq Node
  BY DEF NodeOf
<1>5. ASSUME NEW x \in Types
      PROVE  InPlace(x)'
  <2>1. InPlace(x)
    BY DEF Places
  <2>2. /\ last'[x] \in {x} \cup NodeOf(x)
        /\ \A l \in {x} \cup NodeOf(x) : next'[l] \in NodeOf(x) \cup {NoNode}
        /\ \A m \in NodeOf(x) : prev'[m] \in {x} \cup NodeOf(x) \cup {NoNode}
    <3>1. CASE x = y
      BY <3>1, <2>1, <1>1, <1>3, <1>4 DEF InPlace
    <3>2. CASE x # y
      BY <3>2, <2>1, <1>2, <1>3, <1>4 DEF InPlace
    <3> QED
      BY <3>1, <3>2
  <2> QED
    BY <2>2 DEF InPlace, NodeOf
<1>6. Elsewhere(y)
  BY <1>2, <1>3, <1>4 DEF Elsewhere
<1> QED
  BY <1>5, <1>6 DEF Places

LEMMA TailPlaces ==
    ASSUME CachesTyped, Places, NEW y \in Types, NEW n \in NodeOf(y),
           InsertTail(y, n), UNCHANGED <<map, size, freed>>
    PROVE  Places' /\ Elsewhere(y)
<1>1. n \in Node /\ last[y] \in {y} \cup NodeOf(y)
  BY DEF Places, InPlace, NodeOf
<1>2. \A x \in Types \ {y} : last[y] \notin {x} \cup NodeOf(x) /\ n \notin {x} \cup NodeOf(x)
  BY <1>1, PlacesApart, NamesAssumption DEF NodeOf
<1>3. /\ \A l \in Types \cup Node :
            next'[l] = IF l = last[y] THEN n ELSE IF l = n THEN NoNode ELSE next[l]
      /\ \A m \in Node : prev'[m] = IF m = n THEN last[y] ELSE prev[m]
      /\ \A x \in Types : last'[x] = IF x = y THEN n ELSE last[x]
  BY <1>1 DEF InsertTail, CachesTyped
<1>4. \A x \in Types : x \in Types \cup Node /\ NodeOf(x) \subseteq Node
  BY DEF NodeOf
<1>5. ASSUME NEW x \in Types
      PROVE  InPlace(x)'
  <2>1. InPlace(x)
    BY DEF Places
  <2>2. /\ last'[x] \in {x} \cup NodeOf(x)
        /\ \A l \in {x} \cup NodeOf(x) : next'[l] \in NodeOf(x) \cup {NoNode}
        /\ \A m \in NodeOf(x) : prev'[m] \in {x} \cup NodeOf(x) \cup {NoNode}
    <3>1. CASE x = y
      BY <3>1, <2>1, <1>1, <1>3, <1>4 DEF InPlace
    <3>2. CASE x # y
      BY <3>2, <2>1, <1>2, <1>3, <1>4 DEF InPlace
    <3> QED
      BY <3>1, <3>2
  <2> QED
    BY <2>2 DEF InPlace, NodeOf
<1>6. Elsewhere(y)
  BY <1>2, <1>3, <1>4 DEF Elsewhere
<1> QED
  BY <1>5, <1>6 DEF Places

(* The nodes of a queue, as numbers.                                       *)
LEMMA QueueFields ==
    ASSUME TypeOK, NEW y \in Types, NEW q \in Seq(NodeOf(y)), Kept(y, q)
    PROVE  /\ Len(q) \in Nat /\ IsInjective(q) /\ Links(y, q)
           /\ Nodes(q) \subseteq NodeOf(y) /\ Mapped(y) \subseteq NodeOf(y)
           /\ \A n \in All(y, q) : n \in NodeOf(y) /\ n.nr \in Int /\ n.nr <= sets
<1>1. Len(q) \in Nat /\ IsInjective(q) /\ Links(y, q) /\ Nodes(q) \subseteq NodeOf(y)
  BY PlaceFacts DEF Kept, Links
<1>2. Mapped(y) \subseteq NodeOf(y)
  BY CacheFields DEF Kept, Bound, Mapped, NodeOf
<1>3. \A n \in All(y, q) : n \in NodeOf(y) /\ n.nr <= sets
  BY <1>1, <1>2 DEF All, Kept
<1> QED
  BY <1>1, <1>2, <1>3, CacheFields DEF NodeOf

(* A node is linked that is not yet.                                       *)
LEMMA AppendKept ==
    ASSUME TypeOK, NEW y \in Types, NEW q \in Seq(NodeOf(y)), Kept(y, q),
           NEW n \in NodeOf(y), Spare(q, n), n.nr <= sets, InOrder(y, q, {n}, 1),
           InsertTail(y, n), UNCHANGED <<map, size, freed, sets>>
    PROVE  /\ Append(q, n) \in Seq(NodeOf(y)) /\ Kept(y, Append(q, n))'
           /\ InOrder(y, Append(q, n), {}, 0)'
           /\ All(y, Append(q, n))' \subseteq All(y, q) \cup {n}
<1> DEFINE r == Append(q, n)
<1>1. Len(q) \in Nat /\ IsInjective(q) /\ Links(y, q)
  BY QueueFields
<1>2. n \notin Nodes(q)
  BY DEF Spare
<1>3. /\ r \in Seq(NodeOf(y)) /\ Len(r) = Len(q) + 1
      /\ Nodes(r) = Nodes(q) \cup {n}
  BY <1>1, <1>2, AppendGains DEF Gains
<1>4. Links(y, r)'
  BY <1>1, <1>2, TailLinks DEF TypeOK
<1> HIDE DEF r
<1>5. Mapped(y)' = Mapped(y) /\ All(y, r)' = All(y, q) \cup {n}
  BY <1>3 DEF Mapped, All, NodeOf
<1>6. \A m, k \in Nodes(r) : m.nr = k.nr => m = k
  BY <1>3 DEF Kept, Spare
<1>7. \A m \in Nodes(r) \cup Mapped(y) : m \notin freed
  BY <1>3 DEF Kept, Spare
<1>8. \A m \in All(y, q) \cup {n} : m.nr <= sets
  BY DEF Kept
<1>9. Kept(y, r)'
  BY <1>4, <1>5, <1>6, <1>7, <1>8 DEF Kept, Bound
<1>10. InOrder(y, r, {}, 0)'
  <2>1. Mapped(y)' \subseteq Nodes(r) \cup {}
    BY <1>3, <1>5 DEF InOrder
  <2>2. size'[y] = Len(r) + 0
    BY <1>1, <1>3 DEF InOrder
  <2> QED
    BY <2>1, <2>2 DEF InOrder
<1> QED
  BY <1>3, <1>5, <1>9, <1>10 DEF r

(* A node is taken out of the queue of its cache.                          *)
LEMMA UnlinkKeeps ==
    ASSUME IInv, NEW t \in Threads, Unlink(t)
    PROVE  IInv'
<1>0. PICK n : n = call[t].node
  OBVIOUS
<1> DEFINE wrong == {n, prev[n], next[n]} \cap freed # {} \/ prev[n] = NoNode
           at == IF call[t].fn = "delete" THEN "free" ELSE "relink"
<1>1. /\ call[t].at = "unlink" /\ UNCHANGED counts
      /\ \/ wrong /\ fault' = TRUE /\ UNCHANGED <<selected, shared, call, history>>
         \/ /\ prev[n] # NoNode
            /\ next' = [next EXCEPT ![prev[n]] = next[n]]
            /\ IF next[n] = NoNode
               THEN (\E z \in Works(t) : last' = [last EXCEPT ![z] = prev[n]]) /\ prev' = prev
               ELSE prev' = [prev EXCEPT ![next[n]] = prev[n]] /\ last' = last
            /\ Goes(t, at)
            /\ UNCHANGED <<selected, map, size, freed, history, fault>>
  BY <1>0 DEF Unlink, Faults
<1>2. /\ call[t] \in Call /\ CallState(call[t]) /\ call[t].id \in Ids
      /\ n \in Node /\ call[t].fn \in Functions
      /\ Works(t) \subseteq Types /\ call[t].type \in Types
  BY <1>0, <1>1, CallFields, WorksOn DEF IInv, CallState
<1>3. PICK y \in Types : call[t].type = y
  BY <1>2
<1>4. ASSUME mixed = {}
      PROVE  /\ n \in NodeOf(y) /\ Places /\ Works(t) = {y}
  BY <1>0, <1>1, <1>2, <1>3, <1>4, WorksOn DEF IInv, InHand, Hand, NodeOf, OnlyMixedMisplaces, Places
<1>5. ASSUME mixed = {}, together = {}
      PROVE  /\ ~fault
             /\ \E q \in Seq(NodeOf(y)) :
                  /\ Kept(y, q) /\ InOrder(y, q, {}, 0) /\ CacheOf(call[t], q)
                  /\ n \in Nodes(q)
             /\ map[y][call[t].id] = n
  <2>1. PICK q \in Seq(NodeOf(y)) : Kept(y, q) /\ CacheOf(call[t], q)
    BY <1>1, <1>3, <1>5, Quiet DEF Found
  <2>2. ~fault /\ InOrder(y, q, {}, 0) /\ map[y][call[t].id] = n
    BY <2>1, <1>0, <1>1, <1>3, <1>5, Quiet DEF CacheOf
  <2>3. n \in Mapped(y)
    BY <2>2, <1>2, NamesAssumption DEF Mapped
  <2>4. n \in Nodes(q)
    BY <2>2, <2>3 DEF InOrder
  <2> QED
    BY <2>1, <2>2, <2>4
<1>6. ASSUME mixed = {}, together = {}
      PROVE  ~wrong
  <2>1. PICK q \in Seq(NodeOf(y)) : Kept(y, q) /\ n \in Nodes(q)
    BY <1>5, <1>6
  <2>2. prev[n] \in {y} \cup Nodes(q) /\ next[n] \in Nodes(q) \cup {NoNode}
    BY <2>1, Neighbours DEF Kept
  <2>3. y \notin freed /\ NoNode \notin freed /\ y # NoNode /\ NoNode \notin Nodes(q)
    BY <2>1, QueueFields, CacheFields, NamesAssumption DEF IInv, NodeOf
  <2> QED
    BY <2>1, <2>2, <2>3 DEF Kept
<1>7. CASE wrong /\ fault' = TRUE /\ UNCHANGED <<selected, shared, call, history>>
  BY <1>1, <1>6, <1>7, FaultKeeps
<1>8. CASE /\ prev[n] # NoNode
           /\ next' = [next EXCEPT ![prev[n]] = next[n]]
           /\ IF next[n] = NoNode
              THEN (\E z \in Works(t) : last' = [last EXCEPT ![z] = prev[n]]) /\ prev' = prev
              ELSE prev' = [prev EXCEPT ![next[n]] = prev[n]] /\ last' = last
           /\ Goes(t, at)
           /\ UNCHANGED <<selected, map, size, freed, history, fault>>
  <2> HIDE DEF wrong
  <2>1. /\ Goes_on(t)
        /\ call' \in [Threads -> Call]
        /\ call'[t].at = at
        /\ call'[t].fn = call[t].fn /\ call'[t].type = call[t].type
        /\ call'[t].id = call[t].id /\ call'[t].outer = call[t].outer
        /\ call'[t].node = n /\ call'[t].new = call[t].new
        /\ call'[t].left = call[t].left
    BY <1>0, <1>1, <1>8, Going
  <2>2. CachesTyped'
    <3>1. n \in Node /\ prev[n] \in Types \cup Node \cup {NoNode} /\ next[n] \in Node \cup {NoNode}
      BY <1>2, CacheFields DEF IInv, TypeOK, CachesTyped
    <3>2. next' \in [Types \cup Node -> Node \cup {NoNode}]
      BY <3>1, <1>8 DEF IInv, TypeOK, CachesTyped
    <3>3. prev' \in [Node -> Types \cup Node \cup {NoNode}]
      BY <3>1, <1>8 DEF IInv, TypeOK, CachesTyped
    <3>4. last' \in [Types -> Types \cup Node]
      BY <3>1, <1>8 DEF IInv, TypeOK, CachesTyped
    <3> QED
      BY <3>2, <3>3, <3>4, <1>8 DEF IInv, TypeOK, CachesTyped
  <2>3. TypeOK'
    BY <2>1, <2>2, <1>1, <1>8 DEF IInv, TypeOK, counts, history
  <2>4. CallState(call[t])'
    BY <2>1, <1>1, <1>2, <1>8 DEF CallState, NodeOf, Functions, counts
  <2>5. ASSUME mixed = {}
        PROVE  Removes(y, n) /\ Places' /\ Elsewhere(y) /\ Hand(call[t])'
    <3>1. Removes(y, n)
      BY <2>5, <1>4, <1>8 DEF Removes
    <3>2. Places' /\ Elsewhere(y)
      BY <3>1, <2>5, <1>4, <1>8, RemovePlaces DEF IInv, TypeOK
    <3> QED
      BY <3>1, <3>2, <2>1, <2>5, <1>3, <1>4 DEF Hand, NodeOf
  <2>6. OnlyMixedMisplaces'
    BY <2>5, <1>8, Moved DEF IInv, history
  <2>7. ASSUME mixed = {}, together = {}
        PROVE  Settles(t, y)
    <3>1. PICK q \in Seq(NodeOf(y)) :
            Kept(y, q) /\ InOrder(y, q, {}, 0) /\ CacheOf(call[t], q) /\ n \in Nodes(q)
      BY <2>7, <1>5
    <3>2. /\ Len(q) \in Nat /\ IsInjective(q) /\ Links(y, q)
          /\ \A m \in All(y, q) : m.nr \in Int
      BY <3>1, QueueFields DEF IInv
    <3> DEFINE r == Without(q, n)
    <3>3. /\ r \in Seq(NodeOf(y)) /\ Len(r) = Len(q) - 1
          /\ Nodes(r) = Nodes(q) \ {n} /\ IsInjective(r)
      BY <3>1, <3>2, WithoutLacks DEF Lacks
    <3>4. Links(y, r)'
      BY <3>1, <3>2, <2>5, <2>7, RemoveLinks DEF IInv, TypeOK
    <3> HIDE DEF r
    <3>5. Mapped(y)' = Mapped(y) /\ All(y, r)' \subseteq All(y, q) /\ sets' = sets
      BY <3>3, <1>1, <1>8 DEF Mapped, All, NodeOf, counts
    <3>6. Kept(y, r)'
      BY <3>1, <3>3, <3>4, <3>5, <1>8 DEF Kept, Bound
    <3>7. InOrder(y, r, {n}, 1)'
      <4>1. Mapped(y)' \subseteq Nodes(r) \cup {n}
        BY <3>1, <3>3, <3>5 DEF InOrder
      <4>2. size'[y] = Len(r) + 1
        BY <3>1, <3>2, <3>3, <1>8 DEF InOrder
      <4> QED
        BY <4>1, <4>2 DEF InOrder
    <3>8. Spare(r, n)'
      <4>1. n \notin freed /\ \A m \in Nodes(r) : m.nr # n.nr
        BY <3>1, <3>3 DEF Kept
      <4> QED
        BY <4>1, <1>8 DEF Spare
    <3>9. call[t].fn = "set" => \A m \in All(y, r)' : m.nr < call[t].new.nr
      BY <3>1, <3>5, <1>1, <1>3 DEF CacheOf
    <3>10. /\ map'[y][call[t].id] = n
           /\ call[t].left > 0 => size'[y] >= call[t].left + MaxSize
      BY <3>1, <2>7, <1>3, <1>5, <1>8 DEF CacheOf
    <3>11. CacheOf(call[t], r)'
      BY <3>7, <3>8, <3>9, <3>10, <2>1, <1>3 DEF CacheOf
    <3>12. ~fault'
      BY <2>7, <1>5, <1>8
    <3> QED
      BY <3>3, <3>6, <3>11, <3>12, <2>1, <2>5, <2>7, <1>3, NamesAssumption DEF Settles
  <2> QED
    BY <2>1, <2>3, <2>4, <2>5, <2>6, <2>7, <1>3, InsideKeeps
<1> QED
  BY <1>1, <1>7, <1>8

(* The node in hand is put at the end of the queue of its cache.           *)
LEMMA TailTyped ==
    ASSUME TypeOK, NEW z \in Types, NEW n \in Node, InsertTail(z, n), UNCHANGED <<map, size, freed>>
    PROVE  CachesTyped'
<1>1. last[z] \in Types \cup Node
  BY DEF TypeOK, CachesTyped
<1>2. next' \in [Types \cup Node -> Node \cup {NoNode}]
  BY <1>1 DEF InsertTail, TypeOK, CachesTyped
<1>3. prev' \in [Node -> Types \cup Node \cup {NoNode}]
  BY <1>1 DEF InsertTail, TypeOK, CachesTyped
<1>4. last' \in [Types -> Types \cup Node]
  BY DEF InsertTail, TypeOK, CachesTyped
<1> QED
  BY <1>2, <1>3, <1>4 DEF TypeOK, CachesTyped

(* The end of the queue of a cache is no freed memory.                     *)
LEMMA LastLives ==
    ASSUME TypeOK, NEW y \in Types, NEW q \in Seq(NodeOf(y)), Kept(y, q)
    PROVE  last[y] \notin freed
<1>1. last[y] \in {y} \cup Nodes(q)
  BY Neighbours DEF Kept
<1>2. y \notin freed
  BY CacheFields, NamesAssumption
<1> QED
  BY <1>1, <1>2 DEF Kept

LEMMA RelinkKeeps ==
    ASSUME IInv, NEW t \in Threads, Relink(t)
    PROVE  IInv'
<1>0. PICK n : n = call[t].node
  OBVIOUS
<1>1. call[t].at = "relink" /\ UNCHANGED counts
  BY DEF Relink
<1>2. /\ call[t] \in Call /\ CallState(call[t]) /\ call[t].id \in Ids
      /\ n \in Node /\ call[t].fn \in {"set", "get"} /\ ~call[t].outer
      /\ Works(t) \subseteq Types /\ call[t].type \in Types
  BY <1>0, <1>1, CallFields, WorksOn DEF IInv, CallState
<1>3. PICK z \in Works(t) :
        \/ {n, last[z]} \cap freed # {} /\ fault' = TRUE /\ UNCHANGED <<selected, shared, call, history>>
        \/ /\ InsertTail(z, n)
           /\ IF call[t].fn = "set" THEN Goes(t, "put") ELSE Returns(t)
           /\ UNCHANGED <<selected, map, size, freed, history, fault>>
  BY <1>0 DEF Relink, Faults
<1>4. PICK y \in Types : call[t].type = y
  BY <1>2
<1>5. ASSUME mixed = {}
      PROVE  n \in NodeOf(y) /\ Places /\ z = y
  BY <1>0, <1>1, <1>2, <1>4, <1>5, WorksOn DEF IInv, InHand, Hand, NodeOf, OnlyMixedMisplaces, Places
<1>6. ASSUME mixed = {}, together = {}
      PROVE  /\ ~fault
             /\ \E q \in Seq(NodeOf(y)) :
                  /\ Kept(y, q) /\ InOrder(y, q, {n}, 1) /\ Spare(q, n)
                  /\ call[t].fn = "set" => \A m \in All(y, q) : m.nr < call[t].new.nr
             /\ n \in Mapped(y)
             /\ {n, last[z]} \cap freed = {}
  <2>1. PICK q \in Seq(NodeOf(y)) : Kept(y, q) /\ CacheOf(call[t], q)
    BY <1>1, <1>4, <1>6, Quiet DEF Found
  <2>2. /\ ~fault /\ InOrder(y, q, {n}, 1) /\ Spare(q, n)
        /\ map[y][call[t].id] = n
        /\ call[t].fn = "set" => \A m \in All(y, q) : m.nr < call[t].new.nr
    BY <2>1, <1>0, <1>1, <1>4, <1>6, Quiet DEF CacheOf
  <2>3. n \in Mapped(y)
    BY <2>2, <1>2, NamesAssumption DEF Mapped
  <2>4. last[y] \notin freed
    BY <2>1, LastLives DEF IInv
  <2> QED
    BY <2>1, <2>2, <2>3, <2>4, <1>5, <1>6 DEF Spare
<1>7. CASE {n, last[z]} \cap freed # {} /\ fault' = TRUE /\ UNCHANGED <<selected, shared, call, history>>
  BY <1>1, <1>6, <1>7, FaultKeeps
<1>8. CASE /\ InsertTail(z, n)
           /\ IF call[t].fn = "set" THEN Goes(t, "put") ELSE Returns(t)
           /\ UNCHANGED <<selected, map, size, freed, history, fault>>
  <2>1. CachesTyped'
    BY <1>2, <1>8, TailTyped DEF IInv
  <2>2. mixed = {} => Places' /\ Elsewhere(y)
    BY <1>5, <1>8, TailPlaces DEF IInv, TypeOK
  <2>3. OnlyMixedMisplaces'
    BY <2>2, <1>8, Moved DEF IInv, history
  <2>4. ASSUME mixed = {}, together = {}
        PROVE  \E r \in Seq(NodeOf(y)) :
                  /\ Kept(y, r)' /\ InOrder(y, r, {}, 0)'
                  /\ call[t].fn = "set" => \A m \in All(y, r)' : m.nr < call[t].new.nr
    <3>1. PICK q \in Seq(NodeOf(y)) :
                  /\ Kept(y, q) /\ InOrder(y, q, {n}, 1) /\ Spare(q, n)
                  /\ call[t].fn = "set" => \A m \in All(y, q) : m.nr < call[t].new.nr
      BY <2>4, <1>6
    <3>2. n \in All(y, q) /\ n.nr <= sets
      BY <3>1, <2>4, <1>6 DEF All, Kept
    <3>3. sets' = sets /\ InsertTail(y, n) /\ n \in NodeOf(y)
      BY <2>4, <1>1, <1>5, <1>8 DEF counts
    <3>4. /\ Append(q, n) \in Seq(NodeOf(y)) /\ Kept(y, Append(q, n))'
          /\ InOrder(y, Append(q, n), {}, 0)'
          /\ All(y, Append(q, n))' \subseteq All(y, q) \cup {n}
      BY <3>1, <3>2, <3>3, <1>8, AppendKept DEF IInv
    <3>5. call[t].fn = "set" => \A m \in All(y, Append(q, n))' : m.nr < call[t].new.nr
      BY <3>1, <3>2, <3>4
    <3> QED
      BY <3>4, <3>5
  <2>5. CASE call[t].fn = "set"
    <3>1. Goes(t, "put")
      BY <2>5, <1>8
    <3>2. /\ Goes_on(t)
          /\ call' \in [Threads -> Call]
          /\ call'[t].at = "put"
          /\ call'[t].fn = call[t].fn /\ call'[t].type = call[t].type
          /\ call'[t].id = call[t].id /\ call'[t].outer = call[t].outer
          /\ call'[t].node = call[t].node /\ call'[t].new = call[t].new
          /\ call'[t].left = call[t].left
      BY <3>1, <1>1, <1>8, Going
    <3>3. TypeOK'
      BY <3>2, <2>1, <1>1, <1>8 DEF IInv, TypeOK, counts, history
    <3>4. CallState(call[t])'
      BY <3>2, <2>5, <1>1, <1>2, <1>8 DEF CallState, NodeOf, counts
    <3>5. Hand(call[t])'
      BY <3>2 DEF Hand
    <3>6. ASSUME mixed = {}, together = {}
          PROVE  Settles(t, y)
      <4>1. PICK r \in Seq(NodeOf(y)) :
                  /\ Kept(y, r)' /\ InOrder(y, r, {}, 0)'
                  /\ \A m \in All(y, r)' : m.nr < call[t].new.nr
        BY <3>6, <2>4, <2>5
      <4>2. call[t].left = 0
        BY <2>5, <1>1, <1>2 DEF CallState
      <4>3. CacheOf(call[t], r)'
        BY <4>1, <4>2, <3>2, <1>4 DEF CacheOf
      <4>4. ~fault' /\ Elsewhere(y)
        BY <3>6, <2>2, <1>6, <1>8
      <4> QED
        BY <4>1, <4>3, <4>4, <3>2, <1>4, NamesAssumption DEF Settles
    <3> QED
      BY <3>2, <3>3, <3>4, <3>5, <3>6, <2>3, <1>4, InsideKeeps
  <2>6. CASE call[t].fn = "get"
    <3>1. Returns(t)
      BY <2>6, <1>8
    <3>2. mixed = {} /\ together = {} => Restores(t, y)
      BY <2>2, <2>4, <1>2 DEF Restores
    <3> QED
      BY <3>1, <3>2, <2>1, <2>3, <1>1, <1>4, <1>8, ReturnKeeps
  <2> QED
    BY <2>5, <2>6, <1>2
<1> QED
  BY <1>3, <1>7, <1>8

(* The new node is counted and mapped, in the cache of discord_cache_set.  *)
LEMMA PutKeeps ==
    ASSUME IInv, NEW t \in Threads, Put(t)
    PROVE  IInv'
<1>0. PICK n : n = call[t].new
  OBVIOUS
<1>1. call[t].at = "put" /\ UNCHANGED counts
  BY DEF Put
<1>2. /\ call[t] \in Call /\ CallState(call[t]) /\ call[t].id \in Ids /\ call[t].fn = "set"
      /\ n \in NodeOf(call[t].type) /\ n \in Node /\ n.id = call[t].id
      /\ n.nr <= sets /\ ~call[t].outer /\ call[t].left = 0
      /\ Works(t) \subseteq Types /\ call[t].type \in Types
      /\ "set" \notin mixed => Works(t) = {call[t].type}
  BY <1>0, <1>1, CallFields, WorksOn DEF IInv, CallState, NodeOf
<1>3. PICK z \in Works(t) :
        \/ map[z][call[t].id] \in freed /\ fault' = TRUE /\ UNCHANGED <<selected, shared, call, history>>
        \/ /\ map' = [map EXCEPT ![z][call[t].id] = n]
           /\ size' = [size EXCEPT ![z] = @ + 1]
           /\ Goes(t, "insert")
           /\ UNCHANGED <<selected, links, freed, history, fault>>
  BY <1>0 DEF Put, Faults
<1>4. PICK y \in Types : call[t].type = y
  BY <1>2
<1>5. ASSUME mixed = {}, together = {}
      PROVE  /\ z = y /\ ~fault /\ map[z][call[t].id] \notin freed
             /\ \E q \in Seq(NodeOf(y)) :
                  /\ Kept(y, q) /\ InOrder(y, q, {}, 0)
                  /\ \A m \in All(y, q) : m.nr < n.nr
  <2>1. z = y /\ ~fault
    BY <1>1, <1>4, <1>5, Quiet
  <2>2. PICK q \in Seq(NodeOf(y)) : Kept(y, q) /\ CacheOf(call[t], q)
    BY <1>1, <1>4, <1>5, Quiet DEF Found
  <2>3. map[y][call[t].id] \in Mapped(y) \cup {NoNode}
    BY <1>2 DEF Mapped
  <2>4. map[y][call[t].id] \notin freed
    BY <2>2, <2>3, CacheFields, NamesAssumption DEF Kept, IInv
  <2> QED
    BY <2>1, <2>2, <2>4, <1>0, <1>1, <1>2, <1>4 DEF CacheOf
<1>6. CASE map[z][call[t].id] \in freed /\ fault' = TRUE /\ UNCHANGED <<selected, shared, call, history>>
  BY <1>1, <1>5, <1>6, FaultKeeps
<1>7. CASE /\ map' = [map EXCEPT ![z][call[t].id] = n]
           /\ size' = [size EXCEPT ![z] = @ + 1]
           /\ Goes(t, "insert")
           /\ UNCHANGED <<selected, links, freed, history, fault>>
  <2>1. /\ Goes_on(t)
        /\ call' \in [Threads -> Call]
        /\ call'[t].at = "insert"
        /\ call'[t].fn = call[t].fn /\ call'[t].type = call[t].type
        /\ call'[t].id = call[t].id /\ call'[t].outer = call[t].outer
        /\ call'[t].node = call[t].node /\ call'[t].new = n
        /\ call'[t].left = call[t].left
    BY <1>0, <1>1, <1>7, Going
  <2>2. /\ map' \in [Types -> [Ids -> Node \cup {NoNode}]]
        /\ size' \in [Types -> Int]
        /\ map'[z][call[t].id] = n /\ size'[z] = size[z] + 1
        /\ \A id \in Ids \ {call[t].id} : map'[z][id] = map[z][id]
        /\ \A x \in Types \ {z} : map'[x] = map[x] /\ size'[x] = size[x]
    <3>1. map[z] \in [Ids -> Node \cup {NoNode}] /\ size[z] \in Int
      BY <1>2, CacheFields DEF IInv
    <3>2. [map[z] EXCEPT ![call[t].id] = n] \in [Ids -> Node \cup {NoNode}]
      BY <3>1, <1>2
    <3> QED
      BY <3>1, <3>2, <1>2, <1>7 DEF IInv, TypeOK, CachesTyped
  <2>3. CachesTyped'
    BY <2>2, <1>7 DEF IInv, TypeOK, CachesTyped, links
  <2>4. TypeOK'
    BY <2>1, <2>3, <1>1, <1>7 DEF IInv, TypeOK, counts, history
  <2>5. CallState(call[t])'
    BY <2>1, <1>1, <1>2, <1>7 DEF CallState, NodeOf, counts
  <2>6. Hand(call[t])'
    BY <2>1 DEF Hand
  <2>7. Mapped(z)' \subseteq Mapped(z) \cup {n} /\ \A x \in Types \ {z} : Mapped(x)' = Mapped(x)
    BY <2>2 DEF Mapped
  <2>8. OnlyMixedMisplaces'
    <3>1. ASSUME "set" \notin mixed
          PROVE  \A x \in Types : Mapped(x)' \subseteq NodeOf(x)
      BY <3>1, <2>7, <1>2 DEF IInv, OnlyMixedMisplaces
    <3>2. mixed = {} => \A x \in Types : InPlace(x)'
      BY <1>7 DEF IInv, OnlyMixedMisplaces, InPlace, NodeOf, links
    <3> QED
      BY <3>1, <3>2, <1>7 DEF OnlyMixedMisplaces, NodeOf, history
  <2>9. ASSUME mixed = {}, together = {}
        PROVE  Settles(t, y)
    <3>1. PICK q \in Seq(NodeOf(y)) :
                  /\ Kept(y, q) /\ InOrder(y, q, {}, 0)
                  /\ \A m \in All(y, q) : m.nr < n.nr
      BY <2>9, <1>5
    <3>2. /\ \A m \in All(y, q) : m.nr \in Int
          /\ n.nr \in Int /\ size[y] \in Int /\ Len(q) \in Nat /\ sets' = sets
      BY <3>1, <1>1, <1>2, QueueFields, CacheFields DEF IInv, counts
    <3>3. n \notin freed /\ \A m \in Nodes(q) : m.nr # n.nr
      <4>1. n \notin All(y, q) /\ \A m \in Nodes(q) : m.nr # n.nr
        BY <3>1, <3>2 DEF All
      <4> QED
        BY <4>1, <1>2, <1>4 DEF All
    <3>4. z = y /\ All(y, q)' \subseteq All(y, q) \cup {n}
      BY <2>7, <2>9, <1>5, <1>7 DEF All, NodeOf
    <3>5. Kept(y, q)'
      <4>1. Links(y, q)'
        BY <3>1, <1>7 DEF Kept, Links, links
      <4>2. Bound(y)'
        BY <3>1, <3>4, <2>2, <1>2, <1>4 DEF Kept, Bound, NodeOf
      <4>3. \A m \in All(y, q)' : m.nr <= sets'
        BY <3>1, <3>2, <3>4, <1>2 DEF Kept
      <4>4. \A m \in Nodes(q) \cup Mapped(y)' : m \notin freed'
        BY <3>1, <3>3, <3>4, <2>7, <1>7 DEF Kept
      <4> QED
        BY <4>1, <4>2, <4>3, <4>4, <3>1 DEF Kept
    <3>6. InOrder(y, q, {n}, 1)'
      <4>1. Mapped(y)' \subseteq Nodes(q) \cup {n}
        BY <3>1, <3>4, <2>7 DEF InOrder
      <4>2. size'[y] = Len(q) + 1
        BY <3>1, <3>2, <3>4, <2>2 DEF InOrder
      <4> QED
        BY <4>1, <4>2 DEF InOrder
    <3>7. Spare(q, n)'
      BY <3>3, <1>7 DEF Spare
    <3>8. CacheOf(call[t], q)'
      BY <3>6, <3>7, <2>1, <1>2, <1>4 DEF CacheOf
    <3>9. ~fault' /\ Elsewhere(y)
      BY <3>4, <2>2, <2>9, <1>5, <1>7 DEF Elsewhere, links
    <3> QED
      BY <3>5, <3>8, <3>9, <2>1, <1>4, NamesAssumption DEF Settles
  <2> QED
    BY <2>1, <2>4, <2>5, <2>6, <2>8, <2>9, <1>4, InsideKeeps
<1> QED
  BY <1>3, <1>6, <1>7

(* The new node is linked, in the cache of discord_cache_set.              *)
LEMMA InsertKeeps ==
    ASSUME IInv, NEW t \in Threads, Insert(t)
    PROVE  IInv'
<1>0. PICK n : n = call[t].new
  OBVIOUS
<1>1. call[t].at = "insert" /\ UNCHANGED counts
  BY DEF Insert
<1>2. /\ call[t] \in Call /\ CallState(call[t]) /\ call[t].fn = "set"
      /\ n \in NodeOf(call[t].type) /\ n \in Node
      /\ n.nr <= sets /\ call[t].left = 0
      /\ Works(t) \subseteq Types /\ call[t].type \in Types
  BY <1>0, <1>1, CallFields, WorksOn DEF IInv, CallState, NodeOf
<1>3. PICK z \in Works(t) :
        \/ {n, last[z]} \cap freed # {} /\ fault' = TRUE /\ UNCHANGED <<selected, shared, call, history>>
        \/ /\ InsertTail(z, n)
           /\ Goes(t, "clean")
           /\ UNCHANGED <<selected, map, size, freed, history, fault>>
  BY <1>0 DEF Insert, Faults
<1>4. PICK y \in Types : call[t].type = y
  BY <1>2
<1>5. ASSUME mixed = {}
      PROVE  n \in NodeOf(y) /\ Places /\ z = y
  BY <1>1, <1>2, <1>4, <1>5, WorksOn DEF IInv, OnlyMixedMisplaces, Places
<1>6. ASSUME mixed = {}, together = {}
      PROVE  /\ ~fault
             /\ \E q \in Seq(NodeOf(y)) : Kept(y, q) /\ InOrder(y, q, {n}, 1) /\ Spare(q, n)
             /\ {n, last[z]} \cap freed = {}
  <2>1. PICK q \in Seq(NodeOf(y)) : Kept(y, q) /\ CacheOf(call[t], q)
    BY <1>1, <1>4, <1>6, Quiet DEF Found
  <2>2. ~fault /\ InOrder(y, q, {n}, 1) /\ Spare(q, n)
    BY <2>1, <1>0, <1>1, <1>4, <1>6, Quiet DEF CacheOf
  <2>3. last[y] \notin freed
    BY <2>1, LastLives DEF IInv
  <2> QED
    BY <2>1, <2>2, <2>3, <1>5, <1>6 DEF Spare
<1>7. CASE {n, last[z]} \cap freed # {} /\ fault' = TRUE /\ UNCHANGED <<selected, shared, call, history>>
  BY <1>1, <1>6, <1>7, FaultKeeps
<1>8. CASE /\ InsertTail(z, n)
           /\ Goes(t, "clean")
           /\ UNCHANGED <<selected, map, size, freed, history, fault>>
  <2>1. CachesTyped'
    BY <1>2, <1>8, TailTyped DEF IInv
  <2>2. mixed = {} => Places' /\ Elsewhere(y)
    BY <1>5, <1>8, TailPlaces DEF IInv, TypeOK
  <2>3. OnlyMixedMisplaces'
    BY <2>2, <1>8, Moved DEF IInv, history
  <2>4. /\ Goes_on(t)
        /\ call' \in [Threads -> Call]
        /\ call'[t].at = "clean"
        /\ call'[t].fn = call[t].fn /\ call'[t].type = call[t].type
        /\ call'[t].id = call[t].id /\ call'[t].outer = call[t].outer
        /\ call'[t].node = call[t].node /\ call'[t].new = call[t].new
        /\ call'[t].left = call[t].left
    BY <1>1, <1>8, Going
  <2>5. TypeOK'
    BY <2>1, <2>4, <1>1, <1>8 DEF IInv, TypeOK, counts, history
  <2>6. CallState(call[t])'
    BY <2>4, <1>1, <1>2, <1>8 DEF CallState, NodeOf, counts
  <2>7. Hand(call[t])'
    BY <2>4 DEF Hand
  <2>8. ASSUME mixed = {}, together = {}
        PROVE  Settles(t, y)
    <3>1. PICK q \in Seq(NodeOf(y)) : Kept(y, q) /\ InOrder(y, q, {n}, 1) /\ Spare(q, n)
      BY <2>8, <1>6
    <3>2. sets' = sets /\ InsertTail(y, n) /\ n \in NodeOf(y)
      BY <2>8, <1>1, <1>5, <1>8 DEF counts
    <3>3. /\ Append(q, n) \in Seq(NodeOf(y)) /\ Kept(y, Append(q, n))'
          /\ InOrder(y, Append(q, n), {}, 0)'
      BY <3>1, <3>2, <1>2, <1>8, AppendKept DEF IInv
    <3>4. CacheOf(call[t], Append(q, n))'
      BY <3>3, <2>4, <1>2, <1>4 DEF CacheOf
    <3>5. ~fault' /\ Elsewhere(y)
      BY <2>2, <2>8, <1>6, <1>8
    <3> QED
      BY <3>3, <3>4, <3>5, <2>4, <1>4, NamesAssumption DEF Settles
  <2> QED
    BY <2>3, <2>4, <2>5, <2>6, <2>7, <2>8, <1>4, InsideKeeps
<1> QED
  BY <1>3, <1>7, <1>8

(* The nodes over the limit are counted.                                   *)
LEMMA CleanKeeps ==
    ASSUME IInv, NEW t \in Threads, Clean(t)
    PROVE  IInv'
<1>1. /\ call[t].at = "clean"
      /\ UNCHANGED <<selected, map, links, size, freed, counts, history, fault>>
      /\ sets' \in Int /\ sets' >= sets
  BY CacheFields DEF Clean, shared, counts, IInv, TypeOK
<1>2. /\ call[t] \in Call /\ CallState(call[t]) /\ call[t].fn = "set"
      /\ Works(t) \subseteq Types /\ call[t].type \in Types
  BY <1>1, CallFields, WorksOn DEF IInv, CallState
<1>3. PICK z \in Works(t) :
        call' = [call EXCEPT ![t].at = "loop",
                             ![t].left = IF size[z] > MaxSize THEN size[z] - MaxSize ELSE 0]
  BY DEF Clean
<1>4. PICK y \in Types : call[t].type = y
  BY <1>2
<1> DEFINE left == IF size[z] > MaxSize THEN size[z] - MaxSize ELSE 0
<1>5. left \in Nat /\ size[z] \in Int /\ (left > 0 => size[z] >= left + MaxSize)
  <2>1. size[z] \in Int /\ MaxSize \in Nat
    BY <1>2, SizesAssumption, CacheFields DEF IInv
  <2> QED
    BY <2>1
<1>6. call' = [call EXCEPT ![t] = [call[t] EXCEPT !.at = "loop", !.left = left]]
  BY <1>3 DEF IInv, TypeOK
<1> HIDE DEF left
<1>7. [call[t] EXCEPT !.at = "loop", !.left = left] \in Call
  BY <1>2, <1>5 DEF Call
<1>8. /\ call' \in [Threads -> Call] /\ Others(t)
      /\ call'[t] = [call[t] EXCEPT !.at = "loop", !.left = left]
  BY <1>6, <1>7 DEF Others, IInv, TypeOK
<1>9. /\ call'[t].at = "loop" /\ call'[t].left = left
      /\ call'[t].fn = call[t].fn /\ call'[t].type = call[t].type
      /\ call'[t].id = call[t].id /\ call'[t].outer = call[t].outer
      /\ call'[t].new = call[t].new
  BY <1>2, <1>8 DEF Call
<1>10. Goes_on(t)
  BY <1>1, <1>8, <1>9 DEF Goes_on
<1>11. TypeOK'
  BY <1>1, <1>8 DEF IInv, TypeOK, CachesTyped, links, counts, history
<1>12. CallState(call[t])'
  BY <1>1, <1>2, <1>9 DEF CallState, NodeOf, counts
<1>13. OnlyMixedMisplaces' /\ Hand(call[t])'
  BY <1>1, <1>9, Unmoved DEF IInv, history, Hand
<1>14. ASSUME mixed = {}, together = {}
       PROVE  Settles(t, y)
  <2>0. z = y /\ ~fault
    BY <1>1, <1>4, <1>14, Quiet
  <2>1. PICK q \in Seq(NodeOf(y)) : Kept(y, q) /\ InOrder(y, q, {}, 0)
    BY <1>1, <1>4, <1>14, Quiet DEF Found, CacheOf
  <2>2. Kept(y, q)' /\ Mapped(y)' = Mapped(y)
    BY <2>1, <1>1, SameCache DEF IInv
  <2>3. InOrder(y, q, {}, 0)'
    BY <2>1, <2>2, <1>1 DEF InOrder
  <2>4. CacheOf(call[t], q)'
    BY <2>0, <2>3, <1>1, <1>4, <1>5, <1>9 DEF CacheOf
  <2>5. ~fault' /\ Elsewhere(y)
    BY <2>0, <1>1 DEF Elsewhere, links
  <2> QED
    BY <2>2, <2>4, <2>5, <1>4, <1>9, NamesAssumption DEF Settles
<1> QED
  BY <1>4, <1>10, <1>11, <1>12, <1>13, <1>14, InsideKeeps

(* The binding is removed, the node freed and counted off.                 *)
LEMMA FreeKeeps ==
    ASSUME IInv, NEW t \in Threads, Free(t)
    PROVE  IInv'
<1>0. PICK n : n = call[t].node
  OBVIOUS
<1>1. call[t].at = "free" /\ UNCHANGED counts
  BY DEF Free
<1>2. /\ call[t] \in Call /\ CallState(call[t]) /\ call[t].id \in Ids
      /\ n \in Node
      /\ Works(t) \subseteq Types /\ call[t].type \in Types
  BY <1>0, <1>1, CallFields, WorksOn DEF IInv, CallState
<1> DEFINE wrong(z) == {n, map[z][call[t].id]} \cap freed # {} \/ n.type # call[t].type
<1>3. PICK z \in Works(t) :
        \/ wrong(z) /\ fault' = TRUE /\ UNCHANGED <<selected, shared, call, history>>
        \/ /\ map' = [map EXCEPT ![z][call[t].id] = NoNode]
           /\ freed' = freed \cup {n}
           /\ size' = [size EXCEPT ![z] = @ - 1]
           /\ Returns(t)
           /\ UNCHANGED <<selected, links, history, fault>>
  BY <1>0 DEF Free, Faults, Unbound
<1>4. PICK y \in Types : call[t].type = y
  BY <1>2
<1>5. ASSUME mixed = {}, together = {}
      PROVE  /\ z = y /\ ~fault /\ n.type = y /\ map[y][call[t].id] = n
             /\ \E q \in Seq(NodeOf(y)) : Kept(y, q) /\ InOrder(y, q, {n}, 1) /\ Spare(q, n)
             /\ call[t].left > 0 => size[y] >= call[t].left + MaxSize
             /\ ~wrong(z)
  <2>1. z = y /\ ~fault /\ n.type = y
    BY <1>0, <1>1, <1>4, <1>5, Quiet DEF Hand
  <2>2. PICK q \in Seq(NodeOf(y)) : Kept(y, q) /\ CacheOf(call[t], q)
    BY <1>1, <1>4, <1>5, Quiet DEF Found
  <2>3. /\ InOrder(y, q, {n}, 1) /\ Spare(q, n) /\ map[y][call[t].id] = n
        /\ call[t].left > 0 => size[y] >= call[t].left + MaxSize
    BY <2>2, <1>0, <1>1, <1>4 DEF CacheOf
  <2> QED
    BY <2>1, <2>2, <2>3, <1>4 DEF Spare
<1>6. CASE wrong(z) /\ fault' = TRUE /\ UNCHANGED <<selected, shared, call, history>>
  BY <1>1, <1>5, <1>6, FaultKeeps
<1>7. CASE /\ map' = [map EXCEPT ![z][call[t].id] = NoNode]
           /\ freed' = freed \cup {n}
           /\ size' = [size EXCEPT ![z] = @ - 1]
           /\ Returns(t)
           /\ UNCHANGED <<selected, links, history, fault>>
  <2> HIDE DEF wrong
  <2>1. /\ map' \in [Types -> [Ids -> Node \cup {NoNode}]]
        /\ size' \in [Types -> Int]
        /\ map'[z][call[t].id] = NoNode /\ size'[z] = size[z] - 1
        /\ \A id \in Ids \ {call[t].id} : map'[z][id] = map[z][id]
        /\ \A x \in Types \ {z} : map'[x] = map[x] /\ size'[x] = size[x]
    <3>1. map[z] \in [Ids -> Node \cup {NoNode}] /\ size[z] \in Int
      BY <1>2, CacheFields DEF IInv
    <3>2. [map[z] EXCEPT ![call[t].id] = NoNode] \in [Ids -> Node \cup {NoNode}]
      BY <3>1
    <3> QED
      BY <3>1, <3>2, <1>2, <1>7 DEF IInv, TypeOK, CachesTyped
  <2>2. CachesTyped'
    BY <2>1, <1>2, <1>7 DEF IInv, TypeOK, CachesTyped, links
  <2>3. \A x \in Types : Mapped(x)' \subseteq Mapped(x)
    <3> SUFFICES ASSUME NEW x \in Types, NEW id \in Ids, map'[x][id] # NoNode
                 PROVE  map'[x][id] = map[x][id]
      BY DEF Mapped
    <3> QED
      BY <2>1
  <2>4. OnlyMixedMisplaces'
    BY <2>3, <1>7 DEF IInv, OnlyMixedMisplaces, InPlace, NodeOf, links, history
  <2>5. ASSUME mixed = {}, together = {}
        PROVE  Restores(t, y)
    <3>1. PICK q \in Seq(NodeOf(y)) : Kept(y, q) /\ InOrder(y, q, {n}, 1) /\ Spare(q, n)
      BY <2>5, <1>5
    <3>2. z = y /\ n \in NodeOf(y) /\ map[y][call[t].id] = n
      BY <2>5, <1>2, <1>5 DEF NodeOf
    <3>3. n \in Mapped(y)
      BY <3>2, <1>2, NamesAssumption DEF Mapped
    <3>4. n \notin Mapped(y)'
      <4> SUFFICES ASSUME NEW id \in Ids, map'[y][id] = n
                   PROVE  FALSE
        BY DEF Mapped
      <4>1. id # call[t].id
        BY <3>2, <2>1, <1>2, NamesAssumption
      <4>2. map[y][id] = n
        BY <4>1, <3>2, <2>1
      <4> QED
        BY <4>1, <4>2, <3>1, <3>2, <1>2, NamesAssumption DEF Kept, Bound
    <3>5. All(y, q)' \subseteq All(y, q)
      BY <3>3, <2>3, <1>7 DEF All, NodeOf
    <3>6. Kept(y, q)'
      <4>1. Links(y, q)'
        BY <3>1, <1>7 DEF Kept, Links, links
      <4>2. Bound(y)'
        BY <3>1, <3>2, <2>1 DEF Kept, Bound
      <4>3. \A m \in All(y, q)' : m.nr <= sets'
        BY <3>1, <3>5, <1>1 DEF Kept, counts
      <4>4. \A m \in Nodes(q) \cup Mapped(y)' : m \notin freed'
        BY <3>1, <3>4, <2>3, <1>7 DEF Kept, Spare
      <4> QED
        BY <4>1, <4>2, <4>3, <4>4, <3>1 DEF Kept
    <3>7. InOrder(y, q, {}, 0)'
      <4>1. Mapped(y)' \subseteq Nodes(q) \cup {}
        BY <3>1, <3>4, <2>3 DEF InOrder
      <4>2. Len(q) \in Nat
        BY <3>1, QueueFields DEF IInv
      <4>3. size'[y] = Len(q) + 0
        BY <4>2, <3>1, <3>2, <2>1 DEF InOrder
      <4> QED
        BY <4>1, <4>3 DEF InOrder
    <3>8. call[t].outer => size'[y] >= call[t].left - 1 + MaxSize
      <4>1. call[t].left \in Int /\ MaxSize \in Int /\ size[y] \in Int
        BY <1>2, SizesAssumption, CacheFields DEF Call, IInv
      <4>2. call[t].outer => size[y] >= call[t].left + MaxSize
        BY <2>5, <1>2, <1>5 DEF CallState
      <4>3. size'[y] = size[y] - 1
        BY <3>2, <2>1
      <4> QED
        BY <4>1, <4>2, <4>3
    <3>9. Elsewhere(y)
      <4>1. \A x \in Types \ {y} : map'[x] = map[x] /\ size'[x] = size[x]
        BY <3>2, <2>1
      <4>2. \A x \in Types \ {y} : \A m \in NodeOf(x) : m \in freed' <=> m \in freed
        BY <3>2, <1>7 DEF NodeOf
      <4> QED
        BY <4>1, <4>2, <1>7 DEF Elsewhere, links
    <3> QED
      BY <3>6, <3>7, <3>8, <3>9 DEF Restores
  <2> QED
    BY <2>2, <2>4, <2>5, <1>1, <1>4, <1>7, ReturnKeeps
<1> QED
  BY <1>3, <1>6, <1>7

(* The clean-up ends, or deletes the id of the first node.                 *)
LEMMA LoopKeeps ==
    ASSUME IInv, NEW t \in Threads, Loop(t)
    PROVE  IInv'
<1>1. /\ call[t].at = "loop" /\ UNCHANGED <<shared, counts>>
      /\ UNCHANGED <<map, links, size, freed>> /\ sets' \in Int /\ sets' >= sets
      /\ sets \in Int /\ calls' \in 0..MaxCalls /\ sets' = sets
  BY CacheFields DEF Loop, shared, counts, IInv, TypeOK
<1>2. /\ call[t] \in Call /\ CallState(call[t]) /\ call[t].fn = "set" /\ ~call[t].outer
      /\ call[t].new \in NodeOf(call[t].type) /\ call[t].new \in Node
      /\ call[t].new.nr <= sets /\ call[t].left \in Nat
      /\ Works(t) \subseteq Types /\ call[t].type \in Types
  BY <1>1, CallFields, WorksOn DEF IInv, CallState, NodeOf
<1>3. PICK y \in Types : call[t].type = y
  BY <1>2
<1>4. CachesTyped'
  BY <1>1 DEF IInv, TypeOK, CachesTyped, links
<1>5. ASSUME mixed = {}, together = {}
      PROVE  /\ Works(t) = {y} /\ ~fault /\ Elsewhere(y)
             /\ \E q \in Seq(NodeOf(y)) : Kept(y, q)' /\ InOrder(y, q, {}, 0)'
             /\ call[t].left > 0 =>
                  size[y] >= call[t].left + MaxSize /\ next[y] \notin freed \cup {NoNode}
  <2>1. Works(t) = {y} /\ ~fault
    BY <1>1, <1>3, <1>5, Quiet
  <2>2. PICK q \in Seq(NodeOf(y)) : Kept(y, q) /\ CacheOf(call[t], q)
    BY <1>1, <1>3, <1>5, Quiet DEF Found
  <2>3. /\ InOrder(y, q, {}, 0)
        /\ call[t].left > 0 => size[y] >= call[t].left + MaxSize
    BY <2>2, <1>1, <1>3 DEF CacheOf
  <2>4. Kept(y, q)' /\ Mapped(y)' = Mapped(y)
    BY <2>2, <1>1, SameCache DEF IInv
  <2>5. InOrder(y, q, {}, 0)'
    BY <2>3, <2>4, <1>1 DEF InOrder
  <2>6. ASSUME call[t].left > 0
        PROVE  next[y] \notin freed \cup {NoNode}
    <3>1. Len(q) \in Nat /\ Nodes(q) \subseteq NodeOf(y) /\ Links(y, q)
      BY <2>2, QueueFields DEF IInv
    <3>2. size[y] = Len(q) + 0 /\ size[y] >= call[t].left + MaxSize
      BY <2>3, <2>6 DEF InOrder
    <3>3. Len(q) # 0
      BY <3>1, <3>2, <2>6, <1>2, SizesAssumption
    <3>4. next[y] \in Nodes(q)
      BY <3>1, <3>3, Neighbours
    <3> QED
      BY <3>1, <3>4, <2>2, NamesAssumption DEF Kept, NodeOf
  <2>7. Elsewhere(y)
    BY <1>1 DEF Elsewhere, links
  <2> QED
    BY <2>1, <2>3, <2>4, <2>5, <2>6, <2>7
<1>6. CASE call[t].left = 0 /\ Returns(t) /\ UNCHANGED <<selected, history, fault>>
  <2>1. OnlyMixedMisplaces'
    BY <1>1, <1>6, Unmoved DEF IInv, history
  <2>2. mixed = {} /\ together = {} => Restores(t, y)
    BY <1>2, <1>5 DEF Restores
  <2> QED
    BY <2>1, <2>2, <1>1, <1>3, <1>4, <1>6, ReturnKeeps
<1>7. ASSUME call[t].left # 0, NEW z \in Works(t), Faults(next[z] \in freed \cup {NoNode})
      PROVE  IInv'
  <2>1. /\ next[z] \in freed \cup {NoNode} /\ fault' = TRUE
        /\ UNCHANGED <<selected, shared, call, history>>
    BY <1>7 DEF Faults
  <2>2. ~(mixed = {} /\ together = {})
    BY <2>1, <1>2, <1>5, <1>7
  <2> QED
    BY <2>1, <2>2, <1>1, FaultKeeps
<1>8. ASSUME call[t].left # 0, NEW z \in Works(t), next[z] \notin freed \cup {NoNode},
             Select(t, "delete", call[t].type, next[z].id, call[t].new), UNCHANGED fault
      PROVE  IInv'
  <2>1. next[z] \in Node
    BY <1>2, <1>8, CacheFields DEF IInv
  <2>2. PICK id \in Ids : next[z].id = id
    BY <2>1, CacheFields DEF IInv
  <2>3. PICK new \in Node : call[t].new = new
    BY <1>2
  <2>4. Select(t, "delete", y, id, new) /\ "delete" \in Functions
    BY <2>2, <2>3, <1>3, <1>8 DEF Functions
  <2>5. /\ KeepsSelected' /\ Alone' /\ Others(t)
        /\ selected' \in [Functions -> Types \cup {"none"}]
        /\ \A g \in Functions : selected[g] \in Types => selected'[g] \in Types
        /\ mixed \subseteq mixed' /\ together \subseteq together'
        /\ mixed' \subseteq Functions /\ together' \subseteq Types
        /\ call' \in [Threads -> Call]
        /\ call'[t] = [call[t] EXCEPT !.fn = "delete", !.at = "lookup", !.type = y,
                         !.id = id, !.outer = call[t].fn = "set", !.new = new]
        /\ together' = {} => \A u \in Threads \ {t} : call[u].type # y
    <3>1. TypeOK /\ CallStates /\ KeepsSelected /\ Alone
      BY DEF IInv
    <3>2. new \in Node \cup {NoNode}
      BY <2>3
    <3>3. call[t].fn = "set" /\ y = call[t].type
      BY <1>2, <1>3
    <3>4. PICK f \in Functions : f = "delete"
      BY DEF Functions
    <3>5. Select(t, f, y, id, new) /\ MayBegin(t, f, y)
      BY <2>4, <3>3, <3>4 DEF MayBegin
    <3>6. Begun(t, f, y, id, new)
      BY <3>1, <3>2, <3>5, Selecting
    <3> QED
      BY <3>4, <3>6 DEF Begun
  <2>6. /\ call'[t].fn = "delete" /\ call'[t].at = "lookup" /\ call'[t].type = y
        /\ call'[t].id = id /\ call'[t].outer /\ call'[t].new = new
        /\ call'[t].left = call[t].left
    <3>1. /\ call'[t].fn = "delete" /\ call'[t].at = "lookup" /\ call'[t].type = y
          /\ call'[t].id = id /\ call'[t].outer = (call[t].fn = "set")
          /\ call'[t].new = new /\ call'[t].left = call[t].left
      BY <2>5, <1>2 DEF Call
    <3> QED
      BY <3>1, <1>2
  <2>7. TypeOK'
    BY <2>5, <1>1, <1>4, <1>8 DEF IInv, TypeOK, counts
  <2>8. CallState(call[t])'
    <3>1. selected["set"] \in Types /\ selected'["set"] \in Types
      BY <2>5, <1>1, <1>2 DEF CallState, Functions
    <3>2. selected'["delete"] \in Types
      BY <2>4 DEF Select, Shares, IInv, TypeOK
    <3> QED
      BY <3>1, <3>2, <2>3, <2>4, <2>6, <1>1, <1>2, <1>3, <1>8 DEF CallState, NodeOf, counts
  <2>9. CallStates'
    BY <2>5, <2>8, <1>1, OtherCalls DEF IInv, CallStates
  <2>10. OnlyMixedMisplaces'
    BY <2>5, <1>1, Unmoved DEF IInv
  <2>11. InHand'
    <3> SUFFICES ASSUME mixed' = {}, NEW u \in Threads
                 PROVE  Hand(call[u])'
      BY DEF InHand
    <3>1. mixed = {}
      BY <2>5
    <3>2. CASE u = t
      BY <3>2, <2>6 DEF Hand
    <3>3. CASE u # t
      <4>1. call'[u] = call[u] /\ Hand(call[u])
        BY <3>1, <3>3, <2>5 DEF Others, IInv, InHand
      <4> QED
        BY <4>1 DEF Hand
    <3> QED
      BY <3>2, <3>3
  <2>12. ASSUME mixed' = {}, together' = {}
         PROVE  Owns(t, y) /\ Settles(t, y)
    <3>1. mixed = {} /\ together = {}
      BY <2>5, <2>12
    <3>2. PICK q \in Seq(NodeOf(y)) : Kept(y, q)' /\ InOrder(y, q, {}, 0)'
      BY <3>1, <1>5
    <3>3. call[t].left > 0 => size'[y] >= call[t].left + MaxSize
      BY <3>1, <1>1, <1>5
    <3>4. CacheOf(call[t], q)'
      BY <3>2, <3>3, <2>6 DEF CacheOf
    <3>5. Owns(t, y)
      BY <2>5, <2>6, <2>12, <1>3 DEF Owns
    <3> QED
      BY <3>1, <3>2, <3>4, <3>5, <2>6, <1>5, <1>8, NamesAssumption DEF Settles
  <2>13. ApartStates'
    BY <2>5, <2>12, <1>1, ApartFrame
  <2> QED
    BY <2>5, <2>7, <2>9, <2>10, <2>11, <2>13 DEF IInv
<1> QED
  BY <1>6, <1>7, <1>8 DEF Loop

(* A new object is made for each call of discord_cache_set.                *)
LEMMA CallKeeps ==
    ASSUME IInv, NEW t \in Threads, NEW type \in Types, NEW id \in Ids,
           \/ discord_cache_set(t, type, id)
           \/ discord_cache_get(t, type, id)
           \/ discord_cache_delete(t, type, id)
    PROVE  IInv'
<1>1. sets \in 0..MaxSets /\ MaxSets \in Nat
  BY SizesAssumption DEF IInv, TypeOK
<1>2. calls' \in 0..MaxCalls
  <2>1. calls \in 0..MaxCalls /\ MaxCalls \in Nat
    BY SizesAssumption DEF IInv, TypeOK
  <2>2. calls < MaxCalls /\ calls' = calls + 1
    BY DEF discord_cache_set, discord_cache_get, discord_cache_delete
  <2> QED
    BY <2>1, <2>2
<1>3. CASE discord_cache_set(t, type, id)
  <2> DEFINE new == [type |-> type, id |-> id, nr |-> sets + 1]
  <2>1. sets' = sets + 1 /\ sets' \in 0..MaxSets /\ sets + 1 \in 1..MaxSets
    BY <1>1, <1>3 DEF discord_cache_set
  <2>2. PICK n \in Node : n = new
    BY <2>1 DEF Node
  <2>3. Select(t, "set", type, id, n) /\ "set" \in Functions
    BY <2>2, <1>3 DEF discord_cache_set, Functions
  <2> QED
    BY <2>1, <2>2, <2>3, <1>1, <1>2, <1>3, BeginKeeps DEF discord_cache_set
<1>4. CASE discord_cache_get(t, type, id)
  <2>1. "get" \in Functions /\ Select(t, "get", type, id, NoNode) /\ sets' = sets
    BY <1>4 DEF discord_cache_get, Functions
  <2> QED
    BY <2>1, <1>1, <1>2, <1>4, BeginKeeps DEF discord_cache_get
<1>5. CASE discord_cache_delete(t, type, id)
  <2>1. "delete" \in Functions /\ Select(t, "delete", type, id, NoNode) /\ sets' = sets
    BY <1>5 DEF discord_cache_delete, Functions
  <2> QED
    BY <2>1, <1>1, <1>2, <1>5, BeginKeeps DEF discord_cache_delete
<1> QED
  BY <1>3, <1>4, <1>5

-----------------------------------------------------------------------------
(* The inductive invariant holds in every state, for any number of threads *)
(* in any of the functions of utils/cache.c.                               *)
THEOREM InvariantHolds == Spec => []IInv
<1>1. Init => IInv
  <2> SUFFICES ASSUME Init
               PROVE  IInv
    OBVIOUS
  <2>1. /\ \A t \in Threads : call[t] = NoCall
        /\ \A y \in Types : size[y] = 0 /\ next[y] = NoNode /\ last[y] = y
        /\ \A n \in Node : next[n] = NoNode /\ prev[n] = NoNode
        /\ \A y \in Types, id \in Ids : map[y][id] = NoNode
        /\ sets = 0 /\ calls = 0 /\ mixed = {} /\ together = {} /\ fault = FALSE /\ freed = {}
    BY DEF Init
  <2>2. /\ NoCall \in Call /\ NoCall.at = "none" /\ NoCall.fn = "none"
        /\ NoCall.type = "none" /\ ~NoCall.outer
    BY DEF NoCall, Call
  <2>3. TypeOK
    <3>1. 0 \in 0..MaxSets /\ 0 \in 0..MaxCalls
      BY SizesAssumption
    <3>2. selected \in [Functions -> Types \cup {"none"}]
      BY DEF Init
    <3>3. CachesTyped
      BY DEF Init, CachesTyped
    <3>4. call \in [Threads -> Call]
      BY <2>2 DEF Init
    <3> QED
      BY <2>1, <3>1, <3>2, <3>3, <3>4 DEF TypeOK
  <2>4. CallStates
    BY <2>1, <2>2 DEF CallStates, CallState
  <2>5. KeepsSelected /\ Alone /\ InHand
    BY <2>1, <2>2 DEF KeepsSelected, Alone, Functions, InHand, Hand
  <2>6. \A y \in Types : Mapped(y) = {}
    BY <2>1 DEF Mapped
  <2>7. OnlyMixedMisplaces
    BY <2>1, <2>6 DEF OnlyMixedMisplaces, InPlace, NodeOf
  <2>8. ASSUME NEW y \in Types
        PROVE  \E q \in Seq(NodeOf(y)) : Apart(y, q)
    <3>1. <<>> \in Seq(NodeOf(y)) /\ Len(<<>>) = 0 /\ Nodes(<<>>) = {} /\ IsInjective(<<>>)
      BY DEF Nodes, IsInjective
    <3>2. PICK q \in Seq(NodeOf(y)) : Len(q) = 0 /\ Nodes(q) = {} /\ IsInjective(q)
      BY <3>1
    <3>3. Place(y, q, 0) = y
      BY DEF Place
    <3>4. Links(y, q)
      BY <3>2, <3>3, <2>1 DEF Links
    <3>5. Kept(y, q)
      BY <3>2, <3>4, <2>1, <2>6 DEF Kept, Bound, All
    <3>6. InOrder(y, q, {}, 0)
      BY <3>2, <2>1, <2>6 DEF InOrder
    <3>7. \A t \in Threads : call[t].type # y
      BY <2>1, <2>2, NamesAssumption
    <3> QED
      BY <3>5, <3>6, <3>7 DEF Apart
  <2> QED
    BY <2>1, <2>3, <2>4, <2>5, <2>7, <2>8 DEF IInv, ApartStates
<1>2. IInv /\ [Next]_vars => IInv'
  <2> SUFFICES ASSUME IInv, [Next]_vars
               PROVE  IInv'
    OBVIOUS
  <2>1. ASSUME NEW t \in Threads, Step(t)
        PROVE  IInv'
    <3>1. ASSUME NEW o \in MayUse[t],
                 \/ discord_cache_set(t, o[1], o[2])
                 \/ discord_cache_get(t, o[1], o[2])
                 \/ discord_cache_delete(t, o[1], o[2])
          PROVE  IInv'
      <4>1. PICK type \in Types, id \in Ids : o[1] = type /\ o[2] = id
        BY <3>1, TypesAssumption
      <4> QED
        BY <3>1, <4>1, CallKeeps
    <3>2. CASE Lookup(t)
      BY <3>2, LookupKeeps
    <3>3. CASE Unlink(t)
      BY <3>3, UnlinkKeeps
    <3>4. CASE Relink(t)
      BY <3>4, RelinkKeeps
    <3>5. CASE Put(t)
      BY <3>5, PutKeeps
    <3>6. CASE Insert(t)
      BY <3>6, InsertKeeps
    <3>7. CASE Clean(t)
      BY <3>7, CleanKeeps
    <3>8. CASE Loop(t)
      BY <3>8, LoopKeeps
    <3>9. CASE Free(t)
      BY <3>9, FreeKeeps
    <3> QED
      BY <2>1, <3>1, <3>2, <3>3, <3>4, <3>5, <3>6, <3>7, <3>8, <3>9 DEF Step
  <2>2. CASE UNCHANGED vars
    <3>1. /\ selected' = selected /\ map' = map /\ next' = next /\ prev' = prev /\ last' = last
          /\ size' = size /\ freed' = freed /\ sets' = sets /\ calls' = calls
          /\ call' = call /\ mixed' = mixed /\ together' = together /\ fault' = fault
      BY <2>2 DEF vars, shared, links, counts, history
    <3>2. TypeOK'
      BY <3>1 DEF IInv, TypeOK, CachesTyped
    <3>3. CallStates'
      BY <3>1 DEF IInv, CallStates, CallState
    <3>4. KeepsSelected' /\ Alone' /\ InHand'
      BY <3>1 DEF IInv, KeepsSelected, Alone, InHand, Hand
    <3>5. OnlyMixedMisplaces'
      BY <3>1, Unmoved DEF IInv, links
    <3>6. ASSUME NEW y \in Types, NEW q \in Seq(NodeOf(y)), Apart(y, q)
          PROVE  Apart(y, q)'
      <4>1. /\ Kept(y, q)' = Kept(y, q) /\ Mapped(y)' = Mapped(y) /\ All(y, q)' = All(y, q)
            /\ \A known, count : InOrder(y, q, known, count)' = InOrder(y, q, known, count)
            /\ \A n : Spare(q, n)' = Spare(q, n)
        BY <3>1 DEF Kept, Links, Bound, All, Mapped, NodeOf, InOrder, Spare
      <4>2. ASSUME NEW t \in Threads, call[t].type = y
            PROVE  CacheOf(call[t], q)'
        <5>1. CacheOf(call[t], q)
          BY <3>6, <4>2 DEF Apart
        <5> QED
          BY <5>1, <4>1, <4>2, <3>1 DEF CacheOf
      <4> QED
        BY <4>1, <4>2, <3>1, <3>6 DEF Apart
    <3>7. ApartStates'
      BY <3>1, <3>6 DEF IInv, ApartStates, NodeOf
    <3> QED
      BY <3>2, <3>3, <3>4, <3>5, <3>7 DEF IInv
  <2> QED
    BY <2>1, <2>2 DEF Next
<1> QED
  BY <1>1, <1>2, PTL DEF Spec

(* As long as no two threads are in discord_cache_set for different        *)
(* caches, no node gets into the map of another cache, and as long as no   *)
(* function is called for two caches at once, no pointer leads from a      *)
(* cache to a node of another one (cache.c:143, 222, 254).                 *)
THEOREM OnlyMixedMisplacesHolds == Spec => []OnlyMixedMisplaces
<1>1. IInv => OnlyMixedMisplaces
  BY DEF IInv
<1> QED
  BY <1>1, InvariantHolds, PTL

(* No queue has more nodes than objects were made.                         *)
LEMMA QueueShort ==
    ASSUME TypeOK, NEW y \in Types, NEW q \in Seq(NodeOf(y)), Kept(y, q)
    PROVE  Len(q) <= MaxSets
<1>1. /\ Len(q) \in Nat /\ IsInjective(q) /\ DOMAIN q = 1..Len(q)
      /\ \A i \in 1..Len(q) : q[i] \in Nodes(q) /\ q[i] \in Node
  BY QueueFields, LenProperties, PlaceFacts DEF Nodes
<1>2. MaxSets \in Nat
  BY SizesAssumption
<1> DEFINE f == [i \in 1..Len(q) |-> q[i].nr]
<1>3. f \in [1..Len(q) -> 1..MaxSets]
  BY <1>1 DEF Node
<1>4. \A i, j \in 1..Len(q) : f[i] = f[j] => i = j
  BY <1>1 DEF Kept, IsInjective
<1>5. f \in Injection(1..Len(q), 1..MaxSets)
  BY <1>3, <1>4 DEF Injection, IsInjective
<1> HIDE DEF f
<1>6. IsFiniteSet(1..MaxSets) /\ Cardinality(1..MaxSets) = MaxSets
  BY <1>2, FS_Interval
<1>7. Cardinality(1..Len(q)) = Len(q)
  BY <1>1, FS_Interval
<1>8. Cardinality(1..Len(q)) <= Cardinality(1..MaxSets)
  BY <1>5, <1>6, FS_Injection
<1> QED
  BY <1>6, <1>7, <1>8

(* Threads that never use one cache, nor one function for two caches, at   *)
(* once need no lock (cache.c:222, 273).                                   *)
THEOREM SafeApartHolds == Spec => []SafeApart
<1>1. IInv => SafeApart
  <2> SUFFICES ASSUME IInv, mixed = {}, together = {}, NEW y \in Types
               PROVE  /\ ~fault
                      /\ \E q \in Orders(y) :
                          LET inside == {t \in Threads : call[t].type = y} IN
                          /\ Links(y, q)
                          /\ Mapped(y) \subseteq Nodes(q) \cup
                                  {call[t].new : t \in inside} \cup {call[t].node : t \in inside}
                          /\ inside = {} => size[y] = Len(q)
    BY DEF SafeApart, IInv, ApartStates
  <2>1. ~fault
    BY DEF IInv, ApartStates
  <2>2. PICK q \in Seq(NodeOf(y)) : Apart(y, q)
    BY DEF IInv, ApartStates
  <2>3. Kept(y, q) /\ Links(y, q) /\ Len(q) \in Nat
    BY <2>2, QueueFields DEF Apart, IInv
  <2>4. q \in Orders(y)
    <3>1. Len(q) \in 0..MaxSets
      BY <2>3, QueueShort, SizesAssumption DEF IInv
    <3> DEFINE found == {next[l] : l \in {y} \cup Node} \ {NoNode}
    <3>2. ASSUME NEW i \in 1..Len(q)
          PROVE  q[i] \in found
      <4>1. i - 1 \in 0..Len(q) /\ IsInjective(q)
        BY <2>3 DEF Links
      <4>2. Place(y, q, i - 1) \in {y} \cup Node
        BY <4>1, PlaceFacts DEF NodeOf
      <4>3. next[Place(y, q, i - 1)] = q[i] /\ q[i] # NoNode
        BY <4>1, <2>3, PlaceFacts, NamesAssumption DEF Links, NodeOf
      <4> QED
        BY <4>2, <4>3
    <3> HIDE DEF found
    <3>3. q \in [1..Len(q) -> found]
      BY <3>2, LenProperties
    <3> QED
      BY <3>1, <3>3 DEF Orders, SeqOf, found
  <2>5. (\A t \in Threads : call[t].type # y) => Mapped(y) \subseteq Nodes(q) /\ size[y] = Len(q)
    BY <2>2, <2>3 DEF Apart, InOrder
  <2>6. ASSUME NEW t \in Threads, call[t].type = y
        PROVE  Mapped(y) \subseteq Nodes(q) \cup {call[t].new, call[t].node}
    BY <2>2, <2>6 DEF Apart, CacheOf, InOrder
  <2>7. Mapped(y) \subseteq Nodes(q) \cup {call[t].new : t \in {u \in Threads : call[u].type = y}}
                \cup {call[t].node : t \in {u \in Threads : call[u].type = y}}
    BY <2>5, <2>6
  <2> QED
    BY <2>1, <2>3, <2>4, <2>5, <2>7
<1> QED
  BY <1>1, InvariantHolds, PTL
====
