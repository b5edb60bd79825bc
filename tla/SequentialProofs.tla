---- MODULE SequentialProofs ----
(***************************************************************************)
(* Proofs about the two parts that one thread at a time runs. The queue of *)
(* utils/prio_queue.c under any number of pushes and pops: in which order  *)
(* its nodes are, and what destroying it leaks. And d_getenv of            *)
(* utils/env_parse.c for any file and name: which line it finds.           *)
(***************************************************************************)
EXTENDS PrioQueue, EnvParse, ListProofs

-----------------------------------------------------------------------------
(* The inductive invariant of the queue: nodes are numbered by the pushes  *)
(* so far, so that no two of them are the same node.                       *)
Numbered ==
    /\ \A i \in 1..Len(queue) : queue[i].data <= pushes
    /\ \A i, j \in 1..Len(queue) : queue[i] = queue[j] => i = j

IInv == TypeOK /\ Numbered /\ QueueOrder /\ NothingLeaks

-----------------------------------------------------------------------------
(* Instants are numbers, so that nodes can be compared.                    *)
LEMMA NodesCompare == \A n \in Node : n.wait_until \in Int /\ n.data \in Int
<1>1. \A x \in Times : x \in Int
  BY TimesAssumption
<1>2. \A n \in Node : n.wait_until \in Times /\ n.data \in 1..MaxPushes
  BY DEF Node
<1> QED
  BY <1>1, <1>2, MaxPushesAssumption

(* The first node of an empty queue.                                       *)
LEMMA PushOnEmpty ==
    ASSUME IInv, NEW t \in Times, Push(t), queue = <<>>
    PROVE  IInv'
<1> DEFINE node == [data |-> pushes + 1, wait_until |-> t]
<1>1. node \in Node
  BY MaxPushesAssumption DEF IInv, TypeOK, Push, Node
<1>2. queue' = <<node>> /\ size' = 1 /\ pushes' = pushes + 1
  BY DEF Push, prio_push
<1>3. queue' \in Seq(Node) /\ Len(queue') = 1 /\ queue'[1] = node
  <2> HIDE DEF node
  <2> QED
    BY <1>1, <1>2
<1>4. TypeOK'
  BY <1>1, <1>2, <1>3, MaxPushesAssumption DEF IInv, TypeOK, Push
<1>5. Numbered'
  BY <1>2, <1>3 DEF Numbered
<1>6. QueueOrder'
  BY <1>3, <1>1, NodesCompare DEF QueueOrder, SortedButLast, LastIsFirstIn
<1>7. NothingLeaks'
  <2>1. Nodes(queue) = {} /\ Nodes(queue') = {node}
    BY <1>3 DEF Nodes
  <2> QED
    BY <2>1 DEF IInv, NothingLeaks, Push
<1> QED
  BY <1>4, <1>5, <1>6, <1>7 DEF IInv

(* A node is put before the last one, behind all that are not later, so    *)
(* that the order of the others is kept.                                   *)
LEMMA PushKeepsOrder ==
    ASSUME IInv, NEW t \in Times, Push(t), queue # <<>>
    PROVE  IInv'
<1> DEFINE node == [data |-> pushes + 1, wait_until |-> t]
           p == Cursor(queue, t)
<1>1. /\ node \in Node /\ node.wait_until = t /\ node.data = pushes + 1
      /\ pushes \in Nat
  BY MaxPushesAssumption DEF IInv, TypeOK, Push, Node
<1>2. /\ queue \in Seq(Node) /\ Len(queue) \in Nat
      /\ \A i \in 1..Len(queue) : queue[i] \in Node
  <2>1. queue \in Seq(Node)
    BY DEF IInv, TypeOK
  <2> QED
    BY <2>1, LenProperties, ElementOfSeq
<1>3. queue' = prio_push(queue, node) /\ pushes' = pushes + 1
  BY DEF Push
<1>4. queue' \in Seq(Node) /\ InsertedAt(queue, node, p, queue')
  <2> HIDE DEF node
  <2> QED
    BY <1>1, <1>2, <1>3, NodesCompare, PushInserts
<1> HIDE DEF p, node
<1>5. /\ p \in 1..Len(queue)
      /\ p = Len(queue) \/ queue[p].wait_until > t
      /\ \A i \in 1..(p - 1) : queue[i].wait_until <= t
      /\ Len(queue') = Len(queue) + 1
  BY <1>1, <1>4 DEF InsertedAt
<1>6. /\ \A i \in 1..(p - 1) : queue'[i] = queue[i]
      /\ queue'[p] = node
      /\ \A i \in (p + 1)..(Len(queue) + 1) : queue'[i] = queue[i - 1]
  BY <1>2, <1>4, <1>5 DEF InsertedAt
<1>7. TypeOK'
  <2>1. size' = Len(queue')
    BY <1>5 DEF IInv, TypeOK, Push
  <2>2. pushes' \in 0..MaxPushes /\ destroyed' \in BOOLEAN
    BY <1>1, MaxPushesAssumption DEF IInv, TypeOK, Push
  <2>3. live' \subseteq Node
    BY <1>1 DEF IInv, TypeOK, Push, node
  <2> QED
    BY <1>4, <2>1, <2>2, <2>3 DEF TypeOK
<1>8. \A i \in 1..Len(queue) : queue[i].data <= pushes /\ queue[i] # node
  BY <1>1, <1>2, NodesCompare DEF IInv, Numbered
<1>9. ASSUME NEW i \in 1..Len(queue')
      PROVE  queue'[i].data <= pushes + 1
  <2>1. \A k \in 1..Len(queue) : queue[k].data <= pushes + 1
    BY <1>1, <1>2, <1>8, NodesCompare
  <2>2. queue'[i] = node \/ \E k \in 1..Len(queue) : queue'[i] = queue[k]
    BY <1>2, <1>5, <1>6
  <2> QED
    BY <2>1, <2>2, <1>1
<1>10. ASSUME NEW i \in 1..Len(queue'), NEW j \in 1..Len(queue'),
              i < j, queue'[i] = queue'[j]
       PROVE  FALSE
  <2>1. \A k, l \in 1..Len(queue) : queue[k] = queue[l] => k = l
    BY DEF IInv, Numbered
  <2> QED
    BY <2>1, <1>2, <1>5, <1>6, <1>8, <1>10
<1>11. Numbered'
  BY <1>2, <1>3, <1>5, <1>9, <1>10 DEF Numbered
<1>12. SortedButLast'
  <2>1. SUFFICES ASSUME NEW i \in 1..Len(queue), NEW j \in 1..Len(queue), i < j
                 PROVE  queue'[i].wait_until <= queue'[j].wait_until
    BY <1>2, <1>5 DEF SortedButLast
  <2>2. \A k, l \in 1..(Len(queue) - 1) :
            k < l => queue[k].wait_until <= queue[l].wait_until
    BY DEF IInv, QueueOrder, SortedButLast
  <2>3. \A k \in 1..Len(queue) : queue[k].wait_until \in Int
    BY <1>2, NodesCompare
  <2>4. t \in Int
    BY TimesAssumption
  <2>5. CASE j < p
    <3>1. i \in 1..(p - 1) /\ j \in 1..(p - 1)
      BY <2>1, <2>5, <1>2, <1>5
    <3>2. i \in 1..(Len(queue) - 1) /\ j \in 1..(Len(queue) - 1)
      BY <3>1, <1>2, <1>5
    <3>3. queue'[i] = queue[i] /\ queue'[j] = queue[j]
      BY <3>1, <1>6
    <3> QED
      BY <2>1, <2>2, <3>2, <3>3
  <2>6. CASE j = p
    BY <2>1, <2>6, <1>1, <1>2, <1>5, <1>6
  <2>7. CASE i < p /\ p < j
    <3>1. i \in 1..(Len(queue) - 1) /\ j - 1 \in 1..(Len(queue) - 1) /\ i < j - 1
      BY <2>1, <2>7, <1>2, <1>5
    <3>2. i \in 1..(p - 1) /\ j \in (p + 1)..(Len(queue) + 1)
      BY <2>1, <2>7, <1>2, <1>5
    <3>3. queue'[i] = queue[i] /\ queue'[j] = queue[j - 1]
      BY <3>2, <1>6
    <3> QED
      BY <3>1, <3>3, <2>2
  <2>8. CASE i = p
    <3>1. queue'[i] = node /\ queue'[j] = queue[j - 1] /\ j - 1 \in 1..(Len(queue) - 1)
      BY <2>1, <2>8, <1>2, <1>5, <1>6
    <3>2. t < queue[p].wait_until
      BY <2>1, <2>3, <2>4, <2>8, <1>2, <1>5
    <3>3. queue[p].wait_until <= queue[j - 1].wait_until
      BY <3>1, <2>1, <2>2, <2>3, <2>8, <1>2, <1>5
    <3> QED
      BY <3>1, <3>2, <3>3, <2>3, <2>4, <1>1, <1>2, <1>5
  <2>9. CASE p < i
    <3>1. i - 1 \in 1..(Len(queue) - 1) /\ j - 1 \in 1..(Len(queue) - 1) /\ i - 1 < j - 1
      BY <2>1, <2>9, <1>2, <1>5
    <3> QED
      BY <3>1, <2>1, <2>2, <2>9, <1>2, <1>5, <1>6
  <2> QED
    BY <2>1, <2>5, <2>6, <2>7, <2>8, <2>9, <1>2, <1>5
<1>13. LastIsFirstIn'
  <2>1. queue'[Len(queue')] = queue[Len(queue)] /\ Len(queue) \in 1..Len(queue)
    BY <1>2, <1>5, <1>6
  <2>2. \A k \in 1..Len(queue) : queue[Len(queue)].data <= queue[k].data
    BY DEF IInv, QueueOrder, LastIsFirstIn
  <2>3. queue[Len(queue)].data <= node.data
    BY <2>1, <1>1, <1>2, <1>8, NodesCompare
  <2>4. ASSUME NEW i \in 1..Len(queue')
        PROVE  queue'[i] = node \/ \E k \in 1..Len(queue) : queue'[i] = queue[k]
    BY <1>2, <1>5, <1>6
  <2> QED
    BY <2>1, <2>2, <2>3, <2>4 DEF LastIsFirstIn
<1>14. NothingLeaks'
  <2>1. Nodes(queue') = Nodes(queue) \cup {node}
    BY <1>1, <1>2, <1>3, NodesCompare, PushNodes
  <2> QED
    BY <2>1 DEF IInv, NothingLeaks, Push, node
<1> QED
  BY <1>7, <1>11, <1>12, <1>13, <1>14 DEF IInv, QueueOrder

(* The head is removed, and every other node moves up by one.              *)
LEMMA PopKeeps ==
    ASSUME IInv, Pop
    PROVE  IInv'
<1>1. /\ queue \in Seq(Node) /\ queue' = prio_pop(queue)
      /\ queue # <<>> /\ pushes' = pushes
  BY DEF IInv, TypeOK, Pop
<1>2. /\ queue' \in Seq(Node)
      /\ Head(queue) = queue[1]
      /\ Len(queue) \in Nat \ {0}
      /\ Len(queue') = Len(queue) - 1
      /\ \A i \in 1..(Len(queue) - 1) : queue'[i] = queue[i + 1]
  BY <1>1, PopShifts
<1>3. TypeOK'
  BY <1>2 DEF IInv, TypeOK, Pop
<1>4. Numbered'
  <2>1. \A i \in 1..Len(queue') : i + 1 \in 1..Len(queue) /\ queue'[i] = queue[i + 1]
    BY <1>2
  <2>2. \A i \in 1..Len(queue') : queue'[i].data <= pushes'
    BY <2>1, <1>1 DEF IInv, Numbered
  <2>3. ASSUME NEW i \in 1..Len(queue'), NEW j \in 1..Len(queue'), queue'[i] = queue'[j]
        PROVE  i = j
    <3>1. i + 1 = j + 1
      BY <2>1, <2>3 DEF IInv, Numbered
    <3> QED
      BY <3>1, <1>2
  <2> QED
    BY <2>2, <2>3 DEF Numbered
<1>5. SortedButLast'
  <2>1. \A i \in 1..(Len(queue') - 1) :
            i + 1 \in 1..(Len(queue) - 1) /\ queue'[i] = queue[i + 1]
    BY <1>2
  <2> QED
    BY <2>1, <1>2 DEF IInv, QueueOrder, SortedButLast
<1>6. LastIsFirstIn'
  <2>1. \A i \in 1..Len(queue') :
            /\ i + 1 \in 1..Len(queue) /\ queue'[i] = queue[i + 1]
            /\ queue'[Len(queue')] = queue[Len(queue)]
    BY <1>2
  <2> QED
    BY <2>1, <1>2 DEF IInv, QueueOrder, LastIsFirstIn
<1>7. Nodes(queue') = Nodes(queue) \ {queue[1]}
  <2>1. \A i \in 1..Len(queue') : i + 1 \in 1..Len(queue) /\ queue'[i] = queue[i + 1]
    BY <1>2
  <2>2. \A i \in 1..Len(queue) : i # 1 => i - 1 \in 1..Len(queue') /\ queue'[i - 1] = queue[i]
    BY <1>2
  <2>3. \A i \in 1..Len(queue) : queue[i] = queue[1] => i = 1
    BY <1>2 DEF IInv, Numbered
  <2>4. \A i \in 1..Len(queue') : queue[i + 1] # queue[1]
    BY <2>1, <2>3, <1>2
  <2>5. Nodes(queue') \subseteq Nodes(queue) \ {queue[1]}
    BY <2>1, <2>4 DEF Nodes
  <2>6. Nodes(queue) \ {queue[1]} \subseteq Nodes(queue')
    BY <2>2 DEF Nodes
  <2> QED
    BY <2>5, <2>6
<1>8. NothingLeaks'
  BY <1>2, <1>7 DEF IInv, NothingLeaks, Pop
<1> QED
  BY <1>3, <1>4, <1>5, <1>6, <1>8 DEF IInv, QueueOrder

(* All nodes are freed but the last one of two or more.                    *)
LEMMA DestroyKeeps ==
    ASSUME IInv, Destroy
    PROVE  IInv'
<1>1. /\ queue' = queue /\ pushes' = pushes /\ size' = size
      /\ destroyed' /\ live' = Nodes(queue) \ prio_destroy_queue(queue)
      /\ queue \in Seq(Node) /\ live \subseteq Node
  BY DEF IInv, TypeOK, Destroy, NothingLeaks
<1>2. Len(queue) \in Nat
  BY <1>1, LenProperties
<1>3. ASSUME NEW i \in 1..Len(queue), queue[i] \notin prio_destroy_queue(queue)
      PROVE  i = Len(queue)
  BY <1>2, <1>3 DEF prio_destroy_queue
<1>4. live' \subseteq {queue[Len(queue)]}
  BY <1>1, <1>3 DEF Nodes
<1>5. NothingLeaks'
  BY <1>1, <1>4 DEF NothingLeaks
<1>6. TypeOK'
  BY <1>1 DEF IInv, TypeOK, Destroy, NothingLeaks
<1>7. Numbered' /\ QueueOrder'
  BY <1>1 DEF IInv, Numbered, QueueOrder, SortedButLast, LastIsFirstIn
<1> QED
  BY <1>5, <1>6, <1>7 DEF IInv

(* The inductive invariant holds in every state, for any instants and any  *)
(* number of pushes (prio_queue.c).                                        *)
THEOREM InvariantHolds == Spec => []IInv
<1>1. Init => IInv
  <2> SUFFICES ASSUME Init
               PROVE  IInv
    OBVIOUS
  <2>1. queue = <<>> /\ Len(queue) = 0 /\ size = 0 /\ pushes = 0
        /\ live = {} /\ destroyed = FALSE
    BY DEF Init
  <2>2. TypeOK
    <3>1. queue \in Seq(Node)
      BY <2>1, EmptySeq
    <3>2. pushes \in 0..MaxPushes
      BY <2>1, MaxPushesAssumption
    <3> QED
      BY <2>1, <3>1, <3>2 DEF TypeOK
  <2>3. Numbered /\ QueueOrder /\ NothingLeaks
    BY <2>1 DEF Numbered, QueueOrder, SortedButLast, LastIsFirstIn, NothingLeaks, Nodes
  <2> QED
    BY <2>2, <2>3 DEF IInv
<1>2. IInv /\ [Next]_vars => IInv'
  <2> SUFFICES ASSUME IInv, [Next]_vars
               PROVE  IInv'
    OBVIOUS
  <2>1. ASSUME NEW t \in Times, Push(t)
        PROVE  IInv'
    BY <2>1, PushOnEmpty, PushKeepsOrder
  <2>2. CASE Pop
    BY <2>2, PopKeeps
  <2>3. CASE Destroy
    BY <2>3, DestroyKeeps
  <2>4. CASE UNCHANGED vars
    BY <2>4 DEF vars, IInv, TypeOK, Numbered, QueueOrder, SortedButLast,
       LastIsFirstIn, NothingLeaks
  <2> QED
    BY <2>1, <2>2, <2>3, <2>4 DEF Next
<1> QED
  BY <1>1, <1>2, PTL DEF Spec

(* All nodes but the last one are in order, and the last one is the oldest *)
(* of all, whatever its time (prio_queue.c:22).                            *)
THEOREM OrderHolds == Spec => []QueueOrder
<1>1. IInv => QueueOrder
  BY DEF IInv
<1> QED
  BY <1>1, InvariantHolds, PTL

(* What is allocated is in the queue, and prio_destroy_queue leaks at most *)
(* the last node (prio_queue.c:63).                                        *)
THEOREM LeaksAtMostLast == Spec => []NothingLeaks
<1>1. IInv => NothingLeaks
  BY DEF IInv
<1> QED
  BY <1>1, InvariantHolds, PTL

-----------------------------------------------------------------------------
(* A line that begins in a file has an end: the next newline, or the end   *)
(* of the file.                                                            *)
LEMMA EndOfLine ==
    ASSUME NEW S, NEW f \in Seq(S), NEW s \in 1..Len(f), BeginsLine(f, s)
    PROVE  \E l \in Lines(f) : l[1] = s
<1> DEFINE ends == {e \in s..(Len(f) + 1) : e = Len(f) + 1 \/ f[e] = Newline}
<1>1. Len(f) \in Nat /\ ends \subseteq Nat /\ Len(f) + 1 \in ends
  OBVIOUS
<1>2. PICK e \in ends : \A i \in ends : e <= i
  <2> HIDE DEF ends
  <2> QED
    BY <1>1, LeastElement
<1>3. e \in s..(Len(f) + 1) /\ (e = Len(f) + 1 \/ f[e] = Newline)
  OBVIOUS
<1>4. \A i \in s..(e - 1) : f[i] # Newline
  BY <1>1, <1>2, <1>3
<1>5. <<s, e - 1>> \in Lines(f)
  BY <1>1, <1>3, <1>4 DEF Lines, Unbroken
<1> QED
  BY <1>5

(* Where a line begins and ends.                                           *)
LEMMA LinesAreLines ==
    ASSUME NEW S, NEW f \in Seq(S), NEW l \in Lines(f)
    PROVE  /\ l[1] \in 1..Len(f) /\ l[2] \in 0..Len(f) /\ l[2] >= l[1] - 1
           /\ BeginsLine(f, l[1]) /\ Unbroken(f, l[1], l[2])
           /\ l[2] = Len(f) \/ f[l[2] + 1] = Newline
BY DEF Lines

(* If some line binds the name, one of them begins before the others.      *)
LEMMA FirstWantedIs ==
    ASSUME NEW S, NEW f \in Seq(S), NEW n, Wanted(f, n) # {}
    PROVE  /\ FirstWanted(f, n) \in Wanted(f, n)
           /\ \A k \in Wanted(f, n) : FirstWanted(f, n)[1] <= k[1]
<1> DEFINE begins == {l[1] : l \in Wanted(f, n)}
<1>1. begins \subseteq Nat /\ begins # {}
  BY LinesAreLines DEF Wanted
<1>2. PICK s \in begins : \A r \in begins : s <= r
  <2> HIDE DEF begins
  <2> QED
    BY <1>1, LeastElement
<1>3. \E l \in Wanted(f, n) : \A k \in Wanted(f, n) : l[1] <= k[1]
  BY <1>2
<1> QED
  BY <1>3 DEF FirstWanted

(* What a line that binds the name consists of.                            *)
LEMMA WantedLine ==
    ASSUME NEW S, NEW f \in Seq(S), NEW T, NEW n \in Seq(T), NEW l \in Wanted(f, n)
    PROVE  /\ l \in Lines(f) /\ l[1] + Len(n) <= l[2]
           /\ f[l[1] + Len(n)] = Equals
           /\ \A i \in 1..Len(n) : f[l[1] + i - 1] = n[i]
<1>1. l \in Lines(f) /\ Binds(f, l, n)
  BY DEF Wanted
<1>2. l[1] \in 1..Len(f) /\ l[2] \in 0..Len(f) /\ Len(n) \in Nat
  BY <1>1, LinesAreLines
<1>3. /\ l[1] + Len(n) <= l[2] /\ f[l[1] + Len(n)] = Equals
      /\ SubSeq(f, l[1], l[1] + Len(n) - 1) = n
  BY <1>1 DEF Binds
<1>4. \A i \in l[1]..(l[1] + Len(n) - 1) : f[i] \in S
  BY <1>2, <1>3
<1>5. \A i \in 1..((l[1] + Len(n) - 1) - l[1] + 1) :
         SubSeq(f, l[1], l[1] + Len(n) - 1)[i] = f[l[1] + i - 1]
  BY <1>2, <1>4, SubSeqProperties
<1>6. (l[1] + Len(n) - 1) - l[1] + 1 = Len(n)
  BY <1>2
<1>7. \A i \in 1..Len(n) : n[i] = f[l[1] + i - 1]
  BY <1>3, <1>5, <1>6
<1> QED
  BY <1>1, <1>3, <1>7

(* The characters from s to e of the file are the last ones of the first k *)
(* of the name.                                                            *)
Matched(f, s, e, n, k) == e - s + 1 <= k /\ \A i \in s..e : f[i] = n[k - e + i]

(* Then they are a piece of the name.                                      *)
LEMMA MatchedIsPiece ==
    ASSUME NEW S, NEW f \in Seq(S), NEW T, NEW n \in Seq(T),
           NEW s \in 1..Len(f), NEW e \in 0..Len(f), e >= s - 1, NEW k \in 0..Len(n),
           Matched(f, s, e, n, k)
    PROVE  /\ SubSeq(f, s, e) = SubSeq(n, k - e + s, k)
           /\ Len(SubSeq(n, k - e + s, k)) = e - s + 1
           /\ k - e + s \in 1..(Len(n) + 1)
<1> DEFINE i == k - e + s
           a == SubSeq(f, s, e)
           b == SubSeq(n, i, k)
<1>1. /\ i \in 1..(k + 1) /\ k \in Nat /\ Len(n) \in Nat /\ s \in Int /\ e \in Int
      /\ Len(f) \in Nat
  BY DEF Matched
<1>2. /\ a \in Seq(S) /\ Len(a) = e - s + 1
      /\ \A j \in 1..(e - s + 1) : a[j] = f[s + j - 1]
  <2>1. \A j \in s..e : f[j] \in S
    BY <1>1
  <2>2. /\ a \in Seq(S) /\ Len(a) = IF s <= e THEN e - s + 1 ELSE 0
        /\ \A j \in 1..(e - s + 1) : a[j] = f[s + j - 1]
    BY <1>1, <2>1, SubSeqProperties
  <2> HIDE DEF a
  <2> QED
    BY <1>1, <2>2
<1>3. /\ b \in Seq(T) /\ Len(b) = e - s + 1
      /\ \A j \in 1..(e - s + 1) : b[j] = n[i + j - 1]
  <2>1. \A j \in i..k : n[j] \in T
    BY <1>1
  <2>2. /\ b \in Seq(T) /\ Len(b) = IF i <= k THEN k - i + 1 ELSE 0
        /\ \A j \in 1..(k - i + 1) : b[j] = n[i + j - 1]
    BY <1>1, <2>1, SubSeqProperties
  <2> HIDE DEF b
  <2> QED
    BY <1>1, <2>2
<1>4. ASSUME NEW j \in 1..(e - s + 1)
      PROVE  f[s + j - 1] = n[i + j - 1]
  <2>1. s + j - 1 \in s..e /\ k - e + (s + j - 1) = i + j - 1
    BY <1>1
  <2>2. \A x \in s..e : f[x] = n[k - e + x]
    BY DEF Matched
  <2> HIDE DEF i
  <2> QED
    BY <2>1, <2>2
<1> HIDE DEF a, b
<1>5. a = b
  <2>1. /\ a \in Seq(S \cup T) /\ b \in Seq(S \cup T) /\ Len(a) = Len(b)
        /\ \A j \in 1..Len(a) : a[j] = b[j]
    BY <1>2, <1>3, <1>4, SeqMonotonic
  <2> QED
    BY <2>1, SeqEqual
<1> QED
  BY <1>1, <1>3, <1>5 DEF a, b

-----------------------------------------------------------------------------
(* The inductive invariant of d_getenv.                                    *)
Begin == FirstWanted(file, name)[1]

(* Before a "=": what is read of the current line, if it may still be the  *)
(* right one, is a piece of the name, for count is what matched so far, on *)
(* this line and on those before it.                                       *)
NameSoFar ==
    ~found => \E s \in 1..(cur + 1) :
        /\ BeginsLine(file, s) /\ Unbroken(file, s, cur)
        /\ val => Matched(file, s, cur, name, count)

(* After it: the value is read from the same line, which begins with a     *)
(* piece of the name.                                                      *)
ValueSoFar ==
    found =>
        /\ offset >= 1 /\ file[offset] = Equals /\ Unbroken(file, offset, cur - 1)
        /\ \E s \in 1..offset, k \in 0..Len(name) :
            /\ BeginsLine(file, s) /\ Unbroken(file, s, offset - 1)
            /\ Matched(file, s, offset - 1, name, k)

(* In an unlike file, nothing of another line matches, and the wanted line *)
(* is not passed: it is still to come, or all that is read of it matches.  *)
NotPassed ==
    Unlike(file, name) /\ ~found => \E s \in 1..(cur + 1) :
        /\ BeginsLine(file, s) /\ Unbroken(file, s, cur)
        /\ \/ /\ Wanted(file, name) # {} => s < Begin
              /\ count = 0 /\ (val => s = cur + 1)
           \/ /\ Wanted(file, name) # {} /\ s = Begin
              /\ val /\ count = cur + 1 - s

(* The line that is found in it is the wanted one.                         *)
FoundWanted ==
    Unlike(file, name) /\ found =>
        Wanted(file, name) # {} /\ offset = Begin + Len(name)

AtReturn == returned => AtEnd /\ result = IF env_len = 0 THEN Null ELSE Value

EnvIInv == EnvTypeOK /\ NameSoFar /\ ValueSoFar /\ NotPassed /\ FoundWanted /\ AtReturn

-----------------------------------------------------------------------------
(* The characters of the arguments.                                        *)
Char == UNION {{f[i] : i \in DOMAIN f} : f \in Files \cup Names}

(* Files and names are sequences of them.                                  *)
LEMMA ArgumentsAreSequences == \A f \in Files \cup Names : f \in Seq(Char)
<1>1. ASSUME NEW f \in Files \cup Names PROVE f \in Seq(Char)
  <2>1. f \in Seq({f[i] : i \in DOMAIN f}) /\ {f[i] : i \in DOMAIN f} \subseteq Char
    BY FilesAssumption DEF Char
  <2> QED
    BY <2>1, SeqMonotonic
<1> QED
  BY <1>1

(* The arguments of the call, and their lengths.                           *)
LEMMA Arguments ==
    ASSUME EnvTypeOK
    PROVE  /\ file \in Seq(Char) /\ name \in Seq(Char)
           /\ Len(file) \in Nat /\ Len(name) \in Nat \ {0}
           /\ \A i \in 1..Len(name) : name[i] \notin {Newline, Equals}
<1>2. file \in Seq(Char) /\ name \in Seq(Char) /\ name \in Names
  BY ArgumentsAreSequences DEF EnvTypeOK
<1>3. name # <<>> /\ \A i \in DOMAIN name : name[i] \notin {Newline, Equals}
  BY <1>2, NamesAssumption
<1> QED
  BY <1>2, <1>3, LenProperties, EmptySeq

(* A character is read, and it is not one behind the end of the value.     *)
LEMMA ReadStep ==
    ASSUME EnvTypeOK, Read, ~AtEnd
    PROVE  /\ cur < Len(file) /\ cur' = cur + 1 /\ cur + 1 \in 1..Len(file)
           /\ found /\ cur > offset => file[cur] # Newline
           /\ file' = file /\ name' = name /\ returned' = returned /\ result' = result
           /\ env_len' = IF found THEN env_len + 1 ELSE env_len
           /\ EnvTypeOK'
<1>1. Len(file) \in Nat /\ Len(name) \in Nat
  BY Arguments
<1>2. cur \in 0..Len(file) /\ cur # Len(file) /\ (found /\ cur > offset => file[cur] # Newline)
  BY DEF EnvTypeOK, AtEnd
<1>3. cur' = cur + 1 /\ file' = file /\ name' = name /\ returned' = returned
      /\ result' = result /\ env_len' = IF found THEN env_len + 1 ELSE env_len
  BY DEF Read
<1>4. EnvTypeOK'
  <2>1. CASE NextLine
    BY <1>1, <1>2, <1>3, <2>1 DEF NextLine, Valid, EnvTypeOK
  <2>2. CASE FindValue
    BY <1>1, <1>2, <1>3, <2>2 DEF FindValue, EnvTypeOK
  <2>3. CASE Compare
    <3>1. val \in BOOLEAN /\ count \in 0..Len(name)
      BY DEF EnvTypeOK
    <3>2. val' \in BOOLEAN
      BY <2>3, <3>1, Zenon DEF Compare
    <3>3. count' \in 0..Len(name) /\ found' = found /\ offset' = offset
      BY <1>1, <2>3, <3>1 DEF Compare
    <3> QED
      BY <1>1, <1>2, <1>3, <3>2, <3>3 DEF EnvTypeOK
  <2> QED
    BY <2>1, <2>2, <2>3 DEF Read
<1> QED
  BY <1>1, <1>2, <1>3, <1>4

(* A character of the name, or a new line.                                 *)
LEMMA NameSoFarStep ==
    ASSUME EnvIInv, Read, ~AtEnd
    PROVE  NameSoFar'
<1> SUFFICES ASSUME ~found'
             PROVE  \E s \in 1..(cur' + 1) :
                /\ BeginsLine(file', s) /\ Unbroken(file', s, cur')
                /\ val' => Matched(file', s, cur', name', count')
  BY DEF NameSoFar
<1>0. /\ cur' = cur + 1 /\ file' = file /\ name' = name /\ cur \in Nat /\ count \in Nat
      /\ cur + 1 \in 1..Len(file) /\ Len(file) \in Nat
  BY ReadStep, Arguments DEF EnvIInv, EnvTypeOK
<1>1. CASE NextLine
  <2>1. BeginsLine(file, cur + 2) /\ Unbroken(file, cur + 2, cur + 1)
    BY <1>0, <1>1 DEF NextLine, c, BeginsLine, Unbroken
  <2>2. Matched(file, cur + 2, cur + 1, name, count')
    BY <1>0, <1>1 DEF NextLine, Matched, EnvIInv, EnvTypeOK
  <2> QED
    BY <1>0, <2>1, <2>2
<1>2. CASE FindValue
  BY <1>2 DEF FindValue
<1>3. CASE Compare
  <2>1. ~found /\ c # Newline /\ (val' => val)
    BY <1>3 DEF Compare, EnvIInv, EnvTypeOK
  <2>2. PICK s \in 1..(cur + 1) :
            /\ BeginsLine(file, s) /\ Unbroken(file, s, cur)
            /\ val => Matched(file, s, cur, name, count)
    BY <2>1 DEF EnvIInv, NameSoFar
  <2>3. Unbroken(file, s, cur + 1)
    BY <1>0, <2>1, <2>2 DEF Unbroken, c
  <2>4. ASSUME val' PROVE Matched(file, s, cur + 1, name, count')
    <3>1. val /\ count' = count + 1 /\ file[cur + 1] = name[count + 1]
      BY <1>3, <2>1, <2>4 DEF Compare, c, EnvIInv, EnvTypeOK
    <3>2. Matched(file, s, cur, name, count)
      BY <2>2, <3>1
    <3> QED
      BY <1>0, <3>1, <3>2 DEF Matched
  <2> QED
    BY <1>0, <2>2, <2>3, <2>4
<1> QED
  BY <1>1, <1>2, <1>3 DEF Read

(* A "=" where the value begins, or a character of the value.              *)
LEMMA ValueSoFarStep ==
    ASSUME EnvIInv, Read, ~AtEnd
    PROVE  ValueSoFar'
<1>0. /\ cur' = cur + 1 /\ file' = file /\ name' = name /\ cur \in Nat /\ count \in 0..Len(name)
      /\ cur + 1 \in 1..Len(file) /\ Len(file) \in Nat /\ Len(name) \in Nat
      /\ offset \in 0..cur
      /\ found /\ cur > offset => file[cur] # Newline
  BY ReadStep, Arguments DEF EnvIInv, EnvTypeOK
<1>1. CASE found
  <2>1. found' /\ offset' = offset
    BY <1>1 DEF Read, NextLine, FindValue, Compare
  <2>2. /\ offset >= 1 /\ file[offset] = Equals /\ Unbroken(file, offset, cur - 1)
        /\ \E s \in 1..offset, k \in 0..Len(name) :
            /\ BeginsLine(file, s) /\ Unbroken(file, s, offset - 1)
            /\ Matched(file, s, offset - 1, name, k)
    BY <1>1 DEF EnvIInv, ValueSoFar
  <2>3. Unbroken(file, offset, cur)
    BY <1>0, <1>1, <2>2, NewlineAssumption DEF Unbroken
  <2> QED
    BY <1>0, <2>1, <2>2, <2>3 DEF ValueSoFar
<1>2. CASE FindValue
  <2>1. found' /\ offset' = cur + 1 /\ ~found /\ val /\ file[cur + 1] = Equals
    BY <1>2 DEF FindValue, c
  <2>2. PICK s \in 1..(cur + 1) :
            /\ BeginsLine(file, s) /\ Unbroken(file, s, cur)
            /\ Matched(file, s, cur, name, count)
    BY <2>1 DEF EnvIInv, NameSoFar
  <2>3. Unbroken(file, cur + 1, cur)
    BY <1>0 DEF Unbroken
  <2>4. offset' - 1 = cur /\ cur' - 1 = cur /\ offset' >= 1
    BY <1>0, <2>1
  <2> QED
    BY <1>0, <2>1, <2>2, <2>3, <2>4 DEF ValueSoFar
<1>3. CASE ~found /\ ~FindValue
  BY <1>3 DEF Read, NextLine, Compare, ValueSoFar
<1> QED
  BY <1>1, <1>2, <1>3

(* Where an unlike file begins another line, the name does not match.      *)
LEMMA OtherLine ==
    ASSUME EnvTypeOK, Unlike(file, name), NEW s \in 1..Len(file), BeginsLine(file, s),
           Wanted(file, name) # {} => s < Begin
    PROVE  file[s] = Newline \/ file[s] \notin {Head(name), Equals}
<1>1. file \in Seq(Char) /\ Len(file) \in Nat
  BY Arguments
<1>2. PICK l \in Lines(file) : l[1] = s
  BY <1>1, EndOfLine
<1>3. l[1] > l[2] \/ file[s] \notin {Head(name), Equals}
  BY <1>2 DEF Unlike, Begin
<1>4. CASE l[1] > l[2]
  <2>1. l[2] \in 0..Len(file) /\ l[2] >= l[1] - 1 /\ (l[2] = Len(file) \/ file[l[2] + 1] = Newline)
    BY <1>1, LinesAreLines
  <2>2. l[2] = s - 1
    BY <1>1, <1>2, <1>4, <2>1
  <2> QED
    BY <1>1, <2>1, <2>2
<1> QED
  BY <1>3, <1>4

(* Where the wanted line is, and what it consists of.                      *)
LEMMA WantedAt ==
    ASSUME EnvTypeOK, Wanted(file, name) # {}
    PROVE  /\ Begin \in 1..Len(file) /\ BeginsLine(file, Begin)
           /\ Begin + Len(name) \in 1..Len(file) /\ file[Begin + Len(name)] = Equals
           /\ \A i \in 1..Len(name) : file[Begin + i - 1] = name[i]
           /\ \E e \in 0..Len(file) : FirstWanted(file, name) = <<Begin, e>> /\ e >= Begin + Len(name)
<1> DEFINE l == FirstWanted(file, name)
<1>1. /\ file \in Seq(Char) /\ name \in Seq(Char) /\ Len(file) \in Nat /\ Len(name) \in Nat
  BY Arguments
<1>2. l \in Wanted(file, name)
  BY <1>1, FirstWantedIs
<1>3. /\ l \in Lines(file) /\ l[1] + Len(name) <= l[2]
      /\ file[l[1] + Len(name)] = Equals
      /\ \A i \in 1..Len(name) : file[l[1] + i - 1] = name[i]
  BY <1>1, <1>2, WantedLine
<1>4. l[1] \in 1..Len(file) /\ l[2] \in 0..Len(file) /\ BeginsLine(file, l[1])
  BY <1>1, <1>3, LinesAreLines
<1>5. l = <<l[1], l[2]>>
  BY <1>3 DEF Lines
<1> QED
  BY <1>1, <1>3, <1>4, <1>5 DEF Begin

(* No character of another line matches, and each one of the wanted line   *)
(* does.                                                                   *)
LEMMA NotPassedStep ==
    ASSUME EnvIInv, Read, ~AtEnd
    PROVE  NotPassed'
<1> DEFINE wanted == Wanted(file, name)
<1> SUFFICES ASSUME Unlike(file, name), ~found'
             PROVE  \E s \in 1..(cur' + 1) :
                /\ BeginsLine(file, s) /\ Unbroken(file, s, cur')
                /\ \/ /\ wanted # {} => s < Begin
                      /\ count' = 0 /\ (val' => s = cur' + 1)
                   \/ wanted # {} /\ s = Begin /\ val' /\ count' = cur' + 1 - s
  <2>1. file' = file /\ name' = name /\ Begin' = Begin
    BY ReadStep DEF EnvIInv, Begin
  <2> QED
    BY <2>1 DEF NotPassed
<1>0. /\ cur' = cur + 1 /\ file' = file /\ name' = name /\ cur \in Nat /\ count \in 0..Len(name)
      /\ cur + 1 \in 1..Len(file) /\ Len(file) \in Nat /\ Len(name) \in Nat \ {0}
      /\ \A i \in 1..Len(name) : name[i] \notin {Newline, Equals}
      /\ EnvTypeOK /\ name \in Seq(Char)
  BY ReadStep, Arguments DEF EnvIInv, EnvTypeOK
<1>1. wanted # {} => /\ Begin \in 1..Len(file) /\ BeginsLine(file, Begin)
                     /\ Begin + Len(name) \in 1..Len(file) /\ file[Begin + Len(name)] = Equals
                     /\ \A i \in 1..Len(name) : file[Begin + i - 1] = name[i]
  BY <1>0, WantedAt
<1>2. ~found
  BY DEF Read, NextLine, FindValue, Compare
<1>3. PICK s \in 1..(cur + 1) :
        /\ BeginsLine(file, s) /\ Unbroken(file, s, cur)
        /\ \/ /\ wanted # {} => s < Begin
              /\ count = 0 /\ (val => s = cur + 1)
           \/ wanted # {} /\ s = Begin /\ val /\ count = cur + 1 - s
  BY <1>2 DEF EnvIInv, NotPassed
<1> HIDE DEF wanted
<1>4. CASE wanted # {} /\ s = Begin /\ val /\ count = cur + 1 - s
  <2>1. CASE count < Len(name)
    <3>1. file[cur + 1] = name[count + 1] /\ count + 1 \in 1..Len(name)
      BY <1>0, <1>1, <1>4, <2>1
    <3>2. c = name[count + 1] /\ c \notin {Newline, Equals}
      BY <1>0, <3>1 DEF c
    <3>3. val' = val /\ count' = count + 1
      BY <1>4, <2>1, <3>2 DEF Read, NextLine, FindValue, Compare
    <3>4. Unbroken(file, s, cur + 1)
      BY <1>0, <1>3, <3>2 DEF Unbroken, c
    <3> QED
      BY <1>0, <1>3, <1>4, <3>3, <3>4
  <2>2. CASE count = Len(name)
    <3>1. c = Equals
      BY <1>0, <1>1, <1>4, <2>2 DEF c
    <3> QED
      BY <1>2, <1>4, <3>1, NewlineAssumption DEF Read, NextLine, FindValue, Compare
  <2> QED
    BY <1>0, <2>1, <2>2
<1>5. CASE (wanted # {} => s < Begin) /\ count = 0 /\ (val => s = cur + 1)
  <2>1. CASE NextLine
    <3>1. val' /\ count' = 0 /\ file[cur + 1] = Newline
      BY <1>5, <2>1 DEF NextLine, Valid, c
    <3>2. BeginsLine(file, cur + 2) /\ Unbroken(file, cur + 2, cur + 1)
      BY <1>0, <3>1 DEF BeginsLine, Unbroken
    <3>3. wanted # {} => Begin > cur + 1
      <4>1. ASSUME wanted # {}, Begin <= cur + 1 PROVE FALSE
        <5>1. Begin - 1 \in s..cur /\ file[Begin - 1] = Newline
          BY <1>0, <1>1, <1>5, <4>1 DEF BeginsLine
        <5> QED
          BY <1>3, <5>1 DEF Unbroken
      <4> QED
        BY <1>0, <1>1, <4>1
    <3>4. wanted # {} => cur + 2 < Begin \/ cur + 2 = Begin
      BY <1>0, <1>1, <3>3
    <3> QED
      BY <1>0, <3>1, <3>2, <3>4
  <2>2. CASE ~NextLine
    <3>1. c # Newline
      BY <2>2 DEF Read, FindValue, Compare, NewlineAssumption
    <3>2. ~val' /\ count' = 0
      <4>1. CASE val
        <5>1. s = cur + 1 /\ file[s] \notin {Head(name), Equals}
          BY <1>0, <1>3, <1>5, <3>1, <4>1, OtherLine DEF c, wanted
        <5>2. c # name[count + 1] /\ c # Equals
          BY <1>0, <1>5, <5>1 DEF c
        <5> QED
          BY <1>5, <2>2, <4>1, <5>2 DEF Read, FindValue, Compare
      <4>2. CASE ~val
        BY <1>5, <2>2, <4>2 DEF Read, FindValue, Compare
      <4> QED
        BY <4>1, <4>2
    <3>3. Unbroken(file, s, cur + 1)
      BY <1>0, <1>3, <3>1 DEF Unbroken, c
    <3> QED
      BY <1>0, <1>3, <1>5, <3>2, <3>3
  <2> QED
    BY <2>1, <2>2
<1> QED
  BY <1>3, <1>4, <1>5

(* Only on the wanted line is a "=" read before the line is given up.      *)
LEMMA FoundWantedStep ==
    ASSUME EnvIInv, Read, ~AtEnd
    PROVE  FoundWanted'
<1> DEFINE wanted == Wanted(file, name)
<1> SUFFICES ASSUME Unlike(file, name), found'
             PROVE  wanted # {} /\ offset' = Begin + Len(name)
  <2>1. file' = file /\ name' = name /\ Begin' = Begin
    BY ReadStep DEF EnvIInv, Begin
  <2> QED
    BY <2>1 DEF FoundWanted
<1>1. CASE found
  BY <1>1 DEF EnvIInv, FoundWanted, Read, NextLine, FindValue, Compare
<1>2. CASE ~found
  <2>0. /\ cur \in Nat /\ count \in 0..Len(name) /\ cur + 1 \in 1..Len(file)
        /\ Len(file) \in Nat /\ Len(name) \in Nat \ {0}
        /\ \A i \in 1..Len(name) : name[i] \notin {Newline, Equals}
        /\ EnvTypeOK
    BY ReadStep, Arguments DEF EnvIInv, EnvTypeOK
  <2>1. c = Equals /\ val /\ offset' = cur + 1
    BY <1>2 DEF Read, NextLine, FindValue, Compare
  <2>2. PICK s \in 1..(cur + 1) :
          /\ BeginsLine(file, s)
          /\ \/ (wanted # {} => s < Begin) /\ s = cur + 1
             \/ wanted # {} /\ s = Begin /\ count = cur + 1 - s
    BY <1>2, <2>1 DEF EnvIInv, NotPassed
  <2>3. CASE (wanted # {} => s < Begin) /\ s = cur + 1
    BY <2>0, <2>1, <2>2, <2>3, OtherLine, NewlineAssumption DEF c
  <2>4. CASE wanted # {} /\ s = Begin /\ count = cur + 1 - s
    <3>1. \A i \in 1..Len(name) : file[Begin + i - 1] = name[i]
      BY <2>0, <2>4, WantedAt
    <3>2. CASE count < Len(name)
      <4>1. file[cur + 1] = name[count + 1] /\ count + 1 \in 1..Len(name)
        BY <2>0, <2>4, <3>1, <3>2
      <4> QED
        BY <2>0, <2>1, <4>1 DEF c
    <3>3. CASE count = Len(name)
      BY <2>0, <2>1, <2>4, <3>3
    <3> QED
      BY <2>0, <3>2, <3>3
  <2> QED
    BY <2>2, <2>3, <2>4
<1> QED
  BY <1>1, <1>2

(* The inductive invariant holds in every state, for any files and any     *)
(* names that are not empty and have no newline or "=" in them             *)
(* (env_parse.c:22).                                                       *)
THEOREM EnvInvariantHolds == EnvSpec => []EnvIInv
<1>1. EnvInit => EnvIInv
  <2> SUFFICES ASSUME EnvInit
               PROVE  EnvIInv
    OBVIOUS
  <2> USE DEF EnvInit
  <2>1. EnvTypeOK
    <3>1. file \in Seq(Char) /\ name \in Seq(Char)
      BY ArgumentsAreSequences
    <3>2. Len(file) \in Nat /\ Len(name) \in Nat
      BY <3>1, LenProperties
    <3>3. cur \in 0..Len(file) /\ offset \in 0..cur /\ count \in 0..Len(name)
      BY <3>2
    <3>4. val \in BOOLEAN /\ found \in BOOLEAN /\ returned \in BOOLEAN
      BY Zenon
    <3>5. file \in Files /\ name \in Names /\ env_len = IF found THEN cur - offset ELSE 0
      OBVIOUS
    <3> QED
      BY <3>3, <3>4, <3>5 DEF EnvTypeOK
  <2>2. BeginsLine(file, 1) /\ Unbroken(file, 1, 0)
    BY DEF BeginsLine, Unbroken
  <2>3. NameSoFar
    BY <2>2 DEF NameSoFar, Matched
  <2>4. NotPassed
    <3>1. Wanted(file, name) # {} => Begin \in Nat /\ Begin >= 1
      BY <2>1, WantedAt, Arguments
    <3>2. Wanted(file, name) # {} => 1 < Begin \/ 1 = Begin
      BY <3>1
    <3> QED
      BY <2>2, <3>2 DEF NotPassed
  <2> QED
    BY <2>1, <2>3, <2>4 DEF EnvIInv, ValueSoFar, FoundWanted, AtReturn
<1>2. EnvIInv /\ [EnvNext]_envVars => EnvIInv'
  <2> SUFFICES ASSUME EnvIInv, [EnvNext]_envVars
               PROVE  EnvIInv'
    OBVIOUS
  <2>1. CASE ~returned /\ ~AtEnd /\ Read
    <3>1. EnvTypeOK' /\ returned' = returned
      BY <2>1, ReadStep DEF EnvIInv
    <3> QED
      BY <2>1, <3>1, NameSoFarStep, ValueSoFarStep, NotPassedStep, FoundWantedStep
      DEF EnvIInv, AtReturn
  <2>2. CASE ~returned /\ AtEnd /\ Return
    <3>1. UNCHANGED <<file, name, cur, val, found, count, offset, env_len>> /\ returned' = TRUE
      BY <2>2 DEF Return
    <3>2. EnvTypeOK'
      BY <3>1 DEF EnvIInv, EnvTypeOK
    <3>3. NameSoFar' /\ ValueSoFar' /\ NotPassed' /\ FoundWanted'
      BY <3>1 DEF EnvIInv, NameSoFar, ValueSoFar, NotPassed, FoundWanted, Begin
    <3>4. AtReturn'
      BY <2>2, <3>1 DEF Return, AtReturn, AtEnd, Value
    <3> QED
      BY <3>2, <3>3, <3>4 DEF EnvIInv
  <2>3. CASE UNCHANGED envVars
    BY <2>3 DEF envVars, EnvIInv, EnvTypeOK, NameSoFar, ValueSoFar, NotPassed, FoundWanted,
       AtReturn, AtEnd, Value, Begin
  <2> QED
    BY <2>1, <2>2, <2>3 DEF EnvNext
<1> QED
  BY <1>1, <1>2, PTL DEF EnvSpec

(* What is returned: the value without its last character.                 *)
LEMMA ResultIsValue ==
    ASSUME EnvIInv, returned
    PROVE  /\ AtEnd
           /\ IF found /\ cur > offset THEN result = SubSeq(file, offset + 1, cur - 1)
              ELSE result = Null
<1>1. /\ env_len = IF found THEN cur - offset ELSE 0
      /\ offset \in 0..cur /\ cur \in Nat
  BY Arguments DEF EnvIInv, EnvTypeOK
<1>2. AtEnd /\ result = IF env_len = 0 THEN Null ELSE SubSeq(file, offset + 1, offset + env_len - 1)
  BY DEF EnvIInv, AtReturn, Value
<1>3. CASE found /\ cur > offset
  <2>1. env_len = cur - offset /\ env_len # 0 /\ offset + env_len - 1 = cur - 1
    BY <1>1, <1>3
  <2> QED
    BY <1>2, <1>3, <2>1
<1>4. CASE ~(found /\ cur > offset)
  BY <1>1, <1>2, <1>4
<1> QED
  BY <1>2, <1>3, <1>4

(* Whatever the file, d_getenv returns nothing or the value of one line of *)
(* it, whose name is a piece of the one that was asked for                 *)
(* (env_parse.c:33, 49).                                                   *)
THEOREM ResultOfOneLineHolds == EnvSpec => []ResultOfOneLine
<1>1. EnvIInv => ResultOfOneLine
  <2> SUFFICES ASSUME EnvIInv, returned, result # Null
               PROVE  \E l \in Lines(file), i \in 1..(Len(name) + 1), n \in 0..Len(name) :
                        LET piece == SubSeq(name, i, n)
                            last == IF l[2] = Len(file) THEN l[2] - 1 ELSE l[2]
                        IN /\ Binds(file, l, piece)
                           /\ result = SubSeq(file, l[1] + Len(piece) + 1, last)
    BY DEF ResultOfOneLine
  <2>1. /\ AtEnd /\ found /\ cur > offset
        /\ result = SubSeq(file, offset + 1, cur - 1)
    BY ResultIsValue
  <2>2. /\ offset \in 1..Len(file) /\ cur \in 1..Len(file) /\ Len(file) \in Nat
        /\ Len(name) \in Nat /\ file \in Seq(Char) /\ name \in Seq(Char)
        /\ file[offset] = Equals /\ Unbroken(file, offset, cur - 1)
    <3>1. /\ offset \in 0..cur /\ cur \in 0..Len(file) /\ Len(file) \in Nat
          /\ Len(name) \in Nat /\ file \in Seq(Char) /\ name \in Seq(Char)
      BY Arguments DEF EnvIInv, EnvTypeOK
    <3>2. /\ offset >= 1 /\ file[offset] = Equals
          /\ Unbroken(file, offset, cur - 1)
      BY <2>1 DEF EnvIInv, ValueSoFar
    <3> QED
      BY <3>1, <3>2
  <2>3. PICK s \in 1..offset, k \in 0..Len(name) :
            /\ BeginsLine(file, s) /\ Unbroken(file, s, offset - 1)
            /\ Matched(file, s, offset - 1, name, k)
    BY <2>1 DEF EnvIInv, ValueSoFar
  <2>4. PICK e \in offset..Len(file) :
            /\ e = Len(file) \/ file[e + 1] = Newline
            /\ Unbroken(file, offset, e)
            /\ cur - 1 = IF e = Len(file) THEN e - 1 ELSE e
    <3>1. CASE file[cur] = Newline
      BY <2>1, <2>2, <3>1
    <3>2. CASE file[cur] # Newline
      <4>1. cur = Len(file) /\ Unbroken(file, offset, cur)
        BY <2>1, <2>2, <3>2 DEF AtEnd, Unbroken
      <4> QED
        BY <2>1, <2>2, <4>1
    <3> QED
      BY <3>1, <3>2
  <2> DEFINE l == <<s, e>>
             i == k - (offset - 1) + s
             piece == SubSeq(name, i, k)
  <2>5. l \in Lines(file)
    BY <2>2, <2>3, <2>4 DEF Lines, Unbroken
  <2>6. /\ SubSeq(file, s, offset - 1) = piece /\ Len(piece) = (offset - 1) - s + 1
        /\ i \in 1..(Len(name) + 1)
    <3>1. s \in 1..Len(file) /\ offset - 1 \in 0..Len(file) /\ offset - 1 >= s - 1
      BY <2>2, <2>3
    <3>2. ASSUME NEW x \in 0..Len(file), x >= s - 1, Matched(file, s, x, name, k)
          PROVE  /\ SubSeq(file, s, x) = SubSeq(name, k - x + s, k)
                 /\ Len(SubSeq(name, k - x + s, k)) = x - s + 1
                 /\ k - x + s \in 1..(Len(name) + 1)
      BY <2>2, <3>1, <3>2, MatchedIsPiece
    <3> QED
      BY <2>3, <3>1, <3>2
  <2> HIDE DEF piece, i
  <2>7. s + Len(piece) = offset /\ s + Len(piece) - 1 = offset - 1
    BY <2>2, <2>3, <2>6
  <2>8. Binds(file, l, piece)
    BY <2>2, <2>4, <2>6, <2>7 DEF Binds
  <2>9. result = SubSeq(file, l[1] + Len(piece) + 1, IF l[2] = Len(file) THEN l[2] - 1 ELSE l[2])
    BY <2>1, <2>4, <2>7
  <2> QED
    BY <2>3, <2>5, <2>6, <2>8, <2>9 DEF piece
<1> QED
  BY <1>1, EnvInvariantHolds, PTL

(* If no line before the wanted one begins with the first character of the *)
(* name or with "=", and the file ends with a newline, d_getenv returns    *)
(* the value of the first line that binds the name, or nothing if there is *)
(* none (env_parse.c:33, 36).                                              *)
THEOREM RightIfUnlikeHolds == EnvSpec => []RightIfUnlike
<1>1. EnvIInv => RightIfUnlike
  <2> SUFFICES ASSUME EnvIInv, returned, Unlike(file, name)
               PROVE  result = IF Wanted(file, name) = {} THEN Null
                               ELSE ValueOf(file, FirstWanted(file, name), name)
    BY DEF RightIfUnlike
  <2> DEFINE wanted == Wanted(file, name)
  <2>1. /\ EnvTypeOK /\ offset \in 0..cur /\ cur \in 0..Len(file) /\ Len(file) \in Nat
        /\ Len(name) \in Nat /\ file \in Seq(Char) /\ name \in Seq(Char)
    BY Arguments DEF EnvIInv, EnvTypeOK
  <2>2. /\ AtEnd
        /\ IF found /\ cur > offset THEN result = SubSeq(file, offset + 1, cur - 1)
           ELSE result = Null
    BY ResultIsValue
  <2>3. file # <<>> => file[Len(file)] = Newline
    BY DEF Unlike
  <2>4. CASE found
    <3>1. /\ wanted # {} /\ offset = Begin + Len(name)
          /\ file[offset] = Equals /\ Unbroken(file, offset, cur - 1)
      BY <2>4 DEF EnvIInv, FoundWanted, ValueSoFar
    <3>2. PICK e \in 0..Len(file) : FirstWanted(file, name) = <<Begin, e>> /\ e >= Begin + Len(name)
      BY <2>1, <3>1, WantedAt
    <3>3. Begin \in 1..Len(file) /\ offset \in 1..Len(file)
      BY <2>1, <3>1, WantedAt
    <3>4. cur > offset /\ file[cur] = Newline
      <4>1. CASE cur = Len(file)
        <5>1. file[cur] = Newline
          BY <2>1, <2>3, <3>3, <4>1, EmptySeq
        <5> QED
          BY <2>1, <3>1, <3>3, <4>1, <5>1, NewlineAssumption
      <4>2. CASE cur # Len(file)
        BY <2>2, <4>2 DEF AtEnd
      <4> QED
        BY <4>1, <4>2
    <3>5. Unbroken(file, Begin, e) /\ (e = Len(file) \/ file[e + 1] = Newline)
      <4>1. <<Begin, e>> \in Lines(file)
        BY <2>1, <3>1, <3>2, FirstWantedIs DEF Wanted
      <4> QED
        BY <2>1, <4>1, LinesAreLines
    <3>6. e = cur - 1
      <4>1. e < cur
        <5>1. ASSUME e >= cur PROVE FALSE
          BY <2>1, <3>1, <3>3, <3>4, <3>5, <5>1 DEF Unbroken
        <5> QED
          BY <2>1, <5>1
      <4>2. ~(e < cur - 1)
        <5>1. ASSUME e < cur - 1 PROVE FALSE
          <6>1. e + 1 \in offset..(cur - 1) /\ e # Len(file)
            BY <2>1, <3>1, <3>2, <3>3, <5>1
          <6> QED
            BY <3>1, <3>5, <6>1 DEF Unbroken
        <5> QED
          BY <5>1
      <4> QED
        BY <2>1, <4>1, <4>2
    <3>7. result = SubSeq(file, Begin + Len(name) + 1, e)
      BY <2>2, <2>4, <3>1, <3>4, <3>6
    <3>8. ValueOf(file, <<Begin, e>>, name) = SubSeq(file, Begin + Len(name) + 1, e)
      BY DEF ValueOf
    <3> QED
      BY <3>1, <3>2, <3>7, <3>8
  <2>5. CASE ~found
    <3>1. result = Null /\ cur = Len(file)
      BY <2>2, <2>5 DEF AtEnd
    <3>2. PICK s \in 1..(cur + 1) :
            /\ BeginsLine(file, s) /\ Unbroken(file, s, cur)
            /\ \/ wanted # {} => s < Begin
               \/ wanted # {} /\ s = Begin /\ count = cur + 1 - s
      BY <2>5 DEF EnvIInv, NotPassed
    <3>3. ASSUME wanted # {} PROVE FALSE
      <4>1. Begin \in 1..Len(file) /\ BeginsLine(file, Begin) /\ Begin + Len(name) \in 1..Len(file)
        BY <2>1, <3>3, WantedAt
      <4>2. CASE s < Begin
        <5>1. Begin - 1 \in s..cur /\ file[Begin - 1] = Newline
          BY <2>1, <3>1, <4>1, <4>2 DEF BeginsLine
        <5> QED
          BY <3>2, <5>1 DEF Unbroken
      <4>3. CASE s = Begin /\ count = cur + 1 - s
        <5>1. count \in 0..Len(name)
          BY <2>1 DEF EnvTypeOK
        <5> QED
          BY <2>1, <3>1, <4>1, <4>3, <5>1
      <4> QED
        BY <3>2, <3>3, <4>2, <4>3
    <3> QED
      BY <3>1, <3>3
  <2> QED
    BY <2>4, <2>5
<1> QED
  BY <1>1, EnvInvariantHolds, PTL
====
