---- MODULE ListProofs ----
(***************************************************************************)
(* What the operators on lists do to a sequence of nodes: prio_push and    *)
(* prio_pop of utils/prio_queue.c, TAILQ_REMOVE and TAILQ_INSERT_TAIL as   *)
(* utils/cache.c uses them.                                                *)
(***************************************************************************)
EXTENDS PrioQueueOps, SequenceTheorems, WellFoundedInduction, TLAPS

(* A nonempty set of natural numbers has a least element.                  *)
LEMMA LeastElement ==
    ASSUME NEW T, T \subseteq Nat, T # {}
    PROVE  \E p \in T : \A r \in T : p <= r
<1>1. \E x \in T : \A y \in T : ~ (<<y, x>> \in OpToRel(<, Nat))
  BY WFMin, NatLessThanWellFounded
<1>2. PICK x \in T : \A y \in T : ~ (<<y, x>> \in OpToRel(<, Nat))
  BY <1>1
<1>3. \A y \in T : ~(y < x)
  BY <1>2 DEF OpToRel
<1> QED
  BY <1>3

(* The walk of prio_push ends inside the list: at the first node that is   *)
(* later than the new one, or at the last node.                            *)
LEMMA CursorInside ==
    ASSUME NEW S, NEW q \in Seq(S), q # <<>>, NEW t \in Int,
           \A i \in 1..Len(q) : q[i].wait_until \in Int
    PROVE  /\ Cursor(q, t) \in 1..Len(q)
           /\ Cursor(q, t) = Len(q) \/ q[Cursor(q, t)].wait_until > t
           /\ \A r \in 1..(Cursor(q, t) - 1) : q[r].wait_until <= t
<1>1. Len(q) \in Nat /\ Len(q) # 0
  BY EmptySeq, LenProperties
<1>2. StopsAt(q, t) \subseteq Nat /\ Len(q) \in StopsAt(q, t)
  BY <1>1 DEF StopsAt
<1>3. \E p \in StopsAt(q, t) : \A r \in StopsAt(q, t) : p <= r
  BY <1>2, LeastElement
<1>4. /\ Cursor(q, t) \in StopsAt(q, t)
      /\ \A r \in StopsAt(q, t) : Cursor(q, t) <= r
  BY <1>3 DEF Cursor
<1> QED
  BY <1>1, <1>4 DEF StopsAt

(* The list r is q with node put before place p, the first place that is   *)
(* later than node or else the last place.                                 *)
InsertedAt(q, node, p, r) ==
    /\ p \in 1..Len(q)
    /\ p = Len(q) \/ q[p].wait_until > node.wait_until
    /\ \A i \in 1..(p - 1) : q[i].wait_until <= node.wait_until
    /\ Len(r) = Len(q) + 1
    /\ \A i \in 1..Len(r) :
          r[i] = IF i < p THEN q[i] ELSE IF i = p THEN node ELSE q[i - 1]

(* prio_push adds one node, before the cursor, and moves no other.         *)
LEMMA PushInserts ==
    ASSUME NEW S, NEW q \in Seq(S), q # <<>>, NEW node \in S,
           \A e \in S : e.wait_until \in Int
    PROVE  /\ prio_push(q, node) \in Seq(S)
           /\ InsertedAt(q, node, Cursor(q, node.wait_until), prio_push(q, node))
<1> DEFINE p == Cursor(q, node.wait_until)
           a == SubSeq(q, 1, p - 1)
           b == SubSeq(q, p, Len(q))
           c == a \o <<node>>
           r == prio_push(q, node)
<1>1. /\ p \in 1..Len(q)
      /\ p = Len(q) \/ q[p].wait_until > node.wait_until
      /\ \A i \in 1..(p - 1) : q[i].wait_until <= node.wait_until
  BY CursorInside, ElementOfSeq
<1>2. Len(q) \in Nat /\ \A i \in 1..Len(q) : q[i] \in S
  BY LenProperties, ElementOfSeq
<1> HIDE DEF p
<1>3. /\ a \in Seq(S)
      /\ Len(a) = p - 1
      /\ \A i \in 1..(p - 1) : a[i] = q[i]
  <2>1. \A i \in 1..(p - 1) : q[i] \in S
    BY <1>1, <1>2
  <2>2. 1 \in Int /\ p - 1 \in Int
    BY <1>1, <1>2
  <2>3. /\ SubSeq(q, 1, p - 1) \in Seq(S)
        /\ Len(SubSeq(q, 1, p - 1)) = IF 1 <= p - 1 THEN p - 1 - 1 + 1 ELSE 0
        /\ \A i \in 1 .. (p - 1) - 1 + 1 : SubSeq(q, 1, p - 1)[i] = q[1 + i - 1]
    BY <2>1, <2>2, SubSeqProperties
  <2> QED
    BY <2>3, <1>1, <1>2
<1>4. /\ b \in Seq(S)
      /\ Len(b) = Len(q) - p + 1
      /\ \A i \in 1..(Len(q) - p + 1) : b[i] = q[p + i - 1]
  BY <1>1, <1>2, SubSeqProperties
<1>5. <<node>> \in Seq(S) /\ Len(<<node>>) = 1 /\ <<node>>[1] = node
  OBVIOUS
<1>6. prio_push(q, node) = (a \o <<node>>) \o b
  BY DEF prio_push, InsertAt, p
<1>7. /\ c \in Seq(S)
      /\ Len(c) = p
      /\ \A i \in 1..p : c[i] = IF i < p THEN q[i] ELSE node
  BY <1>1, <1>2, <1>3, <1>5, ConcatProperties
<1>8. c \in Seq(S) /\ b \in Seq(S) /\ r = c \o b
  BY <1>4, <1>6, <1>7
<1>9. /\ r \in Seq(S)
      /\ Len(r) = Len(c) + Len(b)
      /\ \A i \in 1..(Len(c) + Len(b)) :
            r[i] = IF i <= Len(c) THEN c[i] ELSE b[i - Len(c)]
  <2> HIDE DEF c, b, r
  <2> QED
    BY <1>8, ConcatProperties
<1>10. Len(r) = Len(q) + 1
  <2> HIDE DEF c, b, r
  <2> QED
    BY <1>1, <1>2, <1>4, <1>7, <1>9
<1>11. ASSUME NEW i \in 1..Len(r)
       PROVE  r[i] = IF i < p THEN q[i]
                     ELSE IF i = p THEN node ELSE q[i - 1]
  <2> HIDE DEF c, b, r
  <2>1. r[i] = IF i <= p THEN c[i] ELSE b[i - p]
    BY <1>1, <1>4, <1>7, <1>9
  <2>2. CASE i <= p
    BY <2>1, <2>2, <1>1, <1>2, <1>7
  <2>3. CASE i > p
    <3>1. i - p \in 1..(Len(q) - p + 1)
      BY <2>3, <1>1, <1>2, <1>10
    <3> QED
      BY <2>1, <2>3, <3>1, <1>1, <1>2, <1>4
  <2> QED
    BY <2>2, <2>3, <1>1, <1>2, <1>10
<1> QED
  <2> HIDE DEF r, c, b
  <2> QED
    BY <1>1, <1>9, <1>10, <1>11 DEF p, r, InsertedAt

(* The result of prio_push is a sequence of nodes, never empty.            *)
LEMMA PushType ==
    ASSUME NEW S, NEW q \in Seq(S), NEW node \in S,
           \A e \in S : e.wait_until \in Int
    PROVE  /\ prio_push(q, node) \in Seq(S)
           /\ prio_push(q, node) # <<>>
           /\ Len(prio_push(q, node)) = Len(q) + 1
<1>1. CASE q = <<>>
  BY <1>1 DEF prio_push
<1>2. CASE q # <<>>
  <2>1. /\ prio_push(q, node) \in Seq(S)
        /\ Len(prio_push(q, node)) = Len(q) + 1
    BY <1>2, PushInserts DEF InsertedAt
  <2>2. Len(q) \in Nat
    BY LenProperties
  <2>3. prio_push(q, node) # <<>>
    BY <2>1, <2>2, EmptySeq
  <2> QED
    BY <2>1, <2>3
<1> QED
  BY <1>1, <1>2

(* The nodes after a push: those before it and the new one.                *)
LEMMA PushNodes ==
    ASSUME NEW S, NEW q \in Seq(S), NEW node \in S,
           \A e \in S : e.wait_until \in Int
    PROVE  Nodes(prio_push(q, node)) = Nodes(q) \cup {node}
<1> DEFINE r == prio_push(q, node)
           p == Cursor(q, node.wait_until)
<1>1. CASE q = <<>>
  BY <1>1 DEF prio_push, Nodes
<1>2. CASE q # <<>>
  <2>1. /\ p \in 1..Len(q)
        /\ Len(r) = Len(q) + 1
        /\ \A i \in 1..Len(r) :
              r[i] = IF i < p THEN q[i] ELSE IF i = p THEN node ELSE q[i - 1]
    BY <1>2, PushInserts DEF InsertedAt
  <2>2. Len(q) \in Nat
    BY LenProperties
  <2> HIDE DEF r, p
  <2>3. \A i \in 1..Len(r) : r[i] \in {q[k] : k \in 1..Len(q)} \cup {node}
    <3>1. SUFFICES ASSUME NEW i \in 1..Len(r), i # p
                   PROVE  \E k \in 1..Len(q) : r[i] = q[k]
      BY <2>1, <2>2
    <3>2. CASE i < p
      <4>1. i \in 1..Len(q) /\ r[i] = q[i]
        BY <3>2, <2>1, <2>2
      <4> QED
        BY <4>1
    <3>3. CASE i > p
      <4>1. i - 1 \in 1..Len(q) /\ r[i] = q[i - 1]
        BY <3>3, <2>1, <2>2
      <4> QED
        BY <4>1
    <3> QED
      BY <3>1, <3>2, <3>3, <2>1, <2>2
  <2>4. ASSUME NEW k \in 1..Len(q)
        PROVE  \E i \in 1..Len(r) : r[i] = q[k]
    <3>1. CASE k < p
      <4>1. k \in 1..Len(r) /\ r[k] = q[k]
        BY <3>1, <2>1, <2>2
      <4> QED
        BY <4>1
    <3>2. CASE k >= p
      <4>1. k + 1 \in 1..Len(r) /\ ~(k + 1 < p) /\ k + 1 # p
        BY <3>2, <2>1, <2>2
      <4>2. r[k + 1] = q[(k + 1) - 1]
        BY <4>1, <2>1
      <4>3. (k + 1) - 1 = k
        BY <2>2
      <4> QED
        BY <4>1, <4>2, <4>3
    <3> QED
      BY <3>1, <3>2, <2>1, <2>2
  <2>5. p \in 1..Len(r) /\ r[p] = node
    BY <2>1, <2>2
  <2>6. {r[i] : i \in 1..Len(r)} \subseteq {q[i] : i \in 1..Len(q)} \cup {node}
    BY <2>3
  <2>7. {q[i] : i \in 1..Len(q)} \cup {node} \subseteq {r[i] : i \in 1..Len(r)}
    BY <2>4, <2>5
  <2> QED
    BY <2>6, <2>7 DEF r, Nodes
<1> QED
  BY <1>1, <1>2

(* prio_pop shifts the nodes by one place.                                 *)
LEMMA PopShifts ==
    ASSUME NEW S, NEW q \in Seq(S), q # <<>>
    PROVE  /\ prio_pop(q) \in Seq(S)
           /\ Head(q) = q[1] /\ q[1] \in S
           /\ Len(q) \in Nat \ {0}
           /\ Len(prio_pop(q)) = Len(q) - 1
           /\ \A i \in 1..(Len(q) - 1) : prio_pop(q)[i] = q[i + 1]
           /\ prio_pop(q) = <<>> <=> Len(q) = 1
<1>1. /\ Tail(q) \in Seq(S)
      /\ Len(Tail(q)) = Len(q) - 1
      /\ \A i \in 1..(Len(q) - 1) : Tail(q)[i] = q[i + 1]
  BY HeadTailProperties
<1>2. Len(q) \in Nat \ {0} /\ Head(q) = q[1]
  BY LenProperties, EmptySeq
<1>3. q[1] \in S
  BY <1>2, ElementOfSeq
<1>4. Tail(q) = <<>> <=> Len(q) = 1
  BY <1>1, <1>2, EmptySeq
<1> QED
  BY <1>1, <1>2, <1>3, <1>4 DEF prio_pop

-----------------------------------------------------------------------------
(* r holds what q holds but for n, once each.                              *)
Lacks(q, n, r) ==
    /\ Len(r) = Len(q) - 1
    /\ Len(q) \in Nat \ {0}
    /\ Nodes(r) = Nodes(q) \ {n}
    /\ IsInjective(r)

(* r holds what q holds and n, once each.                                  *)
Gains(q, n, r) ==
    /\ Len(r) = Len(q) + 1
    /\ Len(q) \in Nat
    /\ Nodes(r) = Nodes(q) \cup {n}
    /\ IsInjective(r)

(* TAILQ_REMOVE takes out one node and moves no other.                     *)
LEMMA WithoutLacks ==
    ASSUME NEW S, NEW q \in Seq(S), IsInjective(q), NEW n \in Nodes(q)
    PROVE  /\ Without(q, n) \in Seq(S)
           /\ Lacks(q, n, Without(q, n))
           /\ \E k \in 1..Len(q) : q[k] = n /\ \A i \in 1..(Len(q) - 1) :
                 Without(q, n)[i] = IF i < k THEN q[i] ELSE q[i + 1]
<1> DEFINE k == CHOOSE i \in 1..Len(q) : q[i] = n
           r == Without(q, n)
           front == SubSeq(q, 1, k - 1)
           back == SubSeq(q, k + 1, Len(q))
<1>1. k \in 1..Len(q) /\ q[k] = n
  BY DEF Nodes
<1>2. Len(q) \in Nat /\ q \in [1..Len(q) -> S]
  BY LenProperties
<1>3. r = front \o back
  BY DEF Without, RemoveAt
<1> HIDE DEF k
<1>4. /\ front \in Seq(S)
      /\ Len(front) = k - 1
      /\ \A i \in 1..(k - 1) : front[i] = q[i]
  BY <1>1, <1>2, SubSeqProperties
<1>5. /\ back \in Seq(S)
      /\ Len(back) = Len(q) - k
      /\ \A i \in 1..(Len(q) - k) : back[i] = q[k + i]
  <2>1. /\ k + 1 \in Int /\ Len(q) \in Int
        /\ \A i \in (k + 1)..Len(q) : i \in 1..Len(q)
    BY <1>1, <1>2
  <2>2. /\ back \in Seq(S)
        /\ Len(back) = IF k + 1 <= Len(q) THEN Len(q) - (k + 1) + 1 ELSE 0
        /\ \A i \in 1..(Len(q) - (k + 1) + 1) : back[i] = q[(k + 1) + i - 1]
    BY <2>1, <1>1, <1>2, SubSeqProperties
  <2>3. Len(back) = Len(q) - k
    <3> HIDE DEF back
    <3>1. Len(back) = IF k + 1 <= Len(q) THEN Len(q) - (k + 1) + 1 ELSE 0
      BY <2>2
    <3>2. k \in Int /\ Len(q) \in Int /\ k <= Len(q)
      BY <1>1, <1>2
    <3>3. Len(q) - (k + 1) + 1 = Len(q) - k
      BY <3>2
    <3>4. CASE k + 1 <= Len(q)
      BY <3>1, <3>3, <3>4
    <3>5. CASE ~(k + 1 <= Len(q))
      <4>1. Len(q) - k = 0
        BY <3>2, <3>5
      <4> QED
        BY <3>1, <3>5, <4>1
    <3> QED
      BY <3>4, <3>5
  <2>4. ASSUME NEW i \in 1..(Len(q) - k)
        PROVE  back[i] = q[k + i]
    <3>1. i \in 1..(Len(q) - (k + 1) + 1) /\ (k + 1) + i - 1 = k + i
      BY <1>1, <1>2
    <3> QED
      BY <3>1, <2>2
  <2> QED
    BY <2>2, <2>3, <2>4
<1> HIDE DEF front, back, r
<1>6. /\ r \in Seq(S)
      /\ Len(r) = Len(front) + Len(back)
      /\ \A i \in 1..(Len(front) + Len(back)) :
            r[i] = IF i <= Len(front) THEN front[i] ELSE back[i - Len(front)]
  BY <1>3, <1>4, <1>5, ConcatProperties
<1>7. Len(r) = Len(q) - 1
  BY <1>1, <1>2, <1>4, <1>5, <1>6
<1>8. ASSUME NEW i \in 1..Len(r)
      PROVE  r[i] = IF i < k THEN q[i] ELSE q[i + 1]
  <2>1. CASE i < k
    BY <2>1, <1>1, <1>2, <1>4, <1>5, <1>6
  <2>2. CASE i >= k
    <3>1. /\ i - (k - 1) \in 1..(Len(q) - k)
          /\ k + (i - (k - 1)) = i + 1
          /\ ~(i <= k - 1)
      BY <2>2, <1>1, <1>2, <1>7
    <3>2. r[i] = back[i - (k - 1)]
      BY <3>1, <1>4, <1>6
    <3>3. back[i - (k - 1)] = q[k + (i - (k - 1))]
      BY <3>1, <1>5
    <3> QED
      BY <3>1, <3>2, <3>3, <2>2, <1>1, <1>2
  <2> QED
    BY <2>1, <2>2, <1>1, <1>2
<1>9. \A i, j \in 1..Len(q) : q[i] = q[j] => i = j
  BY <1>2 DEF IsInjective
<1>10. Nodes(r) = Nodes(q) \ {n}
  <2>1. ASSUME NEW i \in 1..Len(r)
        PROVE  r[i] \in Nodes(q) \ {n}
    <3>1. CASE i < k
      <4>1. i \in 1..Len(q) /\ r[i] = q[i] /\ i # k
        BY <3>1, <1>1, <1>2, <1>7, <1>8
      <4> QED
        BY <4>1, <1>1, <1>9 DEF Nodes
    <3>2. CASE i >= k
      <4>1. i + 1 \in 1..Len(q) /\ r[i] = q[i + 1] /\ i + 1 # k
        BY <3>2, <1>1, <1>2, <1>7, <1>8
      <4> QED
        BY <4>1, <1>1, <1>9 DEF Nodes
    <3> QED
      BY <3>1, <3>2, <1>1, <1>2
  <2>2. ASSUME NEW j \in 1..Len(q), q[j] # n
        PROVE  \E i \in 1..Len(r) : r[i] = q[j]
    <3>1. CASE j < k
      <4>1. j \in 1..Len(r) /\ r[j] = q[j]
        BY <3>1, <1>1, <1>2, <1>7, <1>8
      <4> QED
        BY <4>1
    <3>2. CASE j > k
      <4>1. j - 1 \in 1..Len(r) /\ ~(j - 1 < k) /\ (j - 1) + 1 = j
        BY <3>2, <1>1, <1>2, <1>7
      <4>2. r[j - 1] = q[(j - 1) + 1]
        BY <4>1, <1>8
      <4> QED
        BY <4>1, <4>2
    <3> QED
      BY <3>1, <3>2, <2>2, <1>1, <1>2
  <2>3. Nodes(r) \subseteq Nodes(q) \ {n}
    BY <2>1 DEF Nodes
  <2>4. Nodes(q) \ {n} \subseteq Nodes(r)
    BY <2>2 DEF Nodes
  <2> QED
    BY <2>3, <2>4
<1>11. IsInjective(r)
  <2>1. DOMAIN r = 1..Len(r)
    BY <1>6, LenProperties
  <2>2. ASSUME NEW i \in 1..Len(r), NEW j \in 1..Len(r), r[i] = r[j]
        PROVE  i = j
    <3> DEFINE at(m) == IF m < k THEN m ELSE m + 1
    <3>1. /\ at(i) \in 1..Len(q) /\ r[i] = q[at(i)]
          /\ at(j) \in 1..Len(q) /\ r[j] = q[at(j)]
      BY <1>1, <1>2, <1>7, <1>8
    <3>2. at(i) = at(j)
      BY <3>1, <2>2, <1>9
    <3> QED
      BY <3>2, <1>1, <1>2
  <2> QED
    BY <2>1, <2>2 DEF IsInjective
<1>12. Len(q) # 0
  BY <1>1, <1>2
<1>13. \A i \in 1..(Len(q) - 1) : r[i] = IF i < k THEN q[i] ELSE q[i + 1]
  BY <1>7, <1>8
<1>14. \E j \in 1..Len(q) : q[j] = n /\ \A i \in 1..(Len(q) - 1) :
          r[i] = IF i < j THEN q[i] ELSE q[i + 1]
  BY <1>1, <1>13
<1> QED
  BY <1>2, <1>6, <1>7, <1>10, <1>11, <1>12, <1>14 DEF Lacks, r

(* TAILQ_INSERT_TAIL of a node that is not linked yet.                     *)
LEMMA AppendGains ==
    ASSUME NEW S, NEW q \in Seq(S), IsInjective(q), NEW n \in S, n \notin Nodes(q)
    PROVE  /\ Append(q, n) \in Seq(S)
           /\ Gains(q, n, Append(q, n))
<1> DEFINE r == Append(q, n)
<1>1. Len(q) \in Nat /\ DOMAIN q = 1..Len(q)
  BY LenProperties
<1>2. /\ r \in Seq(S)
      /\ Len(r) = Len(q) + 1
      /\ \A i \in 1..Len(q) : r[i] = q[i]
      /\ r[Len(q) + 1] = n
  BY AppendProperties
<1>3. DOMAIN r = 1..Len(r)
  BY <1>2, LenProperties
<1> HIDE DEF r
<1>4. \A i \in 1..Len(r) : i \in 1..Len(q) \/ i = Len(q) + 1
  BY <1>1, <1>2
<1>5. \A i \in 1..Len(q) : i \in 1..Len(r) /\ q[i] \in Nodes(q)
  BY <1>1, <1>2 DEF Nodes
<1>6. Len(q) + 1 \in 1..Len(r)
  BY <1>1, <1>2
<1>7. Nodes(r) = Nodes(q) \cup {n}
  <2>1. Nodes(r) \subseteq Nodes(q) \cup {n}
    BY <1>2, <1>4, <1>5 DEF Nodes
  <2>2. Nodes(q) \cup {n} \subseteq Nodes(r)
    BY <1>2, <1>5, <1>6 DEF Nodes
  <2> QED
    BY <2>1, <2>2
<1>8. IsInjective(r)
  <2>1. ASSUME NEW i \in 1..Len(r), NEW j \in 1..Len(r), r[i] = r[j]
        PROVE  i = j
    BY <2>1, <1>1, <1>2, <1>4, <1>5 DEF IsInjective
  <2> QED
    BY <2>1, <1>3 DEF IsInjective
<1> QED
  BY <1>1, <1>2, <1>7, <1>8 DEF Gains, r

(* Moving a node to the end changes nothing but the order.                 *)
LEMMA MoveKeeps ==
    ASSUME NEW S, NEW q \in Seq(S), IsInjective(q), NEW n \in Nodes(q)
    PROVE  /\ MoveToTail(q, n) \in Seq(S)
           /\ Len(MoveToTail(q, n)) = Len(q)
           /\ Nodes(MoveToTail(q, n)) = Nodes(q)
           /\ IsInjective(MoveToTail(q, n))
<1> DEFINE rest == Without(q, n)
<1>1. rest \in Seq(S) /\ Lacks(q, n, rest)
  BY WithoutLacks
<1>2. n \in S
  BY ElementOfSeq DEF Nodes
<1>3. n \notin Nodes(rest) /\ IsInjective(rest)
  BY <1>1 DEF Lacks
<1> HIDE DEF rest
<1>4. Append(rest, n) \in Seq(S) /\ Gains(rest, n, Append(rest, n))
  BY <1>1, <1>2, <1>3, AppendGains
<1> QED
  BY <1>1, <1>4 DEF Lacks, Gains, MoveToTail, rest
====
