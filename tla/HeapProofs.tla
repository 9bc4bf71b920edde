----------------------------- MODULE HeapProofs -----------------------------
(***************************************************************************)
(* Proofs about LineQueue, that its invariants hold for any number of      *)
(* lines and of failed allocations and that the linked list is a queue;    *)
(* and about SourceObjects: the queue and the symbol table of a source,    *)
(* from its first line to the end of cleanup, whatever the source declares *)
(* and refers to and whichever allocations fail.                           *)
(***************************************************************************)
EXTENDS SourceObjects, NaturalSets, FiniteSetTheorems, SequenceTheorems

LEMMA AppendAnything ==
  ASSUME NEW S, NEW seq \in Seq(S), NEW e
  PROVE  /\ Len(Append(seq, e)) = Len(seq) + 1 /\ DOMAIN Append(seq, e) = 1 .. Len(seq) + 1
         /\ Append(seq, e)[Len(seq) + 1] = e
         /\ \A k \in 1 .. Len(seq) : Append(seq, e)[k] = seq[k]
OBVIOUS

LEMMA NodesAreCounted == Cardinality(Nodes) \in Nat
BY QueueAssumption, FS_CardinalityType

(* The k-th node of q, NULL past its end. *)
Along(q) == [k \in 0 .. Cardinality(Nodes) |-> IF k < Len(q) THEN q[k + 1] ELSE NULL]

(* What following the pointers finds, when they lead along q. *)
QueueIsFollowed ==
  \A q : TypeOK /\ LeadsAlong(q) =>
    /\ Len(q) <= Cardinality(Nodes) /\ NodeAt = Along(q)
    /\ Chain = 0 .. Len(q) - 1 /\ Cardinality(Chain) = Len(q) /\ QueueNodes = q

(* The nodes of q differ, so there are no more of them than nodes. *)
LEMMA QueueIsShort ==
  ASSUME TypeOK, NEW q, LeadsAlong(q)
  PROVE  Len(q) \in Nat /\ Len(q) <= Cardinality(Nodes)
<1>1. q \in Seq(Nodes) /\ Len(q) \in Nat /\ q \in [1 .. Len(q) -> Nodes]
  BY LenProperties DEF LeadsAlong, TypeOK
<1>2. q \in Injection(1 .. Len(q), Nodes)
  BY <1>1 DEF LeadsAlong, Injection, IsInjective
<1>3. Cardinality(1 .. Len(q)) = Len(q)
  BY <1>1, FS_Interval
<1>4. Cardinality(1 .. Len(q)) <= Cardinality(Nodes)
  BY <1>2, QueueAssumption, FS_Injection
<1> QED BY <1>1, <1>3, <1>4

LEMMA NodesAreFollowed ==
  ASSUME TypeOK, NEW q, LeadsAlong(q)
  PROVE  NodeAt = Along(q)
<1> DEFINE N == Cardinality(Nodes)
           n == Len(q)
           Equation(f) == f = [k \in 0 .. N |->
             IF k = 0 THEN head ELSE IF f[k - 1] = NULL THEN NULL ELSE next[f[k - 1]]]
<1>1. N \in Nat /\ n \in Nat /\ n <= N
  BY QueueIsShort, NodesAreCounted
<1>2. /\ \A i \in 1 .. n : q[i] \in Nodes /\ q[i] # NULL
      /\ \A i \in 1 .. n : next[q[i]] = IF i = n THEN NULL ELSE q[i + 1]
      /\ head = IF n = 0 THEN NULL ELSE q[1]
  <2>1. q \in Seq(Nodes) /\ (q = <<>> <=> n = 0)
    BY EmptySeq DEF LeadsAlong, TypeOK
  <2>2. \A i \in 1 .. n : q[i] \in Nodes
    BY <2>1, ElementOfSeq
  <2> QED BY <2>1, <2>2, QueueAssumption DEF LeadsAlong
<1>3. Along(q) = [k \in 0 .. N |-> IF k < n THEN q[k + 1] ELSE NULL]
  BY DEF Along
<1> HIDE DEF N, n
<1>4. ASSUME NEW k \in 0 .. N
      PROVE  Along(q)[k] = IF k = 0 THEN head
                           ELSE IF Along(q)[k - 1] = NULL THEN NULL ELSE next[Along(q)[k - 1]]
  <2>1. CASE k = 0
    BY <1>1, <1>2, <1>3, <2>1
  <2>2. CASE k # 0 /\ k - 1 < n
    <3>1. k - 1 \in 0 .. N /\ k \in 1 .. n /\ (k - 1) + 1 = k
      BY <1>1, <2>2
    <3>2. Along(q)[k - 1] = q[k] /\ q[k] # NULL
      BY <1>2, <1>3, <2>2, <3>1
    <3>3. Along(q)[k] = IF k = n THEN NULL ELSE q[k + 1]
      BY <1>1, <1>3, <2>2
    <3> QED BY <1>2, <2>2, <3>1, <3>2, <3>3
  <2>3. CASE k # 0 /\ ~ (k - 1 < n)
    <3>1. k - 1 \in 0 .. N /\ ~ (k < n)
      BY <1>1, <2>3
    <3> QED BY <1>3, <2>3, <3>1
  <2> QED BY <1>1, <2>1, <2>2, <2>3
<1>5. Equation(Along(q))
  BY <1>3, <1>4
<1>6. Equation(NodeAt)
  <2> HIDE DEF Equation
  <2>1. NodeAt = CHOOSE f : Equation(f)
    BY DEF NodeAt, Equation, N
  <2> QED BY <1>5, <2>1
<1>7. \A k \in Nat : k \in 0 .. N => NodeAt[k] = Along(q)[k]
  <2> DEFINE T == {k \in Nat : k \in 0 .. N => NodeAt[k] = Along(q)[k]}
  <2>0. \A k \in 0 .. N : NodeAt[k] = IF k = 0 THEN head
                           ELSE IF NodeAt[k - 1] = NULL THEN NULL ELSE next[NodeAt[k - 1]]
    BY <1>6
  <2>1. 0 \in T
    BY <1>1, <1>4, <2>0
  <2>2. ASSUME NEW k \in Nat, k \in T PROVE k + 1 \in T
    <3> SUFFICES ASSUME k + 1 \in 0 .. N PROVE NodeAt[k + 1] = Along(q)[k + 1]
      OBVIOUS
    <3>1. k \in 0 .. N /\ (k + 1) - 1 = k /\ k + 1 # 0
      BY <1>1
    <3>2. NodeAt[k] = Along(q)[k]
      BY <2>2, <3>1
    <3> QED BY <1>4, <2>0, <3>1, <3>2
  <2> HIDE DEF T
  <2>3. \A k \in Nat : k \in T
    BY <2>1, <2>2, EveryNatural
  <2> QED BY <2>3 DEF T
<1>8. DOMAIN NodeAt = 0 .. N /\ NodeAt = [k \in DOMAIN NodeAt |-> NodeAt[k]]
  BY <1>6
<1> QED BY <1>1, <1>3, <1>7, <1>8

LEMMA ChainIsFollowed == QueueIsFollowed
<1> SUFFICES ASSUME NEW q, TypeOK, LeadsAlong(q)
             PROVE  /\ Len(q) <= Cardinality(Nodes) /\ NodeAt = Along(q)
                    /\ Chain = 0 .. Len(q) - 1 /\ Cardinality(Chain) = Len(q) /\ QueueNodes = q
  BY DEF QueueIsFollowed
<1> DEFINE N == Cardinality(Nodes)
           n == Len(q)
<1>1. N \in Nat /\ n \in Nat /\ n <= N
  BY QueueIsShort, NodesAreCounted
<1>2. NodeAt = [k \in 0 .. N |-> IF k < n THEN q[k + 1] ELSE NULL]
  BY NodesAreFollowed DEF Along
<1>3. q \in Seq(Nodes)
  BY DEF LeadsAlong, TypeOK
<1>4. \A i \in 1 .. n : q[i] # NULL
  BY <1>3, ElementOfSeq, QueueAssumption
<1>5. q \in [1 .. n -> Nodes]
  BY <1>3, LenProperties
<1> HIDE DEF N, n
<1>6. ASSUME NEW k \in 0 .. N PROVE NodeAt[k] # NULL <=> k < n
  <2>1. k < n => k + 1 \in 1 .. n
    BY <1>1
  <2> QED BY <1>2, <1>4, <2>1
<1>7. Chain = 0 .. n - 1
  <2>1. Chain = {k \in 0 .. N : NodeAt[k] # NULL}
    BY <1>2 DEF Chain
  <2> QED BY <1>1, <1>6, <2>1
<1>8. Cardinality(Chain) = n
  BY <1>1, <1>7, FS_Interval
<1>9. QueueNodes = q
  <2>1. QueueNodes = [k \in 1 .. n |-> NodeAt[k - 1]]
    BY <1>8 DEF QueueNodes
  <2>2. ASSUME NEW k \in 1 .. n PROVE NodeAt[k - 1] = q[k]
    BY <1>1, <1>2
  <2> QED BY <1>5, <2>1, <2>2
<1> QED BY <1>1, <1>7, <1>8, <1>9, NodesAreFollowed DEF N, n

LEMMA ChainIsFollowedNext == QueueIsFollowed'
BY ChainIsFollowed, PTL
-----------------------------------------------------------------------------
(***************************************************************************)
(* What each operation makes of the nodes q of the queue.                  *)
(***************************************************************************)
LinkedTo(q) == head = NULL \/ tail = q[Len(q)]

Pushed(q, fresh) == IF LinkedTo(q) THEN Append(q, fresh) ELSE q

LEMMA NodesOfQueue ==
  ASSUME NEW q, LeadsAlong(q)
  PROVE  /\ q \in Seq(nodes) /\ Len(q) \in Nat /\ (q = <<>> <=> Len(q) = 0)
         /\ \A i \in 1 .. Len(q) : q[i] \in nodes
         /\ TypeOK => (head = NULL <=> q = <<>>)
<1>1. q \in Seq(nodes) /\ Len(q) \in Nat /\ (q = <<>> <=> Len(q) = 0)
  BY EmptySeq, LenProperties DEF LeadsAlong
<1>2. \A i \in 1 .. Len(q) : q[i] \in nodes
  BY <1>1, ElementOfSeq
<1>3. TypeOK => (head = NULL <=> q = <<>>)
  BY <1>1, <1>2, QueueAssumption DEF LeadsAlong, TypeOK
<1> QED BY <1>1, <1>2, <1>3

(* A line that is new takes a node that is new. *)
LEMMA PushedNodesHoldLines ==
  ASSUME TypeOK, NodesHoldLines, NEW fresh \in Nodes, fresh \notin nodes,
         lines' = lines \cup {created + 1}, LineQueue_push(created + 1, fresh)
  PROVE  NodesHoldLines'
<1>1. nodes' = nodes \cup {fresh}
  BY QueueAssumption DEF LineQueue_push
<1>2. data'[fresh] = created + 1 /\ \A p \in nodes : data'[p] = data[p]
  BY DEF LineQueue_push, TypeOK
<1>3. created + 1 \notin lines
  BY DEF TypeOK
<1> QED BY <1>1, <1>2, <1>3 DEF NodesHoldLines

LEMMA PushedLeadsAlong ==
  ASSUME TypeOK, NEW q, LeadsAlong(q), TailIsApart(q), phase = "first",
         NEW fresh \in Nodes, fresh \notin nodes, LineQueue_push(created + 1, fresh),
         NEW r, r = Pushed(q, fresh)
  PROVE  LeadsAlong(r)' /\ (LinkedTo(r)' <=> LinkedTo(q))
<1> DEFINE n == Len(q)
<1>1. /\ q \in Seq(nodes) /\ n \in Nat /\ (q = <<>> <=> n = 0)
      /\ \A i \in 1 .. n : q[i] \in nodes
      /\ head = NULL <=> q = <<>>
  BY NodesOfQueue
<1>2. /\ nodes' = nodes \cup {fresh} /\ tail' = fresh
      /\ head' = IF head = NULL THEN fresh ELSE head
      /\ next' = [p \in Nodes |-> IF p = tail THEN fresh ELSE IF p = fresh THEN NULL ELSE next[p]]
  BY QueueAssumption DEF LineQueue_push
<1>3. fresh # NULL /\ tail # fresh /\ nodes \subseteq Nodes
  BY QueueAssumption DEF TailIsApart, TypeOK
<1>4. /\ \A i \in 1 .. n : next[q[i]] = IF i = n THEN NULL ELSE q[i + 1]
      /\ \A i, j \in 1 .. n : q[i] = q[j] => i = j
      /\ head = IF n = 0 THEN NULL ELSE q[1]
      /\ \A i \in 1 .. n : q[i] = tail => i = n
      /\ head = NULL => tail = NULL
  BY <1>1 DEF LeadsAlong, TailIsApart
<1>5. CASE LinkedTo(q)
  <2> DEFINE m == Len(r)
  <2>0. r = Append(q, fresh)
    BY <1>5 DEF Pushed
  <2>1. /\ m = n + 1 /\ r[n + 1] = fresh
        /\ \A i \in 1 .. n : r[i] = q[i]
    BY <1>1, <2>0, AppendProperties
  <2>2. r \in Seq(nodes') /\ r # <<>>
    <3>1. q \in Seq(nodes') /\ fresh \in nodes'
      BY <1>1, <1>2, SeqMonotonic
    <3> QED BY <2>0, <3>1, AppendProperties
  <2>3. n > 0 => q[n] = tail
    BY <1>1, <1>5 DEF LinkedTo
  <2> HIDE DEF n, m
  <2>4. head' = r[1]
    BY <1>1, <1>2, <1>4, <2>1
  <2>5. ASSUME NEW i \in 1 .. m PROVE next'[r[i]] = IF i = m THEN NULL ELSE r[i + 1]
    <3>1. CASE i = m
      <4>1. r[i] = fresh
        BY <2>1, <3>1
      <4> QED BY <1>2, <1>3, <3>1, <4>1
    <3>2. CASE i # m
      <4>1. i \in 1 .. n /\ r[i] = q[i] /\ q[i] \in Nodes /\ q[i] # fresh
        BY <1>1, <1>3, <2>1, <3>2
      <4>2. CASE i = n
        BY <1>1, <1>2, <2>1, <2>3, <4>1, <4>2
      <4>3. CASE i # n
        <5>1. i + 1 \in 1 .. n /\ q[i] # tail
          BY <1>1, <1>4, <4>1, <4>3
        <5>2. next'[q[i]] = next[q[i]] /\ next[q[i]] = q[i + 1] /\ r[i + 1] = q[i + 1]
          BY <1>2, <1>4, <2>1, <4>1, <4>3, <5>1
        <5> QED BY <3>2, <4>1, <5>2
      <4> QED BY <4>2, <4>3
    <3> QED BY <3>1, <3>2
  <2>6. ASSUME NEW i \in 1 .. m, NEW j \in 1 .. m, r[i] = r[j] PROVE i = j
    <3>1. \A k \in 1 .. n : r[k] # fresh /\ r[k] = q[k]
      BY <1>1, <2>1
    <3>2. \A k \in 1 .. m : k \in 1 .. n \/ k = m
      BY <1>1, <2>1
    <3>3. CASE i = m \/ j = m
      BY <2>1, <2>6, <3>1, <3>2, <3>3
    <3>4. CASE i \in 1 .. n /\ j \in 1 .. n
      BY <1>4, <2>6, <3>1, <3>4
    <3> QED BY <3>2, <3>3, <3>4
  <2>7. tail' = r[m]
    BY <1>2, <2>1
  <2>8. LeadsAlong(r)'
    BY <2>2, <2>4, <2>5, <2>6 DEF LeadsAlong, m
  <2>9. LinkedTo(r)'
    BY <2>7 DEF LinkedTo, m
  <2> QED BY <1>5, <2>8, <2>9
<1>6. CASE ~ LinkedTo(q)
  <2>0. r = q
    BY <1>6 DEF Pushed
  <2>1. q \in Seq(nodes')
    BY <1>1, <1>2, SeqMonotonic
  <2>2. n # 0 /\ q[n] # tail /\ head # NULL
    BY <1>1, <1>6 DEF LinkedTo
  <2>3. \A i \in 1 .. n : q[i] # tail /\ q[i] # fresh /\ q[i] \in Nodes
    BY <1>1, <1>3, <1>4, <2>2
  <2>4. \A i \in 1 .. n : next'[q[i]] = next[q[i]]
    BY <1>2, <2>3
  <2>5. LeadsAlong(q)'
    BY <1>1, <1>2, <1>4, <2>1, <2>2, <2>4 DEF LeadsAlong
  <2>6. ~ LinkedTo(q)'
    BY <1>1, <1>2, <2>2, <2>3 DEF LinkedTo
  <2> QED BY <1>6, <2>0, <2>5, <2>6
<1> QED BY <1>5, <1>6

LEMMA PushKeepsQueue ==
  ASSUME TypeOK, NEW q, QueueParts(q), phase = "first", faults' = faults,
         lines' = lines \cup {created + 1},
         NEW fresh \in Nodes, fresh \notin nodes, LineQueue_push(created + 1, fresh),
         NEW r, r = Pushed(q, fresh)
  PROVE  QueueParts(r)'
<1> USE DEF QueueParts
<1>1. LeadsAlong(r)' /\ (LinkedTo(r)' <=> LinkedTo(q))
  BY PushedLeadsAlong
<1>2. NodesHoldLines'
  BY PushedNodesHoldLines
<1>3. /\ nodes' = nodes \cup {fresh} /\ tail' = fresh
      /\ head' = IF head = NULL THEN fresh ELSE head
      /\ data'[fresh] = created + 1 /\ \A p \in nodes : data'[p] = data[p]
      /\ fresh # NULL
  BY QueueAssumption DEF LineQueue_push, TypeOK
<1>4. /\ q \in Seq(nodes) /\ Len(q) \in Nat
      /\ \A i \in 1 .. Len(q) : q[i] \in nodes
      /\ head = NULL <=> q = <<>>
  BY NodesOfQueue
<1>5. LinkedTo(q) => /\ Len(r) = Len(q) + 1 /\ r[Len(q) + 1] = fresh
                     /\ \A i \in 1 .. Len(q) : r[i] = q[i]
  BY <1>4, AppendAnything DEF Pushed
<1>6. ~ LinkedTo(q) => r = q
  BY DEF Pushed
<1>7. TailIsApart(r)'
  <2> SUFFICES ASSUME NEW i \in 1 .. Len(r), r[i] = fresh PROVE i = Len(r)
    BY <1>3 DEF TailIsApart
  <2> QED BY <1>4, <1>5, <1>6
<1>8. NothingIsCutOff(r)'
  <2> SUFFICES ASSUME faults = 0
               PROVE  /\ \A p \in nodes' : \E i \in 1 .. Len(r) : r[i] = p
                      /\ \A line \in lines' : \E p \in nodes' : data'[p] = line
    BY DEF NothingIsCutOff
  <2>1. LinkedTo(q)
    <3> SUFFICES ASSUME head # NULL PROVE tail = q[Len(q)]
      BY DEF LinkedTo
    <3>1. tail \in nodes
      BY DEF TailIsApart
    <3>2. PICK i \in 1 .. Len(q) : q[i] = tail
      BY <3>1 DEF NothingIsCutOff
    <3> QED BY <3>2 DEF TailIsApart
  <2>2. ASSUME NEW p \in nodes PROVE \E i \in 1 .. Len(r) : r[i] = p
    <3>1. PICK i \in 1 .. Len(q) : q[i] = p
      BY DEF NothingIsCutOff
    <3>2. i \in 1 .. Len(r) /\ r[i] = p
      BY <1>4, <1>5, <2>1, <3>1
    <3> QED BY <3>2
  <2>3. \E i \in 1 .. Len(r) : r[i] = fresh
    <3>1. Len(q) + 1 \in 1 .. Len(r)
      BY <1>4, <1>5, <2>1
    <3> QED BY <1>5, <2>1, <3>1
  <2>4. \A line \in lines' : \E p \in nodes' : data'[p] = line
    BY <1>3 DEF NothingIsCutOff
  <2> QED BY <1>3, <2>2, <2>3, <2>4
<1> QED BY <1>1, <1>2, <1>7, <1>8

(* Without a node the queue keeps its nodes, and loses its tail. *)
LEMMA FailedPushKeepsQueue ==
  ASSUME TypeOK, NEW q, QueueParts(q), phase = "first", faults' = faults + 1,
         lines' = lines \cup {created + 1}, LineQueue_push(created + 1, NULL)
  PROVE  QueueParts(q)' /\ (LinkedTo(q)' <=> q = <<>>)
<1> USE DEF QueueParts
<1> DEFINE n == Len(q)
<1>1. /\ q \in Seq(nodes) /\ n \in Nat /\ (q = <<>> <=> n = 0)
      /\ \A i \in 1 .. n : q[i] \in nodes
      /\ head = NULL <=> q = <<>>
  BY NodesOfQueue
<1>2. /\ nodes' = nodes /\ tail' = NULL /\ head' = head
      /\ next' = [p \in Nodes |-> IF p = tail THEN NULL ELSE next[p]]
      /\ \A p \in nodes : data'[p] = data[p]
  BY QueueAssumption DEF LineQueue_push, TypeOK
<1>3. LeadsAlong(q)'
  <2>1. ASSUME NEW i \in 1 .. n PROVE next'[q[i]] = next[q[i]]
    <3>1. q[i] \in Nodes /\ (q[i] = tail => next[q[i]] = NULL)
      BY <1>1 DEF LeadsAlong, TailIsApart, TypeOK
    <3> QED BY <1>2, <3>1
  <2> QED BY <1>1, <1>2, <2>1 DEF LeadsAlong
<1>4. NodesHoldLines'
  BY <1>2 DEF NodesHoldLines
<1>5. \A i \in 1 .. n : q[i] # NULL
  BY <1>1, QueueAssumption DEF TypeOK
<1>6. TailIsApart(q)'
  <2>1. faults' # 0
    BY DEF TypeOK
  <2> QED BY <1>2, <1>5, <2>1 DEF TailIsApart
<1>7. NothingIsCutOff(q)'
  <2>1. faults' # 0
    BY DEF TypeOK
  <2> QED BY <2>1 DEF NothingIsCutOff
<1>8. LinkedTo(q)' <=> q = <<>>
  <2>1. n \in 1 .. n \/ n = 0
    BY <1>1
  <2> QED BY <1>1, <1>2, <1>5, <2>1 DEF LinkedTo
<1> QED BY <1>3, <1>4, <1>6, <1>7, <1>8

(* The node at the head leaves the queue, with its line. *)
LEMMA PopKeepsQueue ==
  ASSUME TypeOK, NEW q, QueueParts(q), head # NULL, LineQueue_pop,
         lines' = lines \ {data[head]}, phase' # "first", faults' = 0 => faults = 0
  PROVE  /\ q # <<>> /\ QueueParts(Tail(q))'
         /\ LinkedTo(Tail(q))' <=> LinkedTo(q) \/ Len(q) = 1
<1> USE DEF QueueParts
<1> DEFINE n == Len(q)
<1>1. /\ q \in Seq(nodes) /\ n \in Nat /\ (q = <<>> <=> n = 0)
      /\ \A i \in 1 .. n : q[i] \in nodes
      /\ q # <<>>
  BY NodesOfQueue
<1>2. /\ nodes' = nodes \ {head} /\ head' = next[head]
      /\ next' = next /\ data' = data /\ tail' = tail
  BY DEF LineQueue_pop
<1>3. /\ \A i \in 1 .. n : next[q[i]] = IF i = n THEN NULL ELSE q[i + 1]
      /\ \A i, j \in 1 .. n : q[i] = q[j] => i = j
      /\ head = q[1]
  BY <1>1 DEF LeadsAlong
<1>4. PICK r : r = Tail(q)
  OBVIOUS
<1>5. /\ r \in Seq(nodes) /\ Len(r) = n - 1 /\ r \in [1 .. n - 1 -> nodes]
      /\ \A i \in 1 .. n - 1 : r[i] = q[i + 1]
  <2>1. /\ r \in Seq(nodes) /\ Len(r) = n - 1
        /\ \A i \in 1 .. n - 1 : r[i] = q[i + 1]
    BY <1>1, <1>4, HeadTailProperties
  <2> QED BY <2>1, LenProperties
<1>6. (r = <<>> <=> n = 1)
  BY <1>1, <1>5, EmptySeq
<1> HIDE DEF n
<1>7. \A i \in 1 .. n - 1 : r[i] # head /\ i + 1 \in 1 .. n
  BY <1>1, <1>3, <1>5
<1>8. LeadsAlong(r)'
  <2>1. r \in Seq(nodes')
    <3>1. r \in [1 .. n - 1 -> nodes'] /\ n - 1 \in Nat
      BY <1>1, <1>2, <1>5, <1>7
    <3> QED BY <3>1, SeqDef
  <2>2. head' = IF r = <<>> THEN NULL ELSE r[1]
    BY <1>1, <1>2, <1>3, <1>5, <1>6
  <2>3. ASSUME NEW i \in 1 .. n - 1 PROVE next'[r[i]] = IF i = n - 1 THEN NULL ELSE r[i + 1]
    <3>1. r[i] = q[i + 1] /\ i + 1 \in 1 .. n
      BY <1>5, <1>7
    <3>2. i # n - 1 => r[i + 1] = q[(i + 1) + 1] /\ i + 1 # n
      BY <1>1, <1>5
    <3> QED BY <1>1, <1>2, <1>3, <3>1, <3>2
  <2>4. ASSUME NEW i \in 1 .. n - 1, NEW j \in 1 .. n - 1, r[i] = r[j] PROVE i = j
    BY <1>1, <1>3, <1>5, <1>7, <2>4
  <2> QED BY <1>5, <2>1, <2>2, <2>3, <2>4 DEF LeadsAlong
<1>9. head \in nodes
  BY <1>1, <1>3 DEF n
<1>10. NodesHoldLines'
  BY <1>2, <1>9 DEF NodesHoldLines
<1>11. TailIsApart(r)'
  BY DEF TailIsApart
<1>12. NothingIsCutOff(r)'
  <2> SUFFICES ASSUME faults = 0
               PROVE  /\ \A p \in nodes' : \E i \in 1 .. Len(r) : r[i] = p
                      /\ \A line \in lines' : \E p \in nodes' : data'[p] = line
    BY DEF NothingIsCutOff
  <2>1. ASSUME NEW p \in nodes' PROVE \E i \in 1 .. n - 1 : r[i] = p
    <3>1. PICK i \in 1 .. n : q[i] = p
      BY <1>2 DEF NothingIsCutOff, n
    <3>2. i # 1
      BY <1>2, <1>3, <3>1
    <3>3. i - 1 \in 1 .. n - 1 /\ (i - 1) + 1 = i
      BY <1>1, <3>2
    <3> QED BY <1>5, <3>1, <3>3
  <2>2. \A line \in lines' : \E p \in nodes' : data'[p] = line
    BY <1>2 DEF NothingIsCutOff
  <2> QED BY <1>5, <2>1, <2>2
<1>13. LinkedTo(r)' <=> LinkedTo(q) \/ n = 1
  <2>1. CASE n = 1
    BY <1>2, <1>3, <2>1 DEF LinkedTo
  <2>2. CASE n # 1
    <3>1. n - 1 \in 1 .. n - 1 /\ r[n - 1] = q[n]
      BY <1>1, <1>5, <2>2 DEF n
    <3>2. head' # NULL
      <4>1. head' = r[1] /\ r[1] \in nodes
        BY <1>1, <1>5, <1>6, <1>8, <2>2, <3>1 DEF LeadsAlong
      <4> QED BY <4>1, QueueAssumption DEF TypeOK
    <3> QED BY <1>2, <1>5, <2>2, <3>1, <3>2 DEF LinkedTo, n
  <2> QED BY <2>1, <2>2
<1> QED BY <1>1, <1>4, <1>8, <1>10, <1>11, <1>12, <1>13 DEF n
-----------------------------------------------------------------------------
(***************************************************************************)
(* The invariant, step by step.                                            *)
(***************************************************************************)
NodesAreTheQueue == \A q : TypeOK /\ QueueParts(q) => QueueInvariant /\ QueueNodes = q

LEMMA NodesOfInvariant == NodesAreTheQueue
<1> SUFFICES ASSUME NEW q, TypeOK, QueueParts(q) PROVE QueueInvariant /\ QueueNodes = q
  BY DEF NodesAreTheQueue
<1>1. QueueNodes = q
  BY ChainIsFollowed DEF QueueIsFollowed, QueueParts
<1> QED BY <1>1 DEF QueueInvariant

LEMMA NodesOfInvariantNext == NodesAreTheQueue'
BY NodesOfInvariant, PTL

LEMMA InitTypeOK == Init => TypeOK
BY QueueAssumption DEF Init, TypeOK, Pointers

LEMMA PushTypeOK ==
  ASSUME TypeOK, PushLine
  PROVE  TypeOK'
<1>1. ASSUME NEW fresh \in Nodes \cup {NULL}, LineQueue_push(created + 1, fresh)
      PROVE  /\ nodes' \subseteq Nodes
             /\ next' \in [Nodes -> Pointers] /\ data' \in [Nodes -> Nat]
             /\ head' \in Pointers /\ tail' \in Pointers
  BY <1>1 DEF LineQueue_push, TypeOK, Pointers
<1>2. /\ nodes' \subseteq Nodes
      /\ next' \in [Nodes -> Pointers] /\ data' \in [Nodes -> Nat]
      /\ head' \in Pointers /\ tail' \in Pointers
  BY <1>1 DEF PushLine
<1>3. created' \in 0 .. MaxLines /\ lines' \subseteq 1 .. created' /\ faults' \in Nat
  BY QueueAssumption DEF PushLine, TypeOK
<1> QED BY <1>2, <1>3 DEF PushLine, TypeOK

LEMMA PopTypeOK ==
  ASSUME TypeOK, head # NULL, LineQueue_pop
  PROVE  /\ nodes' \subseteq Nodes
         /\ next' \in [Nodes -> Pointers] /\ data' \in [Nodes -> Nat]
         /\ head' \in Pointers /\ tail' \in Pointers
BY DEF LineQueue_pop, TypeOK, Pointers

LEMMA NextTypeOK == TypeOK /\ [Next]_vars => TypeOK'
<1> SUFFICES ASSUME TypeOK, [Next]_vars PROVE TypeOK'
  OBVIOUS
<1>1. CASE PushLine
  BY <1>1, PushTypeOK
<1>2. CASE DropLine
  <2>1. created' \in 0 .. MaxLines /\ lines' \subseteq 1 .. created' /\ faults' \in Nat
    BY <1>2, QueueAssumption DEF DropLine, TypeOK
  <2> QED BY <1>2, <2>1 DEF DropLine, TypeOK, heapVars
<1>3. CASE EndFirstPass
  BY <1>3 DEF EndFirstPass, TypeOK, heapVars
<1>4. CASE PopLine
  <2>1. phase' \in {"second", "cleanup"} /\ faults' \in Nat
    BY <1>4 DEF PopLine, TypeOK
  <2>2. lines' \subseteq lines /\ created' = created
    BY <1>4 DEF PopLine
  <2>3. /\ nodes' \subseteq Nodes
        /\ next' \in [Nodes -> Pointers] /\ data' \in [Nodes -> Nat]
        /\ head' \in Pointers /\ tail' \in Pointers
    BY <1>4, PopTypeOK DEF PopLine
  <2> QED BY <2>1, <2>2, <2>3 DEF TypeOK
<1>5. CASE EndSecondPass
  BY <1>5 DEF EndSecondPass, TypeOK, heapVars
<1>6. CASE FreeLine
  BY <1>6, PopTypeOK DEF FreeLine, TypeOK
<1>7. CASE FreeQueue
  BY <1>7 DEF FreeQueue, TypeOK, heapVars
<1>8. CASE UNCHANGED vars
  BY <1>8 DEF vars, heapVars, TypeOK
<1> QED BY <1>1, <1>2, <1>3, <1>4, <1>5, <1>6, <1>7, <1>8 DEF Next, Step, Terminated

LEMMA InitQueueInvariant == Init => QueueInvariant
<1> SUFFICES ASSUME Init PROVE QueueInvariant
  OBVIOUS
<1>1. TypeOK
  BY InitTypeOK
<1>2. QueueParts(<<>>)
  BY EmptySeq DEF Init, QueueParts, LeadsAlong, NodesHoldLines, TailIsApart, NothingIsCutOff
<1> QED BY <1>1, <1>2, NodesOfInvariant DEF NodesAreTheQueue

(* When the heap of the queue stays, so do its nodes; failures elsewhere and *)
(* the end of the first pass only weaken what is asked of it.                *)
LEMMA HeapStays ==
  ASSUME TypeOK, NEW q, QueueParts(q), UNCHANGED heapVars, lines \subseteq lines',
         phase' = "first" => phase = "first",
         faults' = 0 => faults = 0 /\ lines' = lines
  PROVE  QueueParts(q)'
BY DEF QueueParts, heapVars, LeadsAlong, NodesHoldLines, TailIsApart, NothingIsCutOff

(* What a step makes of the nodes q of the queue.                            *)
LEMMA StepKeepsQueue ==
  ASSUME TypeOK, NEW q, QueueParts(q), [Next]_vars
  PROVE  \E r : QueueParts(r)'
<1> DEFINE Goal == \E r : QueueParts(r)'
<1>1. CASE PushLine
  <2>1. phase = "first" /\ lines' = lines \cup {created + 1}
    BY <1>1 DEF PushLine
  <2>2. CASE \E fresh \in Nodes \ nodes : LineQueue_push(created + 1, fresh) /\ faults' = faults
    <3>1. PICK fresh \in Nodes \ nodes : LineQueue_push(created + 1, fresh) /\ faults' = faults
      BY <2>2
    <3>2. PICK r : r = Pushed(q, fresh)
      OBVIOUS
    <3> QED BY <2>1, <3>1, <3>2, PushKeepsQueue
  <2>3. CASE faults' = faults + 1 /\ LineQueue_push(created + 1, NULL)
    BY <2>1, <2>3, FailedPushKeepsQueue
  <2> QED BY <1>1, <2>2, <2>3 DEF PushLine
<1>2. CASE DropLine
  <2>1. /\ UNCHANGED heapVars /\ lines \subseteq lines' /\ phase' # "first" /\ faults' # 0
    BY <1>2 DEF DropLine, TypeOK
  <2> QED BY <2>1, HeapStays
<1>3. CASE PopLine
  <2>1. head # NULL /\ LineQueue_pop /\ lines' = lines \ {data[head]}
    BY <1>3 DEF PopLine
  <2>2. phase' # "first" /\ (faults' = 0 => faults = 0)
    BY <1>3 DEF PopLine, TypeOK
  <2> QED BY <2>1, <2>2, PopKeepsQueue
<1>4. CASE FreeLine
  BY <1>4, PopKeepsQueue DEF FreeLine
<1>5. CASE EndFirstPass \/ EndSecondPass \/ FreeQueue \/ UNCHANGED vars
  <2>1. /\ UNCHANGED heapVars /\ lines' = lines /\ faults' = faults
        /\ phase' = "first" => phase = "first"
    BY <1>5 DEF EndFirstPass, EndSecondPass, FreeQueue, vars
  <2> QED BY <2>1, HeapStays
<1> QED BY <1>1, <1>2, <1>3, <1>4, <1>5 DEF Next, Step, Terminated

LEMMA NextQueueInvariant == QueueInvariant /\ [Next]_vars => QueueInvariant'
<1> SUFFICES ASSUME QueueInvariant, [Next]_vars PROVE QueueInvariant'
  OBVIOUS
<1>1. PICK q : q = QueueNodes
  OBVIOUS
<1>2. TypeOK /\ QueueParts(q)
  BY <1>1 DEF QueueInvariant
<1>3. PICK r : QueueParts(r)'
  BY <1>2, StepKeepsQueue
<1>4. TypeOK'
  BY <1>2, NextTypeOK
<1> QED BY <1>3, <1>4, NodesOfInvariantNext DEF NodesAreTheQueue

-----------------------------------------------------------------------------
(***************************************************************************)
(* The invariants that the runs check.                                     *)
(***************************************************************************)
LEMMA QueueIsLive == QueueInvariant => PointersAreLive
<1> SUFFICES ASSUME QueueInvariant PROVE PointersAreLive
  OBVIOUS
<1> DEFINE q == QueueNodes
           n == Len(q)
           N == Cardinality(Nodes)
<1>1. TypeOK /\ QueueParts(q)
  BY DEF QueueInvariant
<1> HIDE DEF q
<1>2. n \in Nat /\ \A i \in 1 .. n : q[i] \in nodes
  BY <1>1, NodesOfQueue DEF QueueParts
<1>3. /\ N \in Nat /\ n <= N /\ Chain = 0 .. n - 1
      /\ NodeAt = [k \in 0 .. N |-> IF k < n THEN q[k + 1] ELSE NULL]
  BY <1>1, ChainIsFollowed, NodesAreCounted DEF QueueIsFollowed, QueueParts, Along
<1> HIDE DEF n, N
<1>4. ASSUME NEW k \in Chain PROVE k + 1 \in 1 .. n /\ NodeAt[k] = q[k + 1] /\ NodeAt[k] \in nodes
  BY <1>2, <1>3
<1>5. NodeAt[N] = NULL
  BY <1>2, <1>3
<1>6. phase = "first" => tail \in nodes \cup {NULL}
  BY <1>1 DEF QueueParts, TailIsApart
<1>7. {data[NodeAt[k]] : k \in Chain} \subseteq lines
  BY <1>1, <1>4 DEF QueueParts, NodesHoldLines
<1>8. ASSUME NEW j \in Chain, NEW k \in Chain, data[NodeAt[j]] = data[NodeAt[k]] PROVE j = k
  <2>1. NodeAt[j] = NodeAt[k]
    BY <1>1, <1>4, <1>8 DEF QueueParts, NodesHoldLines
  <2>2. j + 1 = k + 1
    BY <1>1, <1>4, <2>1 DEF QueueParts, LeadsAlong, n
  <2> QED BY <1>3, <2>2
<1> QED BY <1>4, <1>5, <1>6, <1>7, <1>8 DEF PointersAreLive, N

(* A queue that is freed is empty. *)
DoneIsEmpty == phase = "done" => head = NULL

LEMMA DoneIsEmptyHolds ==
  /\ Init => DoneIsEmpty
  /\ DoneIsEmpty /\ [Next]_vars => DoneIsEmpty'
<1>1. Init => DoneIsEmpty
  BY DEF Init, DoneIsEmpty
<1>2. DoneIsEmpty /\ [Next]_vars => DoneIsEmpty'
  BY DEF DoneIsEmpty, Next, Step, Terminated, vars, heapVars,
         PushLine, DropLine, EndFirstPass, PopLine, EndSecondPass, FreeLine, FreeQueue
<1> QED BY <1>1, <1>2

LEMMA NodesAreNoMoreThanLines ==
  ASSUME QueueInvariant
  PROVE  Cardinality(nodes) <= Cardinality(lines)
<1> DEFINE held == [p \in nodes |-> data[p]]
<1>1. TypeOK /\ NodesHoldLines
  BY DEF QueueInvariant, QueueParts
<1>2. held \in Injection(nodes, lines)
  BY <1>1 DEF NodesHoldLines, Injection, IsInjective
<1>3. IsFiniteSet(lines)
  <2>1. created \in Int /\ lines \subseteq 1 .. created
    BY <1>1 DEF TypeOK
  <2>2. IsFiniteSet(1 .. created)
    BY <2>1, FS_Interval
  <2> QED BY <2>1, <2>2, FS_Subset
<1> HIDE DEF held
<1> QED BY <1>2, <1>3, FS_Injection

LEMMA QueueIsFreed == QueueInvariant /\ DoneIsEmpty => EverythingIsFreed
<1> SUFFICES ASSUME QueueInvariant, DoneIsEmpty, phase = "done"
             PROVE  /\ faults = 0 => lines = {} /\ nodes = {}
                    /\ 1 \in lines => faults > 0
                    /\ Cardinality(nodes) <= Cardinality(lines)
  BY DEF EverythingIsFreed
<1> DEFINE q == QueueNodes
<1>1. TypeOK /\ QueueParts(q)
  BY DEF QueueInvariant
<1> HIDE DEF q
<1>2. head = NULL
  BY DEF DoneIsEmpty
<1>3. Len(q) = 0
  BY <1>1, <1>2, NodesOfQueue DEF QueueParts
<1>4. faults = 0 => lines = {} /\ nodes = {}
  BY <1>1, <1>3 DEF QueueParts, NothingIsCutOff
<1>5. faults \in Nat
  BY <1>1 DEF TypeOK
<1> QED BY <1>4, <1>5, NodesAreNoMoreThanLines

LEMMA SpecQueue == Spec => [](QueueInvariant /\ DoneIsEmpty)
<1>1. Init => QueueInvariant /\ DoneIsEmpty
  BY InitQueueInvariant, DoneIsEmptyHolds
<1>2. QueueInvariant /\ DoneIsEmpty /\ [Next]_vars => (QueueInvariant /\ DoneIsEmpty)'
  BY NextQueueInvariant, DoneIsEmptyHolds
<1> QED BY <1>1, <1>2, PTL DEF Spec

-----------------------------------------------------------------------------
(***************************************************************************)
(* The linked list is a queue.                                             *)
(***************************************************************************)
LinesOf(q) == [k \in 1 .. Len(q) |-> data[q[k]]]

ContentIsTheLines ==
  \A q : TypeOK /\ QueueParts(q) => Content = LinesOf(q) /\ (Linked <=> LinkedTo(q))

LEMMA ContentOfInvariant == ContentIsTheLines
<1> SUFFICES ASSUME NEW q, TypeOK, QueueParts(q)
             PROVE  Content = LinesOf(q) /\ (Linked <=> LinkedTo(q))
  BY DEF ContentIsTheLines
<1> DEFINE n == Len(q)
           N == Cardinality(Nodes)
<1>1. n \in Nat /\ \A i \in 1 .. n : q[i] \in nodes
  BY NodesOfQueue DEF QueueParts
<1>2. /\ N \in Nat /\ n <= N /\ Cardinality(Chain) = n
      /\ NodeAt = [k \in 0 .. N |-> IF k < n THEN q[k + 1] ELSE NULL]
  BY ChainIsFollowed, NodesAreCounted DEF QueueIsFollowed, QueueParts, Along
<1>3. head = NULL <=> n = 0
  BY NodesOfQueue DEF QueueParts
<1> HIDE DEF n, N
<1>4. ASSUME NEW k \in 1 .. n PROVE NodeAt[k - 1] = q[k]
  BY <1>1, <1>2
<1>5. Content = LinesOf(q)
  BY <1>2, <1>4 DEF Content, LinesOf, n
<1>6. Linked <=> LinkedTo(q)
  <2>1. CASE n = 0
    BY <1>3, <2>1 DEF Linked, LinkedTo
  <2>2. CASE n # 0
    <3>1. NodeAt[n - 1] = q[n]
      BY <1>1, <1>4, <2>2
    <3> QED BY <1>2, <3>1 DEF Linked, LinkedTo, n
  <2> QED BY <2>1, <2>2
<1> QED BY <1>5, <1>6

LEMMA ContentOfInvariantNext == ContentIsTheLines'
BY ContentOfInvariant, PTL

(* What a step does to the queue that the nodes stand for.                   *)
FifoStep ==
  \/ \E failed \in SUBSET {"queue_node"} : Fifo!push(created + 1, failed)
  \/ Content # <<>> /\ Fifo!pop

LEMMA PushIsFifo ==
  ASSUME TypeOK, TypeOK', NEW q, QueueParts(q), phase = "first", faults' = faults,
         lines' = lines \cup {created + 1},
         NEW fresh \in Nodes, fresh \notin nodes, LineQueue_push(created + 1, fresh)
  PROVE  Fifo!push(created + 1, {})
<1>1. PICK r : r = Pushed(q, fresh)
  OBVIOUS
<1>2. QueueParts(r)' /\ (LinkedTo(r)' <=> LinkedTo(q))
  BY <1>1, PushKeepsQueue, PushedLeadsAlong DEF QueueParts
<1>3. /\ Content = LinesOf(q) /\ (Linked <=> LinkedTo(q))
      /\ Content' = LinesOf(r)' /\ (Linked' <=> LinkedTo(r)')
  BY <1>2, ContentOfInvariant, ContentOfInvariantNext DEF ContentIsTheLines
<1>4. /\ q \in Seq(nodes) /\ Len(q) \in Nat
      /\ \A i \in 1 .. Len(q) : q[i] \in nodes
  BY NodesOfQueue DEF QueueParts
<1>5. data'[fresh] = created + 1 /\ \A p \in nodes : data'[p] = data[p] /\ data[p] \in Nat
  BY DEF LineQueue_push, TypeOK
<1>6. LinesOf(q) \in Seq(Nat) /\ Len(LinesOf(q)) = Len(q)
  <2>1. LinesOf(q) \in [1 .. Len(q) -> Nat]
    BY <1>4, <1>5 DEF LinesOf
  <2> QED BY <1>4, <2>1, SeqDef, LenProperties
<1>7. Content' = IF Linked THEN Append(Content, created + 1) ELSE Content
  <2>1. CASE LinkedTo(q)
    <3> DEFINE n == Len(q)
               new == [k \in 1 .. Len(r) |-> data'[r[k]]]
               longer == Append(LinesOf(q), created + 1)
    <3>1. Len(r) = n + 1 /\ r[n + 1] = fresh /\ \A i \in 1 .. n : r[i] = q[i]
      BY <1>1, <1>4, <2>1, AppendAnything DEF Pushed
    <3>2. longer = [k \in 1 .. n + 1 |-> longer[k]]
      BY <1>6, AppendAnything
    <3>3. longer[n + 1] = created + 1 /\ \A k \in 1 .. n : longer[k] = data[q[k]]
      BY <1>6, AppendAnything DEF LinesOf
    <3>4. n \in Nat /\ \A i \in 1 .. n : q[i] \in nodes
      BY <1>4
    <3>5. LinesOf(r)' = new
      BY DEF LinesOf
    <3> HIDE DEF longer, n
    <3>6. ASSUME NEW k \in 1 .. n + 1 PROVE data'[r[k]] = longer[k]
      BY <1>5, <3>1, <3>3, <3>4
    <3>7. new = longer
      BY <3>1, <3>2, <3>6
    <3> QED BY <1>3, <2>1, <3>5, <3>7 DEF longer
  <2>2. CASE ~ LinkedTo(q)
    <3>1. r = q
      BY <1>1, <2>2 DEF Pushed
    <3>2. LinesOf(r)' = LinesOf(q)
      BY <1>4, <1>5, <3>1 DEF LinesOf
    <3> QED BY <1>3, <2>2, <3>2
  <2> QED BY <2>1, <2>2
<1>8. Linked' = Linked
  BY <1>2, <1>3 DEF Linked
<1> QED BY <1>7, <1>8 DEF Fifo!push

LEMMA FailedPushIsFifo ==
  ASSUME TypeOK, TypeOK', NEW q, QueueParts(q), phase = "first", faults' = faults + 1,
         lines' = lines \cup {created + 1}, LineQueue_push(created + 1, NULL)
  PROVE  Fifo!push(created + 1, {"queue_node"})
<1>1. QueueParts(q)' /\ (LinkedTo(q)' <=> q = <<>>)
  BY FailedPushKeepsQueue
<1>2. /\ Content = LinesOf(q) /\ Content' = LinesOf(q)' /\ (Linked' <=> LinkedTo(q)')
  BY <1>1, ContentOfInvariant, ContentOfInvariantNext DEF ContentIsTheLines
<1>3. /\ Len(q) \in Nat /\ (q = <<>> <=> Len(q) = 0)
      /\ \A i \in 1 .. Len(q) : q[i] \in nodes
  BY NodesOfQueue DEF QueueParts
<1>4. \A p \in nodes : data'[p] = data[p]
  BY QueueAssumption DEF LineQueue_push, TypeOK
<1>5. LinesOf(q)' = LinesOf(q)
  BY <1>3, <1>4 DEF LinesOf
<1>6. q = <<>> <=> Content = <<>>
  <2>1. DOMAIN LinesOf(q) = 1 .. Len(q)
    BY DEF LinesOf
  <2>2. LinesOf(q) = <<>> <=> Len(q) = 0
    BY <1>3, <2>1 DEF LinesOf
  <2> QED BY <1>2, <1>3, <2>2
<1>7. Linked' = (Content = <<>>)
  BY <1>1, <1>2, <1>6 DEF Linked
<1> QED BY <1>2, <1>5, <1>7 DEF Fifo!push

LEMMA PopIsFifo ==
  ASSUME TypeOK, TypeOK', NEW q, QueueParts(q), head # NULL, LineQueue_pop,
         lines' = lines \ {data[head]}, phase' # "first", faults' = 0 => faults = 0
  PROVE  Content # <<>> /\ Fifo!pop
<1> DEFINE n == Len(q)
<1>1. /\ q # <<>> /\ QueueParts(Tail(q))'
      /\ LinkedTo(Tail(q))' <=> LinkedTo(q) \/ n = 1
  BY PopKeepsQueue
<1>2. PICK r : r = Tail(q)
  OBVIOUS
<1>3. /\ Content = LinesOf(q) /\ (Linked <=> LinkedTo(q))
      /\ Content' = LinesOf(r)' /\ (Linked' <=> LinkedTo(r)')
  BY <1>1, <1>2, ContentOfInvariant, ContentOfInvariantNext DEF ContentIsTheLines
<1>4. /\ q \in Seq(nodes) /\ n \in Nat /\ n # 0
      /\ \A i \in 1 .. n : q[i] \in nodes
  BY <1>1, NodesOfQueue DEF QueueParts
<1>5. Len(r) = n - 1 /\ \A i \in 1 .. n - 1 : r[i] = q[i + 1]
  BY <1>1, <1>2, <1>4, HeadTailProperties
<1>6. data' = data
  BY DEF LineQueue_pop
<1>7. LinesOf(q) \in [1 .. n -> Nat] /\ LinesOf(q) \in Seq(Nat) /\ Len(LinesOf(q)) = n
  <2>1. LinesOf(q) \in [1 .. Len(q) -> Nat]
    BY <1>4 DEF LinesOf, TypeOK
  <2> QED BY <1>4, <2>1, SeqDef, LenProperties
<1>8. LinesOf(q) # <<>>
  BY <1>4, <1>7, EmptySeq
<1>9. LinesOf(r)' = Tail(LinesOf(q))
  <2> DEFINE t == Tail(LinesOf(q))
             new == [k \in 1 .. Len(r) |-> data'[r[k]]]
  <2>1. /\ t \in Seq(Nat) /\ Len(t) = n - 1
        /\ \A i \in 1 .. n - 1 : t[i] = LinesOf(q)[i + 1]
    BY <1>7, <1>8, HeadTailProperties
  <2>2. t \in [1 .. n - 1 -> Nat]
    BY <2>1, LenProperties
  <2>3. \A i \in 1 .. n : LinesOf(q)[i] = data[q[i]]
    BY DEF LinesOf
  <2>4. LinesOf(r)' = new
    BY DEF LinesOf
  <2> HIDE DEF t, n
  <2>5. ASSUME NEW k \in 1 .. n - 1 PROVE data'[r[k]] = t[k]
    <3>1. k + 1 \in 1 .. n
      BY <1>4
    <3> QED BY <1>5, <1>6, <2>1, <2>3, <3>1
  <2>6. new = t
    BY <1>5, <2>2, <2>5
  <2> QED BY <2>4, <2>6 DEF t
<1>10. Linked' = (Linked \/ Len(Content) = 1)
  BY <1>1, <1>2, <1>3, <1>7 DEF Linked
<1> QED BY <1>3, <1>8, <1>9, <1>10 DEF Fifo!pop

LEMMA HeapStaysIsFifo ==
  ASSUME UNCHANGED heapVars
  PROVE  UNCHANGED <<Content, Linked>>
<1>1. NodeAt' = NodeAt
  BY DEF NodeAt, heapVars
<1>2. Chain' = Chain
  BY <1>1 DEF Chain
<1>3. Content' = Content
  BY <1>1, <1>2 DEF Content, heapVars
<1>4. Linked' = Linked
  BY <1>1, <1>2 DEF Linked, heapVars
<1> QED BY <1>3, <1>4

LEMMA NextIsFifo == QueueInvariant /\ [Next]_vars => [FifoStep]_<<Content, Linked>>
<1> SUFFICES ASSUME QueueInvariant, [Next]_vars PROVE [FifoStep]_<<Content, Linked>>
  OBVIOUS
<1>1. PICK q : q = QueueNodes
  OBVIOUS
<1>2. TypeOK /\ QueueParts(q) /\ TypeOK'
  BY <1>1, NextTypeOK DEF QueueInvariant
<1>3. CASE PushLine
  <2>1. phase = "first" /\ lines' = lines \cup {created + 1}
    BY <1>3 DEF PushLine
  <2>2. CASE \E fresh \in Nodes \ nodes : LineQueue_push(created + 1, fresh) /\ faults' = faults
    BY <1>2, <2>1, <2>2, PushIsFifo DEF FifoStep
  <2>3. CASE faults' = faults + 1 /\ LineQueue_push(created + 1, NULL)
    BY <1>2, <2>1, <2>3, FailedPushIsFifo DEF FifoStep
  <2> QED BY <1>3, <2>2, <2>3 DEF PushLine
<1>4. CASE PopLine
  <2>1. head # NULL /\ LineQueue_pop /\ lines' = lines \ {data[head]}
    BY <1>4 DEF PopLine
  <2>2. phase' # "first" /\ (faults' = 0 => faults = 0)
    BY <1>2, <1>4 DEF PopLine, TypeOK
  <2> QED BY <1>2, <2>1, <2>2, PopIsFifo DEF FifoStep
<1>5. CASE FreeLine
  BY <1>2, <1>5, PopIsFifo DEF FreeLine, FifoStep
<1>6. CASE DropLine \/ EndFirstPass \/ EndSecondPass \/ FreeQueue \/ UNCHANGED vars
  <2>1. UNCHANGED heapVars
    BY <1>6 DEF DropLine, EndFirstPass, EndSecondPass, FreeQueue, vars
  <2> QED BY <2>1, HeapStaysIsFifo
<1> QED BY <1>3, <1>4, <1>5, <1>6 DEF Next, Step, Terminated

LEMMA InitIsFifo == Init => Fifo!newLineQueue
<1> SUFFICES ASSUME Init PROVE Content = <<>> /\ Linked = TRUE
  BY DEF Fifo!newLineQueue
<1>1. TypeOK
  BY InitTypeOK
<1>2. QueueParts(<<>>)
  BY EmptySeq DEF Init, QueueParts, LeadsAlong, NodesHoldLines, TailIsApart, NothingIsCutOff
<1>3. Content = LinesOf(<<>>)
  BY <1>1, <1>2, ContentOfInvariant DEF ContentIsTheLines
<1>4. LinesOf(<<>>) = <<>>
  BY EmptySeq DEF LinesOf
<1>5. Linked = TRUE
  BY DEF Linked, Init
<1> QED BY <1>3, <1>4, <1>5

-----------------------------------------------------------------------------
(* The variables of the queue keep their types.                              *)
THEOREM QueueTypes == Spec => []TypeOK
<1>1. QueueInvariant => TypeOK
  BY DEF QueueInvariant
<1> QED BY <1>1, SpecQueue, PTL

(* Whatever is pushed and popped, and wherever a list node could not be      *)
(* allocated, line_queue.c follows no pointer to what was freed, and the     *)
(* lines it still holds are allocated and differ.                            *)
THEOREM QueuePointersAreLive == Spec => []PointersAreLive
BY QueueIsLive, SpecQueue, PTL

(* LineQueue_free leaves no line and no node behind when every allocation    *)
(* succeeded, and no more nodes than lines when one failed.                  *)
THEOREM QueueIsReleased == Spec => []EverythingIsFreed
BY QueueIsFreed, SpecQueue, PTL

(* The list of nodes implements LineFifo: what is pushed is popped in order, *)
(* up to the first push that had no node.                                    *)
THEOREM QueueImplementsFifo == Spec => ImplementsFifo
<1>1. QueueInvariant /\ [Next]_vars => [FifoStep]_<<Content, Linked>>
  BY NextIsFifo
<1>2. Init => Fifo!newLineQueue
  BY InitIsFifo
<1>3. Spec => [][FifoStep]_<<Content, Linked>>
  BY <1>1, SpecQueue, PTL DEF Spec
<1>4. Spec => Init
  BY PTL DEF Spec
<1> QED BY <1>2, <1>3, <1>4, PTL DEF ImplementsFifo, FifoStep

-----------------------------------------------------------------------------
LEMMA MemberNames ==
  Members = {"symbol", "value", "is_entry", "is_external", "section",
             "dependent_offsets", "dependent_offsets_count"}
BY DEF Members, newSymbol

-----------------------------------------------------------------------------
(***************************************************************************)
(* What an iterator returns.                                               *)
(***************************************************************************)
Iterated(m, u) == [k \in 0 .. Len(fields) |-> IF k < m THEN u[m - k] ELSE None]

ListIsFollowed ==
  \A m, u : /\ SymbolTypeOK /\ release = "held"
            /\ m \in 0 .. Len(fields) /\ ListedInOrder(m, u)
            => /\ SymbolAt = Iterated(m, u)
               /\ Reached = 0 .. m - 1 /\ Cardinality(Reached) = m
               /\ Symbols = [i \in 1 .. m |-> Meaning(u[i])]

LEMMA SymbolsAreFollowed ==
  ASSUME SymbolTypeOK, release = "held",
         NEW m \in 0 .. Len(fields), NEW u, ListedInOrder(m, u)
  PROVE  SymbolAt = Iterated(m, u)
<1> DEFINE N == Len(fields)
           Equation(f) == f = [k \in 0 .. N |->
             IF k = 0 THEN first ELSE IF f[k - 1] = None THEN None ELSE following[f[k - 1]]]
<1>1. N \in Nat /\ m \in Nat /\ m <= N
  BY DEF SymbolTypeOK
<1>2. /\ \A i \in 1 .. m : u[i] # None
      /\ \A i \in 1 .. m : following[u[i]] = IF i = 1 THEN None ELSE u[i - 1]
      /\ first = IF m = 0 THEN None ELSE u[m]
  BY DEF ListedInOrder, Newest, SymbolTypeOK, Addresses, None
<1>3. Iterated(m, u) = [k \in 0 .. N |-> IF k < m THEN u[m - k] ELSE None]
  BY DEF Iterated
<1> HIDE DEF N
<1>4. ASSUME NEW k \in 0 .. N
      PROVE  Iterated(m, u)[k] = IF k = 0 THEN first
                                 ELSE IF Iterated(m, u)[k - 1] = None THEN None
                                 ELSE following[Iterated(m, u)[k - 1]]
  <2>1. CASE k = 0
    BY <1>1, <1>2, <1>3, <2>1
  <2>2. CASE k # 0 /\ k - 1 < m
    <3> DEFINE i == m - (k - 1)
    <3>1. k - 1 \in 0 .. N /\ i \in 1 .. m /\ i - 1 = m - k
      BY <1>1, <2>2
    <3>2. Iterated(m, u)[k - 1] = u[i]
      BY <1>3, <2>2, <3>1
    <3>3. Iterated(m, u)[k] = IF i = 1 THEN None ELSE u[i - 1]
      <4>1. k < m <=> i # 1
        BY <1>1, <2>2
      <4> HIDE DEF i
      <4> QED BY <1>3, <3>1, <4>1
    <3> HIDE DEF i
    <3> QED BY <1>2, <2>2, <3>1, <3>2, <3>3
  <2>3. CASE k # 0 /\ ~ (k - 1 < m)
    <3>1. k - 1 \in 0 .. N /\ ~ (k < m)
      BY <1>1, <2>3
    <3> QED BY <1>3, <2>3, <3>1
  <2> QED BY <1>1, <2>1, <2>2, <2>3
<1>5. Equation(Iterated(m, u))
  BY <1>3, <1>4
<1>6. Equation(SymbolAt)
  <2> HIDE DEF Equation
  <2>1. SymbolAt = CHOOSE f : Equation(f)
    BY DEF SymbolAt, Equation, N
  <2> QED BY <1>5, <2>1
<1>7. \A k \in Nat : k \in 0 .. N => SymbolAt[k] = Iterated(m, u)[k]
  <2> DEFINE T == {k \in Nat : k \in 0 .. N => SymbolAt[k] = Iterated(m, u)[k]}
  <2>0. \A k \in 0 .. N : SymbolAt[k] = IF k = 0 THEN first
                           ELSE IF SymbolAt[k - 1] = None THEN None ELSE following[SymbolAt[k - 1]]
    BY <1>6
  <2>1. 0 \in T
    BY <1>1, <1>4, <2>0
  <2>2. ASSUME NEW k \in Nat, k \in T PROVE k + 1 \in T
    <3> SUFFICES ASSUME k + 1 \in 0 .. N PROVE SymbolAt[k + 1] = Iterated(m, u)[k + 1]
      OBVIOUS
    <3>1. k \in 0 .. N /\ (k + 1) - 1 = k /\ k + 1 # 0
      BY <1>1
    <3>2. SymbolAt[k] = Iterated(m, u)[k]
      BY <2>2, <3>1
    <3> QED BY <1>4, <2>0, <3>1, <3>2
  <2> HIDE DEF T
  <2>3. \A k \in Nat : k \in T
    BY <2>1, <2>2, EveryNatural
  <2> QED BY <2>3 DEF T
<1>8. DOMAIN SymbolAt = 0 .. N /\ SymbolAt = [k \in DOMAIN SymbolAt |-> SymbolAt[k]]
  BY <1>6
<1> QED BY <1>1, <1>3, <1>7, <1>8

LEMMA FollowedList == ListIsFollowed
<1> SUFFICES ASSUME SymbolTypeOK, release = "held",
                    NEW m \in 0 .. Len(fields), NEW u, ListedInOrder(m, u)
             PROVE  /\ SymbolAt = Iterated(m, u)
                    /\ Reached = 0 .. m - 1 /\ Cardinality(Reached) = m
                    /\ Symbols = [i \in 1 .. m |-> Meaning(u[i])]
  BY DEF ListIsFollowed
<1> DEFINE N == Len(fields)
<1>1. N \in Nat /\ m \in Nat /\ m <= N
  BY DEF SymbolTypeOK
<1>2. SymbolAt = [k \in 0 .. N |-> IF k < m THEN u[m - k] ELSE None]
  BY SymbolsAreFollowed DEF Iterated
<1>3. \A i \in 1 .. m : u[i] # None
  BY DEF ListedInOrder, SymbolTypeOK, Addresses, None
<1> HIDE DEF N
<1>4. ASSUME NEW k \in 0 .. N PROVE SymbolAt[k] # None <=> k < m
  <2>1. k < m => m - k \in 1 .. m
    BY <1>1
  <2> QED BY <1>2, <1>3, <2>1
<1>5. Reached = 0 .. m - 1
  <2>1. Reached = {k \in 0 .. N : SymbolAt[k] # None}
    BY <1>2 DEF Reached
  <2> QED BY <1>1, <1>4, <2>1
<1>6. Cardinality(Reached) = m
  BY <1>1, <1>5, FS_Interval
<1>7. ASSUME NEW i \in 1 .. m PROVE SymbolAt[m - i] = u[i]
  <2>1. m - i \in 0 .. N /\ m - i < m /\ m - (m - i) = i
    BY <1>1
  <2> QED BY <1>2, <2>1
<1>8. Symbols = [i \in 1 .. m |-> Meaning(u[i])]
  <2>1. Symbols = [i \in 1 .. m |-> Meaning(SymbolAt[m - i])]
    BY <1>6 DEF Symbols
  <2> HIDE DEF Meaning
  <2> QED BY <1>7, <2>1
<1> QED BY <1>5, <1>6, <1>8, SymbolsAreFollowed

LEMMA FollowedListNext == ListIsFollowed'
BY FollowedList, PTL

(* SymbolTable_find returns the newest symbol of that name. *)
LEMMA FindIsNewest ==
  ASSUME SymbolTypeOK, release = "held",
         NEW m \in 0 .. Len(fields), NEW u, ListedInOrder(m, u), NEW name
  PROVE  \/ find(name) = None /\ \A i \in 1 .. m : fields[u[i]].symbol # name
         \/ \E i \in 1 .. m : /\ find(name) = u[i] /\ fields[u[i]].symbol = name
                              /\ \A j \in 1 .. m : j > i => fields[u[j]].symbol # name
<1> DEFINE N == Len(fields)
           hits == {k \in DOMAIN SymbolAt : SymbolAt[k] # None /\ fields[SymbolAt[k]].symbol = name}
           Is(k) == fields[SymbolAt[k]].symbol = name
<1>1. N \in Nat /\ m \in Nat /\ m <= N
  BY DEF SymbolTypeOK
<1>2. SymbolAt = [k \in 0 .. N |-> IF k < m THEN u[m - k] ELSE None]
  BY SymbolsAreFollowed DEF Iterated
<1>3. \A i \in 1 .. m : u[i] # None
  BY DEF ListedInOrder, SymbolTypeOK, Addresses, None
<1>4. find(name) = IF hits = {} THEN None ELSE SymbolAt[Min(hits)]
  BY DEF find
<1> HIDE DEF N
<1>5. ASSUME NEW k \in 0 .. m - 1
      PROVE  m - k \in 1 .. m /\ k \in 0 .. N /\ SymbolAt[k] = u[m - k]
  BY <1>1, <1>2
<1>6. \A k : k \in hits <=> k \in 0 .. m - 1 /\ fields[u[m - k]].symbol = name
  <2>1. \A k \in 0 .. N : SymbolAt[k] # None <=> k < m
    BY <1>1, <1>2, <1>3, <1>5
  <2>2. \A k : k \in hits <=> k \in 0 .. N /\ k < m /\ Is(k)
    BY <1>2, <2>1
  <2>3. \A k : k \in 0 .. N /\ k < m <=> k \in 0 .. m - 1
    BY <1>1
  <2>4. \A k \in 0 .. m - 1 : Is(k) <=> fields[u[m - k]].symbol = name
    BY <1>5
  <2> HIDE DEF hits, Is
  <2> QED BY <2>2, <2>3, <2>4
<1> HIDE DEF hits
<1>7. CASE hits = {}
  <2>1. ASSUME NEW i \in 1 .. m PROVE fields[u[i]].symbol # name
    <3>1. m - i \in 0 .. m - 1 /\ m - (m - i) = i
      BY <1>1
    <3> QED BY <1>6, <1>7, <3>1
  <2> QED BY <1>4, <1>7, <2>1
<1>8. CASE hits # {}
  <2> DEFINE k == Min(hits)
             i == m - k
  <2>1. hits \in SUBSET Nat
    BY <1>1, <1>6
  <2>2. k \in hits /\ \A l \in hits : k <= l
    <3>1. \E x \in hits : \A y \in hits : x <= y
      BY <1>8, <2>1, LeastNatural
    <3> QED BY <3>1 DEF Min
  <2> HIDE DEF k
  <2>3. k \in 0 .. m - 1 /\ i \in 1 .. m /\ fields[u[i]].symbol = name
    BY <1>1, <1>6, <2>2
  <2>4. find(name) = u[i]
    BY <1>4, <1>5, <1>8, <2>3 DEF k
  <2>5. ASSUME NEW j \in 1 .. m, j > i PROVE fields[u[j]].symbol # name
    <3>1. m - j \in 0 .. m - 1 /\ m - (m - j) = j /\ ~ (k <= m - j)
      BY <1>1, <2>3, <2>5
    <3>2. m - j \notin hits
      BY <2>2, <3>1
    <3> QED BY <1>6, <3>1, <3>2
  <2> QED BY <2>3, <2>4, <2>5
<1> QED BY <1>7, <1>8

LEMMA FoundIsListed ==
  ASSUME SymbolTypeOK, release = "held",
         NEW m \in 0 .. Len(fields), NEW u, ListedInOrder(m, u), NEW name
  PROVE  find(name) \in listed \cup {None}
<1>1. \A i \in 1 .. m : u[i] \in listed
  BY DEF ListedInOrder
<1> QED BY <1>1, FindIsNewest

(* The range of the iterator is what is listed. *)
LEMMA RangeIsListed ==
  ASSUME SymbolTypeOK, release = "held",
         NEW m \in 0 .. Len(fields), NEW u, ListedInOrder(m, u)
  PROVE  \A sym \in Addresses : sym \in Range(SymbolAt) <=> sym \in listed
<1> DEFINE N == Len(fields)
<1>1. N \in Nat /\ m \in Nat /\ m <= N
  BY DEF SymbolTypeOK
<1>2. SymbolAt = [k \in 0 .. N |-> IF k < m THEN u[m - k] ELSE None]
  BY SymbolsAreFollowed DEF Iterated
<1> HIDE DEF N
<1>3. ASSUME NEW sym \in Addresses, sym \in Range(SymbolAt) PROVE sym \in listed
  <2>1. PICK k \in 0 .. N : SymbolAt[k] = sym
    BY <1>2, <1>3 DEF Range
  <2>2. sym # None
    BY DEF Addresses, None
  <2>3. k < m /\ m - k \in 1 .. m
    BY <1>1, <1>2, <2>1, <2>2
  <2> QED BY <1>2, <2>1, <2>3 DEF ListedInOrder
<1>4. ASSUME NEW sym \in listed PROVE sym \in Range(SymbolAt)
  <2>1. PICK i \in 1 .. m : u[i] = sym
    BY DEF ListedInOrder
  <2>2. m - i \in 0 .. N /\ m - i < m /\ m - (m - i) = i
    BY <1>1
  <2>3. SymbolAt[m - i] = sym /\ m - i \in DOMAIN SymbolAt
    BY <1>2, <2>1, <2>2
  <2> QED BY <2>3 DEF Range
<1> QED BY <1>3, <1>4
-----------------------------------------------------------------------------
(***************************************************************************)
(* What the operations of symtab.c make of the list.                       *)
(***************************************************************************)
LEMMA FieldsAreASequence ==
  ASSUME SymbolTypeOK
  PROVE  fields \in Seq({fields[sym] : sym \in Addresses})
<1>1. fields \in [1 .. Len(fields) -> {fields[sym] : sym \in Addresses}] /\ Len(fields) \in Nat
  BY DEF SymbolTypeOK, Addresses
<1> QED BY <1>1, SeqDef

LEMMA NewSymbolIsSymbol ==
  ASSUME NEW name, NEW val, NEW external, NEW section
  PROVE  IsSymbol(newSymbol(name, val, external, section))
<1> DEFINE new == newSymbol(name, val, external, section)
<1>1. DOMAIN new = Members /\ new = [field \in Members |-> new[field]]
  BY MemberNames DEF newSymbol
<1>2. new.dependent_offsets = <<>> /\ new.dependent_offsets_count = 0
  BY DEF newSymbol
<1> HIDE DEF new
<1>3. new.dependent_offsets \in Seq(Nat) /\ new.dependent_offsets_count \in Nat
  BY <1>2, EmptySeq
<1>4. IsSymbol(new)
  BY <1>1, <1>3 DEF IsSymbol
<1> QED BY <1>4 DEF new

(* insertSymbol adds a symbol; whether it is linked depends on the failures. *)
LEMMA InsertedFields ==
  ASSUME SymbolTypeOK, NEW name, NEW val, NEW external, NEW section, NEW failed,
         insertSymbol(name, val, external, section, failed)
  PROVE  /\ Len(fields') = Len(fields) + 1 /\ Addresses' = 1 .. Len(fields) + 1
         /\ DOMAIN fields' = Addresses'
         /\ fields'[Len(fields) + 1] = newSymbol(name, val, external, section)
         /\ \A sym \in Addresses : fields'[sym] = fields[sym]
         /\ fields' = [sym \in Addresses' |-> fields'[sym]]
<1> DEFINE new == newSymbol(name, val, external, section)
<1>1. fields' = Append(fields, new)
  BY DEF insertSymbol
<1> HIDE DEF new
<1>2. PICK S : fields \in Seq(S)
  BY FieldsAreASequence
<1>3. /\ Len(fields') = Len(fields) + 1 /\ DOMAIN fields' = 1 .. Len(fields) + 1
      /\ fields'[Len(fields) + 1] = new
      /\ \A k \in 1 .. Len(fields) : fields'[k] = fields[k]
  BY <1>1, <1>2, AppendAnything
<1>4. fields' \in Seq(S \cup {new})
  <2>1. fields \in Seq(S \cup {new})
    BY <1>2, SeqMonotonic
  <2> QED BY <1>1, <2>1, AppendProperties
<1>5. fields' = [k \in 1 .. Len(fields) + 1 |-> fields'[k]]
  BY <1>3, <1>4, LenProperties
<1> QED BY <1>3, <1>5 DEF Addresses, new

LEMMA InsertTypeOK ==
  ASSUME SymbolTypeOK, NEW name, NEW val, NEW external, NEW section, NEW failed,
         insertSymbol(name, val, external, section, failed), UNCHANGED <<releaseVars, release>>
  PROVE  SymbolTypeOK'
<1> DEFINE N == Len(fields)
           A == Addresses
<1>1. /\ N \in Nat /\ A = 1 .. N
      /\ \A sym \in A : IsSymbol(fields[sym])
      /\ following \in Seq(A \cup {None}) /\ Len(following) = N
      /\ structs \subseteq A /\ names \subseteq A /\ arrays \subseteq A /\ listed \subseteq A
      /\ {first, node, iterator} \subseteq A \cup {None}
      /\ release \in {"held", "loop", "done"}
  BY DEF SymbolTypeOK, Addresses
<1>2. /\ Len(fields') = N + 1 /\ Addresses' = 1 .. N + 1 /\ DOMAIN fields' = Addresses'
      /\ fields'[N + 1] = newSymbol(name, val, external, section)
      /\ \A sym \in A : fields'[sym] = fields[sym]
      /\ fields' = [sym \in Addresses' |-> fields'[sym]]
  BY InsertedFields
<1>3. /\ \E x \in {first, None} : following' = Append(following, x)
      /\ first' \in {first, N + 1}
      /\ listed' \subseteq listed \cup {N + 1} /\ structs' \subseteq structs \cup {N + 1}
      /\ names' \subseteq names \cup {N + 1} /\ arrays' = arrays
  BY DEF insertSymbol
<1>4. node' = node /\ iterator' = iterator /\ release' = release
  BY DEF releaseVars
<1> HIDE DEF N, A
<1>5. \A sym \in Addresses' : IsSymbol(fields'[sym])
  <2>1. \A sym \in Addresses' : sym \in A \/ sym = N + 1
    BY <1>1, <1>2
  <2> QED BY <1>1, <1>2, <2>1, NewSymbolIsSymbol
<1>6. following' \in Seq(Addresses' \cup {None}) /\ Len(following') = N + 1
  <2>1. PICK x \in A \cup {None} : following' = Append(following, x)
    BY <1>1, <1>3
  <2>2. A \cup {None} \subseteq Addresses' \cup {None}
    BY <1>1, <1>2
  <2>3. following \in Seq(Addresses' \cup {None})
    BY <1>1, <2>2, SeqMonotonic
  <2> QED BY <1>1, <2>1, <2>2, <2>3, AppendProperties
<1>7. A \subseteq Addresses' /\ N + 1 \in Addresses'
  BY <1>1, <1>2
<1>8. /\ structs' \subseteq Addresses' /\ names' \subseteq Addresses'
      /\ arrays' \subseteq Addresses' /\ listed' \subseteq Addresses'
      /\ {first', node', iterator'} \subseteq Addresses' \cup {None}
  BY <1>1, <1>3, <1>4, <1>7
<1>9. Len(fields') \in Nat
  BY <1>1, <1>2
<1> QED BY <1>1, <1>2, <1>4, <1>5, <1>6, <1>8, <1>9 DEF SymbolTypeOK, IsSymbol

(* Was the new symbol linked? *)
IsLinked(name, failed) == failed = {} /\ InsertError(name, failed) # "ERR_DUPLICATE_SYMBOL"

LEMMA InsertInOrder ==
  ASSUME SymbolTypeOK, release = "held", release' = release,
         NEW m \in 0 .. Len(fields), NEW u, ListedInOrder(m, u),
         NEW name, NEW val, NEW external, NEW section, NEW failed,
         insertSymbol(name, val, external, section, failed),
         NEW w, w = [i \in 1 .. m + 1 |-> IF i = m + 1 THEN Len(fields) + 1 ELSE u[i]]
  PROVE  /\ IsLinked(name, failed) => ListedInOrder(m + 1, w)'
         /\ ~ IsLinked(name, failed) => ListedInOrder(m, u)'
<1> DEFINE N == Len(fields)
<1>1. N \in Nat /\ m \in Nat /\ listed \subseteq 1 .. N
  BY DEF SymbolTypeOK, Addresses
<1>2. /\ first' = IF IsLinked(name, failed) THEN N + 1 ELSE first
      /\ listed' = IF IsLinked(name, failed) THEN listed \cup {N + 1} ELSE listed
      /\ following' = Append(following, IF IsLinked(name, failed) THEN first ELSE None)
  BY DEF insertSymbol, IsLinked
<1>3. /\ \A i \in 1 .. N : following'[i] = following[i]
      /\ IsLinked(name, failed) => following'[N + 1] = first
  <2>1. following \in Seq(Addresses \cup {None}) /\ Len(following) = N
    BY DEF SymbolTypeOK
  <2> QED BY <1>2, <2>1, AppendAnything
<1>4. /\ u \in [1 .. m -> listed]
      /\ \A i, j \in 1 .. m : i < j => u[i] < u[j]
      /\ \A sym \in listed : \E i \in 1 .. m : u[i] = sym
      /\ first = IF m = 0 THEN None ELSE u[m]
      /\ \A i \in 1 .. m : following[u[i]] = IF i = 1 THEN None ELSE u[i - 1]
  BY DEF ListedInOrder, Newest
<1>5. \A i \in 1 .. m : u[i] \in 1 .. N /\ following'[u[i]] = following[u[i]]
  BY <1>1, <1>3, <1>4
<1>6. CASE IsLinked(name, failed)
  <2>1. w = [i \in 1 .. m + 1 |-> IF i = m + 1 THEN N + 1 ELSE u[i]]
    OBVIOUS
  <2> HIDE DEF N
  <2>2. w[m + 1] = N + 1 /\ \A i \in 1 .. m : w[i] = u[i]
    BY <1>1, <2>1
  <2>3. w \in [1 .. m + 1 -> listed']
    BY <1>1, <1>2, <1>4, <1>6, <2>1
  <2>4. ASSUME NEW i \in 1 .. m + 1, NEW j \in 1 .. m + 1, i < j PROVE w[i] < w[j]
    <3>1. i \in 1 .. m /\ (j \in 1 .. m \/ j = m + 1)
      BY <1>1, <2>4
    <3>2. CASE j \in 1 .. m
      BY <1>4, <2>2, <2>4, <3>1, <3>2
    <3>3. CASE j = m + 1
      <4>1. u[i] \in 1 .. N /\ w[i] = u[i] /\ w[j] = N + 1
        BY <1>5, <2>2, <3>1, <3>3
      <4> QED BY <1>1, <4>1
    <3> QED BY <3>1, <3>2, <3>3
  <2>5. ASSUME NEW sym \in listed' PROVE \E i \in 1 .. m + 1 : w[i] = sym
    <3>1. CASE sym = N + 1
      <4>1. m + 1 \in 1 .. m + 1
        BY <1>1
      <4> QED BY <2>2, <3>1, <4>1
    <3>2. CASE sym \in listed
      <4>1. PICK i \in 1 .. m : u[i] = sym
        BY <1>4, <3>2
      <4>2. i \in 1 .. m + 1
        BY <1>1
      <4> QED BY <2>2, <4>1, <4>2
    <3> QED BY <1>2, <1>6, <3>1, <3>2
  <2>6. ASSUME NEW i \in 1 .. m + 1
        PROVE  following'[w[i]] = IF i = 1 THEN None ELSE w[i - 1]
    <3>1. CASE i = m + 1
      <4>1. w[i] = N + 1 /\ following'[N + 1] = first
        BY <1>3, <1>6, <2>2, <3>1
      <4>2. m # 0 => m \in 1 .. m /\ w[m] = u[m] /\ i - 1 = m
        BY <1>1, <2>2, <3>1
      <4> QED BY <1>1, <1>4, <3>1, <4>1, <4>2
    <3>2. CASE i \in 1 .. m
      <4>1. i # 1 => i - 1 \in 1 .. m /\ w[i - 1] = u[i - 1]
        BY <1>1, <2>2, <3>2
      <4> QED BY <1>4, <1>5, <2>2, <3>2, <4>1
    <3> QED BY <1>1, <3>1, <3>2
  <2>7. Newest' = w[m + 1]
    BY <1>2, <1>6, <2>2 DEF Newest
  <2>8. ListedInOrder(m + 1, w)'
    BY <1>1, <2>3, <2>4, <2>5, <2>6, <2>7 DEF ListedInOrder
  <2> QED BY <1>6, <2>8
<1>7. CASE ~ IsLinked(name, failed)
  BY <1>2, <1>4, <1>5, <1>7 DEF ListedInOrder, Newest
<1> QED BY <1>6, <1>7

LEMMA LostIsFinite ==
  ASSUME SymbolTypeOK
  PROVE  IsFiniteSet(Lost) /\ Cardinality(Lost) \in Nat
<1>1. Len(fields) \in Int /\ Lost \subseteq 1 .. Len(fields)
  BY DEF SymbolTypeOK, Lost, Addresses
<1>2. IsFiniteSet(1 .. Len(fields))
  BY <1>1, FS_Interval
<1> QED BY <1>1, <1>2, FS_Subset, FS_CardinalityType

(* One more piece may be lost for one more failure. *)
LEMMA LostIsPaidFor ==
  ASSUME SymbolTypeOK, Cardinality(Lost) <= faults, faults \in Nat, faults' \in Nat, NEW x,
         \/ Lost' \subseteq Lost /\ faults <= faults'
         \/ Lost' \subseteq Lost \cup {x} /\ faults < faults'
  PROVE  Cardinality(Lost') <= faults'
<1>1. IsFiniteSet(Lost) /\ Cardinality(Lost) \in Nat
  BY LostIsFinite
<1>2. CASE Lost' \subseteq Lost /\ faults <= faults'
  <2>1. IsFiniteSet(Lost') /\ Cardinality(Lost') <= Cardinality(Lost)
    BY <1>1, <1>2, FS_Subset
  <2>2. Cardinality(Lost') \in Nat
    BY <2>1, FS_CardinalityType
  <2> QED BY <1>1, <1>2, <2>1, <2>2
<1>3. CASE Lost' \subseteq Lost \cup {x} /\ faults < faults'
  <2> DEFINE more == Lost \cup {x}
  <2>1. IsFiniteSet(more) /\ Cardinality(more) \in Nat /\ Cardinality(more) <= Cardinality(Lost) + 1
    <3>1. IsFiniteSet(more) /\ Cardinality(more) =
            IF x \in Lost THEN Cardinality(Lost) ELSE Cardinality(Lost) + 1
      BY <1>1, FS_AddElement
    <3> HIDE DEF more
    <3> QED BY <1>1, <3>1
  <2>2. IsFiniteSet(Lost') /\ Cardinality(Lost') <= Cardinality(more)
    <3>1. Lost' \in SUBSET more
      BY <1>3
    <3> HIDE DEF more
    <3> QED BY <2>1, <3>1, FS_Subset
  <2>3. Cardinality(Lost') \in Nat
    BY <2>2, FS_CardinalityType
  <2> HIDE DEF more
  <2> QED BY <1>1, <1>3, <2>1, <2>2, <2>3
<1> QED BY <1>2, <1>3

LEMMA InsertLoses ==
  ASSUME SymbolTypeOK, NEW name, NEW val, NEW external, NEW section,
         NEW failed \in SUBSET {"struct", "name", "node"},
         insertSymbol(name, val, external, section, failed)
  PROVE  /\ failed = {} => Lost' \subseteq Lost
         /\ Lost' \subseteq Lost \cup {Len(fields) + 1}
<1> DEFINE N == Len(fields)
<1>1. /\ N \in Nat /\ Addresses = 1 .. N /\ arrays \subseteq Addresses
  BY DEF SymbolTypeOK, Addresses
<1>2. \A sym \in Addresses : fields'[sym] = fields[sym]
  BY InsertedFields
<1>3. /\ listed' = IF IsLinked(name, failed) THEN listed \cup {N + 1} ELSE listed
      /\ structs' \subseteq structs \cup {N + 1} /\ names' \subseteq names \cup {N + 1}
      /\ arrays' = arrays
      /\ ~ IsLinked(name, failed) /\ failed = {} => structs' = structs /\ names' = names
  BY DEF insertSymbol, IsLinked
<1> HIDE DEF N
<1>4. {sym \in arrays' : fields'[sym].dependent_offsets = <<>>}
        = {sym \in arrays : fields[sym].dependent_offsets = <<>>}
  BY <1>1, <1>2, <1>3
<1>5. failed = {} => Lost' \subseteq Lost
  BY <1>3, <1>4 DEF Lost
<1>6. Lost' \subseteq Lost \cup {N + 1}
  BY <1>3, <1>4 DEF Lost
<1> QED BY <1>5, <1>6 DEF N

LEMMA InsertParts ==
  ASSUME SymbolTypeOK, PartsAreAllocated, phase' = phase,
         NEW name, NEW val, NEW external, NEW section, NEW failed,
         insertSymbol(name, val, external, section, failed)
  PROVE  PartsAreAllocated'
<1> DEFINE N == Len(fields)
           new == newSymbol(name, val, external, section)
<1>1. /\ N \in Nat /\ Addresses = 1 .. N /\ listed \subseteq Addresses
  BY DEF SymbolTypeOK, Addresses
<1>2. /\ Addresses' = 1 .. N + 1 /\ fields'[N + 1] = new
      /\ \A sym \in Addresses : fields'[sym] = fields[sym]
  BY InsertedFields
<1>3. /\ listed' = IF IsLinked(name, failed) THEN listed \cup {N + 1} ELSE listed
      /\ structs \subseteq structs' /\ names \subseteq names' /\ arrays' = arrays
      /\ IsLinked(name, failed) => N + 1 \in structs' \cap names'
  BY DEF insertSymbol, IsLinked
<1>4. new.dependent_offsets = <<>> /\ new.dependent_offsets_count = 0
  BY DEF newSymbol
<1>5. Len(new.dependent_offsets) = 0
  BY <1>4, EmptySeq
<1> HIDE DEF N, new
<1>6. \A sym \in Addresses' : sym \in Addresses \/ sym = N + 1
  BY <1>1, <1>2
<1>7. listed' \subseteq structs' \cap names'
  BY <1>3 DEF PartsAreAllocated
<1>8. \A sym \in listed' : fields'[sym].dependent_offsets # <<>> => sym \in arrays'
  BY <1>1, <1>2, <1>3, <1>4 DEF PartsAreAllocated
<1>9. phase' \in {"first", "second"} =>
        \A sym \in Addresses' :
          fields'[sym].dependent_offsets_count = Len(fields'[sym].dependent_offsets)
  BY <1>2, <1>4, <1>5, <1>6 DEF PartsAreAllocated
<1> QED BY <1>7, <1>8, <1>9 DEF PartsAreAllocated

LEMMA ChangedSymbols ==
  ASSUME NEW f, IsSymbol(f), NEW v
  PROVE  /\ IsSymbol([f EXCEPT !.is_entry = v])
         /\ [f EXCEPT !.is_entry = v].dependent_offsets = f.dependent_offsets
         /\ [f EXCEPT !.is_entry = v].dependent_offsets_count = f.dependent_offsets_count
         /\ IsSymbol([f EXCEPT !.value = v])
         /\ [f EXCEPT !.value = v].dependent_offsets = f.dependent_offsets
         /\ [f EXCEPT !.value = v].dependent_offsets_count = f.dependent_offsets_count
<1>1. /\ DOMAIN f = Members /\ f = [field \in Members |-> f[field]]
      /\ f.dependent_offsets \in Seq(Nat) /\ f.dependent_offsets_count \in Nat
  BY DEF IsSymbol
<1> DEFINE g == [f EXCEPT !.is_entry = v]
           h == [f EXCEPT !.value = v]
<1>2. /\ DOMAIN g = Members /\ g = [field \in Members |-> g[field]]
      /\ g.dependent_offsets = f.dependent_offsets
      /\ g.dependent_offsets_count = f.dependent_offsets_count
  BY <1>1, MemberNames
<1>3. /\ DOMAIN h = Members /\ h = [field \in Members |-> h[field]]
      /\ h.dependent_offsets = f.dependent_offsets
      /\ h.dependent_offsets_count = f.dependent_offsets_count
  BY <1>1, MemberNames
<1> HIDE DEF g, h
<1>4. IsSymbol(g)
  BY <1>1, <1>2 DEF IsSymbol
<1>5. IsSymbol(h)
  BY <1>1, <1>3 DEF IsSymbol
<1> QED BY <1>2, <1>3, <1>4, <1>5 DEF g, h

(* When the list stays, and every symbol stays one, so do its types and its  *)
(* order.                                                                    *)
LEMMA ListStays ==
  ASSUME SymbolTypeOK, UNCHANGED <<tableVars, structs, names, releaseVars, release>>,
         DOMAIN fields' = Addresses, fields' = [sym \in Addresses |-> fields'[sym]],
         \A sym \in Addresses : IsSymbol(fields'[sym]), arrays' \subseteq Addresses
  PROVE  /\ SymbolTypeOK' /\ Len(fields') = Len(fields) /\ Addresses' = Addresses
         /\ \A m, u : ListedInOrder(m, u) => ListedInOrder(m, u)'
<1>1. Len(fields) \in Nat /\ Addresses = 1 .. Len(fields)
  BY DEF SymbolTypeOK, Addresses
<1>2. Len(fields') = Len(fields)
  <2> DEFINE S == {fields'[sym] : sym \in Addresses}
  <2>1. fields' \in [1 .. Len(fields) -> S]
    BY <1>1
  <2> HIDE DEF S
  <2>2. fields' \in Seq(S)
    BY <1>1, <2>1, SeqDef
  <2>3. Len(fields') \in Nat /\ DOMAIN fields' = 1 .. Len(fields')
    BY <2>2, LenProperties
  <2>4. 1 .. Len(fields') = 1 .. Len(fields)
    BY <1>1, <2>3
  <2> QED BY <1>1, <2>3, <2>4
<1>3. Addresses' = Addresses
  BY <1>2 DEF Addresses
<1>4. SymbolTypeOK'
  BY <1>1, <1>2, <1>3 DEF SymbolTypeOK, IsSymbol, tableVars, releaseVars
<1>5. \A m, u : ListedInOrder(m, u) => ListedInOrder(m, u)'
  BY DEF ListedInOrder, Newest, tableVars, releaseVars
<1> QED BY <1>2, <1>3, <1>4, <1>5

(* Marking and shifting leave the offsets alone. *)
LEMMA OffsetsStay ==
  ASSUME SymbolTypeOK, PartsAreAllocated, Addresses' = Addresses,
         UNCHANGED <<tableVars, structs, names, arrays>>,
         phase' \in {"first", "second"} => phase \in {"first", "second"},
         \A sym \in Addresses :
           /\ fields'[sym].dependent_offsets = fields[sym].dependent_offsets
           /\ fields'[sym].dependent_offsets_count = fields[sym].dependent_offsets_count
  PROVE  PartsAreAllocated' /\ Lost' = Lost
<1>1. listed \subseteq Addresses /\ arrays \subseteq Addresses
  BY DEF SymbolTypeOK
<1>2. PartsAreAllocated'
  BY <1>1 DEF PartsAreAllocated, tableVars
<1>3. Lost' = Lost
  BY <1>1 DEF Lost, tableVars
<1> QED BY <1>2, <1>3

LEMMA MarkedFields ==
  ASSUME SymbolTypeOK, NEW name, markSymEntry(name), find(name) \in Addresses \cup {None}
  PROVE  /\ DOMAIN fields' = Addresses /\ fields' = [sym \in Addresses |-> fields'[sym]]
         /\ \A sym \in Addresses :
              fields'[sym] = IF sym = find(name) /\ ~ fields[sym].is_external
                             THEN [fields[sym] EXCEPT !.is_entry = TRUE] ELSE fields[sym]
<1>1. fields = [sym \in Addresses |-> fields[sym]] /\ DOMAIN fields = Addresses
  BY DEF SymbolTypeOK
<1>2. None \notin Addresses
  BY DEF Addresses, None
<1> DEFINE s == find(name)
<1>3. fields' = IF s # None /\ ~ fields[s].is_external
                THEN [fields EXCEPT ![s].is_entry = TRUE] ELSE fields
  BY DEF markSymEntry
<1> HIDE DEF s
<1> QED BY <1>1, <1>2, <1>3 DEF s

LEMMA ShiftedFields ==
  ASSUME SymbolTypeOK, NEW offset, fixDataSymbolsOffset(offset)
  PROVE  /\ DOMAIN fields' = Addresses /\ fields' = [sym \in Addresses |-> fields'[sym]]
         /\ \A sym \in Addresses :
              fields'[sym] = IF sym \notin Range(SymbolAt) \/ fields[sym].section # "Data"
                                \/ fields[sym].is_external
                             THEN fields[sym] ELSE [fields[sym] EXCEPT !.value = @ + offset]
BY DEF fixDataSymbolsOffset, SymbolTypeOK

LEMMA UsedFields ==
  ASSUME SymbolTypeOK, NEW name, NEW offset, NEW failed, useSymbol(name, offset, failed),
         find(name) \in Addresses \cup {None}
  PROVE  /\ DOMAIN fields' = Addresses /\ fields' = [sym \in Addresses |-> fields'[sym]]
         /\ \A sym \in Addresses : sym # find(name) => fields'[sym] = fields[sym]
         /\ find(name) # None =>
              fields'[find(name)] =
                [fields[find(name)] EXCEPT
                   !.dependent_offsets = IF "offsets" \notin failed THEN Append(@, offset) ELSE <<>>,
                   !.dependent_offsets_count = IF "offsets" \notin failed THEN @ + 1 ELSE @]
<1>1. fields = [sym \in Addresses |-> fields[sym]] /\ DOMAIN fields = Addresses
  BY DEF SymbolTypeOK
<1>2. None \notin Addresses
  BY DEF Addresses, None
<1> DEFINE s == find(name)
           grown == "offsets" \notin failed
<1>3. fields' = IF s = None THEN fields
                ELSE [fields EXCEPT
                   ![s].dependent_offsets = IF grown THEN Append(@, offset) ELSE <<>>,
                   ![s].dependent_offsets_count = IF grown THEN @ + 1 ELSE @]
  BY DEF useSymbol
<1>4. CASE s = None
  BY <1>1, <1>2, <1>3, <1>4
<1>5. CASE s \in Addresses
  <2> DEFINE f == fields[s]
             list == IF grown THEN Append(f.dependent_offsets, offset) ELSE <<>>
             one == [fields EXCEPT ![s] = [f EXCEPT !.dependent_offsets = list]]
             count == IF grown THEN one[s].dependent_offsets_count + 1
                      ELSE one[s].dependent_offsets_count
  <2>1. fields' = [one EXCEPT ![s] = [one[s] EXCEPT !.dependent_offsets_count = count]]
    BY <1>2, <1>3, <1>5
  <2>2. one[s] = [f EXCEPT !.dependent_offsets = list]
    BY <1>1, <1>5
  <2>3. one[s].dependent_offsets_count = f.dependent_offsets_count
    BY <1>5, <2>2, MemberNames DEF SymbolTypeOK, IsSymbol
  <2>4. count = IF grown THEN f.dependent_offsets_count + 1 ELSE f.dependent_offsets_count
    BY <2>3
  <2>5. DOMAIN one = Addresses /\ \A sym \in Addresses : sym # s => one[sym] = fields[sym]
    BY <1>1
  <2> HIDE DEF one, count, list, s
  <2>6. /\ DOMAIN fields' = Addresses /\ fields' = [sym \in Addresses |-> fields'[sym]]
        /\ \A sym \in Addresses : sym # s => fields'[sym] = fields[sym]
        /\ fields'[s] = [[f EXCEPT !.dependent_offsets = list] EXCEPT !.dependent_offsets_count = count]
    BY <1>5, <2>1, <2>2, <2>5
  <2>7. fields'[s] = [f EXCEPT !.dependent_offsets = list, !.dependent_offsets_count = count]
    BY <2>6
  <2> QED BY <2>4, <2>6, <2>7 DEF s, list
<1> QED BY <1>4, <1>5

LEMMA UseKeepsSymbols ==
  ASSUME SymbolTypeOK, PartsAreAllocated, release = "held",
         NEW m \in 0 .. Len(fields), NEW u, ListedInOrder(m, u),
         NEW name, NEW offset \in Nat, NEW failed \in SUBSET {"offsets"},
         useSymbol(name, offset, failed), UNCHANGED <<releaseVars, release>>,
         phase = "second", failed # {} => phase' = "cleanup"
  PROVE  /\ SymbolTypeOK' /\ Len(fields') = Len(fields) /\ ListedInOrder(m, u)'
         /\ PartsAreAllocated'
         /\ failed = {} => Lost' \subseteq Lost
         /\ Lost' \subseteq Lost \cup {find(name)}
<1> DEFINE s == find(name)
           grown == "offsets" \notin failed
<1>1. /\ listed \subseteq Addresses /\ arrays \subseteq Addresses /\ None \notin Addresses
      /\ \A sym \in Addresses : IsSymbol(fields[sym])
  BY DEF SymbolTypeOK, Addresses, None
<1>2. s \in listed \cup {None}
  BY FoundIsListed
<1>3. /\ DOMAIN fields' = Addresses /\ fields' = [sym \in Addresses |-> fields'[sym]]
      /\ \A sym \in Addresses : sym # s => fields'[sym] = fields[sym]
      /\ s # None =>
           fields'[s] =
             [fields[s] EXCEPT
                !.dependent_offsets = IF grown THEN Append(@, offset) ELSE <<>>,
                !.dependent_offsets_count = IF grown THEN @ + 1 ELSE @]
  BY <1>1, <1>2, UsedFields
<1>4. /\ arrays' = IF s # None /\ grown THEN arrays \cup {s} ELSE arrays
      /\ UNCHANGED <<tableVars, structs, names>>
  BY DEF useSymbol
<1>5. grown \in BOOLEAN /\ (grown <=> failed = {})
  OBVIOUS
<1> HIDE DEF s, grown
<1>6. s # None => /\ IsSymbol(fields'[s])
                  /\ fields'[s].dependent_offsets = <<>> <=> ~ grown
                  /\ grown /\ fields[s].dependent_offsets_count = Len(fields[s].dependent_offsets)
                       => fields'[s].dependent_offsets_count = Len(fields'[s].dependent_offsets)
  <2> SUFFICES ASSUME s # None
               PROVE  /\ IsSymbol(fields'[s])
                      /\ fields'[s].dependent_offsets = <<>> <=> ~ grown
                      /\ grown /\ fields[s].dependent_offsets_count = Len(fields[s].dependent_offsets)
                           => fields'[s].dependent_offsets_count = Len(fields'[s].dependent_offsets)
    OBVIOUS
  <2>1. IsSymbol(fields[s])
    BY <1>1, <1>2
  <2>2. PICK g : g = fields'[s]
    OBVIOUS
  <2>3. PICK f : f = fields[s]
    OBVIOUS
  <2>4. g = [f EXCEPT
               !.dependent_offsets = IF grown THEN Append(@, offset) ELSE <<>>,
               !.dependent_offsets_count = IF grown THEN @ + 1 ELSE @]
    BY <1>3, <2>2, <2>3
  <2>5. /\ IsSymbol(g)
        /\ g.dependent_offsets = <<>> <=> ~ grown
        /\ grown /\ f.dependent_offsets_count = Len(f.dependent_offsets)
             => g.dependent_offsets_count = Len(g.dependent_offsets)
    <3>1. /\ DOMAIN f = Members /\ f = [field \in Members |-> f[field]]
          /\ f.dependent_offsets \in Seq(Nat) /\ f.dependent_offsets_count \in Nat
      BY <2>1, <2>3 DEF IsSymbol
    <3>2. /\ DOMAIN g = Members /\ g = [field \in Members |-> g[field]]
          /\ g.dependent_offsets = IF grown THEN Append(f.dependent_offsets, offset) ELSE <<>>
          /\ g.dependent_offsets_count =
               IF grown THEN f.dependent_offsets_count + 1 ELSE f.dependent_offsets_count
      BY <2>4, <3>1, MemberNames
    <3>3. /\ g.dependent_offsets \in Seq(Nat) /\ g.dependent_offsets_count \in Nat
          /\ g.dependent_offsets = <<>> <=> ~ grown
          /\ grown /\ f.dependent_offsets_count = Len(f.dependent_offsets)
               => g.dependent_offsets_count = Len(g.dependent_offsets)
      <4>1. PICK q \in Seq(Nat), n \in Nat, b \in BOOLEAN :
              q = f.dependent_offsets /\ n = f.dependent_offsets_count /\ b = grown
        BY <1>5, <3>1
      <4>2. PICK list, count : /\ list = IF b THEN Append(q, offset) ELSE <<>>
                               /\ count = IF b THEN n + 1 ELSE n
        OBVIOUS
      <4>3. /\ list \in Seq(Nat) /\ count \in Nat /\ (list = <<>> <=> ~ b)
            /\ b /\ n = Len(q) => count = Len(list)
        <5>1. CASE b
          <6>1. /\ Append(q, offset) \in Seq(Nat) /\ Append(q, offset) # <<>>
                /\ Len(Append(q, offset)) = Len(q) + 1
            BY AppendProperties
          <6> QED BY <4>2, <5>1, <6>1
        <5>2. CASE ~ b
          BY <4>2, <5>2, EmptySeq
        <5> QED BY <5>1, <5>2
      <4>4. g.dependent_offsets = list /\ g.dependent_offsets_count = count
        BY <3>2, <4>1, <4>2
      <4> QED BY <4>1, <4>3, <4>4
    <3>4. IsSymbol(g)
      BY <3>2, <3>3 DEF IsSymbol
    <3> QED BY <3>3, <3>4
  <2> QED BY <2>2, <2>3, <2>5
<1>7. \A sym \in Addresses : IsSymbol(fields'[sym])
  BY <1>1, <1>2, <1>3, <1>6
<1>8. arrays' \subseteq Addresses
  BY <1>1, <1>2, <1>4
<1>9. SymbolTypeOK' /\ Len(fields') = Len(fields) /\ Addresses' = Addresses /\ ListedInOrder(m, u)'
  BY <1>3, <1>4, <1>7, <1>8, ListStays
<1>10. PartsAreAllocated'
  <2>1. listed' \subseteq structs' \cap names'
    BY <1>4 DEF PartsAreAllocated, tableVars
  <2>2. \A sym \in listed' : fields'[sym].dependent_offsets # <<>> => sym \in arrays'
    BY <1>1, <1>3, <1>4, <1>6 DEF PartsAreAllocated, tableVars
  <2>3. phase' \in {"first", "second"} =>
          \A sym \in Addresses' :
            fields'[sym].dependent_offsets_count = Len(fields'[sym].dependent_offsets)
    BY <1>1, <1>3, <1>5, <1>6, <1>9 DEF PartsAreAllocated
  <2> QED BY <2>1, <2>2, <2>3 DEF PartsAreAllocated
<1>11. failed = {} => Lost' \subseteq Lost
  BY <1>1, <1>2, <1>3, <1>4, <1>5, <1>6 DEF Lost, tableVars
<1>12. Lost' \subseteq Lost \cup {s}
  BY <1>1, <1>2, <1>3, <1>4, <1>5, <1>6 DEF Lost, tableVars
<1> QED BY <1>9, <1>10, <1>11, <1>12 DEF s
-----------------------------------------------------------------------------
(***************************************************************************)
(* The invariant, step by step.                                            *)
(***************************************************************************)

LEMMA FailuresAreFinite == IsFiniteSet({"struct", "name", "node"})
<1>1. IsFiniteSet({"struct"})
  BY FS_Singleton
<1>2. IsFiniteSet({"struct"} \cup {"name"})
  BY <1>1, FS_AddElement
<1>3. IsFiniteSet(({"struct"} \cup {"name"}) \cup {"node"})
  BY <1>2, FS_AddElement
<1>4. ({"struct"} \cup {"name"}) \cup {"node"} = {"struct", "name", "node"}
  OBVIOUS
<1> QED BY <1>3, <1>4

(* What a step of the source is for its queue. *)
LEMMA SourceQueueStep ==
  ASSUME TypeOK, [SourceNext]_sourceVars
  PROVE  /\ [Next]_vars \/ UNCHANGED queueVars
         /\ faults' \in Nat /\ faults <= faults'
<1> USE DEF passVars
<1>1. faults \in Nat
  BY DEF TypeOK
<1>2. CASE FirstPassReads
  BY <1>1, <1>2 DEF FirstPassReads, PushLine, Next, Step
<1>3. CASE Declares
  <2>1. UNCHANGED queueVars
    BY <1>3 DEF Declares
  <2>2. faults' = faults \/ \E failed \in SUBSET {"struct", "name", "node"} :
                              faults' = faults + Cardinality(failed)
    BY <1>3 DEF Declares
  <2>3. \A failed \in SUBSET {"struct", "name", "node"} : Cardinality(failed) \in Nat
    <3>1. IsFiniteSet({"struct", "name", "node"})
      BY FailuresAreFinite
    <3> QED BY <3>1, FS_Subset, FS_CardinalityType
  <2> QED BY <1>1, <2>1, <2>2, <2>3
<1>4. CASE FirstPassEnds
  BY <1>1, <1>4 DEF FirstPassEnds, EndFirstPass, DropLine, Next, Step
<1>5. CASE Refers
  BY <1>1, <1>5 DEF Refers, PopLine, Next, Step
<1>6. CASE QueueEnds
  BY <1>1, <1>6 DEF QueueEnds, EndSecondPass, FreeLine, FreeQueue, Next, Step
<1>7. CASE ReleaseBegins
  BY <1>1, <1>7 DEF ReleaseBegins, vars
<1>8. CASE SymbolIsFreed
  BY <1>1, <1>8 DEF SymbolIsFreed, vars
<1>9. CASE ReleaseEnds
  BY <1>1, <1>9 DEF ReleaseEnds, vars
<1>10. CASE UNCHANGED sourceVars
  BY <1>1, <1>10 DEF sourceVars, vars
<1> QED BY <1>2, <1>3, <1>4, <1>5, <1>6, <1>7, <1>8, <1>9, <1>10
        DEF SourceNext, SourceStep, Released

(* The symbols are as they were. *)
LEMMA SymbolsStay ==
  ASSUME SymbolInvariant, UNCHANGED <<managerVars, releaseVars, release>>,
         phase' \in {"first", "second"} => phase \in {"first", "second"},
         phase = "done" => phase' = "done",
         faults \in Nat, faults' \in Nat, faults <= faults'
  PROVE  SymbolInvariant'
<1>1. SymbolTypeOK' /\ Addresses' = Addresses
  BY DEF SymbolInvariant, SymbolTypeOK, Addresses, IsSymbol, managerVars, tableVars, releaseVars
<1>2. IteratorIsAhead'
  BY DEF SymbolInvariant, IteratorIsAhead, managerVars, tableVars, releaseVars
<1>3. PartsAreAllocated'
  BY <1>1 DEF SymbolInvariant, PartsAreAllocated, managerVars, tableVars
<1>4. \E m \in 0 .. Len(fields') : \E u \in [1 .. m -> listed'] : ListedInOrder(m, u)'
  BY DEF SymbolInvariant, ListedInOrder, Newest, managerVars, tableVars, releaseVars
<1>5. Cardinality(Lost') <= faults'
  <2>1. Lost' = Lost
    BY DEF Lost, managerVars, tableVars
  <2>2. SymbolTypeOK /\ Cardinality(Lost) <= faults
    BY DEF SymbolInvariant
  <2> QED BY <2>1, <2>2, LostIsPaidFor
<1> QED BY <1>1, <1>2, <1>3, <1>4, <1>5 DEF SymbolInvariant

LEMMA DeclaresKeeps ==
  ASSUME SymbolInvariant, Declares, faults \in Nat, faults' \in Nat, faults <= faults'
  PROVE  SymbolInvariant'
<1> DEFINE line == source[created]
           val == IF line.is_extern THEN 0 ELSE created
           Fault == {"struct", "name", "node"}
<1>1. phase = "first" /\ phase' = phase /\ UNCHANGED <<releaseVars, release>>
  BY DEF Declares, queueVars
<1>2. CASE UNCHANGED managerVars
  BY <1>1, <1>2, SymbolsStay
<1>3. CASE \E failed \in SUBSET Fault :
             /\ faults' = faults + Cardinality(failed)
             /\ insertSymbol(line.declares, val, line.is_extern, line.section, failed)
  <2>1. PICK failed \in SUBSET Fault :
             /\ faults' = faults + Cardinality(failed)
             /\ insertSymbol(line.declares, val, line.is_extern, line.section, failed)
    BY <1>3
  <2>2. PICK name, v, external, section :
          insertSymbol(name, v, external, section, failed)
    BY <2>1
  <2>3. SymbolTypeOK /\ PartsAreAllocated /\ IteratorIsAhead /\ Cardinality(Lost) <= faults
    BY DEF SymbolInvariant
  <2>4. release = "held" /\ release' = release
    BY <1>1, <2>3 DEF IteratorIsAhead
  <2>5. PICK m \in 0 .. Len(fields) : \E u : ListedInOrder(m, u)
    BY DEF SymbolInvariant
  <2> PICK u : ListedInOrder(m, u)
    BY <2>5
  <2>6. SymbolTypeOK'
    BY <1>1, <2>2, <2>3, InsertTypeOK
  <2>7. PartsAreAllocated'
    BY <1>1, <2>2, <2>3, InsertParts
  <2>8. IteratorIsAhead'
    BY <2>4 DEF IteratorIsAhead
  <2>9. \E n \in 0 .. Len(fields') : \E x \in [1 .. n -> listed'] : ListedInOrder(n, x)'
    <3>1. PICK w : w = [i \in 1 .. m + 1 |-> IF i = m + 1 THEN Len(fields) + 1 ELSE u[i]]
      OBVIOUS
    <3>2. /\ IsLinked(name, failed) => ListedInOrder(m + 1, w)'
          /\ ~ IsLinked(name, failed) => ListedInOrder(m, u)'
      BY <2>2, <2>3, <2>4, <2>5, <3>1, InsertInOrder
    <3>3. Len(fields') = Len(fields) + 1 /\ Len(fields) \in Nat
      BY <2>2, <2>3, InsertedFields DEF SymbolTypeOK
    <3>4. m + 1 \in 0 .. Len(fields') /\ m \in 0 .. Len(fields')
      BY <3>3
    <3>5. \A n, x : ListedInOrder(n, x)' => x \in [1 .. n -> listed']
      BY DEF ListedInOrder
    <3> QED BY <3>2, <3>4, <3>5
  <2>10. Cardinality(Lost') <= faults'
    <3>1. /\ failed = {} => Lost' \subseteq Lost
          /\ Lost' \subseteq Lost \cup {Len(fields) + 1}
      BY <2>2, <2>3, InsertLoses
    <3>2. failed = {} \/ faults < faults'
      <4>1. IsFiniteSet(failed)
        <5>1. IsFiniteSet({"struct", "name", "node"})
          BY FailuresAreFinite
        <5> QED BY <5>1, FS_Subset
      <4>2. Cardinality(failed) \in Nat /\ (Cardinality(failed) = 0 => failed = {})
        BY <4>1, FS_CardinalityType, FS_EmptySet
      <4> QED BY <2>1, <4>2
    <3>3. PICK x : x = Len(fields) + 1
      OBVIOUS
    <3> QED BY <2>3, <3>1, <3>2, <3>3, LostIsPaidFor
  <2> QED BY <2>6, <2>7, <2>8, <2>9, <2>10 DEF SymbolInvariant
<1> QED BY <1>2, <1>3 DEF Declares

(* The shift at the end of the first pass, and a mark in the second. *)
LEMMA OffsetsKept ==
  ASSUME SymbolInvariant, release = "held", release' = "held",
         UNCHANGED <<tableVars, structs, names, arrays, releaseVars>>,
         phase' \in {"first", "second"} => phase \in {"first", "second"},
         faults \in Nat, faults' \in Nat, faults <= faults',
         DOMAIN fields' = Addresses, fields' = [sym \in Addresses |-> fields'[sym]],
         \A sym \in Addresses :
           /\ IsSymbol(fields'[sym])
           /\ fields'[sym].dependent_offsets = fields[sym].dependent_offsets
           /\ fields'[sym].dependent_offsets_count = fields[sym].dependent_offsets_count
  PROVE  SymbolInvariant'
<1>1. SymbolTypeOK /\ PartsAreAllocated /\ Cardinality(Lost) <= faults /\ arrays \subseteq Addresses
  BY DEF SymbolInvariant, SymbolTypeOK
<1>2. PICK m \in 0 .. Len(fields) : \E u \in [1 .. m -> listed] : ListedInOrder(m, u)
  BY DEF SymbolInvariant
<1> PICK u \in [1 .. m -> listed] : ListedInOrder(m, u)
  BY <1>2
<1>3. /\ SymbolTypeOK' /\ Len(fields') = Len(fields) /\ Addresses' = Addresses
      /\ ListedInOrder(m, u)'
  BY <1>1, <1>2, ListStays
<1>4. PartsAreAllocated' /\ Lost' = Lost
  BY <1>1, <1>3, OffsetsStay
<1>5. Cardinality(Lost') <= faults'
  BY <1>1, <1>4, LostIsPaidFor
<1>6. IteratorIsAhead'
  BY DEF IteratorIsAhead
<1>7. \E n \in 0 .. Len(fields') : \E x \in [1 .. n -> listed'] : ListedInOrder(n, x)'
  BY <1>2, <1>3 DEF tableVars
<1> QED BY <1>3, <1>4, <1>5, <1>6, <1>7 DEF SymbolInvariant

LEMMA ShiftKeeps ==
  ASSUME SymbolInvariant, TypeOK, FirstPassEnds, faults' \in Nat, faults <= faults'
  PROVE  SymbolInvariant'
<1>1. phase = "first" /\ phase' # "done" /\ UNCHANGED <<releaseVars, release>>
  BY DEF FirstPassEnds, EndFirstPass, DropLine
<1>2. PICK offset : fixDataSymbolsOffset(offset)
  BY DEF FirstPassEnds
<1>3. SymbolTypeOK /\ release = "held" /\ faults \in Nat
  BY <1>1 DEF SymbolInvariant, IteratorIsAhead, TypeOK
<1>4. UNCHANGED <<tableVars, structs, names, arrays>>
  BY <1>2 DEF fixDataSymbolsOffset
<1>5. /\ DOMAIN fields' = Addresses /\ fields' = [sym \in Addresses |-> fields'[sym]]
      /\ \A sym \in Addresses :
           \/ fields'[sym] = fields[sym]
           \/ fields'[sym] = [fields[sym] EXCEPT !.value = @ + offset]
  BY <1>2, <1>3, ShiftedFields
<1>6. ASSUME NEW sym \in Addresses
      PROVE  /\ IsSymbol(fields'[sym])
             /\ fields'[sym].dependent_offsets = fields[sym].dependent_offsets
             /\ fields'[sym].dependent_offsets_count = fields[sym].dependent_offsets_count
  <2>1. PICK f : f = fields[sym]
    OBVIOUS
  <2>2. IsSymbol(f)
    BY <1>3, <2>1 DEF SymbolTypeOK
  <2>3. CASE fields'[sym] = [fields[sym] EXCEPT !.value = @ + offset]
    <3>1. PICK v : v = f.value + offset
      OBVIOUS
    <3>2. fields'[sym] = [f EXCEPT !.value = v]
      BY <2>1, <2>3, <3>1
    <3>3. /\ IsSymbol([f EXCEPT !.value = v])
          /\ [f EXCEPT !.value = v].dependent_offsets = f.dependent_offsets
          /\ [f EXCEPT !.value = v].dependent_offsets_count = f.dependent_offsets_count
      BY <2>2, ChangedSymbols
    <3> QED BY <2>1, <3>2, <3>3 DEF IsSymbol
  <2>4. CASE fields'[sym] = fields[sym]
    BY <2>1, <2>2, <2>4 DEF IsSymbol
  <2> QED BY <1>5, <2>3, <2>4
<1> QED BY <1>1, <1>3, <1>4, <1>5, <1>6, OffsetsKept

LEMMA MarkKeeps ==
  ASSUME SymbolInvariant, NEW name, markSymEntry(name), UNCHANGED <<releaseVars, release>>,
         phase = "second", phase' # "done", faults \in Nat, faults' \in Nat, faults <= faults'
  PROVE  SymbolInvariant'
<1>1. SymbolTypeOK /\ release = "held" /\ listed \subseteq Addresses
  BY DEF SymbolInvariant, IteratorIsAhead, SymbolTypeOK
<1>2. PICK m \in 0 .. Len(fields) : \E u : ListedInOrder(m, u)
  BY DEF SymbolInvariant
<1> PICK u : ListedInOrder(m, u)
  BY <1>2
<1>3. find(name) \in Addresses \cup {None}
  BY <1>1, FoundIsListed
<1>4. UNCHANGED <<tableVars, structs, names, arrays>>
  BY DEF markSymEntry
<1>5. /\ DOMAIN fields' = Addresses /\ fields' = [sym \in Addresses |-> fields'[sym]]
      /\ \A sym \in Addresses :
           \/ fields'[sym] = fields[sym]
           \/ fields'[sym] = [fields[sym] EXCEPT !.is_entry = TRUE]
  BY <1>1, <1>3, MarkedFields
<1>6. ASSUME NEW sym \in Addresses
      PROVE  /\ IsSymbol(fields'[sym])
             /\ fields'[sym].dependent_offsets = fields[sym].dependent_offsets
             /\ fields'[sym].dependent_offsets_count = fields[sym].dependent_offsets_count
  <2>1. PICK f : f = fields[sym]
    OBVIOUS
  <2>2. IsSymbol(f)
    BY <1>1, <2>1 DEF SymbolTypeOK
  <2>3. CASE fields'[sym] = [fields[sym] EXCEPT !.is_entry = TRUE]
    <3>1. PICK v : v = TRUE
      OBVIOUS
    <3>2. fields'[sym] = [f EXCEPT !.is_entry = v]
      BY <2>1, <2>3, <3>1
    <3>3. /\ IsSymbol([f EXCEPT !.is_entry = v])
          /\ [f EXCEPT !.is_entry = v].dependent_offsets = f.dependent_offsets
          /\ [f EXCEPT !.is_entry = v].dependent_offsets_count = f.dependent_offsets_count
      BY <2>2, ChangedSymbols
    <3> QED BY <2>1, <3>2, <3>3 DEF IsSymbol
  <2>4. CASE fields'[sym] = fields[sym]
    BY <2>1, <2>2, <2>4 DEF IsSymbol
  <2> QED BY <1>5, <2>3, <2>4
<1> QED BY <1>1, <1>4, <1>5, <1>6, OffsetsKept

LEMMA RefersKeeps ==
  ASSUME SymbolInvariant, TypeOK, Refers, faults' \in Nat, faults <= faults'
  PROVE  SymbolInvariant'
<1> DEFINE line == source[data[head]]
<1>1. /\ phase = "second" /\ phase' \in {"second", "cleanup"} /\ head # NULL
      /\ UNCHANGED <<releaseVars, release>>
      /\ phase' = "cleanup" => faults' = faults + 1
  BY DEF Refers, PopLine
<1>2. /\ faults \in Nat /\ data[head] \in Nat
  BY <1>1 DEF TypeOK, Pointers
<1>3. CASE line.refers = "use"
  <2>1. PICK failed \in SUBSET {"offsets"} :
          /\ failed # {} => phase' = "cleanup"
          /\ useSymbol(line.name, data[head], failed)
    BY <1>3 DEF Refers
  <2>2. PICK offset \in Nat : offset = data[head]
    BY <1>2
  <2> PICK name : name = line.name
    OBVIOUS
  <2>3. useSymbol(name, offset, failed)
    BY <2>1, <2>2
  <2>4. /\ SymbolTypeOK /\ PartsAreAllocated /\ release = "held" /\ release' = "held"
        /\ Cardinality(Lost) <= faults
    BY <1>1 DEF SymbolInvariant, IteratorIsAhead
  <2>5. PICK m \in 0 .. Len(fields) : \E u : ListedInOrder(m, u)
    BY DEF SymbolInvariant
  <2> PICK u : ListedInOrder(m, u)
    BY <2>5
  <2>6. /\ SymbolTypeOK' /\ Len(fields') = Len(fields) /\ ListedInOrder(m, u)'
        /\ PartsAreAllocated'
        /\ failed = {} => Lost' \subseteq Lost
        /\ Lost' \subseteq Lost \cup {find(name)}
    BY <1>1, <2>1, <2>3, <2>4, <2>5, UseKeepsSymbols
  <2>7. Cardinality(Lost') <= faults'
    <3>1. failed = {} \/ faults < faults'
      BY <1>1, <1>2, <2>1
    <3>2. PICK x : x = find(name)
      OBVIOUS
    <3> QED BY <1>2, <2>4, <2>6, <3>1, <3>2, LostIsPaidFor
  <2>8. u \in [1 .. m -> listed']
    BY <2>6 DEF ListedInOrder
  <2>9. IteratorIsAhead'
    BY <2>4 DEF IteratorIsAhead
  <2> QED BY <2>5, <2>6, <2>7, <2>8, <2>9 DEF SymbolInvariant
<1>4. CASE line.refers = "mark"
  <2>1. markSymEntry(line.name)
    BY <1>4 DEF Refers
  <2>2. PICK name : name = line.name
    OBVIOUS
  <2> QED BY <1>1, <1>2, <2>1, <2>2, MarkKeeps
<1>5. CASE line.refers \notin {"use", "mark"}
  <2>1. UNCHANGED managerVars
    BY <1>5 DEF Refers
  <2> QED BY <1>1, <1>2, <2>1, SymbolsStay
<1> QED BY <1>3, <1>4, <1>5

LEMMA ReleaseBeginsKeeps ==
  ASSUME SymbolInvariant, ReleaseBegins, faults \in Nat, faults' \in Nat, faults <= faults'
  PROVE  SymbolInvariant'
<1>1. /\ phase = "done" /\ phase' = phase /\ release = "held" /\ release' = "loop"
      /\ node' = first /\ iterator' = IF first = None THEN None ELSE following[first]
      /\ UNCHANGED <<fields, structs, names, arrays, tableVars>>
  BY DEF ReleaseBegins, BeginFree, vars, managerVars
<1>2. /\ SymbolTypeOK /\ PartsAreAllocated /\ Cardinality(Lost) <= faults
  BY DEF SymbolInvariant
<1>3. following[first] \in Addresses \cup {None} \/ first = None
  BY <1>2, ElementOfSeq DEF SymbolTypeOK, Addresses
<1>4. SymbolTypeOK' /\ Addresses' = Addresses
  BY <1>1, <1>2, <1>3 DEF SymbolTypeOK, Addresses, IsSymbol, tableVars
<1>5. IteratorIsAhead'
  BY <1>1 DEF IteratorIsAhead, tableVars
<1>6. PartsAreAllocated'
  BY <1>1, <1>2, <1>4 DEF PartsAreAllocated, tableVars
<1>7. Newest' = Newest
  BY <1>1 DEF Newest, tableVars
<1>8. \E m \in 0 .. Len(fields') : \E u \in [1 .. m -> listed'] : ListedInOrder(m, u)'
  BY <1>1, <1>7 DEF SymbolInvariant, ListedInOrder, tableVars
<1>9. Cardinality(Lost') <= faults'
  <2>1. Lost' = Lost
    BY <1>1 DEF Lost, tableVars
  <2> QED BY <1>2, <2>1, LostIsPaidFor
<1> QED BY <1>4, <1>5, <1>6, <1>8, <1>9 DEF SymbolInvariant

LEMMA ReleaseEndsKeeps ==
  ASSUME SymbolInvariant, ReleaseEnds, faults \in Nat, faults' \in Nat, faults <= faults'
  PROVE  SymbolInvariant'
<1>1. /\ phase' = phase /\ release = "loop" /\ release' = "done" /\ node = None
      /\ node' = node /\ iterator' = iterator
      /\ UNCHANGED <<fields, structs, names, arrays, tableVars>>
  BY DEF ReleaseEnds, vars, managerVars, releaseVars
<1>2. /\ SymbolTypeOK /\ PartsAreAllocated /\ Cardinality(Lost) <= faults
  BY DEF SymbolInvariant
<1>4. SymbolTypeOK' /\ Addresses' = Addresses
  BY <1>1, <1>2 DEF SymbolTypeOK, Addresses, IsSymbol, tableVars
<1>5. IteratorIsAhead'
  BY <1>1 DEF SymbolInvariant, IteratorIsAhead, tableVars
<1>6. PartsAreAllocated'
  BY <1>1, <1>2, <1>4 DEF PartsAreAllocated, tableVars
<1>7. Newest' = Newest
  BY <1>1 DEF Newest
<1>8. \E m \in 0 .. Len(fields') : \E u \in [1 .. m -> listed'] : ListedInOrder(m, u)'
  BY <1>1, <1>7 DEF SymbolInvariant, ListedInOrder, tableVars
<1>9. Cardinality(Lost') <= faults'
  <2>1. Lost' = Lost
    BY <1>1 DEF Lost, tableVars
  <2> QED BY <1>2, <2>1, LostIsPaidFor
<1> QED BY <1>4, <1>5, <1>6, <1>8, <1>9 DEF SymbolInvariant

(* A round of the loop frees the newest symbol that is left. *)
LEMMA SymbolIsFreedKeeps ==
  ASSUME SymbolInvariant, SymbolIsFreed, faults \in Nat, faults' \in Nat, faults <= faults'
  PROVE  SymbolInvariant'
<1>1. /\ phase' = phase /\ release = "loop" /\ release' = release /\ node # None
      /\ listed' = listed \ {node} /\ structs' = structs \ {node} /\ names' = names \ {node}
      /\ arrays' = IF fields[node].dependent_offsets = <<>> THEN arrays ELSE arrays \ {node}
      /\ node' = iterator
      /\ iterator' = IF iterator = None THEN None ELSE following[iterator]
      /\ fields' = fields /\ following' = following /\ first' = first
  BY DEF SymbolIsFreed, FreeNode, Symbol_free, vars
<1>2. /\ SymbolTypeOK /\ PartsAreAllocated /\ Cardinality(Lost) <= faults
      /\ phase = "done" /\ iterator = following[node]
  BY <1>1 DEF SymbolInvariant, IteratorIsAhead
<1>3. PICK m \in 0 .. Len(fields) : \E u : ListedInOrder(m, u)
  BY DEF SymbolInvariant
<1> PICK u : ListedInOrder(m, u)
  BY <1>3
<1>4. /\ u \in [1 .. m -> listed]
      /\ \A i, j \in 1 .. m : i < j => u[i] < u[j]
      /\ \A sym \in listed : \E i \in 1 .. m : u[i] = sym
      /\ node = IF m = 0 THEN None ELSE u[m]
      /\ \A i \in 1 .. m : following[u[i]] = IF i = 1 THEN None ELSE u[i - 1]
  BY <1>1 DEF ListedInOrder, Newest
<1>5. m \in Nat /\ m # 0 /\ node = u[m] /\ m \in 1 .. m /\ Len(fields) \in Nat
  BY <1>1, <1>2, <1>4 DEF SymbolTypeOK
<1>6. /\ listed \subseteq Nat /\ node \in listed
  BY <1>2, <1>4, <1>5 DEF SymbolTypeOK, Addresses
<1>7. following[iterator] \in Addresses \cup {None} \/ iterator = None
  BY <1>2, ElementOfSeq DEF SymbolTypeOK, Addresses
<1>8. SymbolTypeOK' /\ Addresses' = Addresses
  BY <1>1, <1>2, <1>7 DEF SymbolTypeOK, Addresses, IsSymbol
<1>9. IteratorIsAhead'
  BY <1>1, <1>2 DEF IteratorIsAhead
<1>10. PartsAreAllocated'
  BY <1>1, <1>2, <1>8 DEF PartsAreAllocated
<1>11. PICK w : w = [i \in 1 .. m - 1 |-> u[i]]
  OBVIOUS
<1>12. \A i \in 1 .. m - 1 : i \in 1 .. m /\ i < m /\ w[i] = u[i] /\ u[i] # node
  <2>1. \A i \in 1 .. m - 1 : i \in 1 .. m /\ i < m /\ w[i] = u[i]
    BY <1>5, <1>11
  <2> QED BY <1>4, <1>5, <1>6, <2>1
<1>13. w \in [1 .. m - 1 -> listed']
  BY <1>1, <1>4, <1>11, <1>12
<1>14. ListedInOrder(m - 1, w)'
  <2>1. ASSUME NEW sym \in listed' PROVE \E i \in 1 .. m - 1 : w[i] = sym
    <3>1. PICK i \in 1 .. m : u[i] = sym
      BY <1>1, <1>4
    <3>2. i # m
      BY <1>1, <1>5, <3>1
    <3>3. i \in 1 .. m - 1
      BY <1>5, <3>2
    <3> QED BY <1>12, <3>1, <3>3
  <2>2. Newest' = IF m - 1 = 0 THEN None ELSE w[m - 1]
    <3>1. Newest' = following[node]
      BY <1>1, <1>2 DEF Newest
    <3>2. following[node] = IF m = 1 THEN None ELSE u[m - 1]
      BY <1>4, <1>5
    <3>3. m # 1 => m - 1 \in 1 .. m - 1
      BY <1>5
    <3> QED BY <1>5, <1>12, <3>1, <3>2, <3>3
  <2>3. ASSUME NEW i \in 1 .. m - 1
        PROVE  following'[w[i]] = IF i = 1 THEN None ELSE w[i - 1]
    <3>1. i # 1 => i - 1 \in 1 .. m - 1
      BY <1>5
    <3> QED BY <1>1, <1>4, <1>12, <3>1
  <2>4. \A i, j \in 1 .. m - 1 : i < j => w[i] < w[j]
    BY <1>4, <1>12
  <2> QED BY <1>13, <2>1, <2>2, <2>3, <2>4 DEF ListedInOrder
<1>15. m - 1 \in 0 .. Len(fields')
  BY <1>1, <1>5
<1>16. Cardinality(Lost') <= faults'
  <2>1. Lost' \subseteq Lost
    BY <1>1, <1>6 DEF Lost
  <2> QED BY <1>2, <2>1, LostIsPaidFor
<1> QED BY <1>8, <1>9, <1>10, <1>13, <1>14, <1>15, <1>16 DEF SymbolInvariant

LEMMA NextSymbolInvariant ==
  ASSUME TypeOK, SymbolInvariant, [SourceNext]_sourceVars
  PROVE  SymbolInvariant'
<1>1. faults \in Nat /\ faults' \in Nat /\ faults <= faults'
  BY SourceQueueStep DEF TypeOK
<1>2. CASE FirstPassReads
  <2>1. phase' = phase /\ UNCHANGED <<managerVars, releaseVars, release>>
    BY <1>2 DEF FirstPassReads, PushLine
  <2> QED BY <1>1, <2>1, SymbolsStay
<1>3. CASE Declares
  BY <1>1, <1>3, DeclaresKeeps
<1>4. CASE FirstPassEnds
  BY <1>1, <1>4, ShiftKeeps
<1>5. CASE Refers
  BY <1>1, <1>5, RefersKeeps
<1>6. CASE QueueEnds
  <2>1. /\ UNCHANGED <<managerVars, releaseVars, release>>
        /\ phase # "done" /\ (phase' \in {"first", "second"} => phase' = phase)
    BY <1>6 DEF QueueEnds, EndSecondPass, FreeLine, FreeQueue
  <2> QED BY <1>1, <2>1, SymbolsStay
<1>7. CASE ReleaseBegins
  BY <1>1, <1>7, ReleaseBeginsKeeps
<1>8. CASE SymbolIsFreed
  BY <1>1, <1>8, SymbolIsFreedKeeps
<1>9. CASE ReleaseEnds
  BY <1>1, <1>9, ReleaseEndsKeeps
<1>10. CASE UNCHANGED sourceVars
  <2>1. phase' = phase /\ UNCHANGED <<managerVars, releaseVars, release>>
    BY <1>10 DEF sourceVars, vars
  <2> QED BY <1>1, <2>1, SymbolsStay
<1> QED BY <1>2, <1>3, <1>4, <1>5, <1>6, <1>7, <1>8, <1>9, <1>10
        DEF SourceNext, SourceStep, Released

LEMMA InitSymbolInvariant == SourceInit => SymbolInvariant
<1> SUFFICES ASSUME SourceInit PROVE SymbolInvariant
  OBVIOUS
<1>1. /\ fields = <<>> /\ following = <<>> /\ first = None /\ node = None /\ iterator = None
      /\ structs = {} /\ names = {} /\ arrays = {} /\ listed = {}
      /\ release = "held" /\ faults = 0
  BY DEF SourceInit, newSymbolManager, Init
<1>2. Len(fields) = 0 /\ Addresses = {}
  <2>1. Len(fields) = 0
    BY <1>1, EmptySeq
  <2> QED BY <2>1 DEF Addresses
<1>3. SymbolTypeOK
  <2>1. fields = [sym \in Addresses |-> fields[sym]] /\ DOMAIN fields = Addresses
    BY <1>1, <1>2
  <2>2. following \in Seq(Addresses \cup {None}) /\ Len(following) = 0
    BY <1>1, EmptySeq
  <2> QED BY <1>1, <1>2, <2>1, <2>2 DEF SymbolTypeOK
<1>4. IteratorIsAhead /\ PartsAreAllocated
  BY <1>1, <1>2 DEF IteratorIsAhead, PartsAreAllocated
<1>5. \E m \in 0 .. Len(fields) : \E u \in [1 .. m -> listed] : ListedInOrder(m, u)
  <2>1. PICK u : u = [i \in 1 .. 0 |-> None]
    OBVIOUS
  <2>2. u \in [1 .. 0 -> listed]
    BY <2>1
  <2>3. ListedInOrder(0, u)
    BY <1>1, <2>2 DEF ListedInOrder, Newest
  <2>4. 0 \in 0 .. Len(fields)
    BY <1>2
  <2> QED BY <2>2, <2>3, <2>4
<1>6. Cardinality(Lost) <= faults
  <2>1. Lost = {}
    BY <1>1 DEF Lost
  <2> QED BY <1>1, <2>1, FS_EmptySet
<1> QED BY <1>3, <1>4, <1>5, <1>6 DEF SymbolInvariant

SourceInvariant == QueueInvariant /\ DoneIsEmpty /\ SymbolInvariant

LEMMA NextSourceInvariant == SourceInvariant /\ [SourceNext]_sourceVars => SourceInvariant'
<1> SUFFICES ASSUME SourceInvariant, [SourceNext]_sourceVars PROVE SourceInvariant'
  OBVIOUS
<1>1. TypeOK
  BY DEF SourceInvariant, QueueInvariant
<1>2. SymbolInvariant'
  BY <1>1, NextSymbolInvariant DEF SourceInvariant
<1>3. CASE [Next]_vars
  BY <1>2, <1>3, NextQueueInvariant, DoneIsEmptyHolds DEF SourceInvariant
<1>4. CASE UNCHANGED queueVars
  <2>1. faults' \in Nat /\ faults <= faults' /\ faults \in Nat
    BY <1>1, SourceQueueStep DEF TypeOK
  <2>2. TypeOK'
    BY <1>1, <1>4, <2>1 DEF TypeOK, queueVars, heapVars
  <2>3. PICK q : q = QueueNodes
    OBVIOUS
  <2>4. QueueParts(q)
    BY <2>3 DEF SourceInvariant, QueueInvariant
  <2>5. QueueParts(q)'
    BY <1>1, <1>4, <2>1, <2>4, HeapStays DEF queueVars
  <2>6. QueueInvariant'
    BY <2>2, <2>5, NodesOfInvariantNext DEF NodesAreTheQueue
  <2>7. DoneIsEmpty'
    BY <1>4 DEF SourceInvariant, DoneIsEmpty, queueVars, heapVars
  <2> QED BY <1>2, <2>6, <2>7 DEF SourceInvariant
<1> QED BY <1>1, <1>3, <1>4, SourceQueueStep

LEMMA SpecSource == SourceSpec => []SourceInvariant
<1>1. SourceInit => SourceInvariant
  BY InitQueueInvariant, DoneIsEmptyHolds, InitSymbolInvariant DEF SourceInit, SourceInvariant
<1> QED BY <1>1, NextSourceInvariant, PTL DEF SourceSpec

-----------------------------------------------------------------------------
(***************************************************************************)
(* The invariants that the runs check.                                     *)
(***************************************************************************)
LEMMA SymbolsLive == SymbolInvariant => SymbolsAreLive
<1> SUFFICES ASSUME SymbolInvariant PROVE SymbolsAreLive
  OBVIOUS
<1>1. SymbolTypeOK /\ PartsAreAllocated /\ IteratorIsAhead /\ listed \subseteq Addresses
  BY DEF SymbolInvariant, SymbolTypeOK
<1>2. PICK m \in 0 .. Len(fields) : \E u : ListedInOrder(m, u)
  BY DEF SymbolInvariant
<1> PICK u : ListedInOrder(m, u)
  BY <1>2
<1>3. m \in Nat /\ Len(fields) \in Nat /\ m <= Len(fields)
  BY <1>1 DEF SymbolTypeOK
<1>4. \A i \in 1 .. m : u[i] \in listed /\ u[i] \in Nat
  <2>1. \A i \in 1 .. m : u[i] \in listed
    BY DEF ListedInOrder
  <2>2. Addresses \subseteq Nat
    BY <1>3 DEF Addresses
  <2> QED BY <1>1, <2>1, <2>2
<1>5. \A i, j \in 1 .. m : u[i] = u[j] => i = j
  <2> SUFFICES ASSUME NEW i \in 1 .. m, NEW j \in 1 .. m, u[i] = u[j] PROVE i = j
    OBVIOUS
  <2>1. ~ (u[i] < u[j]) /\ ~ (u[j] < u[i])
    BY <1>4
  <2>2. ~ (i < j) /\ ~ (j < i)
    BY <2>1 DEF ListedInOrder
  <2> QED BY <1>3, <2>2
<1>6. ASSUME release = "held"
      PROVE  /\ SymbolAt[Len(fields)] = None
             /\ \A j, k \in Reached : SymbolAt[j] = SymbolAt[k] => j = k
             /\ \A k \in Reached : SymbolAt[k] \in listed
  <2>1. Reached = 0 .. m - 1
    BY <1>1, <1>2, <1>6, FollowedList DEF ListIsFollowed
  <2>2. SymbolAt = [k \in 0 .. Len(fields) |-> IF k < m THEN u[m - k] ELSE None]
    BY <1>1, <1>2, <1>6, FollowedList DEF ListIsFollowed, Iterated
  <2>3. \A k \in Reached : m - k \in 1 .. m /\ SymbolAt[k] = u[m - k]
    BY <1>3, <2>1, <2>2
  <2>4. SymbolAt[Len(fields)] = None
    BY <1>3, <2>2
  <2>5. ASSUME NEW j \in Reached, NEW k \in Reached, SymbolAt[j] = SymbolAt[k] PROVE j = k
    <3>1. m - j = m - k
      BY <1>5, <2>3, <2>5
    <3> QED BY <1>3, <2>1, <3>1
  <2> QED BY <1>4, <2>3, <2>4, <2>5
<1>7. ASSUME release = "held", NEW k \in Reached
      PROVE  LET sym == SymbolAt[k]
             IN  /\ sym \in listed \cap structs \cap names
                 /\ fields[sym].dependent_offsets # <<>> => sym \in arrays
                 /\ phase \in {"first", "second"} =>
                      fields[sym].dependent_offsets_count = Len(fields[sym].dependent_offsets)
  <2>1. PICK sym \in listed : sym = SymbolAt[k]
    BY <1>6, <1>7
  <2> QED BY <1>1, <2>1 DEF PartsAreAllocated
<1>8. ASSUME release = "loop"
      PROVE  /\ {node, iterator} \subseteq listed \cup {None}
             /\ node # None => node \in structs \cap names /\ node # iterator
  <2>1. /\ node = IF m = 0 THEN None ELSE u[m]
        /\ iterator = IF node = None THEN None ELSE following[node]
    BY <1>1, <1>8 DEF ListedInOrder, Newest, IteratorIsAhead
  <2>2. CASE m = 0
    BY <2>1, <2>2
  <2>3. CASE m # 0
    <3>1. m \in 1 .. m /\ node = u[m] /\ node \in listed
      BY <1>3, <1>4, <2>1, <2>3
    <3>2. node # None
      BY <1>1, <3>1 DEF Addresses, None
    <3>3. iterator = IF m = 1 THEN None ELSE u[m - 1]
      BY <2>1, <3>1, <3>2 DEF ListedInOrder
    <3>4. m # 1 => m - 1 \in 1 .. m /\ m - 1 # m
      BY <1>3, <2>3
    <3>5. iterator \in listed \cup {None} /\ node # iterator
      BY <1>4, <1>5, <3>1, <3>2, <3>3, <3>4
    <3> QED BY <1>1, <3>1, <3>5 DEF PartsAreAllocated
  <2> QED BY <2>2, <2>3
<1> QED BY <1>6, <1>7, <1>8 DEF SymbolsAreLive

LEMMA SymbolsFreed == SymbolInvariant => SymbolsAreFreed
<1> SUFFICES ASSUME SymbolInvariant, release = "done"
             PROVE  listed = {} /\ Cardinality(structs \cup names \cup arrays) <= faults
  BY DEF SymbolsAreFreed
<1>1. SymbolTypeOK /\ IteratorIsAhead /\ Cardinality(Lost) <= faults /\ listed \subseteq Addresses
  BY DEF SymbolInvariant, SymbolTypeOK
<1>2. PICK m \in 0 .. Len(fields) : \E u : ListedInOrder(m, u)
  BY DEF SymbolInvariant
<1> PICK u : ListedInOrder(m, u)
  BY <1>2
<1>3. m = 0
  <2> SUFFICES ASSUME m # 0 PROVE FALSE
    OBVIOUS
  <2>1. m \in 1 .. m
    BY <1>1 DEF SymbolTypeOK
  <2>2. node = u[m] /\ u[m] \in listed /\ node = None
    BY <1>1, <2>1 DEF ListedInOrder, Newest, IteratorIsAhead
  <2> QED BY <1>1, <2>2 DEF Addresses, None
<1>4. listed = {}
  BY <1>3 DEF ListedInOrder
<1>5. structs \cup names \cup arrays = Lost
  BY <1>4 DEF Lost
<1> QED BY <1>1, <1>4, <1>5

-----------------------------------------------------------------------------
(* The inductive invariant of the queue of a source: the pointers lead from  *)
(* the head along nodes that differ and hold lines of their own, and only a  *)
(* failed allocation cuts off the tail or a line.                            *)
THEOREM SourceQueueInOrder == SourceSpec => []QueueInvariant
<1>1. SourceInvariant => QueueInvariant
  BY DEF SourceInvariant
<1> QED BY <1>1, SpecSource, PTL

(* The inductive invariant of symtab.c: the allocated nodes are one list from *)
(* the newest symbol to the oldest, each with its parts, and each part that   *)
(* no node leads to is paid for by a failed allocation.                       *)
THEOREM SourceSymbolsInOrder == SourceSpec => []SymbolInvariant
<1>1. SourceInvariant => SymbolInvariant
  BY DEF SourceInvariant
<1> QED BY <1>1, SpecSource, PTL

(* In every run of a source the line queue keeps its types.                  *)
THEOREM SourceTypes == SourceSpec => []TypeOK
<1>1. SourceInvariant => TypeOK
  BY DEF SourceInvariant, QueueInvariant
<1> QED BY <1>1, SpecSource, PTL

(* The passes and cleanup, as they call line_queue.c, follow no pointer to a *)
(* node that was freed, and pop no line that was.                            *)
THEOREM SourcePointersAreLive == SourceSpec => []PointersAreLive
<1>1. SourceInvariant => PointersAreLive
  BY QueueIsLive DEF SourceInvariant
<1> QED BY <1>1, SpecSource, PTL

(* When the queue of a source is freed no line and no node of it is left, if *)
(* every allocation succeeded, also those of the symbols.                    *)
THEOREM SourceLinesAreFreed == SourceSpec => []EverythingIsFreed
<1>1. SourceInvariant => EverythingIsFreed
  BY QueueIsFreed DEF SourceInvariant
<1> QED BY <1>1, SpecSource, PTL

(* Iterators of symtab.c lead to nodes, Symbols, names and offsets that are  *)
(* allocated, and to each symbol once; the loop that frees the table never   *)
(* reads what it has freed.                                                  *)
THEOREM SourceSymbolsAreLive == SourceSpec => []SymbolsAreLive
<1>1. SourceInvariant => SymbolsAreLive
  BY SymbolsLive DEF SourceInvariant
<1> QED BY <1>1, SpecSource, PTL

(* SymbolManager_free leaves no list node behind, and of the Symbols, names  *)
(* and offsets no more than one for each allocation that failed.             *)
THEOREM SourceSymbolsAreFreed == SourceSpec => []SymbolsAreFreed
<1>1. SourceInvariant => SymbolsAreFreed
  BY SymbolsFreed DEF SourceInvariant
<1> QED BY <1>1, SpecSource, PTL

(* The queue that a source is assembled through is a LineFifo.               *)
THEOREM SourceImplementsFifo == SourceSpec => ImplementsFifo
<1>1. SourceInvariant /\ [SourceNext]_sourceVars => [FifoStep]_<<Content, Linked>>
  <2> SUFFICES ASSUME SourceInvariant, [SourceNext]_sourceVars
               PROVE  [FifoStep]_<<Content, Linked>>
    OBVIOUS
  <2>1. TypeOK
    BY DEF SourceInvariant, QueueInvariant
  <2>2. CASE [Next]_vars
    BY <2>2, NextIsFifo DEF SourceInvariant
  <2>3. CASE UNCHANGED queueVars
    BY <2>3, HeapStaysIsFifo DEF queueVars
  <2> QED BY <2>1, <2>2, <2>3, SourceQueueStep
<1>2. SourceInit => Fifo!newLineQueue
  BY InitIsFifo DEF SourceInit
<1>3. SourceSpec => [][FifoStep]_<<Content, Linked>>
  BY <1>1, SpecSource, PTL DEF SourceSpec
<1>4. SourceSpec => SourceInit
  BY PTL DEF SourceSpec
<1> QED BY <1>2, <1>3, <1>4, PTL DEF ImplementsFifo, FifoStep

-----------------------------------------------------------------------------
(***************************************************************************)
(* The list of nodes is the symbol table of SymbolManager.                 *)
(***************************************************************************)
Stripped(f) == [field \in DOMAIN f \ {"dependent_offsets_count"} |-> f[field]]

TableMembers == {"symbol", "value", "is_entry", "is_external", "section", "dependent_offsets"}

LEMMA StrippedSymbol ==
  ASSUME NEW f, IsSymbol(f)
  PROVE  /\ Stripped(f) = [field \in TableMembers |-> f[field]]
         /\ Stripped(f).symbol = f.symbol /\ Stripped(f).value = f.value
         /\ Stripped(f).is_external = f.is_external /\ Stripped(f).section = f.section
         /\ Stripped(f).dependent_offsets = f.dependent_offsets
<1>1. DOMAIN f \ {"dependent_offsets_count"} = TableMembers
  BY MemberNames DEF IsSymbol, TableMembers
<1>2. Stripped(f) = [field \in TableMembers |-> f[field]]
  BY <1>1 DEF Stripped
<1> QED BY <1>2 DEF TableMembers

LEMMA StrippedNew ==
  ASSUME NEW name, NEW val, NEW external, NEW section
  PROVE  Stripped(newSymbol(name, val, external, section))
           = Table!newSymbol(name, val, external, section)
<1> DEFINE new == newSymbol(name, val, external, section)
           tab == Table!newSymbol(name, val, external, section)
<1>1. Stripped(new) = [field \in TableMembers |-> new[field]]
  BY NewSymbolIsSymbol, StrippedSymbol
<1>2. /\ tab = [field \in TableMembers |-> tab[field]]
      /\ \A field \in TableMembers : tab[field] = new[field]
  BY DEF newSymbol, Table!newSymbol, TableMembers
<1> HIDE DEF new, tab
<1>3. Stripped(new) = tab
  BY <1>1, <1>2
<1> QED BY <1>3 DEF new, tab

LEMMA StrippedChanges ==
  ASSUME NEW f, IsSymbol(f), NEW v, NEW n
  PROVE  /\ Stripped([f EXCEPT !.is_entry = v]) = [Stripped(f) EXCEPT !.is_entry = v]
         /\ Stripped([f EXCEPT !.value = v]) = [Stripped(f) EXCEPT !.value = v]
         /\ Stripped([f EXCEPT !.dependent_offsets = v, !.dependent_offsets_count = n])
              = [Stripped(f) EXCEPT !.dependent_offsets = v]
<1>1. DOMAIN f \ {"dependent_offsets_count"} = TableMembers /\ DOMAIN f = Members
  BY MemberNames DEF IsSymbol, TableMembers
<1>2. Stripped(f) = [field \in TableMembers |-> f[field]]
  BY StrippedSymbol
<1>3. Stripped([f EXCEPT !.is_entry = v]) = [Stripped(f) EXCEPT !.is_entry = v]
  <2>1. Stripped([f EXCEPT !.is_entry = v]) =
          [field \in TableMembers |-> [f EXCEPT !.is_entry = v][field]]
    BY <1>1 DEF Stripped
  <2> QED BY <1>1, <1>2, <2>1, MemberNames DEF TableMembers
<1>4. Stripped([f EXCEPT !.value = v]) = [Stripped(f) EXCEPT !.value = v]
  <2>1. Stripped([f EXCEPT !.value = v]) =
          [field \in TableMembers |-> [f EXCEPT !.value = v][field]]
    BY <1>1 DEF Stripped
  <2> QED BY <1>1, <1>2, <2>1, MemberNames DEF TableMembers
<1>5. Stripped([f EXCEPT !.dependent_offsets = v, !.dependent_offsets_count = n])
        = [Stripped(f) EXCEPT !.dependent_offsets = v]
  <2> DEFINE g == [f EXCEPT !.dependent_offsets = v, !.dependent_offsets_count = n]
  <2>1. Stripped(g) = [field \in TableMembers |-> g[field]]
    BY <1>1 DEF Stripped
  <2>2. \A field \in TableMembers :
          g[field] = IF field = "dependent_offsets" THEN v ELSE f[field]
    BY <1>1, MemberNames DEF TableMembers
  <2>3. [Stripped(f) EXCEPT !.dependent_offsets = v]
          = [field \in TableMembers |-> IF field = "dependent_offsets" THEN v ELSE f[field]]
    BY <1>2
  <2> HIDE DEF g
  <2>4. Stripped(g) = [Stripped(f) EXCEPT !.dependent_offsets = v]
    BY <2>1, <2>2, <2>3
  <2> QED BY <2>4 DEF g
<1> QED BY <1>3, <1>4, <1>5

(* The table, by the order u of its symbols. *)
TableOf(m, u) == [i \in 1 .. m |-> Stripped(fields[u[i]])]

SymbolsAreTheTable ==
  \A m, u : /\ SymbolTypeOK /\ release = "held"
            /\ m \in 0 .. Len(fields) /\ ListedInOrder(m, u)
            => Symbols = TableOf(m, u)

LEMMA TableOfList == SymbolsAreTheTable
BY FollowedList DEF SymbolsAreTheTable, ListIsFollowed, TableOf, Meaning, Stripped

LEMMA TableOfListNext == SymbolsAreTheTable'
BY TableOfList, PTL

(* A name is found in the list where it is found in the table. *)
LEMMA FindInTable ==
  ASSUME SymbolTypeOK, release = "held",
         NEW m \in 0 .. Len(fields), NEW u, ListedInOrder(m, u), NEW name
  PROVE  /\ Table!exists(name) <=> find(name) # None
         /\ find(name) # None =>
              /\ Table!find(name) \in 1 .. m /\ find(name) = u[Table!find(name)]
              /\ find(name) \in listed
<1>1. /\ m \in Nat /\ listed \subseteq Addresses
      /\ \A i \in 1 .. m : u[i] \in listed
  BY DEF SymbolTypeOK, ListedInOrder
<1>2. Symbols = TableOf(m, u)
  BY TableOfList DEF SymbolsAreTheTable
<1>3. DOMAIN Symbols = 1 .. m /\ \A i \in 1 .. m : Symbols[i].symbol = fields[u[i]].symbol
  <2>1. \A i \in 1 .. m : IsSymbol(fields[u[i]])
    BY <1>1 DEF SymbolTypeOK
  <2>2. \A i \in 1 .. m : Stripped(fields[u[i]]).symbol = fields[u[i]].symbol
    BY <2>1, StrippedSymbol
  <2> QED BY <1>2, <2>2 DEF TableOf
<1>4. CASE find(name) = None
  <2>1. \A i \in 1 .. m : u[i] # None
    BY <1>1 DEF Addresses, None
  <2>2. \A i \in 1 .. m : fields[u[i]].symbol # name
    BY <1>4, <2>1, FindIsNewest
  <2> QED BY <1>3, <1>4, <2>2 DEF Table!exists
<1>5. CASE find(name) # None
  <2>1. PICK i \in 1 .. m : /\ find(name) = u[i] /\ fields[u[i]].symbol = name
                            /\ \A j \in 1 .. m : j > i => fields[u[j]].symbol # name
    BY <1>5, FindIsNewest
  <2> DEFINE Is(k) == /\ Symbols[k].symbol = name
                      /\ \A j \in DOMAIN Symbols : j > k => Symbols[j].symbol # name
  <2>2. i \in DOMAIN Symbols /\ Is(i)
    BY <1>3, <2>1
  <2>3. \A k \in DOMAIN Symbols : Is(k) => k = i
    <3> SUFFICES ASSUME NEW k \in DOMAIN Symbols, Is(k) PROVE k = i
      OBVIOUS
    <3>1. ~ (i > k) /\ ~ (k > i)
      BY <1>3, <2>2
    <3> QED BY <1>1, <1>3, <3>1
  <2>4. Table!find(name) = i
    <3>1. Table!find(name) = CHOOSE k \in DOMAIN Symbols : Is(k)
      BY DEF Table!find
    <3> HIDE DEF Is
    <3> QED BY <2>2, <2>3, <3>1
  <2>5. Table!exists(name)
    BY <2>2 DEF Table!exists
  <2> QED BY <1>1, <1>5, <2>1, <2>4, <2>5
<1> QED BY <1>4, <1>5

FlagsAreBoolean == has_external \in BOOLEAN /\ has_entry \in BOOLEAN

LEMMA InsertIsTable ==
  ASSUME SymbolTypeOK, release = "held", release' = release, UNCHANGED releaseVars,
         NEW m \in 0 .. Len(fields), NEW u, ListedInOrder(m, u),
         NEW name, NEW val, NEW external, NEW section,
         NEW failed \in SUBSET {"struct", "name", "node"},
         insertSymbol(name, val, external, section, failed)
  PROVE  \E lost \in SUBSET {"symbol", "node"} :
           Table!insertSymbol(name, val, external, section, lost)
<1> DEFINE N == Len(fields)
           new == newSymbol(name, val, external, section)
           lost == (IF Created(failed) THEN {} ELSE {"symbol"}) \cup (failed \cap {"node"})
<1>1. /\ m \in Nat /\ N \in Nat /\ Addresses = 1 .. N
      /\ \A i \in 1 .. m : u[i] \in Addresses
  BY DEF SymbolTypeOK, ListedInOrder, Addresses
<1>2. SymbolTypeOK'
  BY InsertTypeOK
<1>3. /\ Len(fields') = N + 1 /\ fields'[N + 1] = new
      /\ \A sym \in Addresses : fields'[sym] = fields[sym]
  BY InsertedFields
<1>4. PICK w : w = [i \in 1 .. m + 1 |-> IF i = m + 1 THEN Len(fields) + 1 ELSE u[i]]
  OBVIOUS
<1>5. /\ IsLinked(name, failed) => ListedInOrder(m + 1, w)'
      /\ ~ IsLinked(name, failed) => ListedInOrder(m, u)'
  BY <1>4, InsertInOrder
<1>6. Symbols = TableOf(m, u)
  BY TableOfList DEF SymbolsAreTheTable
<1>7. Table!exists(name) <=> exists(name)
  BY FindInTable DEF exists
<1>8. /\ "symbol" \in lost <=> ~ Created(failed)
      /\ "node" \in lost <=> "node" \in failed
      /\ lost \in SUBSET {"symbol", "node"}
  OBVIOUS
<1>9. IsLinked(name, failed) <=>
        Table!InsertError(name, lost) = "SUCCESS" /\ "node" \notin lost
  <2>1. failed = {} <=> Created(failed) /\ "node" \notin failed
    BY DEF Created
  <2> HIDE DEF lost
  <2> QED BY <1>7, <1>8, <2>1 DEF IsLinked, InsertError, Table!InsertError
<1>10. Symbols' = IF IsLinked(name, failed)
                  THEN Append(Symbols, Table!newSymbol(name, val, external, section))
                  ELSE Symbols
  <2>1. CASE IsLinked(name, failed)
    <3> DEFINE entry == Table!newSymbol(name, val, external, section)
               longer == Append(Symbols, entry)
    <3>1. entry = Stripped(new)
      BY StrippedNew
    <3>2. Symbols' = TableOf(m + 1, w)'
      <4>1. m + 1 \in 0 .. Len(fields')
        BY <1>1, <1>3
      <4> QED BY <1>2, <1>5, <2>1, <4>1, TableOfListNext DEF SymbolsAreTheTable
    <3>3. TableOf(m + 1, w)' = [i \in 1 .. m + 1 |-> Stripped(fields'[w[i]])]
      BY DEF TableOf, Stripped
    <3>4. Symbols \in [1 .. m -> {Stripped(fields[sym]) : sym \in Addresses}]
      BY <1>1, <1>6 DEF TableOf
    <3>5. PICK S : Symbols \in Seq(S) /\ Len(Symbols) = m
      <4> PICK S : S = {Stripped(fields[sym]) : sym \in Addresses}
        OBVIOUS
      <4>1. Symbols \in Seq(S)
        BY <1>1, <3>4, SeqDef
      <4>2. DOMAIN Symbols = 1 .. m
        BY <3>4
      <4>3. Len(Symbols) \in Nat /\ DOMAIN Symbols = 1 .. Len(Symbols)
        BY <4>1, LenProperties
      <4>4. Len(Symbols) = m
        BY <1>1, <4>2, <4>3
      <4> QED BY <4>1, <4>4
    <3>6. longer = [k \in 1 .. m + 1 |-> longer[k]]
      <4>1. Symbols \in Seq(S \cup {entry}) /\ entry \in S \cup {entry}
        BY <3>5, SeqMonotonic
      <4> HIDE DEF entry
      <4>2. longer \in Seq(S \cup {entry}) /\ Len(longer) = m + 1
        BY <3>5, <4>1, AppendProperties
      <4> HIDE DEF longer
      <4> QED BY <4>2, LenProperties
    <3>7. longer[m + 1] = entry /\ \A k \in 1 .. m : longer[k] = Symbols[k]
      BY <3>5, AppendAnything
    <3> HIDE DEF longer, entry, new, N
    <3>8. ASSUME NEW k \in 1 .. m + 1 PROVE Stripped(fields'[w[k]]) = longer[k]
      <4>1. CASE k = m + 1
        <5>1. w[k] = N + 1
          BY <1>4, <4>1 DEF N
        <5> QED BY <1>3, <3>1, <3>7, <4>1, <5>1
      <4>2. CASE k \in 1 .. m
        <5>1. w[k] = u[k] /\ u[k] \in Addresses
          BY <1>1, <1>4, <4>2
        <5>2. Symbols[k] = Stripped(fields[u[k]])
          BY <1>6, <4>2 DEF TableOf
        <5> QED BY <1>3, <3>7, <4>2, <5>1, <5>2
      <4> QED BY <1>1, <4>1, <4>2
    <3>9. Symbols' = longer
      BY <3>2, <3>3, <3>6, <3>8
    <3> QED BY <2>1, <3>9 DEF longer, entry
  <2>2. CASE ~ IsLinked(name, failed)
    <3>1. Symbols' = TableOf(m, u)'
      <4>1. m \in 0 .. Len(fields')
        BY <1>1, <1>3
      <4> QED BY <1>2, <1>5, <2>2, <4>1, TableOfListNext DEF SymbolsAreTheTable
    <3>2. TableOf(m, u)' = [i \in 1 .. m |-> Stripped(fields'[u[i]])]
      BY DEF TableOf, Stripped
    <3>3. TableOf(m, u) = [i \in 1 .. m |-> Stripped(fields[u[i]])]
      BY DEF TableOf
    <3> QED BY <1>1, <1>3, <1>6, <2>2, <3>1, <3>2, <3>3
  <2> QED BY <2>1, <2>2
<1>11. "node" \in lost => Symbols = <<>>
  <2> SUFFICES ASSUME "node" \in failed PROVE Symbols = <<>>
    BY <1>8
  <2>1. first = None
    BY DEF insertSymbol
  <2>2. m = 0
    <3> SUFFICES ASSUME m # 0 PROVE FALSE
      OBVIOUS
    <3>1. m \in 1 .. m /\ first = u[m]
      BY <1>1 DEF ListedInOrder, Newest
    <3> QED BY <1>1, <2>1, <3>1 DEF None
  <2> QED BY <1>6, <2>2 DEF TableOf
<1>12. /\ has_external' = (has_external \/ (external /\ Created(failed)))
       /\ has_entry' = has_entry
  BY DEF insertSymbol
<1>13. has_external' = (has_external \/ (external /\ "symbol" \notin lost))
  <2> HIDE DEF lost
  <2> QED BY <1>8, <1>12
<1> HIDE DEF lost
<1>14. Table!insertSymbol(name, val, external, section, lost)
  BY <1>9, <1>10, <1>11, <1>12, <1>13 DEF Table!insertSymbol
<1> QED BY <1>8, <1>14

(* The list stays and one of its symbols, or none, changes. *)
LEMMA OneSymbolChanges ==
  ASSUME SymbolTypeOK, release = "held", release' = "held", SymbolTypeOK',
         Len(fields') = Len(fields),
         NEW m \in 0 .. Len(fields), NEW u, ListedInOrder(m, u), ListedInOrder(m, u)',
         NEW s, \A sym \in Addresses : sym # s => fields'[sym] = fields[sym]
  PROVE  /\ s \notin listed => Symbols' = Symbols
         /\ \A k \in 1 .. m : s = u[k] =>
              Symbols' = [Symbols EXCEPT ![k] = Stripped(fields'[s])]
<1>1. /\ m \in Nat /\ listed \subseteq Addresses /\ Addresses \subseteq Nat
      /\ \A i \in 1 .. m : u[i] \in listed
  BY DEF SymbolTypeOK, ListedInOrder, Addresses
<1>2. Symbols = [i \in 1 .. m |-> Stripped(fields[u[i]])]
  BY TableOfList DEF SymbolsAreTheTable, TableOf
<1>3. Symbols' = [i \in 1 .. m |-> Stripped(fields'[u[i]])]
  <2>1. Symbols' = TableOf(m, u)'
    BY TableOfListNext DEF SymbolsAreTheTable
  <2> QED BY <2>1 DEF TableOf, Stripped
<1>4. s \notin listed => Symbols' = Symbols
  BY <1>1, <1>2, <1>3
<1>5. ASSUME NEW k \in 1 .. m, s = u[k]
      PROVE  Symbols' = [Symbols EXCEPT ![k] = Stripped(fields'[s])]
  <2>1. \A i \in 1 .. m : u[i] = s => i = k
    <3> SUFFICES ASSUME NEW i \in 1 .. m, u[i] = u[k] PROVE i = k
      BY <1>5
    <3>1. ~ (i < k) /\ ~ (k < i)
      <4>1. u[i] \in Nat /\ u[k] \in Nat
        BY <1>1
      <4> QED BY <4>1 DEF ListedInOrder
    <3> QED BY <1>1, <3>1
  <2>2. \A i \in 1 .. m : i # k => fields'[u[i]] = fields[u[i]]
    BY <1>1, <2>1
  <2> QED BY <1>2, <1>3, <1>5, <2>2
<1> QED BY <1>4, <1>5

LEMMA MarkIsTable ==
  ASSUME SymbolTypeOK, release = "held", FlagsAreBoolean, UNCHANGED <<releaseVars, release>>,
         NEW m \in 0 .. Len(fields), NEW u, ListedInOrder(m, u),
         NEW name, markSymEntry(name)
  PROVE  Table!markSymEntry(name)
<1> DEFINE s == find(name)
           k == Table!find(name)
           marked == s # None /\ ~ fields[s].is_external
<1>1. /\ listed \subseteq Addresses /\ None \notin Addresses
      /\ \A sym \in Addresses : IsSymbol(fields[sym])
  BY DEF SymbolTypeOK, Addresses, None
<1>2. s \in listed \cup {None}
  BY FoundIsListed
<1>3. /\ DOMAIN fields' = Addresses /\ fields' = [sym \in Addresses |-> fields'[sym]]
      /\ \A sym \in Addresses :
           fields'[sym] = IF sym = s /\ ~ fields[sym].is_external
                          THEN [fields[sym] EXCEPT !.is_entry = TRUE] ELSE fields[sym]
  BY <1>1, <1>2, MarkedFields
<1>4. UNCHANGED <<tableVars, structs, names, arrays, has_external>>
  BY DEF markSymEntry
<1>5. has_entry' = (has_entry \/ marked)
  BY DEF markSymEntry
<1>6. /\ Table!exists(name) <=> s # None
      /\ s # None => k \in 1 .. m /\ s = u[k] /\ s \in listed
  BY FindInTable
<1>7. Symbols = [i \in 1 .. m |-> Stripped(fields[u[i]])]
  BY TableOfList DEF SymbolsAreTheTable, TableOf
<1> HIDE DEF s, k
<1>8. \A sym \in Addresses : IsSymbol(fields'[sym])
  <2> SUFFICES ASSUME NEW sym \in Addresses PROVE IsSymbol(fields'[sym])
    OBVIOUS
  <2>1. PICK f : f = fields[sym]
    OBVIOUS
  <2>2. PICK v : v = TRUE
    OBVIOUS
  <2>3. IsSymbol(f) /\ IsSymbol([f EXCEPT !.is_entry = v])
    BY <1>1, <2>1, ChangedSymbols
  <2>4. fields'[sym] = f \/ fields'[sym] = [f EXCEPT !.is_entry = v]
    BY <1>3, <2>1, <2>2
  <2> QED BY <2>3, <2>4 DEF IsSymbol
<1>9. SymbolTypeOK' /\ Len(fields') = Len(fields) /\ ListedInOrder(m, u)'
  <2>1. arrays' \subseteq Addresses
    BY <1>4 DEF SymbolTypeOK
  <2> QED BY <1>3, <1>4, <1>8, <2>1, ListStays
<1>10. PICK t : t = s
  OBVIOUS
<1>11. /\ t \notin listed => Symbols' = Symbols
       /\ \A i \in 1 .. m : t = u[i] =>
            Symbols' = [Symbols EXCEPT ![i] = Stripped(fields'[t])]
  BY <1>3, <1>9, <1>10, OneSymbolChanges
<1>12. CASE s # None /\ ~ fields[s].is_external
  <2>1. PICK f : f = fields[s]
    OBVIOUS
  <2>2. IsSymbol(f) /\ Symbols[k] = Stripped(f) /\ k \in DOMAIN Symbols
    BY <1>1, <1>6, <1>7, <1>12, <2>1
  <2>3. ~ Symbols[k].is_external
    BY <1>12, <2>1, <2>2, StrippedSymbol
  <2>4. Table!EntryError(name) = "SUCCESS"
    BY <1>6, <1>12, <2>3 DEF Table!EntryError, k
  <2>5. fields'[s] = [f EXCEPT !.is_entry = TRUE]
    BY <1>1, <1>3, <1>6, <1>12, <2>1
  <2>6. Stripped(fields'[s]) = [Symbols[k] EXCEPT !.is_entry = TRUE]
    <3>1. PICK v : v = TRUE
      OBVIOUS
    <3>2. Stripped([f EXCEPT !.is_entry = v]) = [Stripped(f) EXCEPT !.is_entry = v]
      BY <2>2, StrippedChanges
    <3>3. [f EXCEPT !.is_entry = TRUE] = [f EXCEPT !.is_entry = v]
      BY <3>1
    <3> QED BY <2>2, <2>5, <3>1, <3>2, <3>3
  <2>7. Symbols' = [Symbols EXCEPT ![k] = Stripped(fields'[s])]
    BY <1>6, <1>10, <1>11, <1>12
  <2>8. Symbols' = [Symbols EXCEPT ![k].is_entry = TRUE]
    BY <2>6, <2>7
  <2>9. has_entry' = TRUE
    BY <1>5, <1>12
  <2> QED BY <1>4, <2>4, <2>8, <2>9 DEF Table!markSymEntry, k
<1>13. CASE ~ (s # None /\ ~ fields[s].is_external)
  <2>1. has_entry' = has_entry
    BY <1>5, <1>13 DEF FlagsAreBoolean
  <2>2. fields' = fields
    BY <1>1, <1>3, <1>13 DEF SymbolTypeOK
  <2>3. Symbols' = Symbols
    <3>1. PICK z : z = None
      OBVIOUS
    <3>2. z \notin listed /\ \A sym \in Addresses : sym # z => fields'[sym] = fields[sym]
      BY <1>1, <2>2, <3>1
    <3> QED BY <1>9, <3>2, OneSymbolChanges
  <2>4. Table!EntryError(name) # "SUCCESS"
    <3>1. CASE s = None
      BY <1>6, <3>1 DEF Table!EntryError
    <3>2. CASE s # None
      <4>1. PICK f : f = fields[s]
        OBVIOUS
      <4>2. IsSymbol(f) /\ Symbols[k] = Stripped(f)
        BY <1>1, <1>6, <1>7, <3>2, <4>1
      <4>3. Symbols[k].is_external
        BY <1>13, <3>2, <4>1, <4>2, StrippedSymbol
      <4> QED BY <1>6, <3>2, <4>3 DEF Table!EntryError, k
    <3> QED BY <3>1, <3>2
  <2> QED BY <1>4, <2>1, <2>3, <2>4 DEF Table!markSymEntry
<1> QED BY <1>12, <1>13

LEMMA UseIsTable ==
  ASSUME SymbolTypeOK, SymbolTypeOK', Len(fields') = Len(fields),
         release = "held", release' = "held",
         NEW m \in 0 .. Len(fields), NEW u, ListedInOrder(m, u), ListedInOrder(m, u)',
         NEW name, NEW offset, NEW failed, useSymbol(name, offset, failed)
  PROVE  Table!useSymbol(name, offset, failed)
<1> DEFINE s == find(name)
           k == Table!find(name)
<1>1. /\ listed \subseteq Addresses /\ None \notin Addresses
      /\ \A sym \in Addresses : IsSymbol(fields[sym])
  BY DEF SymbolTypeOK, Addresses, None
<1>2. s \in listed \cup {None}
  BY FoundIsListed
<1>3. /\ \A sym \in Addresses : sym # s => fields'[sym] = fields[sym]
      /\ s # None =>
           fields'[s] =
             [fields[s] EXCEPT
                !.dependent_offsets = IF "offsets" \notin failed THEN Append(@, offset) ELSE <<>>,
                !.dependent_offsets_count = IF "offsets" \notin failed THEN @ + 1 ELSE @]
  BY <1>1, <1>2, UsedFields
<1>4. UNCHANGED <<has_external, has_entry>>
  BY DEF useSymbol
<1>5. /\ Table!exists(name) <=> s # None
      /\ s # None => k \in 1 .. m /\ s = u[k] /\ s \in listed
  BY FindInTable
<1>6. Symbols = [i \in 1 .. m |-> Stripped(fields[u[i]])]
  BY TableOfList DEF SymbolsAreTheTable, TableOf
<1> HIDE DEF s, k
<1>7. PICK t : t = s
  OBVIOUS
<1>8. /\ t \notin listed => Symbols' = Symbols
      /\ \A i \in 1 .. m : t = u[i] =>
           Symbols' = [Symbols EXCEPT ![i] = Stripped(fields'[t])]
  BY <1>3, <1>7, OneSymbolChanges
<1>9. CASE s = None
  BY <1>1, <1>4, <1>5, <1>7, <1>8, <1>9 DEF Table!useSymbol
<1>10. CASE s # None
  <2>1. PICK f : f = fields[s]
    OBVIOUS
  <2>2. IsSymbol(f) /\ Symbols[k] = Stripped(f) /\ k \in DOMAIN Symbols
    BY <1>1, <1>5, <1>6, <1>10, <2>1
  <2>3. PICK list : list = IF "offsets" \in failed THEN <<>> ELSE Append(f.dependent_offsets, offset)
    OBVIOUS
  <2>4. PICK n : n = IF "offsets" \notin failed THEN f.dependent_offsets_count + 1
                     ELSE f.dependent_offsets_count
    OBVIOUS
  <2>5. fields'[s] = [f EXCEPT !.dependent_offsets = list, !.dependent_offsets_count = n]
    BY <1>3, <1>10, <2>1, <2>3, <2>4
  <2>6. Stripped(fields'[s]) = [Symbols[k] EXCEPT !.dependent_offsets = list]
    <3>1. Stripped([f EXCEPT !.dependent_offsets = list, !.dependent_offsets_count = n])
            = [Stripped(f) EXCEPT !.dependent_offsets = list]
      <4> HIDE DEF k
      <4>1. IsSymbol(f)
        BY <2>2
      <4>2. \A g, l, c : IsSymbol(g) =>
              Stripped([g EXCEPT !.dependent_offsets = l, !.dependent_offsets_count = c])
                = [Stripped(g) EXCEPT !.dependent_offsets = l]
        BY StrippedChanges, Zenon
      <4> QED BY <4>1, <4>2, Zenon
    <3> QED BY <2>2, <2>5, <3>1, Zenon
  <2>7. Symbols' = [Symbols EXCEPT ![k] = Stripped(fields'[s])]
    BY <1>5, <1>7, <1>8, <1>10
  <2>8. Symbols[k].dependent_offsets = f.dependent_offsets
    BY <2>2, StrippedSymbol
  <2>9. Symbols' = [Symbols EXCEPT ![k].dependent_offsets =
                      IF "offsets" \in failed THEN <<>> ELSE Append(@, offset)]
    BY <2>3, <2>6, <2>7, <2>8
  <2> QED BY <1>4, <1>5, <1>10, <2>9 DEF Table!useSymbol, k
<1> QED BY <1>9, <1>10

LEMMA ShiftIsTable ==
  ASSUME SymbolTypeOK, SymbolTypeOK', Len(fields') = Len(fields),
         release = "held", release' = "held",
         NEW m \in 0 .. Len(fields), NEW u, ListedInOrder(m, u), ListedInOrder(m, u)',
         NEW offset, fixDataSymbolsOffset(offset)
  PROVE  Table!fixDataSymbolsOffset(offset)
<1>1. /\ listed \subseteq Addresses
      /\ \A sym \in Addresses : IsSymbol(fields[sym])
      /\ \A i \in 1 .. m : u[i] \in listed
  BY DEF SymbolTypeOK, ListedInOrder
<1>2. Symbols = [i \in 1 .. m |-> Stripped(fields[u[i]])]
  BY TableOfList DEF SymbolsAreTheTable, TableOf
<1>3. Symbols' = [i \in 1 .. m |-> Stripped(fields'[u[i]])]
  <2>1. Symbols' = TableOf(m, u)'
    BY TableOfListNext DEF SymbolsAreTheTable
  <2> QED BY <2>1 DEF TableOf, Stripped
<1>4. ASSUME NEW i \in 1 .. m
      PROVE  Stripped(fields'[u[i]]) =
               IF Symbols[i].section # "Data" \/ Symbols[i].is_external
               THEN Symbols[i] ELSE [Symbols[i] EXCEPT !.value = @ + offset]
  <2>1. PICK sym \in Addresses : sym = u[i] /\ sym \in listed
    BY <1>1
  <2>2. PICK f : f = fields[sym]
    OBVIOUS
  <2>3. IsSymbol(f) /\ Symbols[i] = Stripped(f)
    BY <1>1, <1>2, <2>1, <2>2
  <2>4. /\ Symbols[i].section = f.section /\ Symbols[i].is_external = f.is_external
        /\ Symbols[i].value = f.value
    BY <2>3, StrippedSymbol
  <2>5. sym \in Range(SymbolAt)
    BY <2>1, RangeIsListed
  <2>6. fields'[sym] = IF f.section # "Data" \/ f.is_external THEN f
                       ELSE [f EXCEPT !.value = @ + offset]
    BY <2>2, <2>5, ShiftedFields
  <2>7. PICK v : v = f.value + offset
    OBVIOUS
  <2>8. Stripped([f EXCEPT !.value = v]) = [Stripped(f) EXCEPT !.value = v]
    BY <2>3, StrippedChanges
  <2>9. CASE f.section # "Data" \/ f.is_external
    BY <2>1, <2>3, <2>4, <2>6, <2>9
  <2>10. CASE ~ (f.section # "Data" \/ f.is_external)
    <3>1. fields'[u[i]] = [f EXCEPT !.value = v]
      BY <2>1, <2>6, <2>7, <2>10
    <3>2. [Symbols[i] EXCEPT !.value = @ + offset] = [Stripped(f) EXCEPT !.value = v]
      BY <2>3, <2>4, <2>7
    <3> QED BY <2>4, <2>8, <2>10, <3>1, <3>2
  <2> QED BY <2>9, <2>10
<1>5. DOMAIN Symbols = 1 .. m
  BY <1>2
<1>6. Symbols' = [i \in DOMAIN Symbols |->
         IF Symbols[i].section # "Data" \/ Symbols[i].is_external
         THEN Symbols[i] ELSE [Symbols[i] EXCEPT !.value = @ + offset]]
  BY <1>3, <1>4, <1>5
<1> QED BY <1>6 DEF Table!fixDataSymbolsOffset, fixDataSymbolsOffset

(* The step of the table that a step of the source is. *)
TableStep ==
  \/ phase = "done"
  \/ /\ phase = "first" /\ handled < created
     /\ \E failed \in SUBSET {"symbol", "node"} :
          LET line == source[created]
          IN  Table!insertSymbol(line.declares, IF line.is_extern THEN 0 ELSE created,
                                 line.is_extern, line.section, failed)
  \/ phase = "first" /\ phase' # "first" /\ Table!fixDataSymbolsOffset(InstructionCounter)
  \/ /\ phase = "second" /\ head # NULL
     /\ LET line == source[data[head]]
        IN  \/ line.refers = "mark" /\ Table!markSymEntry(line.name)
            \/ \E failed \in SUBSET {"offsets"} :
                 line.refers = "use" /\ Table!useSymbol(line.name, data[head], failed)

LEMMA FlagsStayBoolean ==
  /\ SourceInit => FlagsAreBoolean
  /\ FlagsAreBoolean /\ [SourceNext]_sourceVars => FlagsAreBoolean'
<1>1. SourceInit => FlagsAreBoolean
  BY DEF SourceInit, newSymbolManager, FlagsAreBoolean
<1>2. ASSUME FlagsAreBoolean, [SourceNext]_sourceVars PROVE FlagsAreBoolean'
  <2> USE DEF FlagsAreBoolean, managerVars
  <2>1. CASE FirstPassReads
    BY <1>2, <2>1 DEF FirstPassReads
  <2>2. CASE Declares
    BY <1>2, <2>2 DEF Declares, insertSymbol
  <2>3. CASE FirstPassEnds
    BY <1>2, <2>3 DEF FirstPassEnds, fixDataSymbolsOffset
  <2>4. CASE Refers
    <3>1. \A name : markSymEntry(name) => FlagsAreBoolean'
      BY <1>2 DEF markSymEntry
    <3>2. \A name, offset, failed : useSymbol(name, offset, failed) => FlagsAreBoolean'
      BY <1>2 DEF useSymbol
    <3>3. UNCHANGED managerVars => FlagsAreBoolean'
      BY <1>2
    <3> HIDE DEF FlagsAreBoolean
    <3> QED BY <2>4, <3>1, <3>2, <3>3 DEF Refers
  <2>5. CASE QueueEnds
    BY <1>2, <2>5 DEF QueueEnds
  <2>6. CASE ReleaseBegins
    BY <1>2, <2>6 DEF ReleaseBegins, BeginFree
  <2>7. CASE SymbolIsFreed
    BY <1>2, <2>7 DEF SymbolIsFreed, FreeNode
  <2>8. CASE ReleaseEnds
    BY <1>2, <2>8 DEF ReleaseEnds
  <2>9. CASE UNCHANGED sourceVars
    BY <1>2, <2>9 DEF sourceVars
  <2> HIDE DEF FlagsAreBoolean
  <2> QED BY <1>2, <2>1, <2>2, <2>3, <2>4, <2>5, <2>6, <2>7, <2>8, <2>9
          DEF SourceNext, SourceStep, Released
<1> QED BY <1>1, <1>2

LEMMA SymbolsStayInTable ==
  ASSUME UNCHANGED managerVars
  PROVE  UNCHANGED <<Symbols, has_external, has_entry>>
<1>1. SymbolAt' = SymbolAt /\ fields' = fields
  BY DEF SymbolAt, managerVars, tableVars
<1>2. Reached' = Reached
  BY <1>1 DEF Reached
<1>3. Symbols' = Symbols
  BY <1>1, <1>2 DEF Symbols, Meaning
<1> QED BY <1>3 DEF managerVars

(* A step that keeps the addresses keeps their number. *)
LEMMA SameAddresses ==
  ASSUME SymbolTypeOK, SymbolTypeOK', DOMAIN fields' = Addresses
  PROVE  Len(fields') = Len(fields)
<1>1. /\ Len(fields) \in Nat /\ Len(fields') \in Nat
      /\ Addresses = 1 .. Len(fields) /\ DOMAIN fields' = 1 .. Len(fields')
  BY DEF SymbolTypeOK, Addresses
<1>2. 1 .. Len(fields') = 1 .. Len(fields)
  BY <1>1
<1> QED BY <1>1, <1>2

LEMMA NextIsTable ==
  ASSUME TypeOK, SymbolInvariant, SymbolInvariant', FlagsAreBoolean, [SourceNext]_sourceVars
  PROVE  [TableStep]_<<Symbols, has_external, has_entry>>
<1> SUFFICES ASSUME phase # "done"
             PROVE  [TableStep]_<<Symbols, has_external, has_entry>>
  BY DEF TableStep
<1>1. SymbolTypeOK /\ SymbolTypeOK' /\ release = "held"
  BY DEF SymbolInvariant, IteratorIsAhead
<1>2. PICK m \in 0 .. Len(fields) : \E u : ListedInOrder(m, u)
  BY DEF SymbolInvariant
<1> PICK u : ListedInOrder(m, u)
  BY <1>2
<1>3. CASE UNCHANGED managerVars
  BY <1>3, SymbolsStayInTable
<1>4. CASE Declares
  <2> DEFINE line == source[created]
             val == IF line.is_extern THEN 0 ELSE created
  <2>1. CASE UNCHANGED managerVars
    BY <2>1, SymbolsStayInTable
  <2>2. CASE \E failed \in SUBSET {"struct", "name", "node"} :
               insertSymbol(line.declares, val, line.is_extern, line.section, failed)
    <3>1. phase = "first" /\ handled < created /\ UNCHANGED <<releaseVars, release>>
      BY <1>4 DEF Declares
    <3>2. PICK failed \in SUBSET {"struct", "name", "node"} :
            insertSymbol(line.declares, val, line.is_extern, line.section, failed)
      BY <2>2
    <3>3. PICK name, v, external, section :
            /\ name = line.declares /\ v = val /\ external = line.is_extern /\ section = line.section
            /\ insertSymbol(name, v, external, section, failed)
      BY <3>2
    <3>4. \E lost \in SUBSET {"symbol", "node"} : Table!insertSymbol(name, v, external, section, lost)
      BY <1>1, <1>2, <3>1, <3>3, InsertIsTable
    <3> QED BY <3>1, <3>3, <3>4 DEF TableStep
  <2> QED BY <1>4, <2>1, <2>2 DEF Declares
<1>5. CASE FirstPassEnds
  <2>1. phase = "first" /\ phase' # "first" /\ UNCHANGED <<releaseVars, release>>
    BY <1>5 DEF FirstPassEnds, EndFirstPass, DropLine
  <2>2. PICK offset : offset = InstructionCounter /\ fixDataSymbolsOffset(offset)
    BY <1>5 DEF FirstPassEnds
  <2>3. /\ Len(fields') = Len(fields) /\ ListedInOrder(m, u)'
    <3>1. /\ UNCHANGED <<tableVars, structs, names, arrays>>
          /\ DOMAIN fields' = Addresses /\ fields' = [sym \in Addresses |-> fields'[sym]]
      BY <1>1, <2>2, ShiftedFields DEF fixDataSymbolsOffset
    <3>2. Len(fields') = Len(fields)
      BY <1>1, <3>1, SameAddresses
    <3>3. ListedInOrder(m, u)'
      BY <1>2, <2>1, <3>1 DEF ListedInOrder, Newest, tableVars, releaseVars
    <3> QED BY <3>2, <3>3
  <2>4. Table!fixDataSymbolsOffset(offset)
    BY <1>1, <1>2, <2>1, <2>2, <2>3, ShiftIsTable
  <2> QED BY <2>1, <2>2, <2>4 DEF TableStep
<1>6. CASE Refers
  <2> DEFINE line == source[data[head]]
  <2>1. phase = "second" /\ head # NULL /\ UNCHANGED <<releaseVars, release>>
    BY <1>6 DEF Refers, PopLine
  <2>2. CASE line.refers = "mark"
    <3>1. PICK name : name = line.name /\ markSymEntry(name)
      BY <1>6, <2>2 DEF Refers
    <3>2. Table!markSymEntry(name)
      BY <1>1, <1>2, <2>1, <3>1, MarkIsTable
    <3> QED BY <2>1, <2>2, <3>1, <3>2 DEF TableStep
  <2>3. CASE line.refers = "use"
    <3>1. PICK failed \in SUBSET {"offsets"} : useSymbol(line.name, data[head], failed)
      BY <1>6, <2>3 DEF Refers
    <3>2. PICK name, offset : /\ name = line.name /\ offset = data[head]
                              /\ useSymbol(name, offset, failed)
      BY <3>1
    <3>3. Len(fields') = Len(fields) /\ ListedInOrder(m, u)'
      <4>1. UNCHANGED <<tableVars, structs, names>>
        BY <3>2 DEF useSymbol
      <4>2. DOMAIN fields' = Addresses
        <5>1. find(name) \in Addresses \cup {None}
          BY <1>1, <1>2, FoundIsListed DEF SymbolTypeOK
        <5> QED BY <1>1, <3>2, <5>1, UsedFields
      <4>3. Len(fields') = Len(fields)
        BY <1>1, <4>2, SameAddresses
      <4>4. ListedInOrder(m, u)'
        BY <1>2, <2>1, <4>1 DEF ListedInOrder, Newest, tableVars, releaseVars
      <4> QED BY <4>3, <4>4
    <3>4. Table!useSymbol(name, offset, failed)
      BY <1>1, <1>2, <2>1, <3>2, <3>3, UseIsTable
    <3> QED BY <2>1, <2>3, <3>2, <3>4 DEF TableStep
  <2>4. CASE line.refers \notin {"use", "mark"}
    <3>1. UNCHANGED managerVars
      BY <1>6, <2>4 DEF Refers
    <3> QED BY <3>1, SymbolsStayInTable
  <2> QED BY <2>2, <2>3, <2>4
<1>7. CASE FirstPassReads \/ QueueEnds \/ UNCHANGED sourceVars
  <2>1. UNCHANGED managerVars
    BY <1>7 DEF FirstPassReads, QueueEnds, sourceVars
  <2> QED BY <2>1, SymbolsStayInTable
<1>8. ~ (ReleaseBegins \/ SymbolIsFreed \/ ReleaseEnds)
  BY <1>1 DEF ReleaseBegins, SymbolIsFreed, ReleaseEnds
<1> QED BY <1>4, <1>5, <1>6, <1>7, <1>8 DEF SourceNext, SourceStep, Released

(* Up to the end of the passes the list of nodes, Symbols and offsets is the *)
(* table of SymbolManager, which TwoPass is about.                           *)
THEOREM SourceImplementsTable == SourceSpec => ImplementsTable
<1>1. SourceInvariant /\ SourceInvariant' /\ FlagsAreBoolean /\ [SourceNext]_sourceVars
        => [TableStep]_<<Symbols, has_external, has_entry>>
  BY NextIsTable DEF SourceInvariant, QueueInvariant
<1>2. SourceInit => Table!newSymbolManager
  <2> SUFFICES ASSUME SourceInit PROVE Symbols = <<>> /\ has_external = FALSE /\ has_entry = FALSE
    BY DEF Table!newSymbolManager
  <2>1. SymbolInvariant /\ fields = <<>> /\ release = "held"
    BY InitSymbolInvariant DEF SourceInit, newSymbolManager
  <2>2. PICK m \in 0 .. Len(fields) : \E u : ListedInOrder(m, u)
    BY <2>1 DEF SymbolInvariant
  <2>3. m = 0 /\ 0 \in 0 .. Len(fields)
    BY <2>1, <2>2, EmptySeq
  <2>4. Symbols = [i \in 1 .. 0 |-> Meaning(SymbolAt[0 - i])]
    <3>1. Cardinality(Reached) = m
      BY <2>1, <2>2, FollowedList DEF SymbolInvariant, ListIsFollowed
    <3> QED BY <2>3, <3>1 DEF Symbols
  <2>5. Symbols = <<>>
    BY <2>4
  <2> QED BY <2>5 DEF SourceInit, newSymbolManager
<1>3. SourceSpec => [][TableStep]_<<Symbols, has_external, has_entry>>
  <2>1. SourceSpec => []FlagsAreBoolean
    BY FlagsStayBoolean, PTL DEF SourceSpec
  <2> QED BY <1>1, <2>1, SpecSource, PTL DEF SourceSpec
<1>4. SourceSpec => SourceInit
  BY PTL DEF SourceSpec
<1> QED BY <1>2, <1>3, <1>4, PTL DEF ImplementsTable, TableStep
=============================================================================
