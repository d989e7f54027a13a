-------------------------- MODULE InterruptsProofs --------------------------
(***************************************************************************)
(* Proofs about the process list of the main loop, for all nodes, tasks    *)
(* and callbacks; about pin interrupts: change notification of a port for  *)
(* every set of pins, every range of the counter of attached pins and      *)
(* every number of calls, and an INTx line for every number of calls; and  *)
(* about their composition.                                                *)
(***************************************************************************)
EXTENDS MCInterrupts, RingTheorems, FiniteSetTheorems

-----------------------------------------------------------------------------
(* The process list.  The invariant names the sequence of nodes that the   *)
(* linked list stands for, and says where in it the walk of delProcess()   *)
(* is: what another task appends meanwhile goes behind it.                 *)

Ptrs == Nodes \cup {NULL}

(* One more step along the list, before what was found from the next node. *)
Prepend(f) == [n \in Ptrs |-> IF n = NULL THEN <<>> ELSE <<n>> \o f[next[n]]]

Ends == [n \in Ptrs |-> <<>>]

LEMMA ChainExists ==
    ASSUME MaxNodes \in Nat
    PROVE  \E f : f = [k \in 0..MaxNodes |-> IF k = 0 THEN Ends ELSE Prepend(f[k - 1])]
<1> DEFINE IsChain(f, m) == f = [k \in 0..m |-> IF k = 0 THEN Ends ELSE Prepend(f[k - 1])]
           S == {m \in Nat : ~ \E f : IsChain(f, m)}
<1> SUFFICES ASSUME S # {} PROVE FALSE
  OBVIOUS
<1>1. PICK m \in S : \A k \in S : m <= k
  BY LeastNat
<1>2. CASE m = 0
  <2>1. IsChain([k \in 0..0 |-> Ends], 0)
    OBVIOUS
  <2> QED
    BY <1>2, <2>1
<1>3. CASE m # 0
  <2>1. m - 1 \in Nat /\ ~(m - 1 \in S)
    <3>1. m \in Nat /\ S \subseteq Nat
      BY <1>1
    <3> HIDE DEF S
    <3>2. m - 1 \in Nat /\ ~(m <= m - 1)
      BY <1>3, <3>1
    <3> QED
      BY <1>1, <3>2
  <2>2. PICK f : IsChain(f, m - 1)
    BY <2>1
  <2> DEFINE g == [k \in 0..m |-> IF k = 0 THEN Ends ELSE Prepend(f[k - 1])]
  <2>3. \A k \in 0..(m - 1) : g[k] = f[k]
    BY <2>2
  <2>4. \A k \in 0..m : k # 0 => g[k - 1] = f[k - 1]
    <3> HIDE DEF g
    <3>1. \A k \in 0..m : k # 0 => k - 1 \in 0..(m - 1)
      BY <2>1
    <3> QED
      BY <2>3, <3>1
  <2>5. IsChain(g, m)
    BY <2>4
  <2> QED
    BY <1>1, <2>5
<1> QED
  BY <1>2, <1>3

LEMMA ChainStep ==
    ASSUME MaxNodes \in Nat
    PROVE  /\ ChainOf[0] = Ends
           /\ \A k \in 1..MaxNodes : ChainOf[k] = Prepend(ChainOf[k - 1])
<1>1. ChainOf = CHOOSE f : f = [k \in 0..MaxNodes |-> IF k = 0 THEN Ends ELSE Prepend(f[k - 1])]
  BY DEF ChainOf, Ends, Prepend, Ptrs
<1>2. ChainOf = [k \in 0..MaxNodes |-> IF k = 0 THEN Ends ELSE Prepend(ChainOf[k - 1])]
  BY <1>1, ChainExists
<1> QED
  BY <1>2

-----------------------------------------------------------------------------
(* Sequences. *)
LEMMA DistinctFit ==
    ASSUME MaxNodes \in Nat, NEW s \in Seq(Nodes),
           \A i, j \in 1..Len(s) : s[i] = s[j] => i = j
    PROVE  Len(s) \in Nat /\ Len(s) <= MaxNodes
<1>1. Len(s) \in Nat /\ s \in [1..Len(s) -> Nodes]
  BY LenProperties
<1>2. /\ IsFiniteSet(1..Len(s)) /\ IsFiniteSet(Nodes)
      /\ Cardinality(1..Len(s)) = Len(s) /\ Cardinality(Nodes) = MaxNodes
  <2>1. /\ IsFiniteSet(1..Len(s)) /\ Cardinality(1..Len(s)) = IF 1 > Len(s) THEN 0 ELSE Len(s) - 1 + 1
    BY <1>1, FS_Interval
  <2>2. /\ IsFiniteSet(1..MaxNodes)
        /\ Cardinality(1..MaxNodes) = IF 1 > MaxNodes THEN 0 ELSE MaxNodes - 1 + 1
    BY FS_Interval
  <2> QED
    BY <1>1, <2>1, <2>2 DEF Nodes
<1> SUFFICES ASSUME MaxNodes < Len(s) PROVE FALSE
  BY <1>1
<1>3. \E x, y \in 1..Len(s) : x # y /\ s[x] = s[y]
  <2>1. Cardinality(Nodes) < Cardinality(1..Len(s))
    BY <1>2
  <2> QED
    BY <1>1, <1>2, <2>1, FS_PigeonHole
<1> QED
  BY <1>3

LEMMA FirstOfIs ==
    ASSUME registered \in Seq(Procs), NEW p, NEW j \in 1..Len(registered), registered[j] = p,
           \A i \in 1..(j - 1) : registered[i] # p
    PROVE  FirstOf(p) = j
<1> DEFINE I == {i \in 1..Len(registered) : registered[i] = p}
<1>1. FirstOf(p) = IF I # {} THEN Min(I) ELSE 0
  BY DEF FirstOf, SelectInSeq
<1>2. j \in I /\ \A y \in I : j <= y
  OBVIOUS
<1>3. Min(I) = j
  <2> HIDE DEF I
  <2>1. Min(I) \in I /\ \A y \in I : Min(I) <= y
    BY <1>2 DEF Min
  <2>2. I \subseteq Nat
    BY DEF I
  <2>3. Min(I) \in Nat /\ j \in Nat /\ j <= Min(I) /\ Min(I) <= j
    BY <1>2, <2>1, <2>2
  <2> QED
    BY <2>3
<1> QED
  BY <1>1, <1>2, <1>3

LEMMA SliceIs ==
    ASSUME NEW S, NEW s \in Seq(S), NEW m \in Int, NEW n \in Int, m >= 1, n <= Len(s)
    PROVE  /\ SubSeq(s, m, n) \in Seq(S)
           /\ Len(SubSeq(s, m, n)) = IF m <= n THEN (n - m) + 1 ELSE 0
           /\ \A i \in 1..((n - m) + 1) : SubSeq(s, m, n)[i] = s[m + (i - 1)]
<1>1. Len(s) \in Nat /\ \A i \in 1..Len(s) : s[i] \in S
  BY LenProperties, ElementOfSeq
<1>2. \A i \in m..n : s[i] \in S
  BY <1>1
<1> QED
  BY <1>2, SubSeqProperties

(* Without its jth element. *)
Removed(S, s, r, j) ==
    /\ r \in Seq(S) /\ Len(r) = Len(s) - 1
    /\ \A i \in 1..(j - 1) : r[i] = s[i]
    /\ \A i \in j..(Len(s) - 1) : r[i] = s[i + 1]

LEMMA RemoveAtIs ==
    ASSUME NEW S, NEW s \in Seq(S), NEW j \in 1..Len(s)
    PROVE  Removed(S, s, RemoveAt(s, j), j)
<1>1. Len(s) \in Nat /\ \A i \in 1..Len(s) : s[i] \in S
  BY LenProperties, ElementOfSeq
<1> DEFINE a == SubSeq(s, 1, j - 1)
           b == SubSeq(s, j + 1, Len(s))
<1>2. /\ a \in Seq(S) /\ Len(a) = j - 1
      /\ \A i \in 1..(j - 1) : a[i] = s[i]
  <2>1. PICK m \in Int, n \in Int : m = 1 /\ n = j - 1
    BY <1>1
  <2>2. /\ SubSeq(s, m, n) \in Seq(S)
        /\ Len(SubSeq(s, m, n)) = IF m <= n THEN (n - m) + 1 ELSE 0
        /\ \A i \in 1..((n - m) + 1) : SubSeq(s, m, n)[i] = s[m + (i - 1)]
    BY <1>1, <2>1, SliceIs
  <2> QED
    BY <1>1, <2>1, <2>2
<1>3. /\ b \in Seq(S) /\ Len(b) = Len(s) - j
      /\ \A i \in 1..(Len(s) - j) : b[i] = s[j + i]
  <2>1. PICK m \in Int, n \in Int : m = j + 1 /\ n = Len(s)
    BY <1>1
  <2>2. /\ SubSeq(s, m, n) \in Seq(S)
        /\ Len(SubSeq(s, m, n)) = IF m <= n THEN (n - m) + 1 ELSE 0
        /\ \A i \in 1..((n - m) + 1) : SubSeq(s, m, n)[i] = s[m + (i - 1)]
    BY <1>1, <2>1, SliceIs
  <2> QED
    BY <1>1, <2>1, <2>2
<1> HIDE DEF a, b
<1>4. IsConcat(S, a, b)
  BY <1>2, <1>3, ConcatIs
<1>5. RemoveAt(s, j) = a \o b
  BY DEF RemoveAt, a, b
<1>6. ASSUME NEW i \in 1..(j - 1) PROVE (a \o b)[i] = s[i]
  BY <1>2, <1>4 DEF IsConcat
<1>7. ASSUME NEW i \in j..(Len(s) - 1) PROVE (a \o b)[i] = s[i + 1]
  <2>1. i - (j - 1) \in 1..(Len(s) - j) /\ (j - 1) + (i - (j - 1)) = i /\ j + (i - (j - 1)) = i + 1
    BY <1>1
  <2>2. (a \o b)[(j - 1) + (i - (j - 1))] = b[i - (j - 1)]
    BY <1>2, <1>3, <1>4, <2>1 DEF IsConcat
  <2> QED
    BY <1>3, <2>1, <2>2
<1>8. a \o b \in Seq(S) /\ Len(a \o b) = Len(s) - 1
  BY <1>1, <1>2, <1>3, <1>4 DEF IsConcat
<1> QED
  BY <1>5, <1>6, <1>7, <1>8 DEF Removed

-----------------------------------------------------------------------------
(* The list that the nodes make. *)
Linked(s) ==
    /\ s \in Seq(Nodes) /\ \A i, j \in 1..Len(s) : s[i] = s[j] => i = j
    /\ {s[i] : i \in 1..Len(s)} = live
    /\ head = IF Len(s) = 0 THEN NULL ELSE s[1]
    /\ \A i \in 1..Len(s) : next[s[i]] = IF i = Len(s) THEN NULL ELSE s[i + 1]
    /\ Len(registered) = Len(s) /\ \A i \in 1..Len(s) : cb[s[i]] = registered[i]

LEMMA ChainIs ==
    ASSUME MaxNodes \in Nat, NEW s, Linked(s)
    PROVE  Chain = s
<1> DEFINE n == Len(s)
           Node(i) == IF i <= n THEN s[i] ELSE NULL
           Right(k) == \A i \in 1..(n + 1) : n + 1 - i <= k => ChainOf[k][Node(i)] = SubSeq(s, i, n)
           S == {k \in 0..MaxNodes : ~Right(k)}
<1>1. s \in Seq(Nodes) /\ n \in Nat /\ n <= MaxNodes /\ \A i \in 1..n : s[i] \in Nodes
  BY DistinctFit, ElementOfSeq DEF Linked
<1>2. \A i \in 1..(n + 1) : Node(i) \in Ptrs
  BY <1>1 DEF Ptrs
<1>3. SubSeq(s, n + 1, n) = <<>>
  BY <1>1, SubSeqEmpty
<1>4. Right(0)
  <2> SUFFICES ASSUME NEW i \in 1..(n + 1), n + 1 - i <= 0
               PROVE  ChainOf[0][Node(i)] = SubSeq(s, i, n)
    OBVIOUS
  <2>1. i = n + 1
    BY <1>1
  <2>2. ChainOf[0] = Ends
    BY ChainStep
  <2>3. Ends[Node(i)] = <<>>
    BY <1>2 DEF Ends
  <2> QED
    BY <1>3, <2>1, <2>2, <2>3
<1>5. ASSUME NEW k \in 1..MaxNodes, Right(k - 1) PROVE Right(k)
  <2> SUFFICES ASSUME NEW i \in 1..(n + 1), n + 1 - i <= k
               PROVE  ChainOf[k][Node(i)] = SubSeq(s, i, n)
    OBVIOUS
  <2>1. ChainOf[k] = Prepend(ChainOf[k - 1])
    BY ChainStep
  <2>2. ChainOf[k][Node(i)]
          = IF Node(i) = NULL THEN <<>> ELSE <<Node(i)>> \o ChainOf[k - 1][next[Node(i)]]
    BY <1>2, <2>1 DEF Prepend
  <2>3. CASE i = n + 1
    <3>1. Node(i) = NULL
      BY <1>1, <2>3
    <3> QED
      BY <1>3, <2>2, <2>3, <3>1
  <2>4. CASE i # n + 1
    <3>1. i \in 1..n /\ i + 1 \in 1..(n + 1) /\ n + 1 - (i + 1) <= k - 1
      BY <1>1, <2>4
    <3>2. Node(i) = s[i] /\ s[i] # NULL
      BY <1>1, <3>1 DEF Nodes, NULL
    <3>3. next[s[i]] = Node(i + 1)
      BY <1>1, <3>1 DEF Linked
    <3>4. ChainOf[k - 1][Node(i + 1)] = SubSeq(s, i + 1, n)
      BY <1>5, <3>1
    <3>5. SubSeq(s, i, n) = <<s[i]>> \o SubSeq(s, i + 1, n)
      <4>1. n \in i..n
        BY <1>1, <3>1
      <4> QED
        BY <1>1, <3>1, <4>1, SubSeqRecursiveFirst
    <3> QED
      BY <2>2, <3>2, <3>3, <3>4, <3>5
  <2> QED
    BY <2>3, <2>4
<1>6. S = {}
  <2> SUFFICES ASSUME S # {} PROVE FALSE
    OBVIOUS
  <2>1. S \subseteq Nat
    OBVIOUS
  <2>2. PICK k \in S : \A l \in S : k <= l
    <3> HIDE DEF S
    <3> QED
      BY <2>1, LeastNat
  <2>3. k \in 0..MaxNodes /\ ~Right(k)
    BY <2>2
  <2> HIDE DEF Right
  <2>4. k # 0
    BY <1>4, <2>3
  <2>5. k \in 1..MaxNodes /\ k - 1 \in 0..MaxNodes /\ ~(k <= k - 1)
    BY <2>3, <2>4
  <2>6. ~(k - 1 \in S)
    <3> HIDE DEF S
    <3> QED
      BY <2>2, <2>5
  <2>7. Right(k - 1)
    BY <2>5, <2>6
  <2> QED
    BY <1>5, <2>3, <2>5, <2>7
<1>7. Right(MaxNodes)
  <2> HIDE DEF Right
  <2>1. MaxNodes \in 0..MaxNodes
    OBVIOUS
  <2> QED
    BY <1>6, <2>1
<1>8. ChainOf[MaxNodes][Node(1)] = SubSeq(s, 1, n)
  <2>1. 1 \in 1..(n + 1) /\ n + 1 - 1 <= MaxNodes
    BY <1>1
  <2> QED
    BY <1>7, <2>1
<1>9. head = Node(1)
  BY <1>1 DEF Linked
<1>10. SubSeq(s, 1, n) = s
  BY <1>1, SubSeqFull
<1> QED
  BY <1>8, <1>9, <1>10 DEF Chain

-----------------------------------------------------------------------------
(* The critical section of addProcess() puts a node behind the others. *)
LEMMA AppendLinks ==
    ASSUME ListAssumption, TypeOK, NEW s, Linked(s), NEW a \in Actors, AddAppend(a)
    PROVE  \E n \in Nodes \ live : /\ live' = live \cup {n}
                                   /\ cb' = [cb EXCEPT ![n] = arg[a]]
                                   /\ Linked(Append(s, n))'
<1>1. Chain = s
  BY ChainIs DEF ListAssumption
<1>2. PICK n \in Nodes \ live :
         /\ live' = live \cup {n}
         /\ cb' = [cb EXCEPT ![n] = arg[a]]
         /\ next' = [i \in Nodes |-> IF i = n THEN NULL
                                     ELSE IF s # <<>> /\ i = s[Len(s)] THEN n ELSE next[i]]
         /\ head' = IF head = NULL THEN n ELSE head
         /\ registered' = Append(registered, arg[a])
  <2>1. PICK n \in Nodes \ live :
           /\ live' = live \cup {n}
           /\ cb' = [cb EXCEPT ![n] = arg[a]]
           /\ next' = [i \in Nodes |-> IF i = n THEN NULL
                                       ELSE IF Chain # <<>> /\ i = Last(Chain) THEN n
                                       ELSE next[i]]
           /\ head' = IF head = NULL THEN n ELSE head
           /\ registered' = Append(registered, arg[a])
    BY DEF AddAppend
  <2>2. next' = [i \in Nodes |-> IF i = n THEN NULL
                                 ELSE IF s # <<>> /\ i = s[Len(s)] THEN n ELSE next[i]]
    BY <1>1, <2>1 DEF Last
  <2> QED
    BY <2>1, <2>2
<1>3. /\ s \in Seq(Nodes) /\ Len(s) \in Nat
      /\ registered \in Seq(Procs) /\ arg[a] \in Procs /\ Len(registered) = Len(s)
      /\ \A i \in 1..Len(s) : s[i] \in Nodes /\ s[i] \in live /\ s[i] # n
  BY <1>2, LenProperties, ElementOfSeq DEF Linked, TypeOK
<1> DEFINE t == Append(s, n)
           r == Append(registered, arg[a])
<1>4. /\ t \in Seq(Nodes) /\ Len(t) = Len(s) + 1 /\ t[Len(s) + 1] = n
      /\ \A i \in 1..Len(s) : t[i] = s[i]
  BY <1>2, <1>3, AppendProperties
<1>5. /\ Len(r) = Len(s) + 1 /\ r[Len(s) + 1] = arg[a]
      /\ \A i \in 1..Len(s) : r[i] = registered[i]
  BY <1>3, AppendProperties
<1> HIDE DEF t, r
<1>6. \A i \in 1..Len(t) : i \in 1..Len(s) \/ i = Len(s) + 1
  BY <1>3, <1>4
<1>7. \A i, k \in 1..Len(t) : t[i] = t[k] => i = k
  BY <1>3, <1>4, <1>6 DEF Linked
<1>8. {t[i] : i \in 1..Len(t)} = live'
  <2>1. {s[i] : i \in 1..Len(s)} = live
    BY DEF Linked
  <2>2. Len(s) + 1 \in 1..Len(t) /\ 1..Len(s) \subseteq 1..Len(t)
    BY <1>3, <1>4
  <2> QED
    BY <1>2, <1>4, <1>6, <2>1, <2>2
<1>9. head' = IF Len(t) = 0 THEN NULL ELSE t[1]
  <2>1. CASE Len(s) = 0
    BY <1>2, <1>3, <1>4, <2>1 DEF Linked
  <2>2. CASE Len(s) # 0
    <3>1. 1 \in 1..Len(s) /\ head = s[1] /\ s[1] # NULL
      BY <1>3, <2>2 DEF Linked, Nodes, NULL
    <3> QED
      BY <1>2, <1>3, <1>4, <3>1
  <2> QED
    BY <2>1, <2>2
<1>10. ASSUME NEW i \in 1..Len(t)
       PROVE  next'[t[i]] = IF i = Len(t) THEN NULL ELSE t[i + 1]
  <2>1. CASE i = Len(s) + 1
    BY <1>2, <1>4, <2>1
  <2>2. CASE i = Len(s) /\ i # 0
    <3>1. t[i] = s[i] /\ s[i] \in Nodes /\ s[i] # n /\ s # <<>> /\ s[i] = s[Len(s)]
      BY <1>3, <1>4, <2>2
    <3>2. next'[t[i]] = n
      BY <1>2, <3>1
    <3> QED
      BY <1>3, <1>4, <2>2, <3>2
  <2>3. CASE i \in 1..(Len(s) - 1)
    <3>1. /\ i \in 1..Len(s) /\ i + 1 \in 1..Len(s) /\ Len(s) \in 1..Len(s)
          /\ i # Len(s) /\ i # Len(t)
      BY <1>3, <1>4, <2>3
    <3>2. t[i] = s[i] /\ s[i] \in Nodes /\ s[i] # n /\ s[i] # s[Len(s)] /\ t[i + 1] = s[i + 1]
      BY <1>3, <1>4, <3>1 DEF Linked
    <3>3. next'[t[i]] = next[s[i]]
      BY <1>2, <3>2
    <3>4. next[s[i]] = s[i + 1]
      BY <3>1 DEF Linked
    <3> QED
      BY <3>1, <3>2, <3>3, <3>4
  <2> QED
    BY <1>3, <1>4, <2>1, <2>2, <2>3
<1>11. /\ Len(registered') = Len(t)
       /\ \A i \in 1..Len(t) : cb'[t[i]] = registered'[i]
  <2>1. registered' = r
    BY <1>2 DEF r
  <2>2. cb \in [Nodes -> Procs]
    BY DEF TypeOK
  <2>3. ASSUME NEW i \in 1..Len(s) PROVE cb'[t[i]] = r[i]
    BY <1>2, <1>3, <1>4, <1>5, <2>2, <2>3 DEF Linked
  <2>4. cb'[t[Len(s) + 1]] = r[Len(s) + 1]
    BY <1>2, <1>4, <1>5, <2>2
  <2> QED
    BY <1>4, <1>5, <1>6, <2>1, <2>3, <2>4
<1>12. Linked(t)'
  BY <1>4, <1>7, <1>8, <1>9, <1>10, <1>11 DEF Linked
<1> QED
  BY <1>2, <1>12 DEF t

(* Where the walk of delProcess() is: at the jth node, with the one before *)
(* it in previous, and past no process like the one to delete.             *)
WalkAt(s, j) ==
    /\ j \in 1..Len(s) /\ cur = s[j] /\ prev = IF j = 1 THEN s[1] ELSE s[j - 1]
    /\ \A i \in 1..(j - 1) : cb[s[i]] # arg[LOOP]

(* The critical section of delProcess() takes out the node it has found. *)
LEMMA UnlinkLinks ==
    ASSUME ListAssumption, TypeOK, NEW s, Linked(s), NEW j, WalkAt(s, j),
           cb[cur] = arg[LOOP], DelUnlink
    PROVE  Linked(RemoveAt(s, j))' /\ registered' \in Seq(Procs)
<1> DEFINE t == RemoveAt(s, j)
           r == RemoveAt(registered, j)
           K(i) == IF i < j THEN i ELSE i + 1
<1>1. /\ s \in Seq(Nodes) /\ Len(s) \in Nat /\ j \in 1..Len(s)
      /\ registered \in Seq(Procs) /\ Len(registered) = Len(s)
      /\ \A i \in 1..Len(s) : s[i] \in Nodes /\ s[i] \in live /\ s[i] # NULL
      /\ next \in [Nodes -> Ptrs] /\ cb \in [Nodes -> Procs]
  <2>1. /\ s \in Seq(Nodes) /\ j \in 1..Len(s)
        /\ registered \in Seq(Procs) /\ Len(registered) = Len(s)
        /\ {s[i] : i \in 1..Len(s)} = live
        /\ next \in [Nodes -> Ptrs] /\ cb \in [Nodes -> Procs]
    BY DEF Linked, TypeOK, WalkAt, Ptrs
  <2>2. Len(s) \in Nat /\ \A i \in 1..Len(s) : s[i] \in Nodes
    BY <2>1, LenProperties, ElementOfSeq
  <2>3. \A i \in 1..Len(s) : s[i] \in live
    BY <2>1
  <2>4. \A x \in Nodes : x # NULL
    BY DEF Nodes, NULL
  <2> QED
    BY <2>1, <2>2, <2>3, <2>4
<1>2. \A i, k \in 1..Len(s) : s[i] = s[k] => i = k
  BY DEF Linked
<1>3. \A i \in 1..Len(s) : next[s[i]] = IF i = Len(s) THEN NULL ELSE s[i + 1]
  BY DEF Linked
<1>4. Removed(Nodes, s, t, j)
  BY <1>1, RemoveAtIs
<1>5. Removed(Procs, registered, r, j)
  BY <1>1, RemoveAtIs
<1>6. registered' = r
  <2>1. registered[j] = arg[LOOP] /\ \A i \in 1..(j - 1) : registered[i] # arg[LOOP]
    BY <1>1 DEF WalkAt, Linked
  <2>2. FirstOf(arg[LOOP]) = j
    BY <1>1, <2>1, FirstOfIs
  <2> QED
    BY <2>2 DEF DelUnlink
<1> HIDE DEF t, r
<1>7. /\ t \in Seq(Nodes) /\ Len(t) = Len(s) - 1 /\ Len(r) = Len(s) - 1
      /\ \A i \in 1..Len(t) : K(i) \in 1..Len(s) /\ K(i) # j
      /\ \A i \in 1..Len(t) : t[i] = s[K(i)] /\ r[i] = registered[K(i)]
  BY <1>1, <1>4, <1>5 DEF Removed
<1>8. \A i, k \in 1..Len(t) : t[i] = t[k] => i = k
  <2> SUFFICES ASSUME NEW i \in 1..Len(t), NEW k \in 1..Len(t), t[i] = t[k] PROVE i = k
    OBVIOUS
  <2>1. K(i) = K(k)
    BY <1>2, <1>7
  <2> QED
    BY <1>1, <1>7, <2>1
<1>9. {t[i] : i \in 1..Len(t)} = live'
  <2>1. live = {s[i] : i \in 1..Len(s)} /\ live' = live \ {s[j]}
    BY DEF Linked, DelUnlink, WalkAt
  <2>2. ASSUME NEW i \in 1..Len(t) PROVE t[i] \in live'
    <3>1. K(i) \in 1..Len(s) /\ K(i) # j /\ t[i] = s[K(i)]
      BY <1>7
    <3> HIDE DEF K
    <3>2. s[K(i)] \in live /\ s[K(i)] # s[j]
      BY <1>1, <1>2, <3>1
    <3> QED
      BY <2>1, <3>1, <3>2
  <2>3. ASSUME NEW x \in live' PROVE \E i \in 1..Len(t) : x = t[i]
    <3>1. PICK k \in 1..Len(s) : x = s[k] /\ k # j
      BY <2>1, <2>3
    <3>2. PICK i \in 1..Len(t) : K(i) = k
      <4>1. CASE k < j
        <5>1. k \in 1..Len(t) /\ K(k) = k
          BY <1>1, <1>7, <4>1
        <5> QED
          BY <5>1
      <4>2. CASE ~(k < j)
        <5>1. k - 1 \in 1..Len(t) /\ K(k - 1) = k
          BY <1>1, <1>7, <3>1, <4>2
        <5> QED
          BY <5>1
      <4> QED
        BY <4>1, <4>2
    <3> QED
      BY <1>7, <3>1, <3>2
  <2> QED
    BY <2>2, <2>3
<1>10. head' = IF Len(t) = 0 THEN NULL ELSE t[1]
  <2>1. head = s[1] /\ head' = IF s[j] = head THEN next[s[j]] ELSE head
    BY <1>1 DEF Linked, DelUnlink, WalkAt
  <2>2. CASE j = 1
    <3>1. head' = IF 1 = Len(s) THEN NULL ELSE s[2]
      BY <1>1, <1>3, <2>1, <2>2
    <3>2. Len(t) # 0 => t[1] = s[2]
      BY <1>1, <1>7, <2>2
    <3> QED
      BY <1>1, <1>7, <3>1, <3>2
  <2>3. CASE j # 1
    <3>1. 1 \in 1..Len(s) /\ 1 \in 1..Len(t) /\ K(1) = 1
      BY <1>1, <1>7, <2>3
    <3>2. s[j] # head /\ t[1] = s[1]
      BY <1>1, <1>2, <1>7, <2>1, <2>3, <3>1
    <3> QED
      BY <1>7, <2>1, <3>1, <3>2
  <2> QED
    BY <2>2, <2>3
<1>11. ASSUME NEW i \in 1..Len(t)
       PROVE  next'[t[i]] = IF i = Len(t) THEN NULL ELSE t[i + 1]
  <2>1. /\ next' = [next EXCEPT ![prev] = next[s[j]]]
        /\ prev = IF j = 1 THEN s[1] ELSE s[j - 1]
    BY DEF DelUnlink, WalkAt
  <2>2. t[i] = s[K(i)] /\ K(i) \in 1..Len(s) /\ s[K(i)] \in Nodes
    BY <1>1, <1>7
  <2>3. CASE i = j - 1
    <3>1. prev = s[i] /\ t[i] = s[i]
      BY <1>1, <2>1, <2>2, <2>3
    <3>2. next'[t[i]] = next[s[j]]
      BY <1>1, <2>1, <2>2, <3>1
    <3>3. i # Len(t) => t[i + 1] = s[j + 1] /\ j # Len(s)
      BY <1>1, <1>7, <2>3
    <3>4. i = Len(t) => j = Len(s)
      BY <1>1, <1>7, <2>3
    <3> QED
      BY <1>1, <1>3, <3>2, <3>3, <3>4
  <2>4. CASE i # j - 1
    <3>1. prev # s[K(i)]
      <4>1. CASE j = 1
        <5>1. K(i) # 1 /\ 1 \in 1..Len(s)
          BY <1>1, <1>7, <2>4, <4>1
        <5> QED
          BY <1>2, <2>1, <2>2, <4>1, <5>1
      <4>2. CASE j # 1
        <5>1. K(i) # j - 1 /\ j - 1 \in 1..Len(s)
          BY <1>1, <1>7, <2>4, <4>2
        <5> QED
          BY <1>2, <2>1, <2>2, <4>2, <5>1
      <4> QED
        BY <4>1, <4>2
    <3>2. next'[t[i]] = next[s[K(i)]]
      BY <1>1, <2>1, <2>2, <3>1
    <3>3. next[s[K(i)]] = IF K(i) = Len(s) THEN NULL ELSE s[K(i) + 1]
      BY <1>3, <2>2
    <3>4. K(i) = Len(s) <=> i = Len(t)
      BY <1>1, <1>7, <2>4
    <3>5. i # Len(t) => i + 1 \in 1..Len(t) /\ K(i + 1) = K(i) + 1
      BY <1>1, <1>7, <2>4
    <3> QED
      BY <1>7, <3>2, <3>3, <3>4, <3>5
  <2> QED
    BY <2>3, <2>4
<1>12. /\ Len(registered') = Len(t)
       /\ \A i \in 1..Len(t) : cb'[t[i]] = registered'[i]
  <2>1. cb' = cb /\ \A k \in 1..Len(s) : cb[s[k]] = registered[k]
    BY DEF DelUnlink, Linked
  <2> QED
    BY <1>6, <1>7, <2>1
<1>13. Linked(t)'
  BY <1>7, <1>8, <1>9, <1>10, <1>11, <1>12 DEF Linked
<1>14. registered' \in Seq(Procs)
  BY <1>5, <1>6 DEF Removed
<1> QED
  BY <1>13, <1>14 DEF t

-----------------------------------------------------------------------------
(* Before the list exists only forever() may be in addProcess(), so nobody *)
(* finds it absent and then makes it twice.                                *)
Listless ==
    /\ ~list => /\ live = {}
                /\ \A a \in Tasks : pc[a] = "idle"
                /\ pc[LOOP] \in {"idle", "add", "mklist"}
    /\ \A a \in Actors : pc[a] = "mklist" => ~list

(* While a process runs its own node stays: it is deleted by nobody. *)
Running ==
    \/ pc[LOOP] \in {"call", "in", "yield", "walk", "unlink"}
    \/ pc[LOOP] \in {"add", "mklist", "append"} /\ back = "in"

Walking == pc[LOOP] \in {"walk", "unlink"}

CallSound ==
    /\ Running => at \in live
    /\ Walking => cb[at] # arg[LOOP] /\ prev \in live \cup {NULL}

WalkSound(s) ==
    /\ Walking /\ cur # NULL => \E j : WalkAt(s, j)
    /\ pc[LOOP] = "unlink" => cur # NULL /\ cb[cur] = arg[LOOP]

ListInv ==
    /\ TypeOK /\ Listless /\ CallSound
    /\ \E s : Linked(s) /\ WalkSound(s)

LEMMA ListInit == ListAssumption /\ Init => ListInv
<1> SUFFICES ASSUME ListAssumption, Init PROVE ListInv
  OBVIOUS
<1>1. LOOP \in Actors /\ \A a \in Tasks : a \in Actors
  BY DEF Actors
<1>2. TypeOK
  <2>1. registered \in Seq(Procs)
    BY DEF Init
  <2>2. list \in BOOLEAN
    BY Zenon DEF Init
  <2>3. adds \in 0..MaxAdds
    BY DEF Init, ListAssumption
  <2> QED
    BY <2>1, <2>2, <2>3 DEF Init, TypeOK, ListAssumption
<1>3. Listless /\ CallSound /\ WalkSound(<<>>)
  BY <1>1 DEF Init, Listless, CallSound, Running, Walking, WalkSound
<1>4. Linked(<<>>)
  BY DEF Linked, Init
<1> QED
  BY <1>2, <1>3, <1>4 DEF ListInv

LEMMA SameList ==
    ASSUME NEW s, Linked(s), UNCHANGED <<heap, registered>>
    PROVE  Linked(s)'
BY DEF Linked, heap

(* A step of addProcess() in one task. *)
LEMMA AddKeeps ==
    ASSUME ListAssumption, ~EarlyTasks, ListInv, NEW a \in Actors, AddStep(a)
    PROVE  ListInv'
<1>1. PICK s : Linked(s) /\ WalkSound(s)
  BY DEF ListInv
<1>2. /\ LOOP \in Actors /\ \A b \in Tasks : b \in Actors /\ b # LOOP
      /\ TypeOK /\ Listless /\ CallSound
  BY DEF Actors, ListAssumption, ListInv
<1>3. CASE AddCheck(a)
  <2>1. TypeOK'
    BY <1>2, <1>3 DEF TypeOK, AddCheck, Goto, heap, walk
  <2>2. Listless'
    BY <1>2, <1>3 DEF Listless, TypeOK, AddCheck, Goto, heap, walk
  <2>3. CallSound' /\ WalkSound(s)'
    BY <1>1, <1>2, <1>3
    DEF CallSound, WalkSound, WalkAt, Running, Walking, TypeOK, AddCheck, Goto, heap, walk
  <2>4. Linked(s)'
    BY <1>1, <1>3, SameList DEF AddCheck
  <2> QED
    BY <2>1, <2>2, <2>3, <2>4 DEF ListInv
<1>4. CASE AddMakeList(a)
  <2>1. ~list /\ a = LOOP /\ live = {}
    BY <1>2, <1>4 DEF Listless, AddMakeList, Actors
  <2>2. TypeOK'
    <3>1. list' \in BOOLEAN
      BY <1>4, Zenon DEF AddMakeList
    <3> QED
      BY <1>2, <1>4, <3>1 DEF TypeOK, AddMakeList, Goto, walk
  <2>3. Listless'
    BY <1>2, <1>4, <2>1 DEF Listless, TypeOK, AddMakeList, Goto, Actors
  <2>4. CallSound' /\ WalkSound(s)'
    BY <1>1, <1>2, <1>4, <2>1
    DEF CallSound, WalkSound, Running, Walking, TypeOK, AddMakeList, Goto, walk
  <2>5. Len(s) = 0
    <3>1. Len(s) \in Nat /\ \A i \in 1..Len(s) : s[i] \in {}
      BY <1>1, <2>1, LenProperties DEF Linked
    <3>2. ~(1 \in 1..Len(s))
      BY <3>1
    <3> QED
      BY <3>1, <3>2
  <2>6. Linked(s)'
    BY <1>1, <1>4, <2>5 DEF Linked, AddMakeList
  <2> QED
    BY <2>2, <2>3, <2>4, <2>6 DEF ListInv
<1>5. CASE AddAppend(a)
  <2>1. PICK n \in Nodes \ live : /\ live' = live \cup {n}
                                  /\ cb' = [cb EXCEPT ![n] = arg[a]]
                                  /\ Linked(Append(s, n))'
    BY <1>1, <1>2, <1>5, AppendLinks
  <2>2. list
    BY <1>2, <1>5 DEF Listless, AddAppend, Actors
  <2>3. back \in {"idle", "boot", "pass", "in"} /\ pc' = [pc EXCEPT ![a] = IF a = LOOP THEN back ELSE "idle"]
    BY <1>2, <1>5 DEF TypeOK, AddAppend, Returned, Goto
  <2>4. TypeOK'
    <3>1. pc' \in [Actors -> {"idle", "boot", "pass", "call", "in", "yield", "add", "mklist",
                              "append", "walk", "unlink"}]
      BY <1>2, <2>3 DEF TypeOK
    <3>2. registered' \in Seq(Procs)
      <4>1. arg[a] \in Procs /\ registered \in Seq(Procs)
        BY <1>2 DEF TypeOK
      <4>2. registered' = Append(registered, arg[a])
        BY <1>5 DEF AddAppend
      <4> QED
        BY <4>1, <4>2, AppendProperties
    <3>3. cb' \in [Nodes -> Procs] /\ live' \subseteq Nodes
      BY <1>2, <2>1 DEF TypeOK
    <3>4. head' \in Ptrs /\ next' \in [Nodes -> Ptrs]
      BY <1>2, <1>5 DEF TypeOK, AddAppend, Ptrs
    <3>5. UNCHANGED <<list, arg, back, walk, adds>>
      BY <1>5 DEF AddAppend
    <3> QED
      BY <1>2, <3>1, <3>2, <3>3, <3>4, <3>5 DEF TypeOK, Ptrs, walk
  <2>5. Listless'
    BY <1>2, <1>5, <2>2, <2>3 DEF Listless, TypeOK, AddAppend
  <2>6. UNCHANGED <<arg, back, at, cur, prev>>
    BY <1>5 DEF AddAppend, walk
  <2>7. \A x \in live : cb'[x] = cb[x] /\ x \in live'
    BY <1>2, <2>1 DEF TypeOK
  <2>8. CallSound'
    <3>1. Running' => Running
      BY <1>2, <1>5, <2>3, <2>6 DEF Running, TypeOK, AddAppend
    <3>2. Walking' => Walking
      BY <1>2, <2>3 DEF Walking, TypeOK
    <3>3. Walking => Running
      BY DEF Walking, Running
    <3> QED
      BY <1>2, <2>6, <2>7, <3>1, <3>2, <3>3 DEF CallSound
  <2>9. WalkSound(Append(s, n))'
    <3> SUFFICES ASSUME Walking' PROVE WalkSound(Append(s, n))'
      BY DEF WalkSound, Walking
    <3>1. a # LOOP /\ Walking /\ pc'[LOOP] = pc[LOOP]
      BY <1>2, <2>3 DEF Walking, TypeOK
    <3>2. CASE cur = NULL
      BY <1>1, <2>6, <3>1, <3>2 DEF WalkSound
    <3>3. CASE cur # NULL
      <4>1. PICK j : WalkAt(s, j)
        BY <1>1, <3>1, <3>3 DEF WalkSound
      <4>2. s \in Seq(Nodes) /\ n \in Nodes /\ Len(s) \in Nat /\ \A i \in 1..Len(s) : s[i] \in live
        BY <1>1, LenProperties DEF Linked
      <4>3. Len(Append(s, n)) = Len(s) + 1 /\ \A i \in 1..Len(s) : Append(s, n)[i] = s[i]
        BY <4>2, AppendProperties
      <4>4. WalkAt(Append(s, n), j)'
        <5> DEFINE t == Append(s, n)
        <5>1. j \in 1..Len(s) /\ cur = s[j] /\ prev = IF j = 1 THEN s[1] ELSE s[j - 1]
          BY <4>1 DEF WalkAt
        <5>2. /\ j \in 1..Len(t) /\ t[j] = s[j] /\ t[1] = s[1]
              /\ j # 1 => t[j - 1] = s[j - 1]
              /\ \A i \in 1..(j - 1) : i \in 1..Len(s) /\ t[i] = s[i]
          <6> HIDE DEF t
          <6>1. Len(t) = Len(s) + 1 /\ \A i \in 1..Len(s) : t[i] = s[i]
            BY <4>3 DEF t
          <6> QED
            BY <4>2, <5>1, <6>1
        <5> HIDE DEF t
        <5>3. \A i \in 1..(j - 1) : cb'[t[i]] # arg[LOOP]
          BY <2>7, <4>1, <4>2, <5>2 DEF WalkAt
        <5>4. WalkAt(t, j)'
          BY <2>6, <5>1, <5>2, <5>3 DEF WalkAt
        <5> QED
          BY <5>4 DEF t
      <4>5. cur \in live
        BY <4>1, <4>2 DEF WalkAt
      <4> QED
        BY <1>1, <2>6, <2>7, <3>1, <4>4, <4>5 DEF WalkSound
    <3> QED
      BY <3>2, <3>3
  <2> QED
    BY <2>1, <2>4, <2>5, <2>8, <2>9 DEF ListInv
<1>6. CASE AddNoMemory(a)
  <2>1. list
    BY <1>2, <1>6 DEF Listless, AddNoMemory, Actors
  <2>2. back \in {"idle", "boot", "pass", "in"} /\ pc' = [pc EXCEPT ![a] = IF a = LOOP THEN back ELSE "idle"]
    BY <1>2, <1>6 DEF TypeOK, AddNoMemory, Returned, Goto
  <2>3. UNCHANGED <<list, head, cb, next, live, arg, back, at, cur, prev, adds, registered>>
    BY <1>6 DEF AddNoMemory, heap, walk
  <2>4. TypeOK'
    BY <1>2, <2>2, <2>3 DEF TypeOK
  <2>5. Listless'
    BY <1>2, <2>1, <2>2, <2>3 DEF Listless, TypeOK
  <2>6. CallSound' /\ WalkSound(s)'
    BY <1>1, <1>2, <1>6, <2>2, <2>3
    DEF CallSound, WalkSound, WalkAt, Running, Walking, TypeOK, AddNoMemory
  <2>7. Linked(s)'
    BY <1>1, <1>6, SameList DEF AddNoMemory
  <2> QED
    BY <2>4, <2>5, <2>6, <2>7 DEF ListInv
<1> QED
  BY <1>3, <1>4, <1>5, <1>6 DEF AddStep

(* A call of addProcess() begins. *)
LEMMA CallKeeps ==
    ASSUME ListAssumption, ListInv, NEW a \in Actors, NEW p \in Procs,
           NEW ret \in {"idle", "boot", "pass", "in"}, AddCall(a, p, ret), adds' \in 0..MaxAdds,
           a # LOOP => list,
           a = LOOP => pc[LOOP] \in {"idle", "boot", "in"} /\ (ret = "in" => pc[LOOP] = "in")
    PROVE  ListInv'
<1>1. PICK s : Linked(s) /\ WalkSound(s)
  BY DEF ListInv
<1>2. LOOP \in Actors /\ TypeOK /\ Listless /\ CallSound
  BY DEF Actors, ListInv
<1>3. /\ pc' = [pc EXCEPT ![a] = "add"] /\ arg' = [arg EXCEPT ![a] = p]
      /\ back' = IF a = LOOP THEN ret ELSE back
      /\ UNCHANGED <<list, head, cb, next, live, at, cur, prev, registered>>
  BY DEF AddCall, Goto, heap, walk
<1>4. TypeOK'
  BY <1>2, <1>3 DEF TypeOK
<1>5. Listless'
  BY <1>2, <1>3 DEF Listless, TypeOK, Actors
<1>6. CallSound' /\ WalkSound(s)'
  BY <1>1, <1>2, <1>3 DEF CallSound, WalkSound, WalkAt, Running, Walking, TypeOK
<1>7. Linked(s)'
  BY <1>1, SameList DEF AddCall
<1> QED
  BY <1>4, <1>5, <1>6, <1>7 DEF ListInv

(* delProcess(), up to its critical section and with it. *)
LEMMA DelKeeps ==
    ASSUME ListAssumption, ~SelfDelete, ListInv,
           DelWalk \/ DelUnlink \/ \E p \in Procs : DelCall(p)
    PROVE  ListInv'
<1>1. PICK s : Linked(s) /\ WalkSound(s)
  BY DEF ListInv
<1>2. LOOP \in Actors /\ TypeOK /\ Listless /\ CallSound
  BY DEF Actors, ListInv
<1>3. /\ s \in Seq(Nodes) /\ Len(s) \in Nat /\ live = {s[i] : i \in 1..Len(s)}
      /\ \A i \in 1..Len(s) : s[i] \in Nodes /\ s[i] \in live
      /\ head = IF Len(s) = 0 THEN NULL ELSE s[1]
  BY <1>1, LenProperties, ElementOfSeq DEF Linked
<1>4. CASE DelWalk
  <2>1. /\ pc[LOOP] = "walk"
        /\ UNCHANGED <<list, head, cb, next, live, arg, back, at, adds, registered>>
    BY <1>4 DEF DelWalk, heap
  <2>2. Linked(s)'
    BY <1>1, <1>4, SameList DEF DelWalk
  <2>3. CASE cur = NULL /\ Goto(LOOP, "in") /\ UNCHANGED <<cur, prev>>
    <3>1. TypeOK' /\ Listless' /\ CallSound' /\ WalkSound(s)'
      BY <1>2, <2>1, <2>3
      DEF TypeOK, Listless, CallSound, WalkSound, Running, Walking, Goto, Actors
    <3> QED
      BY <2>2, <3>1 DEF ListInv
  <2>4. CASE cur # NULL /\ cb[cur] = arg[LOOP] /\ Goto(LOOP, "unlink") /\ UNCHANGED <<cur, prev>>
    <3>1. TypeOK' /\ Listless' /\ CallSound'
      BY <1>2, <2>1, <2>4
      DEF TypeOK, Listless, CallSound, Running, Walking, Goto, Actors
    <3>2. WalkSound(s)'
      BY <1>1, <1>2, <2>1, <2>4 DEF TypeOK, WalkSound, WalkAt, Walking, Goto
    <3> QED
      BY <2>2, <3>1, <3>2 DEF ListInv
  <2>5. CASE cur # NULL /\ cb[cur] # arg[LOOP] /\ prev' = cur /\ cur' = next[cur] /\ UNCHANGED pc
    <3>1. PICK j : WalkAt(s, j)
      BY <1>1, <2>1, <2>5 DEF WalkSound, Walking
    <3>2. /\ j \in 1..Len(s) /\ cur = s[j] /\ cur \in Nodes /\ cur \in live
          /\ cur' = IF j = Len(s) THEN NULL ELSE s[j + 1]
      BY <1>1, <1>3, <2>5, <3>1 DEF WalkAt, Linked
    <3>3. CASE j = Len(s)
      <4>1. cur' = NULL
        BY <3>2, <3>3
      <4>2. TypeOK' /\ Listless'
        BY <1>2, <2>1, <2>5, <4>1 DEF TypeOK, Listless
      <4>3. CallSound' /\ WalkSound(s)'
        BY <1>2, <2>1, <2>5, <3>2, <4>1 DEF CallSound, WalkSound, Running, Walking
      <4> QED
        BY <2>2, <4>2, <4>3 DEF ListInv
    <3>4. CASE j # Len(s)
      <4>1. j + 1 \in 1..Len(s) /\ j + 1 # 1 /\ (j + 1) - 1 = j /\ cur' = s[j + 1] /\ cur' \in Nodes
        BY <1>3, <3>2, <3>4
      <4>2. TypeOK' /\ Listless'
        BY <1>2, <2>1, <2>5, <4>1 DEF TypeOK, Listless
      <4>3. CallSound'
        BY <1>2, <2>1, <2>5, <3>2 DEF CallSound, Running, Walking
      <4>4. \A i \in 1..j : cb[s[i]] # arg[LOOP]
        <5>1. \A i \in 1..j : i = j \/ i \in 1..(j - 1)
          BY <3>2
        <5> QED
          BY <2>5, <3>1, <3>2, <5>1 DEF WalkAt
      <4>5. WalkAt(s, j + 1)'
        BY <2>1, <2>5, <3>2, <4>1, <4>4 DEF WalkAt
      <4>6. WalkSound(s)'
        BY <2>1, <2>5, <4>5 DEF WalkSound, Walking
      <4> QED
        BY <2>2, <4>2, <4>3, <4>6 DEF ListInv
    <3> QED
      BY <3>3, <3>4
  <2> QED
    BY <1>4, <2>3, <2>4, <2>5 DEF DelWalk
<1>5. CASE DelUnlink
  <2>1. /\ pc[LOOP] = "unlink" /\ pc' = [pc EXCEPT ![LOOP] = "in"]
        /\ next' = [next EXCEPT ![prev] = next[cur]]
        /\ head' = (IF cur = head THEN next[cur] ELSE head)
        /\ live' = live \ {cur}
        /\ UNCHANGED <<list, cb, arg, back, at, cur, prev, adds>>
    BY <1>5 DEF DelUnlink, Goto, walk
  <2>2. cur # NULL /\ cb[cur] = arg[LOOP]
    BY <1>1, <2>1 DEF WalkSound
  <2>3. PICK j : WalkAt(s, j)
    BY <1>1, <2>1, <2>2 DEF WalkSound, Walking
  <2>4. Linked(RemoveAt(s, j))' /\ registered' \in Seq(Procs)
    BY <1>1, <1>2, <1>5, <2>2, <2>3, UnlinkLinks
  <2>5. cur \in Nodes /\ next[cur] \in Nodes \cup {NULL}
    BY <1>2, <1>3, <2>3 DEF WalkAt, TypeOK
  <2>6. TypeOK'
    BY <1>2, <2>1, <2>4, <2>5 DEF TypeOK
  <2>7. list
    BY <1>2, <2>1 DEF Listless
  <2>8. Listless'
    BY <1>2, <2>1, <2>7 DEF Listless, TypeOK
  <2>9. at \in live' /\ at' = at
    BY <1>2, <2>1, <2>2 DEF CallSound, Running, Walking
  <2>10. pc'[LOOP] = "in"
    BY <1>2, <2>1 DEF TypeOK
  <2>11. CallSound' /\ WalkSound(RemoveAt(s, j))'
    BY <2>9, <2>10 DEF CallSound, WalkSound, Walking
  <2> QED
    BY <2>4, <2>6, <2>8, <2>11 DEF ListInv
<1>6. ASSUME NEW p \in Procs, DelCall(p) PROVE ListInv'
  <2>1. /\ pc[LOOP] = "in" /\ p # cb[at] /\ pc' = [pc EXCEPT ![LOOP] = "walk"]
        /\ arg' = [arg EXCEPT ![LOOP] = p] /\ cur' = head /\ prev' = head
        /\ UNCHANGED <<list, head, cb, next, live, back, at, adds, registered>>
    BY <1>6 DEF DelCall, Goto, heap
  <2>2. Linked(s)'
    BY <1>1, <1>6, SameList DEF DelCall
  <2>3. TypeOK' /\ Listless'
    BY <1>2, <2>1 DEF TypeOK, Listless
  <2>4. pc'[LOOP] = "walk" /\ arg'[LOOP] = p
    BY <1>2, <2>1 DEF TypeOK
  <2>5. head \in live \cup {NULL} /\ (head # NULL => 1 \in 1..Len(s) /\ head = s[1])
    BY <1>3
  <2>6. CallSound'
    BY <1>2, <2>1, <2>4, <2>5 DEF CallSound, Running, Walking
  <2>7. head # NULL => WalkAt(s, 1)'
    BY <2>1, <2>5 DEF WalkAt
  <2>8. WalkSound(s)'
    BY <2>1, <2>4, <2>7 DEF WalkSound
  <2> QED
    BY <2>2, <2>3, <2>6, <2>8 DEF ListInv
<1> QED
  BY <1>4, <1>5, <1>6

(* The endless loop, from one process to the next. *)
LEMMA LoopKeeps ==
    ASSUME ListAssumption, ListInv, ExePass \/ ExeCall \/ ExeStep \/ ProcReturn
    PROVE  ListInv'
<1>1. PICK s : Linked(s) /\ WalkSound(s)
  BY DEF ListInv
<1>2. LOOP \in Actors /\ TypeOK /\ Listless /\ CallSound
  BY DEF Actors, ListInv
<1>3. /\ Len(s) \in Nat /\ live = {s[i] : i \in 1..Len(s)}
      /\ \A i \in 1..Len(s) : s[i] \in Nodes /\ s[i] \in live
      /\ head = IF Len(s) = 0 THEN NULL ELSE s[1]
      /\ \A i \in 1..Len(s) : next[s[i]] = IF i = Len(s) THEN NULL ELSE s[i + 1]
  BY <1>1, LenProperties, ElementOfSeq DEF Linked
<1>4. /\ UNCHANGED <<list, head, cb, next, live, arg, back, cur, prev, adds, registered>>
      /\ pc[LOOP] \in {"pass", "call", "in", "yield"}
      /\ \E l \in {"pass", "call", "in", "yield"} :
           /\ pc' = [pc EXCEPT ![LOOP] = l]
           /\ l # "pass" => at' \in live
           /\ at' \in Nodes \cup {NULL}
  <2>1. CASE ExePass
    <3>1. head \in live \cup {NULL}
      BY <1>3
    <3> QED
      BY <1>2, <2>1, <3>1 DEF ExePass, Goto, heap, TypeOK
  <2>2. CASE ExeCall
    BY <1>2, <2>2 DEF ExeCall, Goto, heap, walk, TypeOK, CallSound, Running
  <2>3. CASE ProcReturn
    BY <1>2, <2>3 DEF ProcReturn, Goto, heap, walk, TypeOK, CallSound, Running
  <2>4. CASE ExeStep
    <3>1. at \in live
      BY <1>2, <2>4 DEF CallSound, Running, ExeStep
    <3>2. next[at] \in live \cup {NULL}
      <4>1. PICK i \in 1..Len(s) : at = s[i]
        BY <1>3, <3>1
      <4>2. i # Len(s) => i + 1 \in 1..Len(s)
        BY <1>3
      <4> QED
        BY <1>3, <4>1, <4>2
    <3> QED
      BY <1>2, <2>4, <3>2 DEF ExeStep, Goto, heap, TypeOK
  <2> QED
    BY <2>1, <2>2, <2>3, <2>4
<1>5. PICK l \in {"pass", "call", "in", "yield"} :
        pc' = [pc EXCEPT ![LOOP] = l] /\ (l # "pass" => at' \in live) /\ at' \in Nodes \cup {NULL}
  BY <1>4
<1>6. list /\ pc'[LOOP] = l
  BY <1>2, <1>4, <1>5 DEF Listless, TypeOK
<1>7. TypeOK' /\ Listless'
  BY <1>2, <1>4, <1>5, <1>6 DEF TypeOK, Listless
<1>8. CallSound' /\ WalkSound(s)'
  BY <1>4, <1>5, <1>6 DEF CallSound, WalkSound, Running, Walking
<1>9. Linked(s)'
  BY <1>1, <1>4, SameList DEF heap
<1> QED
  BY <1>7, <1>8, <1>9 DEF ListInv

LEMMA ListStep ==
    ASSUME ListAssumption, ~EarlyTasks, ~SelfDelete, ListInv, [Next]_vars
    PROVE  ListInv'
<1>1. TimerProc \in Procs /\ LoopProc \in Procs /\ LOOP \in Actors
  BY DEF ListAssumption, Actors
<1>2. \A a \in Tasks : a \in Actors /\ a # LOOP
  BY DEF ListAssumption, Actors
<1>3. adds \in 0..MaxAdds /\ (Counted => adds' \in 0..MaxAdds)
  BY DEF ListInv, TypeOK, Counted, ListAssumption
<1>4. CASE UNCHANGED vars
  <2>1. PICK s : Linked(s) /\ WalkSound(s)
    BY DEF ListInv
  <2>2. TypeOK' /\ Listless' /\ CallSound'
    BY <1>4
    DEF ListInv, TypeOK, Listless, CallSound, Running, Walking, vars, heap, walk
  <2>3. Linked(s)' /\ WalkSound(s)'
    BY <1>4, <2>1 DEF Linked, WalkSound, WalkAt, Walking, vars, heap, walk
  <2> QED
    BY <2>2, <2>3 DEF ListInv
<1>5. CASE Boot
  BY <1>1, <1>3, <1>5, CallKeeps DEF Boot
<1>6. CASE BootLoop
  BY <1>1, <1>3, <1>6, CallKeeps DEF BootLoop
<1>7. ASSUME NEW a \in Tasks, TaskCall(a) PROVE ListInv'
  BY <1>2, <1>3, <1>7, CallKeeps DEF TaskCall
<1>8. CASE ProcCall
  <2>1. CASE \E p \in Procs : DelCall(p)
    BY <2>1, DelKeeps
  <2>2. CASE \E p \in Procs : Counted /\ AddCall(LOOP, p, "in")
    BY <1>1, <1>3, <1>8, <2>2, CallKeeps DEF ProcCall
  <2> QED
    BY <1>8, <2>1, <2>2 DEF ProcCall
<1>9. CASE DelWalk \/ DelUnlink
  BY <1>9, DelKeeps
<1>10. CASE ExePass \/ ExeCall \/ ExeStep \/ ProcReturn
  BY <1>10, LoopKeeps
<1>11. ASSUME NEW a \in Actors, AddStep(a) PROVE ListInv'
  BY <1>11, AddKeeps
<1> QED
  BY <1>1, <1>2, <1>4, <1>5, <1>6, <1>7, <1>8, <1>9, <1>10, <1>11 DEF Next, LoopStep

(* The nodes are in the order of registration, none is left out, and what *)
(* the walks hold is among them.                                          *)
LEMMA ListInvIsSound == ListAssumption /\ ListInv => ListSound
<1> SUFFICES ASSUME ListAssumption, ListInv PROVE ListSound
  OBVIOUS
<1>1. PICK s : Linked(s) /\ WalkSound(s)
  BY DEF ListInv
<1>2. TypeOK /\ CallSound
  BY DEF ListInv
<1>3. /\ Len(s) \in Nat /\ registered \in Seq(Procs)
      /\ \A i \in 1..Len(s) : s[i] \in Nodes /\ s[i] \in live
  BY <1>1, <1>2, LenProperties, ElementOfSeq DEF Linked, TypeOK
<1>4. Chain = s
  BY <1>1, ChainIs DEF ListAssumption
<1>5. ListExact
  <2>1. /\ ListedProcs = [i \in 1..Len(s) |-> cb[s[i]]]
        /\ {Chain[i] : i \in 1..Len(Chain)} = {s[i] : i \in 1..Len(s)}
    BY <1>4 DEF ListedProcs
  <2>2. \A i \in 1..Len(s) : cb[s[i]] = registered[i]
    BY <1>1 DEF Linked
  <2>3. registered = [i \in 1..Len(s) |-> registered[i]]
    <3>1. registered \in [1..Len(registered) -> Procs] /\ Len(registered) = Len(s)
      BY <1>1, <1>3, LenProperties DEF Linked
    <3> QED
      BY <3>1
  <2>4. ListedProcs = registered
    BY <2>1, <2>2, <2>3
  <2>5. {s[i] : i \in 1..Len(s)} = live
    BY <1>1 DEF Linked
  <2> QED
    BY <2>1, <2>4, <2>5 DEF ListExact
<1>6. NoDangling
  <2>1. ASSUME Walking, cur # NULL PROVE cur \in live /\ (cur = head \/ next[prev] = cur)
    <3>1. PICK j : WalkAt(s, j)
      BY <1>1, <2>1 DEF WalkSound
    <3>2. /\ j \in 1..Len(s) /\ cur = s[j] /\ prev = IF j = 1 THEN s[1] ELSE s[j - 1]
          /\ head = IF Len(s) = 0 THEN NULL ELSE s[1]
          /\ \A i \in 1..Len(s) : next[s[i]] = IF i = Len(s) THEN NULL ELSE s[i + 1]
      BY <1>1, <3>1 DEF WalkAt, Linked
    <3>3. CASE j = 1
      BY <1>3, <3>2, <3>3
    <3>4. CASE j # 1
      <4>1. j - 1 \in 1..Len(s) /\ j - 1 # Len(s) /\ (j - 1) + 1 = j
        BY <1>3, <3>2, <3>4
      <4> QED
        BY <1>3, <3>2, <3>4, <4>1
    <3> QED
      BY <3>3, <3>4
  <2>2. Walking => prev \in live \cup {NULL}
    BY <1>2 DEF CallSound
  <2>3. pc[LOOP] = "unlink" => cur # NULL
    BY <1>1 DEF WalkSound
  <2> QED
    BY <1>2, <2>1, <2>2, <2>3 DEF NoDangling, CallSound, Running, Walking
<1> QED
  BY <1>5, <1>6 DEF ListSound

(* Where no process deletes itself and no task registers a process before  *)
(* forever() has made the list, every list of processes that tasks and     *)
(* processes build is the one they asked for, and every pointer that       *)
(* exeProcess() and delProcess() will follow points into it.               *)
THEOREM ListIsSound ==
    ASSUME ~EarlyTasks, ~SelfDelete
    PROVE  Spec => []ListSound
<1>1. Init => ListInv
  BY ListAssumption, ListInit
<1>2. ListInv /\ [Next]_vars => ListInv'
  BY ListAssumption, ListStep
<1>3. ListInv => ListSound
  BY ListAssumption, ListInvIsSound
<1> QED
  BY <1>1, <1>2, <1>3, PTL DEF Spec

-----------------------------------------------------------------------------
(* The counter of attached pins. *)

(* Counting up and down in the range of the counter. *)
LEMMA CountsModulo ==
    ASSUME NEW K \in Nat \ {0}, NEW c \in 0..(K - 1)
    PROVE  /\ (c - 1) % K = IF c = 0 THEN K - 1 ELSE c - 1
           /\ (c + 1) % K = IF c = K - 1 THEN 0 ELSE c + 1
<1>1. ASSUME NEW x \in -1..K PROVE x % K = IF x = -1 THEN K - 1 ELSE IF x = K THEN 0 ELSE x
  <2> DEFINE d == x \div K
             r == x % K
  <2>1. d \in Int /\ r \in 0..(K - 1) /\ x = d * K + r
    OBVIOUS
  <2> HIDE DEF d, r
  <2>2. d >= -1
    <3> SUFFICES ASSUME d < -1 PROVE FALSE
      BY <2>1
    <3>1. PICK n \in Nat : d = -2 - n
      BY <2>1
    <3>2. d * K = -K - K - n * K /\ n * K >= 0
      BY <3>1
    <3> QED
      BY <2>1, <3>2
  <2>3. d <= 1
    <3> SUFFICES ASSUME d > 1 PROVE FALSE
      BY <2>1
    <3>1. PICK n \in Nat : d = 2 + n
      BY <2>1
    <3>2. d * K = K + K + n * K /\ n * K >= 0
      BY <3>1
    <3> QED
      BY <2>1, <3>2
  <2>4. CASE d = -1
    BY <2>1, <2>4 DEF r
  <2>5. CASE d = 0
    BY <2>1, <2>5 DEF r
  <2>6. CASE d = 1
    BY <2>1, <2>6 DEF r
  <2> QED
    BY <2>1, <2>2, <2>3, <2>4, <2>5, <2>6
<1> QED
  BY <1>1

(* cn_counter has lost as many as drops counts, up to its range. *)
CountsDrops == \E n \in Int : drops + cn_counter = n * COUNT

LEMMA CountDownCounts ==
    ASSUME drops \in Nat, cn_counter \in 0..(COUNT - 1), CountsDrops,
           cn_counter' = CountedDown, drops' = drops + 1
    PROVE  /\ cn_counter' \in 0..(COUNT - 1)
           /\ CountsDrops'
           /\ cn_counter' = 0 => drops' >= COUNT
<1>1. COUNT \in Nat \ {0}
  BY ChangeNoticeAssumption
<1>2. cn_counter' = IF cn_counter = 0 THEN COUNT - 1 ELSE cn_counter - 1
  BY <1>1, CountsModulo DEF CountedDown
<1>3. PICK n \in Int : drops + cn_counter = n * COUNT
  BY DEF CountsDrops
<1>4. (n + 1) * COUNT = n * COUNT + COUNT
  BY <1>1
<1>5. CountsDrops'
  <2>1. CASE cn_counter = 0
    <3>1. drops' + cn_counter' = (n + 1) * COUNT
      BY <1>1, <1>2, <1>3, <1>4, <2>1
    <3> QED
      BY <3>1 DEF CountsDrops
  <2>2. CASE cn_counter # 0
    <3>1. drops' + cn_counter' = n * COUNT
      BY <1>1, <1>2, <1>3, <2>2
    <3> QED
      BY <3>1 DEF CountsDrops
  <2> QED
    BY <2>1, <2>2
<1>6. ASSUME cn_counter' = 0 PROVE drops' >= COUNT
  <2>1. PICK m \in Int : drops' = m * COUNT
    BY <1>5, <1>6 DEF CountsDrops
  <2>2. m >= 1
    <3> SUFFICES ASSUME m < 1 PROVE FALSE
      BY <2>1
    <3>1. PICK k \in Nat : m = 0 - k
      BY <2>1
    <3>2. m * COUNT = 0 - k * COUNT /\ k * COUNT >= 0
      BY <1>1, <3>1
    <3>3. drops' \in Nat /\ drops' >= 1
      OBVIOUS
    <3> DEFINE y == k * COUNT
    <3>4. y \in Nat /\ drops' = 0 - y
      BY <1>1, <2>1, <3>1, <3>2
    <3> HIDE DEF y
    <3> QED
      BY <3>3, <3>4
  <2>3. PICK k \in Nat : m = 1 + k
    BY <2>2
  <2>4. m * COUNT = COUNT + k * COUNT /\ k * COUNT >= 0
    BY <1>1, <2>3
  <2> QED
    BY <1>1, <2>1, <2>4
<1> QED
  BY <1>1, <1>2, <1>5, <1>6

LEMMA CountUpCounts ==
    ASSUME drops \in Nat, cn_counter \in 0..(COUNT - 1), CountsDrops,
           cn_counter' = CountedUp, drops' = drops - 1
    PROVE  cn_counter' \in 0..(COUNT - 1) /\ CountsDrops'
<1>1. COUNT \in Nat \ {0}
  BY ChangeNoticeAssumption
<1>2. cn_counter' = IF cn_counter = COUNT - 1 THEN 0 ELSE cn_counter + 1
  BY <1>1, CountsModulo DEF CountedUp
<1>3. PICK n \in Int : drops + cn_counter = n * COUNT
  BY DEF CountsDrops
<1>4. (n - 1) * COUNT = n * COUNT - COUNT
  BY <1>1
<1>5. CASE cn_counter = COUNT - 1
  <2>1. drops' + cn_counter' = (n - 1) * COUNT
    BY <1>1, <1>2, <1>3, <1>4, <1>5
  <2> QED
    BY <1>1, <1>2, <2>1 DEF CountsDrops
<1>6. CASE cn_counter # COUNT - 1
  <2>1. drops' + cn_counter' = n * COUNT
    BY <1>1, <1>2, <1>3, <1>6
  <2>2. cn_counter' \in 0..(COUNT - 1)
    BY <1>1, <1>2, <1>6
  <2> QED
    BY <2>1, <2>2 DEF CountsDrops
<1> QED
  BY <1>5, <1>6

-----------------------------------------------------------------------------
(* Change notification. *)

(* What the sketch's calls have reached, step by step: which step a mode   *)
(* takes, that CNEN is clear while the callback changes, that CNF_CLR has  *)
(* dropped the old event in CNF, and how many more times the counter went  *)
(* down.                                                                   *)
SketchInv ==
    /\ step # "idle" => pin \in Pins
    /\ step \in {"EDGEDETECT", "CNF_CLR", "CNEN_SET", "IRQ_Clear", "IRQ_Enable"} => mode \in CnModes
    /\ step = "callback" => mode \in CnModes \cup {"INT"}
    /\ step = "callback" /\ mode \in CnModes => how[pin] \in CnModes
    /\ step \in {"counter", "callback_NULL", "EDGEDETECT", "CNF_CLR", "CNEN_SET"} => pin \notin cnen
    /\ step = "CNEN_SET" => pin \notin cnf
    /\ drops >= 0
    /\ step \in {"callback_NULL", "EDGEDETECT", "CNF_CLR", "CNEN_SET"} => drops >= 1

(* The end of attachInterrupt(), which enables the port's interrupt. *)
Enabling == mode \in CnModes /\ step \in {"callback", "IRQ_Clear", "IRQ_Enable"}

(* The interrupt is off under an attached pin only after a whole range of  *)
(* calls that count down.                                                  *)
CountInv ==
    /\ CountsDrops
    /\ Attached # {} /\ ~iec /\ ~Enabling => drops >= COUNT

(* Only a pin that attachInterrupt() is working on is enabled without a    *)
(* callback.                                                               *)
EnabledInv == \A p \in cnen : p \in callback \/ (p = pin /\ step = "callback")

(* The handler's copy of the events is part of the events.  An event that  *)
(* the handler has not begun with has not been answered, and if it is in   *)
(* CNF and its pin is attached, it came since then.                        *)
EventInv ==
    /\ ~isr => seen = {} /\ run = NoPin
    /\ seen \subseteq event /\ run \notin seen
    /\ run # NoPin => run \in event
    /\ \A p \in event : p # run => p \in unanswered
    /\ \A p \in cnf : p # run /\ how[p] \in CnModes => p \in owed

CnInv == CnTypeOK /\ SketchInv /\ CountInv /\ EnabledInv /\ EventInv

LEMMA InitCnInv == CnInit => CnInv
<1> SUFFICES ASSUME CnInit PROVE CnInv
  OBVIOUS
<1>1. COUNT \in Nat \ {0} /\ MaxCalls \in Nat
  BY ChangeNoticeAssumption
<1>2. CnTypeOK
  <2>1. cn_counter \in 0..(COUNT - 1) /\ calls \in 0..MaxCalls /\ drops \in Int
    BY <1>1 DEF CnInit
  <2>2. how \in [Pins -> AttachModes] /\ mode \in AttachModes
    BY DEF CnInit, AttachModes
  <2> QED
    BY <2>1, <2>2 DEF CnInit, CnTypeOK
<1>3. drops + cn_counter = 0 * COUNT
  BY <1>1 DEF CnInit
<1>4. CountInv
  BY <1>3 DEF CnInit, CountInv, CountsDrops, Attached
<1> QED
  BY <1>2, <1>4 DEF CnInit, CnInv, SketchInv, EnabledInv, EventInv, event

LEMMA SketchKeepsCnInv == CnInv /\ SketchStep => CnInv'
<1> SUFFICES ASSUME CnInv, SketchStep PROVE CnInv'
  OBVIOUS
<1>1. /\ CnTypeOK /\ SketchInv /\ CountInv /\ EnabledInv /\ EventInv
      /\ COUNT \in Nat \ {0} /\ ~isr /\ seen = {} /\ run = NoPin /\ step # "idle" /\ pin \in Pins
      /\ UNCHANGED <<isr, seen, run, pin, mode, calls>>
      /\ NoPin \notin Pins
      /\ CnModes \cup {"INT", "off"} = AttachModes /\ "off" \notin CnModes /\ "INT" \notin CnModes
  <2>1. ~isr /\ step # "idle" /\ UNCHANGED <<isr, seen, run, pin, mode, calls>>
    BY DEF SketchStep, CnenClr, CountDown, CallbackNull, CnconSet, CnfClr, CnenSet,
           SetCallback, IrqClear, IrqEnable, Sketch, handler
  <2> QED
    BY <2>1, ChangeNoticeAssumption DEF CnInv, SketchInv, EventInv, CnModes, AttachModes
<1>2. CASE CnenClr
  <2>1. /\ step = "CNEN_CLR" /\ step' = "counter" /\ cnen' = cnen \ {pin}
        /\ how' = [how EXCEPT ![pin] = "off"] /\ owed' = owed \ {pin}
        /\ UNCHANGED <<unanswered, cnf, cnstat, edgedetect, ifs, iec, cn_counter, callback, drops>>
    BY <1>2 DEF CnenClr, Sketch, status, edges, cnenWithout
  <2>2. CnTypeOK'
    BY <1>1, <2>1 DEF CnTypeOK
  <2>3. SketchInv'
    BY <1>1, <2>1 DEF SketchInv
  <2>4. CountInv'
    BY <1>1, <2>1 DEF CountInv, CountsDrops, Attached, Enabling, CnTypeOK
  <2>5. EnabledInv' /\ EventInv'
    BY <1>1, <2>1 DEF EnabledInv, EventInv, event, CnTypeOK
  <2> QED
    BY <2>2, <2>3, <2>4, <2>5 DEF CnInv
<1>3. CASE CountDown
  <2>1. /\ step = "counter" /\ step' = "callback_NULL"
        /\ cn_counter' = CountedDown /\ iec' = (iec /\ cn_counter' # 0) /\ drops' = drops + 1
        /\ UNCHANGED <<cnen, cnf, cnstat, edgedetect, ifs, callback, how, unanswered, owed>>
    BY <1>3 DEF CountDown, Sketch, status, edges
  <2>2. drops \in Nat /\ cn_counter \in 0..(COUNT - 1) /\ CountsDrops
    BY <1>1 DEF CnTypeOK, SketchInv, CountInv
  <2>3. /\ cn_counter' \in 0..(COUNT - 1) /\ CountsDrops'
        /\ cn_counter' = 0 => drops' >= COUNT
    BY <2>1, <2>2, CountDownCounts
  <2>4. CnTypeOK'
    BY <1>1, <2>1, <2>2, <2>3 DEF CnTypeOK
  <2>5. SketchInv'
    BY <1>1, <2>1, <2>2 DEF SketchInv
  <2>6. Attached' = Attached
    BY <2>1 DEF Attached
  <2>7. CountInv'
    <3>1. Attached # {} /\ ~iec => drops >= COUNT
      BY <1>1, <2>1 DEF CountInv, Enabling
    <3>2. ~iec' => ~iec \/ cn_counter' = 0
      BY <2>1 DEF CnTypeOK
    <3>3. Attached' # {} /\ ~iec' => drops' >= COUNT
      BY <1>1, <2>1, <2>2, <2>3, <2>6, <3>1, <3>2
    <3> QED
      BY <2>3, <3>3 DEF CountInv
  <2>8. EnabledInv' /\ EventInv'
    BY <1>1, <2>1 DEF EnabledInv, EventInv, event
  <2> QED
    BY <2>4, <2>5, <2>7, <2>8 DEF CnInv
<1>4. CASE CallbackNull
  <2>1. /\ step = "callback_NULL" /\ callback' = callback \ {pin}
        /\ step' \in {"idle", "EDGEDETECT", "callback"}
        /\ step' = "EDGEDETECT" => mode \in CnModes
        /\ step' = "callback" => mode = "INT"
        /\ UNCHANGED <<cnen, cnf, cnstat, edgedetect, ifs, iec, cn_counter, how, unanswered, owed, drops>>
    BY <1>1, <1>4 DEF CallbackNull, Sketch, status, edges, CnTypeOK
  <2>2. CnTypeOK'
    BY <1>1, <2>1 DEF CnTypeOK
  <2>3. SketchInv'
    BY <1>1, <2>1 DEF SketchInv
  <2>4. CountInv'
    BY <1>1, <2>1 DEF CountInv, CountsDrops, Attached, Enabling
  <2>5. EnabledInv'
    BY <1>1, <2>1 DEF EnabledInv, SketchInv
  <2>6. EventInv'
    BY <1>1, <2>1 DEF EventInv, event
  <2> QED
    BY <2>2, <2>3, <2>4, <2>5, <2>6 DEF CnInv
<1>10. CASE CnconSet
  <2>1. /\ step = "EDGEDETECT" /\ step' = "CNF_CLR" /\ edgedetect' \in BOOLEAN
        /\ UNCHANGED <<cnen, cnf, cnstat, ifs, iec, cn_counter, callback, how, unanswered, owed, drops>>
    BY <1>10 DEF CnconSet, Sketch, status, edges
  <2>2. CnTypeOK'
    BY <1>1, <2>1 DEF CnTypeOK
  <2>3. SketchInv'
    BY <1>1, <2>1 DEF SketchInv
  <2>4. CountInv'
    BY <1>1, <2>1 DEF CountInv, CountsDrops, Attached, Enabling
  <2>5. EnabledInv' /\ EventInv'
    BY <1>1, <2>1 DEF EnabledInv, EventInv, event
  <2> QED
    BY <2>2, <2>3, <2>4, <2>5 DEF CnInv
<1>5. CASE CnfClr
  <2>1. /\ step = "CNF_CLR" /\ step' = "CNEN_SET" /\ cnf' = cnf \ {pin}
        /\ UNCHANGED <<cnen, cnstat, edgedetect, ifs, iec, cn_counter, callback, how, unanswered, owed, drops>>
    BY <1>5 DEF CnfClr, Sketch, status, edges
  <2>2. CnTypeOK'
    BY <1>1, <2>1 DEF CnTypeOK
  <2>3. SketchInv'
    BY <1>1, <2>1 DEF SketchInv
  <2>4. CountInv'
    BY <1>1, <2>1 DEF CountInv, CountsDrops, Attached, Enabling
  <2>5. EnabledInv' /\ EventInv'
    BY <1>1, <2>1 DEF EnabledInv, EventInv, event
  <2> QED
    BY <2>2, <2>3, <2>4, <2>5 DEF CnInv
<1>6. CASE CnenSet
  <2>1. /\ step = "CNEN_SET" /\ step' = "callback" /\ cnen' = cnen \cup {pin}
        /\ cn_counter' = CountedUp /\ drops' = drops - 1
        /\ how' = [how EXCEPT ![pin] = mode]
        /\ UNCHANGED <<cnf, cnstat, edgedetect, ifs, iec, callback, unanswered, owed>>
    BY <1>6 DEF CnenSet, Sketch, status, edges
  <2>2. /\ drops \in Nat /\ drops >= 1 /\ cn_counter \in 0..(COUNT - 1) /\ CountsDrops
        /\ mode \in CnModes /\ pin \notin cnf
    BY <1>1, <2>1 DEF CnTypeOK, SketchInv, CountInv
  <2>3. cn_counter' \in 0..(COUNT - 1) /\ CountsDrops'
    BY <2>1, <2>2, CountUpCounts
  <2>4. CnTypeOK'
    BY <1>1, <2>1, <2>2, <2>3 DEF CnTypeOK
  <2>5. SketchInv'
    BY <1>1, <2>1, <2>2 DEF SketchInv, CnTypeOK
  <2>6. CountInv'
    BY <1>1, <2>1, <2>2, <2>3 DEF CountInv, Enabling
  <2>7. EnabledInv'
    BY <1>1, <2>1 DEF EnabledInv
  <2>8. EventInv'
    BY <1>1, <2>1, <2>2 DEF EventInv, event, CnTypeOK
  <2> QED
    BY <2>4, <2>5, <2>6, <2>7, <2>8 DEF CnInv
<1>7. CASE SetCallback
  <2>1. /\ step = "callback" /\ step' = IF mode \in CnModes THEN "IRQ_Clear" ELSE "idle"
        /\ callback' = callback \cup {pin} /\ how' = [how EXCEPT ![pin] = mode]
        /\ UNCHANGED <<cnen, cnf, cnstat, edgedetect, ifs, iec, cn_counter, unanswered, owed, drops>>
    BY <1>7 DEF SetCallback, Sketch, status, edges
  <2>2. mode \in CnModes \cup {"INT"} /\ (mode \in CnModes => how[pin] \in CnModes)
    BY <1>1, <2>1 DEF SketchInv
  <2>3. CnTypeOK'
    BY <1>1, <2>1 DEF CnTypeOK
  <2>4. SketchInv'
    BY <1>1, <2>1, <2>2 DEF SketchInv
  <2>5. CountInv'
    <3>1. CASE mode \in CnModes
      BY <1>1, <2>1, <3>1 DEF CountInv, CountsDrops, Enabling
    <3>2. CASE mode = "INT"
      <4>1. Attached' \subseteq Attached
        BY <1>1, <2>1, <3>2 DEF Attached, CnTypeOK
      <4> QED
        BY <1>1, <2>1, <3>2, <4>1 DEF CountInv, CountsDrops, Enabling
    <3> QED
      BY <2>2, <3>1, <3>2
  <2>6. EnabledInv'
    BY <1>1, <2>1 DEF EnabledInv
  <2>7. EventInv'
    BY <1>1, <2>1, <2>2 DEF EventInv, event, CnTypeOK
  <2> QED
    BY <2>3, <2>4, <2>5, <2>6, <2>7 DEF CnInv
<1>8. CASE IrqClear
  <2>1. /\ step = "IRQ_Clear" /\ step' = "IRQ_Enable" /\ ifs' = FALSE
        /\ UNCHANGED <<cnen, cnf, cnstat, edgedetect, iec, cn_counter, callback, how, unanswered, owed, drops>>
    BY <1>8 DEF IrqClear, Sketch, status, edges
  <2>2. CnTypeOK' /\ SketchInv'
    BY <1>1, <2>1 DEF CnTypeOK, SketchInv
  <2>3. CountInv'
    BY <1>1, <2>1 DEF CountInv, CountsDrops, Attached, Enabling, SketchInv
  <2>4. EnabledInv' /\ EventInv'
    BY <1>1, <2>1 DEF EnabledInv, EventInv, event
  <2> QED
    BY <2>2, <2>3, <2>4 DEF CnInv
<1>9. CASE IrqEnable
  <2>1. /\ step = "IRQ_Enable" /\ step' = "idle" /\ iec' = TRUE
        /\ UNCHANGED <<cnen, cnf, cnstat, edgedetect, ifs, cn_counter, callback, how, unanswered, owed, drops>>
    BY <1>9 DEF IrqEnable, Sketch, status, edges
  <2>2. CnTypeOK' /\ SketchInv'
    BY <1>1, <2>1 DEF CnTypeOK, SketchInv
  <2>3. CountInv'
    BY <1>1, <2>1 DEF CountInv, CountsDrops
  <2>4. EnabledInv' /\ EventInv'
    BY <1>1, <2>1 DEF EnabledInv, EventInv, event
  <2> QED
    BY <2>2, <2>3, <2>4 DEF CnInv
<1> QED
  BY <1>2, <1>3, <1>4, <1>5, <1>6, <1>7, <1>8, <1>9, <1>10 DEF SketchStep

LEMMA StepCnInv == CnInv /\ [CnNext]_cnVars => CnInv'
<1> SUFFICES ASSUME CnInv, [CnNext]_cnVars PROVE CnInv'
  OBVIOUS
<1>1. /\ CnTypeOK /\ SketchInv /\ CountInv /\ EnabledInv /\ EventInv
      /\ COUNT \in Nat \ {0} /\ MaxCalls \in Nat /\ NoPin \notin Pins
  BY ChangeNoticeAssumption DEF CnInv
<1>2. CASE SketchStep
  BY <1>2, SketchKeepsCnInv
<1>3. ASSUME NEW p \in Pins, NEW m \in AttachModes, Call(p, m) PROVE CnInv'
  <2>1. /\ step = "idle" /\ step' = "CNEN_CLR" /\ pin' = p /\ mode' = m /\ calls' \in 0..MaxCalls
        /\ UNCHANGED <<cnen, cnf, cnstat, edgedetect, ifs, iec, cn_counter, callback, isr, seen, run, how, unanswered, owed, drops>>
    BY <1>1, <1>3 DEF Call, handler, CnTypeOK, status, edges
  <2>2. CnTypeOK' /\ SketchInv'
    BY <1>1, <2>1 DEF CnTypeOK, SketchInv
  <2>3. CountInv'
    BY <1>1, <2>1 DEF CountInv, CountsDrops, Attached, Enabling
  <2>4. EnabledInv' /\ EventInv'
    BY <1>1, <2>1 DEF EnabledInv, EventInv, event
  <2> QED
    BY <2>2, <2>3, <2>4 DEF CnInv
<1>4. ASSUME UNCHANGED <<cnen, iec, cn_counter, callback, sketch, how, drops>>,
             CnTypeOK', EventInv', step = "CNEN_SET" => pin \notin cnf'
      PROVE  CnInv'
  <2>1. SketchInv'
    BY <1>1, <1>4 DEF SketchInv, sketch, status, edges
  <2>2. CountInv' /\ EnabledInv'
    BY <1>1, <1>4 DEF CountInv, CountsDrops, Attached, Enabling, EnabledInv, sketch, status, edges
  <2> QED
    BY <1>4, <2>1, <2>2 DEF CnInv
<1>5. CASE HandlerEnter
  <2>1. CnTypeOK' /\ EventInv'
    BY <1>1, <1>5 DEF HandlerEnter, CnTypeOK, EventInv, event, sketch, status, edges
  <2> QED
    BY <1>1, <1>4, <1>5, <2>1 DEF HandlerEnter, SketchInv, status, edges
<1>6. ASSUME NEW p \in Pins, HandlerCall(p) PROVE CnInv'
  <2>1. CnTypeOK' /\ EventInv'
    BY <1>1, <1>6 DEF HandlerCall, CnTypeOK, EventInv, event, sketch, status, edges
  <2> QED
    BY <1>1, <1>4, <1>6, <2>1 DEF HandlerCall, SketchInv, status, edges
<1>7. CASE HandlerClear
  <2>1. CnTypeOK' /\ EventInv'
    BY <1>1, <1>7 DEF HandlerClear, cnfLeft, cnstatLeft, CnTypeOK, EventInv, event, sketch, status, edges
  <2> QED
    BY <1>1, <1>4, <1>7, <2>1 DEF HandlerClear, cnfLeft, cnstatLeft, SketchInv, status, edges
<1>8. CASE HandlerExit
  <2>1. CnTypeOK' /\ EventInv'
    BY <1>1, <1>8 DEF HandlerExit, CnTypeOK, EventInv, event, sketch, status, edges
  <2> QED
    BY <1>1, <1>4, <1>8, <2>1 DEF HandlerExit, SketchInv, status, edges
<1>9. ASSUME NEW p \in Pins, Edge(p) PROVE CnInv'
  <2>1. CnTypeOK' /\ EventInv'
    BY <1>1, <1>9 DEF Edge, CnTypeOK, EventInv, event, sketch, handler, status, edges
  <2> QED
    BY <1>1, <1>4, <1>9, <2>1 DEF Edge, SketchInv, status, edges
<1>10. CASE UNCHANGED cnVars
  <2>1. CnTypeOK' /\ EventInv'
    BY <1>1, <1>10 DEF cnVars, CnTypeOK, EventInv, event, sketch, handler, status, edges
  <2> QED
    BY <1>1, <1>4, <1>10, <2>1 DEF cnVars, SketchInv, status, edges
<1> QED
  BY <1>2, <1>3, <1>5, <1>6, <1>7, <1>8, <1>9, <1>10 DEF CnNext, HandlerStep

(* The registers and the tables keep their types, the counter its range. *)
THEOREM CnTypes == CnSpec => []CnTypeOK
<1>1. CnInv => CnTypeOK
  BY DEF CnInv
<1> QED
  BY InitCnInv, StepCnInv, <1>1, PTL DEF CnSpec

(* However attachInterrupt(), detachInterrupt(), the handler and the edges *)
(* interleave, the port's interrupt goes off under an attached pin only    *)
(* when cn_counter has gone around, and no event is left that no callback  *)
(* claims except while its pin is being attached.                          *)
THEOREM PortInterruptIsSound == CnSpec => []PortInterruptSound
<1>1. CnInv => PortInterruptSound
  <2> SUFFICES ASSUME CnInv PROVE PortInterruptSound
    OBVIOUS
  <2>1. OffOnlyOnWrap
    BY DEF CnInv, CountInv, Enabling, OffOnlyOnWrap
  <2>2. UnclaimedOnlyWhileAttaching
    BY DEF CnInv, EnabledInv, UnclaimedOnlyWhileAttaching, Unclaimed
  <2> QED
    BY <2>1, <2>2 DEF PortInterruptSound
<1> QED
  BY InitCnInv, StepCnInv, <1>1, PTL DEF CnSpec

(* A callback runs only for an edge that none has followed, and after      *)
(* attachInterrupt() for change notification only for one seen since, or   *)
(* for what is left in CNSTAT.                                             *)
THEOREM CallsHaveEdges == CnSpec => CalledForAnEdge
<1>1. CnInv /\ [CnNext]_cnVars
      => [\A p \in Pins : HandlerCall(p) =>
              /\ p \in unanswered
              /\ how[p] \in CnModes => p \in owed \cup cnstat]_cnVars
  <2> SUFFICES ASSUME CnInv, NEW p \in Pins, HandlerCall(p)
               PROVE  /\ p \in unanswered
                      /\ how[p] \in CnModes => p \in owed \cup cnstat
    OBVIOUS
  <2>1. p \in seen /\ p \in event /\ p # run
    BY ChangeNoticeAssumption DEF CnInv, EventInv, HandlerCall
  <2> QED
    BY <2>1 DEF CnInv, EventInv, event
<1> QED
  BY InitCnInv, StepCnInv, <1>1, PTL DEF CnSpec, CalledForAnEdge

-----------------------------------------------------------------------------
(* An INTx line. *)

(* The level's next change is the edge the line is set to. *)
Selected == (intcon = 1) = (level = "low")

(* With CHANGE, while the level waits for the handler: a change sets the   *)
(* flag exactly when it was selected; the handler tells it and then        *)
(* selects the opposite edge.                                              *)
ChangeInv ==
    /\ missed <= 1
    /\ handling = "out" /\ intIfs => ~Selected
    /\ handling = "callback" => ~Selected /\ told = level
    /\ handling = "INTCON" => Selected /\ told = level
    /\ Quiet => /\ told = "none" \/ (told = level /\ Selected)
                /\ missed = 1 => Selected

IntInv ==
    /\ IntTypeOK
    /\ intMode = "RISING" => intcon = 1
    /\ intcon = 1 => rose
    /\ intMode = "CHANGE" /\ ~overrun => ChangeInv

LEMMA InitIntInv == IntInit => IntInv
<1> SUFFICES ASSUME IntInit PROVE IntInv
  OBVIOUS
<1>1. intCalls \in 0..MaxIntCalls /\ missed \in 0..2
  BY ExternalIntAssumption DEF IntInit
<1>2. IntTypeOK
  BY <1>1 DEF IntInit, IntTypeOK, Modes, Levels
<1> QED
  BY <1>2 DEF IntInit, IntInv

LEMMA StepIntInv == IntInv /\ [IntNext]_intVars => IntInv'
<1> SUFFICES ASSUME IntInv, [IntNext]_intVars PROVE IntInv'
  OBVIOUS
<1>1. IntTypeOK /\ MaxIntCalls \in Nat
  BY ExternalIntAssumption DEF IntInv
<1>2. ASSUME NEW m \in Modes, attachInterrupt(m) PROVE IntInv'
  <2>1. IntTypeOK'
    <3>1. intcon' \in {0, 1} /\ intCalls' \in 0..MaxIntCalls /\ missed' \in 0..2
      BY <1>1, <1>2 DEF attachInterrupt, IntconSet, IntTypeOK
    <3>2. rose' \in BOOLEAN
      BY <1>1, <1>2 DEF attachInterrupt, IntTypeOK
    <3> QED
      BY <1>1, <1>2, <3>1, <3>2 DEF attachInterrupt, IntTypeOK
  <2>2. ChangeInv'
    BY <1>1, <1>2 DEF attachInterrupt, ChangeInv, Quiet
  <2> QED
    BY <1>1, <1>2, <2>1, <2>2 DEF attachInterrupt, IntconSet, IntInv
<1>3. CASE detachInterrupt
  BY <1>1, <1>3 DEF detachInterrupt, IntInv, IntTypeOK
<1>4. CASE IntCall
  <2>1. IntTypeOK'
    BY <1>1, <1>4 DEF IntCall, IntTypeOK
  <2> QED
    BY <1>1, <1>4, <2>1 DEF IntCall, IntInv, ChangeInv, Quiet, Selected
<1>5. CASE IntInvert
  <2>1. IntTypeOK'
    BY <1>1, <1>5 DEF IntInvert, Inverted, IntTypeOK
  <2>2. intMode = "CHANGE" => Selected' = ~Selected
    BY <1>1, <1>5 DEF IntInvert, Inverted, Selected, IntTypeOK, Levels
  <2> QED
    BY <1>1, <1>5, <2>1, <2>2 DEF IntInvert, Inverted, IntInv, ChangeInv, Quiet, IntTypeOK
<1>6. CASE IntClear
  <2>1. IntTypeOK'
    BY <1>1, <1>6 DEF IntClear, IntTypeOK
  <2> QED
    BY <1>1, <1>6, <2>1 DEF IntClear, IntInv, ChangeInv, Quiet, Selected
<1>7. CASE Toggle
  <2>1. /\ level' = IF level = "low" THEN "high" ELSE "low"
        /\ intIfs' = (intIfs \/ Selected)
        /\ missed' = IF ~Selected /\ ~(intIfs \/ handling # "out") /\ missed < 2
                     THEN missed + 1 ELSE missed
        /\ overrun' = (overrun \/ intIfs \/ handling # "out")
        /\ UNCHANGED <<intcon, intMode, handling, intCalls, told, rose>>
    BY <1>7 DEF Toggle, Selected
  <2>2. IntTypeOK'
    BY <1>1, <2>1 DEF IntTypeOK, Levels, Selected
  <2>3. Selected' = ~Selected
    BY <1>1, <2>1 DEF Selected, IntTypeOK, Levels
  <2>4. intMode = "CHANGE" /\ ~overrun' => ChangeInv'
    <3> SUFFICES ASSUME intMode = "CHANGE", ~overrun' PROVE ChangeInv'
      OBVIOUS
    <3>1. ~overrun /\ ~intIfs /\ handling = "out"
      BY <2>1
    <3>2. ChangeInv /\ Quiet
      BY <3>1 DEF IntInv, Quiet
    <3>3. missed' = IF ~Selected THEN missed + 1 ELSE missed
      BY <1>1, <2>1, <3>1, <3>2 DEF ChangeInv, IntTypeOK
    <3>4. missed' <= 1 /\ missed \in 0..1
      BY <1>1, <3>2, <3>3 DEF ChangeInv, IntTypeOK
    <3>5. handling' = "out" /\ (intIfs' => ~Selected')
      BY <2>1, <2>3, <3>1
    <3>6. ASSUME Quiet' PROVE (told' = "none" \/ (told' = level' /\ Selected')) /\ (missed' = 1 => Selected')
      BY <2>1, <2>3, <3>1, <3>2, <3>6 DEF Quiet, ChangeInv
    <3> QED
      BY <3>4, <3>5, <3>6 DEF ChangeInv
  <2> QED
    BY <1>1, <2>1, <2>2, <2>4 DEF IntInv
<1>8. CASE UNCHANGED intVars
  BY <1>8 DEF intVars, IntInv, IntTypeOK, ChangeInv, Quiet, Selected
<1> QED
  BY <1>2, <1>3, <1>4, <1>5, <1>6, <1>7, <1>8 DEF IntNext

(* The line keeps its types. *)
THEOREM IntTypes == IntSpec => []IntTypeOK
<1>1. IntInv => IntTypeOK
  BY DEF IntInv
<1> QED
  BY InitIntInv, StepIntInv, <1>1, PTL DEF IntSpec

(* RISING gets rising edges, FALLING falling ones on a line that never     *)
(* used rising ones, and CHANGE tells every level but, at most, the first  *)
(* while the handler keeps up.                                             *)
THEOREM EdgesAreAsAsked == IntSpec => []EdgesAsAsked
<1>1. IntInv => EdgesAsAsked
  BY DEF IntInv, ChangeInv, EdgesAsAsked, EdgeAsked, TellsTheLevel
<1> QED
  BY InitIntInv, StepIntInv, <1>1, PTL DEF IntSpec

-----------------------------------------------------------------------------
(* The composition. *)

(* The process list keeps its types. *)
THEOREM ListTypes ==
    ASSUME ~EarlyTasks, ~SelfDelete
    PROVE  Spec => []TypeOK
<1>1. Init => ListInv
  BY ListAssumption, ListInit
<1>2. ListInv /\ [Next]_vars => ListInv'
  BY ListAssumption, ListStep
<1>3. ListInv => TypeOK
  BY DEF ListInv
<1> QED
  BY <1>1, <1>2, <1>3, PTL DEF Spec

(* A behaviour of the composition is a behaviour of each component, so     *)
(* that the theorems about the components hold of it.                      *)
THEOREM InterruptsAreComponents == InterruptsSpec => Spec /\ CnSpec /\ IntSpec
<1>1. InterruptsInit => Init /\ CnInit /\ IntInit
  BY DEF InterruptsInit
<1>2. [InterruptsNext]_<<active, vars, cnVars, intVars>>
          => [Next]_vars /\ [CnNext]_cnVars /\ [IntNext]_intVars
  BY DEF InterruptsNext
<1> QED
  BY <1>1, <1>2, PTL DEF InterruptsSpec, Spec, CnSpec, IntSpec

(* Every variable of the main loop's list, of change notification and of   *)
(* an INTx line keeps its type, whichever of them a behaviour exercises.   *)
THEOREM InterruptsTypesOK ==
    ASSUME ~EarlyTasks, ~SelfDelete
    PROVE  InterruptsSpec => []TypesOK
<1>1. TypeOK /\ CnTypeOK /\ IntTypeOK => TypesOK
  BY DEF TypesOK
<1>2. Spec => []TypeOK
  BY ListTypes
<1> QED
  BY <1>1, <1>2, CnTypes, IntTypes, InterruptsAreComponents, PTL
=============================================================================
