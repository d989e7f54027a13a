--------------------------- MODULE SwTimersProofs ---------------------------
(***************************************************************************)
(* Proofs about the software timers, for any set of timers, any intervals  *)
(* and any word size.                                                      *)
(*                                                                         *)
(* The invariants of SwTimers are not inductive by themselves.  What makes *)
(* them so is that the list is sorted by deadline and that every deadline  *)
(* lies between vt and vt plus an interval: then the head may be expired,  *)
(* the rest of elapsed may be taken from the head alone, and adding the    *)
(* waits of two neighbours stays below the word size.                      *)
(***************************************************************************)
EXTENDS SwTimersRealTime, SequenceTheorems, TLAPS

-----------------------------------------------------------------------------
(* What InsertAt returns, position by position. *)
LEMMA InsertAtProperties ==
    ASSUME NEW S, NEW s \in Seq(S), NEW e \in S, NEW i \in 1..(Len(s) + 1)
    PROVE  /\ InsertAt(s, i, e) \in Seq(S)
           /\ Len(InsertAt(s, i, e)) = Len(s) + 1
           /\ \A j \in 1..(Len(s) + 1) :
                 InsertAt(s, i, e)[j] = IF j < i THEN s[j]
                                        ELSE IF j = i THEN e ELSE s[j - 1]
<1> DEFINE p == SubSeq(s, 1, i - 1)
           m == p \o <<e>>
           q == SubSeq(s, i, Len(s))
<1>1. /\ p \in Seq(S) /\ Len(p) = i - 1
      /\ \A j \in 1..(i - 1) : p[j] = s[j]
  BY SubSeqProperties
<1>2. /\ q \in Seq(S) /\ Len(q) = Len(s) - i + 1
      /\ \A j \in 1..(Len(s) - i + 1) : q[j] = s[i + j - 1]
  BY SubSeqProperties
<1>3. InsertAt(s, i, e) = m \o q
  BY DEF InsertAt
<1> HIDE DEF p, q
<1>4. /\ m \in Seq(S) /\ Len(m) = i
      /\ \A j \in 1..i : m[j] = IF j < i THEN s[j] ELSE e
  <2> DEFINE one == <<e>>
  <2>1. one \in Seq(S) /\ Len(one) = 1 /\ one[1] = e
    OBVIOUS
  <2>2. m = p \o one
    OBVIOUS
  <2> HIDE DEF one, m
  <2>3. /\ m \in Seq(S) /\ Len(m) = Len(p) + Len(one)
        /\ \A j \in 1..(Len(p) + Len(one)) :
              m[j] = IF j <= Len(p) THEN p[j] ELSE one[j - Len(p)]
    BY <1>1, <2>1, <2>2, ConcatProperties, Zenon
  <2> QED
    BY <1>1, <2>1, <2>3
<1> HIDE DEF m
<1>5. /\ m \o q \in Seq(S) /\ Len(m \o q) = Len(m) + Len(q)
      /\ \A j \in 1..(Len(m) + Len(q)) :
            (m \o q)[j] = IF j <= Len(m) THEN m[j] ELSE q[j - Len(m)]
  BY <1>2, <1>4, ConcatProperties, Zenon
<1> QED
  BY <1>2, <1>3, <1>4, <1>5

(* What RemoveAt returns, position by position. *)
LEMMA RemoveAtProperties ==
    ASSUME NEW S, NEW s \in Seq(S), NEW i \in 1..Len(s)
    PROVE  /\ RemoveAt(s, i) \in Seq(S)
           /\ Len(RemoveAt(s, i)) = Len(s) - 1
           /\ \A j \in 1..(Len(s) - 1) :
                 RemoveAt(s, i)[j] = IF j < i THEN s[j] ELSE s[j + 1]
<1> DEFINE p == SubSeq(s, 1, i - 1)
           q == SubSeq(s, i + 1, Len(s))
<1>1. /\ p \in Seq(S) /\ Len(p) = i - 1
      /\ \A j \in 1..(i - 1) : p[j] = s[j]
  BY SubSeqProperties
<1>2. /\ q \in Seq(S) /\ Len(q) = Len(s) - i
      /\ \A j \in 1..(Len(s) - i) : q[j] = s[i + j]
  BY SubSeqProperties
<1>3. RemoveAt(s, i) = p \o q
  BY DEF RemoveAt
<1> HIDE DEF p, q
<1>4. /\ p \o q \in Seq(S) /\ Len(p \o q) = Len(p) + Len(q)
      /\ \A j \in 1..(Len(p) + Len(q)) :
            (p \o q)[j] = IF j <= Len(p) THEN p[j] ELSE q[j - Len(p)]
  BY <1>1, <1>2, ConcatProperties, Zenon
<1>5. ASSUME NEW j \in 1..(Len(s) - 1)
      PROVE  (p \o q)[j] = IF j < i THEN s[j] ELSE s[j + 1]
  <2>1. CASE j < i
    BY <1>1, <1>2, <1>4, <2>1
  <2>2. CASE ~(j < i)
    <3>1. (p \o q)[j] = q[j - (i - 1)]
      BY <1>1, <1>2, <1>4, <2>2
    <3> QED
      BY <1>2, <2>2, <3>1
  <2> QED
    BY <2>1, <2>2
<1> QED
  BY <1>1, <1>2, <1>3, <1>4, <1>5

(* The same as a relation, which the provers match as a whole. *)
IsWithout(r, s, i, S) ==
    /\ r \in Seq(S) /\ Len(r) = Len(s) - 1
    /\ \A j \in 1..(Len(s) - 1) : r[j] = IF j < i THEN s[j] ELSE s[j + 1]

LEMMA RemoveIs ==
    ASSUME NEW S, NEW s \in Seq(S), NEW i \in 1..Len(s)
    PROVE  IsWithout(RemoveAt(s, i), s, i, S)
BY RemoveAtProperties DEF IsWithout

(* Euclidean division. *)
LEMMA DivMod ==
    ASSUME NEW W \in Nat \ {0}, NEW x \in Int
    PROVE  /\ x % W \in 0..(W - 1)
           /\ x \div W \in Int
           /\ x = (x \div W) * W + (x % W)
OBVIOUS

(* The word difference of two readings of a counter is at most the time    *)
(* that passed between them.                                               *)
LEMMA WordDifference ==
    ASSUME NEW W \in Nat \ {0}, NEW x \in Nat, NEW y \in Nat, y <= x
    PROVE  /\ (x % W) \in 0..(W - 1)
           /\ ((x % W) - (y % W)) % W \in 0..(W - 1)
           /\ ((x % W) - (y % W)) % W <= x - y
<1> DEFINE a == x % W
           b == y % W
           d == (a - b) % W
           p == x \div W
           q == y \div W
           r == (a - b) \div W
<1>1. a \in 0..(W - 1) /\ p \in Int /\ x = p * W + a
  BY DivMod
<1>2. b \in 0..(W - 1) /\ q \in Int /\ y = q * W + b
  BY DivMod
<1>3. d \in 0..(W - 1) /\ r \in Int /\ a - b = r * W + d
  <2>1. a - b \in Int
    BY <1>1, <1>2
  <2> HIDE DEF a, b
  <2> QED
    BY <2>1, DivMod
<1> HIDE DEF a, b, d, p, q, r
<1>4. PICK k \in Int : x - y = k * W + d
  <2>1. x - y = (p - q + r) * W + d
    BY <1>1, <1>2, <1>3
  <2> QED
    BY <1>1, <1>2, <1>3, <2>1
<1>5. k >= 0
  <2> SUFFICES ASSUME k < 0 PROVE FALSE
    OBVIOUS
  <2>1. k * W <= -W
    <3>1. PICK n \in Nat : k = -1 - n
      BY SMT
    <3>2. k * W = -W - n * W /\ n * W >= 0
      BY <3>1
    <3> QED
      BY <3>2
  <2>2. d < W /\ x - y >= 0 /\ k * W \in Int
    BY <1>3
  <2> QED
    BY <1>3, <1>4, <2>1, <2>2
<1>6. k * W >= 0
  BY <1>5
<1>7. d <= x - y
  BY <1>3, <1>4, <1>6
<1> QED
  BY <1>1, <1>3, <1>7 DEF a, b, d

-----------------------------------------------------------------------------
(* Steps that touch neither the list nor a deadline nor the time handed    *)
(* out keep everything ListInv says about the list.                        *)
LEMMA ListUntouched ==
    ASSUME ListInv, TypeOK',
           UNCHANGED <<sTimers, timeout, vt, deadline>>,
           pc' = "place" => UNCHANGED <<pc, ptimer, ppos, prem>>
    PROVE  ListInv'
BY DEF ListInv, NoDuplicates, DeltasExact, SearchExact, WaitsFrom, Sorted,
       DueWindow, Armed

(* swTimerStart enters the search with the whole interval to go. *)
LEMMA StartKeepsListInv ==
    ASSUME ListInv, NEW t \in Timers, swTimerStart(t)
    PROVE  ListInv'
<1> USE DEF ListInv, swTimerStart, EnterPlace, Client
<1>1. TypeOK'
  BY TimersAssumption DEF TypeOK
<1>2. NoDuplicates'
  BY DEF NoDuplicates, Armed
<1>3. DeltasExact' /\ Sorted' /\ DueWindow'
  BY DEF DeltasExact, Sorted, DueWindow, WaitsFrom
<1>4. SearchExact'
  BY <1>1 DEF SearchExact, WaitsFrom, TypeOK
<1> QED
  BY <1>1, <1>2, <1>3, <1>4

(* Passing a node takes its wait off what is left of the interval. *)
LEMMA SkipKeepsListInv ==
    ASSUME ListInv, PlaceSkip
    PROVE  ListInv'
<1> USE DEF ListInv, PlaceSkip, PlaceHere, code
<1>1. /\ ppos \in 1..Len(sTimers) /\ Len(sTimers) \in Nat
      /\ sTimers[ppos] \in Timers
      /\ timeout[sTimers[ppos]] \in 0..(WORD - 1)
      /\ prem >= timeout[sTimers[ppos]]
  BY WordAssumption DEF TypeOK
<1>2. TypeOK'
  <2>1. prem' \in 0..(WORD - 1) /\ ppos' \in Nat \ {0}
    BY <1>1, WordAssumption, SMTT(30) DEF TypeOK
  <2> QED
    BY <2>1 DEF TypeOK
<1>3. NoDuplicates'
  BY DEF NoDuplicates, Armed
<1>4. DeltasExact' /\ Sorted' /\ DueWindow'
  BY DEF DeltasExact, Sorted, DueWindow, WaitsFrom
<1>5. SearchExact'
  <2>1. deadline[sTimers[ppos]] = WaitsFrom(ppos) + timeout[sTimers[ppos]]
    BY <1>1 DEF DeltasExact
  <2>2. WaitsFrom(ppos + 1) = deadline[sTimers[ppos]]
    BY <1>1 DEF WaitsFrom
  <2>3. /\ ptimer \in Timers /\ ptimer' = ptimer
        /\ vt + Interval[ptimer] = WaitsFrom(ppos) + prem
    BY DEF SearchExact, NoDuplicates
  <2>4. WaitsFrom(ppos) \in Nat
    <3>1. ppos # 1 => ppos - 1 \in 1..Len(sTimers)
      BY <1>1
    <3>2. ppos # 1 => sTimers[ppos - 1] \in Timers
      BY <3>1 DEF TypeOK
    <3> QED
      BY <3>2 DEF WaitsFrom, TypeOK
  <2>5. WaitsFrom(ppos)' = WaitsFrom(ppos + 1)
    BY <1>1 DEF WaitsFrom
  <2>6. Interval[ptimer] \in Nat /\ vt \in Nat /\ prem \in Nat
    BY <2>3, TimersAssumption, WordAssumption DEF TypeOK
  <2>7. /\ prem' = prem - timeout[sTimers[ppos]] /\ ppos' = ppos + 1
        /\ vt' = vt /\ sTimers' = sTimers
    OBVIOUS
  <2>8. (vt + Interval[ptimer])' = WaitsFrom(ppos)' + prem'
    BY <1>1, <2>1, <2>2, <2>3, <2>4, <2>5, <2>6, <2>7
  <2> QED
    BY <1>1, <2>7, <2>8 DEF SearchExact
<1> QED
  BY <1>2, <1>3, <1>4, <1>5

LEMMA WaitsFromType ==
    ASSUME TypeOK, NEW i \in 1..(Len(sTimers) + 1)
    PROVE  WaitsFrom(i) \in Nat
<1>1. i # 1 => i - 1 \in 1..Len(sTimers)
  BY DEF TypeOK
<1>2. i # 1 => sTimers[i - 1] \in Timers
  BY <1>1 DEF TypeOK
<1> QED
  BY <1>2 DEF WaitsFrom, TypeOK

(* The list after placeTimer, position by position. *)
LEMMA InsertShape ==
    ASSUME ListInv, PlaceInsert
    PROVE  /\ ptimer \in Timers
           /\ ppos \in 1..(Len(sTimers) + 1)
           /\ sTimers' \in Seq(Timers)
           /\ Len(sTimers') = Len(sTimers) + 1
           /\ \A j \in 1..(Len(sTimers) + 1) :
                 sTimers'[j] = IF j < ppos THEN sTimers[j]
                               ELSE IF j = ppos THEN ptimer ELSE sTimers[j - 1]
<1> DEFINE r == InsertAt(sTimers, ppos, ptimer)
<1>1. /\ sTimers \in Seq(Timers) /\ ptimer \in Timers
      /\ ppos \in 1..(Len(sTimers) + 1)
  BY DEF PlaceInsert, ListInv, TypeOK, NoDuplicates, SearchExact
<1>2. /\ r \in Seq(Timers)
      /\ Len(r) = Len(sTimers) + 1
      /\ \A j \in 1..(Len(sTimers) + 1) :
            r[j] = IF j < ppos THEN sTimers[j]
                   ELSE IF j = ppos THEN ptimer ELSE sTimers[j - 1]
  <2> DEFINE Shape(q, S, s, i, e) ==
               /\ q \in Seq(S)
               /\ Len(q) = Len(s) + 1
               /\ \A j \in 1..(Len(s) + 1) :
                     q[j] = IF j < i THEN s[j] ELSE IF j = i THEN e ELSE s[j - 1]
  <2>1. \A S : \A s \in Seq(S), e \in S : \A i \in 1..(Len(s) + 1) :
           Shape(InsertAt(s, i, e), S, s, i, e)
    BY InsertAtProperties
  <2> HIDE DEF Shape
  <2>2. Shape(r, Timers, sTimers, ppos, ptimer)
    BY <1>1, <2>1
  <2> QED
    BY <2>2 DEF Shape
<1>3. sTimers' = r
  BY DEF PlaceInsert
<1> HIDE DEF r
<1> QED
  BY <1>1, <1>2, <1>3

(* Linking the timer in where the search stopped keeps every deadline: the *)
(* node behind it gives up exactly what the new node waits.                *)
LEMMA InsertKeepsListInv ==
    ASSUME ListInv, PlaceInsert
    PROVE  ListInv'
<1> DEFINE L == Len(sTimers)
           s == sTimers
<1>1. /\ TypeOK /\ L \in Nat /\ s \in Seq(Timers)
      /\ \A i \in 1..L : s[i] \in Timers
      /\ ppos \in 1..(L + 1)
      /\ ptimer \in Timers
      /\ \A i \in 1..L : s[i] # ptimer
      /\ \A i, j \in 1..L : s[i] = s[j] => i = j
  BY SMTT(30) DEF PlaceInsert, ListInv, TypeOK, NoDuplicates, SearchExact, Armed, ToSet
<1>2. /\ sTimers' \in Seq(Timers)
      /\ Len(sTimers') = L + 1
      /\ \A j \in 1..(L + 1) :
            sTimers'[j] = IF j < ppos THEN s[j]
                          ELSE IF j = ppos THEN ptimer ELSE s[j - 1]
  BY InsertShape
<1>3. /\ deadline' \in [Timers -> Nat]
      /\ deadline'[ptimer] = WaitsFrom(ppos) + prem
      /\ deadline'[ptimer] = vt + Interval[ptimer]
      /\ \A u \in Timers : u # ptimer => deadline'[u] = deadline[u]
  BY <1>1, TimersAssumption, WordAssumption
  DEF PlaceInsert, ListInv, SearchExact, TypeOK
<1>4. ppos <= L => prem < timeout[s[ppos]]
  BY DEF PlaceInsert, PlaceHere
<1>5. /\ timeout' \in [Timers -> 0..(WORD - 1)]
      /\ timeout'[ptimer] = prem
      /\ ppos <= L => timeout'[s[ppos]] = timeout[s[ppos]] - prem
      /\ \A i \in 1..L : i # ppos => timeout'[s[i]] = timeout[s[i]]
  <2>1. timeout' = PlacedTimeouts(ptimer)
    BY DEF PlaceInsert
  <2>2. ASSUME NEW u \in Timers
        PROVE  PlacedTimeouts(ptimer)[u] \in 0..(WORD - 1)
    <3>1. timeout[u] \in 0..(WORD - 1) /\ prem \in 0..(WORD - 1)
      BY <1>1 DEF TypeOK
    <3> QED
      BY <1>4, <3>1, WordAssumption DEF PlacedTimeouts
  <2>3. PlacedTimeouts(ptimer) \in [Timers -> 0..(WORD - 1)]
    BY <2>2 DEF PlacedTimeouts
  <2> QED
    BY <1>1, <2>1, <2>3 DEF PlacedTimeouts
<1>6. vt' = vt /\ vt \in Nat /\ pc' # "place"
  BY <1>1 DEF PlaceInsert, TypeOK
<1>7. TypeOK'
  BY <1>2, <1>3, <1>5 DEF PlaceInsert, ListInv, TypeOK, place
<1>8. NoDuplicates'
  <2> SUFFICES ASSUME NEW i \in 1..(L + 1), NEW j \in 1..(L + 1), i < j,
                      sTimers'[i] = sTimers'[j]
               PROVE  FALSE
    BY <1>2, <1>6 DEF NoDuplicates
  <2>1. CASE j < ppos
    <3>1. i \in 1..L /\ j \in 1..L /\ s[i] = s[j] /\ i # j
      BY <1>1, <1>2, <2>1
    <3> QED
      BY <1>1, <3>1
  <2>2. CASE j = ppos
    BY <1>1, <1>2, <2>2
  <2>3. CASE j > ppos /\ i = ppos
    BY <1>1, <1>2, <2>3
  <2>4. CASE j > ppos /\ i < ppos
    <3>1. i \in 1..L /\ j - 1 \in 1..L /\ s[i] = s[j - 1] /\ i # j - 1
      BY <1>1, <1>2, <2>4
    <3> QED
      BY <1>1, <3>1
  <2>5. CASE i > ppos
    <3>1. i - 1 \in 1..L /\ j - 1 \in 1..L /\ s[i - 1] = s[j - 1] /\ i # j
      BY <1>1, <1>2, <2>5
    <3> QED
      BY <1>1, <3>1
  <2> QED
    BY <1>1, <2>1, <2>2, <2>3, <2>4, <2>5
<1>9. \A i \in 1..(L + 1) : sTimers'[i] \in Timers
  BY <1>2
<1>10. DeltasExact'
  <2> SUFFICES ASSUME NEW i \in 1..(L + 1)
               PROVE  deadline'[sTimers'[i]] = WaitsFrom(i)' + timeout'[sTimers'[i]]
    BY <1>2 DEF DeltasExact
  <2>1. CASE i < ppos
    <3>1. i \in 1..L /\ sTimers'[i] = s[i]
      BY <1>1, <1>2, <2>1
    <3>2. deadline[s[i]] = WaitsFrom(i) + timeout[s[i]]
      BY <3>1 DEF ListInv, DeltasExact
    <3>3. WaitsFrom(i)' = WaitsFrom(i)
      <4>1. i # 1 => /\ i - 1 \in 1..L
                     /\ sTimers'[i - 1] = s[i - 1]
        BY <1>1, <1>2, <2>1
      <4> QED
        BY <1>1, <1>3, <1>6, <4>1 DEF WaitsFrom
    <3>4. s[i] \in Timers /\ s[i] # ptimer /\ i # ppos
      BY <1>1, <2>1, <3>1
    <3>5. deadline'[s[i]] = deadline[s[i]] /\ timeout'[s[i]] = timeout[s[i]]
      BY <1>3, <1>5, <3>1, <3>4
    <3> QED
      BY <3>1, <3>2, <3>3, <3>5
  <2>2. CASE i = ppos
    <3>1. WaitsFrom(i)' = WaitsFrom(i)
      <4>1. i # 1 => /\ i - 1 \in 1..L
                     /\ sTimers'[i - 1] = s[i - 1]
        BY <1>1, <1>2, <2>2
      <4> QED
        BY <1>1, <1>3, <1>6, <4>1 DEF WaitsFrom
    <3> QED
      BY <1>2, <1>3, <1>5, <2>2, <3>1
  <2>3. CASE i = ppos + 1
    <3>1. ppos \in 1..L /\ sTimers'[i] = s[ppos] /\ sTimers'[i - 1] = ptimer
      BY <1>1, <1>2, <2>3
    <3>2. deadline[s[ppos]] = WaitsFrom(ppos) + timeout[s[ppos]]
      BY <3>1 DEF ListInv, DeltasExact
    <3>3. WaitsFrom(i)' = deadline'[ptimer]
      BY <1>1, <2>3, <3>1 DEF WaitsFrom
    <3>4. /\ deadline'[s[ppos]] = deadline[s[ppos]]
          /\ timeout'[s[ppos]] = timeout[s[ppos]] - prem
      BY <1>1, <1>3, <1>5, <3>1
    <3>5. /\ WaitsFrom(ppos) \in Nat /\ prem \in Nat
          /\ timeout[s[ppos]] \in Nat
      BY <1>1, <3>1, WaitsFromType, WordAssumption, SMTT(30) DEF TypeOK
    <3> QED
      BY <1>3, <3>1, <3>2, <3>3, <3>4, <3>5
  <2>4. CASE i > ppos + 1
    <3>1. /\ i - 1 \in 1..L /\ i - 1 # ppos /\ i - 2 \in 1..L /\ i # 1 /\ i - 1 # 1
          /\ sTimers'[i] = s[i - 1] /\ sTimers'[i - 1] = s[i - 2]
      BY <1>1, <1>2, <2>4
    <3>2. deadline[s[i - 1]] = WaitsFrom(i - 1) + timeout[s[i - 1]]
      BY <3>1 DEF ListInv, DeltasExact
    <3>3. WaitsFrom(i)' = deadline'[s[i - 2]] /\ WaitsFrom(i - 1) = deadline[s[i - 2]]
      BY <3>1 DEF WaitsFrom
    <3> QED
      BY <1>1, <1>3, <1>5, <3>1, <3>2, <3>3
  <2> QED
    BY <1>1, <2>1, <2>2, <2>3, <2>4
<1>11. ppos > 1 => WaitsFrom(ppos) = deadline[s[ppos - 1]]
  BY <1>1 DEF WaitsFrom
<1>12. ppos <= L => deadline[s[ppos]] > deadline'[ptimer]
  <2> SUFFICES ASSUME ppos <= L PROVE deadline[s[ppos]] > deadline'[ptimer]
    OBVIOUS
  <2>1. ppos \in 1..L
    BY <1>1
  <2>2. deadline[s[ppos]] = WaitsFrom(ppos) + timeout[s[ppos]]
    BY <2>1 DEF ListInv, DeltasExact
  <2>3. /\ WaitsFrom(ppos) \in Nat /\ prem \in Nat
        /\ timeout[s[ppos]] \in Nat
    BY <1>1, <2>1, WaitsFromType, WordAssumption DEF TypeOK
  <2> QED
    BY <1>3, <1>4, <2>1, <2>2, <2>3
<1>13. prem \in Nat /\ deadline \in [Timers -> Nat]
  BY <1>1, WordAssumption DEF TypeOK
<1>14. Sorted'
  <2> SUFFICES ASSUME NEW i \in 1..(L + 1), NEW j \in 1..(L + 1), i < j
               PROVE  deadline'[sTimers'[i]] <= deadline'[sTimers'[j]]
    BY <1>2, <1>3, <1>9 DEF Sorted
  <2>0. \A m, n \in 1..L : m <= n => deadline[s[m]] <= deadline[s[n]]
    BY DEF ListInv, Sorted
  <2>1. CASE j < ppos
    <3>1. /\ i \in 1..L /\ j \in 1..L /\ i <= j
          /\ sTimers'[i] = s[i] /\ sTimers'[j] = s[j]
      BY <1>1, <1>2, <2>1
    <3> QED
      BY <1>1, <1>3, <2>0, <3>1
  <2>2. CASE j = ppos
    <3>1. /\ i \in 1..L /\ ppos - 1 \in 1..L /\ i <= ppos - 1
          /\ sTimers'[i] = s[i] /\ sTimers'[j] = ptimer
      BY <1>1, <1>2, <2>2
    <3>2. deadline[s[i]] <= deadline[s[ppos - 1]]
      BY <2>0, <3>1
    <3>3. deadline'[ptimer] = deadline[s[ppos - 1]] + prem
      BY <1>3, <1>11, <3>1, <1>1
    <3>4. deadline[s[i]] \in Nat /\ deadline[s[ppos - 1]] \in Nat
      BY <1>1, <1>13, <3>1
    <3>5. deadline'[s[i]] = deadline[s[i]]
      BY <1>1, <1>3, <3>1
    <3> QED
      BY <1>13, <3>1, <3>2, <3>3, <3>4, <3>5
  <2>3. CASE j > ppos /\ i = ppos
    <3>1. /\ ppos \in 1..L /\ j - 1 \in 1..L /\ ppos <= j - 1
          /\ sTimers'[i] = ptimer /\ sTimers'[j] = s[j - 1]
      BY <1>1, <1>2, <2>3
    <3>2. deadline[s[ppos]] <= deadline[s[j - 1]]
      BY <2>0, <3>1
    <3>3. /\ deadline[s[ppos]] \in Nat /\ deadline[s[j - 1]] \in Nat
          /\ deadline'[ptimer] \in Nat
      BY <1>1, <1>3, <1>13, <3>1
    <3>4. deadline'[s[j - 1]] = deadline[s[j - 1]]
      BY <1>1, <1>3, <3>1
    <3> QED
      BY <1>12, <3>1, <3>2, <3>3, <3>4
  <2>4. CASE j > ppos /\ i # ppos
    <3>1. PICK m \in 1..L, n \in 1..L :
             m <= n /\ sTimers'[i] = s[m] /\ sTimers'[j] = s[n]
      <4>1. CASE i < ppos
        <5>1. /\ i \in 1..L /\ j - 1 \in 1..L /\ i <= j - 1
              /\ sTimers'[i] = s[i] /\ sTimers'[j] = s[j - 1]
          BY <1>1, <1>2, <2>4, <4>1
        <5> QED
          BY <5>1
      <4>2. CASE i > ppos
        <5>1. /\ i - 1 \in 1..L /\ j - 1 \in 1..L /\ i - 1 <= j - 1
              /\ sTimers'[i] = s[i - 1] /\ sTimers'[j] = s[j - 1]
          BY <1>1, <1>2, <2>4, <4>2
        <5> QED
          BY <5>1
      <4> QED
        BY <1>1, <2>4, <4>1, <4>2
    <3>2. deadline[s[m]] <= deadline[s[n]]
      BY <2>0, <3>1
    <3>3. deadline'[s[m]] = deadline[s[m]] /\ deadline'[s[n]] = deadline[s[n]]
      BY <1>1, <1>3
    <3> QED
      BY <3>1, <3>2, <3>3
  <2> QED
    BY <1>1, <2>1, <2>2, <2>3, <2>4
<1>15. DueWindow'
  <2> SUFFICES ASSUME NEW i \in 1..(L + 1)
               PROVE  /\ vt <= deadline'[sTimers'[i]]
                      /\ deadline'[sTimers'[i]] <= vt + Interval[sTimers'[i]]
    BY <1>2, <1>6 DEF DueWindow
  <2>1. CASE i = ppos
    <3>1. sTimers'[i] = ptimer /\ Interval[ptimer] \in Nat
      BY <1>1, <1>2, <2>1, TimersAssumption, WordAssumption
    <3> QED
      BY <1>3, <1>6, <3>1
  <2>2. CASE i # ppos
    <3>1. PICK m \in 1..L : sTimers'[i] = s[m]
      <4>1. IF i < ppos THEN i \in 1..L /\ sTimers'[i] = s[i]
                        ELSE i - 1 \in 1..L /\ sTimers'[i] = s[i - 1]
        BY <1>1, <1>2, <2>2
      <4> QED
        BY <4>1
    <3> QED
      BY <1>1, <1>3, <3>1 DEF ListInv, DueWindow
  <2> QED
    BY <2>1, <2>2
<1>16. SearchExact'
  BY <1>6 DEF SearchExact
<1> QED
  BY <1>7, <1>8, <1>10, <1>14, <1>15, <1>16 DEF ListInv

(* Stopping a timer hands its wait to its successor, which never makes the *)
(* successor wait longer than its own interval.                            *)
LEMMA StopKeepsListInv ==
    ASSUME ListInv, NEW t \in Timers, swTimerStop(t)
    PROVE  ListInv'
<1> DEFINE L == Len(sTimers)
           s == sTimers
<1>1. /\ TypeOK /\ L \in Nat /\ s \in Seq(Timers)
      /\ \A i \in 1..L : s[i] \in Timers
      /\ \A i, j \in 1..L : s[i] = s[j] => i = j
      /\ \A i \in 1..L : timeout[s[i]] \in Nat /\ deadline[s[i]] \in Nat
  BY WordAssumption DEF ListInv, TypeOK, NoDuplicates
<1>2. PICK k \in 1..L : /\ timeout' = StoppedTimeouts(k)
                        /\ sTimers' = RemoveAt(s, k)
  BY DEF swTimerStop
<1>3. /\ sTimers' \in Seq(Timers)
      /\ Len(sTimers') = L - 1
      /\ \A j \in 1..(L - 1) : sTimers'[j] = IF j < k THEN s[j] ELSE s[j + 1]
  <2> DEFINE r == RemoveAt(s, k)
  <2>1. /\ r \in Seq(Timers)
        /\ Len(r) = L - 1
        /\ \A j \in 1..(L - 1) : r[j] = IF j < k THEN s[j] ELSE s[j + 1]
    <3>1. s \in Seq(Timers) /\ k \in 1..Len(s)
      BY <1>1
    <3> QED
      BY <3>1, RemoveIs DEF IsWithout
  <2> HIDE DEF r
  <2> QED
    BY <1>2, <2>1 DEF r
<1>4. UNCHANGED <<vt, deadline, pc>> /\ pc # "place" /\ vt \in Nat
  BY <1>1 DEF swTimerStop, Client, TypeOK
<1>5. \A i \in 1..L : deadline[s[i]] = WaitsFrom(i) + timeout[s[i]]
  BY DEF ListInv, DeltasExact
<1>6. \A i \in 1..L : WaitsFrom(i) \in Nat /\ WaitsFrom(i) >= vt
  <2> TAKE i \in 1..L
  <2>1. WaitsFrom(i) \in Nat
    BY <1>1, WaitsFromType
  <2>2. i # 1 => i - 1 \in 1..L
    BY <1>1
  <2>3. i # 1 => deadline[s[i - 1]] >= vt
    BY <2>2, <1>4, <1>1 DEF ListInv, DueWindow
  <2> QED
    BY <1>4, <2>1, <2>3 DEF WaitsFrom
<1>7. k < L => /\ WaitsFrom(k + 1) = deadline[s[k]]
               /\ timeout[s[k + 1]] + timeout[s[k]] = deadline[s[k + 1]] - WaitsFrom(k)
               /\ timeout[s[k + 1]] + timeout[s[k]] <= Interval[s[k + 1]]
  <2> SUFFICES ASSUME k < L
               PROVE  /\ WaitsFrom(k + 1) = deadline[s[k]]
                      /\ timeout[s[k + 1]] + timeout[s[k]]
                            = deadline[s[k + 1]] - WaitsFrom(k)
                      /\ timeout[s[k + 1]] + timeout[s[k]] <= Interval[s[k + 1]]
    OBVIOUS
  <2>1. k + 1 \in 1..L /\ k + 1 # 1
    BY <1>1
  <2>2. WaitsFrom(k + 1) = deadline[s[k]]
    BY <2>1 DEF WaitsFrom
  <2>3. /\ deadline[s[k + 1]] = deadline[s[k]] + timeout[s[k + 1]]
        /\ deadline[s[k]] = WaitsFrom(k) + timeout[s[k]]
    BY <1>5, <2>1, <2>2
  <2>4. deadline[s[k + 1]] <= vt + Interval[s[k + 1]]
    BY <2>1 DEF ListInv, DueWindow
  <2>5. Interval[s[k + 1]] \in Nat
    BY <1>1, <2>1, TimersAssumption, WordAssumption
  <2>6. /\ timeout[s[k + 1]] \in Nat /\ timeout[s[k]] \in Nat
        /\ deadline[s[k + 1]] \in Nat /\ deadline[s[k]] \in Nat
        /\ WaitsFrom(k) \in Nat /\ WaitsFrom(k) >= vt /\ vt \in Nat
    BY <1>1, <1>4, <1>6, <2>1
  <2>7. timeout[s[k + 1]] + timeout[s[k]] = deadline[s[k + 1]] - WaitsFrom(k)
    <3>1. deadline[s[k + 1]] = (WaitsFrom(k) + timeout[s[k]]) + timeout[s[k + 1]]
      BY <2>3
    <3> QED
      BY <2>6, <3>1, SMTT(30)
  <2> QED
    BY <2>2, <2>4, <2>5, <2>6, <2>7
<1>8. /\ timeout' \in [Timers -> 0..(WORD - 1)]
      /\ k < L => timeout'[s[k + 1]] = timeout[s[k + 1]] + timeout[s[k]]
      /\ \A i \in 1..L : i # k + 1 => timeout'[s[i]] = timeout[s[i]]
  <2>1. CASE k < L
    <3>1. k + 1 \in 1..L /\ s[k + 1] \in Timers
      BY <1>1, <2>1
    <3>2. timeout' = [timeout EXCEPT ![s[k + 1]] = timeout[s[k + 1]] + timeout[s[k]]]
      BY <1>2, <2>1 DEF StoppedTimeouts
    <3>3. timeout[s[k + 1]] + timeout[s[k]] \in 0..(WORD - 1)
      <4>1. Interval[s[k + 1]] \in 0..(WORD - 1)
        BY <3>1, TimersAssumption
      <4> QED
        BY <1>1, <1>7, <2>1, <3>1, <4>1, WordAssumption, SMTT(30)
    <3> QED
      BY <1>1, <3>1, <3>2, <3>3 DEF TypeOK
  <2>2. CASE ~(k < L)
    BY <1>1, <1>2, <2>2 DEF StoppedTimeouts, TypeOK
  <2> QED
    BY <2>1, <2>2
<1>9. TypeOK'
  BY <1>1, <1>3, <1>8 DEF swTimerStop, TypeOK, place
<1>9a. ASSUME NEW i \in 1..(L - 1)
       PROVE  IF i < k THEN i \in 1..L /\ sTimers'[i] = s[i]
                       ELSE i + 1 \in 1..L /\ sTimers'[i] = s[i + 1]
  <2>1. CASE i < k
    BY <1>1, <1>3, <2>1
  <2>2. CASE ~(i < k)
    BY <1>1, <1>3, <2>2
  <2> QED
    BY <2>1, <2>2
<1>10. NoDuplicates'
  <2> SUFFICES ASSUME NEW i \in 1..(L - 1), NEW j \in 1..(L - 1), i # j,
                      sTimers'[i] = sTimers'[j]
               PROVE  FALSE
    BY <1>3, <1>4 DEF NoDuplicates
  <2>1. PICK m \in 1..L, n \in 1..L : m # n /\ s[m] = s[n]
    BY <1>9a
  <2> QED
    BY <1>1, <2>1
<1>11. DeltasExact'
  <2> SUFFICES ASSUME NEW i \in 1..(L - 1)
               PROVE  deadline[sTimers'[i]] = WaitsFrom(i)' + timeout'[sTimers'[i]]
    BY <1>3, <1>4 DEF DeltasExact
  <2>1. CASE i < k
    <3>1. /\ i \in 1..L /\ i # k + 1 /\ sTimers'[i] = s[i]
          /\ i # 1 => i - 1 \in 1..(L - 1) /\ sTimers'[i - 1] = s[i - 1]
      BY <1>1, <1>3, <2>1
    <3>2. WaitsFrom(i)' = WaitsFrom(i)
      BY <1>4, <3>1 DEF WaitsFrom
    <3> QED
      BY <1>5, <1>8, <3>1, <3>2
  <2>2. CASE i = k
    <3>1. /\ k < L /\ sTimers'[i] = s[k + 1]
          /\ i # 1 => i - 1 \in 1..(L - 1) /\ sTimers'[i - 1] = s[i - 1]
      BY <1>1, <1>3, <2>2
    <3>2. WaitsFrom(i)' = WaitsFrom(k)
      BY <1>4, <2>2, <3>1 DEF WaitsFrom
    <3>3. k + 1 \in 1..L
      BY <1>1, <3>1
    <3>4. deadline[s[k + 1]] \in Nat /\ WaitsFrom(k) \in Nat
      BY <1>1, <1>6, <3>3
    <3> QED
      BY <1>7, <1>8, <3>1, <3>2, <3>4
  <2>3. CASE i > k
    <3>1. /\ i + 1 \in 1..L /\ i + 1 # k + 1 /\ i # 1 /\ i + 1 # 1
          /\ sTimers'[i] = s[i + 1]
          /\ i - 1 \in 1..(L - 1) /\ sTimers'[i - 1] = s[i]
      BY <1>1, <1>3, <2>3
    <3>2. WaitsFrom(i)' = WaitsFrom(i + 1)
      BY <1>4, <3>1 DEF WaitsFrom
    <3> QED
      BY <1>5, <1>8, <3>1, <3>2
  <2> QED
    BY <1>1, <2>1, <2>2, <2>3
<1>12. Sorted'
  <2> SUFFICES ASSUME NEW i \in 1..(L - 1), NEW j \in 1..(L - 1), i <= j
               PROVE  deadline[sTimers'[i]] <= deadline[sTimers'[j]]
    BY <1>3, <1>4 DEF Sorted
  <2>1. PICK m \in 1..L, n \in 1..L :
           m <= n /\ sTimers'[i] = s[m] /\ sTimers'[j] = s[n]
    <3> DEFINE before(q) == IF q < k THEN q ELSE q + 1
    <3>1. before(i) \in 1..L /\ sTimers'[i] = s[before(i)]
      BY <1>9a
    <3>2. before(j) \in 1..L /\ sTimers'[j] = s[before(j)]
      BY <1>9a
    <3>3. before(i) <= before(j)
      BY <1>1
    <3> HIDE DEF before
    <3> QED
      BY <3>1, <3>2, <3>3
  <2> QED
    BY <2>1 DEF ListInv, Sorted
<1>13. DueWindow'
  <2> SUFFICES ASSUME NEW i \in 1..(L - 1)
               PROVE  /\ vt <= deadline[sTimers'[i]]
                      /\ deadline[sTimers'[i]] <= vt + Interval[sTimers'[i]]
    BY <1>3, <1>4 DEF DueWindow
  <2> QED
    BY <1>9a DEF ListInv, DueWindow
<1>14. SearchExact'
  BY <1>4 DEF SearchExact
<1> QED
  BY <1>9, <1>10, <1>11, <1>12, <1>13, <1>14 DEF ListInv

(* The head: it waits from vt, nothing is due before it, and handing out   *)
(* its wait brings vt to its deadline.                                     *)
LEMMA HeadProperties ==
    ASSUME ListInv, sTimers # <<>>
    PROVE  /\ Len(sTimers) \in Nat \ {0}
           /\ Head(sTimers) = sTimers[1]
           /\ sTimers[1] \in Timers
           /\ timeout[sTimers[1]] \in 0..(WORD - 1)
           /\ deadline[sTimers[1]] = vt + timeout[sTimers[1]]
           /\ \A i \in 1..Len(sTimers) : deadline[sTimers[1]] <= deadline[sTimers[i]]
<1>1. Len(sTimers) \in Nat \ {0} /\ Head(sTimers) = sTimers[1] /\ sTimers[1] \in Timers
  BY DEF ListInv, TypeOK
<1>2. 1 \in 1..Len(sTimers)
  BY <1>1
<1> QED
  BY <1>1, <1>2 DEF ListInv, TypeOK, DeltasExact, WaitsFrom, Sorted

(* Expiring the head moves vt to its deadline, where the next node's wait  *)
(* begins.                                                                 *)
LEMMA ExpireKeepsListInv ==
    ASSUME ListInv, HandlerExpire
    PROVE  ListInv'
<1> DEFINE L == Len(sTimers)
           s == sTimers
           t == sTimers[1]
<1>1. /\ TypeOK /\ s \in Seq(Timers) /\ L \in Nat \ {0}
      /\ s # <<>> /\ Head(s) = t /\ t \in Timers
      /\ timeout[t] \in 0..(WORD - 1) /\ timeout[t] <= elapsed
      /\ deadline[t] = vt + timeout[t]
      /\ \A i \in 1..L : deadline[t] <= deadline[s[i]]
      /\ \A i, j \in 1..L : s[i] = s[j] => i = j
  BY HeadProperties DEF ListInv, HandlerExpire, HeadExpired, TypeOK, NoDuplicates
<1>2. /\ sTimers' \in Seq(Timers) /\ Len(sTimers') = L - 1
      /\ \A i \in 1..(L - 1) : sTimers'[i] = s[i + 1]
  BY <1>1, HeadTailProperties DEF HandlerExpire
<1>3. vt' = deadline[t] /\ vt' \in Nat /\ vt' >= vt /\ UNCHANGED <<timeout, deadline>>
  BY <1>1, WordAssumption DEF HandlerExpire, TypeOK
<1>4. TypeOK'
  <2>1. elapsed' \in 0..(WORD - 1)
    BY <1>1, WordAssumption, SMTT(30) DEF HandlerExpire, ElapsedAfter, TypeOK
  <2>2. /\ pc' \in {"callback", "place"}
        /\ ptimer' \in Timers \cup {NoTimer}
        /\ ppos' \in Nat \ {0}
        /\ prem' \in 0..(WORD - 1)
        /\ pret' \in {"main", "callback", "dispatch"}
    <3>1. CASE Mode[t] = "PERIODIC"
      BY <1>1, <3>1, TimersAssumption DEF HandlerExpire, EnterPlace
    <3>2. CASE Mode[t] # "PERIODIC"
      BY <1>1, <3>2 DEF HandlerExpire, TypeOK, place
    <3> QED
      BY <3>1, <3>2
  <2> QED
    BY <1>1, <1>2, <1>3, <2>1, <2>2 DEF HandlerExpire, TypeOK
<1>5. NoDuplicates'
  <2>1. ASSUME NEW i \in 1..(L - 1), NEW j \in 1..(L - 1), sTimers'[i] = sTimers'[j]
        PROVE  i = j
    <3>1. i + 1 \in 1..L /\ j + 1 \in 1..L /\ s[i + 1] = s[j + 1]
      BY <1>1, <1>2, <2>1
    <3> QED
      BY <1>1, <3>1
  <2>2. ASSUME pc' = "place" PROVE ptimer' = t /\ t \notin Armed'
    <3>1. ptimer' = t
      BY <1>1, <2>2 DEF HandlerExpire, EnterPlace
    <3>2. ASSUME NEW i \in 1..(L - 1) PROVE sTimers'[i] # t
      <4>1. i + 1 \in 1..L /\ i + 1 # 1 /\ 1 \in 1..L /\ sTimers'[i] = s[i + 1]
        BY <1>1, <1>2
      <4> QED
        BY <1>1, <4>1
    <3>3. DOMAIN sTimers' = 1..(L - 1)
      BY <1>2
    <3> QED
      BY <3>1, <3>2, <3>3 DEF Armed, ToSet
  <2> QED
    BY <1>1, <1>2, <2>1, <2>2 DEF NoDuplicates
<1>6. DeltasExact'
  <2> SUFFICES ASSUME NEW i \in 1..(L - 1)
               PROVE  deadline[sTimers'[i]] = WaitsFrom(i)' + timeout[sTimers'[i]]
    BY <1>2, <1>3 DEF DeltasExact
  <2>1. /\ i + 1 \in 1..L /\ i + 1 # 1 /\ sTimers'[i] = s[i + 1]
        /\ i # 1 => i - 1 \in 1..(L - 1) /\ sTimers'[i - 1] = s[i]
    BY <1>1, <1>2
  <2>2. WaitsFrom(i)' = WaitsFrom(i + 1)
    BY <1>3, <2>1 DEF WaitsFrom
  <2> QED
    BY <2>1, <2>2 DEF ListInv, DeltasExact
<1>7. SearchExact'
  <2> SUFFICES ASSUME pc' = "place"
               PROVE  /\ ppos' <= Len(sTimers') + 1
                      /\ vt' + Interval[ptimer'] = WaitsFrom(ppos)' + prem'
    BY DEF SearchExact
  <2>1. ppos' = 1 /\ ptimer' = t /\ prem' = Interval[t]
    BY <1>1 DEF HandlerExpire, EnterPlace
  <2> QED
    BY <1>1, <1>2, <1>3, <2>1 DEF WaitsFrom
<1>8. Sorted'
  <2> SUFFICES ASSUME NEW i \in 1..(L - 1), NEW j \in 1..(L - 1), i <= j
               PROVE  deadline[sTimers'[i]] <= deadline[sTimers'[j]]
    BY <1>2, <1>3 DEF Sorted
  <2>1. i + 1 \in 1..L /\ j + 1 \in 1..L /\ i + 1 <= j + 1
    BY <1>1
  <2> QED
    BY <1>2, <2>1 DEF ListInv, Sorted
<1>9. DueWindow'
  <2> SUFFICES ASSUME NEW i \in 1..(L - 1)
               PROVE  /\ vt' <= deadline[sTimers'[i]]
                      /\ deadline[sTimers'[i]] <= vt' + Interval[sTimers'[i]]
    BY <1>2, <1>3 DEF DueWindow
  <2>1. i + 1 \in 1..L /\ sTimers'[i] = s[i + 1] /\ s[i + 1] \in Timers
    BY <1>1, <1>2
  <2>2. deadline[s[i + 1]] <= vt + Interval[s[i + 1]]
    BY <2>1 DEF ListInv, DueWindow
  <2>3. deadline[s[i + 1]] \in Nat /\ vt \in Nat /\ Interval[s[i + 1]] \in Nat
    BY <1>1, <2>1, TimersAssumption, WordAssumption, SMTT(30) DEF TypeOK
  <2>4. vt' <= deadline[s[i + 1]]
    BY <1>1, <1>3, <2>1
  <2> QED
    BY <1>3, <2>1, <2>2, <2>3, <2>4, SMTT(30)
<1> QED
  BY <1>4, <1>5, <1>6, <1>7, <1>8, <1>9 DEF ListInv

(* What is left of elapsed is less than the head's wait, so it may be      *)
(* taken from the head alone.                                              *)
LEMMA ExitKeepsListInv ==
    ASSUME ListInv, HandlerExit
    PROVE  ListInv'
<1> DEFINE L == Len(sTimers)
           s == sTimers
<1>1. /\ TypeOK /\ s \in Seq(Timers) /\ L \in Nat
      /\ vt \in Nat /\ elapsed \in Nat /\ vt' = vt + elapsed
      /\ pc' = "main" /\ UNCHANGED <<sTimers, deadline>>
      /\ \A i \in 1..L : s[i] \in Timers /\ deadline[s[i]] \in Nat
      /\ \A i \in 1..L : Interval[s[i]] \in Nat
      /\ \A i, j \in 1..L : s[i] = s[j] => i = j
  <2>1. TypeOK /\ NoDuplicates /\ (\A i \in 1..L : s[i] \in Timers)
    BY DEF ListInv, TypeOK
  <2>2. \A i \in 1..L : deadline[s[i]] \in Nat /\ Interval[s[i]] \in Nat
    BY <2>1, WordAssumption, TimersAssumption DEF TypeOK
  <2>3. /\ s \in Seq(Timers) /\ L \in Nat
        /\ vt \in Nat /\ elapsed \in Nat /\ vt' = vt + elapsed
        /\ pc' = "main" /\ UNCHANGED <<sTimers, deadline>>
    BY <2>1, WordAssumption DEF HandlerExit, TypeOK
  <2> QED
    BY <2>1, <2>2, <2>3 DEF NoDuplicates
<1>2. s # <<>> => /\ L \in Nat \ {0}
                  /\ s[1] \in Timers /\ timeout[s[1]] \in 0..(WORD - 1)
                  /\ elapsed < timeout[s[1]]
                  /\ deadline[s[1]] = vt + timeout[s[1]]
                  /\ timeout' = [timeout EXCEPT ![s[1]] = timeout[s[1]] - elapsed]
  <2> SUFFICES ASSUME s # <<>>
               PROVE  /\ L \in Nat \ {0}
                      /\ s[1] \in Timers /\ timeout[s[1]] \in 0..(WORD - 1)
                      /\ elapsed < timeout[s[1]]
                      /\ deadline[s[1]] = vt + timeout[s[1]]
                      /\ timeout' = [timeout EXCEPT ![s[1]] = timeout[s[1]] - elapsed]
    OBVIOUS
  <2>1. /\ L \in Nat \ {0} /\ Head(s) = s[1]
        /\ s[1] \in Timers /\ timeout[s[1]] \in 0..(WORD - 1)
        /\ deadline[s[1]] = vt + timeout[s[1]]
    BY HeadProperties
  <2>2. ~(timeout[s[1]] <= elapsed)
    BY <2>1 DEF HandlerExit, HeadExpired
  <2> QED
    BY <1>1, <2>1, <2>2, WordAssumption DEF HandlerExit, RemainingTimeouts
<1>3. s = <<>> => timeout' = timeout /\ L = 0
  BY DEF HandlerExit, RemainingTimeouts
<1>4. timeout' \in [Timers -> 0..(WORD - 1)]
  <2>1. CASE s = <<>>
    BY <1>1, <1>3, <2>1 DEF TypeOK
  <2>2. CASE s # <<>>
    <3>1. timeout[s[1]] - elapsed \in 0..(WORD - 1)
      BY <1>1, <1>2, <2>2, WordAssumption
    <3>2. timeout \in [Timers -> 0..(WORD - 1)]
      BY <1>1 DEF TypeOK
    <3>3. timeout' = [timeout EXCEPT ![s[1]] = timeout[s[1]] - elapsed]
      BY <1>2, <2>2
    <3> HIDE DEF s
    <3> QED
      BY <3>1, <3>2, <3>3
  <2> QED
    BY <2>1, <2>2
<1>5. TypeOK'
  BY <1>1, <1>4, WordAssumption DEF HandlerExit, TypeOK, place
<1>6. NoDuplicates' /\ Sorted' /\ SearchExact'
  BY <1>1 DEF ListInv, NoDuplicates, Sorted, SearchExact
<1>7. \A i \in 1..L : vt' <= deadline[s[i]]
  <2> TAKE i \in 1..L
  <2>1. s # <<>> /\ 1 \in 1..L
    BY <1>1
  <2>2. deadline[s[1]] <= deadline[s[i]]
    BY <2>1, HeadProperties
  <2>3. deadline[s[1]] \in Nat /\ deadline[s[i]] \in Nat
    BY <1>1, <2>1
  <2> QED
    BY <1>1, <1>2, <2>1, <2>2, <2>3
<1>8. DueWindow'
  <2> SUFFICES ASSUME NEW i \in 1..L
               PROVE  deadline[s[i]] <= vt' + Interval[s[i]]
    BY <1>1, <1>7 DEF DueWindow
  <2>1. deadline[s[i]] <= vt + Interval[s[i]]
    BY DEF ListInv, DueWindow
  <2> QED
    BY <1>1, <2>1
<1>9. DeltasExact'
  <2> SUFFICES ASSUME NEW i \in 1..L
               PROVE  deadline[s[i]] = WaitsFrom(i)' + timeout'[s[i]]
    BY <1>1 DEF DeltasExact
  <2>1. s # <<>> /\ 1 \in 1..L
    BY <1>1
  <2>2. CASE i = 1
    <3>1. WaitsFrom(i)' = vt'
      BY <2>2 DEF WaitsFrom
    <3>2. timeout'[s[i]] = timeout[s[1]] - elapsed
      BY <1>1, <1>2, <2>1, <2>2 DEF TypeOK
    <3> QED
      BY <1>1, <1>2, <2>1, <2>2, <3>1, <3>2
  <2>3. CASE i # 1
    <3>1. WaitsFrom(i)' = WaitsFrom(i)
      BY <1>1, <2>3 DEF WaitsFrom
    <3>2. timeout'[s[i]] = timeout[s[i]]
      BY <1>1, <1>2, <2>1, <2>3 DEF TypeOK
    <3> QED
      BY <3>1, <3>2 DEF ListInv, DeltasExact
  <2> QED
    BY <2>2, <2>3
<1> QED
  BY <1>5, <1>6, <1>8, <1>9 DEF ListInv

LEMMA InitListInv == Init => ListInv
<1> SUFFICES ASSUME Init PROVE ListInv
  OBVIOUS
<1>1. sTimers = <<>> /\ Len(sTimers) = 0 /\ sTimers \in Seq(Timers)
  BY DEF Init
<1>2. TypeOK
  BY <1>1, WordAssumption, TimersAssumption DEF Init, TypeOK
<1> QED
  BY <1>1, <1>2 DEF Init, ListInv, NoDuplicates, DeltasExact, SearchExact, Sorted,
                   DueWindow

LEMMA StepListInv == ListInv /\ [Next]_vars => ListInv'
<1> SUFFICES ASSUME ListInv, [Next]_vars PROVE ListInv'
  OBVIOUS
<1>1. CASE Tick
  BY <1>1, ListUntouched DEF Tick, ListInv, TypeOK, code, place
<1>2. ASSUME NEW t \in Timers, swTimerStart(t) PROVE ListInv'
  BY <1>2, StartKeepsListInv
<1>3. ASSUME NEW t \in Timers, swTimerStop(t) PROVE ListInv'
  BY <1>3, StopKeepsListInv
<1>4. CASE HandlerEnter
  <2>1. (millis - oldTime) % WORD \in 0..(WORD - 1)
    BY WordAssumption, DivMod DEF ListInv, TypeOK, millis
  <2>2. TypeOK' /\ pc' # "place"
    BY <1>4, <2>1 DEF HandlerEnter, ListInv, TypeOK, place
  <2> QED
    BY <1>4, <2>2, ListUntouched DEF HandlerEnter
<1>5. CASE HandlerSync
  <2>1. millis \in 0..(WORD - 1)
    BY WordAssumption, DivMod DEF ListInv, TypeOK, millis
  <2>2. TypeOK' /\ pc' # "place"
    BY <1>5, <2>1, WordAssumption DEF HandlerSync, ListInv, TypeOK, place
  <2> QED
    BY <1>5, <2>2, ListUntouched DEF HandlerSync
<1>6. CASE HandlerExpire
  BY <1>6, ExpireKeepsListInv
<1>7. CASE HandlerExit
  BY <1>7, ExitKeepsListInv
<1>8. CASE PlaceSkip
  BY <1>8, SkipKeepsListInv
<1>9. CASE PlaceInsert
  BY <1>9, InsertKeepsListInv
<1>10. CASE CallbackReturn
  BY <1>10, ListUntouched DEF CallbackReturn, ListInv, TypeOK, place
<1>11. CASE UNCHANGED vars
  BY <1>11, ListUntouched DEF vars, code, place, ListInv, TypeOK
<1> QED
  BY <1>1, <1>2, <1>3, <1>4, <1>5, <1>6, <1>7, <1>8, <1>9, <1>10, <1>11
  DEF Next, Handler

(* The delta list of swTimers.c is always well formed: no timer is linked  *)
(* twice, the search of placeTimer has subtracted what it passed, and each *)
(* node waits exactly from its predecessor's deadline to its own, whatever *)
(* is started, stopped and expired in between.                             *)
THEOREM ListCorrect == Spec => []ListInv
BY InitListInv, StepListInv, PTL DEF Spec

(* swTimerStop never makes a node wait longer than its own interval, so    *)
(* its 32-bit addition never wraps.                                        *)
THEOREM WaitsStayBounded == Spec => []WaitBounded
<1>1. ASSUME ListInv PROVE WaitBounded
  <2> SUFFICES ASSUME NEW i \in 1..Len(sTimers)
               PROVE  timeout[sTimers[i]] <= Interval[sTimers[i]]
    BY <1>1, SMTT(30) DEF WaitBounded, Armed, ToSet, ListInv, TypeOK
  <2>1. /\ TypeOK /\ Len(sTimers) \in Nat
        /\ sTimers[i] \in Timers /\ vt \in Nat
        /\ timeout[sTimers[i]] \in Nat /\ Interval[sTimers[i]] \in Nat
    <3>1. TypeOK /\ Len(sTimers) \in Nat /\ sTimers[i] \in Timers
      BY <1>1 DEF ListInv, TypeOK
    <3> QED
      BY <3>1, WordAssumption, TimersAssumption, SMTT(30) DEF TypeOK
  <2>2. WaitsFrom(i) \in Nat /\ WaitsFrom(i) >= vt
    <3>1. i \in 1..(Len(sTimers) + 1) /\ (i # 1 => i - 1 \in 1..Len(sTimers))
      BY <2>1
    <3>2. i # 1 => deadline[sTimers[i - 1]] >= vt
      <4>1. i # 1 => sTimers[i - 1] \in Timers
        BY <2>1, <3>1 DEF TypeOK
      <4>2. i # 1 => vt <= deadline[sTimers[i - 1]]
        BY <1>1, <3>1 DEF ListInv, DueWindow
      <4> QED
        BY <2>1, <4>1, <4>2 DEF TypeOK
    <3> QED
      BY <2>1, <3>1, <3>2, WaitsFromType DEF WaitsFrom
  <2>3. /\ deadline[sTimers[i]] = WaitsFrom(i) + timeout[sTimers[i]]
        /\ deadline[sTimers[i]] <= vt + Interval[sTimers[i]]
    BY <1>1 DEF ListInv, DeltasExact, DueWindow
  <2> QED
    BY <2>1, <2>2, <2>3
<1> QED
  BY InitListInv, StepListInv, <1>1, PTL DEF Spec

(* A periodic timer is placed again at the instant it was due, however     *)
(* late swTimerTaskHandler came round to it.                               *)
THEOREM PeriodicTimersDoNotDrift == Spec => []NoDrift
<1>1. Init => NoDrift
  BY DEF Init, NoDrift
<1>2. ListInv /\ NoDrift /\ [Next]_vars => NoDrift'
  <2> SUFFICES ASSUME ListInv, NoDrift, [Next]_vars,
                      pc' = "place", pret' = "dispatch"
               PROVE  deadline'[ptimer'] = vt'
    BY DEF NoDrift
  <2>1. CASE HandlerExpire
    <3>1. /\ sTimers # <<>> /\ ptimer' = Head(sTimers)
          /\ deadline' = deadline /\ vt' = vt + timeout[Head(sTimers)]
      BY <2>1 DEF HandlerExpire, HeadExpired, EnterPlace
    <3> QED
      BY <3>1, HeadProperties
  <2>2. CASE PlaceSkip \/ Tick \/ UNCHANGED vars
    BY <2>2 DEF PlaceSkip, Tick, vars, code, place, NoDrift
  <2>3. ASSUME NEW t \in Timers PROVE ~swTimerStart(t) /\ ~swTimerStop(t)
    BY DEF swTimerStart, EnterPlace, swTimerStop, Client
  <2>4. ~PlaceInsert
    BY DEF PlaceInsert, ListInv, TypeOK
  <2>5. ~HandlerEnter /\ ~HandlerSync /\ ~HandlerExit /\ ~CallbackReturn
    BY DEF HandlerEnter, HandlerSync, HandlerExit, CallbackReturn
  <2> QED
    BY <2>1, <2>2, <2>3, <2>4, <2>5 DEF Next, Handler
<1> QED
  BY InitListInv, StepListInv, <1>1, <1>2, PTL DEF Spec

-----------------------------------------------------------------------------
(* What the handler has taken is handed out in its own run. *)
AccountInv ==
    /\ TimeAccounted
    /\ pc = "main" \/ (pc = "place" /\ pret = "main") => elapsed = 0

LEMMA InitAccountInv == Init => AccountInv
BY WordAssumption DEF Init, AccountInv, TimeAccounted

LEMMA StepAccountInv ==
    ASSUME ListInv, AccountInv, [Next]_vars
    PROVE  AccountInv'
<1>1. /\ now \in Nat /\ oldNow \in Nat /\ vt \in Nat /\ lost \in Int
      /\ elapsed \in Nat /\ oldTime \in Nat
  BY WordAssumption DEF ListInv, TypeOK
<1>2. CASE Tick
  BY <1>1, <1>2 DEF Tick, AccountInv, TimeAccounted, code, place
<1>3. ASSUME NEW t \in Timers, swTimerStart(t) \/ swTimerStop(t) PROVE AccountInv'
  BY <1>1, <1>3
  DEF swTimerStart, swTimerStop, EnterPlace, Client, AccountInv, TimeAccounted
<1>4. CASE HandlerEnter
  <2>1. elapsed' <= now - oldNow
    BY <1>1, <1>4, WordAssumption, WordDifference
    DEF HandlerEnter, AccountInv, TimeAccounted, millis
  <2> QED
    BY <1>1, <1>4, <2>1 DEF HandlerEnter, AccountInv, TimeAccounted
<1>5. CASE HandlerSync
  BY <1>1, <1>5 DEF HandlerSync, AccountInv, TimeAccounted, millis
<1>6. CASE HandlerExpire
  <2>1. timeout[Head(sTimers)] \in Nat
    BY <1>6, HeadProperties, WordAssumption DEF HandlerExpire, HeadExpired
  <2>2. /\ elapsed' = elapsed - timeout[Head(sTimers)]
        /\ vt' = vt + timeout[Head(sTimers)]
        /\ UNCHANGED <<now, oldTime, oldNow, lost>>
        /\ pc = "while"
        /\ pc' = "callback" \/ (pc' = "place" /\ pret' = "dispatch")
    BY <1>6 DEF HandlerExpire, ElapsedAfter, EnterPlace
  <2>3. vt' + elapsed' = vt + elapsed
    BY <1>1, <2>1, <2>2
  <2>4. /\ vt' + elapsed' + lost' = oldNow'
        /\ pc' # "sync" /\ pc' # "main" /\ (pc' = "place" => pret' # "main")
    BY <2>2, <2>3 DEF AccountInv, TimeAccounted
  <2> QED
    BY <2>2, <2>4 DEF AccountInv, TimeAccounted
<1>7. CASE HandlerExit
  BY <1>1, <1>7 DEF HandlerExit, AccountInv, TimeAccounted
<1>8. CASE PlaceSkip
  BY <1>1, <1>8 DEF PlaceSkip, AccountInv, TimeAccounted, code
<1>9. CASE PlaceInsert
  <2>1. /\ pc' # "sync" /\ pc' # "place" /\ (pc' = "main" => pret = "main")
        /\ pc = "place"
        /\ UNCHANGED <<now, oldTime, oldNow, lost, elapsed, vt>>
    BY <1>9 DEF PlaceInsert, ListInv, TypeOK
  <2> QED
    BY <2>1 DEF AccountInv, TimeAccounted
<1>10. CASE CallbackReturn
  BY <1>1, <1>10 DEF CallbackReturn, AccountInv, TimeAccounted
<1>11. CASE UNCHANGED vars
  BY <1>11 DEF vars, code, place, AccountInv, TimeAccounted
<1> QED
  BY <1>2, <1>3, <1>4, <1>5, <1>6, <1>7, <1>8, <1>9, <1>10, <1>11
  DEF Next, Handler

(* Every millisecond is handed out, in hand, or lost between the two reads *)
(* of millis() in swTimerTaskHandler; hence timers never run ahead.        *)
THEOREM TimeIsAccountedFor == Spec => []TimeAccounted
<1>1. AccountInv => TimeAccounted
  BY DEF AccountInv
<1> QED
  BY InitListInv, StepListInv, InitAccountInv, StepAccountInv, <1>1, PTL DEF Spec

-----------------------------------------------------------------------------
(* The refinement.  Linking a node in arms its timer, swTimerStop disarms  *)
(* it, a turn of the expiry loop is an expiry, and taking the rest of      *)
(* elapsed from the head lets the clock advance.                           *)
LEMMA InsertArms ==
    ASSUME ListInv, PlaceInsert
    PROVE  \E t \in Timers : Service!Arm(t)
<1> DEFINE L == Len(sTimers)
           s == sTimers
           r == sTimers'
<1>1. /\ L \in Nat /\ s \in Seq(Timers) /\ ppos \in 1..(L + 1)
      /\ ptimer \in Timers /\ ptimer \notin Armed
  BY DEF PlaceInsert, ListInv, TypeOK, NoDuplicates, SearchExact
<1>2. /\ r \in Seq(Timers) /\ Len(r) = L + 1
      /\ \A j \in 1..(L + 1) :
            r[j] = IF j < ppos THEN s[j] ELSE IF j = ppos THEN ptimer ELSE s[j - 1]
  BY InsertShape
<1>3. sTimers' = r
  OBVIOUS
<1> HIDE DEF r
<1>4. Armed' = Armed \cup {ptimer}
  <2>1. DOMAIN r = 1..(L + 1) /\ DOMAIN s = 1..L
    BY <1>1, <1>2
  <2>2. ASSUME NEW j \in 1..(L + 1) PROVE r[j] \in Armed \cup {ptimer}
    <3>1. CASE j < ppos
      BY <1>1, <1>2, <2>1, <3>1 DEF Armed, ToSet
    <3>2. CASE j = ppos
      BY <1>1, <1>2, <3>2
    <3>3. CASE j > ppos
      <4>1. j - 1 \in 1..L /\ r[j] = s[j - 1]
        BY <1>1, <1>2, <3>3
      <4> QED
        BY <2>1, <4>1 DEF Armed, ToSet
    <3> QED
      BY <1>1, <3>1, <3>2, <3>3
  <2>3. ASSUME NEW j \in 1..L PROVE \E m \in 1..(L + 1) : r[m] = s[j]
    <3>1. IF j < ppos THEN j \in 1..(L + 1) /\ r[j] = s[j]
                      ELSE j + 1 \in 1..(L + 1) /\ r[j + 1] = s[j]
      BY <1>1, <1>2
    <3> QED
      BY <3>1
  <2>4. ppos \in 1..(L + 1) /\ r[ppos] = ptimer
    BY <1>1, <1>2
  <2> QED
    BY <1>3, <2>1, <2>2, <2>3, <2>4 DEF Armed, ToSet
<1>5. Service!Arm(ptimer)
  BY <1>1, <1>4 DEF Service!Arm, PlaceInsert
<1> QED
  BY <1>1, <1>5

LEMMA StopDisarms ==
    ASSUME ListInv, NEW t \in Timers, swTimerStop(t)
    PROVE  Service!Disarm(t)
<1> DEFINE L == Len(sTimers)
           s == sTimers
<1>1. /\ L \in Nat /\ s \in Seq(Timers) /\ DOMAIN s = 1..L
      /\ \A i, j \in 1..L : s[i] = s[j] => i = j
  BY DEF ListInv, TypeOK, NoDuplicates
<1>2. PICK k \in 1..L : s[k] = t /\ sTimers' = RemoveAt(s, k)
  BY DEF swTimerStop
<1> DEFINE r == RemoveAt(s, k)
<1>3. /\ r \in Seq(Timers) /\ Len(r) = L - 1
      /\ \A j \in 1..(L - 1) : r[j] = IF j < k THEN s[j] ELSE s[j + 1]
  <2>1. s \in Seq(Timers) /\ k \in 1..Len(s)
    BY <1>1
  <2> QED
    BY <2>1, RemoveIs DEF IsWithout
<1>4. sTimers' = r
  BY <1>2
<1> HIDE DEF r
<1>5. DOMAIN r = 1..(L - 1)
  BY <1>1, <1>3
<1>6. ASSUME NEW j \in 1..(L - 1) PROVE r[j] \in Armed \ {t}
  <2>1. PICK m \in 1..L : m # k /\ r[j] = s[m]
    <3>1. CASE j < k
      BY <1>1, <1>3, <3>1
    <3>2. CASE ~(j < k)
      <4>1. j + 1 \in 1..L /\ j + 1 # k /\ r[j] = s[j + 1]
        BY <1>1, <1>3, <3>2
      <4> QED
        BY <4>1
    <3> QED
      BY <3>1, <3>2
  <2> QED
    BY <1>1, <1>2, <2>1 DEF Armed, ToSet
<1>7. ASSUME NEW m \in 1..L, m # k PROVE \E j \in 1..(L - 1) : r[j] = s[m]
  <2>1. CASE m < k
    BY <1>1, <1>3, <2>1
  <2>2. CASE m > k
    <3>1. m - 1 \in 1..(L - 1) /\ r[m - 1] = s[m]
      BY <1>1, <1>3, <2>2
    <3> QED
      BY <3>1
  <2> QED
    BY <1>1, <1>7, <2>1, <2>2
<1>8. Armed' = Armed \ {t}
  <2>1. Armed' = {r[j] : j \in 1..(L - 1)}
    BY <1>4, <1>5 DEF Armed, ToSet
  <2>2. Armed = {s[m] : m \in 1..L}
    BY <1>1 DEF Armed, ToSet
  <2>3. Armed' \subseteq Armed \ {t}
    BY <1>6, <2>1
  <2>4. ASSUME NEW u \in Armed \ {t} PROVE u \in Armed'
    <3>1. PICK m \in 1..L : u = s[m]
      BY <2>2
    <3>2. m # k
      BY <1>2, <3>1
    <3> QED
      BY <1>7, <2>1, <3>1, <3>2
  <2> QED
    BY <2>3, <2>4
<1>9. t \in Armed
  BY <1>1, <1>2 DEF Armed, ToSet
<1> QED
  BY <1>8, <1>9 DEF Service!Disarm, swTimerStop

LEMMA ExpireExpires ==
    ASSUME ListInv, HandlerExpire
    PROVE  \E t \in Timers : Service!Expire(t)
<1> DEFINE L == Len(sTimers)
           s == sTimers
           t == sTimers[1]
<1>1. /\ s # <<>> /\ s \in Seq(Timers) /\ L \in Nat \ {0} /\ DOMAIN s = 1..L
      /\ Head(s) = t /\ t \in Timers /\ timeout[t] \in Nat /\ vt \in Nat
      /\ deadline[t] = vt + timeout[t]
      /\ \A i \in 1..L : deadline[t] <= deadline[s[i]]
      /\ \A i, j \in 1..L : s[i] = s[j] => i = j
      /\ 1 \in 1..L
  BY HeadProperties, WordAssumption
  DEF ListInv, HandlerExpire, HeadExpired, TypeOK, NoDuplicates
<1>2. /\ sTimers' \in Seq(Timers) /\ Len(sTimers') = L - 1
      /\ DOMAIN sTimers' = 1..(L - 1)
      /\ \A i \in 1..(L - 1) : sTimers'[i] = s[i + 1]
  BY <1>1, HeadTailProperties DEF HandlerExpire
<1>3. ASSUME NEW i \in 1..(L - 1) PROVE sTimers'[i] \in Armed \ {t}
  <2>1. i + 1 \in 1..L /\ i + 1 # 1 /\ sTimers'[i] = s[i + 1]
    BY <1>1, <1>2
  <2> QED
    BY <1>1, <2>1 DEF Armed, ToSet
<1>4. ASSUME NEW i \in 1..L, i # 1 PROVE \E j \in 1..(L - 1) : sTimers'[j] = s[i]
  <2>1. i - 1 \in 1..(L - 1) /\ sTimers'[i - 1] = s[i]
    BY <1>1, <1>2, <1>4
  <2> QED
    BY <2>1
<1>5. Armed' = Armed \ {t} /\ t \in Armed
  <2>1. Armed' = {sTimers'[j] : j \in 1..(L - 1)}
    BY <1>2 DEF Armed, ToSet
  <2>2. Armed = {s[m] : m \in 1..L}
    BY <1>1 DEF Armed, ToSet
  <2>3. Armed' \subseteq Armed \ {t}
    BY <1>3, <2>1
  <2>4. ASSUME NEW u \in Armed \ {t} PROVE u \in Armed'
    <3>1. PICK m \in 1..L : u = s[m]
      BY <2>2
    <3>2. m # 1
      BY <3>1
    <3> QED
      BY <1>4, <2>1, <3>1, <3>2
  <2> QED
    BY <1>1, <2>2, <2>3, <2>4
<1>6. /\ deadline[t] >= vt
      /\ \A u \in Armed : deadline[t] <= deadline[u]
      /\ vt' = deadline[t] /\ deadline' = deadline
  BY <1>1 DEF HandlerExpire, Armed, ToSet
<1> QED
  BY <1>1, <1>5, <1>6 DEF Service!Expire

LEMMA ExitAdvances ==
    ASSUME ListInv, HandlerExit
    PROVE  Service!Advance \/ UNCHANGED Service!svars
<1>1. /\ vt \in Nat /\ elapsed \in Nat /\ vt' = vt + elapsed
      /\ UNCHANGED <<sTimers, deadline>> /\ sTimers \in Seq(Timers)
      /\ deadline \in [Timers -> Nat]
  BY WordAssumption DEF ListInv, HandlerExit, TypeOK
<1>2. \A u \in Armed : vt' < deadline[u]
  <2> SUFFICES ASSUME NEW u \in Armed PROVE vt' < deadline[u]
    OBVIOUS
  <2>0. PICK i \in 1..Len(sTimers) : u = sTimers[i]
    <3>1. DOMAIN sTimers = 1..Len(sTimers)
      BY <1>1
    <3>2. PICK k \in DOMAIN sTimers : u = sTimers[k]
      BY Zenon DEF Armed, ToSet
    <3> QED
      BY <3>1, <3>2, Zenon
  <2>1. sTimers # <<>> /\ sTimers[i] \in Timers
    BY <1>1
  <2>2. /\ Head(sTimers) = sTimers[1] /\ sTimers[1] \in Timers
        /\ timeout[sTimers[1]] \in Nat
        /\ deadline[sTimers[1]] = vt + timeout[sTimers[1]]
        /\ deadline[sTimers[1]] <= deadline[sTimers[i]]
    BY <2>1, HeadProperties, WordAssumption
  <2>3. ~(timeout[sTimers[1]] <= elapsed)
    BY <2>1, <2>2 DEF HandlerExit, HeadExpired
  <2>4. deadline[sTimers[i]] \in Nat /\ deadline[sTimers[1]] \in Nat
    BY <1>1, <2>1, <2>2
  <2> QED
    BY <1>1, <2>0, <2>2, <2>3, <2>4
<1>3. Armed' = Armed
  BY <1>1 DEF Armed
<1> QED
  BY <1>1, <1>2, <1>3 DEF Service!Advance, Service!svars

(* swTimers.c implements the timer service: seen through the set of linked *)
(* timers and their deadlines, every step of the code is a step of the     *)
(* service or leaves it as it is.  In particular a timer expires exactly   *)
(* at its deadline and never before an earlier one.                        *)
THEOREM Refinement == Spec => ImplementsService
<1>1. Init => Service!Init
  BY DEF Init, Service!Init, Armed, ToSet
<1>2. ListInv /\ [Next]_vars => [Service!Next]_(Service!svars)
  <2> SUFFICES ASSUME ListInv, [Next]_vars
               PROVE  Service!Next \/ UNCHANGED Service!svars
    OBVIOUS
  <2>1. CASE Tick \/ HandlerEnter \/ HandlerSync \/ CallbackReturn \/ PlaceSkip
             \/ (\E t \in Timers : swTimerStart(t)) \/ UNCHANGED vars
    BY <2>1 DEF Tick, HandlerEnter, HandlerSync, CallbackReturn, PlaceSkip,
                swTimerStart, vars, code, Armed, Service!svars
  <2>2. CASE PlaceInsert
    BY <2>2, InsertArms DEF Service!Next
  <2>3. ASSUME NEW t \in Timers, swTimerStop(t) PROVE Service!Next
    BY <2>3, StopDisarms DEF Service!Next
  <2>4. CASE HandlerExpire
    BY <2>4, ExpireExpires DEF Service!Next
  <2>5. CASE HandlerExit
    BY <2>5, ExitAdvances DEF Service!Next
  <2> QED
    BY <2>1, <2>2, <2>3, <2>4, <2>5 DEF Next, Handler
<1> QED
  BY InitListInv, StepListInv, <1>1, <1>2, PTL
  DEF Spec, ImplementsService, Service!Spec
-----------------------------------------------------------------------------
(* Real time.  The main loop calls the handler once in every pass.         *)
HistoryInv ==
    /\ ran \in Nat /\ started \in [Timers -> Nat] /\ charged \in [Timers -> Int]
    /\ ran <= now /\ now <= ran + LoopTime

(* A deadline on the scale of the time handed out is, in real time, an     *)
(* interval after the start less the charge, or later.                     *)
EarlyInv ==
    /\ \A t \in Armed : started[t] - charged[t] + Interval[t] <= deadline[t] + lost
    /\ pc = "place" => started[ptimer] - charged[ptimer] <= vt + lost

(* Before the handler runs and in the handler's loop; a client that starts *)
(* a timer may do so in either.                                            *)
Outside == pc = "main" \/ (pc = "place" /\ pret = "main")
Inside == pc \in {"while", "callback"} \/ (pc = "place" /\ pret # "main")

(* Since the last pass's handler t was started, or that handler handed out *)
(* all there was; or it found the counter unmoved.                         *)
Recent(t) == ran <= started[t] \/ ran <= oldNow \/ ran % WORD = oldTime

(* The handler that now runs was called a pass after d or after the start. *)
InPass(t, d) == ran <= d + LoopTime \/ ran <= started[t] + LoopTime

LateInv ==
    /\ Outside => (\A t \in Armed : Recent(t)) /\ (pc = "place" => Recent(ptimer))
    /\ pc = "sync" => \A t \in Armed :
            InPass(t, deadline[t] + lost + (ran - oldNow - elapsed))
    /\ Inside => /\ ran <= oldNow
                 /\ \A t \in Armed : InPass(t, deadline[t] + lost)
                 /\ pc = "place" => InPass(ptimer, vt + lost)

(* A step of SwTimers with the clock's reading of the handler's call. *)
LEMMA HistoryIs ==
    ASSUME ListInv, HistoryInv, Step
    PROVE  /\ HistoryInv'
           /\ ran' = IF pc = "main" /\ pc' = "sync" THEN now ELSE ran
           /\ \A t \in Timers : ~(Client /\ pc' = "place" /\ ptimer' = t) =>
                 started'[t] = started[t] /\ charged'[t] = charged[t]
           /\ \A t \in Timers : (Client /\ pc' = "place" /\ ptimer' = t) =>
                 started'[t] = now /\ charged'[t] = NotHandedOut
<1>1. /\ now \in Nat /\ oldNow \in Nat /\ elapsed \in Int /\ NotHandedOut \in Int
      /\ LoopTime \in Nat /\ ran \in Nat /\ ran <= now /\ now <= ran + LoopTime
  BY WordAssumption, LoopTimeAssumption DEF ListInv, TypeOK, NotHandedOut, HistoryInv
<1>2. now' = now \/ (now' = now + 1 /\ UNCHANGED <<pc, ptimer>>)
  <2>1. CASE Tick
    BY <2>1 DEF Tick, code, place
  <2>2. ASSUME NEW t \in Timers, swTimerStart(t) \/ swTimerStop(t) PROVE now' = now
    BY <2>2 DEF swTimerStart, swTimerStop
  <2>3. CASE HandlerEnter \/ HandlerSync \/ HandlerExpire \/ HandlerExit
    BY <2>3 DEF HandlerEnter, HandlerSync, HandlerExpire, HandlerExit
  <2>4. CASE PlaceSkip \/ PlaceInsert \/ CallbackReturn
    BY <2>4 DEF PlaceSkip, PlaceInsert, CallbackReturn
  <2> QED
    BY <2>1, <2>2, <2>3, <2>4 DEF Step, Next, Handler
<1>3. now' > now => now - ran < LoopTime
  BY DEF Step
<1>4. ran' = IF pc = "main" /\ pc' = "sync" THEN now ELSE ran
  BY DEF Step
<1>5. ran' \in Nat /\ ran' <= now' /\ now' <= ran' + LoopTime
  BY <1>1, <1>2, <1>3, <1>4
<1>6. /\ started' = [t \in Timers |-> IF Client /\ pc' = "place" /\ ptimer' = t
                                      THEN now ELSE started[t]]
      /\ charged' = [t \in Timers |-> IF Client /\ pc' = "place" /\ ptimer' = t
                                      THEN NotHandedOut ELSE charged[t]]
  BY DEF Step
<1>7. started' \in [Timers -> Nat] /\ charged' \in [Timers -> Int]
  BY <1>1, <1>6 DEF HistoryInv
<1> QED
  BY <1>4, <1>5, <1>6, <1>7 DEF HistoryInv

(* Armed timers are due, and only PlaceInsert arms one. *)
LEMMA ArmedAre ==
    ASSUME ListInv
    PROVE  \A t \in Armed : t \in Timers /\ deadline[t] \in Nat /\ vt <= deadline[t]
<1> SUFFICES ASSUME NEW t \in Armed
             PROVE  t \in Timers /\ deadline[t] \in Nat /\ vt <= deadline[t]
  OBVIOUS
<1>1. DOMAIN sTimers = 1..Len(sTimers) /\ sTimers \in Seq(Timers)
  BY DEF ListInv, TypeOK
<1>2. PICK i \in 1..Len(sTimers) : t = sTimers[i]
  <2>1. PICK k \in DOMAIN sTimers : t = sTimers[k]
    BY Zenon DEF Armed, ToSet
  <2> QED
    BY <1>1, <2>1, Zenon
<1>3. t \in Timers
  BY <1>1, <1>2, ElementOfSeq
<1>4. vt <= deadline[t]
  BY <1>2 DEF ListInv, DueWindow
<1> QED
  BY <1>3, <1>4 DEF ListInv, TypeOK

LEMMA InsertArmsOnly ==
    ASSUME ListInv, PlaceInsert
    PROVE  Armed' \subseteq Armed \cup {ptimer}
<1> SUFFICES ASSUME NEW t \in Armed' PROVE t \in Armed \cup {ptimer}
  OBVIOUS
<1>1. /\ ppos \in 1..(Len(sTimers) + 1) /\ Len(sTimers) \in Nat /\ sTimers' \in Seq(Timers)
      /\ DOMAIN sTimers' = 1..(Len(sTimers) + 1) /\ DOMAIN sTimers = 1..Len(sTimers)
      /\ \A j \in 1..(Len(sTimers) + 1) :
            sTimers'[j] = IF j < ppos THEN sTimers[j]
                          ELSE IF j = ppos THEN ptimer ELSE sTimers[j - 1]
  BY InsertShape DEF ListInv, TypeOK
<1>2. PICK j \in 1..(Len(sTimers) + 1) : t = sTimers'[j]
  <2>1. PICK k \in DOMAIN sTimers' : t = sTimers'[k]
    BY Zenon DEF Armed, ToSet
  <2> QED
    BY <1>1, <2>1, Zenon
<1>3. CASE j < ppos
  <2>1. j \in DOMAIN sTimers /\ t = sTimers[j]
    BY <1>1, <1>2, <1>3
  <2> QED
    BY <2>1, Zenon DEF Armed, ToSet
<1>4. CASE j = ppos
  BY <1>1, <1>2, <1>4
<1>5. CASE j > ppos
  <2>1. j - 1 \in DOMAIN sTimers /\ t = sTimers[j - 1]
    BY <1>1, <1>2, <1>5
  <2> QED
    BY <2>1, Zenon DEF Armed, ToSet
<1> QED
  BY <1>1, <1>3, <1>4, <1>5

(* What the other steps do to the deadlines. *)
LEMMA DeadlinesStay ==
    ASSUME ListInv, Next, ~PlaceInsert
    PROVE  Armed' \subseteq Armed /\ deadline' = deadline
<1>1. CASE Tick \/ HandlerEnter \/ HandlerSync \/ CallbackReturn \/ PlaceSkip
           \/ (\E t \in Timers : swTimerStart(t))
  BY <1>1 DEF Tick, HandlerEnter, HandlerSync, CallbackReturn, PlaceSkip, swTimerStart,
              code, Armed
<1>2. ASSUME NEW t \in Timers, swTimerStop(t) PROVE Armed' \subseteq Armed /\ deadline' = deadline
  <2>1. Service!Disarm(t)
    BY <1>2, StopDisarms
  <2> QED
    BY <2>1 DEF Service!Disarm
<1>3. CASE HandlerExpire
  <2>1. PICK t \in Timers : Service!Expire(t)
    BY <1>3, ExpireExpires
  <2> QED
    BY <2>1 DEF Service!Expire
<1>4. CASE HandlerExit
  BY <1>4 DEF HandlerExit, Armed
<1> QED
  BY <1>1, <1>2, <1>3, <1>4 DEF Next, Handler

(* A client starts only a timer that is not armed. *)
LEMMA StartsUnarmed ==
    ASSUME ListInv, Next, Client, pc' = "place"
    PROVE  /\ ptimer' \in Timers \ Armed /\ pret' = pc
           /\ UNCHANGED <<now, vt, lost, oldNow, elapsed, oldTime, sTimers, deadline>>
<1>1. PICK t \in Timers : swTimerStart(t)
  <2>1. ASSUME NEW t \in Timers PROVE ~swTimerStop(t)
    BY DEF swTimerStop, Client
  <2>2. ~Tick /\ ~HandlerEnter /\ ~HandlerSync /\ ~HandlerExpire /\ ~HandlerExit
        /\ ~PlaceSkip /\ ~PlaceInsert /\ ~CallbackReturn
    BY DEF Client, Tick, HandlerEnter, HandlerSync, HandlerExpire, HandlerExit, PlaceSkip,
           PlaceInsert, CallbackReturn, code
  <2> QED
    BY <2>1, <2>2 DEF Next, Handler
<1> QED
  BY <1>1 DEF swTimerStart, EnterPlace

(* How a search of placeTimer begins and goes on. *)
LEMMA SearchIs ==
    ASSUME ListInv, Next, pc' = "place"
    PROVE  \/ Client
           \/ HandlerExpire
           \/ pc = "place" /\ UNCHANGED <<ptimer, pret, vt, lost, oldNow, oldTime, sTimers, deadline>>
<1>1. CASE Tick
  BY <1>1 DEF Tick, code, place
<1>2. CASE PlaceSkip
  BY <1>2 DEF PlaceSkip, code
<1>3. ~PlaceInsert
  BY DEF PlaceInsert, ListInv, TypeOK
<1>4. ~HandlerEnter /\ ~HandlerSync /\ ~HandlerExit /\ ~CallbackReturn
  BY DEF HandlerEnter, HandlerSync, HandlerExit, CallbackReturn
<1>5. ASSUME NEW t \in Timers, swTimerStart(t) \/ swTimerStop(t) PROVE Client
  BY <1>5 DEF swTimerStart, swTimerStop
<1> QED
  BY <1>1, <1>2, <1>3, <1>4, <1>5 DEF Next, Handler

(* A timer that stays armed, or whose search goes on, keeps its history. *)
LEMMA ArmedKeepHistory ==
    ASSUME ListInv, HistoryInv, Step, NEW t \in Timers, t \in Armed \/ ~Client
    PROVE  started'[t] = started[t] /\ charged'[t] = charged[t]
<1>1. ~(Client /\ pc' = "place" /\ ptimer' = t)
  BY StartsUnarmed DEF Step
<1> QED
  BY <1>1, HistoryIs

(* The expiring head. *)
LEMMA ExpireIs ==
    ASSUME ListInv, HandlerExpire
    PROVE  /\ Head(sTimers) \in Armed /\ vt' = deadline[Head(sTimers)] /\ pc = "while"
           /\ timeout[Head(sTimers)] <= elapsed
           /\ pc' = "place" => ptimer' = Head(sTimers) /\ pret' = "dispatch"
           /\ pc' # "place" => pc' = "callback"
           /\ UNCHANGED <<now, lost, oldNow, oldTime, deadline>>
<1>1. /\ sTimers # <<>> /\ pc = "while" /\ timeout[Head(sTimers)] <= elapsed
      /\ vt' = vt + timeout[Head(sTimers)]
      /\ UNCHANGED <<now, lost, oldNow, oldTime, deadline>>
      /\ pc' = "place" => ptimer' = Head(sTimers) /\ pret' = "dispatch"
      /\ pc' # "place" => pc' = "callback"
  BY DEF HandlerExpire, HeadExpired, EnterPlace
<1>2. /\ Head(sTimers) = sTimers[1] /\ Len(sTimers) \in Nat \ {0}
      /\ deadline[Head(sTimers)] = vt + timeout[Head(sTimers)]
  BY <1>1, HeadProperties
<1>3. 1 \in DOMAIN sTimers
  BY <1>2 DEF ListInv, TypeOK
<1>4. Head(sTimers) \in Armed
  BY <1>2, <1>3, Zenon DEF Armed, ToSet
<1> QED
  BY <1>1, <1>2, <1>4

LEMMA LostGrows ==
    ASSUME ListInv, AccountInv, Next
    PROVE  lost \in Int /\ lost' \in Int /\ lost <= lost'
<1>1. /\ lost \in Int /\ now \in Nat /\ oldNow \in Nat /\ elapsed \in Nat
      /\ pc = "sync" => elapsed <= now - oldNow
  BY WordAssumption DEF ListInv, TypeOK, AccountInv, TimeAccounted
<1>2. CASE HandlerSync
  BY <1>1, <1>2 DEF HandlerSync
<1>3. CASE ~HandlerSync
  <2>1. lost' = lost
    <3>1. CASE Tick \/ HandlerEnter \/ HandlerExpire \/ HandlerExit
      BY <3>1 DEF Tick, HandlerEnter, HandlerExpire, HandlerExit
    <3>2. CASE PlaceSkip \/ PlaceInsert \/ CallbackReturn
      BY <3>2 DEF PlaceSkip, PlaceInsert, CallbackReturn
    <3>3. ASSUME NEW t \in Timers, swTimerStart(t) \/ swTimerStop(t) PROVE lost' = lost
      BY <3>3 DEF swTimerStart, swTimerStop
    <3> QED
      BY <1>3, <3>1, <3>2, <3>3 DEF Next, Handler
  <2> QED
    BY <1>1, <2>1
<1> QED
  BY <1>2, <1>3

LEMMA InsertDue ==
    ASSUME ListInv, PlaceInsert
    PROVE  /\ ptimer \in Timers \ Armed /\ pc = "place"
           /\ deadline'[ptimer] = vt + Interval[ptimer] /\ Interval[ptimer] \in Nat
           /\ \A t \in Timers \ {ptimer} : deadline'[t] = deadline[t]
           /\ UNCHANGED <<now, vt, lost, oldNow, oldTime, elapsed>>
           /\ pc' = IF pret = "dispatch" THEN "callback" ELSE pret
           /\ pc' \in {"main", "callback"} /\ (pc' = "main" <=> pret = "main")
<1>1. pc = "place" /\ ptimer \in Timers \ Armed /\ pret \in {"main", "callback", "dispatch"}
  BY DEF PlaceInsert, ListInv, NoDuplicates, TypeOK
<1>2. /\ deadline' = [deadline EXCEPT ![ptimer] = vt + Interval[ptimer]]
      /\ deadline \in [Timers -> Nat]
      /\ UNCHANGED <<now, vt, lost, oldNow, oldTime, elapsed>>
      /\ pc' = IF pret = "dispatch" THEN "callback" ELSE pret
  BY DEF PlaceInsert, ListInv, TypeOK
<1>3. Interval[ptimer] \in Nat
  BY <1>1, WordAssumption, TimersAssumption
<1>4. deadline'[ptimer] = vt + Interval[ptimer]
  BY <1>1, <1>2
<1>5. \A t \in Timers \ {ptimer} : deadline'[t] = deadline[t]
  BY <1>2
<1> QED
  BY <1>1, <1>2, <1>3, <1>4, <1>5

LEMMA StepKeepsEarlyInv ==
    ASSUME ListInv, AccountInv, HistoryInv, EarlyInv, Step
    PROVE  EarlyInv'
<1>0. Next
  BY DEF Step
<1>1. /\ lost \in Int /\ lost' \in Int /\ lost <= lost' /\ vt \in Nat
      /\ now \in Nat /\ oldNow \in Nat /\ elapsed \in Nat
      /\ started \in [Timers -> Nat] /\ charged \in [Timers -> Int]
      /\ \A t \in Timers : Interval[t] \in Nat
  BY <1>0, LostGrows, WordAssumption, TimersAssumption DEF ListInv, TypeOK, HistoryInv
<1>2. ASSUME NEW t \in Armed'
      PROVE  started'[t] - charged'[t] + Interval[t] <= deadline'[t] + lost'
  <2>1. CASE PlaceInsert /\ t = ptimer
    <3>1. /\ started'[t] = started[t] /\ charged'[t] = charged[t] /\ t \in Timers
          /\ deadline'[t] = vt + Interval[t] /\ Interval[t] \in Nat /\ pc = "place"
      BY <2>1, InsertDue, ArmedKeepHistory DEF Client
    <3>2. started[t] - charged[t] <= vt + lost
      BY <2>1, <3>1 DEF EarlyInv
    <3>3. started[t] \in Int /\ charged[t] \in Int
      BY <1>1, <3>1
    <3> QED
      BY <1>1, <3>1, <3>2, <3>3
  <2>2. CASE ~(PlaceInsert /\ t = ptimer)
    <3>1. t \in Armed /\ deadline'[t] = deadline[t]
      <4>1. CASE PlaceInsert
        <5>1. t \in Armed
          BY <2>2, <4>1, InsertArmsOnly
        <5>2. t \in Timers \ {ptimer}
          BY <2>2, <4>1, <5>1, ArmedAre
        <5> QED
          BY <4>1, <5>1, <5>2, InsertDue
      <4>2. CASE ~PlaceInsert
        BY <1>0, <4>2, DeadlinesStay
      <4> QED
        BY <4>1, <4>2
    <3>2. t \in Timers /\ deadline[t] \in Nat
      BY <3>1, ArmedAre
    <3>3. started'[t] = started[t] /\ charged'[t] = charged[t]
      BY <3>1, <3>2, ArmedKeepHistory
    <3>4. started[t] - charged[t] + Interval[t] <= deadline[t] + lost
      BY <3>1 DEF EarlyInv
    <3>5. started[t] \in Int /\ charged[t] \in Int /\ Interval[t] \in Int
      BY <1>1, <3>2
    <3> QED
      BY <1>1, <3>1, <3>2, <3>3, <3>4, <3>5
  <2> QED
    BY <2>1, <2>2
<1>3. ASSUME pc' = "place"
      PROVE  started'[ptimer'] - charged'[ptimer'] <= vt' + lost'
  <2>1. CASE Client
    <3>1. ptimer' \in Timers /\ vt' = vt /\ lost' = lost
      BY <1>0, <1>3, <2>1, StartsUnarmed
    <3>2. started'[ptimer'] = now /\ charged'[ptimer'] = elapsed + (now - oldNow)
      BY <1>3, <2>1, <3>1, HistoryIs DEF NotHandedOut
    <3>3. vt + elapsed + lost = oldNow
      BY <2>1 DEF Client, AccountInv, TimeAccounted
    <3> QED
      BY <1>1, <3>1, <3>2, <3>3
  <2>2. CASE HandlerExpire
    <3>1. PICK t \in Timers : t = Head(sTimers) /\ t \in Armed /\ deadline[t] \in Nat
      BY <2>2, ExpireIs, ArmedAre
    <3>2. ptimer' = t /\ vt' = deadline[t] /\ lost' = lost
      BY <1>3, <2>2, <3>1, ExpireIs
    <3>3. started'[t] = started[t] /\ charged'[t] = charged[t]
      BY <3>1, ArmedKeepHistory
    <3>4. started[t] - charged[t] + Interval[t] <= deadline[t] + lost
      BY <3>1 DEF EarlyInv
    <3>5. started[t] \in Int /\ charged[t] \in Int /\ Interval[t] \in Nat
      BY <1>1
    <3> QED
      BY <1>1, <3>1, <3>2, <3>3, <3>4, <3>5
  <2>3. CASE pc = "place" /\ UNCHANGED <<ptimer, vt, lost>>
    <3>1. ptimer \in Timers /\ ~Client
      BY <2>3 DEF ListInv, NoDuplicates, Client
    <3> QED
      BY <2>3, <3>1, ArmedKeepHistory DEF EarlyInv
  <2> QED
    BY <1>0, <1>3, <2>1, <2>2, <2>3, SearchIs
<1> QED
  BY <1>2, <1>3 DEF EarlyInv

LEMMA ArmedStay ==
    ASSUME ListInv, HistoryInv, Step, ~PlaceInsert, NEW t \in Armed'
    PROVE  /\ t \in Armed /\ t \in Timers
           /\ deadline'[t] = deadline[t] /\ deadline[t] \in Nat /\ vt <= deadline[t]
           /\ started'[t] = started[t] /\ started[t] \in Nat
<1>1. t \in Armed /\ deadline' = deadline
  BY DeadlinesStay DEF Step
<1>2. t \in Timers /\ deadline[t] \in Nat /\ vt <= deadline[t]
  BY <1>1, ArmedAre
<1>3. started'[t] = started[t]
  BY <1>1, <1>2, ArmedKeepHistory
<1> QED
  BY <1>1, <1>2, <1>3 DEF HistoryInv

(* Steps that stay inside, or outside, of the handler and touch none of    *)
(* the times.                                                              *)
LEMMA QuietKeepsLateInv ==
    ASSUME ListInv, HistoryInv, LateInv, Step, ~PlaceInsert,
           UNCHANGED <<vt, lost, oldNow, oldTime, elapsed>>,
           pc' = "sync" <=> pc = "sync", Outside' <=> Outside, Inside' <=> Inside,
           pc' = "place" => pc = "place" /\ ptimer' = ptimer
    PROVE  LateInv'
<1>1. ran' = ran
  BY HistoryIs
<1>2. ASSUME NEW t \in Armed' PROVE Outside' => Recent(t)'
  BY <1>1, <1>2, ArmedStay DEF LateInv, Recent
<1>3. pc' = "place" => started'[ptimer'] = started[ptimer]
  BY ArmedKeepHistory DEF ListInv, NoDuplicates, Client
<1>4. ASSUME pc' = "place" PROVE /\ Outside' => Recent(ptimer)'
                                 /\ Inside' => InPass(ptimer, vt + lost)'
  BY <1>1, <1>3, <1>4 DEF LateInv, Recent, InPass
<1>5. ASSUME NEW t \in Armed', pc' = "sync"
      PROVE  InPass(t, deadline[t] + lost + (ran - oldNow - elapsed))'
  BY <1>1, <1>5, ArmedStay DEF LateInv, InPass
<1>6. ASSUME NEW t \in Armed', Inside' PROVE InPass(t, deadline[t] + lost)'
  BY <1>1, <1>6, ArmedStay DEF LateInv, InPass
<1>7. Inside' => ran' <= oldNow'
  BY <1>1 DEF LateInv
<1> QED
  BY <1>2, <1>4, <1>5, <1>6, <1>7 DEF LateInv

(* A client starts a timer now, which is after the handler was called. *)
LEMMA StartKeepsLateInv ==
    ASSUME ListInv, HistoryInv, LateInv, Step, NEW u \in Timers, swTimerStart(u)
    PROVE  LateInv'
<1>1. /\ Client /\ pc' = "place" /\ ptimer' = u /\ pret' = pc
      /\ UNCHANGED <<vt, lost, oldNow, oldTime, elapsed>>
  BY DEF swTimerStart, EnterPlace
<1>2. ~PlaceInsert
  BY <1>1 DEF PlaceInsert, Client
<1>3. ran' = ran /\ started'[u] = now /\ ran <= now /\ ran \in Nat /\ LoopTime \in Nat /\ now \in Nat
  BY <1>1, HistoryIs, LoopTimeAssumption DEF HistoryInv, Client, ListInv, TypeOK
<1>4. (Outside' <=> Outside) /\ (Inside' <=> Inside)
  BY <1>1 DEF Outside, Inside, Client
<1>5. ASSUME NEW t \in Armed' PROVE Outside' => Recent(t)'
  BY <1>2, <1>3, <1>4, <1>5, ArmedStay, <1>1 DEF LateInv, Recent
<1>6. Recent(ptimer)' /\ InPass(ptimer, vt + lost)'
  BY <1>1, <1>3 DEF Recent, InPass
<1>7. ASSUME NEW t \in Armed', Inside' PROVE InPass(t, deadline[t] + lost)'
  BY <1>1, <1>2, <1>3, <1>4, <1>7, ArmedStay DEF LateInv, InPass
<1>8. Inside' => ran' <= oldNow'
  BY <1>1, <1>3, <1>4 DEF LateInv
<1> QED
  BY <1>1, <1>5, <1>6, <1>7, <1>8 DEF LateInv

(* The handler is called: whatever it found the last time, an armed timer  *)
(* has been owed at most the pass since.                                   *)
LEMMA EnterKeepsLateInv ==
    ASSUME ListInv, AccountInv, HistoryInv, LateInv, Step, HandlerEnter
    PROVE  LateInv'
<1>1. /\ pc = "main" /\ pc' = "sync" /\ elapsed' = (millis - oldTime) % WORD
      /\ UNCHANGED <<now, vt, lost, oldNow, oldTime>>
  BY DEF HandlerEnter
<1>2. /\ ran' = now /\ ran \in Nat /\ now \in Nat /\ ran <= now /\ now <= ran + LoopTime
      /\ LoopTime \in Nat /\ oldNow \in Nat /\ lost \in Int /\ vt \in Nat
  BY <1>1, HistoryIs, LoopTimeAssumption DEF HistoryInv, ListInv, TypeOK
<1>3. ~PlaceInsert
  BY <1>1 DEF PlaceInsert
<1>4. oldNow <= now /\ oldTime = oldNow % WORD /\ vt + lost = oldNow
  BY <1>1, <1>2 DEF AccountInv, TimeAccounted
<1>5. elapsed' \in Nat /\ elapsed' <= now - oldNow
  <2>1. elapsed' = ((now % WORD) - (oldNow % WORD)) % WORD
    BY <1>1, <1>4 DEF millis
  <2>2. /\ ((now % WORD) - (oldNow % WORD)) % WORD \in 0..(WORD - 1)
        /\ ((now % WORD) - (oldNow % WORD)) % WORD <= now - oldNow
    BY <1>2, <1>4, WordAssumption, WordDifference
  <2> QED
    BY <2>1, <2>2, WordAssumption
<1>6. ran % WORD = oldTime => elapsed' <= now - ran
  BY <1>1, <1>2, WordAssumption, WordDifference DEF millis
<1>7. ASSUME NEW t \in Armed'
      PROVE  InPass(t, deadline[t] + lost + (ran - oldNow - elapsed))'
  <2>1. /\ t \in Armed /\ deadline'[t] = deadline[t] /\ deadline[t] \in Nat
        /\ vt <= deadline[t] /\ started'[t] = started[t] /\ started[t] \in Nat
    BY <1>3, <1>7, ArmedStay
  <2>2. Recent(t)
    BY <1>1, <2>1 DEF LateInv, Outside
  <2>3. now <= deadline[t] + lost + (now - oldNow - elapsed') + LoopTime
        \/ now <= started[t] + LoopTime
    <3>1. CASE ran <= started[t]
      BY <1>2, <2>1, <3>1
    <3>2. CASE ran <= oldNow
      <4>1. elapsed' <= LoopTime
        BY <1>2, <1>5, <3>2
      <4> QED
        BY <1>2, <1>4, <1>5, <2>1, <4>1
    <3>3. CASE ran % WORD = oldTime
      <4>1. elapsed' <= LoopTime
        BY <1>2, <1>5, <1>6, <3>3
      <4> QED
        BY <1>2, <1>4, <1>5, <2>1, <4>1
    <3> QED
      BY <2>2, <3>1, <3>2, <3>3 DEF Recent
  <2> QED
    BY <1>1, <1>2, <2>1, <2>3 DEF InPass
<1> QED
  BY <1>1, <1>7 DEF LateInv, Outside, Inside

LEMMA SyncKeepsLateInv ==
    ASSUME ListInv, AccountInv, HistoryInv, LateInv, Step, HandlerSync
    PROVE  LateInv'
<1>1. /\ pc = "sync" /\ pc' = "while" /\ oldNow' = now
      /\ lost' = lost + ((now - oldNow) - elapsed)
  BY DEF HandlerSync
<1>2. /\ ran' = ran /\ ran \in Nat /\ now \in Nat /\ ran <= now
      /\ LoopTime \in Nat /\ oldNow \in Nat /\ lost \in Int /\ elapsed \in Nat
  BY <1>1, HistoryIs, LoopTimeAssumption, WordAssumption DEF HistoryInv, ListInv, TypeOK
<1>3. ~PlaceInsert
  BY <1>1 DEF PlaceInsert
<1>4. ASSUME NEW t \in Armed' PROVE InPass(t, deadline[t] + lost)'
  <2>1. /\ t \in Armed /\ deadline'[t] = deadline[t] /\ deadline[t] \in Nat
        /\ started'[t] = started[t] /\ started[t] \in Nat
    BY <1>3, <1>4, ArmedStay
  <2>2. InPass(t, deadline[t] + lost + (ran - oldNow - elapsed))
    BY <1>1, <2>1 DEF LateInv
  <2>3. deadline[t] + lost + (ran - oldNow - elapsed)
          <= deadline[t] + (lost + ((now - oldNow) - elapsed))
    BY <1>2, <2>1
  <2> QED
    BY <1>1, <1>2, <2>1, <2>2, <2>3 DEF InPass
<1> QED
  BY <1>1, <1>2, <1>4 DEF LateInv, Outside, Inside

LEMMA ExpireKeepsLateInv ==
    ASSUME ListInv, HistoryInv, LateInv, Step, HandlerExpire
    PROVE  LateInv'
<1>1. /\ Head(sTimers) \in Armed /\ vt' = deadline[Head(sTimers)] /\ pc = "while"
      /\ pc' = "place" => ptimer' = Head(sTimers) /\ pret' = "dispatch"
      /\ pc' # "place" => pc' = "callback"
      /\ UNCHANGED <<now, lost, oldNow, oldTime, deadline>>
  BY ExpireIs
<1>2. ran' = ran /\ ran <= oldNow
  BY <1>1, HistoryIs DEF LateInv, Inside
<1>3. ~PlaceInsert
  BY <1>1 DEF PlaceInsert
<1>4. ASSUME NEW t \in Armed' PROVE InPass(t, deadline[t] + lost)'
  BY <1>1, <1>2, <1>3, <1>4, ArmedStay DEF LateInv, Inside, InPass
<1>5. ASSUME pc' = "place" PROVE InPass(ptimer, vt + lost)'
  <2>1. PICK t \in Timers : t = Head(sTimers) /\ t \in Armed
    BY <1>1, ArmedAre
  <2>2. InPass(t, deadline[t] + lost) /\ started'[t] = started[t]
    BY <1>1, <2>1, ArmedKeepHistory DEF LateInv, Inside
  <2> QED
    BY <1>1, <1>2, <1>5, <2>1, <2>2 DEF InPass
<1> QED
  BY <1>1, <1>2, <1>4, <1>5 DEF LateInv, Outside, Inside

LEMMA ExitKeepsLateInv ==
    ASSUME ListInv, HistoryInv, LateInv, Step, HandlerExit
    PROVE  LateInv'
<1>1. pc = "while" /\ pc' = "main" /\ UNCHANGED <<oldNow, oldTime>>
  BY DEF HandlerExit
<1>2. ran' = ran /\ ran <= oldNow
  BY <1>1, HistoryIs DEF LateInv, Inside
<1> QED
  BY <1>1, <1>2 DEF LateInv, Outside, Inside, Recent

LEMMA InsertKeepsLateInv ==
    ASSUME ListInv, HistoryInv, LateInv, Step, PlaceInsert
    PROVE  LateInv'
<1>1. /\ ptimer \in Timers \ Armed /\ pc = "place"
      /\ deadline'[ptimer] = vt + Interval[ptimer] /\ Interval[ptimer] \in Nat
      /\ UNCHANGED <<now, vt, lost, oldNow, oldTime, elapsed>>
      /\ pc' \in {"main", "callback"} /\ (pc' = "main" <=> pret = "main")
  BY InsertDue
<1>2. ran' = ran /\ ran \in Nat /\ LoopTime \in Nat /\ lost \in Int /\ vt \in Nat
  BY <1>1, HistoryIs, LoopTimeAssumption DEF HistoryInv, ListInv, TypeOK
<1>3. (Outside' <=> Outside) /\ (Inside' <=> Inside) /\ (Outside' => pc' = "main")
  BY <1>1 DEF Outside, Inside
<1>4. ASSUME NEW t \in Armed'
      PROVE  /\ t \in Timers /\ started'[t] = started[t]
             /\ t # ptimer => t \in Armed /\ deadline'[t] = deadline[t]
  <2>1. t = ptimer \/ t \in Armed
    BY <1>4, InsertArmsOnly
  <2>2. t \in Timers
    BY <1>1, <2>1, ArmedAre
  <2>3. started'[t] = started[t]
    BY <1>1, <2>2, ArmedKeepHistory DEF Client
  <2> QED
    BY <2>1, <2>2, <2>3, InsertDue
<1>5. ASSUME NEW t \in Armed', Outside' PROVE Recent(t)'
  <2>1. Recent(t)
    BY <1>1, <1>3, <1>4, <1>5 DEF LateInv
  <2> QED
    BY <1>1, <1>2, <1>4, <1>5, <2>1 DEF Recent
<1>6. ASSUME NEW t \in Armed', Inside' PROVE InPass(t, deadline[t] + lost)'
  <2>1. CASE t # ptimer
    BY <1>1, <1>2, <1>3, <1>4, <1>6, <2>1 DEF LateInv, InPass
  <2>2. CASE t = ptimer
    <3>1. InPass(t, vt + lost)
      BY <1>1, <1>3, <1>6, <2>2 DEF LateInv
    <3>2. started[t] \in Nat /\ vt + lost <= deadline'[t] + lost' /\ deadline'[t] + lost' \in Int
      BY <1>1, <1>2, <1>4, <1>6, <2>2 DEF HistoryInv
    <3> QED
      BY <1>2, <1>4, <1>6, <3>1, <3>2 DEF InPass
  <2> QED
    BY <2>1, <2>2
<1> QED
  BY <1>1, <1>2, <1>3, <1>5, <1>6 DEF LateInv

LEMMA StepKeepsLateInv ==
    ASSUME ListInv, AccountInv, HistoryInv, LateInv, Step
    PROVE  LateInv'
<1>1. Next
  BY DEF Step
<1>2. CASE Tick \/ PlaceSkip \/ CallbackReturn
  <2>1. ~PlaceInsert
    BY <1>2 DEF Tick, PlaceSkip, CallbackReturn, PlaceInsert, PlaceHere, code, ListInv, TypeOK
  <2>2. /\ UNCHANGED <<vt, lost, oldNow, oldTime, elapsed, ptimer>>
        /\ pc' = "sync" <=> pc = "sync"
        /\ Outside' <=> Outside
        /\ Inside' <=> Inside
        /\ pc' = "place" => pc = "place"
    BY <1>2 DEF Tick, PlaceSkip, CallbackReturn, Outside, Inside, code, place
  <2> QED
    BY <2>1, <2>2, QuietKeepsLateInv
<1>3. ASSUME NEW u \in Timers, swTimerStop(u) PROVE LateInv'
  <2>1. /\ Client /\ UNCHANGED <<pc, ptimer, pret, vt, lost, oldNow, oldTime, elapsed>>
    BY <1>3 DEF swTimerStop, place
  <2>2. ~PlaceInsert
    BY <2>1 DEF PlaceInsert, Client
  <2> QED
    BY <2>1, <2>2, QuietKeepsLateInv DEF Outside, Inside
<1> QED
  BY <1>1, <1>2, <1>3, StartKeepsLateInv, EnterKeepsLateInv, SyncKeepsLateInv,
     ExpireKeepsLateInv, ExitKeepsLateInv, InsertKeepsLateInv
  DEF Next, Handler

(* The handler's early return is a call too. *)
LEMMA IdleKeeps ==
    ASSUME ListInv, AccountInv, HistoryInv, EarlyInv, LateInv, HandlerIdle
    PROVE  HistoryInv' /\ EarlyInv' /\ LateInv'
<1>1. /\ pc = "main" /\ ran' = now
      /\ UNCHANGED <<now, code, place, vt, deadline, oldNow, lost, started, charged>>
  BY DEF HandlerIdle, vars
<1>2. now \in Nat /\ LoopTime \in Nat
  BY LoopTimeAssumption DEF ListInv, TypeOK
<1>3. Armed' = Armed /\ UNCHANGED <<pc, ptimer, pret, oldTime, sTimers>>
  BY <1>1 DEF code, place, Armed
<1>4. HistoryInv'
  BY <1>1, <1>2 DEF HistoryInv
<1>5. EarlyInv'
  BY <1>1, <1>3 DEF EarlyInv
<1>6. ASSUME NEW t \in Armed' PROVE Recent(t)'
  <2>1. sTimers # <<>>
    BY <1>3, <1>6 DEF Armed, ToSet
  <2>2. (millis - oldTime) % WORD = 0 /\ oldTime \in 0..(WORD - 1) /\ millis \in 0..(WORD - 1)
    BY <1>2, <2>1, WordAssumption DEF HandlerIdle, ListInv, TypeOK, millis
  <2>3. millis = oldTime
    BY <2>2, WordAssumption, DivMod
  <2> QED
    BY <1>1, <1>3, <2>3 DEF Recent, millis
<1>7. LateInv'
  BY <1>1, <1>3, <1>6 DEF LateInv, Outside, Inside
<1> QED
  BY <1>4, <1>5, <1>7

LEMMA InitRealTime == RealTimeInit => HistoryInv /\ EarlyInv /\ LateInv
<1> SUFFICES ASSUME RealTimeInit PROVE HistoryInv /\ EarlyInv /\ LateInv
  OBVIOUS
<1>1. Armed = {} /\ pc = "main" /\ now = 0
  BY DEF RealTimeInit, Init, Armed, ToSet
<1>2. HistoryInv
  BY <1>1, LoopTimeAssumption DEF RealTimeInit, HistoryInv
<1> QED
  BY <1>1, <1>2 DEF EarlyInv, LateInv, Inside

RealTimeInv == ListInv /\ AccountInv /\ HistoryInv /\ EarlyInv /\ LateInv

LEMMA RealTimeSteps ==
    /\ RealTimeInit => RealTimeInv
    /\ RealTimeInv /\ [RealTimeNext]_realTimeVars => RealTimeInv'
<1>1. RealTimeInit => RealTimeInv
  BY InitListInv, InitAccountInv, InitRealTime DEF RealTimeInit, RealTimeInv
<1>2. ASSUME RealTimeInv, [RealTimeNext]_realTimeVars PROVE RealTimeInv'
  <2>1. [Next]_vars
    BY <1>2 DEF RealTimeNext, Step, HandlerIdle, realTimeVars
  <2>2. ListInv' /\ AccountInv'
    BY <1>2, <2>1, StepListInv, StepAccountInv DEF RealTimeInv
  <2>3. CASE Step
    BY <1>2, <2>2, <2>3, HistoryIs, StepKeepsEarlyInv, StepKeepsLateInv DEF RealTimeInv
  <2>4. CASE HandlerIdle
    BY <1>2, <2>2, <2>4, IdleKeeps DEF RealTimeInv
  <2>5. CASE UNCHANGED realTimeVars
    <3>1. UNCHANGED <<now, sTimers, timeout, oldTime, pc, elapsed, ptimer, ppos, prem, pret,
                      vt, deadline, oldNow, lost, ran, started, charged>>
      BY <2>5 DEF realTimeVars, vars, code, place
    <3>2. HistoryInv' /\ EarlyInv'
      BY <1>2, <3>1 DEF RealTimeInv, HistoryInv, EarlyInv, Armed
    <3>3. LateInv'
      BY <1>2, <3>1 DEF RealTimeInv, LateInv, Armed, Outside, Inside, Recent, InPass
    <3> QED
      BY <2>2, <3>2, <3>3 DEF RealTimeInv
  <2> QED
    BY <1>2, <2>3, <2>4, <2>5 DEF RealTimeNext
<1> QED
  BY <1>1, <1>2

(* A timer of any interval, however the handler's calls fall and whatever  *)
(* callbacks do, expires earlier than its interval by at most the time the *)
(* handler had not handed out when swTimerStart was called.                *)
THEOREM EarlyByTheChargeOnly == RealTimeSpec => EarlyAtMostByCharge
<1>1. ASSUME RealTimeInv, HandlerExpire
      PROVE  now - started[Head(sTimers)] >= Interval[Head(sTimers)] - charged[Head(sTimers)]
  <2>1. PICK t \in Timers : t = Head(sTimers) /\ t \in Armed
    BY <1>1, ExpireIs, ArmedAre DEF RealTimeInv
  <2>2. /\ pc = "while" /\ timeout[t] <= elapsed
        /\ deadline[t] = vt + timeout[t] /\ timeout[t] \in Nat
    <3>1. pc = "while" /\ timeout[t] <= elapsed /\ sTimers # <<>>
      BY <1>1, <2>1, ExpireIs DEF RealTimeInv, HandlerExpire, HeadExpired
    <3> QED
      BY <1>1, <2>1, <3>1, HeadProperties, WordAssumption DEF RealTimeInv
  <2>3. /\ oldNow <= now /\ vt + elapsed + lost = oldNow
        /\ now \in Nat /\ oldNow \in Nat /\ vt \in Nat /\ elapsed \in Nat /\ lost \in Int
    BY <1>1, <2>2, WordAssumption DEF RealTimeInv, ListInv, TypeOK, AccountInv, TimeAccounted
  <2>4. started[t] - charged[t] + Interval[t] <= deadline[t] + lost
    BY <1>1, <2>1 DEF RealTimeInv, EarlyInv
  <2>5. started[t] \in Int /\ charged[t] \in Int /\ Interval[t] \in Int
    BY <1>1, WordAssumption, TimersAssumption DEF RealTimeInv, HistoryInv
  <2>6. deadline[t] + lost <= now
    BY <2>2, <2>3
  <2>7. now - started[t] >= Interval[t] - charged[t]
    BY <2>2, <2>3, <2>4, <2>5, <2>6
  <2> QED
    BY <2>1, <2>7
<1>2. RealTimeInv => (HandlerExpire =>
        LET t == Head(sTimers) IN now - started[t] >= Interval[t] - charged[t])
  BY <1>1
<1> QED
  BY RealTimeSteps, <1>2, PTL DEF RealTimeSpec, EarlyAtMostByCharge

(* And it expires late by at most two passes of the main loop and the      *)
(* milliseconds lost: however many timers expire in one run of the         *)
(* handler, and through any number of wraps of millis().                   *)
THEOREM LateByTwoPassesOnly == RealTimeSpec => LateAtMostTwoPasses
<1>1. ASSUME RealTimeInv, HandlerExpire
      PROVE  \/ now <= deadline[Head(sTimers)] + lost + 2 * LoopTime
             \/ now <= started[Head(sTimers)] + 2 * LoopTime
  <2>1. PICK t \in Timers : t = Head(sTimers) /\ t \in Armed
    BY <1>1, ExpireIs, ArmedAre DEF RealTimeInv
  <2>2. InPass(t, deadline[t] + lost)
    BY <1>1, <2>1, ExpireIs DEF RealTimeInv, LateInv, Inside
  <2>3. /\ ran \in Nat /\ now \in Nat /\ now <= ran + LoopTime /\ LoopTime \in Nat
        /\ started[t] \in Nat /\ deadline[t] \in Nat /\ lost \in Int
    BY <1>1, <2>1, LoopTimeAssumption DEF RealTimeInv, HistoryInv, ListInv, TypeOK
  <2>4. \/ now <= deadline[t] + lost + 2 * LoopTime
        \/ now <= started[t] + 2 * LoopTime
    BY <2>2, <2>3 DEF InPass
  <2> QED
    BY <2>1, <2>4
<1>2. RealTimeInv => (HandlerExpire =>
        LET t == Head(sTimers) IN
        \/ now <= deadline[t] + lost + 2 * LoopTime
        \/ now <= started[t] + 2 * LoopTime)
  BY <1>1
<1> QED
  BY RealTimeSteps, <1>2, PTL DEF RealTimeSpec, LateAtMostTwoPasses
=============================================================================
