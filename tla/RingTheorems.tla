---------------------------- MODULE RingTheorems ----------------------------
(***************************************************************************)
(* Facts about numbers and ring buffers that the proofs about the drivers  *)
(* share.  A ring of size M is a function on 0..(M - 1) with an index h    *)
(* where the next byte is stored and an index t of the oldest byte; it is  *)
(* full when storing would make them equal.                                *)
(***************************************************************************)
EXTENDS Integers, Sequences, SequenceTheorems, WellFoundedInduction, TLAPS

(* The index after i, the number of bytes between two indices, the bytes   *)
(* themselves.                                                             *)
After(M, i) == (i + 1) % M

Span(M, h, t) == IF h - t < 0 THEN M + (h - t) ELSE h - t

Window(M, b, h, t) == [i \in 1..Span(M, h, t) |-> b[(t + i - 1) % M]]

-----------------------------------------------------------------------------
(* Every nonempty set of numbers has a least one. *)
LessThan == {p \in Nat \X Nat : p[1] < p[2]}

LEMMA LeastNat ==
    ASSUME NEW S, S \subseteq Nat, S # {}
    PROVE  \E m \in S : \A k \in S : m <= k
<1>1. IsWellFoundedOn(LessThan, Nat)
  BY NatLessThanWellFounded DEF OpToRel, LessThan
<1>2. PICK m \in S : \A k \in S : ~(<<k, m>> \in LessThan)
  BY <1>1, WFMin
<1>3. ASSUME NEW k \in S PROVE m <= k
  <2>1. ~(<<k, m>> \in LessThan) /\ k \in Nat /\ m \in Nat
    BY <1>2
  <2>2. ~(k < m)
    BY <2>1 DEF LessThan
  <2> QED
    BY <2>1, <2>2
<1> QED
  BY <1>3

(* Sequences are functions, and a sequence is told by its elements. *)
LEMMA FunctionIsSeq ==
    ASSUME NEW S, NEW n \in Nat, NEW f \in [1..n -> S]
    PROVE  f \in Seq(S) /\ Len(f) = n
<1>1. f \in Seq(S)
  OBVIOUS
<1>2. DOMAIN f = 1..Len(f) /\ Len(f) \in Nat /\ DOMAIN f = 1..n
  BY <1>1, LenProperties
<1> QED
  BY <1>1, <1>2

IsConcat(S, a, b) ==
    /\ a \o b \in Seq(S) /\ Len(a \o b) = Len(a) + Len(b)
    /\ \A i \in 1..Len(a) : (a \o b)[i] = a[i]
    /\ \A i \in 1..Len(b) : (a \o b)[Len(a) + i] = b[i]

LEMMA ConcatIs ==
    ASSUME NEW S, NEW a \in Seq(S), NEW b \in Seq(S)
    PROVE  IsConcat(S, a, b)
<1>1. Len(a) \in Nat /\ Len(b) \in Nat
  BY LenProperties
<1>2. /\ a \o b \in Seq(S) /\ Len(a \o b) = Len(a) + Len(b)
      /\ \A i \in 1..(Len(a) + Len(b)) : (a \o b)[i] = IF i <= Len(a) THEN a[i] ELSE b[i - Len(a)]
  BY ConcatProperties, Zenon
<1>3. ASSUME NEW i \in 1..Len(b) PROVE (a \o b)[Len(a) + i] = b[i]
  BY <1>1, <1>2
<1> QED
  BY <1>1, <1>2, <1>3 DEF IsConcat

(* A quotient is the only number with a remainder. *)
LEMMA QuotientIs ==
    ASSUME NEW n \in Nat, NEW D \in Nat \ {0}, NEW a \in Nat, NEW b \in 0..(D - 1), n = a * D + b
    PROVE  n \div D = a
<1>1. PICK x \in Nat, y \in 0..(D - 1) : x = n \div D /\ n = x * D + y
  <2>1. n \div D \in Nat /\ n % D \in 0..(D - 1) /\ n = (n \div D) * D + (n % D)
    OBVIOUS
  <2> QED
    BY <2>1
<1>2. CASE x < a
  <2>1. PICK k \in Nat : a = x + 1 + k
    BY <1>2
  <2>2. a * D = x * D + D + k * D /\ k * D \in Nat /\ x * D \in Nat
    BY <2>1
  <2> QED
    BY <1>1, <2>2
<1>3. CASE a < x
  <2>1. PICK k \in Nat : x = a + 1 + k
    BY <1>3
  <2>2. x * D = a * D + D + k * D /\ k * D \in Nat /\ a * D \in Nat
    BY <2>1
  <2> QED
    BY <1>1, <2>2
<1> QED
  BY <1>1, <1>2, <1>3

(* A remainder is told by its range. *)
LEMMA ModIs ==
    ASSUME NEW M \in Nat \ {0}, NEW n \in Int, NEW d \in Int, NEW r \in 0..(M - 1), n = d * M + r
    PROVE  n % M = r
<1>1. PICK e \in Int, s \in 0..(M - 1) : n % M = s /\ n = e * M + s
  <2>1. n \div M \in Int /\ n % M \in 0..(M - 1) /\ n = (n \div M) * M + (n % M)
    OBVIOUS
  <2> QED
    BY <2>1
<1>2. CASE e < d
  <2>1. PICK k \in Nat : d = e + 1 + k
    BY <1>2
  <2>2. d * M = e * M + M + k * M /\ k * M \in Nat /\ e * M \in Int
    BY <2>1
  <2> QED
    BY <1>1, <2>2
<1>3. CASE d < e
  <2>1. PICK k \in Nat : e = d + 1 + k
    BY <1>3
  <2>2. e * M = d * M + M + k * M /\ k * M \in Nat /\ d * M \in Int
    BY <2>1
  <2> QED
    BY <1>1, <2>2
<1>4. CASE d = e
  BY <1>1, <1>4
<1> QED
  BY <1>2, <1>3, <1>4

(* Whole turns do not count. *)
LEMMA ModTurns ==
    ASSUME NEW M \in Nat \ {0}, NEW a \in Int, NEW k \in Int
    PROVE  (a + k * M) % M = a % M
<1>1. PICK e \in Int, s \in 0..(M - 1) : a % M = s /\ a = e * M + s
  <2>1. a \div M \in Int /\ a % M \in 0..(M - 1) /\ a = (a \div M) * M + (a % M)
    OBVIOUS
  <2> QED
    BY <2>1
<1>2. a + k * M = (e + k) * M + s /\ a + k * M \in Int
  BY <1>1
<1> DEFINE n == a + k * M
           d == e + k
<1>3. n \in Int /\ d \in Int /\ n = d * M + s
  BY <1>2
<1> HIDE DEF n, d
<1>4. n % M = s
  BY <1>3, ModIs
<1> QED
  BY <1>1, <1>4 DEF n

(* What is added or taken off may be reduced first. *)
LEMMA ModOfMod ==
    ASSUME NEW M \in Nat \ {0}, NEW a \in Int, NEW b \in Int
    PROVE  /\ ((a % M) + b) % M = (a + b) % M
           /\ (b - (a % M)) % M = (b - a) % M
<1>1. PICK e \in Int, s \in 0..(M - 1) : a % M = s /\ a = e * M + s
  <2>1. a \div M \in Int /\ a % M \in 0..(M - 1) /\ a = (a \div M) * M + (a % M)
    OBVIOUS
  <2> QED
    BY <2>1
<1>2. \A x \in Int, k \in Int : (x + k * M) % M = x % M
  BY ModTurns
<1>3. a + b = (s + b) + e * M /\ s + b \in Int
  BY <1>1
<1>4. b - s = (b - a) + e * M /\ b - a \in Int
  BY <1>1
<1>5. (a + b) % M = (s + b) % M
  BY <1>2, <1>3, Zenon
<1>6. (b - s) % M = (b - a) % M
  BY <1>2, <1>4, Zenon
<1> QED
  BY <1>1, <1>5, <1>6, Zenon

LEMMA ModSmall ==
    ASSUME NEW M \in Nat \ {0}, NEW a \in 0..(M - 1)
    PROVE  a % M = a
<1>1. a = 0 * M + a
  OBVIOUS
<1> QED
  BY <1>1, ModIs

(* The distance of two readings of a counter that wraps. *)
LEMMA ModDifference ==
    ASSUME NEW M \in Nat \ {0}, NEW a \in Int, NEW b \in Int
    PROVE  ((a % M) - (b % M)) % M = (a - b) % M
<1>1. a % M \in Int /\ b % M \in Int
  OBVIOUS
<1>2. ((a % M) - (b % M)) % M = ((a % M) - b) % M
  BY <1>1, ModOfMod
<1>3. (a % M) - b = (a % M) + (-b) /\ a - b = a + (-b) /\ -b \in Int
  BY <1>1
<1>4. ((a % M) + (-b)) % M = (a + (-b)) % M
  BY <1>3, ModOfMod
<1> QED
  BY <1>2, <1>3, <1>4, Zenon

LEMMA ModDistance ==
    ASSUME NEW M \in Nat \ {0}, NEW a \in Int, NEW b \in Int, a - b \in 0..(M - 1)
    PROVE  ((a % M) - (b % M)) % M = a - b
<1>1. (a - b) % M = a - b
  BY ModSmall
<1> QED
  BY <1>1, ModDifference, Zenon

(* The remainder of a sum of two indices. *)
LEMMA ModOfSum ==
    ASSUME NEW M \in Nat \ {0}, NEW k \in 0..(M + M - 1)
    PROVE  /\ k < M => k % M = k
           /\ k >= M => k % M = k - M
<1> DEFINE d == k \div M
           r == k % M
<1>1. d \in Int /\ r \in 0..(M - 1) /\ k = d * M + r
  OBVIOUS
<1> HIDE DEF d, r
<1>2. d >= 0
  <2> SUFFICES ASSUME d < 0 PROVE FALSE
    BY <1>1
  <2>1. PICK n \in Nat : d = -1 - n
    BY <1>1
  <2>2. d * M = -M - n * M /\ n * M >= 0
    BY <2>1
  <2> QED
    BY <1>1, <2>2
<1>3. d <= 1
  <2> SUFFICES ASSUME d > 1 PROVE FALSE
    BY <1>1
  <2>1. PICK n \in Nat : d = 2 + n
    BY <1>1
  <2>2. d * M = M + M + n * M /\ n * M >= 0
    BY <2>1
  <2> QED
    BY <1>1, <2>2
<1>4. CASE d = 0
  BY <1>1, <1>4 DEF r
<1>5. CASE d = 1
  BY <1>1, <1>5 DEF r
<1> QED
  BY <1>1, <1>2, <1>3, <1>4, <1>5

LEMMA AfterIs ==
    ASSUME NEW M \in Nat \ {0}, NEW i \in 0..(M - 1)
    PROVE  /\ After(M, i) \in 0..(M - 1)
           /\ After(M, i) = IF i = M - 1 THEN 0 ELSE i + 1
<1>1. i + 1 \in 0..(M + M - 1)
  OBVIOUS
<1>2. /\ i + 1 < M => (i + 1) % M = i + 1
      /\ i + 1 >= M => (i + 1) % M = i + 1 - M
  <2>1. M \in Nat \ {0}
    OBVIOUS
  <2>2. \A n \in 0..(M + M - 1) : (n < M => n % M = n) /\ (n >= M => n % M = n - M)
    BY <2>1, ModOfSum, Zenon
  <2>3. PICK n \in 0..(M + M - 1) : n = i + 1
    BY <1>1
  <2>4. (n < M => n % M = n) /\ (n >= M => n % M = n - M)
    BY <2>2
  <2> QED
    BY <2>1, <2>3, <2>4
<1> QED
  BY <1>1, <1>2 DEF After

(* The k-th slot after the tail. *)
LEMMA SlotIs ==
    ASSUME NEW M \in Nat \ {0}, NEW t \in 0..(M - 1), NEW k \in 0..(M - 1)
    PROVE  /\ (t + k) % M \in 0..(M - 1)
           /\ (t + k) % M = IF t + k < M THEN t + k ELSE t + k - M
<1>1. t + k \in 0..(M + M - 1)
  OBVIOUS
<1>2. /\ t + k < M => (t + k) % M = t + k
      /\ t + k >= M => (t + k) % M = t + k - M
  <2>1. M \in Nat \ {0}
    OBVIOUS
  <2>2. \A n \in 0..(M + M - 1) : (n < M => n % M = n) /\ (n >= M => n % M = n - M)
    BY <2>1, ModOfSum, Zenon
  <2>3. PICK n \in 0..(M + M - 1) : n = t + k
    BY <1>1
  <2>4. (n < M => n % M = n) /\ (n >= M => n % M = n - M)
    BY <2>2
  <2> QED
    BY <2>1, <2>3, <2>4
<1> QED
  BY <1>1, <1>2

LEMMA SpanRange ==
    ASSUME NEW M \in Nat \ {0}, NEW h \in 0..(M - 1), NEW t \in 0..(M - 1)
    PROVE  Span(M, h, t) \in 0..(M - 1) /\ (Span(M, h, t) = 0 <=> h = t)
BY DEF Span

(* Storing makes one more byte available, reading one less. *)
LEMMA SpanStep ==
    ASSUME NEW M \in Nat \ {0}, NEW h \in 0..(M - 1), NEW t \in 0..(M - 1)
    PROVE  /\ After(M, h) # t => Span(M, After(M, h), t) = Span(M, h, t) + 1
           /\ After(M, h) = t => Span(M, h, t) = M - 1
           /\ h # t => Span(M, h, After(M, t)) = Span(M, h, t) - 1
BY AfterIs DEF Span

-----------------------------------------------------------------------------
(* What the window holds. *)
IsWindow(M, Data, b, h, t) ==
    /\ Window(M, b, h, t) \in Seq(Data)
      /\ Len(Window(M, b, h, t)) = Span(M, h, t)
      /\ \A i \in 1..Span(M, h, t) :
           /\ t + i - 1 = t + (i - 1) /\ i - 1 \in 0..(M - 1)
           /\ (t + i - 1) % M \in 0..(M - 1)
           /\ Window(M, b, h, t)[i] = b[(t + i - 1) % M]

LEMMA WindowIs ==
    ASSUME NEW M \in Nat \ {0}, NEW Data,
           NEW b \in [0..(M - 1) -> Data], NEW h \in 0..(M - 1), NEW t \in 0..(M - 1)
    PROVE  IsWindow(M, Data, b, h, t)
<1>1. Span(M, h, t) \in 0..(M - 1) /\ M \in Nat \ {0}
  BY SpanRange
<1>2. ASSUME NEW i \in 1..Span(M, h, t)
      PROVE  /\ i - 1 \in 0..(M - 1) /\ t + i - 1 = t + (i - 1)
             /\ (t + i - 1) % M \in 0..(M - 1)
  <2>1. i - 1 \in 0..(M - 1) /\ t + i - 1 = t + (i - 1)
    BY <1>1
  <2> QED
    BY <2>1, SlotIs
<1>3. \A i \in 1..Span(M, h, t) : b[(t + i - 1) % M] \in Data
  BY <1>2
<1> QED
  BY <1>1, <1>2, <1>3 DEF Window, IsWindow

(* Storing appends to the window, provided the ring is not full. *)
StoreAppends(M, b, h, t, c) ==
    Window(M, [b EXCEPT ![h] = c], After(M, h), t) = Append(Window(M, b, h, t), c)

LEMMA WindowStore ==
    ASSUME NEW M \in Nat \ {0}, NEW Data,
           NEW b \in [0..(M - 1) -> Data], NEW h \in 0..(M - 1), NEW t \in 0..(M - 1),
           NEW c \in Data, After(M, h) # t
    PROVE  StoreAppends(M, b, h, t, c)
<1>0a. \A x \in [0..(M - 1) -> Data] : \A y \in 0..(M - 1) :
        /\ Window(M, x, y, t) \in Seq(Data)
        /\ Len(Window(M, x, y, t)) = Span(M, y, t)
        /\ \A i \in 1..Span(M, y, t) : Window(M, x, y, t)[i] = x[(t + i - 1) % M]
  <2> TAKE x \in [0..(M - 1) -> Data]
  <2> TAKE y \in 0..(M - 1)
  <2> QED
    <3>1. IsWindow(M, Data, x, y, t)
      BY WindowIs
    <3> QED
      BY <3>1 DEF IsWindow
<1>0. M \in Nat \ {0} /\ h \in Int /\ t \in Int
  OBVIOUS
<1>1. PICK d \in 0..(M - 1) : d = Span(M, h, t)
  BY SpanRange
<1>2. PICK b2 : b2 = [b EXCEPT ![h] = c]
  OBVIOUS
<1>3. PICK w : w = Window(M, b, h, t)
  OBVIOUS
<1>4. PICK w2 : w2 = Window(M, b2, After(M, h), t)
  OBVIOUS
<1>5. b2 \in [0..(M - 1) -> Data] /\ After(M, h) \in 0..(M - 1)
  BY <1>2, AfterIs
<1>6. Span(M, After(M, h), t) = d + 1 /\ d + 1 \in 0..(M - 1) /\ d \in Int
  <2>1. Span(M, After(M, h), t) \in 0..(M - 1)
    BY <1>5, SpanRange
  <2> QED
    BY <1>0, <1>1, <2>1, SpanStep
<1>7. /\ w \in Seq(Data) /\ Len(w) = d
      /\ \A i \in 1..d : (t + i - 1) % M \in 0..(M - 1) /\ w[i] = b[(t + i - 1) % M]
  <2>1. /\ Window(M, b, h, t) \in Seq(Data)
        /\ Len(Window(M, b, h, t)) = Span(M, h, t)
        /\ \A i \in 1..Span(M, h, t) :
             /\ (t + i - 1) % M \in 0..(M - 1)
             /\ Window(M, b, h, t)[i] = b[(t + i - 1) % M]
    <3>1. IsWindow(M, Data, b, h, t)
      BY WindowIs
    <3> QED
      BY <3>1 DEF IsWindow
  <2> QED
    BY <1>1, <1>3, <2>1
<1>8. /\ w2 \in Seq(Data) /\ Len(w2) = d + 1
      /\ \A i \in 1..(d + 1) : w2[i] = b2[(t + i - 1) % M]
  <2>1. /\ w2 \in Seq(Data) /\ Len(w2) = Span(M, After(M, h), t)
        /\ \A i \in 1..Span(M, After(M, h), t) : w2[i] = b2[(t + i - 1) % M]
    <3>1. PICK g : g = After(M, h) /\ g \in 0..(M - 1)
      BY <1>5
    <3>2. /\ Window(M, b2, g, t) \in Seq(Data)
          /\ Len(Window(M, b2, g, t)) = Span(M, g, t)
          /\ \A i \in 1..Span(M, g, t) : Window(M, b2, g, t)[i] = b2[(t + i - 1) % M]
      BY <1>0a, <1>5, <3>1
    <3> QED
      BY <1>4, <3>1, <3>2
  <2> QED
    BY <1>6, <2>1
<1>9. /\ Append(w, c) \in Seq(Data) /\ Len(Append(w, c)) = d + 1
      /\ \A i \in 1..d : Append(w, c)[i] = w[i]
      /\ Append(w, c)[d + 1] = c
  BY <1>7, AppendProperties
<1>10. ASSUME NEW i \in 1..d PROVE w2[i] = Append(w, c)[i]
  <2>1. i - 1 \in 0..(M - 1) /\ t + i - 1 = t + (i - 1) /\ i \in 1..(d + 1)
    BY <1>0, <1>6
  <2>2. (t + (i - 1)) % M = IF t + (i - 1) < M THEN t + (i - 1) ELSE t + (i - 1) - M
    BY <2>1, SlotIs
  <2>3. (t + i - 1) % M # h
    BY <1>0, <1>1, <2>1, <2>2 DEF Span
  <2>4. w2[i] = b2[(t + i - 1) % M]
    BY <1>8, <2>1
  <2>5. Append(w, c)[i] = b[(t + i - 1) % M] /\ (t + i - 1) % M \in 0..(M - 1)
    BY <1>7, <1>9
  <2> QED
    BY <1>2, <2>3, <2>4, <2>5
<1>11. w2[d + 1] = c
  <2>1. t + (d + 1) - 1 = t + d /\ d + 1 \in 1..(d + 1)
    BY <1>0, <1>6
  <2>2. (t + d) % M = IF t + d < M THEN t + d ELSE t + d - M
    BY SlotIs
  <2>3. (t + d) % M = h
    BY <1>0, <1>1, <2>2 DEF Span
  <2>4. w2[d + 1] = b2[(t + (d + 1) - 1) % M]
    BY <1>8, <2>1
  <2>5. w2[d + 1] = b2[h]
    BY <2>1, <2>3, <2>4
  <2> QED
    BY <1>2, <2>5
<1>12. \A i \in 1..(d + 1) : w2[i] = Append(w, c)[i]
  <2>1. \A i \in 1..(d + 1) : i \in 1..d \/ i = d + 1
    BY <1>6
  <2> QED
    BY <2>1, <1>9, <1>10, <1>11
<1>13. w2 = Append(w, c)
  BY <1>8, <1>9, <1>12, SeqEqual
<1> QED
  BY <1>2, <1>3, <1>4, <1>13 DEF StoreAppends

(* Reading takes the head of the window. *)
LEMMA WindowTake ==
    ASSUME NEW M \in Nat \ {0}, NEW Data,
           NEW b \in [0..(M - 1) -> Data], NEW h \in 0..(M - 1), NEW t \in 0..(M - 1),
           h # t
    PROVE  /\ Window(M, b, h, t) # <<>>
           /\ Head(Window(M, b, h, t)) = b[t]
           /\ Window(M, b, h, After(M, t)) = Tail(Window(M, b, h, t))
<1>0. M \in Nat \ {0} /\ h \in Int /\ t \in Int
  OBVIOUS
<1>1. PICK d \in 1..(M - 1) : d = Span(M, h, t)
  <2>1. Span(M, h, t) \in 0..(M - 1) /\ Span(M, h, t) # 0
    BY SpanRange
  <2> QED
    BY <1>0, <2>1
<1>2. PICK u \in 0..(M - 1) : u = After(M, t) /\ u = IF t = M - 1 THEN 0 ELSE t + 1
  BY AfterIs
<1>3. PICK w : w = Window(M, b, h, t)
  OBVIOUS
<1>4. PICK w2 : w2 = Window(M, b, h, u)
  OBVIOUS
<1>5. Span(M, h, u) = d - 1 /\ d - 1 \in 0..(M - 1) /\ d \in Int /\ u \in Int
  <2>1. Span(M, h, After(M, t)) = Span(M, h, t) - 1
    BY SpanStep, Zenon
  <2> QED
    BY <1>0, <1>1, <1>2, <2>1
<1>6. /\ w \in Seq(Data) /\ Len(w) = d
      /\ \A i \in 1..d : w[i] = b[(t + i - 1) % M]
  <2>1. IsWindow(M, Data, b, h, t)
    BY WindowIs
  <2> QED
    BY <1>1, <1>3, <2>1 DEF IsWindow
<1>7. /\ w2 \in Seq(Data) /\ Len(w2) = d - 1
      /\ \A i \in 1..(d - 1) : w2[i] = b[(u + i - 1) % M]
  <2>1. /\ w2 \in Seq(Data) /\ Len(w2) = Span(M, h, u)
        /\ \A i \in 1..Span(M, h, u) : w2[i] = b[(u + i - 1) % M]
    <3>1. /\ Window(M, b, h, u) \in Seq(Data) /\ Len(Window(M, b, h, u)) = Span(M, h, u)
          /\ \A i \in 1..Span(M, h, u) : Window(M, b, h, u)[i] = b[(u + i - 1) % M]
      <4>1. IsWindow(M, Data, b, h, u)
        BY WindowIs
      <4> QED
        BY <4>1 DEF IsWindow
    <3> QED
      BY <1>4, <3>1
  <2> QED
    BY <1>5, <2>1
<1>8. w # <<>> /\ Head(w) = w[1]
  BY <1>5, <1>6, EmptySeq
<1>9. /\ Tail(w) \in Seq(Data) /\ Len(Tail(w)) = d - 1
      /\ \A i \in 1..(d - 1) : Tail(w)[i] = w[i + 1]
  BY <1>6, <1>8, HeadTailProperties
<1>10. w[1] = b[t]
  <2>1. 0 \in 0..(M - 1) /\ t + 1 - 1 = t + 0 /\ t + 0 = t /\ 1 \in 1..d
    BY <1>0
  <2>2. (t + 0) % M = t
    <3>1. (t + 0) % M = IF t + 0 < M THEN t + 0 ELSE t + 0 - M
      BY <2>1, SlotIs, Zenon
    <3> QED
      BY <1>0, <3>1
  <2>3. w[1] = b[(t + 1 - 1) % M]
    BY <1>6, <2>1
  <2> QED
    BY <2>1, <2>2, <2>3
<1>11. ASSUME NEW i \in 1..(d - 1) PROVE w2[i] = Tail(w)[i]
  <2>1. i - 1 \in 0..(M - 1) /\ i \in 0..(M - 1) /\ i + 1 \in 1..d
        /\ u + i - 1 = u + (i - 1) /\ t + (i + 1) - 1 = t + i
    BY <1>0, <1>5
  <2>2. (u + (i - 1)) % M = IF u + (i - 1) < M THEN u + (i - 1) ELSE u + (i - 1) - M
    BY <2>1, SlotIs
  <2>3. (t + i) % M = IF t + i < M THEN t + i ELSE t + i - M
    BY <2>1, SlotIs
  <2>4. (u + (i - 1)) % M = (t + i) % M
    BY <1>0, <1>2, <1>5, <2>1, <2>2, <2>3
  <2>5. w2[i] = b[(u + i - 1) % M]
    BY <1>7
  <2>6. w[i + 1] = b[(t + (i + 1) - 1) % M]
    BY <1>6, <2>1
  <2> QED
    BY <1>9, <2>1, <2>4, <2>5, <2>6
<1>12. w2 = Tail(w)
  BY <1>7, <1>9, <1>11, SeqEqual
<1> QED
  BY <1>2, <1>3, <1>4, <1>8, <1>10, <1>12

=============================================================================
