----------------------------- MODULE TextProofs -----------------------------
(***************************************************************************)
(* Proofs about the texts of the core: what find() and readString() of     *)
(* Stream match and return (StreamText), what parseInt() and parseFloat()  *)
(* consume and compute (StreamParse), and that a String holds the text it  *)
(* should after every operation of WString.cpp (WString).                  *)
(***************************************************************************)
EXTENDS StreamText, StreamParse, WString, FiniteSetTheorems, RingTheorems

(* The greatest and the least element of a set of numbers are told by      *)
(* what they are compared with.                                            *)
LEMMA MaxIs ==
    ASSUME NEW S, S \subseteq Int, NEW m \in S, \A k \in S : k <= m
    PROVE  Max(S) = m
<1>1. \A x \in S : (\A y \in S : x >= y) => x = m
  OBVIOUS
<1> QED
  BY <1>1 DEF Max

LEMMA MinIs ==
    ASSUME NEW S, S \subseteq Int, NEW m \in S, \A k \in S : m <= k
    PROVE  Min(S) = m
<1>1. \A x \in S : (\A y \in S : x =< y) => x = m
  OBVIOUS
<1> QED
  BY <1>1 DEF Min

-----------------------------------------------------------------------------
(* The first n characters of past end with the first k characters of s. *)
EndsAt(past, n, s, k) == k <= n /\ \A m \in 1..k : past[n - k + m] = s[m]

LEMMA EndsWithIs ==
    ASSUME NEW past \in Seq(Chars), NEW s \in Seq(Chars),
           NEW n \in 0..Len(past), NEW k \in 0..Len(s)
    PROVE  EndsWith(SubSeq(past, 1, n), SubSeq(s, 1, k)) <=> EndsAt(past, n, s, k)
<1> DEFINE a == SubSeq(past, 1, n)
           b == SubSeq(s, 1, k)
           c == SubSeq(a, n - k + 1, n)
<1>1. Len(past) \in Nat /\ Len(s) \in Nat
  BY LenProperties
<1>2. a \in Seq(Chars) /\ Len(a) = n /\ \A i \in 1..n : a[i] = past[i]
  <2>1. \A i \in 1..n : past[i] \in Chars
    BY <1>1, ElementOfSeq
  <2> QED
    BY <1>1, <2>1, SubSeqProperties
<1>3. b \in Seq(Chars) /\ Len(b) = k /\ \A i \in 1..k : b[i] = s[i]
  <2>1. \A i \in 1..k : s[i] \in Chars
    BY <1>1, ElementOfSeq
  <2> QED
    BY <1>1, <2>1, SubSeqProperties
<1>4. ASSUME k <= n
      PROVE  c \in Seq(Chars) /\ Len(c) = k /\ \A i \in 1..k : c[i] = past[n - k + i]
  <2>1. \A i \in (n - k + 1)..n : a[i] \in Chars
    BY <1>1, <1>2, <1>4, ElementOfSeq
  <2>2. /\ c \in Seq(Chars)
        /\ Len(c) = IF n - k + 1 <= n THEN n - (n - k + 1) + 1 ELSE 0
        /\ \A i \in 1..(n - (n - k + 1) + 1) : c[i] = a[n - k + 1 + i - 1]
    <3> HIDE DEF a
    <3> QED
      BY <1>1, <2>1, SubSeqProperties
  <2> HIDE DEF a, c
  <2>3. Len(c) = k
    BY <1>1, <1>4, <2>2
  <2>4. ASSUME NEW i \in 1..k PROVE c[i] = past[n - k + i]
    <3>1. c[i] = a[n - k + 1 + i - 1] /\ n - k + 1 + i - 1 = n - k + i /\ n - k + i \in 1..n
      BY <1>1, <1>4, <2>2
    <3> QED
      BY <1>2, <3>1
  <2> QED
    BY <2>2, <2>3, <2>4
<1>5. EndsWith(a, b) <=> k <= n /\ c = b
  BY <1>2, <1>3 DEF EndsWith
<1> HIDE DEF a, b, c
<1>6. ASSUME k <= n PROVE c = b <=> \A i \in 1..k : past[n - k + i] = s[i]
  <2>1. c = b => \A i \in 1..k : past[n - k + i] = s[i]
    BY <1>3, <1>4, <1>6
  <2>2. (\A i \in 1..k : c[i] = b[i]) => c = b
    BY <1>3, <1>4, <1>6, SeqEqual
  <2> QED
    BY <1>3, <1>4, <1>6, <2>1, <2>2
<1>7. EndsWith(a, b) <=> EndsAt(past, n, s, k)
  BY <1>5, <1>6 DEF EndsAt
<1> QED
  BY <1>7 DEF a, b

(* The longest beginning of s that past ends with has k characters. *)
IsLongest(past, s, k) ==
    /\ k \in 0..Len(s) /\ EndsAt(past, Len(past), s, k)
    /\ \A j \in 0..Len(s) : EndsAt(past, Len(past), s, j) => j <= k

LEMMA LongestIs ==
    ASSUME NEW past \in Seq(Chars), NEW s \in Seq(Chars), NEW k, IsLongest(past, s, k)
    PROVE  k = Max({Len(h) : h \in {g \in Heads(s) : EndsWith(past, g)}})
<1> DEFINE S == {Len(h) : h \in {g \in Heads(s) : EndsWith(past, g)}}
<1>1. Len(past) \in Nat /\ Len(s) \in Nat /\ k \in 0..Len(s)
  BY LenProperties DEF IsLongest
<1>2. ASSUME NEW j \in 0..Len(s)
      PROVE  /\ SubSeq(s, 1, j) \in Heads(s) /\ Len(SubSeq(s, 1, j)) = j
             /\ EndsWith(past, SubSeq(s, 1, j)) <=> EndsAt(past, Len(past), s, j)
  <2>1. \A i \in 1..j : s[i] \in Chars
    BY <1>1, ElementOfSeq
  <2>2. Len(SubSeq(s, 1, j)) = j
    BY <1>1, <2>1, SubSeqProperties
  <2>3. SubSeq(past, 1, Len(past)) = past
    BY SubSeqFull
  <2>4. Len(past) \in 0..Len(past)
    BY <1>1
  <2>5. EndsWith(past, SubSeq(s, 1, j)) <=> EndsAt(past, Len(past), s, j)
    BY <2>3, <2>4, EndsWithIs
  <2> QED
    BY <2>2, <2>5 DEF Heads
<1>3. k \in S
  BY <1>1, <1>2 DEF IsLongest
<1>4. ASSUME NEW l \in S PROVE l \in Int /\ l <= k
  <2>1. PICK j \in 0..Len(s) : l = Len(SubSeq(s, 1, j)) /\ EndsWith(past, SubSeq(s, 1, j))
    BY DEF Heads
  <2> QED
    BY <1>1, <1>2, <2>1 DEF IsLongest
<1> HIDE DEF S
<1>5. Max(S) = k
  BY <1>3, <1>4, MaxIs
<1> QED
  BY <1>5 DEF S

(* The empty beginning always fits. *)
LEMMA NothingMatched ==
    ASSUME NEW s \in Seq(Chars), s # <<>>
    PROVE  IsLongest(<<>>, s, 0)
<1>1. Len(s) \in Nat /\ Len(<<>>) = 0
  BY LenProperties
<1> QED
  BY <1>1 DEF IsLongest, EndsAt

(* One more character lengthens a match by itself, or ends it. *)
LEMMA EndsAtAppend ==
    ASSUME NEW past \in Seq(Chars), NEW ch \in Chars, NEW s \in Seq(Chars),
           NEW j \in 0..(Len(s) - 1)
    PROVE  EndsAt(Append(past, ch), Len(past) + 1, s, j + 1)
               <=> EndsAt(past, Len(past), s, j) /\ s[j + 1] = ch
<1> DEFINE n == Len(past)
           more == Append(past, ch)
<1>1. n \in Nat /\ Len(s) \in Nat /\ j \in Nat
  BY LenProperties
<1>2. (\A i \in 1..n : more[i] = past[i]) /\ more[n + 1] = ch
  BY AppendProperties
<1> HIDE DEF n, more
<1>3. ASSUME j <= n, NEW m \in 1..j
      PROVE  (n + 1) - (j + 1) + m = n - j + m /\ more[n - j + m] = past[n - j + m]
  <2>1. n - j + m \in 1..n /\ (n + 1) - (j + 1) + m = n - j + m
    BY <1>1, <1>3
  <2> QED
    BY <1>2, <2>1
<1>4. ASSUME j <= n
      PROVE  (\A m \in 1..(j + 1) : more[(n + 1) - (j + 1) + m] = s[m])
                 <=> (\A m \in 1..j : past[n - j + m] = s[m]) /\ ch = s[j + 1]
  <2>1. \A m \in 1..j : more[(n + 1) - (j + 1) + m] = past[n - j + m]
    BY <1>3, <1>4
  <2>2. more[(n + 1) - (j + 1) + (j + 1)] = ch
    <3>1. (n + 1) - (j + 1) + (j + 1) = n + 1
      BY <1>1
    <3> QED
      BY <1>2, <3>1
  <2>3. 1..(j + 1) = (1..j) \cup {j + 1}
    BY <1>1
  <2> QED
    BY <2>1, <2>2, <2>3
<1>5. EndsAt(more, n + 1, s, j + 1) <=> EndsAt(past, n, s, j) /\ s[j + 1] = ch
  <2>1. j + 1 <= n + 1 <=> j <= n
    BY <1>1
  <2> QED
    <3>0. \A x, y : EndsAt(more, x, s, y) <=>
            y <= x /\ \A m \in 1..y : more[x - y + m] = s[m]
      BY DEF EndsAt
    <3>1. EndsAt(more, n + 1, s, j + 1) <=>
            j + 1 <= n + 1 /\ \A m \in 1..(j + 1) : more[(n + 1) - (j + 1) + m] = s[m]
      BY <3>0, Zenon
    <3>2. EndsAt(past, n, s, j) <=> j <= n /\ \A m \in 1..j : past[n - j + m] = s[m]
      BY DEF EndsAt
    <3> QED
      BY <1>4, <2>1, <3>1, <3>2
<1> QED
  BY <1>5 DEF n, more

IsBorder(s, k, j) == \A m \in 1..j : s[m] = s[m + k - j]

(* A shorter beginning fits where a longer one does if it stands at the    *)
(* end of the longer one: that needs no second look at the text.           *)
LEMMA ShorterMatch ==
    ASSUME NEW past, NEW n \in Nat, NEW s, NEW k \in Nat, NEW j \in 0..k, EndsAt(past, n, s, k)
    PROVE  EndsAt(past, n, s, j) <=> IsBorder(s, k, j)
<1>1. ASSUME NEW m \in 1..j PROVE past[n - j + m] = s[m + k - j]
  <2>1. m + k - j \in 1..k /\ n - k + (m + k - j) = n - j + m
    OBVIOUS
  <2> QED
    BY <2>1 DEF EndsAt
<1>2. j <= n
  BY DEF EndsAt
<1> QED
  BY <1>1, <1>2 DEF EndsAt, IsBorder

(* Stepped() finds the longest beginning from the longest one before: a    *)
(* search that falls back inside its target forgets no match.              *)
LEMMA SteppedIs ==
    ASSUME NEW past \in Seq(Chars), NEW ch \in Chars, NEW s \in Seq(Chars), NEW k,
           IsLongest(past, s, k), k < Len(s)
    PROVE  IsLongest(Append(past, ch), s, Stepped(s, k, ch))
<1> DEFINE n == Len(past)
           more == Append(past, ch)
           Fitting(i) == s[i + 1] = ch /\ IsBorder(s, k, i)
           Shorter == {0} \cup {j + 1 : j \in {i \in 0..(k - 1) : Fitting(i)}}
<1>1. n \in Nat /\ Len(s) \in Nat /\ k \in 0..(Len(s) - 1) /\ EndsAt(past, n, s, k)
  BY LenProperties DEF IsLongest
<1>2. Len(more) = n + 1
  BY AppendProperties
<1>3. ASSUME NEW j \in 0..(Len(s) - 1)
      PROVE  EndsAt(more, n + 1, s, j + 1) <=> EndsAt(past, n, s, j) /\ s[j + 1] = ch
  BY EndsAtAppend
<1>4. EndsAt(more, n + 1, s, 0)
  BY <1>1 DEF EndsAt
<1>5. \A j \in 0..(Len(s) - 1) : EndsAt(past, n, s, j) => j <= k
  BY <1>1 DEF IsLongest
<1> HIDE DEF n, more
<1>6. CASE s[k + 1] = ch
  <2>1. EndsAt(more, n + 1, s, k + 1) /\ k + 1 \in 0..Len(s)
    BY <1>1, <1>3, <1>6
  <2>2. ASSUME NEW j \in 0..Len(s), EndsAt(more, n + 1, s, j) PROVE j <= k + 1
    <3>1. CASE j = 0
      BY <1>1, <3>1
    <3>2. CASE j # 0
      <4>1. j - 1 \in 0..(Len(s) - 1) /\ (j - 1) + 1 = j
        BY <1>1, <3>2
      <4>2. EndsAt(past, n, s, j - 1)
        BY <1>3, <2>2, <4>1
      <4> QED
        BY <1>1, <1>5, <4>1, <4>2
    <3> QED
      BY <3>1, <3>2
  <2>3. Stepped(s, k, ch) = k + 1
    BY <1>6 DEF Stepped
  <2> QED
    BY <1>2, <2>1, <2>2, <2>3 DEF IsLongest, more
<1>7. CASE s[k + 1] # ch
  <2>1. ASSUME NEW i \in 0..(k - 1)
        PROVE  Fitting(i) <=> EndsAt(more, n + 1, s, i + 1)
    <3>1. i \in 0..k /\ k \in Nat /\ i \in 0..(Len(s) - 1)
      BY <1>1
    <3>2. EndsAt(past, n, s, i) <=> IsBorder(s, k, i)
      BY <1>1, <3>1, ShorterMatch
    <3> QED
      BY <1>3, <3>1, <3>2
  <2>2. ASSUME NEW j \in Nat PROVE j \in Shorter <=> j \in 0..Len(s) /\ EndsAt(more, n + 1, s, j)
    <3>1. CASE j = 0
      BY <1>1, <1>4, <3>1
    <3>2. CASE j # 0
      <4> DEFINE i == j - 1
      <4>1. i \in Nat /\ j = i + 1
        BY <3>2
      <4> HIDE DEF i
      <4>2. j \in Shorter <=> i \in 0..(k - 1) /\ Fitting(i)
        <5> HIDE DEF Fitting
        <5>1. j \in Shorter <=> \E x \in 0..(k - 1) : Fitting(x) /\ x + 1 = j
          BY <3>2
        <5>2. \A x \in 0..(k - 1) : x + 1 = j <=> x = i
          BY <1>1, <4>1
        <5> QED
          BY <5>1, <5>2
      <4>3. j \in 0..Len(s) <=> i \in 0..(Len(s) - 1)
        BY <1>1, <4>1
      <4>4. ASSUME i \in 0..(Len(s) - 1), EndsAt(more, n + 1, s, i + 1) PROVE i \in 0..(k - 1)
        <5>1. EndsAt(past, n, s, i) /\ s[i + 1] = ch
          BY <1>3, <4>4
        <5>2. i <= k /\ i # k
          BY <1>5, <1>7, <4>4, <5>1
        <5> QED
          BY <1>1, <4>1, <5>2
      <4>5. i \in 0..(k - 1) => i \in 0..(Len(s) - 1)
        BY <1>1, <4>1
      <4> HIDE DEF Fitting, Shorter
      <4> QED
        BY <2>1, <4>1, <4>2, <4>3, <4>4, <4>5
    <3> QED
      BY <3>1, <3>2
  <2>3. Shorter \subseteq Nat
    BY <1>1
  <2>4. \E m \in Shorter : \A x \in Shorter : x <= m
    <3> DEFINE Bound == {b \in Nat : \A x \in Shorter : x <= b}
    <3>1. Len(s) \in Bound
      BY <1>1
    <3>2. Bound \subseteq Nat /\ Bound # {}
      BY <3>1
    <3>3. PICK m \in Bound : \A b \in Bound : m <= b
      <4> HIDE DEF Bound
      <4> QED
        BY <3>2, LeastNat
    <3>4. ASSUME m \notin Shorter PROVE FALSE
      <4>1. \A x \in Shorter : x <= m /\ x # m
        BY <3>3, <3>4
      <4>2. 0 \in Shorter /\ m \in Nat
        BY <3>3
      <4>3. m - 1 \in Nat /\ \A x \in Shorter : x <= m - 1
        <5> HIDE DEF Shorter, Bound
        <5> QED
          BY <2>3, <4>1, <4>2
      <4>4. m - 1 \in Bound
        <5> HIDE DEF Shorter
        <5> QED
          BY <4>3
      <4> HIDE DEF Bound, Shorter
      <4> QED
        BY <3>3, <4>2, <4>4
    <3> HIDE DEF Shorter
    <3> QED
      BY <3>3, <3>4
  <2>5. Stepped(s, k, ch) = Max(Shorter)
    BY <1>7 DEF Stepped, WalkedBack, IsBorder
  <2> HIDE DEF Shorter
  <2>6. PICK m \in Shorter : \A x \in Shorter : x <= m
    BY <2>4
  <2>7. Shorter \subseteq Int
    BY <2>3
  <2>8. Stepped(s, k, ch) = m
    BY <2>5, <2>6, <2>7, MaxIs
  <2>9. /\ m \in 0..Len(s) /\ EndsAt(more, n + 1, s, m)
        /\ \A j \in 0..Len(s) : EndsAt(more, n + 1, s, j) => j <= m
    BY <1>1, <2>2, <2>3, <2>6
  <2> QED
    BY <1>2, <2>8, <2>9 DEF IsLongest, more
<1> QED
  BY <1>6, <1>7

-----------------------------------------------------------------------------
(* While findMulti() runs, every index is the longest match, and no target *)
(* was complete with any character read so far; a target is not empty.     *)
NotYet(past) == \A n \in 0..Len(past), t \in DOMAIN targets :
    ~EndsAt(past, n, targets[t], Len(targets[t]))

FindInv ==
    doing = "find" =>
        /\ Len(targets) \in 1..2
        /\ \A t \in DOMAIN targets : IsLongest(seen, targets[t], index[t])
        /\ NotYet(seen)

(* A reading method has placed all it consumed but what it lost, and has   *)
(* room left.                                                              *)
ReadInv ==
    doing = "read" =>
        /\ Len(seen) = Len(buffer) + lost /\ Len(buffer) < length
        /\ lost = 0 => seen = buffer
        /\ lost # 0 => length = Unlimited
        /\ \A i \in 1..Len(buffer) : buffer[i] # until
        /\ \A i \in 1..Len(seen) : seen[i] # until

TextInv == TextTypeOK /\ FindInv /\ ReadInv

LEMMA TargetsAreTexts ==
    ASSUME TextTypeOK, NEW t \in DOMAIN targets
    PROVE  targets[t] \in Seq(Chars) /\ Len(targets[t]) \in Nat
<1>1. targets[t] \in Targets
  BY ElementOfSeq, LenProperties DEF TextTypeOK
<1> QED
  BY <1>1, StreamAssumption, LenProperties

LEMMA TextInitInv == TextInit => TextInv
<1> SUFFICES ASSUME TextInit PROVE TextInv
  OBVIOUS
<1>1. arrivals \in 0..MaxArrivals
  BY StreamAssumption DEF TextInit
<1>2. /\ <<>> \in Seq(Chars) /\ <<>> \in Seq(Targets)
  BY EmptySeq
<1> QED
  BY <1>1, <1>2 DEF TextInit, TextInv, TextTypeOK, FindInv, ReadInv

(* What FindChar does to the indices and the matches. *)
LEMMA FindCharMatches ==
    ASSUME TextInv, FindChar
    PROVE  LET next == [t \in DOMAIN targets |-> Stepped(targets[t], index[t], Head(waiting))]
           IN  /\ Head(waiting) \in Chars /\ seen' \in Seq(Chars)
               /\ Len(seen') = Len(seen) + 1
               /\ \A n \in 0..Len(seen), t \in DOMAIN targets :
                      ~EndsAt(seen', n, targets[t], Len(targets[t]))
               /\ \A t \in DOMAIN targets :
                      /\ IsLongest(seen', targets[t], next[t])
                      /\ next[t] = Len(targets[t])
                             <=> EndsAt(seen', Len(seen'), targets[t], Len(targets[t]))
<1> DEFINE ch == Head(waiting)
           next == [t \in DOMAIN targets |-> Stepped(targets[t], index[t], ch)]
<1>1. /\ TextTypeOK /\ doing = "find" /\ waiting # <<>> /\ seen' = Append(seen, ch)
      /\ \A t \in DOMAIN targets : IsLongest(seen, targets[t], index[t])
      /\ NotYet(seen)
  BY DEF TextInv, FindInv, FindChar
<1>2. ch \in Chars /\ seen \in Seq(Chars) /\ Len(seen) \in Nat
  BY <1>1, HeadTailProperties, LenProperties DEF TextTypeOK
<1>3. /\ seen' \in Seq(Chars) /\ Len(seen') = Len(seen) + 1
      /\ \A i \in 1..Len(seen) : seen'[i] = seen[i]
  BY <1>1, <1>2, AppendProperties
<1> HIDE DEF ch
<1>4. ASSUME NEW n \in 0..Len(seen), NEW t \in DOMAIN targets
      PROVE  ~EndsAt(seen', n, targets[t], Len(targets[t]))
  <2> DEFINE k == Len(targets[t])
  <2>1. k \in Nat
    BY <1>1, TargetsAreTexts
  <2> HIDE DEF k
  <2>2. ASSUME k <= n, NEW m \in 1..k
        PROVE  seen'[n - k + m] = seen[n - k + m]
    <3>1. n - k + m \in 1..Len(seen)
      BY <1>2, <2>1, <2>2
    <3> QED
      BY <1>3, <3>1
  <2>3. ~EndsAt(seen, n, targets[t], k)
    BY <1>1 DEF NotYet, k
  <2>4. ~EndsAt(seen', n, targets[t], k)
    BY <2>2, <2>3 DEF EndsAt
  <2> QED
    BY <2>4 DEF k
<1>5. ASSUME NEW t \in DOMAIN targets
      PROVE  /\ IsLongest(seen', targets[t], next[t])
             /\ next[t] = Len(targets[t])
                    <=> EndsAt(seen', Len(seen'), targets[t], Len(targets[t]))
  <2>1. targets[t] \in Seq(Chars) /\ Len(targets[t]) \in Nat
    BY <1>1, TargetsAreTexts
  <2>2. IsLongest(seen, targets[t], index[t]) /\ index[t] \in 0..Len(targets[t])
    BY <1>1 DEF IsLongest
  <2>3. index[t] # Len(targets[t])
    <3>1. ~EndsAt(seen, Len(seen), targets[t], Len(targets[t]))
      <4>1. Len(seen) \in 0..Len(seen)
        BY <1>2
      <4> QED
        BY <1>1, <4>1 DEF NotYet
    <3> QED
      BY <2>2, <3>1 DEF IsLongest
  <2>4. index[t] < Len(targets[t])
    BY <2>1, <2>2, <2>3
  <2>5. IsLongest(Append(seen, ch), targets[t], Stepped(targets[t], index[t], ch))
    BY <1>2, <2>1, <2>2, <2>4, SteppedIs
  <2>6. IsLongest(seen', targets[t], next[t])
    BY <1>1, <2>5
  <2> HIDE DEF next
  <2>7. next[t] = Len(targets[t])
            <=> EndsAt(seen', Len(seen'), targets[t], Len(targets[t]))
    <3>1. Len(targets[t]) \in 0..Len(targets[t])
      BY <2>1
    <3>2. /\ next[t] \in 0..Len(targets[t])
          /\ EndsAt(seen', Len(seen'), targets[t], next[t])
          /\ EndsAt(seen', Len(seen'), targets[t], Len(targets[t])) => Len(targets[t]) <= next[t]
      BY <2>6, <3>1 DEF IsLongest
    <3>3. next[t] <= Len(targets[t]) /\ next[t] \in Nat
      BY <2>1, <3>2
    <3> QED
      BY <2>1, <3>2, <3>3
  <2> QED
    BY <2>6, <2>7
<1> QED
  BY <1>2, <1>3, <1>4, <1>5 DEF ch

LEMMA FindCharKeepsTextInv == TextInv /\ FindChar => TextInv'
<1> SUFFICES ASSUME TextInv, FindChar PROVE TextInv'
  OBVIOUS
<1> DEFINE ch == Head(waiting)
           next == [t \in DOMAIN targets |-> Stepped(targets[t], index[t], ch)]
           found == {t \in DOMAIN targets : next[t] = Len(targets[t])}
<1>1. TextTypeOK /\ doing = "find" /\ waiting # <<>> /\ Len(targets) \in 1..2
  BY DEF TextInv, FindInv, FindChar
<1>2. /\ seen' \in Seq(Chars) /\ Len(seen') = Len(seen) + 1 /\ Len(seen) \in Nat
      /\ waiting' \in Seq(Chars)
      /\ UNCHANGED <<until, length, buffer, lost, arrivals>>
  <2>1. waiting' \in Seq(Chars)
    BY <1>1, HeadTailProperties DEF TextTypeOK, FindChar
  <2> QED
    BY <1>1, <2>1, FindCharMatches, LenProperties DEF FindChar, TextTypeOK
<1>3. CASE found = {}
  <2>1. index' = next /\ UNCHANGED <<doing, targets, result>>
    BY <1>3 DEF FindChar
  <2>2. ASSUME NEW t \in DOMAIN targets
        PROVE  /\ IsLongest(seen', targets[t], next[t]) /\ next[t] \in 0..Len(targets[t])
               /\ ~EndsAt(seen', Len(seen'), targets[t], Len(targets[t]))
    <3>1. IsLongest(seen', targets[t], next[t])
      BY FindCharMatches
    <3>2. next[t] # Len(targets[t])
      BY <1>3
    <3>3. ~EndsAt(seen', Len(seen'), targets[t], Len(targets[t]))
      BY <3>2, FindCharMatches
    <3> HIDE DEF next
    <3> QED
      BY <3>1, <3>3 DEF IsLongest
  <2>3. DOMAIN next = DOMAIN targets
    OBVIOUS
  <2> HIDE DEF next
  <2>4. \A n \in 0..Len(seen'), t \in DOMAIN targets :
            ~EndsAt(seen', n, targets[t], Len(targets[t]))
    <3>1. \A n \in 0..Len(seen') : n \in 0..Len(seen) \/ n = Len(seen')
      BY <1>2
    <3>2. \A n \in 0..Len(seen), t \in DOMAIN targets :
              ~EndsAt(seen', n, targets[t], Len(targets[t]))
      BY FindCharMatches
    <3> QED
      BY <2>2, <3>1, <3>2
  <2>5. FindInv'
    BY <1>1, <2>1, <2>2, <2>4 DEF FindInv, NotYet
  <2>6. TextTypeOK'
    BY <1>1, <1>2, <2>1, <2>2, <2>3 DEF TextTypeOK
  <2> QED
    BY <1>1, <2>1, <2>5, <2>6 DEF TextInv, ReadInv
<1>4. CASE found # {}
  <2>1. doing' = "idle" /\ result' = Min(found) - 1 /\ targets' = <<>> /\ index' = <<>>
    BY <1>4 DEF FindChar
  <2>2. Min(found) \in 1..2
    <3>1. found \subseteq 1..2
      <4>1. DOMAIN targets = 1..Len(targets)
        BY <1>1, LenProperties DEF TextTypeOK
      <4> QED
        BY <1>1, <4>1
    <3> HIDE DEF found
    <3>2. found \subseteq Nat /\ found \subseteq Int
      BY <3>1
    <3>3. PICK m \in found : \A k \in found : m <= k
      BY <1>4, <3>2, LeastNat
    <3>4. Min(found) = m
      BY <3>2, <3>3, MinIs
    <3> QED
      BY <3>1, <3>3, <3>4
  <2> HIDE DEF found
  <2>3. result' \in -1..1
    BY <2>1, <2>2
  <2>4. TextTypeOK'
    <3>1. <<>> \in Seq(Targets)
      BY EmptySeq
    <3> QED
      BY <1>1, <1>2, <2>1, <2>3, <3>1 DEF TextTypeOK
  <2> QED
    BY <2>1, <2>4 DEF TextInv, FindInv, ReadInv
<1> QED
  BY <1>3, <1>4

LEMMA findMultiKeepsTextInv ==
    ASSUME TextInv, NEW ts \in Seq(Targets), Len(ts) \in 1..2, findMulti(ts)
    PROVE  TextInv'
<1> DEFINE empty == {t \in DOMAIN ts : ts[t] = <<>>}
<1>1. /\ TextTypeOK /\ doing = "idle" /\ seen' = <<>> /\ buffer' = <<>> /\ lost' = 0
      /\ UNCHANGED <<waiting, until, length, arrivals>>
  BY DEF TextInv, findMulti
<1>2. <<>> \in Seq(Chars) /\ DOMAIN ts = 1..Len(ts) /\ Len(<<>>) = 0
  BY EmptySeq, LenProperties
<1>3. CASE empty = {}
  <2>1. doing' = "find" /\ result' = -1 /\ targets' = ts /\ index' = [t \in DOMAIN ts |-> 0]
    BY <1>3 DEF findMulti
  <2>2. ASSUME NEW t \in DOMAIN ts
        PROVE  ts[t] \in Seq(Chars) /\ Len(ts[t]) \in Nat \ {0} /\ IsLongest(<<>>, ts[t], 0)
    <3>1. ts[t] \in Seq(Chars) /\ ts[t] # <<>>
      <4>1. ts[t] \in Targets
        BY <1>2, ElementOfSeq
      <4> QED
        BY <1>3, <4>1, StreamAssumption
    <3> QED
      BY <3>1, EmptySeq, NothingMatched
  <2>3. NotYet(<<>>)'
    <3>1. ASSUME NEW t \in DOMAIN ts PROVE ~EndsAt(<<>>, 0, ts[t], Len(ts[t]))
      BY <2>2 DEF EndsAt
    <3> QED
      BY <1>2, <2>1, <3>1 DEF NotYet
  <2>4. FindInv'
    BY <1>1, <2>1, <2>2, <2>3 DEF FindInv, NotYet
  <2>5. TextTypeOK'
    BY <1>1, <1>2, <2>1, <2>2 DEF TextTypeOK
  <2> QED
    BY <2>1, <2>4, <2>5 DEF TextInv, ReadInv
<1>4. CASE empty # {}
  <2>1. result' = Min(empty) - 1 /\ UNCHANGED <<doing, targets, index>>
    BY <1>4 DEF findMulti
  <2>2. Min(empty) \in 1..2
    <3>1. empty \subseteq 1..2
      BY <1>2
    <3> HIDE DEF empty
    <3>2. empty \subseteq Nat /\ empty \subseteq Int
      BY <3>1
    <3>3. PICK m \in empty : \A k \in empty : m <= k
      BY <1>4, <3>2, LeastNat
    <3>4. Min(empty) = m
      BY <3>2, <3>3, MinIs
    <3> QED
      BY <3>1, <3>3, <3>4
  <2> HIDE DEF empty
  <2>3. result' \in -1..1
    BY <2>1, <2>2
  <2>4. TextTypeOK'
    BY <1>1, <1>2, <2>1, <2>3 DEF TextTypeOK
  <2> QED
    BY <1>1, <2>1, <2>4 DEF TextInv, FindInv, ReadInv
<1> QED
  BY <1>3, <1>4

(* What a reading method has consumed grows by a character that does not   *)
(* end it.                                                                 *)
LEMMA Grown ==
    ASSUME NEW w \in Seq(Chars), NEW ch \in Chars, ch # until,
           \A i \in 1..Len(w) : w[i] # until
    PROVE  /\ Append(w, ch) \in Seq(Chars) /\ Len(Append(w, ch)) = Len(w) + 1
           /\ \A i \in 1..Len(Append(w, ch)) : Append(w, ch)[i] # until
<1>1. Len(w) \in Nat
  BY LenProperties
<1>2. /\ Append(w, ch) \in Seq(Chars) /\ Len(Append(w, ch)) = Len(w) + 1
      /\ \A i \in 1..Len(w) : Append(w, ch)[i] = w[i]
      /\ Append(w, ch)[Len(w) + 1] = ch
  BY AppendProperties
<1>3. \A i \in 1..(Len(w) + 1) : i \in 1..Len(w) \/ i = Len(w) + 1
  BY <1>1
<1> QED
  BY <1>2, <1>3

LEMMA ReadCharKeepsTextInv == TextInv /\ ReadChar => TextInv'
<1> SUFFICES ASSUME TextInv, ReadChar PROVE TextInv'
  OBVIOUS
<1> DEFINE ch == Head(waiting)
<1>1. /\ TextTypeOK /\ doing = "read" /\ waiting # <<>>
      /\ Len(seen) = Len(buffer) + lost /\ Len(buffer) < length
      /\ lost = 0 => seen = buffer
      /\ lost # 0 => length = Unlimited
      /\ \A i \in 1..Len(buffer) : buffer[i] # until
      /\ \A i \in 1..Len(seen) : seen[i] # until
      /\ UNCHANGED <<targets, index, until, length, result, lost, arrivals>>
  BY DEF TextInv, ReadInv, ReadChar
<1>2. /\ ch \in Chars /\ waiting' \in Seq(Chars) /\ buffer \in Seq(Chars) /\ seen \in Seq(Chars)
      /\ lost \in Nat /\ length \in Nat /\ Len(buffer) \in Nat
  BY <1>1, HeadTailProperties, LenProperties, StreamAssumption DEF TextTypeOK, ReadChar
<1>3. /\ seen' = Append(seen, ch)
      /\ buffer' = IF ch = until THEN buffer ELSE Append(buffer, ch)
      /\ doing' = IF ch = until \/ Len(buffer) + 1 = length THEN "idle" ELSE "read"
  BY <1>1 DEF ReadChar, AtEnd
<1> HIDE DEF ch
<1>4. TextTypeOK'
  BY <1>1, <1>2, <1>3, AppendProperties DEF TextTypeOK
<1>5. ReadInv'
  <2> SUFFICES ASSUME doing' = "read" PROVE ReadInv'
    BY DEF ReadInv
  <2>1. ch # until /\ Len(buffer) + 1 # length /\ buffer' = Append(buffer, ch)
    BY <1>3
  <2>2. /\ Len(buffer') = Len(buffer) + 1 /\ Len(seen') = Len(seen) + 1
        /\ \A i \in 1..Len(buffer') : buffer'[i] # until'
        /\ \A i \in 1..Len(seen') : seen'[i] # until'
    <3>1. /\ Len(Append(buffer, ch)) = Len(buffer) + 1
          /\ \A i \in 1..Len(Append(buffer, ch)) : Append(buffer, ch)[i] # until
      BY <1>1, <1>2, <2>1, Grown
    <3>2. /\ Len(Append(seen, ch)) = Len(seen) + 1
          /\ \A i \in 1..Len(Append(seen, ch)) : Append(seen, ch)[i] # until
      BY <1>1, <1>2, <2>1, Grown
    <3>3. until' = until /\ buffer' = Append(buffer, ch) /\ seen' = Append(seen, ch)
      BY <1>1, <1>3, <2>1
    <3> QED
      BY <3>1, <3>2, <3>3
  <2>3. Len(buffer') < length' /\ Len(seen') = Len(buffer') + lost'
    <3>1. /\ Len(seen) = Len(buffer) + lost /\ Len(buffer) < length
          /\ lost' = lost /\ length' = length
      BY <1>1
    <3>2. Len(buffer) + 1 # length /\ Len(buffer') = Len(buffer) + 1 /\ Len(seen') = Len(seen) + 1
      BY <2>1, <2>2
    <3>3. lost \in Nat /\ length \in Nat /\ Len(buffer) \in Nat
      BY <1>2
    <3> QED
      BY <3>1, <3>2, <3>3
  <2>4. lost' = 0 => seen' = buffer'
    BY <1>1, <1>3, <2>1
  <2> QED
    BY <1>1, <2>2, <2>3, <2>4 DEF ReadInv
<1>6. FindInv'
  BY <1>3 DEF FindInv
<1> QED
  BY <1>4, <1>5, <1>6 DEF TextInv

LEMMA LoseCharKeepsTextInv == TextInv /\ LoseChar => TextInv'
<1> SUFFICES ASSUME TextInv, LoseChar PROVE TextInv'
  OBVIOUS
<1> DEFINE ch == Head(waiting)
<1>1. /\ TextTypeOK /\ doing = "read" /\ waiting # <<>> /\ length = Unlimited
      /\ Len(seen) = Len(buffer) + lost /\ Len(buffer) < length
      /\ \A i \in 1..Len(buffer) : buffer[i] # until
      /\ \A i \in 1..Len(seen) : seen[i] # until
      /\ ch # until /\ seen' = Append(seen, ch) /\ lost' = lost + 1
      /\ UNCHANGED <<doing, targets, index, until, length, buffer, result, arrivals>>
  BY DEF TextInv, ReadInv, LoseChar, AtEnd
<1>2. /\ ch \in Chars /\ waiting' \in Seq(Chars) /\ seen \in Seq(Chars)
      /\ lost \in Nat /\ Len(buffer) \in Nat
  BY <1>1, HeadTailProperties, LenProperties DEF TextTypeOK, LoseChar
<1> HIDE DEF ch
<1>3. /\ seen' \in Seq(Chars) /\ Len(seen') = Len(seen) + 1
      /\ \A i \in 1..Len(seen') : seen'[i] # until
  BY <1>1, <1>2, Grown
<1>4. TextTypeOK'
  BY <1>1, <1>2, <1>3 DEF TextTypeOK
<1>5. Len(seen') = Len(buffer') + lost' /\ lost' # 0
  BY <1>1, <1>2, <1>3
<1>6. ReadInv' /\ FindInv'
  BY <1>1, <1>3, <1>5 DEF ReadInv, FindInv
<1> QED
  BY <1>4, <1>6 DEF TextInv

LEMMA TextNextInv == TextInv /\ [TextNext]_textVars => TextInv'
<1> SUFFICES ASSUME TextInv, [TextNext]_textVars PROVE TextInv'
  OBVIOUS
<1>1. ASSUME NEW ch \in Chars, Arrive(ch) PROVE TextInv'
  <2>1. waiting' \in Seq(Chars) /\ arrivals' \in 0..MaxArrivals
    BY <1>1, AppendProperties, StreamAssumption DEF TextInv, TextTypeOK, Arrive
  <2> QED
    BY <1>1, <2>1 DEF TextInv, TextTypeOK, FindInv, NotYet, ReadInv, Arrive
<1>2. ASSUME NEW t \in Targets, findMulti(<<t>>) PROVE TextInv'
  <2>1. <<t>> \in Seq(Targets) /\ Len(<<t>>) \in 1..2
    OBVIOUS
  <2> QED
    BY <1>2, <2>1, findMultiKeepsTextInv
<1>3. ASSUME NEW t \in Targets, NEW end \in Targets, findMulti(<<t, end>>) PROVE TextInv'
  <2>1. <<t, end>> \in Seq(Targets) /\ Len(<<t, end>>) \in 1..2
    OBVIOUS
  <2> QED
    BY <1>3, <2>1, findMultiKeepsTextInv
<1>4. ASSUME NEW ch \in Terminators, NEW n \in Lengths \cup {Unlimited}, ReadCall(ch, n)
      PROVE  TextInv'
  <2>1. n \in Nat /\ <<>> \in Seq(Chars) /\ Len(<<>>) = 0 /\ DOMAIN <<>> = {}
    BY StreamAssumption, EmptySeq
  <2>2. TextTypeOK'
    BY <1>4, <2>1 DEF ReadCall, TextInv, TextTypeOK
  <2> QED
    BY <1>4, <2>1, <2>2 DEF ReadCall, TextInv, FindInv, ReadInv
<1>5. CASE FindTimeout
  <2>1. <<>> \in Seq(Targets)
    BY EmptySeq
  <2> QED
    BY <1>5, <2>1 DEF FindTimeout, TextInv, TextTypeOK, FindInv, ReadInv
<1>6. CASE ReadTimeout
  BY <1>6 DEF ReadTimeout, TextInv, TextTypeOK, FindInv, ReadInv
<1>7. CASE UNCHANGED textVars
  BY <1>7 DEF textVars, TextInv, TextTypeOK, FindInv, NotYet, ReadInv
<1> QED
  BY <1>1, <1>2, <1>3, <1>4, <1>5, <1>6, <1>7, FindCharKeepsTextInv, ReadCharKeepsTextInv,
     LoseCharKeepsTextInv DEF TextNext

-----------------------------------------------------------------------------
(* Every variable of the searching and reading methods keeps its type: no  *)
(* index leaves its target.                                                *)
THEOREM TextTypes == TextSpec => []TextTypeOK
<1>1. TextInv => TextTypeOK
  BY DEF TextInv
<1> QED
  BY <1>1, TextInitInv, TextNextInv, PTL DEF TextSpec

LEMMA TextInvIsLongestMatch == TextInv => LongestMatch
<1> SUFFICES ASSUME TextInv, doing = "find", NEW t \in DOMAIN targets
             PROVE  index[t] = Max({Len(h) : h \in {g \in Heads(targets[t]) : EndsWith(seen, g)}})
  BY DEF LongestMatch
<1>1. targets[t] \in Seq(Chars) /\ seen \in Seq(Chars) /\ IsLongest(seen, targets[t], index[t])
  BY TargetsAreTexts DEF TextInv, TextTypeOK, FindInv
<1> QED
  BY <1>1, LongestIs

LEMMA CompleteIs ==
    ASSUME NEW past \in Seq(Chars), NEW n \in 0..Len(past), NEW s \in Seq(Chars)
    PROVE  EndsWith(SubSeq(past, 1, n), s) <=> EndsAt(past, n, s, Len(s))
<1>1. SubSeq(s, 1, Len(s)) = s /\ Len(s) \in 0..Len(s)
  BY SubSeqFull, LenProperties
<1>2. EndsWith(SubSeq(past, 1, n), SubSeq(s, 1, Len(s))) <=> EndsAt(past, n, s, Len(s))
  BY <1>1, EndsWithIs
<1> QED
  BY <1>1, <1>2

(* The step that ends a search.  What was read before it completed no      *)
(* target.                                                                 *)
LEMMA EndOfSearch ==
    ASSUME TextInv, FindChar \/ FindTimeout, doing' = "idle"
    PROVE  LET Complete(past) == {t \in DOMAIN targets : EndsWith(past, targets[t])}
           IN  /\ \A h \in Heads(seen') \ {seen'} : Complete(h) = {}
               /\ IF result' = -1 THEN Complete(seen') = {} ELSE result' + 1 = Min(Complete(seen'))
<1> DEFINE Complete(past) == {t \in DOMAIN targets : EndsWith(past, targets[t])}
<1>1. TextTypeOK /\ doing = "find" /\ NotYet(seen)
  BY DEF TextInv, FindInv, FindChar, FindTimeout
<1>2. /\ seen' \in Seq(Chars) /\ Len(seen') \in Nat /\ SubSeq(seen', 1, Len(seen')) = seen'
      /\ seen \in Seq(Chars) /\ Len(seen) \in Nat
  BY TextNextInv, SubSeqFull, LenProperties DEF TextInv, TextTypeOK, TextNext
<1>3. ASSUME NEW n \in 0..Len(seen'), NEW t \in DOMAIN targets
      PROVE  EndsWith(SubSeq(seen', 1, n), targets[t]) <=> EndsAt(seen', n, targets[t], Len(targets[t]))
  <2>1. targets[t] \in Seq(Chars)
    BY <1>1, TargetsAreTexts
  <2> QED
    BY <1>2, <2>1, CompleteIs
<1>4. ASSUME NEW t \in DOMAIN targets
      PROVE  EndsWith(seen', targets[t]) <=> EndsAt(seen', Len(seen'), targets[t], Len(targets[t]))
  <2>1. Len(seen') \in 0..Len(seen')
    BY <1>2
  <2>2. EndsWith(SubSeq(seen', 1, Len(seen')), targets[t])
            <=> EndsAt(seen', Len(seen'), targets[t], Len(targets[t]))
    BY <1>3, <2>1
  <2> QED
    BY <1>2, <2>2
<1>5. \A h \in Heads(seen') \ {seen'} :
          \E n \in 0..Len(seen') : n # Len(seen') /\ h = SubSeq(seen', 1, n)
  BY <1>2 DEF Heads
<1>6. ASSUME \A n \in 0..Len(seen'), t \in DOMAIN targets :
                 n # Len(seen') => ~EndsAt(seen', n, targets[t], Len(targets[t]))
      PROVE  \A h \in Heads(seen') \ {seen'} : Complete(h) = {}
  <2> SUFFICES ASSUME NEW h \in Heads(seen') \ {seen'}, NEW t \in DOMAIN targets
               PROVE  ~EndsWith(h, targets[t])
    OBVIOUS
  <2>1. PICK n \in 0..Len(seen') : n # Len(seen') /\ h = SubSeq(seen', 1, n)
    BY <1>5
  <2> QED
    BY <1>3, <1>6, <2>1
<1>7. CASE FindTimeout
  <2>1. seen' = seen /\ result' = -1
    BY <1>7 DEF FindTimeout
  <2>2. \A n \in 0..Len(seen'), t \in DOMAIN targets :
            ~EndsAt(seen', n, targets[t], Len(targets[t]))
    BY <1>1, <2>1 DEF NotYet
  <2>3. Complete(seen') = {}
    <3>1. Len(seen') \in 0..Len(seen')
      BY <1>2
    <3> QED
      BY <1>4, <2>2, <3>1
  <2> QED
    BY <1>6, <2>1, <2>2, <2>3
<1>8. CASE FindChar
  <2> DEFINE next == [t \in DOMAIN targets |-> Stepped(targets[t], index[t], Head(waiting))]
             found == {t \in DOMAIN targets : next[t] = Len(targets[t])}
  <2>1. found # {}
    <3>1. found = {} => doing' = doing
      BY <1>8 DEF FindChar
    <3> QED
      BY <1>1, <3>1
  <2>2. result' = Min(found) - 1
    BY <1>8, <2>1 DEF FindChar
  <2>3. \A t \in DOMAIN targets :
            t \in found <=> EndsAt(seen', Len(seen'), targets[t], Len(targets[t]))
    BY <1>8, FindCharMatches
  <2>4. found \subseteq Nat \ {0}
    <3>1. DOMAIN targets = 1..Len(targets)
      BY <1>1, LenProperties DEF TextTypeOK
    <3> QED
      BY <3>1
  <2>5. \A n \in 0..Len(seen'), t \in DOMAIN targets :
            n # Len(seen') => ~EndsAt(seen', n, targets[t], Len(targets[t]))
    <3>1. Len(seen') = Len(seen) + 1
      BY <1>8, FindCharMatches
    <3>2. \A n \in 0..Len(seen), t \in DOMAIN targets :
              ~EndsAt(seen', n, targets[t], Len(targets[t]))
      BY <1>8, FindCharMatches
    <3>3. \A n \in 0..Len(seen') : n # Len(seen') => n \in 0..Len(seen)
      BY <1>2, <3>1
    <3> QED
      BY <3>2, <3>3
  <2>6. found \subseteq DOMAIN targets
    OBVIOUS
  <2> HIDE DEF found
  <2>7. found = Complete(seen')
    BY <1>4, <2>3, <2>6
  <2>8. Min(found) \in Nat \ {0}
    <3>1. found \subseteq Nat /\ found \subseteq Int
      BY <2>4
    <3>2. PICK m \in found : \A k \in found : m <= k
      BY <2>1, <3>1, LeastNat
    <3>3. Min(found) = m
      BY <3>1, <3>2, MinIs
    <3> QED
      BY <2>4, <3>2, <3>3
  <2>9. result' # -1 /\ result' + 1 = Min(Complete(seen'))
    BY <2>2, <2>7, <2>8
  <2> QED
    BY <1>6, <2>5, <2>9
<1> QED
  BY <1>7, <1>8

(* The step that ends a reading method. *)
LEMMA EndOfReading ==
    ASSUME TextInv, ReadChar \/ ReadTimeout, doing = "read", doing' = "idle"
    PROVE  /\ \A i \in DOMAIN buffer' : buffer'[i] # until
           /\ \A i \in 1..(Len(seen') - 1) : seen'[i] # until
           /\ Len(buffer') <= length
           /\ \/ Spare' = 1 /\ seen'[Len(seen')] = until
              \/ Spare' = 0 /\ (Len(buffer') < length => waiting = <<>>)
           /\ lost' = 0 => seen' = buffer' \/ seen' = Append(buffer', until)
           /\ lost' # 0 => length = Unlimited
<1>1. /\ TextTypeOK
      /\ Len(seen) = Len(buffer) + lost /\ Len(buffer) < length
      /\ lost = 0 => seen = buffer
      /\ lost # 0 => length = Unlimited
      /\ \A i \in 1..Len(buffer) : buffer[i] # until
      /\ \A i \in 1..Len(seen) : seen[i] # until
  BY DEF TextInv, ReadInv
<1>2. /\ Len(buffer) \in Nat /\ DOMAIN buffer = 1..Len(buffer) /\ length \in Nat
      /\ Len(seen) \in Nat /\ lost \in Nat /\ buffer \in Seq(Chars) /\ seen \in Seq(Chars)
  BY <1>1, LenProperties, StreamAssumption DEF TextTypeOK
<1>3. CASE ReadTimeout
  <2>1. waiting = <<>> /\ UNCHANGED <<buffer, seen, lost>>
    BY <1>3 DEF ReadTimeout
  <2>2. Spare' = 0
    BY <1>1, <1>2, <2>1 DEF Spare
  <2>3. \A i \in 1..(Len(seen') - 1) : seen'[i] # until
    BY <1>1, <1>2, <2>1
  <2> QED
    BY <1>1, <1>2, <2>1, <2>2, <2>3
<1>4. CASE ReadChar
  <2> DEFINE ch == Head(waiting)
  <2>1. /\ waiting # <<>> /\ seen' = Append(seen, ch) /\ lost' = lost
        /\ buffer' = IF ch = until THEN buffer ELSE Append(buffer, ch)
        /\ ch = until \/ Len(buffer) + 1 = length
    BY <1>4 DEF ReadChar, AtEnd
  <2>2. ch \in Chars
    BY <1>1, <2>1, HeadTailProperties DEF TextTypeOK
  <2> HIDE DEF ch
  <2>3. /\ seen' \in Seq(Chars) /\ Len(seen') = Len(seen) + 1
        /\ \A i \in 1..Len(seen) : seen'[i] = seen[i]
        /\ seen'[Len(seen')] = ch
    BY <1>2, <2>1, <2>2, AppendProperties
  <2>4. \A i \in 1..(Len(seen') - 1) : seen'[i] # until
    BY <1>1, <1>2, <2>3
  <2>5. CASE ch = until
    <3>1. buffer' = buffer /\ (lost' = 0 => seen' = Append(buffer', until))
      BY <1>1, <2>1, <2>5
    <3>2. Spare' = 1
      <4>1. Len(seen) = Len(buffer) + lost /\ lost' = lost
        BY <1>1, <2>1
      <4>2. Len(seen') = Len(seen) + 1 /\ Len(buffer') = Len(buffer)
        BY <2>3, <3>1
      <4>3. Len(buffer) \in Nat /\ lost \in Nat
        BY <1>2
      <4> QED
        BY <4>1, <4>2, <4>3 DEF Spare
    <3>3. (\A i \in DOMAIN buffer' : buffer'[i] # until) /\ Len(buffer') <= length
      BY <1>1, <1>2, <3>1
    <3> QED
      BY <1>1, <2>1, <2>3, <2>4, <2>5, <3>1, <3>2, <3>3, Zenon
  <2>6. CASE ch # until
    <3>1. buffer' = Append(buffer, ch) /\ Len(buffer) + 1 = length
      BY <2>1, <2>6
    <3>2. /\ buffer' \in Seq(Chars) /\ Len(buffer') = Len(buffer) + 1
          /\ \A i \in 1..Len(buffer') : buffer'[i] # until
      BY <1>1, <1>2, <2>2, <2>6, <3>1, Grown
    <3>3. DOMAIN buffer' = 1..Len(buffer')
      BY <3>2, LenProperties
    <3>4. Spare' = 0 /\ Len(buffer') = length
      <4>1. Len(seen) = Len(buffer) + lost /\ lost' = lost
        BY <1>1, <2>1
      <4>2. Len(seen') = Len(seen) + 1 /\ Len(buffer') = Len(buffer) + 1 /\ Len(buffer) + 1 = length
        BY <2>3, <3>1, <3>2
      <4>3. Len(buffer) \in Nat /\ lost \in Nat
        BY <1>2
      <4> QED
        BY <4>1, <4>2, <4>3 DEF Spare
    <3>5. lost' = 0 => seen' = buffer'
      BY <1>1, <2>1, <3>1
    <3>6. ~(Len(buffer') < length) /\ Len(buffer') <= length
      BY <1>2, <3>4
    <3>7. \A i \in DOMAIN buffer' : buffer'[i] # until
      BY <3>2, <3>3
    <3>8. lost' # 0 => length = Unlimited
      BY <1>1, <2>1
    <3> QED
      BY <2>4, <3>4, <3>5, <3>6, <3>7, <3>8, Zenon
  <2> QED
    BY <2>5, <2>6
<1> QED
  BY <1>3, <1>4

(* findMulti() of Stream keeps every match that is under way and stops at  *)
(* the first complete one, for any targets and any text; a reading method  *)
(* consumes exactly what it places, at most the terminator besides, and    *)
(* what its String finds no memory for.                                    *)
THEOREM TextIsExact == TextSpec => TextExact
<1> DEFINE Searched ==
        doing = "find" /\ doing' = "idle" =>
            LET Complete(past) == {t \in DOMAIN targets : EndsWith(past, targets[t])} IN
            /\ \A h \in Heads(seen') \ {seen'} : Complete(h) = {}
            /\ IF result' = -1 THEN Complete(seen') = {} ELSE result' + 1 = Min(Complete(seen'))
           HasRead ==
        doing = "read" /\ doing' = "idle" =>
            /\ \A i \in DOMAIN buffer' : buffer'[i] # until
            /\ \A i \in 1..(Len(seen') - 1) : seen'[i] # until
            /\ Len(buffer') <= length
            /\ \/ Spare' = 1 /\ seen'[Len(seen')] = until
               \/ Spare' = 0 /\ (Len(buffer') < length => waiting = <<>>)
            /\ lost' = 0 => seen' = buffer' \/ seen' = Append(buffer', until)
            /\ lost' # 0 => length = Unlimited
<1>1. TextInv' => LongestMatch'
  BY TextInvIsLongestMatch, PTL
<1>2. TextInv /\ [TextNext]_textVars => [Searched]_textVars
  <2> SUFFICES ASSUME TextInv, TextNext, doing = "find", doing' = "idle"
               PROVE  Searched
    OBVIOUS
  <2>1. FindChar \/ FindTimeout
    BY DEF TextNext, Arrive, findMulti, ReadCall, ReadChar, LoseChar, ReadTimeout
  <2> QED
    BY <2>1, EndOfSearch
<1>3. TextInv /\ [TextNext]_textVars => [HasRead]_textVars
  <2> SUFFICES ASSUME TextInv, TextNext, doing = "read", doing' = "idle"
               PROVE  HasRead
    OBVIOUS
  <2>1. ReadChar \/ ReadTimeout
    BY DEF TextNext, Arrive, findMulti, ReadCall, FindChar, FindTimeout, LoseChar
  <2> QED
    BY <2>1, EndOfReading
<1>4. FirstMatch <=> [][Searched]_textVars
  BY DEF FirstMatch
<1>5. ReadsExactly <=> [][HasRead]_textVars
  BY DEF ReadsExactly
<1> HIDE DEF Searched, HasRead
<1> QED
  BY <1>1, <1>2, <1>3, <1>4, <1>5, TextInitInv, TextNextInv, PTL DEF TextSpec, TextExact

-----------------------------------------------------------------------------
(* parseInt() and parseFloat(). *)

Chs == ParseChars \cup {Pause}

(* The value read so far, one character after the other. *)
Turn(f, i, k) ==
    IF k < i THEN 0
    ELSE IF input[k] \in Figures THEN f[k - 1] * 10 + Digit(input[k]) ELSE f[k - 1]

LEMMA ReadExists ==
    ASSUME NEW i \in Nat \ {0}, NEW m \in Nat
    PROVE  \E f : f = [k \in 0..m |-> Turn(f, i, k)]
<1> DEFINE IsRead(f, n) == f = [k \in 0..n |-> Turn(f, i, k)]
           S == {n \in Nat : ~ \E f : IsRead(f, n)}
<1>1. S = {}
  <2> SUFFICES ASSUME S # {} PROVE FALSE
    OBVIOUS
  <2>1. PICK n \in S : \A l \in S : n <= l
    <3> HIDE DEF S
    <3>1. S \subseteq Nat
      BY DEF S
    <3> QED
      BY <3>1, LeastNat
  <2>2. CASE n = 0
    <3> DEFINE f == [k \in 0..0 |-> 0]
    <3>1. \A k \in 0..0 : Turn(f, i, k) = 0
      BY DEF Turn
    <3>2. IsRead(f, 0)
      BY <3>1
    <3> QED
      BY <2>1, <2>2, <3>2
  <2>3. CASE n # 0
    <3>1. n - 1 \in Nat /\ n - 1 \notin S /\ n \in Nat
      BY <2>1, <2>3
    <3>2. PICK g : IsRead(g, n - 1)
      BY <3>1
    <3> DEFINE f == [k \in 0..n |-> IF k = n THEN Turn(g, i, n) ELSE g[k]]
    <3>3. ASSUME NEW k \in 0..n PROVE f[k] = Turn(f, i, k)
      <4>1. CASE k < i
        <5>1. Turn(f, i, k) = 0 /\ Turn(g, i, k) = 0
          BY <4>1 DEF Turn
        <5>2. k # n => g[k] = Turn(g, i, k)
          <6>1. k # n => k \in 0..(n - 1)
            BY <3>1
          <6> QED
            BY <3>2, <6>1
        <5> QED
          BY <5>1, <5>2
      <4>2. CASE ~(k < i)
        <5>1. k - 1 \in 0..(n - 1) /\ k - 1 \in 0..n /\ k - 1 # n
          BY <3>1, <4>2
        <5>2. f[k - 1] = g[k - 1]
          BY <5>1
        <5>3. Turn(f, i, k) = Turn(g, i, k)
          BY <5>2 DEF Turn
        <5>4. k # n => g[k] = Turn(g, i, k)
          <6>1. k # n => k \in 0..(n - 1)
            BY <3>1
          <6> QED
            BY <3>2, <6>1
        <5> QED
          BY <5>3, <5>4
      <4> QED
        BY <4>1, <4>2
    <3>4. f = [k \in 0..n |-> f[k]]
      OBVIOUS
    <3> HIDE DEF f
    <3>5. IsRead(f, n)
      BY <3>3, <3>4
    <3> QED
      BY <2>1, <3>5
  <2> QED
    BY <2>2, <2>3
<1>2. m \notin S
  BY <1>1
<1> QED
  BY <1>2

LEMMA MagnitudeIs ==
    ASSUME NEW i \in Nat \ {0}, Len(input) \in Nat, NEW j \in 0..Len(input)
    PROVE  /\ j < i => Magnitude(i, j) = 0
           /\ j >= i => Magnitude(i, j) =
                IF input[j] \in Figures THEN Magnitude(i, j - 1) * 10 + Digit(input[j])
                ELSE Magnitude(i, j - 1)
<1> DEFINE read == CHOOSE f : f = [k \in 0..Len(input) |-> Turn(f, i, k)]
<1>1. read = [k \in 0..Len(input) |-> Turn(read, i, k)]
  <2>1. \E f : f = [k \in 0..Len(input) |-> Turn(f, i, k)]
    BY ReadExists
  <2> QED
    BY <2>1
<1>2. \A k : Magnitude(i, k) = read[k]
  BY DEF Magnitude, Turn
<1> HIDE DEF read
<1>3. read[j] = Turn(read, i, j)
  BY <1>1
<1> QED
  BY <1>2, <1>3 DEF Turn

(* s is what is left of the input behind its first p characters. *)
StandsAt(s, p) ==
    /\ s \in Seq(Chs) /\ p \in 0..Len(input) /\ Len(s) = Len(input) - p
    /\ \A k \in 1..Len(s) : s[k] = input[p + k]

LEMMA StandsStep ==
    ASSUME input \in Seq(Chs), NEW s, NEW p, StandsAt(s, p), s # <<>>
    PROVE  /\ p + 1 \in 1..Len(input) /\ Head(s) = input[p + 1] /\ StandsAt(Tail(s), p + 1)
<1>1. /\ s \in Seq(Chs) /\ p \in 0..Len(input) /\ Len(s) = Len(input) - p
      /\ \A k \in 1..Len(s) : s[k] = input[p + k]
  BY DEF StandsAt
<1>2. Len(s) \in Nat \ {0} /\ Len(input) \in Nat
  BY <1>1, EmptySeq, LenProperties
<1>3. Head(s) = s[1]
  BY <1>1
<1>4. /\ Tail(s) \in Seq(Chs) /\ Len(Tail(s)) = Len(s) - 1
      /\ \A k \in 1..Len(Tail(s)) : Tail(s)[k] = s[k + 1]
  BY <1>1, HeadTailProperties
<1>5. ASSUME NEW k \in 1..Len(Tail(s)) PROVE Tail(s)[k] = input[p + 1 + k]
  <2>1. k + 1 \in 1..Len(s) /\ p + (k + 1) = p + 1 + k
    BY <1>1, <1>2, <1>4
  <2> QED
    BY <1>1, <1>4, <2>1
<1>6. 1 \in 1..Len(s) /\ p + 1 \in 1..Len(input)
  BY <1>1, <1>2
<1>7. Head(s) = input[p + 1]
  BY <1>1, <1>3, <1>6
<1>8. StandsAt(Tail(s), p + 1)
  <2>1. Len(Tail(s)) = Len(input) - (p + 1) /\ p + 1 \in 0..Len(input)
    BY <1>1, <1>2, <1>4, <1>6
  <2> QED
    BY <1>4, <1>5, <2>1 DEF StandsAt
<1> QED
  BY <1>6, <1>7, <1>8

LEMMA StandsIs ==
    ASSUME input \in Seq(Chs), NEW s, NEW p, StandsAt(s, p)
    PROVE  s = SubSeq(input, p + 1, Len(input))
<1>1. /\ s \in Seq(Chs) /\ p \in 0..Len(input) /\ Len(s) = Len(input) - p
      /\ \A k \in 1..Len(s) : s[k] = input[p + k]
  BY DEF StandsAt
<1>2. Len(input) \in Nat /\ \A k \in (p + 1)..Len(input) : input[k] \in Chs
  <2>1. Len(input) \in Nat
    BY LenProperties
  <2>2. \A k \in (p + 1)..Len(input) : k \in 1..Len(input)
    BY <1>1, <2>1
  <2> QED
    BY <2>1, <2>2, ElementOfSeq
<1> DEFINE t == SubSeq(input, p + 1, Len(input))
<1>3. /\ t \in Seq(Chs)
      /\ Len(t) = IF p + 1 <= Len(input) THEN Len(input) - (p + 1) + 1 ELSE 0
      /\ \A k \in 1..(Len(input) - (p + 1) + 1) : t[k] = input[p + 1 + k - 1]
  BY <1>1, <1>2, SubSeqProperties
<1> HIDE DEF t
<1>4. Len(t) = Len(s)
  BY <1>1, <1>2, <1>3
<1>5. ASSUME NEW k \in 1..Len(s) PROVE s[k] = t[k]
  <2>1. k \in 1..(Len(input) - (p + 1) + 1) /\ p + 1 + k - 1 = p + k
    BY <1>1, <1>2
  <2> QED
    BY <1>1, <1>3, <2>1
<1>6. s = t
  BY <1>1, <1>3, <1>4, <1>5, SeqEqual
<1> QED
  BY <1>6 DEF t

Pos == Len(input) - Len(text)

Skipped(n) == \A k \in 1..n : input[k] # Pause /\ ~Starts(input[k]) /\ Skips(input[k])

(* The character at k continues a number that stands at i. *)
GoesOn(i, k) ==
    \/ input[k] \in Digits \cup {ignore}
    \/ detectDecimal /\ input[k] = "." /\ Points(i, k - 1) = {}

StandsNumber(i, j) ==
    /\ i \in 1..j /\ j <= Len(input)
    /\ Skipped(i - 1) /\ input[i] # Pause /\ Starts(input[i])
    /\ \A k \in (i + 1)..j : GoesOn(i, k)

(* What is known of the characters i to j of a number. *)
Valued(i, j) == number = Magnitude(i, j) /\ number \in Nat

Pointed(i, j) ==
    IF isFraction
    THEN \E q \in i..j : /\ Points(i, j) = {q} /\ decimals = Cardinality(DigitsIn(q, j))
                         /\ decimals <= j - q
    ELSE Points(i, j) = {} /\ decimals = 0

ReadSoFar(i, j) == Valued(i, j) /\ Pointed(i, j) /\ (isNegative <=> ReadAs(input[i], "-"))

ParseTypes ==
    /\ phase \in {"skip", "digits", "done"}
    /\ lookahead \in Modes /\ ignore \in Ignores /\ detectDecimal \in BOOLEAN
    /\ input \in Seq(Chs) /\ Len(input) <= MaxInput
    /\ text \in Seq(Chs) /\ number \in Int /\ isNegative \in BOOLEAN /\ isFraction \in BOOLEAN
    /\ decimals \in 0..MaxInput /\ start \in 0..MaxInput

ParseInv ==
    /\ ParseTypes
    /\ phase = "skip" =>
         /\ StandsAt(text, start) /\ Skipped(start)
         /\ number = 0 /\ decimals = 0 /\ ~isNegative /\ ~isFraction
    /\ phase = "digits" =>
         /\ StandsAt(text, Pos) /\ StandsNumber(start + 1, Pos) /\ ReadSoFar(start + 1, Pos)
    /\ ParsedExactly

LEMMA ParseConstants ==
    /\ MaxInput \in Nat /\ "-" \in Others /\ "." \in Others /\ "-" \in Chs /\ "." \in Chs
    /\ "-" \notin Digits /\ "." \notin Digits /\ Pause \notin Digits
    /\ Pause # "-" /\ Pause # "."
    /\ \A c \in Ignores : c # Pause
    /\ Figures \subseteq Digits
BY ParseAssumption DEF Chs, ParseChars, Figures

LEMMA ParseInitInv == ParseInit => ParseInv
<1> SUFFICES ASSUME ParseInit PROVE ParseInv
  OBVIOUS
<1>1. input \in Seq(Chs) /\ Len(input) \in 0..MaxInput
  <2>1. PICK n \in 0..MaxInput : input \in [1..n -> Chs]
    BY DEF ParseInit, Chs
  <2>2. n \in Nat
    BY <2>1, ParseConstants
  <2>3. input \in Seq(Chs) /\ Len(input) = n
    BY <2>1, <2>2, FunctionIsSeq
  <2> QED
    BY <2>1, <2>3
<1>2. StandsAt(text, 0)
  <2>1. Len(input) \in Nat
    BY <1>1, ParseConstants
  <2>2. \A k \in 1..Len(input) : k = 0 + k
    BY <2>1
  <2> QED
    BY <1>1, <2>1, <2>2 DEF ParseInit, StandsAt
<1>3. Skipped(0)
  BY DEF Skipped
<1>4. ParseTypes
  <2>1. decimals \in 0..MaxInput /\ start \in 0..MaxInput
    BY ParseConstants DEF ParseInit
  <2>2. isNegative \in BOOLEAN /\ isFraction \in BOOLEAN
    BY Zenon DEF ParseInit
  <2>3. /\ phase = "skip" /\ lookahead \in Modes /\ ignore \in Ignores
        /\ detectDecimal \in BOOLEAN /\ text \in Seq(Chs) /\ number \in Int
    BY <1>1 DEF ParseInit
  <2>4. Len(input) <= MaxInput
    BY <1>1, ParseConstants
  <2> QED
    BY <1>1, <2>1, <2>2, <2>3, <2>4 DEF ParseTypes
<1> QED
  BY <1>2, <1>3, <1>4 DEF ParseInit, ParseInv, ParsedExactly

(* What timedPeek() says, where the text stands. *)
LEMMA PeekIs ==
    ASSUME ParseTypes, NEW p, StandsAt(text, p)
    PROVE  /\ p \in 0..Len(input) /\ Len(input) \in Nat
           /\ TimedOut <=> p = Len(input) \/ (p < Len(input) /\ input[p + 1] = Pause)
           /\ ~TimedOut => /\ p < Len(input) /\ Peeked = input[p + 1] /\ Peeked # Pause
                           /\ Peeked \in Chs /\ StandsAt(Rest, p + 1)
           /\ (IF TimedOut THEN Rest ELSE text) = Behind(p)
           /\ Rest \in Seq(Chs)
<1>1. input \in Seq(Chs) /\ text \in Seq(Chs) /\ Len(text) = Len(input) - p
      /\ Len(input) \in Nat /\ Len(text) \in Nat /\ p \in 0..Len(input)
  BY LenProperties DEF ParseTypes, StandsAt
<1>2. CASE text = <<>>
  <2>1. p = Len(input) /\ TimedOut /\ Rest = <<>>
    <3>1. Len(text) = 0
      BY <1>2, EmptySeq
    <3> QED
      BY <1>1, <1>2, <3>1 DEF TimedOut, Peeked, Rest
  <2>2. Behind(p) = <<>>
    <3>1. ~(p < Len(input))
      BY <1>1, <2>1
    <3>2. Behind(p) = SubSeq(input, p + 1, Len(input))
      BY <3>1 DEF Behind
    <3> QED
      BY <1>1, <2>1, <3>2, SubSeqEmpty
  <2> QED
    BY <1>1, <2>1, <2>2, EmptySeq
<1>3. CASE text # <<>>
  <2>1. p + 1 \in 1..Len(input) /\ Head(text) = input[p + 1] /\ StandsAt(Tail(text), p + 1)
    BY <1>1, <1>3, StandsStep
  <2>2. Peeked = input[p + 1] /\ Rest = Tail(text) /\ p < Len(input)
    BY <1>1, <1>3, <2>1 DEF Peeked, Rest
  <2>3. input[p + 1] \in Chs
    BY <1>1, <2>1, ElementOfSeq
  <2>4. text = SubSeq(input, p + 1, Len(input))
    BY <1>1, StandsIs
  <2>5. Tail(text) = SubSeq(input, p + 2, Len(input))
    <3>1. Tail(text) = SubSeq(input, (p + 1) + 1, Len(input))
      BY <1>1, <2>1, StandsIs, Zenon
    <3>2. (p + 1) + 1 = p + 2
      BY <1>1
    <3> QED
      BY <3>1, <3>2
  <2>6. (IF TimedOut THEN Rest ELSE text) = Behind(p)
    BY <2>2, <2>4, <2>5 DEF TimedOut, Behind
  <2>7. Rest \in Seq(Chs)
    BY <2>1, <2>2 DEF StandsAt
  <2> QED
    BY <1>1, <2>1, <2>2, <2>3, <2>6, <2>7 DEF TimedOut
<1> QED
  BY <1>2, <1>3

LEMMA DiscardKeepsParseInv == ParseInv /\ Discard => ParseInv'
<1> SUFFICES ASSUME ParseInv, Discard PROVE ParseInv'
  OBVIOUS
<1>1. /\ phase = "skip" /\ ~TimedOut /\ ~Starts(Peeked) /\ Skips(Peeked)
      /\ text' = Rest /\ start' = start + 1
      /\ UNCHANGED <<phase, lookahead, ignore, detectDecimal, input>>
      /\ UNCHANGED <<number, isNegative, isFraction, decimals>>
  BY DEF Discard, call
<1>2. ParseTypes /\ StandsAt(text, start) /\ Skipped(start)
      /\ number = 0 /\ decimals = 0 /\ ~isNegative /\ ~isFraction
  BY <1>1 DEF ParseInv
<1>3. /\ start \in 0..Len(input) /\ Len(input) \in Nat /\ start < Len(input)
      /\ Peeked = input[start + 1] /\ Peeked # Pause /\ StandsAt(Rest, start + 1)
      /\ Rest \in Seq(Chs)
  BY <1>1, <1>2, PeekIs
<1>4. Skipped(start + 1)
  <2>1. \A k \in 1..(start + 1) : k \in 1..start \/ k = start + 1
    BY <1>3
  <2> QED
    BY <1>1, <1>2, <1>3, <2>1 DEF Skipped
<1>5. ParseTypes'
  BY <1>1, <1>2, <1>3, ParseConstants DEF ParseTypes
<1>6. StandsAt(text, start)' /\ Skipped(start)'
  BY <1>1, <1>3, <1>4 DEF StandsAt, Skipped, Starts, Skips
<1> QED
  BY <1>1, <1>2, <1>5, <1>6 DEF ParseInv, ParsedExactly

(* No number stands in what peekNextDigit() gave up. *)
LEMMA NoNumber ==
    ASSUME ParseTypes, StandsAt(text, start), Skipped(start),
           TimedOut \/ (~Starts(Peeked) /\ ~Skips(Peeked))
    PROVE  NumbersAt = {}
<1>1. /\ start \in 0..Len(input) /\ Len(input) \in Nat
      /\ TimedOut <=> start = Len(input) \/ (start < Len(input) /\ input[start + 1] = Pause)
      /\ ~TimedOut => start < Len(input) /\ Peeked = input[start + 1]
  BY PeekIs
<1>2. SUFFICES ASSUME NEW i \in NumbersAt PROVE FALSE
  OBVIOUS
<1>3. /\ i \in 1..Len(input) /\ input[i] # Pause /\ Starts(input[i]) /\ Skipped(i - 1)
  BY <1>1, LenProperties DEF NumbersAt, Skipped, ParseTypes
<1>4. CASE i <= start
  <2>1. i \in 1..start
    BY <1>1, <1>3, <1>4
  <2> QED
    BY <1>3, <2>1 DEF Skipped
<1>5. CASE i = start + 1
  BY <1>1, <1>3, <1>5
<1>6. CASE i > start + 1
  <2>1. start + 1 \in 1..(i - 1) /\ start < Len(input) /\ start # Len(input)
    BY <1>1, <1>3, <1>6
  <2>2. input[start + 1] # Pause /\ ~Starts(input[start + 1]) /\ Skips(input[start + 1])
    BY <1>3, <2>1 DEF Skipped
  <2> QED
    BY <1>1, <2>1, <2>2
<1> QED
  BY <1>1, <1>3, <1>4, <1>5, <1>6

LEMMA GiveUpKeepsParseInv == ParseInv /\ GiveUp => ParseInv'
<1> SUFFICES ASSUME ParseInv, GiveUp PROVE ParseInv'
  OBVIOUS
<1>1. /\ phase = "skip" /\ (TimedOut \/ (~Starts(Peeked) /\ ~Skips(Peeked)))
      /\ phase' = "done" /\ text' = IF TimedOut THEN Rest ELSE text
      /\ UNCHANGED <<lookahead, ignore, detectDecimal, input>>
      /\ UNCHANGED <<number, isNegative, isFraction, decimals, start>>
  BY DEF GiveUp, call
<1>2. ParseTypes /\ StandsAt(text, start) /\ Skipped(start) /\ number = 0
  BY <1>1 DEF ParseInv
<1>3. NumbersAt = {}
  BY <1>1, <1>2, NoNumber
<1>4. text' = Behind(start) /\ Rest \in Seq(Chs)
  BY <1>1, <1>2, PeekIs
<1>5. NumbersAt' = NumbersAt
  BY <1>1 DEF NumbersAt, Starts, Skips
<1>6. Behind(start)' = Behind(start)
  BY <1>1 DEF Behind
<1>7. start \in 0..Len(input) /\ Len(input) \in Nat
  BY <1>2, PeekIs
<1>8. lookahead = "SKIP_NONE" => start = 0
  <2> SUFFICES ASSUME lookahead = "SKIP_NONE", start # 0 PROVE FALSE
    OBVIOUS
  <2>1. 1 \in 1..start
    BY <1>7
  <2> QED
    BY <1>2, <2>1 DEF Skipped, Skips
<1>9. lookahead = "SKIP_WHITESPACE" => \A k \in 1..start : input[k] \in Whitespace
  BY <1>2 DEF Skipped, Skips
<1>10. ParsedExactly'
  <2>1. NumbersAt' = {} /\ number' = 0 /\ text' = Behind(start)'
    BY <1>1, <1>2, <1>3, <1>4, <1>5, <1>6
  <2>2. /\ (lookahead = "SKIP_NONE")' => (start = 0)'
        /\ (lookahead = "SKIP_WHITESPACE")' => (\A k \in 1..start : input[k] \in Whitespace)'
    BY <1>1, <1>8, <1>9
  <2> QED
    BY <2>1, <2>2 DEF ParsedExactly
<1>11. ParseTypes'
  BY <1>1, <1>2, <1>4 DEF ParseTypes
<1> QED
  BY <1>1, <1>10, <1>11 DEF ParseInv

(* One more character of a number. *)
LEMMA PointsStep ==
    ASSUME NEW p \in Nat, NEW i \in 1..(p + 1)
    PROVE  /\ ReadAs(input[p + 1], ".") => Points(i, p + 1) = Points(i, p) \cup {p + 1}
           /\ ~ReadAs(input[p + 1], ".") => Points(i, p + 1) = Points(i, p)
           /\ Points(i, i - 1) = {}
           /\ Points(i, p) \subseteq i..p
<1>1. i..(p + 1) = (i..p) \cup {p + 1}
  OBVIOUS
<1>2. i..(i - 1) = {}
  OBVIOUS
<1> QED
  BY <1>1, <1>2 DEF Points, Figures, ReadAs

LEMMA DigitsStep ==
    ASSUME NEW p \in Nat, NEW q \in 1..(p + 1)
    PROVE  /\ input[p + 1] \notin Figures => DigitsIn(q, p + 1) = DigitsIn(q, p)
           /\ input[p + 1] \in Figures =>
                Cardinality(DigitsIn(q, p + 1)) = Cardinality(DigitsIn(q, p)) + 1
           /\ Cardinality(DigitsIn(p + 1, p)) = 0
           /\ Cardinality(DigitsIn(q, p)) \in Nat
<1>1. q..(p + 1) = (q..p) \cup {p + 1} /\ p + 1 \notin q..p
  OBVIOUS
<1>2. IsFiniteSet(DigitsIn(q, p))
  <2>1. IsFiniteSet(q..p)
    BY FS_Interval
  <2>2. DigitsIn(q, p) \in SUBSET (q..p)
    BY DEF DigitsIn, Figures, ReadAs
  <2> QED
    BY <2>1, <2>2, FS_Subset
<1>3. ASSUME input[p + 1] \in Figures
      PROVE  Cardinality(DigitsIn(q, p + 1)) = Cardinality(DigitsIn(q, p)) + 1
  <2>1. DigitsIn(q, p + 1) = DigitsIn(q, p) \cup {p + 1} /\ p + 1 \notin DigitsIn(q, p)
    BY <1>1, <1>3 DEF DigitsIn, Figures, ReadAs
  <2> QED
    BY <1>2, <2>1, FS_AddElement
<1>4. DigitsIn(p + 1, p) = {}
  <2>1. (p + 1)..p = {}
    OBVIOUS
  <2> QED
    BY <2>1 DEF DigitsIn, Figures, ReadAs
<1>5. input[p + 1] \notin Figures => DigitsIn(q, p + 1) = DigitsIn(q, p)
  BY <1>1 DEF DigitsIn, Figures, ReadAs
<1> QED
  BY <1>2, <1>3, <1>4, <1>5, FS_EmptySet, FS_CardinalityType

LEMMA TakeValued ==
    ASSUME NEW p \in Nat, NEW i \in 1..(p + 1), Len(input) \in Nat, p < Len(input),
           Valued(i, p), input' = input, ignore' = ignore,
           number' = IF input[p + 1] \in Figures THEN number * 10 + Digit(input[p + 1]) ELSE number
    PROVE  Valued(i, p + 1)'
<1>1. p + 1 \in 0..Len(input) /\ p + 1 >= i /\ i \in Nat \ {0} /\ (p + 1) - 1 = p
  OBVIOUS
<1>2. Magnitude(i, p + 1) =
          IF input[p + 1] \in Figures THEN Magnitude(i, (p + 1) - 1) * 10 + Digit(input[p + 1])
          ELSE Magnitude(i, (p + 1) - 1)
  BY <1>1, MagnitudeIs
<1>3. Magnitude(i, p + 1)' = Magnitude(i, p + 1)
  BY DEF Magnitude, Figures, ReadAs
<1>4. \A c \in Figures : Digit(c) \in Nat
  BY DEF Digit
<1>5. number \in Nat /\ number = Magnitude(i, p)
  BY DEF Valued
<1>6. number' \in Nat
  BY <1>4, <1>5
<1>7. number' = Magnitude(i, p + 1)
  BY <1>1, <1>2, <1>5
<1> QED
  BY <1>3, <1>6, <1>7 DEF Valued

LEMMA TakePointed ==
    ASSUME NEW p \in Nat, NEW i \in 1..(p + 1), NEW c, c = input[p + 1],
           isFraction \in BOOLEAN, Pointed(i, p), input' = input, ignore' = ignore,
           ReadAs(c, ".") => ~isFraction,
           isFraction' = (isFraction \/ ReadAs(c, ".")),
           decimals' = IF c \in Figures /\ isFraction THEN decimals + 1 ELSE decimals
    PROVE  Pointed(i, p + 1)'
<1>1. \A a, b : Points(a, b)' = Points(a, b) /\ DigitsIn(a, b)' = DigitsIn(a, b)
  BY DEF Points, DigitsIn, Figures, ReadAs
<1>2. CASE isFraction
  <2>1. PICK q \in i..p : /\ Points(i, p) = {q} /\ decimals = Cardinality(DigitsIn(q, p))
                          /\ decimals <= p - q
    BY <1>2 DEF Pointed
  <2>2. q \in i..(p + 1) /\ q \in 1..(p + 1) /\ i \in Nat /\ q \in Nat
    BY <2>1
  <2>3. Points(i, p + 1) = {q}
    BY <1>2, <2>1, PointsStep
  <2>4. /\ c \notin Figures => DigitsIn(q, p + 1) = DigitsIn(q, p)
        /\ c \in Figures => Cardinality(DigitsIn(q, p + 1)) = Cardinality(DigitsIn(q, p)) + 1
        /\ Cardinality(DigitsIn(q, p)) \in Nat
    BY <2>2, DigitsStep
  <2>5. decimals' = Cardinality(DigitsIn(q, p + 1))
    BY <1>2, <2>1, <2>4
  <2>6. decimals' <= (p + 1) - q
    BY <1>2, <2>1, <2>2, <2>4
  <2>7. isFraction'
    BY <1>2, Zenon
  <2> QED
    BY <1>1, <2>2, <2>3, <2>5, <2>6, <2>7 DEF Pointed
<1>3. CASE ~isFraction /\ ReadAs(c, ".")
  <2>1. Points(i, p) = {} /\ decimals = 0
    BY <1>3 DEF Pointed
  <2>2. Points(i, p + 1) = {p + 1}
    <3>1. ReadAs(input[p + 1], ".")
      BY <1>3
    <3>2. Points(i, p + 1) = Points(i, p) \cup {p + 1}
      BY <3>1, PointsStep
    <3> QED
      BY <2>1, <3>2
  <2>3. p + 1 \in i..(p + 1) /\ p + 1 \in 1..(p + 1)
    OBVIOUS
  <2>4. c \notin Figures
    BY <1>3, ParseConstants DEF ReadAs
  <2>5. Cardinality(DigitsIn(p + 1, p + 1)) = 0
    BY <1>3, <2>3, <2>4, DigitsStep
  <2>6. decimals' = 0 /\ 0 <= (p + 1) - (p + 1)
    BY <1>3, <2>1
  <2>7. isFraction'
    BY <1>3, Zenon
  <2> QED
    BY <1>1, <2>2, <2>3, <2>5, <2>6, <2>7 DEF Pointed
<1>4. CASE ~isFraction /\ ~ReadAs(c, ".")
  <2>1. Points(i, p) = {} /\ decimals = 0
    BY <1>4 DEF Pointed
  <2>2. Points(i, p + 1) = {}
    BY <1>4, <2>1, PointsStep
  <2>3. ~isFraction'
    BY <1>4, Zenon
  <2>4. decimals' = 0
    BY <1>4, <2>1
  <2> QED
    BY <1>1, <2>2, <2>3, <2>4 DEF Pointed
<1> QED
  BY <1>2, <1>3, <1>4

LEMMA TakeKeepsParseInv == ParseInv /\ Take => ParseInv'
<1> SUFFICES ASSUME ParseInv, Take PROVE ParseInv'
  OBVIOUS
<1> DEFINE c == Peeked
           i == start + 1
<1>1. /\ ~TimedOut
      /\ \/ phase = "skip" /\ Starts(c)
         \/ phase = "digits" /\ Continues(c)
      /\ phase' = "digits" /\ text' = Rest
      /\ isNegative' = (isNegative \/ ReadAs(c, "-"))
      /\ isFraction' = (isFraction \/ ReadAs(c, "."))
      /\ number' = IF c \in Figures THEN number * 10 + Digit(c) ELSE number
      /\ decimals' = IF c \in Figures /\ isFraction THEN decimals + 1 ELSE decimals
      /\ UNCHANGED <<lookahead, ignore, detectDecimal, input>> /\ UNCHANGED start
  BY DEF Take, call
<1>2. ParseTypes
  BY DEF ParseInv
<1>3. PICK p : /\ StandsAt(text, p) /\ i \in 1..(p + 1) /\ start <= p
               /\ Valued(i, p) /\ Pointed(i, p)
               /\ ReadAs(c, ".") => ~isFraction
               /\ phase = "skip" => p = start /\ Skipped(start) /\ ~isNegative
               /\ phase = "digits" => StandsNumber(i, p) /\ (isNegative <=> ReadAs(input[i], "-"))
                                      /\ Continues(c)
  <2>1. CASE phase = "skip"
    <3>1. /\ StandsAt(text, start) /\ Skipped(start)
          /\ number = 0 /\ decimals = 0 /\ ~isNegative /\ ~isFraction
      BY <2>1 DEF ParseInv
    <3>2. start \in Nat /\ start \in 0..Len(input) /\ Len(input) \in Nat
      BY <1>2, <3>1, PeekIs
    <3>3. i \in 1..(start + 1) /\ i \in Nat \ {0} /\ i - 1 = start /\ start < i
      BY <3>2
    <3>4. Magnitude(i, start) = 0
      BY <3>2, <3>3, MagnitudeIs
    <3>5. Points(i, start) = {}
      BY <3>2, <3>3, PointsStep
    <3>6. Valued(i, start) /\ Pointed(i, start)
      BY <3>1, <3>4, <3>5 DEF Valued, Pointed
    <3> HIDE DEF i, c
    <3>7. start <= start /\ phase # "digits"
      BY <2>1, <3>2
    <3> QED
      BY <3>1, <3>3, <3>6, <3>7
  <2>2. CASE phase = "digits"
    <3>1. StandsAt(text, Pos) /\ StandsNumber(i, Pos) /\ ReadSoFar(i, Pos) /\ Continues(c)
      BY <1>1, <2>2 DEF ParseInv
    <3>2. Pos \in Nat /\ i \in 1..Pos /\ start \in Nat
      BY <1>2, <3>1, PeekIs DEF StandsNumber, ParseTypes
    <3>3. ReadAs(c, ".") => ~isFraction
      BY <1>2, <3>1, ParseConstants DEF Continues, ParseTypes, ReadAs
    <3>4. Valued(i, Pos) /\ Pointed(i, Pos) /\ (isNegative <=> ReadAs(input[i], "-"))
      BY <3>1 DEF ReadSoFar
    <3>5. i \in 1..(Pos + 1) /\ start <= Pos
      BY <3>2
    <3> HIDE DEF i, c
    <3>6. phase # "skip"
      BY <2>2
    <3> QED
      BY <3>1, <3>3, <3>4, <3>5, <3>6
  <2> HIDE DEF i, c
  <2> QED
    BY <1>1, <2>1, <2>2
<1>4. /\ p \in Nat /\ p + 1 \in 1..Len(input) /\ Len(input) \in Nat /\ p < Len(input)
      /\ c = input[p + 1] /\ c # Pause /\ StandsAt(Rest, p + 1) /\ Rest \in Seq(Chs)
      /\ start \in Nat /\ i \in Nat /\ i >= 1
  BY <1>1, <1>2, <1>3, PeekIs DEF ParseTypes
<1>5. i' = i
  BY <1>1
<1> HIDE DEF c
<1>6. Valued(i, p + 1)'
  <2>1. PICK a : a = i
    OBVIOUS
  <2>2. Valued(a, p + 1)'
    BY <1>1, <1>3, <1>4, <2>1, TakeValued
  <2> QED
    BY <1>5, <2>1, <2>2 DEF Valued, Magnitude, Figures, ReadAs
<1>7. Pointed(i, p + 1)'
  <2>1. PICK a : a = i
    OBVIOUS
  <2>2. isFraction \in BOOLEAN
    BY <1>2 DEF ParseTypes
  <2>3. Pointed(a, p + 1)'
    BY <1>1, <1>3, <1>4, <2>1, <2>2, TakePointed
  <2> QED
    BY <1>5, <2>1, <2>3 DEF Pointed, Points, DigitsIn, Figures, ReadAs
<1>8. StandsNumber(i, p + 1)
  <2>1. i \in 1..(p + 1) /\ p + 1 <= Len(input)
    BY <1>3, <1>4
  <2>2. CASE phase = "skip"
    <3>1. p = start /\ Skipped(start) /\ Starts(c) /\ i - 1 = start /\ i = p + 1
      BY <1>1, <1>3, <1>4, <2>2
    <3>2. \A k \in (i + 1)..(p + 1) : FALSE
      BY <1>4, <3>1
    <3> QED
      BY <1>4, <2>1, <3>1, <3>2 DEF StandsNumber
  <2>3. CASE phase = "digits"
    <3>1. StandsNumber(i, p) /\ Continues(c)
      BY <1>3, <2>3
    <3>2. GoesOn(i, p + 1)
      <4>1. c = "." /\ ~isFraction => Points(i, p) = {}
        BY <1>3 DEF Pointed
      <4>2. (p + 1) - 1 = p
        BY <1>4
      <4> QED
        BY <1>4, <3>1, <4>1, <4>2 DEF Continues, GoesOn
    <3>3. \A k \in (i + 1)..(p + 1) : k \in (i + 1)..p \/ k = p + 1
      BY <1>4
    <3>4. \A k \in (i + 1)..(p + 1) : GoesOn(i, k)
      BY <3>1, <3>2, <3>3 DEF StandsNumber
    <3>5. Skipped(i - 1) /\ input[i] # Pause /\ Starts(input[i])
      BY <3>1 DEF StandsNumber
    <3> QED
      BY <2>1, <3>4, <3>5 DEF StandsNumber
  <2> HIDE DEF i
  <2> QED
    BY <1>1, <2>2, <2>3
<1>9. isNegative' <=> ReadAs(input[i], "-")
  <2>1. CASE phase = "skip"
    <3>1. p = start /\ ~isNegative
      BY <1>3, <2>1
    <3>2. c = input[i]
      BY <1>4, <3>1
    <3> HIDE DEF i
    <3> QED
      BY <1>1, <3>1, <3>2, Zenon
  <2>2. CASE phase = "digits"
    <3>1. Continues(c) /\ (isNegative <=> ReadAs(input[i], "-"))
      BY <1>3, <2>2
    <3>2. ~ReadAs(c, "-")
      BY <1>2, <3>1, ParseConstants DEF Continues, ParseTypes, ReadAs
    <3> HIDE DEF i
    <3> QED
      BY <1>1, <3>1, <3>2, Zenon
  <2> HIDE DEF i
  <2> QED
    BY <1>1, <2>1, <2>2
<1>10. StandsAt(text, Pos)' /\ Pos' = p + 1
  <2>1. Len(Rest) = Len(input) - (p + 1)
    BY <1>4 DEF StandsAt
  <2>2. Pos' = p + 1
    BY <1>1, <1>4, <2>1 DEF Pos
  <2> QED
    BY <1>1, <1>4, <2>2 DEF StandsAt
<1>11. StandsNumber(i, p + 1)'
  <2>1. \A k : Skipped(k)' = Skipped(k) /\ Starts(k)' = Starts(k)
    BY <1>1 DEF Skipped, Starts, Skips
  <2>2. \A k : GoesOn(i, k)' = GoesOn(i, k)
    BY <1>1, <1>5 DEF GoesOn, Points, Figures, ReadAs
  <2> QED
    BY <1>1, <1>5, <1>8, <2>1, <2>2 DEF StandsNumber, Skipped, Starts, Skips, GoesOn, Points, Figures, ReadAs
<1>12. ReadSoFar(i, p + 1)'
  <2>1. ReadAs(input[i], "-")' = ReadAs(input[i], "-")
    BY <1>1, <1>5 DEF ReadAs
  <2> QED
    BY <1>1, <1>5, <1>6, <1>7, <1>9, <2>1 DEF ReadSoFar
<1>13. ParseTypes'
  <2>1. isNegative' \in BOOLEAN /\ isFraction' \in BOOLEAN
    BY <1>1, <1>2, Zenon DEF ParseTypes
  <2>2. number' \in Int
    BY <1>6 DEF Valued
  <2>3. decimals' \in 0..MaxInput
    <3>1. MaxInput \in Nat /\ Len(input) <= MaxInput
      BY <1>2, ParseConstants DEF ParseTypes
    <3>2. CASE isFraction'
      <4>1. PICK q \in i..(p + 1) : /\ decimals' = Cardinality(DigitsIn(q, p + 1))
                                    /\ decimals' <= (p + 1) - q
        BY <1>1, <1>5, <1>7, <3>2 DEF Pointed, DigitsIn, Figures, ReadAs
      <4>2. q \in 1..(p + 1) /\ q \in 1..((p + 1) + 1) /\ p + 1 \in Nat
        BY <1>4, <4>1
      <4>3. decimals' \in Nat
        BY <4>1, <4>2, DigitsStep
      <4> QED
        BY <1>4, <3>1, <4>1, <4>2, <4>3
    <3>3. CASE ~isFraction'
      <4>1. decimals' = 0
        BY <1>7, <3>3 DEF Pointed
      <4> QED
        BY <3>1, <4>1
    <3> QED
      BY <3>2, <3>3
  <2>3a. phase' = "digits" /\ text' \in Seq(Chs)
    BY <1>1, <1>4
  <2> QED
    BY <1>1, <1>2, <2>1, <2>2, <2>3, <2>3a DEF ParseTypes
<1>14. StandsNumber(start + 1, Pos)' /\ ReadSoFar(start + 1, Pos)'
  BY <1>10, <1>11, <1>12 DEF StandsNumber, ReadSoFar, Valued, Pointed
<1> QED
  BY <1>1, <1>10, <1>13, <1>14 DEF ParseInv, ParsedExactly

(* Where a number ends, and what ParsedExactly says of it. *)
LEMMA OnlyNumber ==
    ASSUME ParseTypes, NEW i, NEW j, j \in Nat, StandsNumber(i, j)
    PROVE  NumbersAt = {i} /\ Min(NumbersAt) = i
<1>1. /\ i \in 1..j /\ j <= Len(input) /\ Len(input) \in Nat /\ i \in Nat
      /\ Skipped(i - 1) /\ input[i] # Pause /\ Starts(input[i])
      /\ DOMAIN input = 1..Len(input)
  BY LenProperties DEF StandsNumber, ParseTypes
<1>2. i \in NumbersAt
  BY <1>1 DEF NumbersAt, Skipped
<1>3. ASSUME NEW k \in NumbersAt PROVE k = i
  <2>1. k \in 1..Len(input) /\ Starts(input[k]) /\ \A m \in 1..(k - 1) : ~Starts(input[m])
    BY <1>1 DEF NumbersAt
  <2>2. CASE k < i
    <3>1. k \in 1..(i - 1)
      BY <1>1, <2>1, <2>2
    <3> QED
      BY <1>1, <2>1, <3>1 DEF Skipped
  <2>3. CASE k > i
    <3>1. i \in 1..(k - 1)
      BY <1>1, <2>1, <2>3
    <3> QED
      BY <1>1, <2>1, <3>1
  <2> QED
    BY <1>1, <2>1, <2>2, <2>3
<1>4. NumbersAt = {i}
  BY <1>2, <1>3
<1>5. {i} \subseteq Int /\ i \in {i} /\ \A k \in {i} : i <= k
  BY <1>1
<1>6. Min({i}) = i
  BY <1>5, MinIs
<1> QED
  BY <1>4, <1>6

LEMMA EndIs ==
    ASSUME ParseTypes, NEW i, NEW j, j \in Nat, StandsNumber(i, j),
           j = Len(input) \/ ~GoesOn(i, j + 1)
    PROVE  EndOf(i) = j
<1> DEFINE S == {m \in i..Len(input) : \A k \in (i + 1)..m : GoesOn(i, k)}
<1>1. /\ i \in 1..j /\ j <= Len(input) /\ Len(input) \in Nat
      /\ \A k \in (i + 1)..j : GoesOn(i, k)
  BY LenProperties DEF StandsNumber, ParseTypes
<1>2. j \in S /\ S \subseteq Int
  BY <1>1
<1>3. ASSUME NEW m \in S PROVE m <= j
  <2> SUFFICES ASSUME m > j PROVE FALSE
    BY <1>1
  <2>1. m \in i..Len(input) /\ \A k \in (i + 1)..m : GoesOn(i, k)
    OBVIOUS
  <2>2. j + 1 \in (i + 1)..m /\ j # Len(input)
    BY <1>1, <2>1
  <2> QED
    BY <2>1, <2>2
<1>4. EndOf(i) = Max(S)
  BY DEF EndOf, GoesOn
<1> HIDE DEF S
<1>5. Max(S) = j
  BY <1>2, <1>3, MaxIs
<1> QED
  BY <1>4, <1>5

LEMMA DecimalsAre ==
    ASSUME isFraction \in BOOLEAN, NEW i \in Nat, NEW j \in Nat, Pointed(i, j)
    PROVE  decimals = IF Points(i, j) = {} THEN 0
                      ELSE Cardinality(DigitsIn(Min(Points(i, j)), j))
<1>1. CASE isFraction
  <2>1. PICK q \in i..j : Points(i, j) = {q} /\ decimals = Cardinality(DigitsIn(q, j))
    BY <1>1 DEF Pointed
  <2>2. {q} \subseteq Int /\ q \in {q} /\ \A k \in {q} : q <= k
    BY <2>1
  <2>3. Min({q}) = q
    BY <2>2, MinIs
  <2> QED
    BY <2>1, <2>3
<1>2. CASE ~isFraction
  BY <1>2 DEF Pointed
<1> QED
  BY <1>1, <1>2

LEMMA FinishKeepsParseInv == ParseInv /\ Finish => ParseInv'
<1> SUFFICES ASSUME ParseInv, Finish PROVE ParseInv'
  OBVIOUS
<1> DEFINE i == start + 1
           j == Pos
<1>1. /\ phase = "digits" /\ (TimedOut \/ ~Continues(Peeked))
      /\ phase' = "done" /\ text' = IF TimedOut THEN Rest ELSE text
      /\ number' = IF isNegative THEN -number ELSE number
      /\ UNCHANGED <<lookahead, ignore, detectDecimal, input>>
      /\ UNCHANGED <<isNegative, isFraction, decimals, start>>
  BY DEF Finish, call
<1>2. ParseTypes /\ StandsAt(text, j) /\ StandsNumber(i, j) /\ ReadSoFar(i, j)
  BY <1>1 DEF ParseInv
<1> HIDE DEF j
<1>3. /\ j \in 0..Len(input) /\ Len(input) \in Nat /\ j \in Nat
      /\ TimedOut <=> j = Len(input) \/ (j < Len(input) /\ input[j + 1] = Pause)
      /\ ~TimedOut => /\ j < Len(input) /\ Peeked = input[j + 1]
      /\ text' = Behind(j) /\ Rest \in Seq(Chs)
  BY <1>1, <1>2, PeekIs
<1>4. start \in Nat /\ i \in Nat /\ isFraction \in BOOLEAN /\ isNegative \in BOOLEAN
  BY <1>2, ParseConstants DEF ParseTypes
<1> HIDE DEF i
<1>5. /\ number = Magnitude(i, j) /\ number \in Nat /\ Pointed(i, j)
      /\ isNegative <=> ReadAs(input[i], "-")
  BY <1>2 DEF ReadSoFar, Valued
<1>6. j = Len(input) \/ ~GoesOn(i, j + 1)
  <2> SUFFICES ASSUME j # Len(input), GoesOn(i, j + 1) PROVE FALSE
    OBVIOUS
  <2>1. (j + 1) - 1 = j
    BY <1>3
  <2>2. Points(i, j) = {} => ~isFraction
    BY <1>5 DEF Pointed
  <2>3. CASE TimedOut
    <3>1. input[j + 1] = Pause
      BY <1>3, <2>3
    <3>2. Pause \notin Digits /\ Pause # ignore /\ Pause # "."
      BY <1>2, ParseConstants DEF ParseTypes
    <3> QED
      BY <3>1, <3>2 DEF GoesOn
  <2>4. CASE ~TimedOut
    <3>1. Peeked = input[j + 1] /\ ~Continues(Peeked)
      BY <1>1, <1>3, <2>4
    <3> QED
      BY <2>1, <2>2, <3>1 DEF GoesOn, Continues
  <2> QED
    BY <2>3, <2>4
<1>7. NumbersAt = {i} /\ Min(NumbersAt) = i /\ EndOf(i) = j
  BY <1>2, <1>3, <1>6, OnlyNumber, EndIs
<1>8. number' = IF ReadAs(input[i], "-") THEN -Magnitude(i, j) ELSE Magnitude(i, j)
  BY <1>1, <1>5
<1>9. decimals = IF Points(i, j) = {} THEN 0 ELSE Cardinality(DigitsIn(Min(Points(i, j)), j))
  BY <1>3, <1>4, <1>5, DecimalsAre
<1>10. /\ NumbersAt' = NumbersAt
       /\ EndOf(i)' = EndOf(i)
       /\ \A a, b : Points(a, b)' = Points(a, b) /\ DigitsIn(a, b)' = DigitsIn(a, b)
       /\ \A a, b : Magnitude(a, b)' = Magnitude(a, b)
       /\ \A a : Behind(a)' = Behind(a)
  <2>1. NumbersAt' = NumbersAt
    BY <1>1 DEF NumbersAt, Starts, Skips
  <2>2. i' = i
    BY <1>1 DEF i
  <2>3. EndOf(i)' = EndOf(i)
    BY <1>1, <2>2 DEF EndOf, Points, Figures, ReadAs
  <2>4. /\ \A a, b : Points(a, b)' = Points(a, b) /\ DigitsIn(a, b)' = DigitsIn(a, b)
        /\ \A a : Behind(a)' = Behind(a)
    BY <1>1 DEF Points, DigitsIn, Behind, Figures, ReadAs
  <2>5. \A a, b : Magnitude(a, b)' = Magnitude(a, b)
    BY <1>1 DEF Magnitude, Figures, ReadAs
  <2> QED
    BY <2>1, <2>3, <2>4, <2>5
<1>11. ParsedExactly'
  <2>1. NumbersAt' = {i} /\ Min(NumbersAt)' = i
    BY <1>7, <1>10
  <2>2. i' = i
    BY <1>1 DEF i
  <2>3. EndOf(Min(NumbersAt))' = j
    BY <1>7, <1>10, <2>1, <2>2
  <2>4. Magnitude(Min(NumbersAt), EndOf(Min(NumbersAt)))' = Magnitude(i, j)
    BY <1>10, <2>1, <2>3
  <2>5. Points(Min(NumbersAt), EndOf(Min(NumbersAt)))' = Points(i, j)
    BY <1>10, <2>1, <2>3
  <2>6. Behind(EndOf(Min(NumbersAt)))' = Behind(j)
    BY <1>10, <2>3
  <2>7. DigitsIn(Min(Points(Min(NumbersAt), EndOf(Min(NumbersAt)))), EndOf(Min(NumbersAt)))'
          = DigitsIn(Min(Points(i, j)), j)
    BY <1>10, <2>3, <2>5
  <2>8. ReadAs(input[Min(NumbersAt)], "-")' = ReadAs(input[i], "-")
    BY <1>1, <2>1 DEF ReadAs
  <2>9. NumbersAt' # {}
    BY <2>1
  <2>10. /\ number' = IF ReadAs(input[Min(NumbersAt)], "-")'
                      THEN -(Magnitude(Min(NumbersAt), EndOf(Min(NumbersAt)))')
                      ELSE Magnitude(Min(NumbersAt), EndOf(Min(NumbersAt)))'
         /\ decimals' = IF Points(Min(NumbersAt), EndOf(Min(NumbersAt)))' = {} THEN 0
              ELSE Cardinality(DigitsIn(Min(Points(Min(NumbersAt), EndOf(Min(NumbersAt)))),
                                        EndOf(Min(NumbersAt)))')
         /\ text' = Behind(EndOf(Min(NumbersAt)))'
    BY <1>1, <1>3, <1>8, <1>9, <2>4, <2>5, <2>6, <2>7, <2>8
  <2> QED
    BY <2>9, <2>10 DEF ParsedExactly, NumberAt
<1>12. ParseTypes'
  <2>1. number' \in Int /\ phase' \in {"skip", "digits", "done"} /\ text' \in Seq(Chs)
    BY <1>1, <1>2, <1>3, <1>5 DEF ParseTypes
  <2> QED
    BY <1>1, <1>2, <2>1 DEF ParseTypes
<1> QED
  BY <1>1, <1>11, <1>12 DEF ParseInv

LEMMA ParseNextInv == ParseInv /\ [ParseNext]_parseVars => ParseInv'
<1> SUFFICES ASSUME ParseInv, [ParseNext]_parseVars PROVE ParseInv'
  OBVIOUS
<1>1. CASE Discard
  BY <1>1, DiscardKeepsParseInv
<1>2. CASE GiveUp
  BY <1>2, GiveUpKeepsParseInv
<1>3. CASE Take
  BY <1>3, TakeKeepsParseInv
<1>4. CASE Finish
  BY <1>4, FinishKeepsParseInv
<1>5. CASE UNCHANGED parseVars
  <2>1. /\ UNCHANGED <<phase, text, lookahead, ignore, detectDecimal, number>>
        /\ UNCHANGED <<isNegative, isFraction, decimals, input, start>>
    BY <1>5 DEF parseVars
  <2>2. ParseTypes' = ParseTypes
    BY <2>1 DEF ParseTypes
  <2>3. ParsedExactly' = ParsedExactly
    BY <2>1 DEF ParsedExactly, NumberAt, NumbersAt, EndOf, Magnitude, Behind, Points, DigitsIn, Starts, Skips, Figures, ReadAs
  <2>4. Pos' = Pos /\ StandsAt(text, Pos)' = StandsAt(text, Pos)
    BY <2>1 DEF Pos, StandsAt
  <2>5. StandsNumber(start + 1, Pos)' = StandsNumber(start + 1, Pos)
    BY <2>1, <2>4 DEF StandsNumber, Skipped, Starts, Skips, GoesOn, Points, Figures, ReadAs
  <2>6. ReadSoFar(start + 1, Pos)' = ReadSoFar(start + 1, Pos)
    BY <2>1, <2>4 DEF ReadSoFar, Valued, Pointed, Magnitude, Points, DigitsIn, Figures, ReadAs
  <2>7. StandsAt(text, start)' = StandsAt(text, start) /\ Skipped(start)' = Skipped(start)
    BY <2>1 DEF StandsAt, Skipped, Starts, Skips
  <2> QED
    BY <2>1, <2>2, <2>3, <2>4, <2>5, <2>6, <2>7 DEF ParseInv
<1> QED
  BY <1>1, <1>2, <1>3, <1>4, <1>5 DEF ParseNext

LEMMA ParseInvImplies == ParseInv => ParseTypeOK /\ ParsedExactly
<1> SUFFICES ASSUME ParseInv PROVE ParseTypeOK /\ ParsedExactly
  OBVIOUS
<1>1. phase # "done" => number >= 0
  <2>1. ReadSoFar(start + 1, Pos) => number \in Nat
    BY DEF ReadSoFar, Valued
  <2> QED
    BY <2>1 DEF ParseInv, ParseTypes
<1> QED
  BY <1>1 DEF ParseInv, ParseTypes, ParseTypeOK, Chs

(* The types of parseInt() and parseFloat(): the digits never carry a sign  *)
(* before the end, and the decimals are counted within the input.          *)
THEOREM ParseTypesOK == ParseSpec => []ParseTypeOK
<1>1. ParseInv => ParseTypeOK
  BY ParseInvImplies
<1> QED
  BY <1>1, ParseInitInv, ParseNextInv, PTL DEF ParseSpec

(* On every input, with every pause in it, parseInt() and parseFloat()     *)
(* return the number that stands first, with its sign and its fraction,    *)
(* and leave the stream exactly behind it.                                 *)
THEOREM NumbersAreParsed == ParseSpec => []ParsedExactly
<1>1. ParseInv => ParsedExactly
  BY ParseInvImplies
<1> QED
  BY <1>1, ParseInitInv, ParseNextInv, PTL DEF ParseSpec

-----------------------------------------------------------------------------
(* String. *)

IsText(s) == s \in Seq(Letters)

(* Parts of texts. *)
LEMMA PartIs ==
    ASSUME NEW S, NEW s \in Seq(S), NEW m \in Nat \ {0}, NEW n \in 0..Len(s)
    PROVE  /\ SubSeq(s, m, n) \in Seq(S)
           /\ Len(SubSeq(s, m, n)) = IF m <= n THEN n - m + 1 ELSE 0
           /\ \A k \in 1..(n - m + 1) : SubSeq(s, m, n)[k] = s[m + k - 1]
<1>1. Len(s) \in Nat
  BY LenProperties
<1>2. \A k \in m..n : k \in 1..Len(s)
  BY <1>1
<1>3. \A k \in m..n : s[k] \in S
  BY <1>2, ElementOfSeq
<1> QED
  BY <1>1, <1>3, SubSeqProperties

LEMMA PartOfLeft ==
    ASSUME NEW S, NEW u \in Seq(S), NEW v \in Seq(S), NEW n \in Len(u)..(Len(u) + Len(v))
    PROVE  SubSeq(u \o v, 1, n) = u \o SubSeq(v, 1, n - Len(u))
<1> DEFINE a == SubSeq(u \o v, 1, n)
           r == SubSeq(v, 1, n - Len(u))
<1>1. Len(u) \in Nat /\ Len(v) \in Nat /\ n \in Nat
  BY LenProperties
<1>2. /\ u \o v \in Seq(S) /\ Len(u \o v) = Len(u) + Len(v)
      /\ \A i \in 1 .. Len(u) + Len(v) : (u \o v)[i] =
                     IF i <= Len(u) THEN u[i] ELSE v[i - Len(u)]
  BY ConcatProperties
<1>3. n \in 0..Len(u \o v) /\ n - Len(u) \in 0..Len(v)
  BY <1>1, <1>2
<1>4. /\ a \in Seq(S) /\ Len(a) = n
      /\ \A k \in 1..n : a[k] = (u \o v)[k]
  <2>1. 1 \in Nat \ {0} /\ n - 1 + 1 = n /\ (IF 1 <= n THEN n - 1 + 1 ELSE 0) = n
        /\ \A k \in 1..n : 1 + k - 1 = k
    BY <1>1
  <2>2. /\ a \in Seq(S) /\ Len(a) = IF 1 <= n THEN n - 1 + 1 ELSE 0
        /\ \A k \in 1..(n - 1 + 1) : a[k] = (u \o v)[1 + k - 1]
    BY <1>2, <1>3, PartIs
  <2> HIDE DEF a
  <2> QED
    BY <2>1, <2>2
<1>5. /\ r \in Seq(S) /\ Len(r) = n - Len(u)
      /\ \A k \in 1..(n - Len(u)) : r[k] = v[k]
  <2> DEFINE d == n - Len(u)
  <2>1. 1 \in Nat \ {0} /\ d - 1 + 1 = d /\ (IF 1 <= d THEN d - 1 + 1 ELSE 0) = d
        /\ \A k \in 1..d : 1 + k - 1 = k
    BY <1>1, <1>3
  <2>2. /\ r \in Seq(S) /\ Len(r) = IF 1 <= d THEN d - 1 + 1 ELSE 0
        /\ \A k \in 1..(d - 1 + 1) : r[k] = v[1 + k - 1]
    BY <1>3, PartIs
  <2> HIDE DEF r, d
  <2>3. Len(r) = d /\ \A k \in 1..d : r[k] = v[k]
    BY <2>1, <2>2
  <2> QED
    BY <2>2, <2>3 DEF d
<1> HIDE DEF a, r
<1>6. /\ u \o r \in Seq(S) /\ Len(u \o r) = n
      /\ \A i \in 1..n : (u \o r)[i] = IF i <= Len(u) THEN u[i] ELSE r[i - Len(u)]
  <2>1. Len(u) + Len(r) = n
    BY <1>1, <1>5
  <2>2. /\ u \o r \in Seq(S) /\ Len(u \o r) = Len(u) + Len(r)
        /\ \A i \in 1 .. Len(u) + Len(r) : (u \o r)[i] =
                     IF i <= Len(u) THEN u[i] ELSE r[i - Len(u)]
    BY <1>5, ConcatProperties
  <2> QED
    BY <2>1, <2>2
<1>7. ASSUME NEW k \in 1..n PROVE a[k] = (u \o r)[k]
  <2>1. k \in 1..(Len(u) + Len(v))
    BY <1>1
  <2>2. CASE k <= Len(u)
    <3>1. a[k] = (u \o v)[k] /\ (u \o v)[k] = u[k]
      BY <1>2, <1>4, <2>1, <2>2
    <3>2. (u \o r)[k] = u[k]
      BY <1>6, <2>2
    <3> QED
      BY <3>1, <3>2
  <2>3. CASE k > Len(u)
    <3>1. k - Len(u) \in 1..(n - Len(u)) /\ ~(k <= Len(u))
      BY <1>1, <2>3
    <3>2. (u \o r)[k] = r[k - Len(u)] /\ r[k - Len(u)] = v[k - Len(u)]
      BY <1>5, <1>6, <3>1
    <3>3. a[k] = (u \o v)[k] /\ (u \o v)[k] = v[k - Len(u)]
      BY <1>2, <1>4, <2>1, <3>1
    <3> QED
      BY <3>2, <3>3
  <2>4. k <= Len(u) \/ k > Len(u)
    BY <1>1
  <2> QED
    BY <2>2, <2>3, <2>4, Zenon
<1>8. a = u \o r
  BY <1>4, <1>6, <1>7, SeqEqual
<1> QED
  BY <1>8 DEF a, r

LiesInRight(u, v, m, n) ==
    /\ IsText(u) /\ IsText(v) /\ m \in Nat /\ n \in Nat
    /\ m > Len(u) /\ n <= Len(u) + Len(v)

PartIsOfRight(u, v, m, n) == SubSeq(u \o v, m, n) = SubSeq(v, m - Len(u), n - Len(u))

LEMMA PartOfRight ==
    ASSUME NEW u, NEW v, NEW m, NEW n, LiesInRight(u, v, m, n)
    PROVE  PartIsOfRight(u, v, m, n)
<1>1. /\ u \in Seq(Letters) /\ v \in Seq(Letters) /\ m \in Nat /\ n \in Nat
      /\ m > Len(u) /\ n <= Len(u) + Len(v) /\ Len(u) \in Nat /\ Len(v) \in Nat
  BY LenProperties DEF LiesInRight, IsText
<1>2. CASE m <= n
  <2>1. m \in Len(u)+1 .. Len(u)+Len(v) /\ n \in Len(u)+1 .. Len(u)+Len(v)
    BY <1>1, <1>2
  <2> QED
    BY <1>1, <2>1, SubSeqOfConcat2 DEF PartIsOfRight
<1>3. CASE n < m
  <2>1. m - Len(u) \in Int /\ n - Len(u) \in Int /\ n - Len(u) < m - Len(u)
    BY <1>1, <1>3
  <2>2. SubSeq(u \o v, m, n) = <<>>
    BY <1>1, <1>3, SubSeqEmpty
  <2>3. SubSeq(v, m - Len(u), n - Len(u)) = <<>>
    BY <2>1, SubSeqEmpty
  <2> QED
    BY <2>2, <2>3 DEF PartIsOfRight
<1> QED
  BY <1>1, <1>2, <1>3

LEMMA PartOfRest ==
    ASSUME NEW s \in Seq(Letters), NEW p \in 0..Len(s),
           NEW m \in Nat \ {0}, NEW n \in 0..(Len(s) - p)
    PROVE  SubSeq(SubSeq(s, p + 1, Len(s)), m, n) = SubSeq(s, p + m, p + n)
<1>1. Len(s) \in Nat
  BY LenProperties
<1>2. SubSeq(s, 1, p) \in Seq(Letters) /\ Len(SubSeq(s, 1, p)) = p
  <2>1. 1 \in Nat \ {0} /\ (IF 1 <= p THEN p - 1 + 1 ELSE 0) = p
    BY <1>1
  <2> QED
    BY <2>1, PartIs
<1>3. /\ SubSeq(s, p + 1, Len(s)) \in Seq(Letters) /\ Len(SubSeq(s, p + 1, Len(s))) = Len(s) - p
  <2>1. p + 1 \in Nat \ {0} /\ Len(s) \in 0..Len(s)
        /\ (IF p + 1 <= Len(s) THEN Len(s) - (p + 1) + 1 ELSE 0) = Len(s) - p
    BY <1>1
  <2> QED
    BY <2>1, PartIs
<1>4. s = SubSeq(s, 1, p) \o SubSeq(s, p + 1, Len(s))
  <2>1. 1 \in 1..(Len(s) + 1) /\ p \in 0..Len(s) /\ p \in (1 - 1)..Len(s) /\ Len(s) \in p..Len(s)
    BY <1>1
  <2>2. SubSeq(s, 1, p) \o SubSeq(s, p + 1, Len(s)) = SubSeq(s, 1, Len(s))
    BY <2>1, ConcatAdjacentSubSeq
  <2> QED
    BY <2>2, SubSeqFull
<1> DEFINE a == SubSeq(s, 1, p)
           b == SubSeq(s, p + 1, Len(s))
<1> HIDE DEF a, b
<1>5. SubSeq(a \o b, p + m, p + n) = SubSeq(b, (p + m) - p, (p + n) - p)
  <2>1. p + m \in Nat /\ p + n \in Nat /\ p + m > p /\ p + n <= p + (Len(s) - p)
    BY <1>1
  <2>2. a \in Seq(Letters) /\ b \in Seq(Letters) /\ Len(a) = p /\ Len(b) = Len(s) - p
    BY <1>2, <1>3 DEF a, b
  <2>3. LiesInRight(a, b, p + m, p + n)
    BY <2>1, <2>2 DEF LiesInRight, IsText
  <2>4. PartIsOfRight(a, b, p + m, p + n)
    BY <2>3, PartOfRight
  <2> QED
    BY <2>2, <2>4 DEF PartIsOfRight
<1>6. (p + m) - p = m /\ (p + n) - p = n
  BY <1>1
<1>7. s = a \o b
  BY <1>4 DEF a, b
<1> QED
  BY <1>5, <1>6, <1>7 DEF b

LEMMA PartsJoin ==
    ASSUME NEW S, NEW s \in Seq(S), NEW p \in 0..Len(s), NEW q \in p..Len(s), NEW r \in q..Len(s)
    PROVE  SubSeq(s, p + 1, q) \o SubSeq(s, q + 1, r) = SubSeq(s, p + 1, r)
<1>1. Len(s) \in Nat
  BY LenProperties
<1>2. p + 1 \in 1..(Len(s) + 1) /\ q \in ((p + 1) - 1)..Len(s) /\ r \in q..Len(s)
  BY <1>1
<1> QED
  BY <1>2, ConcatAdjacentSubSeq

IsLoop(f, first, step, m) == f[0] = first /\ \A k \in 1..m : f[k] = step[f[k - 1]]

(* A loop of m turns that starts in the state first. *)
LEMMA TurnsExist ==
    ASSUME NEW States, NEW first \in States, NEW step \in [States -> States], NEW m \in Nat
    PROVE  \E f \in [0..m -> States] : IsLoop(f, first, step, m)
<1> DEFINE IsRun(f, n) == f[0] = first /\ \A k \in 1..n : f[k] = step[f[k - 1]]
           S == {n \in Nat : ~ \E f \in [0..n -> States] : IsRun(f, n)}
<1>1. S = {}
  <2> SUFFICES ASSUME S # {} PROVE FALSE
    OBVIOUS
  <2>1. PICK n \in S : \A l \in S : n <= l
    <3> HIDE DEF S
    <3>1. S \subseteq Nat
      BY DEF S
    <3> QED
      BY <3>1, LeastNat
  <2>2. CASE n = 0
    <3> DEFINE f == [k \in 0..0 |-> first]
    <3>1. f \in [0..0 -> States] /\ f[0] = first /\ 1..0 = {}
      OBVIOUS
    <3>2. IsRun(f, 0)
      BY <3>1
    <3> QED
      BY <2>1, <2>2, <3>1, <3>2
  <2>3. CASE n # 0
    <3>1. n - 1 \in Nat /\ n - 1 \notin S /\ n \in Nat
      <4>1. n \in Nat
        OBVIOUS
      <4> HIDE DEF S
      <4>2. n - 1 \in Nat /\ ~(n <= n - 1)
        BY <2>3, <4>1
      <4> QED
        BY <2>1, <4>1, <4>2
    <3>2. PICK g \in [0..(n - 1) -> States] : IsRun(g, n - 1)
      BY <3>1
    <3> DEFINE f == [k \in 0..n |-> IF k = n THEN step[g[n - 1]] ELSE g[k]]
    <3>3. g[n - 1] \in States /\ step[g[n - 1]] \in States
      BY <3>1
    <3>4. \A k \in 0..n : k # n => k \in 0..(n - 1)
      BY <3>1
    <3>5. f \in [0..n -> States]
      BY <3>3, <3>4
    <3>6. f[0] = first
      BY <2>3, <3>1, <3>2
    <3>7. ASSUME NEW k \in 1..n PROVE f[k] = step[f[k - 1]]
      <4>1. k - 1 \in 0..(n - 1) /\ k - 1 # n /\ k - 1 \in 0..n /\ k \in 0..n
        BY <3>1
      <4>2. f[k - 1] = g[k - 1]
        BY <4>1
      <4>3. CASE k = n
        BY <4>1, <4>2, <4>3
      <4>4. CASE k # n
        <5>1. k \in 1..(n - 1)
          BY <3>1, <4>4
        <5>2. f[k] = g[k]
          BY <4>1, <4>4
        <5> QED
          BY <3>2, <4>2, <5>1, <5>2
      <4> QED
        BY <4>3, <4>4
    <3> HIDE DEF f
    <3>8. IsRun(f, n)
      BY <3>6, <3>7
    <3> QED
      BY <2>1, <3>5, <3>8
  <2> QED
    BY <2>2, <2>3
<1>2. m \notin S
  BY <1>1
<1> QED
  BY <1>2 DEF IsLoop

(* What the last n characters of a text become, and how many matches the   *)
(* scan from the left takes in them.                                       *)
TextTurn(t, find, new, f, n) ==
    IF n = 0 THEN <<>>
    ELSE IF Len(t) - n \in Matches(t, find) THEN new \o f[n - Len(find)]
    ELSE <<t[Len(t) - n + 1]>> \o f[n - 1]

TimesTurn(t, find, f, n) ==
    IF n = 0 THEN 0
    ELSE IF Len(t) - n \in Matches(t, find) THEN f[n - Len(find)] + 1
    ELSE f[n - 1]

Becomes(t, find, new) ==
    CHOOSE f : f = [n \in 0..Len(t) |-> TextTurn(t, find, new, f, n)]
Times(t, find) ==
    CHOOSE f : f = [n \in 0..Len(t) |-> TimesTurn(t, find, f, n)]

LEMMA MatchFits ==
    ASSUME NEW t, NEW find, IsText(t), IsText(find), Len(find) >= 1,
           NEW i \in Matches(t, find)
    PROVE  /\ i \in Nat /\ i + Len(find) <= Len(t) /\ i < Len(t)
           /\ SubSeq(t, i + 1, i + Len(find)) = find
BY LenProperties DEF IsText, Matches

AreBoth(t, find, new, m, f, g) ==
    /\ f = [n \in 0..m |-> TextTurn(t, find, new, f, n)]
    /\ g = [n \in 0..m |-> TimesTurn(t, find, g, n)]

LEMMA BothExist ==
    ASSUME NEW t, NEW find, NEW new, IsText(t), IsText(find), Len(find) >= 1,
           NEW m \in 0..Len(t)
    PROVE  \E f, g : AreBoth(t, find, new, m, f, g)
<1> DEFINE IsBoth(f, g, l) == /\ f = [n \in 0..l |-> TextTurn(t, find, new, f, n)]
                              /\ g = [n \in 0..l |-> TimesTurn(t, find, g, n)]
           S == {l \in Nat : l <= Len(t) /\ ~ \E f, g : IsBoth(f, g, l)}
<1>0. Len(t) \in Nat /\ Len(find) \in Nat
  BY LenProperties DEF IsText
<1>1. S = {}
  <2> SUFFICES ASSUME S # {} PROVE FALSE
    OBVIOUS
  <2>1. PICK l \in S : \A k \in S : l <= k
    <3> HIDE DEF S
    <3>1. S \subseteq Nat
      BY DEF S
    <3> QED
      BY <3>1, LeastNat
  <2>1a. l \in Nat /\ l <= Len(t) /\ ~ \E f, g : IsBoth(f, g, l)
    OBVIOUS
  <2>2. CASE l = 0
    <3> DEFINE f == [n \in 0..0 |-> <<>>]
               g == [n \in 0..0 |-> 0]
    <3>1. \A n \in 0..0 : TextTurn(t, find, new, f, n) = <<>> /\ TimesTurn(t, find, g, n) = 0
      BY DEF TextTurn, TimesTurn
    <3>2. IsBoth(f, g, 0)
      BY <3>1
    <3> HIDE DEF f, g
    <3> QED
      BY <2>1a, <2>2, <3>2
  <2>3. CASE l # 0
    <3>1. l - 1 \in Nat /\ l - 1 \notin S /\ l - 1 <= Len(t)
      <4> HIDE DEF S
      <4>1. l - 1 \in Nat /\ ~(l <= l - 1) /\ l - 1 <= Len(t)
        BY <1>0, <2>1a, <2>3
      <4> QED
        BY <2>1, <4>1
    <3>2. PICK a, b : IsBoth(a, b, l - 1)
      BY <3>1
    <3> DEFINE f == [n \in 0..l |-> IF n = l THEN TextTurn(t, find, new, a, l) ELSE a[n]]
               g == [n \in 0..l |-> IF n = l THEN TimesTurn(t, find, b, l) ELSE b[n]]
    <3>3. ASSUME NEW n \in 0..l
          PROVE  /\ TextTurn(t, find, new, f, n) = TextTurn(t, find, new, a, n)
                 /\ TimesTurn(t, find, g, n) = TimesTurn(t, find, b, n)
      <4>1. CASE n = 0
        BY <4>1 DEF TextTurn, TimesTurn
      <4>2. CASE n # 0
        <5>1. n - 1 \in 0..l /\ n - 1 # l
          BY <2>1a, <4>2
        <5>2. f[n - 1] = a[n - 1] /\ g[n - 1] = b[n - 1]
          BY <5>1
        <5>3. ASSUME Len(t) - n \in Matches(t, find)
              PROVE  f[n - Len(find)] = a[n - Len(find)] /\ g[n - Len(find)] = b[n - Len(find)]
          <6>1. (Len(t) - n) + Len(find) <= Len(t)
            BY <5>3, MatchFits
          <6>2. n - Len(find) \in 0..l /\ n - Len(find) # l
            BY <1>0, <2>1a, <4>2, <6>1
          <6> QED
            BY <6>2
        <5> HIDE DEF f, g
        <5> QED
          BY <4>2, <5>2, <5>3 DEF TextTurn, TimesTurn
      <4> QED
        BY <4>1, <4>2
    <3>4. ASSUME NEW n \in 0..l
          PROVE  f[n] = TextTurn(t, find, new, a, n) /\ g[n] = TimesTurn(t, find, b, n)
      <4>1. CASE n = l
        BY <4>1
      <4>2. CASE n # l
        <5>1. n \in 0..(l - 1)
          BY <2>1a, <4>2
        <5>2. a[n] = TextTurn(t, find, new, a, n) /\ b[n] = TimesTurn(t, find, b, n)
          <6>1. a = [k \in 0..(l - 1) |-> TextTurn(t, find, new, a, k)]
                /\ b = [k \in 0..(l - 1) |-> TimesTurn(t, find, b, k)]
            BY <3>2
          <6> QED
            BY <5>1, <6>1
        <5>3. f[n] = a[n] /\ g[n] = b[n]
          BY <4>2
        <5> QED
          BY <5>2, <5>3
      <4> QED
        BY <4>1, <4>2
    <3>5. f = [n \in 0..l |-> f[n]] /\ g = [n \in 0..l |-> g[n]]
      OBVIOUS
    <3> HIDE DEF f, g
    <3>6. f = [n \in 0..l |-> TextTurn(t, find, new, f, n)]
      BY <3>3, <3>4, <3>5
    <3>7. g = [n \in 0..l |-> TimesTurn(t, find, g, n)]
      BY <3>3, <3>4, <3>5
    <3> QED
      BY <2>1a, <3>6, <3>7
  <2> QED
    BY <2>2, <2>3
<1>2. m \in Nat /\ m <= Len(t)
  BY <1>0
<1>3. m \notin S
  BY <1>1
<1> QED
  BY <1>2, <1>3 DEF AreBoth

(* What the definitions say, one character after the other. *)
LEMMA BecomesIs ==
    ASSUME NEW t, NEW find, NEW new, IsText(t), IsText(find), Len(find) >= 1,
           NEW n \in 0..Len(t)
    PROVE  /\ Becomes(t, find, new)[n] = TextTurn(t, find, new, Becomes(t, find, new), n)
           /\ Times(t, find)[n] = TimesTurn(t, find, Times(t, find), n)
<1>1. Len(t) \in 0..Len(t)
  BY LenProperties DEF IsText
<1>2. \E f, g : AreBoth(t, find, new, Len(t), f, g)
  BY <1>1, BothExist
<1>3. Becomes(t, find, new) =
        [k \in 0..Len(t) |-> TextTurn(t, find, new, Becomes(t, find, new), k)]
  BY <1>2 DEF Becomes, AreBoth
<1>4. Times(t, find) = [k \in 0..Len(t) |-> TimesTurn(t, find, Times(t, find), k)]
  BY <1>2 DEF Times, AreBoth
<1> DEFINE f == Becomes(t, find, new)
           g == Times(t, find)
<1>5. f = [k \in 0..Len(t) |-> TextTurn(t, find, new, f, k)]
      /\ g = [k \in 0..Len(t) |-> TimesTurn(t, find, g, k)]
  BY <1>3, <1>4
<1> HIDE DEF f, g
<1>6. f[n] = TextTurn(t, find, new, f, n) /\ g[n] = TimesTurn(t, find, g, n)
  BY <1>5
<1> QED
  BY <1>6 DEF f, g

LEMMA AllReplacedIs ==
    ASSUME NEW t, NEW find, NEW new
    PROVE  AllReplaced(t, find, new) = Becomes(t, find, new)[Len(t)]
BY DEF AllReplaced, Becomes, TextTurn

LEMMA JoinsAssociate ==
    ASSUME NEW a \in Seq(Letters), NEW b \in Seq(Letters), NEW c \in Seq(Letters)
    PROVE  (a \o b) \o c = a \o (b \o c)
BY ConcatAssociative

(* How long what a text becomes is, and that nothing changes without a match. *)
BecomesRight(t, find, new, n) ==
    /\ IsText(Becomes(t, find, new)[n])
    /\ Times(t, find)[n] \in Nat
    /\ Len(Becomes(t, find, new)[n]) = n + (Len(new) - Len(find)) * Times(t, find)[n]
    /\ Times(t, find)[n] = 0 => Becomes(t, find, new)[n] = SubSeq(t, Len(t) - n + 1, Len(t))

LEMMA BecomesRightStep ==
    ASSUME NEW t, NEW find, NEW new, IsText(t), IsText(find), IsText(new), Len(find) >= 1,
           NEW n \in 0..Len(t), \A k \in 0..(n - 1) : BecomesRight(t, find, new, k)
    PROVE  BecomesRight(t, find, new, n)
<1> DEFINE f == Becomes(t, find, new)
           g == Times(t, find)
           d == Len(new) - Len(find)
<1>1. Len(t) \in Nat /\ Len(find) \in Nat /\ Len(new) \in Nat /\ n \in Nat
  BY LenProperties DEF IsText
<1>2. f[n] = TextTurn(t, find, new, f, n) /\ g[n] = TimesTurn(t, find, g, n)
  BY BecomesIs
<1>3. \A k \in 0..(n - 1) :
        /\ f[k] \in Seq(Letters) /\ g[k] \in Nat /\ Len(f[k]) = k + d * g[k]
        /\ g[k] = 0 => f[k] = SubSeq(t, Len(t) - k + 1, Len(t))
  BY DEF BecomesRight, IsText
<1>4. SUFFICES /\ f[n] \in Seq(Letters) /\ g[n] \in Nat /\ Len(f[n]) = n + d * g[n]
               /\ g[n] = 0 => f[n] = SubSeq(t, Len(t) - n + 1, Len(t))
  BY DEF BecomesRight, IsText
<1>5. d \in Int
  BY <1>1
<1> HIDE DEF f, g, d
<1>6. CASE n = 0
  <2>1. f[n] = <<>> /\ g[n] = 0
    BY <1>2, <1>6 DEF TextTurn, TimesTurn
  <2>2. SubSeq(t, Len(t) - n + 1, Len(t)) = <<>>
    <3>1. Len(t) - n + 1 \in Int /\ Len(t) \in Int /\ Len(t) < Len(t) - n + 1
      BY <1>1, <1>6
    <3> QED
      BY <3>1, SubSeqEmpty
  <2>3. d * 0 = 0
    BY <1>5
  <2> QED
    BY <1>6, <2>1, <2>2, <2>3, EmptySeq
<1>7. CASE n # 0 /\ Len(t) - n \in Matches(t, find)
  <2>1. f[n] = new \o f[n - Len(find)] /\ g[n] = g[n - Len(find)] + 1
    BY <1>2, <1>7 DEF TextTurn, TimesTurn
  <2>2. (Len(t) - n) + Len(find) <= Len(t)
    BY <1>7, MatchFits
  <2>3. n - Len(find) \in 0..(n - 1)
    BY <1>1, <2>2
  <2>4. /\ f[n - Len(find)] \in Seq(Letters) /\ g[n - Len(find)] \in Nat
        /\ Len(f[n - Len(find)]) = (n - Len(find)) + d * g[n - Len(find)]
    BY <1>3, <2>3
  <2>5. f[n] \in Seq(Letters) /\ Len(f[n]) = Len(new) + Len(f[n - Len(find)])
    BY <2>1, <2>4, ConcatProperties DEF IsText
  <2>6. \A a \in Nat : d * (a + 1) = d * a + d
    BY <1>5
  <2>7. d * g[n] = d * g[n - Len(find)] + d
    BY <2>1, <2>4, <2>6
  <2>8. d * g[n - Len(find)] \in Int /\ d * g[n] \in Int
    BY <1>5, <2>1, <2>4
  <2>9. Len(f[n]) = n + d * g[n]
    BY <1>1, <2>4, <2>5, <2>7, <2>8 DEF d
  <2>10. g[n] \in Nat /\ g[n] # 0
    BY <2>1, <2>4
  <2> QED
    BY <2>5, <2>9, <2>10
<1>8. CASE n # 0 /\ Len(t) - n \notin Matches(t, find)
  <2>1. f[n] = <<t[Len(t) - n + 1]>> \o f[n - 1] /\ g[n] = g[n - 1]
    BY <1>2, <1>8 DEF TextTurn, TimesTurn
  <2>2. n - 1 \in 0..(n - 1) /\ Len(t) - n + 1 \in 1..Len(t) /\ Len(t) \in (Len(t) - n + 1)..Len(t)
        /\ (Len(t) - n + 1) + 1 = Len(t) - (n - 1) + 1
    BY <1>1, <1>8
  <2>3. /\ f[n - 1] \in Seq(Letters) /\ g[n - 1] \in Nat
        /\ Len(f[n - 1]) = (n - 1) + d * g[n - 1]
        /\ g[n - 1] = 0 => f[n - 1] = SubSeq(t, Len(t) - (n - 1) + 1, Len(t))
    BY <1>3, <2>2
  <2>4. t[Len(t) - n + 1] \in Letters
    BY <2>2, ElementOfSeq DEF IsText
  <2>5. <<t[Len(t) - n + 1]>> \in Seq(Letters) /\ Len(<<t[Len(t) - n + 1]>>) = 1
    BY <2>4
  <2>6. f[n] \in Seq(Letters) /\ Len(f[n]) = 1 + Len(f[n - 1])
    BY <2>1, <2>3, <2>5, ConcatProperties
  <2>7. d * g[n - 1] \in Int
    BY <1>5, <2>3
  <2>8. Len(f[n]) = n + d * g[n]
    BY <1>1, <2>1, <2>3, <2>6, <2>7
  <2>9. SubSeq(t, Len(t) - n + 1, Len(t))
          = <<t[Len(t) - n + 1]>> \o SubSeq(t, (Len(t) - n + 1) + 1, Len(t))
    BY <2>2, SubSeqRecursiveFirst DEF IsText
  <2>10. g[n] = 0 => f[n] = SubSeq(t, Len(t) - n + 1, Len(t))
    BY <2>1, <2>2, <2>3, <2>9
  <2> QED
    BY <2>1, <2>3, <2>6, <2>8, <2>10
<1> QED
  BY <1>6, <1>7, <1>8

LEMMA BecomesIsRight ==
    ASSUME NEW t, NEW find, NEW new, IsText(t), IsText(find), IsText(new), Len(find) >= 1,
           NEW n \in 0..Len(t)
    PROVE  BecomesRight(t, find, new, n)
<1> DEFINE S == {k \in 0..Len(t) : ~BecomesRight(t, find, new, k)}
<1>1. Len(t) \in Nat
  BY LenProperties DEF IsText
<1>2. S = {}
  <2> SUFFICES ASSUME S # {} PROVE FALSE
    OBVIOUS
  <2>1. S \subseteq Nat
    BY <1>1
  <2>2. PICK k \in S : \A l \in S : k <= l
    <3> HIDE DEF S
    <3> QED
      BY <2>1, LeastNat
  <2>3. k \in 0..Len(t) /\ ~BecomesRight(t, find, new, k) /\ k \in Nat
    BY <1>1
  <2>4. ASSUME NEW l \in 0..(k - 1) PROVE BecomesRight(t, find, new, l)
    <3>1. l \in 0..Len(t) /\ ~(k <= l)
      BY <1>1, <2>3
    <3>2. l \notin S
      BY <2>2, <3>1
    <3> QED
      BY <3>1, <3>2
  <2> HIDE DEF S
  <2>5. BecomesRight(t, find, new, k)
    BY <2>3, <2>4, BecomesRightStep
  <2> QED
    BY <2>3, <2>5
<1>3. n \notin S
  BY <1>2
<1> QED
  BY <1>3

(* What no match touches stays as it is. *)
Untouched(t, find, p, q) == \A i \in p..(q - 1) : i \notin Matches(t, find)

LEMMA UntouchedStays ==
    ASSUME NEW t, NEW find, NEW new, IsText(t), IsText(find), IsText(new), Len(find) >= 1,
           NEW q \in 0..Len(t), NEW p \in 0..q, Untouched(t, find, p, q)
    PROVE  /\ Becomes(t, find, new)[Len(t) - p] =
                SubSeq(t, p + 1, q) \o Becomes(t, find, new)[Len(t) - q]
           /\ Times(t, find)[Len(t) - p] = Times(t, find)[Len(t) - q]
<1> DEFINE f == Becomes(t, find, new)
           g == Times(t, find)
           Good(k) == /\ f[Len(t) - k] = SubSeq(t, k + 1, q) \o f[Len(t) - q]
                      /\ g[Len(t) - k] = g[Len(t) - q]
           S == {l \in 0..(q - p) : ~Good(q - l)}
<1>1. Len(t) \in Nat /\ t \in Seq(Letters) /\ q \in Nat /\ p \in Nat /\ q - p \in Nat
  BY LenProperties DEF IsText
<1>2. \A k \in 0..Len(t) : f[k] \in Seq(Letters)
  BY BecomesIsRight DEF BecomesRight, IsText
<1>3. \A n \in 0..Len(t) : f[n] = TextTurn(t, find, new, f, n) /\ g[n] = TimesTurn(t, find, g, n)
  BY BecomesIs
<1> HIDE DEF f, g, Good
<1>4. S = {}
  <2> SUFFICES ASSUME S # {} PROVE FALSE
    OBVIOUS
  <2>1. S \subseteq Nat
    BY <1>1
  <2>2. PICK l \in S : \A m \in S : l <= m
    <3> HIDE DEF S
    <3> QED
      BY <2>1, LeastNat
  <2>3. l \in 0..(q - p) /\ l \in Nat /\ ~Good(q - l)
    BY <1>1
  <2> DEFINE k == q - l
  <2>4. k \in p..q /\ k \in Nat /\ k <= Len(t)
    BY <1>1, <2>3
  <2>5. CASE l = 0
    <3>1. k = q
      BY <1>1, <2>5
    <3>2. SubSeq(t, q + 1, q) = <<>>
      <4>1. q + 1 \in Int /\ q \in Int /\ q < q + 1
        BY <1>1
      <4> QED
        BY <4>1, SubSeqEmpty
    <3>3. Len(t) - q \in 0..Len(t)
      BY <1>1
    <3>4. <<>> \o f[Len(t) - q] = f[Len(t) - q]
      BY <1>2, <3>3, ConcatEmptySeq
    <3> QED
      <4>1. f[Len(t) - q] = SubSeq(t, q + 1, q) \o f[Len(t) - q]
        BY <3>2, <3>4
      <4>2. Good(q)
        BY <4>1 DEF Good
      <4> QED
        BY <2>3, <3>1, <4>2
  <2>6. CASE l # 0
    <3>1. l - 1 \in 0..(q - p) /\ ~(l <= l - 1) /\ q - (l - 1) = k + 1
      BY <1>1, <2>3, <2>6
    <3>2. l - 1 \notin S
      BY <2>2, <3>1
    <3>3. Good(k + 1)
      BY <3>1, <3>2
    <3>4. k \in p..(q - 1) /\ k + 1 \in 1..Len(t) /\ q \in (k + 1)..Len(t)
      BY <1>1, <2>3, <2>4, <2>6
    <3> HIDE DEF k, S
    <3>5. k \notin Matches(t, find)
      BY <3>4 DEF Untouched
    <3>6. Len(t) - k \in 0..Len(t) /\ Len(t) - k # 0 /\ Len(t) - (Len(t) - k) = k
          /\ (Len(t) - k) - 1 = Len(t) - (k + 1)
      BY <1>1, <2>4, <3>4
    <3>7. /\ f[Len(t) - k] = <<t[k + 1]>> \o f[Len(t) - (k + 1)]
          /\ g[Len(t) - k] = g[Len(t) - (k + 1)]
      BY <1>3, <3>5, <3>6 DEF TextTurn, TimesTurn
    <3>8. SubSeq(t, k + 1, q) = <<t[k + 1]>> \o SubSeq(t, (k + 1) + 1, q)
      BY <1>1, <3>4, SubSeqRecursiveFirst
    <3>9. /\ <<t[k + 1]>> \in Seq(Letters)
          /\ SubSeq(t, (k + 1) + 1, q) \in Seq(Letters)
          /\ f[Len(t) - q] \in Seq(Letters)
      <4>1. t[k + 1] \in Letters
        BY <1>1, <3>4, ElementOfSeq
      <4>2. (k + 1) + 1 \in Nat \ {0} /\ q \in 0..Len(t) /\ Len(t) - q \in 0..Len(t)
        BY <1>1, <3>4
      <4>3. SubSeq(t, (k + 1) + 1, q) \in Seq(Letters)
        BY <1>1, <4>2, PartIs
      <4> QED
        BY <1>2, <4>1, <4>2, <4>3
    <3>10. /\ f[Len(t) - (k + 1)] = SubSeq(t, (k + 1) + 1, q) \o f[Len(t) - q]
           /\ g[Len(t) - (k + 1)] = g[Len(t) - q]
      BY <3>3 DEF Good
    <3>11. f[Len(t) - k] = SubSeq(t, k + 1, q) \o f[Len(t) - q]
      <4> DEFINE a == <<t[k + 1]>>
                 b == SubSeq(t, (k + 1) + 1, q)
                 c == f[Len(t) - q]
      <4>1. a \in Seq(Letters) /\ b \in Seq(Letters) /\ c \in Seq(Letters)
        BY <3>9
      <4>2. f[Len(t) - k] = a \o (b \o c) /\ SubSeq(t, k + 1, q) = a \o b
        BY <3>7, <3>8, <3>10
      <4> HIDE DEF a, b, c
      <4>3. (a \o b) \o c = a \o (b \o c)
        BY <4>1, JoinsAssociate
      <4> QED
        BY <4>2, <4>3 DEF c
    <3>12. Good(k)
      BY <3>7, <3>10, <3>11 DEF Good
    <3> QED
      BY <2>3, <3>12 DEF k
  <2> QED
    BY <2>5, <2>6
<1>5. q - p \notin S /\ q - p \in 0..(q - p) /\ q - (q - p) = p
  <2>1. q - p \notin S
    BY <1>4
  <2> HIDE DEF S
  <2> QED
    BY <1>1, <2>1
<1>6. Good(p)
  BY <1>5
<1> QED
  BY <1>6 DEF f, g, Good

LEMMA LeastIs ==
    ASSUME NEW S, S \subseteq Nat, S # {}
    PROVE  Min(S) \in S /\ \A k \in S : Min(S) <= k
<1>1. PICK m \in S : \A k \in S : m <= k
  BY LeastNat
<1>2. Min(S) = m
  <2>1. S \subseteq Int
    OBVIOUS
  <2> QED
    BY <1>1, <2>1, MinIs
<1> QED
  BY <1>1, <1>2

LEMMA SplicedIsText ==
    ASSUME NEW t, NEW new, IsText(t), IsText(new), NEW i \in Nat, NEW n \in Nat, i + n <= Len(t)
    PROVE  IsText(Spliced(t, i, n, new))
<1>1. Len(t) \in Nat
  BY LenProperties DEF IsText
<1>2. 1 \in Nat \ {0} /\ i \in 0..Len(t) /\ i + n + 1 \in Nat \ {0} /\ Len(t) \in 0..Len(t)
  BY <1>1
<1>3. SubSeq(t, 1, i) \in Seq(Letters) /\ SubSeq(t, i + n + 1, Len(t)) \in Seq(Letters)
  BY <1>2, PartIs DEF IsText
<1>4. SubSeq(t, 1, i) \o new \in Seq(Letters)
  BY <1>3, ConcatProperties DEF IsText
<1> QED
  BY <1>3, <1>4, ConcatProperties DEF Spliced, IsText

(* Where the rest of a text stands behind something else, its matches are  *)
(* those of the text.                                                      *)
LEMMA RestMatches ==
    ASSUME NEW t, NEW find, NEW before, IsText(t), IsText(find), IsText(before), Len(find) >= 1,
           NEW p \in 0..Len(t), NEW i \in Nat, i >= Len(before)
    PROVE  i \in Matches(before \o SubSeq(t, p + 1, Len(t)), find)
             <=> p + (i - Len(before)) \in Matches(t, find)
<1> DEFINE rest == SubSeq(t, p + 1, Len(t))
           b == before \o rest
           j == i - Len(before)
           F == Len(find)
<1>1. /\ t \in Seq(Letters) /\ before \in Seq(Letters)
      /\ Len(t) \in Nat /\ F \in Nat /\ F >= 1 /\ Len(before) \in Nat /\ j \in Nat /\ p \in Nat
  BY LenProperties DEF IsText
<1>2. rest \in Seq(Letters) /\ Len(rest) = Len(t) - p
  <2>1. p + 1 \in Nat \ {0} /\ Len(t) \in 0..Len(t)
        /\ (IF p + 1 <= Len(t) THEN Len(t) - (p + 1) + 1 ELSE 0) = Len(t) - p
    BY <1>1
  <2> QED
    BY <1>1, <2>1, PartIs
<1>3. Len(b) = Len(before) + (Len(t) - p)
  <2> HIDE DEF rest
  <2>1. Len(before \o rest) = Len(before) + Len(rest)
    BY <1>1, <1>2, ConcatProperties
  <2> QED
    BY <1>2, <2>1
<1>4. i = Len(before) + j
  BY <1>1
<1> HIDE DEF F
<1>5. i \in 0..(Len(b) - F) <=> p + j \in 0..(Len(t) - F)
  <2> HIDE DEF b, j, rest
  <2> QED
    BY <1>1, <1>3, <1>4
<1>6. ASSUME p + j \in 0..(Len(t) - F)
      PROVE  SubSeq(b, i + 1, i + F) = SubSeq(t, (p + j) + 1, (p + j) + F)
  <2>1. SubSeq(b, i + 1, i + F) = SubSeq(rest, (i + 1) - Len(before), (i + F) - Len(before))
    <3>1. i + 1 \in Nat /\ i + F \in Nat /\ i + 1 > Len(before)
          /\ i + F <= Len(before) + Len(rest)
      <4> HIDE DEF rest, j
      <4> QED
        BY <1>1, <1>2, <1>4, <1>6
    <3> HIDE DEF rest
    <3>2. LiesInRight(before, rest, i + 1, i + F)
      BY <1>1, <1>2, <3>1 DEF LiesInRight, IsText
    <3>3. PartIsOfRight(before, rest, i + 1, i + F)
      BY <3>2, PartOfRight
    <3> QED
      BY <3>3 DEF PartIsOfRight
  <2>2. (i + 1) - Len(before) = j + 1 /\ (i + F) - Len(before) = j + F
    BY <1>1
  <2>3. SubSeq(rest, j + 1, j + F) = SubSeq(t, p + (j + 1), p + (j + F))
    <3>1. j + 1 \in Nat \ {0} /\ j + F \in 0..(Len(t) - p)
      <4> HIDE DEF j
      <4> QED
        BY <1>1, <1>6
    <3> HIDE DEF j
    <3> QED
      BY <1>1, <3>1, PartOfRest
  <2>4. p + (j + 1) = (p + j) + 1 /\ p + (j + F) = (p + j) + F
    <3> HIDE DEF j
    <3> QED
      BY <1>1
  <2> HIDE DEF b, rest, j
  <2> QED
    BY <2>1, <2>2, <2>3, <2>4
<1>7. i \in Matches(b, find) <=> p + j \in Matches(t, find)
  <2> HIDE DEF b, rest, j
  <2> QED
    BY <1>5, <1>6 DEF Matches, F
<1> QED
  BY <1>7

-----------------------------------------------------------------------------
(* The loops that read forward. *)
ForwardStates == [buffer : Seq(Letters), from : Nat, count : Nat]

Ahead(find, now) == {i \in Matches(now.buffer, find) : i >= now.from}

ForwardStep(find, new, now) ==
    IF Ahead(find, now) = {} THEN now
    ELSE [buffer |-> Spliced(now.buffer, Min(Ahead(find, now)), Len(find), new),
          from |-> Min(Ahead(find, now)) + Len(new), count |-> now.count + 1]

ForwardTurn(t, find, new, f, k) ==
    IF k = 0 THEN [buffer |-> t, from |-> 0, count |-> 0] ELSE ForwardStep(find, new, f[k - 1])

LEMMA AheadIs ==
    ASSUME NEW find, IsText(find), Len(find) >= 1, NEW now \in ForwardStates, Ahead(find, now) # {}
    PROVE  /\ Min(Ahead(find, now)) \in Matches(now.buffer, find)
           /\ Min(Ahead(find, now)) >= now.from /\ Min(Ahead(find, now)) \in Nat
           /\ Min(Ahead(find, now)) + Len(find) <= Len(now.buffer)
           /\ \A i \in Matches(now.buffer, find) : i >= now.from => Min(Ahead(find, now)) <= i
<1>1. now.buffer \in Seq(Letters) /\ now.from \in Nat
  BY DEF ForwardStates
<1>2. Ahead(find, now) \subseteq Nat
  BY <1>1, MatchFits DEF Ahead, IsText
<1>3. Min(Ahead(find, now)) \in Ahead(find, now)
      /\ \A k \in Ahead(find, now) : Min(Ahead(find, now)) <= k
  BY <1>2, LeastIs
<1>4. Min(Ahead(find, now)) \in Matches(now.buffer, find) /\ Min(Ahead(find, now)) >= now.from
  BY <1>3 DEF Ahead
<1>5. \A i \in Matches(now.buffer, find) : i >= now.from => Min(Ahead(find, now)) <= i
  BY <1>3 DEF Ahead
<1>6. Min(Ahead(find, now)) + Len(find) <= Len(now.buffer) /\ Min(Ahead(find, now)) \in Nat
  BY <1>1, <1>4, MatchFits DEF IsText
<1> QED
  BY <1>4, <1>5, <1>6

LEMMA ForwardStepIs ==
    ASSUME NEW find, NEW new, IsText(find), IsText(new), Len(find) >= 1, NEW now \in ForwardStates
    PROVE  ForwardStep(find, new, now) \in ForwardStates
<1>1. now.buffer \in Seq(Letters) /\ now.from \in Nat /\ now.count \in Nat
  BY DEF ForwardStates
<1>2. CASE Ahead(find, now) = {}
  BY <1>2 DEF ForwardStep
<1>3. CASE Ahead(find, now) # {}
  <2>1. Min(Ahead(find, now)) \in Nat /\ Len(find) \in Nat /\ Len(new) \in Nat
        /\ Min(Ahead(find, now)) + Len(find) <= Len(now.buffer)
    BY <1>3, AheadIs, LenProperties DEF IsText
  <2>2. Spliced(now.buffer, Min(Ahead(find, now)), Len(find), new) \in Seq(Letters)
    BY <1>1, <2>1, SplicedIsText DEF IsText
  <2>3. Min(Ahead(find, now)) + Len(new) \in Nat /\ now.count + 1 \in Nat
    BY <1>1, <2>1
  <2> QED
    BY <1>3, <2>2, <2>3 DEF ForwardStep, ForwardStates
<1> QED
  BY <1>2, <1>3

GoesForward(t, find, new, f) ==
    /\ f[0] = [buffer |-> t, from |-> 0, count |-> 0]
    /\ \A k \in 1..Len(t) : f[k] = ForwardStep(find, new, f[k - 1])
    /\ Forward(t, find, new) = f[Len(t)]

LEMMA ForwardTurns ==
    ASSUME NEW t, NEW find, NEW new, IsText(t), IsText(find), IsText(new), Len(find) >= 1
    PROVE  \E f : GoesForward(t, find, new, f)
<1> DEFINE base == [buffer |-> t, from |-> 0, count |-> 0]
           next == [now \in ForwardStates |-> ForwardStep(find, new, now)]
           turn == CHOOSE f : f = [k \in 0..Len(t) |-> ForwardTurn(t, find, new, f, k)]
<1>1. Len(t) \in Nat
  BY LenProperties DEF IsText
<1>2. base \in ForwardStates
  BY DEF IsText, ForwardStates
<1>3. next \in [ForwardStates -> ForwardStates]
  BY ForwardStepIs
<1>4. \E f : f = [k \in 0..Len(t) |-> ForwardTurn(t, find, new, f, k)]
  <2> HIDE DEF base, next
  <2>0. PICK f \in [0..Len(t) -> ForwardStates] : IsLoop(f, base, next, Len(t))
    BY <1>1, <1>2, <1>3, TurnsExist
  <2>1. f[0] = base /\ \A k \in 1..Len(t) : f[k] = next[f[k - 1]]
    BY <2>0 DEF IsLoop
  <2>2. ASSUME NEW k \in 0..Len(t) PROVE f[k] = ForwardTurn(t, find, new, f, k)
    <3>1. CASE k = 0
      BY <2>1, <3>1 DEF ForwardTurn, base
    <3>2. CASE k # 0
      <4>1. k \in 1..Len(t) /\ k - 1 \in 0..Len(t)
        BY <1>1, <3>2
      <4>2. f[k - 1] \in ForwardStates /\ f[k] = next[f[k - 1]]
        BY <2>1, <4>1
      <4>3. next[f[k - 1]] = ForwardStep(find, new, f[k - 1])
        BY <4>2 DEF next
      <4> QED
        BY <3>2, <4>2, <4>3 DEF ForwardTurn
    <3> QED
      BY <3>1, <3>2
  <2>3. f = [k \in 0..Len(t) |-> ForwardTurn(t, find, new, f, k)]
    BY <2>2
  <2> QED
    BY <2>3
<1>5. turn = [k \in 0..Len(t) |-> ForwardTurn(t, find, new, turn, k)]
  BY <1>4
<1>6. Forward(t, find, new) = turn[Len(t)]
  BY DEF Forward, ForwardTurn, ForwardStep, Ahead
<1> HIDE DEF turn
<1>7. turn[0] = base
  <2>1. 0 \in 0..Len(t)
    BY <1>1
  <2> QED
    BY <1>5, <2>1 DEF ForwardTurn
<1>8. ASSUME NEW k \in 1..Len(t) PROVE turn[k] = ForwardStep(find, new, turn[k - 1])
  <2>1. k \in 0..Len(t) /\ k # 0
    BY <1>1
  <2> QED
    BY <1>5, <2>1 DEF ForwardTurn
<1> QED
  BY <1>6, <1>7, <1>8 DEF GoesForward

(* A text whose rest stands behind something else, spliced in its rest. *)
SplicesInRest(t, before, new, p, q, n, at) ==
    /\ IsText(t) /\ IsText(before) /\ IsText(new)
    /\ p \in 0..Len(t) /\ q \in p..Len(t) /\ n \in 0..(Len(t) - q)
    /\ at = Len(before) + (q - p)

RestSpliced(t, before, new, p, q, n, at) ==
    Spliced(before \o SubSeq(t, p + 1, Len(t)), at, n, new)
      = ((before \o SubSeq(t, p + 1, q)) \o new) \o SubSeq(t, (q + n) + 1, Len(t))

LEMMA SplicedInRest ==
    ASSUME NEW t, NEW before, NEW new, NEW p, NEW q, NEW n, NEW at,
           SplicesInRest(t, before, new, p, q, n, at)
    PROVE  RestSpliced(t, before, new, p, q, n, at)
<1> DEFINE rest == SubSeq(t, p + 1, Len(t))
           whole == before \o rest
           e == Len(before)
<1>1. /\ t \in Seq(Letters) /\ before \in Seq(Letters) /\ e = Len(before)
      /\ Len(t) \in Nat /\ e \in Nat /\ p \in Nat /\ q \in Nat /\ n \in Nat
      /\ p <= q /\ q + n <= Len(t) /\ at = e + (q - p)
      /\ p \in 0..Len(t) /\ q \in p..Len(t) /\ n \in 0..(Len(t) - q)
  BY LenProperties DEF IsText, SplicesInRest
<1>2. rest \in Seq(Letters) /\ Len(rest) = Len(t) - p
  <2>1. p + 1 \in Nat \ {0} /\ Len(t) \in 0..Len(t)
        /\ (IF p + 1 <= Len(t) THEN Len(t) - (p + 1) + 1 ELSE 0) = Len(t) - p
    BY <1>1
  <2> QED
    BY <1>1, <2>1, PartIs
<1> HIDE DEF rest, e
<1>3. Len(whole) = e + (Len(t) - p)
  <2>1. Len(before \o rest) = Len(before) + Len(rest)
    BY <1>1, <1>2, ConcatProperties
  <2> QED
    BY <1>1, <1>2, <2>1
<1>4. at = e + (q - p)
  BY <1>1
<1>5. SubSeq(whole, 1, at) = before \o SubSeq(t, p + 1, q)
  <2>1. at \in Len(before)..(Len(before) + Len(rest)) /\ at - Len(before) = q - p
    BY <1>1, <1>2, <1>4
  <2>2. SubSeq(before \o rest, 1, at) = before \o SubSeq(rest, 1, at - Len(before))
    BY <1>1, <1>2, <2>1, PartOfLeft
  <2>3. 1 \in Nat \ {0} /\ q - p \in 0..(Len(t) - p) /\ p + (q - p) = q
    BY <1>1
  <2>4. SubSeq(rest, 1, q - p) = SubSeq(t, p + 1, p + (q - p))
    BY <1>1, <2>3, PartOfRest DEF rest
  <2> QED
    BY <2>1, <2>2, <2>3, <2>4
<1>6. SubSeq(whole, at + n + 1, Len(whole)) = SubSeq(t, (q + n) + 1, Len(t))
  <2> DEFINE from == at + n + 1
             to == Len(whole)
  <2>1. /\ from \in Nat /\ to \in Nat /\ from > Len(before) /\ to <= Len(before) + Len(rest)
        /\ from - Len(before) = (q - p) + n + 1 /\ to - Len(before) = Len(t) - p
    <3> HIDE DEF whole
    <3> QED
      BY <1>1, <1>2, <1>3, <1>4
  <2> HIDE DEF from, to
  <2>2. SubSeq(before \o rest, from, to) = SubSeq(rest, from - Len(before), to - Len(before))
    <3>1. LiesInRight(before, rest, from, to)
      BY <1>1, <1>2, <2>1 DEF LiesInRight, IsText
    <3>3. PartIsOfRight(before, rest, from, to)
      BY <3>1, PartOfRight
    <3> QED
      BY <3>3 DEF PartIsOfRight
  <2>3. (q - p) + n + 1 \in Nat \ {0} /\ Len(t) - p \in 0..(Len(t) - p)
        /\ p + ((q - p) + n + 1) = (q + n) + 1 /\ p + (Len(t) - p) = Len(t)
    BY <1>1
  <2>4. SubSeq(rest, (q - p) + n + 1, Len(t) - p)
          = SubSeq(t, p + ((q - p) + n + 1), p + (Len(t) - p))
    BY <1>1, <2>3, PartOfRest DEF rest
  <2> QED
    BY <2>1, <2>2, <2>3, <2>4 DEF from, to
<1> QED
  BY <1>5, <1>6 DEF Spliced, rest, RestSpliced

(* Where a loop that reads forward is after k turns: what it wrote is what *)
(* it read becomes, and nothing that it read holds a match to come.        *)
Behindhand(t, find, new, now, p, before) ==
    /\ now.buffer = before \o SubSeq(t, p + 1, Len(t)) /\ now.from = Len(before)
    /\ before \o Becomes(t, find, new)[Len(t) - p] = Becomes(t, find, new)[Len(t)]
    /\ now.count + Times(t, find)[Len(t) - p] = Times(t, find)[Len(t)]

Going(t, find, new, now, k) ==
    /\ now \in ForwardStates
    /\ \E p \in 0..Len(t), before \in Seq(Letters) :
         /\ Behindhand(t, find, new, now, p, before)
         /\ p >= k \/ Untouched(t, find, p, Len(t))

LEMMA ForwardStepGoes ==
    ASSUME NEW t, NEW find, NEW new, IsText(t), IsText(find), IsText(new), Len(find) >= 1,
           NEW now, NEW k \in Nat, Going(t, find, new, now, k)
    PROVE  Going(t, find, new, ForwardStep(find, new, now), k + 1)
<1> DEFINE f == Becomes(t, find, new)
           g == Times(t, find)
           F == Len(find)
           L == Len(t)
           e == now.from
           rest(p) == SubSeq(t, p + 1, L)
           then == ForwardStep(find, new, now)
<1>1. /\ t \in Seq(Letters) /\ find \in Seq(Letters) /\ new \in Seq(Letters)
      /\ L \in Nat /\ F \in Nat /\ F >= 1 /\ Len(new) \in Nat
  BY LenProperties DEF IsText
<1>2. /\ now \in ForwardStates /\ now.buffer \in Seq(Letters) /\ e \in Nat /\ now.count \in Nat
      /\ then \in ForwardStates
  BY ForwardStepIs DEF Going, ForwardStates
<1>3. PICK p \in 0..L, before \in Seq(Letters) :
        /\ Behindhand(t, find, new, now, p, before)
        /\ p >= k \/ Untouched(t, find, p, L)
  BY DEF Going
<1>4. /\ now.buffer = before \o rest(p) /\ e = Len(before)
      /\ before \o f[L - p] = f[L]
      /\ now.count + g[L - p] = g[L]
  BY <1>3 DEF Behindhand
<1>5. Len(now.buffer) = e + (L - p) /\ IsText(before) /\ p \in Nat
  <2>1. p + 1 \in Nat \ {0} /\ L \in 0..L
        /\ (IF p + 1 <= L THEN L - (p + 1) + 1 ELSE 0) = L - p
    BY <1>1
  <2>2. rest(p) \in Seq(Letters) /\ Len(rest(p)) = L - p
    BY <1>1, <2>1, PartIs
  <2> HIDE DEF rest, e
  <2>3. Len(before \o rest(p)) = Len(before) + Len(rest(p))
    BY <2>2, ConcatProperties
  <2> QED
    BY <1>1, <1>4, <2>2, <2>3 DEF IsText
<1>6. \A i \in Nat : i >= e => (i \in Matches(now.buffer, find)
                                  <=> p + (i - e) \in Matches(t, find))
  BY <1>4, <1>5, RestMatches
<1> HIDE DEF F, L, e, rest, f, g
<1>7. ASSUME Ahead(find, now) = {}
      PROVE  Going(t, find, new, then, k + 1)
  <2>1. then = now
    BY <1>7 DEF ForwardStep
  <2>2. Untouched(t, find, p, L)
    <3> SUFFICES ASSUME NEW i \in p..(L - 1), i \in Matches(t, find) PROVE FALSE
      BY DEF Untouched
    <3> DEFINE j == e + (i - p)
    <3>1. j \in Nat /\ j >= e /\ p + (j - e) = i
      BY <1>1, <1>2, <1>5
    <3> HIDE DEF j
    <3>2. j \in Matches(now.buffer, find)
      BY <1>6, <3>1
    <3> QED
      BY <1>7, <3>1, <3>2 DEF Ahead, e
  <2> HIDE DEF then
  <2> QED
    BY <1>2, <1>3, <2>1, <2>2 DEF Going, L
<1>8. ASSUME Ahead(find, now) # {}
      PROVE  Going(t, find, new, then, k + 1)
  <2> DEFINE i == Min(Ahead(find, now))
             q == p + (i - e)
             X == SubSeq(t, p + 1, q)
             G == f[L - (q + F)]
             after == (before \o X) \o new
  <2>1. /\ i \in Matches(now.buffer, find) /\ i >= e /\ i \in Nat /\ i + F <= Len(now.buffer)
        /\ \A j \in Matches(now.buffer, find) : j >= e => i <= j
    BY <1>2, <1>8, AheadIs DEF F, e
  <2>2. /\ then.buffer = Spliced(now.buffer, i, F, new)
        /\ then.from = i + Len(new) /\ then.count = now.count + 1
    BY <1>8 DEF ForwardStep, F
  <2> HIDE DEF i, then
  <2>3. /\ q \in p..L /\ q \in Nat /\ q + F \in 0..L /\ F \in 0..(L - q) /\ i = e + (q - p)
        /\ L - q \in 0..L /\ L - q # 0 /\ L - (L - q) = q /\ (L - q) - F = L - (q + F)
        /\ L - (q + F) \in 0..L /\ q \in 0..L /\ p \in 0..q /\ L - p \in 0..L
    BY <1>1, <1>2, <1>5, <2>1
  <2>4. q \in Matches(t, find)
    BY <1>6, <2>1
  <2> HIDE DEF q
  <2>5. Untouched(t, find, p, q)
    <3> SUFFICES ASSUME NEW j \in p..(q - 1), j \in Matches(t, find) PROVE FALSE
      BY DEF Untouched
    <3> DEFINE m == e + (j - p)
    <3>1. m \in Nat /\ m >= e /\ p + (m - e) = j /\ ~(i <= m)
      BY <1>1, <1>2, <1>5, <2>3
    <3> HIDE DEF m
    <3>2. m \in Matches(now.buffer, find)
      BY <1>6, <3>1
    <3> QED
      BY <2>1, <3>1, <3>2
  <2>6. f[L - p] = X \o f[L - q] /\ g[L - p] = g[L - q]
    BY <1>1, <2>3, <2>5, UntouchedStays DEF f, g, L
  <2>7. f[L - q] = new \o G /\ g[L - q] = g[L - (q + F)] + 1
    <3>1. f[L - q] = TextTurn(t, find, new, f, L - q) /\ g[L - q] = TimesTurn(t, find, g, L - q)
      BY <2>3, BecomesIs DEF f, g, L
    <3> QED
      BY <2>3, <2>4, <3>1 DEF TextTurn, TimesTurn, L, F
  <2>8. G \in Seq(Letters) /\ g[L - (q + F)] \in Nat
    <3>1. BecomesRight(t, find, new, L - (q + F))
      BY <2>3, BecomesIsRight DEF L
    <3> QED
      BY <3>1 DEF BecomesRight, IsText, f, g
  <2>9. X \in Seq(Letters) /\ Len(X) = q - p
    <3>1. p + 1 \in Nat \ {0} /\ q \in 0..L /\ (IF p + 1 <= q THEN q - (p + 1) + 1 ELSE 0) = q - p
      BY <1>1, <1>5, <2>3
    <3> QED
      BY <1>1, <3>1, PartIs DEF L
  <2> HIDE DEF X, G
  <2>10. /\ before \o X \in Seq(Letters) /\ Len(before \o X) = Len(before) + (q - p)
         /\ after \in Seq(Letters) /\ Len(after) = (Len(before) + (q - p)) + Len(new)
    <3>1. before \o X \in Seq(Letters) /\ Len(before \o X) = Len(before) + (q - p)
      <4>1. before \o X \in Seq(Letters) /\ Len(before \o X) = Len(before) + Len(X)
        BY <2>9, ConcatProperties
      <4> QED
        BY <2>9, <4>1
    <3> DEFINE Y == before \o X
    <3> HIDE DEF Y
    <3>2. Y \o new \in Seq(Letters) /\ Len(Y \o new) = Len(Y) + Len(new)
      BY <1>1, <3>1, ConcatProperties DEF Y
    <3> QED
      BY <3>1, <3>2 DEF Y
  <2>11. then.buffer = after \o rest(q + F)
    <3>1. Spliced(before \o rest(p), i, F, new) = after \o rest(q + F)
      <4>1. p \in 0..Len(t) /\ q \in p..Len(t) /\ F \in 0..(Len(t) - q) /\ i = Len(before) + (q - p)
        BY <1>4, <2>3 DEF L
      <4>2. SplicesInRest(t, before, new, p, q, F, i)
        BY <1>5, <4>1 DEF SplicesInRest
      <4>3. RestSpliced(t, before, new, p, q, F, i)
        BY <4>2, SplicedInRest
      <4> QED
        BY <4>3 DEF rest, L, X, RestSpliced
    <3> QED
      BY <1>4, <2>2, <3>1
  <2>12. then.from = Len(after)
    <3> HIDE DEF after
    <3> QED
      BY <1>1, <1>2, <1>4, <2>2, <2>3, <2>10
  <2>13. after \o G = f[L]
    <3> DEFINE Y == before \o X
    <3>1. Y \in Seq(Letters)
      BY <2>10
    <3> HIDE DEF Y
    <3>2. (Y \o new) \o G = Y \o (new \o G)
      BY <1>1, <2>8, <3>1, JoinsAssociate
    <3>3. Y \o (new \o G) = (before \o X) \o (new \o G)
      BY DEF Y
    <3>4. new \o G \in Seq(Letters)
      BY <1>1, <2>8, ConcatProperties
    <3>5. (before \o X) \o (new \o G) = before \o (X \o (new \o G))
      BY <2>9, <3>4, JoinsAssociate
    <3>6. X \o (new \o G) = f[L - p]
      BY <2>6, <2>7
    <3> QED
      BY <1>4, <3>2, <3>3, <3>5, <3>6 DEF Y
  <2>14. then.count + g[L - (q + F)] = g[L]
    <3> DEFINE c == now.count
               h == g[L - (q + F)]
    <3>1. then.count = c + 1 /\ c + (h + 1) = g[L] /\ c \in Nat /\ h \in Nat
      BY <1>2, <1>4, <2>2, <2>6, <2>7, <2>8
    <3> HIDE DEF c, h
    <3>2. (c + 1) + h = g[L]
      BY <3>1
    <3> QED
      BY <3>1, <3>2 DEF h
  <2>15. q + F >= k + 1 \/ Untouched(t, find, q + F, L)
    <3>1. CASE p >= k
      BY <1>1, <1>5, <2>3, <3>1
    <3>2. CASE Untouched(t, find, p, L)
      <4>1. q \in p..(L - 1)
        BY <1>1, <1>5, <2>3
      <4> QED
        BY <2>4, <3>2, <4>1 DEF Untouched
    <3> QED
      BY <1>3, <3>1, <3>2 DEF L
  <2> HIDE DEF after
  <2>16. Behindhand(t, find, new, then, q + F, after)
    BY <2>11, <2>12, <2>13, <2>14 DEF Behindhand, f, g, L, rest, G
  <2> QED
    BY <1>2, <2>3, <2>10, <2>15, <2>16 DEF Going, L
<1> QED
  BY <1>7, <1>8

LEMMA ForwardStarts ==
    ASSUME NEW t, NEW find, NEW new, IsText(t), IsText(find), IsText(new), Len(find) >= 1
    PROVE  Going(t, find, new, [buffer |-> t, from |-> 0, count |-> 0], 0)
<1> DEFINE now == [buffer |-> t, from |-> 0, count |-> 0]
<1>1. t \in Seq(Letters) /\ Len(t) \in Nat
  BY LenProperties DEF IsText
<1>2. now \in ForwardStates
  BY <1>1 DEF ForwardStates
<1>3. <<>> \in Seq(Letters) /\ Len(<<>>) = 0 /\ 0 \in 0..Len(t)
  BY <1>1
<1>4. Len(t) - 0 = Len(t) /\ Len(t) \in 0..Len(t) /\ 0 + 1 = 1
  BY <1>1
<1>5. BecomesRight(t, find, new, Len(t))
  BY <1>4, BecomesIsRight
<1>6. <<>> \o Becomes(t, find, new)[Len(t)] = Becomes(t, find, new)[Len(t)]
  BY <1>5, ConcatEmptySeq DEF BecomesRight, IsText
<1>7. 0 + Times(t, find)[Len(t)] = Times(t, find)[Len(t)]
  BY <1>5 DEF BecomesRight
<1>8. <<>> \o SubSeq(t, 1, Len(t)) = t
  BY <1>1, ConcatEmptySeq, SubSeqFull
<1>9. Behindhand(t, find, new, now, 0, <<>>)
  BY <1>3, <1>4, <1>6, <1>7, <1>8 DEF Behindhand
<1> HIDE DEF now
<1>10. 0 >= 0
  OBVIOUS
<1>11. Going(t, find, new, now, 0)
  BY <1>2, <1>3, <1>9, <1>10 DEF Going
<1> QED
  BY <1>11 DEF now

(* replace() shrinks a text to what it becomes, and counts its matches. *)
LEMMA ForwardIs ==
    ASSUME NEW t, NEW find, NEW new, IsText(t), IsText(find), IsText(new), Len(find) >= 1
    PROVE  /\ Forward(t, find, new).buffer = Becomes(t, find, new)[Len(t)]
           /\ Forward(t, find, new).count = Times(t, find)[Len(t)]
<1>1. t \in Seq(Letters) /\ Len(t) \in Nat
  BY LenProperties DEF IsText
<1>2a. PICK f : GoesForward(t, find, new, f)
  BY ForwardTurns
<1>2. /\ f[0] = [buffer |-> t, from |-> 0, count |-> 0]
      /\ \A k \in 1..Len(t) : f[k] = ForwardStep(find, new, f[k - 1])
      /\ Forward(t, find, new) = f[Len(t)]
  BY <1>2a DEF GoesForward
<1> DEFINE S == {k \in 0..Len(t) : ~Going(t, find, new, f[k], k)}
<1>3. S = {}
  <2> SUFFICES ASSUME S # {} PROVE FALSE
    OBVIOUS
  <2>1. S \subseteq Nat
    BY <1>1
  <2>2. PICK k \in S : \A m \in S : k <= m
    <3> HIDE DEF S
    <3> QED
      BY <2>1, LeastNat
  <2>3. k \in 0..Len(t) /\ k \in Nat /\ ~Going(t, find, new, f[k], k)
    BY <1>1
  <2>4. CASE k = 0
    BY <1>2, <2>3, <2>4, ForwardStarts
  <2>5. CASE k # 0
    <3>1. k - 1 \in 0..Len(t) /\ k - 1 \in Nat /\ ~(k <= k - 1) /\ k \in 1..Len(t) /\ (k - 1) + 1 = k
      BY <1>1, <2>3, <2>5
    <3>2. k - 1 \notin S
      BY <2>2, <3>1
    <3>3. Going(t, find, new, f[k - 1], k - 1)
      BY <3>1, <3>2
    <3> HIDE DEF S
    <3>4. Going(t, find, new, ForwardStep(find, new, f[k - 1]), (k - 1) + 1)
      BY <3>1, <3>3, ForwardStepGoes
    <3> QED
      BY <1>2, <2>3, <3>1, <3>4
  <2> QED
    BY <2>4, <2>5
<1>4. Len(t) \in 0..Len(t) /\ Len(t) \notin S
  BY <1>1, <1>3
<1>5. Going(t, find, new, f[Len(t)], Len(t))
  BY <1>4
<1> HIDE DEF S
<1> DEFINE now == f[Len(t)]
<1>6. now \in ForwardStates
  BY <1>5 DEF Going
<1>7. PICK p \in 0..Len(t), before \in Seq(Letters) :
        /\ Behindhand(t, find, new, now, p, before)
        /\ p >= Len(t) \/ Untouched(t, find, p, Len(t))
  BY <1>5 DEF Going
<1>8. Untouched(t, find, p, Len(t))
  <2>1. p >= Len(t) => \A i \in p..(Len(t) - 1) : FALSE
    BY <1>1
  <2> QED
    BY <1>7, <2>1 DEF Untouched
<1>9. Len(t) \in 0..Len(t) /\ p \in 0..Len(t) /\ Len(t) - Len(t) = 0 /\ 0 \in 0..Len(t)
  BY <1>1
<1> HIDE DEF now
<1>10. /\ Becomes(t, find, new)[Len(t) - p] =
             SubSeq(t, p + 1, Len(t)) \o Becomes(t, find, new)[0]
       /\ Times(t, find)[Len(t) - p] = Times(t, find)[0]
  <2>1. /\ Becomes(t, find, new)[Len(t) - p] =
             SubSeq(t, p + 1, Len(t)) \o Becomes(t, find, new)[Len(t) - Len(t)]
        /\ Times(t, find)[Len(t) - p] = Times(t, find)[Len(t) - Len(t)]
    BY <1>8, <1>9, UntouchedStays
  <2> QED
    BY <1>9, <2>1
<1>11. Becomes(t, find, new)[0] = <<>> /\ Times(t, find)[0] = 0
  <2>1. /\ Becomes(t, find, new)[0] = TextTurn(t, find, new, Becomes(t, find, new), 0)
        /\ Times(t, find)[0] = TimesTurn(t, find, Times(t, find), 0)
    BY <1>9, BecomesIs
  <2> QED
    BY <2>1 DEF TextTurn, TimesTurn
<1>12. SubSeq(t, p + 1, Len(t)) \o <<>> = SubSeq(t, p + 1, Len(t))
  <2>1. p + 1 \in Nat \ {0} /\ Len(t) \in 0..Len(t)
    BY <1>1
  <2>2. SubSeq(t, p + 1, Len(t)) \in Seq(Letters)
    BY <1>1, <2>1, PartIs
  <2> QED
    BY <2>2, ConcatEmptySeq
<1>13. now.buffer = Becomes(t, find, new)[Len(t)]
  BY <1>7, <1>10, <1>11, <1>12 DEF Behindhand
<1>14. now.count = Times(t, find)[Len(t)]
  <2>1. now.count + 0 = Times(t, find)[Len(t)] /\ now.count \in Nat
    BY <1>6, <1>7, <1>10, <1>11 DEF Behindhand, ForwardStates
  <2> QED
    BY <2>1
<1> QED
  BY <1>2, <1>13, <1>14 DEF now

-----------------------------------------------------------------------------
(* The loop that goes backward. *)
LEMMA GreatestIs ==
    ASSUME NEW S, S \subseteq Int, S # {}, NEW n \in Int, \A k \in S : k <= n
    PROVE  Max(S) \in S /\ \A k \in S : k <= Max(S)
<1> DEFINE N == {n - k : k \in S}
<1>1. N \subseteq Nat /\ N # {}
  <2>1. \A k \in S : n - k \in Nat
    OBVIOUS
  <2>2. \E k \in S : n - k \in N
    OBVIOUS
  <2> QED
    BY <2>1, <2>2
<1>2. PICK l \in N : \A k \in N : l <= k
  <2> HIDE DEF N
  <2> QED
    BY <1>1, LeastNat
<1>3. PICK m \in S : l = n - m
  BY <1>2
<1>4. ASSUME NEW k \in S PROVE k <= m
  <2>1. n - k \in N
    OBVIOUS
  <2>2. n - m <= n - k
    BY <1>2, <1>3, <2>1
  <2> QED
    BY <2>2
<1>5. Max(S) = m
  BY <1>4, MaxIs
<1> QED
  BY <1>4, <1>5

LEMMA LastIndexIs ==
    ASSUME NEW w, NEW find, IsText(w), IsText(find), Len(find) >= 1, NEW x \in Nat
    PROVE  LET at == lastIndexOf(w, find, x)
           IN  /\ at = -1 \/ (at \in Matches(w, find) /\ at \in 0..x)
               /\ \A i \in Matches(w, find) : i <= x => i <= at
<1> DEFINE S == {-1} \cup {i \in Matches(w, find) : i <= x}
<1>1. \A i \in Matches(w, find) : i \in Nat
  BY MatchFits
<1>2. S \subseteq Int /\ S # {} /\ x \in Int /\ \A k \in S : k <= x
  BY <1>1
<1>3. lastIndexOf(w, find, x) = Max(S)
  BY DEF lastIndexOf
<1>4. Max(S) \in S /\ \A k \in S : k <= Max(S)
  <2> HIDE DEF S
  <2> QED
    BY <1>2, GreatestIs
<1>5. Max(S) = -1 \/ (Max(S) \in Matches(w, find) /\ Max(S) \in 0..x)
  <2>1. Max(S) = -1 \/ (Max(S) \in Matches(w, find) /\ Max(S) <= x)
    BY <1>4
  <2> QED
    BY <1>1, <2>1
<1>6. \A i \in Matches(w, find) : i <= x => i <= Max(S)
  BY <1>4
<1> QED
  BY <1>3, <1>5, <1>6

SplicesMiddle(u, c, v, new) == IsText(u) /\ IsText(c) /\ IsText(v) /\ IsText(new)

MiddleSpliced(u, c, v, new) == Spliced((u \o c) \o v, Len(u), Len(c), new) = (u \o new) \o v

LEMMA SplicedInMiddle ==
    ASSUME NEW u, NEW c, NEW v, NEW new, SplicesMiddle(u, c, v, new)
    PROVE  MiddleSpliced(u, c, v, new)
<1> DEFINE uc == u \o c
           cv == c \o v
           w == uc \o v
<1>1. /\ u \in Seq(Letters) /\ c \in Seq(Letters) /\ v \in Seq(Letters)
      /\ Len(u) \in Nat /\ Len(c) \in Nat /\ Len(v) \in Nat
  BY LenProperties DEF SplicesMiddle, IsText
<1>2. /\ uc \in Seq(Letters) /\ Len(uc) = Len(u) + Len(c)
      /\ cv \in Seq(Letters) /\ Len(cv) = Len(c) + Len(v)
  BY <1>1, ConcatProperties
<1>3. w = u \o cv
  BY <1>1, JoinsAssociate
<1> HIDE DEF uc, cv
<1>4. w \in Seq(Letters) /\ Len(w) = Len(uc) + Len(v)
  BY <1>1, <1>2, ConcatProperties
<1> HIDE DEF w
<1>5. SubSeq(w, 1, Len(u)) = u
  <2>1. Len(u) \in Len(u)..(Len(u) + Len(cv)) /\ Len(u) - Len(u) = 0
    BY <1>1, <1>2
  <2>2. SubSeq(u \o cv, 1, Len(u)) = u \o SubSeq(cv, 1, Len(u) - Len(u))
    BY <1>1, <1>2, <2>1, PartOfLeft
  <2>3. SubSeq(cv, 1, 0) = <<>>
    BY SubSeqEmpty
  <2>4. u \o <<>> = u
    BY <1>1, ConcatEmptySeq
  <2> QED
    BY <1>3, <2>1, <2>2, <2>3, <2>4
<1>6. SubSeq(w, Len(u) + Len(c) + 1, Len(w)) = v
  <2> DEFINE m == Len(u) + Len(c) + 1
             n == Len(w)
  <2>1. m \in Nat /\ n \in Nat /\ m > Len(uc) /\ n <= Len(uc) + Len(v)
        /\ m - Len(uc) = 1 /\ n - Len(uc) = Len(v)
    BY <1>1, <1>2, <1>4
  <2> HIDE DEF m, n
  <2>2. SubSeq(uc \o v, m, n) = SubSeq(v, m - Len(uc), n - Len(uc))
    <3>1. LiesInRight(uc, v, m, n)
      BY <1>1, <1>2, <2>1 DEF LiesInRight, IsText
    <3>3. PartIsOfRight(uc, v, m, n)
      BY <3>1, PartOfRight
    <3> QED
      BY <3>3 DEF PartIsOfRight
  <2>3. SubSeq(v, 1, Len(v)) = v
    BY <1>1, SubSeqFull
  <2> QED
    BY <2>1, <2>2, <2>3 DEF m, n, w
<1> QED
  BY <1>5, <1>6 DEF Spliced, MiddleSpliced, w, uc

BackwardStates == [buffer : Seq(Letters), index : Int]

BackwardStep(find, new, now) ==
    LET at == lastIndexOf(now.buffer, find, now.index) IN
    IF now.index < 0 THEN now
    ELSE IF at < 0 THEN [now EXCEPT !.index = at]
    ELSE [buffer |-> Spliced(now.buffer, at, Len(find), new), index |-> at - 1]

BackwardTurn(t, find, new, f, k) ==
    IF k = 0 THEN [buffer |-> t, index |-> Len(t) - 1] ELSE BackwardStep(find, new, f[k - 1])

LEMMA BackwardStepIs ==
    ASSUME NEW find, NEW new, IsText(find), IsText(new), Len(find) >= 1, NEW now \in BackwardStates
    PROVE  BackwardStep(find, new, now) \in BackwardStates
<1> DEFINE at == lastIndexOf(now.buffer, find, now.index)
<1>1. IsText(now.buffer) /\ now.index \in Int
  BY DEF BackwardStates, IsText
<1>2. CASE now.index < 0
  BY <1>2 DEF BackwardStep
<1>3. CASE ~(now.index < 0)
  <2>1. now.index \in Nat
    BY <1>1, <1>3
  <2>2. at = -1 \/ (at \in Matches(now.buffer, find) /\ at \in 0..now.index)
    BY <1>1, <2>1, LastIndexIs
  <2> HIDE DEF at
  <2>3. at \in Int
    BY <1>1, <2>2
  <2>4. CASE at < 0
    <3>1. BackwardStep(find, new, now) = [now EXCEPT !.index = at]
      BY <1>3, <2>4 DEF BackwardStep, at
    <3> QED
      BY <2>3, <3>1 DEF BackwardStates
  <2>5. CASE ~(at < 0)
    <3>1. BackwardStep(find, new, now) =
            [buffer |-> Spliced(now.buffer, at, Len(find), new), index |-> at - 1]
      BY <1>3, <2>5 DEF BackwardStep, at
    <3>2. at \in Matches(now.buffer, find)
      BY <2>2, <2>5
    <3>3. at \in Nat /\ Len(find) \in Nat /\ at + Len(find) <= Len(now.buffer)
      BY <1>1, <3>2, MatchFits, LenProperties DEF IsText
    <3>4. IsText(Spliced(now.buffer, at, Len(find), new))
      BY <1>1, <3>3, SplicedIsText
    <3>5. at - 1 \in Int
      BY <3>3
    <3> QED
      BY <3>1, <3>4, <3>5 DEF BackwardStates, IsText
  <2> QED
    BY <2>4, <2>5
<1> QED
  BY <1>2, <1>3

GoesBackward(t, find, new, f) ==
    /\ f[0] = [buffer |-> t, index |-> Len(t) - 1]
    /\ \A k \in 1..Len(t) : f[k] = BackwardStep(find, new, f[k - 1])
    /\ Backward(t, find, new) = f[Len(t)].buffer

LEMMA BackwardTurns ==
    ASSUME NEW t, NEW find, NEW new, IsText(t), IsText(find), IsText(new), Len(find) >= 1
    PROVE  \E f : GoesBackward(t, find, new, f)
<1> DEFINE base == [buffer |-> t, index |-> Len(t) - 1]
           next == [now \in BackwardStates |-> BackwardStep(find, new, now)]
           turn == CHOOSE f : f = [k \in 0..Len(t) |-> BackwardTurn(t, find, new, f, k)]
<1>1. Len(t) \in Nat
  BY LenProperties DEF IsText
<1>2. base \in BackwardStates
  <2>1. Len(t) - 1 \in Int
    BY <1>1
  <2> QED
    BY <2>1 DEF IsText, BackwardStates
<1>3. next \in [BackwardStates -> BackwardStates]
  BY BackwardStepIs
<1>4. \E f : f = [k \in 0..Len(t) |-> BackwardTurn(t, find, new, f, k)]
  <2> HIDE DEF base, next
  <2>0. PICK f \in [0..Len(t) -> BackwardStates] : IsLoop(f, base, next, Len(t))
    BY <1>1, <1>2, <1>3, TurnsExist
  <2>1. f[0] = base /\ \A k \in 1..Len(t) : f[k] = next[f[k - 1]]
    BY <2>0 DEF IsLoop
  <2>2. ASSUME NEW k \in 0..Len(t) PROVE f[k] = BackwardTurn(t, find, new, f, k)
    <3>1. CASE k = 0
      BY <2>1, <3>1 DEF BackwardTurn, base
    <3>2. CASE k # 0
      <4>1. k \in 1..Len(t) /\ k - 1 \in 0..Len(t)
        BY <1>1, <3>2
      <4>2. f[k - 1] \in BackwardStates /\ f[k] = next[f[k - 1]]
        BY <2>1, <4>1
      <4>3. next[f[k - 1]] = BackwardStep(find, new, f[k - 1])
        BY <4>2 DEF next
      <4> QED
        BY <3>2, <4>2, <4>3 DEF BackwardTurn
    <3> QED
      BY <3>1, <3>2
  <2>3. f = [k \in 0..Len(t) |-> BackwardTurn(t, find, new, f, k)]
    BY <2>2
  <2> QED
    BY <2>3
<1>5. turn = [k \in 0..Len(t) |-> BackwardTurn(t, find, new, turn, k)]
  BY <1>4
<1>6. Backward(t, find, new) = turn[Len(t)].buffer
  BY DEF Backward, BackwardTurn, BackwardStep
<1> HIDE DEF turn
<1>7. turn[0] = base
  <2>1. 0 \in 0..Len(t)
    BY <1>1
  <2> QED
    BY <1>5, <2>1 DEF BackwardTurn
<1>8. ASSUME NEW k \in 1..Len(t) PROVE turn[k] = BackwardStep(find, new, turn[k - 1])
  <2>1. k \in 0..Len(t) /\ k # 0
    BY <1>1
  <2> QED
    BY <1>5, <2>1 DEF BackwardTurn
<1> QED
  BY <1>6, <1>7, <1>8 DEF GoesBackward

(* Where the loop is after k turns: the first y characters are untouched,  *)
(* and the others are what they become.                                    *)
StillAhead(t, find, new, now, y) ==
    /\ now.index = y - 1
    /\ now.buffer = SubSeq(t, 1, y) \o Becomes(t, find, new)[Len(t) - y]

Returning(t, find, new, now, k) ==
    /\ now \in BackwardStates
    /\ \E y \in 0..Len(t) : StillAhead(t, find, new, now, y) /\ (y = 0 \/ y + k <= Len(t))

LEMMA BackwardStarts ==
    ASSUME NEW t, NEW find, NEW new, IsText(t), IsText(find), IsText(new), Len(find) >= 1
    PROVE  Returning(t, find, new, [buffer |-> t, index |-> Len(t) - 1], 0)
<1> DEFINE now == [buffer |-> t, index |-> Len(t) - 1]
<1>1. t \in Seq(Letters) /\ Len(t) \in Nat
  BY LenProperties DEF IsText
<1>2. now \in BackwardStates
  <2>1. Len(t) - 1 \in Int
    BY <1>1
  <2> QED
    BY <1>1, <2>1 DEF BackwardStates
<1>3. Len(t) \in 0..Len(t) /\ 0 \in 0..Len(t) /\ Len(t) - Len(t) = 0 /\ Len(t) + 0 <= Len(t)
  BY <1>1
<1>4. Becomes(t, find, new)[0] = <<>>
  <2>1. Becomes(t, find, new)[0] = TextTurn(t, find, new, Becomes(t, find, new), 0)
    BY <1>3, BecomesIs
  <2> QED
    BY <2>1 DEF TextTurn
<1>5. SubSeq(t, 1, Len(t)) \o <<>> = t
  BY <1>1, SubSeqFull, ConcatEmptySeq
<1>6. StillAhead(t, find, new, now, Len(t))
  BY <1>3, <1>4, <1>5 DEF StillAhead
<1> HIDE DEF now
<1>7. Returning(t, find, new, now, 0)
  BY <1>2, <1>3, <1>6 DEF Returning
<1> QED
  BY <1>7 DEF now

(* A match of one character lies before y in the buffer where it lies in t. *)
LEMMA FrontMatches ==
    ASSUME NEW t, NEW find, NEW rest, IsText(t), IsText(find), IsText(rest), Len(find) = 1,
           NEW y \in 0..Len(t), NEW i \in 0..(y - 1)
    PROVE  i \in Matches(SubSeq(t, 1, y) \o rest, find) <=> i \in Matches(t, find)
<1> DEFINE a == SubSeq(t, 1, y)
           w == a \o rest
<1>1. t \in Seq(Letters) /\ rest \in Seq(Letters) /\ Len(t) \in Nat /\ Len(rest) \in Nat
      /\ y \in Nat /\ i \in Nat /\ y >= 1
  BY LenProperties DEF IsText
<1>2. a \in Seq(Letters) /\ Len(a) = y
  <2>1. 1 \in Nat \ {0} /\ (IF 1 <= y THEN y - 1 + 1 ELSE 0) = y
    BY <1>1
  <2> QED
    BY <1>1, <2>1, PartIs
<1>3. Len(w) = y + Len(rest)
  <2> HIDE DEF a
  <2>1. Len(a \o rest) = Len(a) + Len(rest)
    BY <1>1, <1>2, ConcatProperties
  <2> QED
    BY <1>2, <2>1
<1>4. i + 1 \in 1..Len(a) /\ i + 1 \in 1..(y - 1 + 1) /\ 1 \in 1..Len(t) /\ y \in 1..Len(t)
      /\ 1 + (i + 1) - 1 = i + 1
  BY <1>1, <1>2
<1>5. SubSeq(w, i + 1, i + 1) = SubSeq(t, i + 1, i + 1)
  <2>1. SubSeq(a, i + 1, i + 1) = SubSeq(t, 1 + (i + 1) - 1, 1 + (i + 1) - 1)
    BY <1>1, <1>4, SubSeqOfSubSeq
  <2> HIDE DEF a
  <2>2. SubSeq(a \o rest, i + 1, i + 1) = SubSeq(a, i + 1, i + 1)
    BY <1>1, <1>2, <1>4, SubSeqOfConcat1
  <2> QED
    BY <1>4, <2>1, <2>2
<1>6. i \in 0..(Len(w) - 1) /\ i \in 0..(Len(t) - 1)
  <2> HIDE DEF w
  <2> QED
    BY <1>1, <1>3
<1>7. i \in Matches(w, find) <=> i \in Matches(t, find)
  <2> HIDE DEF w
  <2> QED
    BY <1>5, <1>6 DEF Matches
<1> QED
  BY <1>7

MayStay(t, find, new, p, q) ==
    /\ IsText(t) /\ IsText(find) /\ IsText(new) /\ Len(find) >= 1
    /\ q \in 0..Len(t) /\ p \in 0..q /\ Untouched(t, find, p, q)

Stays(t, find, new, p, q) ==
    Becomes(t, find, new)[Len(t) - p] = SubSeq(t, p + 1, q) \o Becomes(t, find, new)[Len(t) - q]

LEMMA WhatMayStays ==
    ASSUME NEW t, NEW find, NEW new, NEW p, NEW q, MayStay(t, find, new, p, q)
    PROVE  Stays(t, find, new, p, q)
<1>1. IsText(t) /\ IsText(find) /\ IsText(new) /\ Len(find) >= 1
  BY DEF MayStay
<1>2. q \in 0..Len(t) /\ p \in 0..q /\ Untouched(t, find, p, q)
  BY DEF MayStay
<1> DEFINE f == Becomes(t, find, new)
           g == Times(t, find)
<1>3. /\ f[Len(t) - p] = SubSeq(t, p + 1, q) \o f[Len(t) - q]
      /\ g[Len(t) - p] = g[Len(t) - q]
  BY <1>1, <1>2, UntouchedStays DEF f, g
<1> QED
  BY <1>3 DEF Stays, f

LEMMA BackwardStepReturns ==
    ASSUME NEW t, NEW find, NEW new, IsText(t), IsText(find), IsText(new), Len(find) = 1,
           NEW now, NEW k \in Nat, Returning(t, find, new, now, k)
    PROVE  Returning(t, find, new, BackwardStep(find, new, now), k + 1)
<1> DEFINE f == Becomes(t, find, new)
           L == Len(t)
           then == BackwardStep(find, new, now)
<1>1. /\ t \in Seq(Letters) /\ find \in Seq(Letters) /\ new \in Seq(Letters)
      /\ L \in Nat /\ Len(find) = 1 /\ Len(find) >= 1
  BY LenProperties DEF IsText
<1>2. now \in BackwardStates /\ then \in BackwardStates /\ IsText(now.buffer)
  BY <1>1, BackwardStepIs DEF Returning, BackwardStates, IsText
<1>3. PICK y \in 0..L : StillAhead(t, find, new, now, y) /\ (y = 0 \/ y + k <= L)
  BY DEF Returning
<1>4. /\ now.index = y - 1 /\ now.buffer = SubSeq(t, 1, y) \o f[L - y]
      /\ y \in Nat
  BY <1>3 DEF StillAhead
<1>5. ASSUME NEW n \in 0..Len(t) PROVE IsText(f[n])
  <2>1. BecomesRight(t, find, new, n)
    BY <1>1, BecomesIsRight
  <2> QED
    BY <2>1 DEF BecomesRight
<1> HIDE DEF f, L
<1>6. CASE y = 0
  <2>1. then = now
    BY <1>4, <1>6 DEF BackwardStep
  <2>2. StillAhead(t, find, new, then, y)
    BY <1>3, <2>1
  <2>3. y = 0 \/ y + (k + 1) <= L
    BY <1>6
  <2> HIDE DEF then
  <2>4. Returning(t, find, new, then, k + 1)
    BY <1>2, <1>3, <2>2, <2>3 DEF Returning, L
  <2> QED
    BY <2>4 DEF then
<1>7. CASE y # 0
  <2> DEFINE x == y - 1
             at == lastIndexOf(now.buffer, find, x)
  <2>1. x \in Nat /\ ~(now.index < 0) /\ now.index = x /\ L - y \in 0..L
    BY <1>1, <1>4, <1>7
  <2>2. /\ at = -1 \/ (at \in Matches(now.buffer, find) /\ at \in 0..x)
        /\ \A i \in Matches(now.buffer, find) : i <= x => i <= at
    BY <1>1, <1>2, <2>1, LastIndexIs
  <2>3. then = IF at < 0 THEN [now EXCEPT !.index = at]
               ELSE [buffer |-> Spliced(now.buffer, at, Len(find), new), index |-> at - 1]
    BY <2>1 DEF BackwardStep
  <2> HIDE DEF at, then
  <2>4. \A i \in 0..x : i \in Matches(now.buffer, find) <=> i \in Matches(t, find)
    BY <1>1, <1>3, <1>4, <1>5, <2>1, FrontMatches DEF L
  <2>5. \A i \in 0..x : i > at => i \notin Matches(t, find)
    <3> SUFFICES ASSUME NEW i \in 0..x, i > at, i \in Matches(t, find) PROVE FALSE
      OBVIOUS
    <3>1. i \in Matches(now.buffer, find) /\ i <= x
      BY <2>1, <2>4
    <3>2. i <= at
      BY <2>2, <3>1
    <3> QED
      BY <2>1, <2>2, <3>2
  <2>6. CASE at < 0
    <3>1. at = -1
      BY <2>1, <2>2, <2>6
    <3>2. then.index = 0 - 1 /\ then.buffer = now.buffer
      BY <1>2, <2>3, <2>6, <3>1 DEF BackwardStates
    <3>3. Untouched(t, find, 0, y)
      BY <1>4, <2>1, <2>5, <3>1 DEF Untouched
    <3>4. f[L] = SubSeq(t, 1, y) \o f[L - y]
      <4>1. y \in 0..Len(t) /\ 0 \in 0..y /\ Len(t) - 0 = Len(t) /\ 0 + 1 = 1
        BY <1>1, <1>3, <1>4 DEF L
      <4>2. Becomes(t, find, new)[Len(t) - 0]
              = SubSeq(t, 0 + 1, y) \o Becomes(t, find, new)[Len(t) - y]
        <5>1. MayStay(t, find, new, 0, y)
          BY <1>1, <3>3, <4>1 DEF MayStay
        <5>2. Stays(t, find, new, 0, y)
          BY <5>1, WhatMayStays
        <5> QED
          BY <5>2 DEF Stays
      <4> QED
        BY <4>1, <4>2 DEF f, L
    <3>5. then.buffer = SubSeq(t, 1, 0) \o f[L - 0]
      <4>1. SubSeq(t, 1, 0) = <<>>
        BY SubSeqEmpty
      <4>2. L - 0 = L /\ L \in 0..L
        BY <1>1
      <4>3. <<>> \o f[L] = f[L]
        BY <1>5, <4>2, ConcatEmptySeq DEF IsText
      <4> QED
        BY <1>4, <3>2, <3>4, <4>1, <4>2, <4>3
    <3>6. StillAhead(t, find, new, then, 0)
      BY <3>2, <3>5 DEF StillAhead, f, L
    <3>7. 0 \in 0..L
      BY <1>1
    <3> QED
      BY <1>2, <3>6, <3>7 DEF Returning, L, then
  <2>7. CASE ~(at < 0)
    <3>1. at \in Matches(now.buffer, find) /\ at \in 0..x /\ at \in Nat
      BY <2>1, <2>2, <2>7
    <3>2. at \in Matches(t, find)
      BY <2>4, <3>1
    <3> DEFINE u == SubSeq(t, 1, at)
               c == SubSeq(t, at + 1, at + 1)
               b == SubSeq(t, at + 2, y)
               v == f[L - (at + 1)]
    <3>3. /\ at \in 0..L /\ at + 1 \in 0..y /\ y \in 0..L /\ at + 1 \in at..L /\ y \in (at + 1)..L
          /\ L - at \in 0..L /\ L - at # 0 /\ L - (L - at) = at /\ (L - at) - 1 = L - (at + 1)
          /\ L - (at + 1) \in 0..L /\ (at + 1) + 1 = at + 2 /\ at \in 0..y
          /\ (at = 0 \/ at + (k + 1) <= L)
      BY <1>1, <1>3, <1>4, <2>1, <3>1
    <3>4. Untouched(t, find, at + 1, y)
      <4> SUFFICES ASSUME NEW i \in (at + 1)..(y - 1), i \in Matches(t, find) PROVE FALSE
        BY DEF Untouched
      <4>1. i \in 0..x /\ i > at
        BY <1>4, <3>1
      <4> QED
        BY <2>5, <4>1
    <3>5. v = b \o f[L - y]
      <4>1. y \in 0..Len(t) /\ at + 1 \in 0..y
        BY <3>3 DEF L
      <4>2. Becomes(t, find, new)[Len(t) - (at + 1)]
              = SubSeq(t, (at + 1) + 1, y) \o Becomes(t, find, new)[Len(t) - y]
        <5>1. MayStay(t, find, new, at + 1, y)
          BY <1>1, <3>4, <4>1 DEF MayStay
        <5>2. Stays(t, find, new, at + 1, y)
          BY <5>1, WhatMayStays
        <5> QED
          BY <5>2 DEF Stays
      <4> QED
        BY <3>3, <4>2 DEF f, L, b, v
    <3>6. f[L - at] = new \o v
      <4>1. L - at \in 0..Len(t)
        BY <3>3 DEF L
      <4>2. f[L - at] = TextTurn(t, find, new, f, L - at)
        BY <1>1, <4>1, BecomesIs DEF f
      <4> QED
        BY <1>1, <3>2, <3>3, <4>2 DEF TextTurn, L
    <3>7. u \in Seq(Letters) /\ Len(u) = at
      <4>1. 1 \in Nat \ {0} /\ at \in 0..L /\ (IF 1 <= at THEN at - 1 + 1 ELSE 0) = at
        BY <3>1, <3>3
      <4> QED
        BY <1>1, <4>1, PartIs DEF L
    <3>8. c \in Seq(Letters) /\ Len(c) = 1
      <4>1. /\ at + 1 \in Nat \ {0} /\ at + 1 \in 0..L
            /\ (IF at + 1 <= at + 1 THEN (at + 1) - (at + 1) + 1 ELSE 0) = 1
        BY <1>1, <3>1, <3>3
      <4> QED
        BY <1>1, <4>1, PartIs DEF L
    <3>9. b \in Seq(Letters)
      <4>1. at + 2 \in Nat \ {0}
        BY <3>1
      <4> QED
        BY <1>1, <3>3, <4>1, PartIs DEF L
    <3>10. v \in Seq(Letters) /\ f[L - y] \in Seq(Letters)
      <4>1. IsText(f[L - (at + 1)]) /\ IsText(f[L - y])
        BY <1>5, <2>1, <3>3 DEF L
      <4> QED
        BY <4>1 DEF IsText, v
    <3>11. SubSeq(t, 1, y) = (u \o c) \o b
      <4>1. /\ 0 \in 0..Len(t) /\ at \in 0..Len(t) /\ at + 1 \in at..Len(t) /\ at + 1 \in 0..Len(t)
            /\ y \in (at + 1)..Len(t) /\ 0 + 1 = 1
        <5>1. 0 \in 0..L
          BY <1>1
        <5>2. at + 1 \in 0..L
          BY <1>1, <3>1, <3>3
        <5>3. at \in 0..L /\ at + 1 \in at..L /\ y \in (at + 1)..L
          BY <3>3
        <5>4. 0 + 1 = 1
          OBVIOUS
        <5> QED
          BY <5>1, <5>2, <5>3, <5>4 DEF L
      <4>2. SubSeq(t, 0 + 1, at) \o SubSeq(t, at + 1, at + 1) = SubSeq(t, 0 + 1, at + 1)
        BY <1>1, <4>1, PartsJoin
      <4>3. SubSeq(t, 0 + 1, at + 1) \o SubSeq(t, (at + 1) + 1, y) = SubSeq(t, 0 + 1, y)
        BY <1>1, <4>1, PartsJoin
      <4> QED
        BY <3>3, <4>1, <4>2, <4>3
    <3> HIDE DEF u, c, b, v
    <3>12. now.buffer = (u \o c) \o v
      <4> DEFINE h == u \o c
                 r == f[L - y]
      <4>1. h \in Seq(Letters) /\ r \in Seq(Letters)
        BY <3>7, <3>8, <3>10, ConcatProperties
      <4>2. now.buffer = (h \o b) \o r /\ v = b \o r
        BY <1>4, <3>5, <3>11
      <4> HIDE DEF h, r
      <4>3. (h \o b) \o r = h \o (b \o r)
        BY <3>9, <4>1, JoinsAssociate
      <4> QED
        BY <4>2, <4>3 DEF h
    <3>13. SplicesMiddle(u, c, v, new)
      BY <1>1, <3>7, <3>8, <3>10 DEF SplicesMiddle, IsText
    <3>14. MiddleSpliced(u, c, v, new)
      BY <3>13, SplicedInMiddle
    <3>15. Spliced(now.buffer, at, Len(find), new) = (u \o new) \o v
      BY <1>1, <3>7, <3>8, <3>12, <3>14 DEF MiddleSpliced
    <3>16. (u \o new) \o v = u \o (new \o v)
      BY <1>1, <3>7, <3>10, JoinsAssociate
    <3>17. then.index = at - 1 /\ then.buffer = u \o f[L - at]
      BY <2>3, <2>7, <3>6, <3>15, <3>16
    <3>18. StillAhead(t, find, new, then, at)
      BY <3>17 DEF StillAhead, f, L, u
    <3> QED
      BY <1>2, <3>3, <3>18 DEF Returning, L, then
  <2>8. at < 0 \/ ~(at < 0)
    OBVIOUS
  <2> HIDE DEF then
  <2> QED
    BY <2>6, <2>7, <2>8, Zenon
<1> QED
  BY <1>6, <1>7

(* replace() lengthens a text to what it becomes, if what it replaces is   *)
(* one character.                                                          *)
LEMMA BackwardIs ==
    ASSUME NEW t, NEW find, NEW new, IsText(t), IsText(find), IsText(new), Len(find) = 1
    PROVE  Backward(t, find, new) = Becomes(t, find, new)[Len(t)]
<1>1. t \in Seq(Letters) /\ Len(t) \in Nat /\ Len(find) >= 1
  BY LenProperties DEF IsText
<1>2a. PICK f : GoesBackward(t, find, new, f)
  BY <1>1, BackwardTurns
<1>2. /\ f[0] = [buffer |-> t, index |-> Len(t) - 1]
      /\ \A k \in 1..Len(t) : f[k] = BackwardStep(find, new, f[k - 1])
      /\ Backward(t, find, new) = f[Len(t)].buffer
  BY <1>2a DEF GoesBackward
<1> DEFINE S == {k \in 0..Len(t) : ~Returning(t, find, new, f[k], k)}
<1>3. S = {}
  <2> SUFFICES ASSUME S # {} PROVE FALSE
    OBVIOUS
  <2>1. S \subseteq Nat
    BY <1>1
  <2>2. PICK k \in S : \A m \in S : k <= m
    <3> HIDE DEF S
    <3> QED
      BY <2>1, LeastNat
  <2>3. k \in 0..Len(t) /\ k \in Nat /\ ~Returning(t, find, new, f[k], k)
    BY <1>1
  <2>4. CASE k = 0
    BY <1>1, <1>2, <2>3, <2>4, BackwardStarts
  <2>5. CASE k # 0
    <3>1. k - 1 \in 0..Len(t) /\ k - 1 \in Nat /\ ~(k <= k - 1) /\ k \in 1..Len(t) /\ (k - 1) + 1 = k
      BY <1>1, <2>3, <2>5
    <3>2. k - 1 \notin S
      BY <2>2, <3>1
    <3>3. Returning(t, find, new, f[k - 1], k - 1)
      BY <3>1, <3>2
    <3> HIDE DEF S
    <3>4. Returning(t, find, new, BackwardStep(find, new, f[k - 1]), (k - 1) + 1)
      BY <3>1, <3>3, BackwardStepReturns
    <3> QED
      BY <1>2, <2>3, <3>1, <3>4
  <2> QED
    BY <2>4, <2>5
<1>4. Len(t) \in 0..Len(t) /\ Len(t) \notin S
  BY <1>1, <1>3
<1>5. Returning(t, find, new, f[Len(t)], Len(t))
  BY <1>4
<1> HIDE DEF S
<1> DEFINE now == f[Len(t)]
<1>6. PICK y \in 0..Len(t) :
        StillAhead(t, find, new, now, y) /\ (y = 0 \/ y + Len(t) <= Len(t))
  BY <1>5 DEF Returning
<1>7. y = 0 /\ Len(t) - 0 = Len(t) /\ Len(t) \in 0..Len(t)
  BY <1>1, <1>6
<1>8. now.buffer = SubSeq(t, 1, 0) \o Becomes(t, find, new)[Len(t)]
  BY <1>6, <1>7 DEF StillAhead
<1>9. SubSeq(t, 1, 0) = <<>>
  BY SubSeqEmpty
<1>10. BecomesRight(t, find, new, Len(t))
  BY <1>1, <1>7, BecomesIsRight
<1>11. <<>> \o Becomes(t, find, new)[Len(t)] = Becomes(t, find, new)[Len(t)]
  BY <1>10, ConcatEmptySeq DEF BecomesRight, IsText
<1> QED
  BY <1>2, <1>8, <1>9, <1>11

(* What a String is when it should have the text v. *)
StringStates == [buffer : Seq(Letters) \cup {NULL}, capacity : Nat, len : Nat]

StringOK(b, v) ==
    /\ b \in StringStates /\ b.buffer = v
    /\ IF v = NULL THEN b.capacity = 0 /\ b.len = 0
                   ELSE b.len = Len(v) /\ Len(v) <= b.capacity /\ Len(v) <= MaxLen

(* What a String is whose text was copied away: it has length 0 and still  *)
(* the old text.                                                           *)
LeftOver(b, v) ==
    /\ b \in StringStates /\ b.buffer \notin {NULL, <<>>} /\ b.len = 0 /\ v = <<>>
    /\ Len(b.buffer) <= b.capacity

(* The inductive invariant of the Strings. *)
StringInv ==
    /\ str \in [Strings -> StringStates] /\ value \in [Strings -> Seq(Letters) \cup {NULL}]
    /\ moved \subseteq Strings
    /\ \A s \in Strings : IF s \in moved THEN LeftOver(str[s], value[s])
                                         ELSE StringOK(str[s], value[s])

LEMMA TextIsString ==
    ASSUME NEW b \in StringStates, NEW v \in Seq(Letters), b.buffer = v, b.len = Len(v),
           Len(v) <= b.capacity, Len(v) <= MaxLen
    PROVE  StringOK(b, v)
<1>1. v # NULL
  BY StringAssumption
<1> QED
  BY <1>1 DEF StringOK

LEMMA StringIs ==
    ASSUME NEW b, NEW v, StringOK(b, v)
    PROVE  /\ b \in StringStates /\ b.buffer = v /\ b.capacity \in Nat /\ b.len \in Nat
           /\ v = NULL => b.capacity = 0 /\ b.len = 0
           /\ v # NULL => /\ v \in Seq(Letters) /\ Len(v) \in Nat
                          /\ b.len = Len(v) /\ Len(v) <= b.capacity /\ Len(v) <= MaxLen
<1>1. b \in StringStates /\ b.buffer = v
  BY DEF StringOK
<1>2. b.capacity \in Nat /\ b.len \in Nat /\ v \in Seq(Letters) \cup {NULL}
  BY <1>1 DEF StringStates
<1>3. CASE v = NULL
  BY <1>1, <1>2, <1>3 DEF StringOK
<1>4. CASE v # NULL
  BY <1>1, <1>2, <1>4, LenProperties DEF StringOK
<1> QED
  BY <1>3, <1>4

LEMMA InvalidIsString == StringOK(invalid, NULL)
BY DEF StringOK, StringStates, invalid

LEMMA EmptyIsString == StringOK(emptyString, <<>>)
<1> DEFINE w == <<>>
<1>1. w \in Seq(Letters) /\ Len(w) = 0 /\ MaxLen \in Nat /\ w # NULL
  BY EmptySeq, StringAssumption
<1>2. emptyString \in StringStates /\ emptyString.buffer = w /\ emptyString.len = 0
      /\ emptyString.capacity = 0
  BY <1>1 DEF emptyString, StringStates
<1> HIDE DEF w
<1>3. StringOK(emptyString, w)
  BY <1>1, <1>2 DEF StringOK
<1> QED
  BY <1>3 DEF w

(* An operation that leaves one String right, or leaves it alone. *)
LEMMA SetKeeps ==
    ASSUME StringInv, NEW s \in Strings, NEW new, NEW v, Set(s, new, v),
           StringOK(new, v) \/ (new = str[s] /\ v = value[s])
    PROVE  StringInv'
<1>1. IF s \in moved THEN LeftOver(str[s], value[s]) ELSE StringOK(str[s], value[s])
  BY DEF StringInv
<1>2. new \in StringStates /\ v \in Seq(Letters) \cup {NULL}
  BY DEF StringOK, StringStates, StringInv
<1>3. /\ str' = [str EXCEPT ![s] = new] /\ value' = [value EXCEPT ![s] = v]
      /\ moved' = IF new = str[s] THEN moved ELSE moved \ {s}
  BY DEF Set
<1>4. /\ str' \in [Strings -> StringStates] /\ value' \in [Strings -> Seq(Letters) \cup {NULL}]
      /\ moved' \subseteq Strings
  BY <1>2, <1>3 DEF StringInv
<1>5. str'[s] = new /\ value'[s] = v
  BY <1>3 DEF StringInv
<1>6. ASSUME s \in moved' PROVE LeftOver(new, v)
  <2>1. new = str[s] /\ s \in moved
    BY <1>3, <1>6
  <2>2. LeftOver(str[s], value[s])
    BY <1>1, <2>1
  <2>3. CASE StringOK(new, v)
    <3>1. new.buffer = v /\ v \notin {NULL, <<>>} /\ new.len = 0
      BY <2>1, <2>2, <2>3, StringIs DEF LeftOver
    <3>2. v \in Seq(Letters) /\ Len(v) = 0
      BY <2>3, <3>1, StringIs
    <3> QED
      BY <3>1, <3>2, EmptySeq
  <2> QED
    BY <2>1, <2>2, <2>3
<1>7. ASSUME s \notin moved' PROVE StringOK(new, v)
  BY <1>1, <1>3, <1>7
<1>8. ASSUME NEW t \in Strings, t # s
      PROVE  IF t \in moved' THEN LeftOver(str'[t], value'[t]) ELSE StringOK(str'[t], value'[t])
  <2>1. str'[t] = str[t] /\ value'[t] = value[t] /\ (t \in moved' <=> t \in moved)
    BY <1>3, <1>8 DEF StringInv
  <2>2. IF t \in moved THEN LeftOver(str[t], value[t]) ELSE StringOK(str[t], value[t])
    BY DEF StringInv
  <2> QED
    BY <2>1, <2>2
<1> QED
  BY <1>4, <1>5, <1>6, <1>7, <1>8 DEF StringInv

(* A text that was copied away is as good as none: what is written over it *)
(* is the same.                                                            *)
Emptied(b) == [b EXCEPT !.buffer = <<>>]

LEMMA EmptiedIs ==
    ASSUME NEW b, NEW v, LeftOver(b, v)
    PROVE  /\ StringOK(Emptied(b), v)
           /\ b \in StringStates /\ b.buffer # NULL /\ b.buffer \in Seq(Letters) /\ b.len = 0
           /\ Emptied(b).buffer = <<>> /\ Emptied(b).buffer # NULL
           /\ Emptied(b).capacity = b.capacity /\ Emptied(b).len = 0
<1> DEFINE e == <<>>
<1>1. e \in Seq(Letters) /\ Len(e) = 0 /\ MaxLen \in Nat /\ e # NULL
  BY EmptySeq, StringAssumption
<1>2. /\ b \in StringStates /\ b.buffer # NULL /\ b.buffer \in Seq(Letters) /\ b.len = 0 /\ v = e
      /\ b.capacity \in Nat /\ Emptied(b) = [b EXCEPT !.buffer = e]
  BY DEF LeftOver, StringStates, Emptied
<1> HIDE DEF e
<1>3. /\ Emptied(b) \in StringStates /\ Emptied(b).buffer = e /\ Emptied(b).len = 0
      /\ Emptied(b).capacity = b.capacity
  BY <1>1, <1>2 DEF StringStates
<1>4. 0 <= b.capacity /\ 0 <= MaxLen
  BY <1>1, <1>2
<1>5. StringOK(Emptied(b), v)
  BY <1>1, <1>2, <1>3, <1>4, TextIsString
<1> QED
  BY <1>1, <1>2, <1>3, <1>5 DEF e

LEMMA ReservedOver ==
    ASSUME NEW b, NEW v, LeftOver(b, v), NEW size
    PROVE  /\ Holds(b, size) <=> Holds(Emptied(b), size)
           /\ ~Holds(b, size) => Reserved(b, size) = Reserved(Emptied(b), size)
<1> DEFINE c == Emptied(b)
<1>1. /\ b \in StringStates /\ b.buffer # NULL /\ b.len = 0 /\ c = [b EXCEPT !.buffer = <<>>]
      /\ c.buffer = <<>> /\ c.buffer # NULL /\ c.capacity = b.capacity /\ c.len = 0
  BY EmptiedIs DEF Emptied
<1> HIDE DEF c
<1>2. Holds(b, size) <=> Holds(c, size)
  BY <1>1 DEF Holds
<1>3. ASSUME ~Holds(b, size) PROVE Reserved(b, size) = Reserved(c, size)
  <2>1. Reserved(b, size) = [b EXCEPT !.buffer = <<>>, !.capacity = size]
    BY <1>1, <1>3 DEF Reserved
  <2>2. Reserved(c, size) = [c EXCEPT !.buffer = <<>>, !.capacity = size]
    BY <1>1, <1>2, <1>3 DEF Reserved
  <2> QED
    BY <1>1, <2>1, <2>2 DEF StringStates
<1> QED
  BY <1>2, <1>3 DEF c

WithText(b, size, w, n) == [Reserved(b, size) EXCEPT !.buffer = w, !.len = n]

LEMMA WrittenOver ==
    ASSUME NEW b, NEW v, LeftOver(b, v), NEW size, NEW w, NEW n
    PROVE  WithText(b, size, w, n) = WithText(Emptied(b), size, w, n)
<1>1. Holds(b, size) <=> Holds(Emptied(b), size)
  BY ReservedOver
<1>2. CASE Holds(b, size)
  <2>1. Reserved(b, size) = b /\ Reserved(Emptied(b), size) = Emptied(b) /\ b \in StringStates
    BY <1>1, <1>2, EmptiedIs DEF Reserved
  <2> QED
    BY <2>1 DEF StringStates, Emptied, WithText
<1>3. CASE ~Holds(b, size)
  <2>1. Reserved(b, size) = Reserved(Emptied(b), size)
    BY <1>3, ReservedOver
  <2> QED
    BY <2>1, Zenon DEF WithText
<1> QED
  BY <1>2, <1>3

LEMMA CopiedFromOver ==
    ASSUME NEW b, NEW v, LeftOver(b, v), NEW w, NEW n, NEW mem
    PROVE  CopiedFrom(b, w, n, mem) = CopiedFrom(Emptied(b), w, n, mem)
<1>1. Holds(b, n) <=> Holds(Emptied(b), n)
  BY ReservedOver
<1>2. WithText(b, n, w, n) = WithText(Emptied(b), n, w, n)
  BY WrittenOver, Zenon
<1>3. \A x : CopiedFrom(x, w, n, mem) = IF Holds(x, n) \/ mem THEN WithText(x, n, w, n) ELSE invalid
  BY Zenon DEF CopiedFrom, WithText
<1> QED
  BY <1>1, <1>2, <1>3, Zenon

LEMMA ConcatenatedOver ==
    ASSUME NEW b, NEW v, LeftOver(b, v), NEW w, NEW n \in Nat, n # 0
    PROVE  Concatenated(b, w, n) = Concatenated(Emptied(b), w, n)
<1> DEFINE Whole(x) == (IF x.buffer = NULL THEN <<>> ELSE SubSeq(x.buffer, 1, x.len)) \o w
<1>1. /\ b.len = 0 /\ Emptied(b).len = 0 /\ b.buffer # NULL /\ Emptied(b).buffer # NULL
      /\ b.buffer \in Seq(Letters) /\ Emptied(b).buffer = <<>>
  BY EmptiedIs
<1>2. SubSeq(b.buffer, 1, 0) = <<>> /\ SubSeq(<<>>, 1, 0) = <<>>
  BY <1>1, SubSeqEmpty, EmptySeq
<1>3. Whole(Emptied(b)) = Whole(b)
  BY <1>1, <1>2, Zenon
<1>4. \A x : Concatenated(x, w, n) = WithText(x, x.len + n, Whole(x), x.len + n)
  BY Zenon DEF Concatenated, WithText
<1> HIDE DEF Whole
<1>5. /\ Concatenated(b, w, n) = WithText(b, 0 + n, Whole(b), 0 + n)
      /\ Concatenated(Emptied(b), w, n) = WithText(Emptied(b), 0 + n, Whole(b), 0 + n)
  BY <1>1, <1>3, <1>4, Zenon
<1>6. WithText(b, 0 + n, Whole(b), 0 + n) = WithText(Emptied(b), 0 + n, Whole(b), 0 + n)
  BY WrittenOver, Zenon
<1> QED
  BY <1>5, <1>6, Zenon

(* A String that has characters was not moved from since. *)
LEMMA Owned ==
    ASSUME StringInv, NEW s \in Strings, str[s].len # 0 \/ s \notin moved
    PROVE  StringOK(str[s], value[s])
BY DEF StringInv, LeftOver

(* changeBuffer() keeps the text and gives the memory asked for. *)
LEMMA ReservedIs ==
    ASSUME NEW b, NEW v, StringOK(b, v), NEW size \in Nat
    PROVE  /\ StringOK(Reserved(b, size), IF v = NULL THEN <<>> ELSE v)
           /\ Reserved(b, size).capacity >= size /\ Reserved(b, size) \in StringStates
<1> DEFINE c == Reserved(b, size)
           w == IF v = NULL THEN <<>> ELSE v
<1>1. /\ b \in StringStates /\ b.buffer = v /\ b.capacity \in Nat /\ b.len \in Nat
      /\ v = NULL => b.capacity = 0 /\ b.len = 0
      /\ v # NULL => /\ v \in Seq(Letters) /\ Len(v) \in Nat
                     /\ b.len = Len(v) /\ Len(v) <= b.capacity /\ Len(v) <= MaxLen
  BY StringIs
<1>2. <<>> \in Seq(Letters) /\ Len(<<>>) = 0 /\ MaxLen \in Nat /\ NULL \notin Seq(Letters)
  BY EmptySeq, StringAssumption
<1>3. CASE Holds(b, size)
  <2>1. c = b /\ v # NULL /\ b.capacity >= size
    BY <1>1, <1>3 DEF Reserved, Holds
  <2> QED
    BY <1>1, <2>1
<1>4. CASE ~Holds(b, size)
  <2>1. c = [b EXCEPT !.buffer = IF b.len = 0 THEN <<>> ELSE b.buffer, !.capacity = size]
    BY <1>4 DEF Reserved
  <2>2. w \in Seq(Letters) /\ (IF b.len = 0 THEN <<>> ELSE b.buffer) = w
    <3>1. CASE v = NULL
      BY <1>1, <1>2, <3>1
    <3>2. CASE v # NULL
      <4>1. b.len = 0 => v = <<>>
        BY <1>1, <3>2, EmptySeq
      <4> QED
        BY <1>1, <3>2, <4>1
    <3> QED
      BY <3>1, <3>2
  <2>3. b.len = Len(w) /\ Len(w) <= MaxLen
    BY <1>1, <1>2
  <2>4. Len(w) <= size
    <3>1. CASE v = NULL
      BY <1>1, <1>2, <3>1
    <3>2. CASE v # NULL
      <4>1. size > b.capacity
        BY <1>1, <1>4, <3>2 DEF Holds
      <4> QED
        BY <1>1, <3>2, <4>1
    <3> QED
      BY <3>1, <3>2
  <2> HIDE DEF w
  <2>5. c = [b EXCEPT !.buffer = w, !.capacity = size]
    BY <2>1, <2>2
  <2> HIDE DEF c
  <2>6. c \in StringStates /\ c.buffer = w /\ c.capacity = size /\ c.len = b.len
    BY <1>1, <2>2, <2>5 DEF StringStates
  <2>7. StringOK(c, w)
    BY <2>2, <2>3, <2>4, <2>6, TextIsString
  <2>8. c.capacity >= size
    BY <2>6
  <2> QED
    BY <2>6, <2>7, <2>8 DEF c, w
<1> QED
  BY <1>3, <1>4

(* A text written over what memory held, if the memory is enough. *)
LEMMA WrittenIs ==
    ASSUME NEW c \in StringStates, NEW w \in Seq(Letters), Len(w) <= c.capacity, Len(w) <= MaxLen
    PROVE  StringOK([c EXCEPT !.buffer = w, !.len = Len(w)], w)
<1> DEFINE e == [c EXCEPT !.buffer = w, !.len = Len(w)]
<1>1. Len(w) \in Nat
  BY LenProperties
<1>2. e \in StringStates /\ e.buffer = w /\ e.len = Len(w) /\ e.capacity = c.capacity
  BY <1>1 DEF StringStates
<1> HIDE DEF e
<1>3. StringOK(e, w)
  BY <1>2, TextIsString
<1> QED
  BY <1>3 DEF e

LEMMA StringCopied ==
    ASSUME NEW b, NEW v, StringOK(b, v), NEW w \in Seq(Letters), Len(w) <= MaxLen, NEW mem
    PROVE  LET new == CopiedFrom(b, w, Len(w), mem)
           IN  StringOK(new, IF new = invalid THEN NULL ELSE w)
<1> DEFINE n == Len(w)
           new == CopiedFrom(b, w, n, mem)
<1>1. n \in Nat
  BY LenProperties
<1>2. CASE Holds(b, n) \/ mem
  <2> DEFINE c == Reserved(b, n)
  <2>1. c \in StringStates /\ c.capacity >= n /\ c.capacity \in Nat
    BY <1>1, ReservedIs DEF StringStates
  <2>2. new = [c EXCEPT !.buffer = w, !.len = n]
    BY <1>2 DEF CopiedFrom
  <2> HIDE DEF c, new
  <2>3. n <= c.capacity
    BY <1>1, <2>1
  <2>4. StringOK([c EXCEPT !.buffer = w, !.len = Len(w)], w)
    BY <2>1, <2>3, WrittenIs
  <2>5. StringOK(new, w)
    BY <2>2, <2>4
  <2>6. new # invalid
    <3>1. new.buffer = w /\ w # NULL
      BY <2>5, StringAssumption DEF StringOK
    <3> QED
      BY <3>1 DEF invalid
  <2>7. StringOK(new, IF new = invalid THEN NULL ELSE w)
    BY <2>5, <2>6
  <2> QED
    BY <2>7 DEF new
<1>3. CASE ~(Holds(b, n) \/ mem)
  <2>1. new = invalid
    BY <1>3 DEF CopiedFrom
  <2> QED
    BY <2>1, InvalidIsString
<1> QED
  BY <1>2, <1>3

LEMMA reserveKeeps ==
    ASSUME StringInv, NEW s \in Strings, NEW size \in 0..MaxLen, NEW mem, reserve(s, size, mem)
    PROVE  StringInv'
<1> DEFINE new == Reserved(str[s], size)
           w == IF value[s] = NULL THEN <<>> ELSE value[s]
<1>1. size \in Nat
  OBVIOUS
<1>2. CASE UNCHANGED stringVars
  BY <1>2 DEF StringInv, stringVars
<1>3. CASE Set(s, new, w) /\ s \notin moved
  <2>1. StringOK(new, w)
    BY <1>1, <1>3, Owned, ReservedIs
  <2> HIDE DEF new, w
  <2> QED
    BY <1>3, <2>1, SetKeeps
<1>4. CASE Set(s, new, w) /\ s \in moved
  <2>1. LeftOver(str[s], value[s])
    BY <1>4 DEF StringInv
  <2>2. w = value[s]
    BY <2>1, StringAssumption, EmptySeq DEF LeftOver
  <2>3. CASE Holds(str[s], size)
    <3>1. new = str[s]
      BY <2>3 DEF Reserved
    <3> HIDE DEF new, w
    <3> QED
      BY <1>4, <2>2, <3>1, SetKeeps
  <2>4. CASE ~Holds(str[s], size)
    <3>1. StringOK(Emptied(str[s]), value[s]) /\ new = Reserved(Emptied(str[s]), size)
      BY <2>1, <2>4, EmptiedIs, ReservedOver
    <3>2. StringOK(new, w)
      BY <1>1, <3>1, ReservedIs
    <3> HIDE DEF new, w
    <3> QED
      BY <1>4, <3>2, SetKeeps
  <2> QED
    BY <2>3, <2>4
<1> QED
  BY <1>2, <1>3, <1>4 DEF reserve

(* Whatever a String holds, a text is copied over it. *)
LEMMA CopiedOver ==
    ASSUME StringInv, NEW s \in Strings, NEW w \in Seq(Letters), Len(w) <= MaxLen, NEW mem
    PROVE  LET new == CopiedFrom(str[s], w, Len(w), mem)
           IN  StringOK(new, IF new = invalid THEN NULL ELSE w)
<1>1. CASE s \notin moved
  BY <1>1, Owned, StringCopied
<1>2. CASE s \in moved
  <2>1. LeftOver(str[s], value[s])
    BY <1>2 DEF StringInv
  <2> DEFINE c == Emptied(str[s])
  <2>2. /\ StringOK(c, value[s])
        /\ CopiedFrom(str[s], w, Len(w), mem) = CopiedFrom(c, w, Len(w), mem)
    BY <2>1, EmptiedIs, CopiedFromOver
  <2> HIDE DEF c
  <2> QED
    BY <2>2, StringCopied
<1> QED
  BY <1>1, <1>2

LEMMA assignKeeps ==
    ASSUME StringInv, NEW s \in Strings, NEW w \in Literals, NEW mem, assign(s, w, mem)
    PROVE  StringInv'
<1> DEFINE new == CopiedFrom(str[s], w, Len(w), mem)
           v == IF new = invalid THEN NULL ELSE w
<1>1. w \in Seq(Letters) /\ Len(w) <= MaxLen
  BY StringAssumption
<1>2. StringOK(new, v)
  BY <1>1, CopiedOver
<1>3. Set(s, new, v)
  BY DEF assign
<1> HIDE DEF new, v
<1> QED
  BY <1>2, <1>3, SetKeeps

LEMMA assignStringKeeps ==
    ASSUME StringInv, NEW s \in Strings, NEW t \in Strings, NEW mem, assignString(s, t, mem)
    PROVE  StringInv'
<1> DEFINE new == IF str[t].buffer = NULL THEN invalid
                  ELSE CopiedFrom(str[s], str[t].buffer, str[t].len, mem)
           v == IF new = invalid THEN NULL ELSE value[t]
<1>1. StringOK(str[t], value[t])
  BY Owned DEF assignString
<1>2. Set(s, new, v)
  BY DEF assignString
<1>3. CASE value[t] = NULL
  <2>1. new = invalid
    BY <1>1, <1>3, StringIs
  <2>2. StringOK(new, v)
    BY <2>1, InvalidIsString
  <2> HIDE DEF new, v
  <2> QED
    BY <1>2, <2>2, SetKeeps
<1>4. CASE value[t] # NULL
  <2> DEFINE w == value[t]
  <2>1. /\ w \in Seq(Letters) /\ Len(w) <= MaxLen /\ str[t].len = Len(w) /\ str[t].buffer = w
        /\ w # NULL
    BY <1>1, <1>4, StringIs
  <2> HIDE DEF w
  <2>2. LET c == CopiedFrom(str[s], w, Len(w), mem) IN StringOK(c, IF c = invalid THEN NULL ELSE w)
    BY <2>1, CopiedOver
  <2>3. new = CopiedFrom(str[s], w, Len(w), mem)
    BY <2>1
  <2>4. StringOK(new, IF new = invalid THEN NULL ELSE w)
    BY <2>2, <2>3
  <2>5. v = IF new = invalid THEN NULL ELSE w
    BY DEF w
  <2> HIDE DEF new, v
  <2> QED
    BY <1>2, <2>4, <2>5, SetKeeps
<1> QED
  BY <1>3, <1>4

(* move(): a buffer that is large enough is reused, and what it held does  *)
(* not matter.                                                             *)
LEMMA MovedIs ==
    ASSUME NEW b \in StringStates, NEW rhs, NEW w, StringOK(rhs, w)
    PROVE  StringOK(Moved(b, rhs), w)
<1>1. /\ b.capacity \in Nat /\ rhs.buffer = w /\ rhs.len \in Nat
      /\ w # NULL => w \in Seq(Letters) /\ rhs.len = Len(w) /\ Len(w) <= MaxLen
  BY StringIs DEF StringStates
<1>2. CASE Reuses(b, rhs)
  <2>1. Moved(b, rhs) = [b EXCEPT !.buffer = w, !.len = Len(w)]
    BY <1>1, <1>2 DEF Moved, Reuses
  <2>2. w \in Seq(Letters) /\ Len(w) <= b.capacity /\ Len(w) <= MaxLen
    BY <1>1, <1>2 DEF Reuses
  <2>3. StringOK([b EXCEPT !.buffer = w, !.len = Len(w)], w)
    BY <2>2, WrittenIs
  <2> QED
    BY <2>1, <2>3
<1>3. CASE ~Reuses(b, rhs)
  BY <1>3 DEF Moved
<1> QED
  BY <1>2, <1>3

(* What the String is whose text was moved. *)
LEMMA MovedFromIs ==
    ASSUME NEW b, NEW rhs, NEW w, StringOK(rhs, w)
    PROVE  LET c == MovedFrom(b, rhs) IN
           /\ Reuses(b, rhs) /\ rhs.len > 0 => LeftOver(c, <<>>)
           /\ Reuses(b, rhs) /\ ~(rhs.len > 0) => StringOK(c, <<>>)
           /\ ~Reuses(b, rhs) => StringOK(c, NULL)
<1> DEFINE c == MovedFrom(b, rhs)
<1>1. /\ rhs \in StringStates /\ rhs.buffer = w /\ rhs.capacity \in Nat /\ rhs.len \in Nat
      /\ w # NULL => /\ w \in Seq(Letters) /\ Len(w) \in Nat
                     /\ rhs.len = Len(w) /\ Len(w) <= rhs.capacity /\ Len(w) <= MaxLen
  BY StringIs
<1>2. ASSUME Reuses(b, rhs)
      PROVE  /\ c \in StringStates /\ c.buffer = w /\ c.len = 0 /\ c.capacity = rhs.capacity
             /\ w \in Seq(Letters) /\ w # NULL
  <2>1. c = [rhs EXCEPT !.len = 0] /\ w # NULL
    BY <1>1, <1>2 DEF MovedFrom, Reuses
  <2> HIDE DEF c
  <2> QED
    BY <1>1, <2>1 DEF StringStates
<1>3. ASSUME Reuses(b, rhs), rhs.len > 0 PROVE LeftOver(c, <<>>)
  <2>1. w # <<>> /\ Len(w) <= c.capacity
    BY <1>1, <1>2, <1>3, EmptySeq
  <2> HIDE DEF c
  <2> QED
    BY <1>2, <1>3, <2>1 DEF LeftOver
<1>4. ASSUME Reuses(b, rhs), ~(rhs.len > 0) PROVE StringOK(c, <<>>)
  <2>1. w = <<>> /\ Len(w) = 0
    BY <1>1, <1>2, <1>4, EmptySeq
  <2>2. StringOK(c, w)
    BY <1>1, <1>2, <1>4, <2>1, TextIsString
  <2> QED
    BY <2>1, <2>2
<1>5. ASSUME ~Reuses(b, rhs) PROVE StringOK(c, NULL)
  BY <1>5, InvalidIsString DEF MovedFrom
<1> QED
  BY <1>3, <1>4, <1>5

LEMMA moveKeeps ==
    ASSUME StringInv, NEW s \in Strings, NEW t \in Strings, move(s, t)
    PROVE  StringInv'
<1> DEFINE reuses == Reuses(str[s], str[t])
           new == Moved(str[s], str[t])
           old == MovedFrom(str[s], str[t])
           v == IF reuses THEN <<>> ELSE NULL
<1>1. StringOK(str[t], value[t]) /\ str[s] \in StringStates
  BY Owned DEF move, StringInv
<1>2. StringOK(new, value[t])
  BY <1>1, MovedIs
<1>3. /\ reuses /\ str[t].len > 0 => LeftOver(old, v)
      /\ ~(reuses /\ str[t].len > 0) => StringOK(old, v)
  BY <1>1, MovedFromIs
<1>4. /\ str' = [str EXCEPT ![s] = new, ![t] = old] /\ s # t /\ t \notin moved
      /\ value' = [value EXCEPT ![s] = value[t], ![t] = v]
      /\ moved' = (moved \ {s}) \cup (IF reuses /\ str[t].len > 0 THEN {t} ELSE {})
  BY DEF move
<1>5. v \in Seq(Letters) \cup {NULL}
  BY EmptySeq
<1> HIDE DEF reuses, new, old, v
<1>6. new \in StringStates /\ old \in StringStates /\ value[t] \in Seq(Letters) \cup {NULL}
  BY <1>2, <1>3 DEF StringOK, LeftOver, StringInv
<1>7. /\ str' \in [Strings -> StringStates] /\ value' \in [Strings -> Seq(Letters) \cup {NULL}]
      /\ moved' \subseteq Strings
  BY <1>4, <1>5, <1>6 DEF StringInv
<1>8. ASSUME NEW r \in Strings
      PROVE  IF r \in moved' THEN LeftOver(str'[r], value'[r]) ELSE StringOK(str'[r], value'[r])
  <2>1. CASE r = s
    <3>1. str'[r] = new /\ value'[r] = value[t] /\ r \notin moved'
      BY <1>4, <2>1 DEF StringInv
    <3> QED
      BY <1>2, <3>1
  <2>2. CASE r = t
    <3>1. str'[r] = old /\ value'[r] = v /\ (r \in moved' <=> reuses /\ str[t].len > 0)
      BY <1>4, <2>2 DEF StringInv
    <3> QED
      BY <1>3, <3>1
  <2>3. CASE r # s /\ r # t
    <3>1. str'[r] = str[r] /\ value'[r] = value[r] /\ (r \in moved' <=> r \in moved)
      BY <1>4, <2>3 DEF StringInv
    <3> QED
      BY <3>1 DEF StringInv
  <2> QED
    BY <2>1, <2>2, <2>3
<1> QED
  BY <1>7, <1>8 DEF StringInv

(* concat() writes behind the text. *)
LEMMA ConcatenatedIs ==
    ASSUME NEW b, NEW v, StringOK(b, v), NEW w \in Seq(Letters), b.len + Len(w) <= MaxLen
    PROVE  StringOK(Concatenated(b, w, Len(w)), Joined(v, w))
<1>1. /\ b \in StringStates /\ b.buffer = v /\ b.capacity \in Nat /\ b.len \in Nat
      /\ v = NULL => b.capacity = 0 /\ b.len = 0
      /\ v # NULL => /\ v \in Seq(Letters) /\ Len(v) \in Nat
                     /\ b.len = Len(v) /\ Len(v) <= b.capacity /\ Len(v) <= MaxLen
  BY StringIs
<1>2. Len(w) \in Nat
  BY LenProperties
<1>3. CASE Len(w) = 0
  <2>1. w = <<>>
    BY <1>3, EmptySeq
  <2>2. Joined(v, w) = v
    <3>1. CASE v = NULL
      BY <2>1, <3>1 DEF Joined
    <3>2. CASE v # NULL
      BY <1>1, <2>1, <3>2, ConcatEmptySeq DEF Joined
    <3> QED
      BY <3>1, <3>2
  <2>3. Concatenated(b, w, Len(w)) = b
    BY <1>3 DEF Concatenated
  <2> QED
    BY <2>2, <2>3
<1>4. CASE Len(w) # 0
  <2> DEFINE c == Reserved(b, b.len + Len(w))
             r == (IF b.buffer = NULL THEN <<>> ELSE SubSeq(b.buffer, 1, b.len)) \o w
  <2>1. b.len + Len(w) \in Nat
    BY <1>1, <1>2
  <2>2. c \in StringStates /\ c.capacity >= b.len + Len(w)
    BY <2>1, ReservedIs
  <2>3. r = Joined(v, w) /\ r \in Seq(Letters) /\ Len(r) = b.len + Len(w)
    <3>1. CASE v = NULL
      <4>1. Joined(v, w) = w
        BY <1>4, <3>1, EmptySeq DEF Joined
      <4>2. <<>> \o w = w
        BY ConcatEmptySeq
      <4> QED
        BY <1>1, <1>2, <3>1, <4>1, <4>2
    <3>2. CASE v # NULL
      <4>1. SubSeq(b.buffer, 1, b.len) = v
        BY <1>1, <3>2, SubSeqFull
      <4>2. v \o w \in Seq(Letters) /\ Len(v \o w) = Len(v) + Len(w)
        BY <1>1, <3>2, ConcatProperties
      <4>3. r = v \o w
        BY <1>1, <3>2, <4>1
      <4> HIDE DEF r
      <4> QED
        BY <1>1, <3>2, <4>2, <4>3 DEF Joined
    <3> QED
      BY <3>1, <3>2
  <2>4. Concatenated(b, w, Len(w)) = [c EXCEPT !.buffer = r, !.len = b.len + Len(w)]
    BY <1>4 DEF Concatenated
  <2> HIDE DEF c, r
  <2>5. Len(r) <= c.capacity /\ Len(r) <= MaxLen
    <3>1. c.capacity \in Nat /\ MaxLen \in Nat
      BY <2>2, StringAssumption DEF StringStates
    <3> QED
      BY <2>1, <2>2, <2>3, <3>1
  <2>6. StringOK([c EXCEPT !.buffer = r, !.len = Len(r)], r)
    BY <2>2, <2>3, <2>5, WrittenIs
  <2> QED
    BY <2>3, <2>4, <2>6
<1> QED
  BY <1>3, <1>4

(* Whatever a String holds, a text is appended to its characters; nothing  *)
(* is done for an empty one.                                               *)
LEMMA AppendedTo ==
    ASSUME StringInv, NEW s \in Strings, NEW w \in Seq(Letters), str[s].len + Len(w) <= MaxLen,
           NEW tail, Len(w) # 0 => tail = w
    PROVE  LET new == Concatenated(str[s], tail, Len(w))
               v == Joined(value[s], w)
           IN  StringOK(new, v) \/ (new = str[s] /\ v = value[s])
<1> DEFINE new == Concatenated(str[s], tail, Len(w))
           v == Joined(value[s], w)
<1>1. CASE Len(w) = 0
  <2>1. w = <<>> /\ value[s] \in Seq(Letters) \cup {NULL}
    BY <1>1, EmptySeq DEF StringInv
  <2>2. v = value[s]
    <3>1. CASE value[s] = NULL
      BY <2>1, <3>1 DEF Joined
    <3>2. CASE value[s] # NULL
      BY <2>1, <3>2, ConcatEmptySeq DEF Joined
    <3> QED
      BY <3>1, <3>2
  <2>3. new = str[s]
    BY <1>1 DEF Concatenated
  <2> QED
    BY <2>2, <2>3
<1>2. CASE Len(w) # 0 /\ s \notin moved
  BY <1>2, Owned, ConcatenatedIs
<1>3. CASE Len(w) # 0 /\ s \in moved
  <2>1. LeftOver(str[s], value[s])
    BY <1>3 DEF StringInv
  <2> DEFINE c == Emptied(str[s])
  <2>2. /\ StringOK(c, value[s]) /\ c.len = 0
        /\ Concatenated(str[s], w, Len(w)) = Concatenated(c, w, Len(w))
    BY <1>3, <2>1, EmptiedIs, ConcatenatedOver, LenProperties
  <2> HIDE DEF c
  <2>3. c.len + Len(w) <= MaxLen
    BY <2>1, <2>2 DEF LeftOver
  <2> QED
    BY <1>3, <2>2, <2>3, ConcatenatedIs
<1> QED
  BY <1>1, <1>2, <1>3

LEMMA concatKeeps ==
    ASSUME StringInv, NEW s \in Strings, NEW w \in Literals, NEW mem, concat(s, w, mem)
    PROVE  StringInv'
<1> DEFINE new == Concatenated(str[s], w, Len(w))
           v == Joined(value[s], w)
<1>1. w \in Seq(Letters) /\ str[s].len + Len(w) <= MaxLen
  BY StringAssumption DEF concat
<1>2. StringOK(new, v) \/ (new = str[s] /\ v = value[s])
  BY <1>1, AppendedTo
<1>3. Set(s, new, v) \/ UNCHANGED stringVars
  BY DEF concat
<1> HIDE DEF new, v
<1>4. CASE Set(s, new, v)
  BY <1>2, <1>4, SetKeeps
<1>5. CASE UNCHANGED stringVars
  BY <1>5 DEF StringInv, stringVars
<1> QED
  BY <1>3, <1>4, <1>5

LEMMA plusKeeps ==
    ASSUME StringInv, NEW s \in Strings, NEW t \in Strings, NEW mem, plus(s, t, mem)
    PROVE  StringInv'
<1> DEFINE ok == Concatenates(str[s], str[t].buffer, str[t].len, mem)
           new == IF ok THEN Concatenated(str[s], str[t].buffer, str[t].len) ELSE invalid
           v == IF ok THEN Joined(value[s], value[t]) ELSE NULL
<1>1. IF t \in moved THEN LeftOver(str[t], value[t]) ELSE StringOK(str[t], value[t])
  BY DEF StringInv
<1>2. Set(s, new, v) /\ str[s].len + str[t].len <= MaxLen
  BY DEF plus
<1>3. StringOK(new, v) \/ (new = str[s] /\ v = value[s])
  <2>1. CASE ok
    <3> DEFINE w == value[t]
    <3>1. w \in Seq(Letters) /\ str[t].len = Len(w) /\ (Len(w) # 0 => str[t].buffer = w)
      <4>1. CASE t \in moved
        <5>1. w = <<>> /\ str[t].len = 0
          BY <1>1, <4>1 DEF LeftOver
        <5> QED
          BY <5>1, EmptySeq
      <4>2. CASE t \notin moved
        <5>1. StringOK(str[t], w) /\ str[t].buffer # NULL
          BY <1>1, <2>1, <4>2 DEF Concatenates
        <5> HIDE DEF w
        <5> QED
          BY <5>1, StringIs
      <4> QED
        BY <4>1, <4>2
    <3> HIDE DEF w
    <3>2. str[s].len + Len(w) <= MaxLen
      BY <1>2, <3>1
    <3>3. LET c == Concatenated(str[s], str[t].buffer, Len(w))
              u == Joined(value[s], w)
          IN  StringOK(c, u) \/ (c = str[s] /\ u = value[s])
      BY <3>1, <3>2, AppendedTo
    <3>4. new = Concatenated(str[s], str[t].buffer, Len(w)) /\ v = Joined(value[s], w)
      BY <2>1, <3>1 DEF w
    <3> QED
      BY <3>3, <3>4
  <2>2. CASE ~ok
    BY <2>2, InvalidIsString
  <2> QED
    BY <2>1, <2>2
<1> HIDE DEF new, v
<1> QED
  BY <1>2, <1>3, SetKeeps

(* remove() closes the gap. *)
LEMMA DropIs ==
    ASSUME NEW v \in Seq(Letters), NEW i \in Nat, NEW n \in Nat, i + n <= Len(v)
    PROVE  Drop(v, i, n) \in Seq(Letters) /\ Len(Drop(v, i, n)) = Len(v) - n
<1> DEFINE a == SubSeq(v, 1, i)
           z == SubSeq(v, i + n + 1, Len(v))
<1>1. Len(v) \in Nat
  BY LenProperties
<1>2. a \in Seq(Letters) /\ Len(a) = i
  <2>1. i \in 0..Len(v) /\ 1 \in Nat \ {0} /\ (IF 1 <= i THEN i - 1 + 1 ELSE 0) = i
    BY <1>1
  <2> QED
    BY <2>1, PartIs
<1>3. z \in Seq(Letters) /\ Len(z) = Len(v) - (i + n)
  <2>1. /\ Len(v) \in 0..Len(v) /\ i + n + 1 \in Nat \ {0}
        /\ (IF i + n + 1 <= Len(v) THEN Len(v) - (i + n + 1) + 1 ELSE 0) = Len(v) - (i + n)
    BY <1>1
  <2> QED
    BY <2>1, PartIs
<1>4. Drop(v, i, n) = a \o z
  BY DEF Drop
<1> HIDE DEF a, z
<1>5. a \o z \in Seq(Letters) /\ Len(a \o z) = Len(a) + Len(z)
  <2>1. a \in Seq(Letters) /\ z \in Seq(Letters)
    BY <1>2, <1>3
  <2> QED
    BY ONLY <2>1, ConcatProperties
<1> QED
  BY <1>1, <1>2, <1>3, <1>4, <1>5

LEMMA StringRemoveKeeps ==
    ASSUME StringInv, NEW s \in Strings, NEW i \in 0..MaxLen, NEW count \in 1..(MaxLen + 1),
           String_remove(s, i, count)
    PROVE  StringInv'
<1> DEFINE b == str[s]
           v == value[s]
           n == CountLeft(b, i, count)
           new == [b EXCEPT !.buffer = Drop(b.buffer, i, n), !.len = b.len - n]
           w == Drop(v, i, count)
<1>1. /\ b \in StringStates /\ b.buffer = v /\ b.capacity \in Nat /\ b.len \in Nat
      /\ v = NULL => b.capacity = 0 /\ b.len = 0
      /\ v # NULL => /\ v \in Seq(Letters) /\ Len(v) \in Nat
                     /\ b.len = Len(v) /\ Len(v) <= b.capacity /\ Len(v) <= MaxLen
  <2>1. str[s].len \in Nat /\ i < str[s].len /\ i \in Nat
    BY StringAssumption DEF StringInv, StringStates, String_remove
  <2>2. StringOK(str[s], value[s])
    BY <2>1, Owned
  <2> QED
    BY <2>2, StringIs
<1>2. i < b.len /\ Set(s, new, w) /\ MaxLen \in Nat /\ i \in Nat
  <2>1. i < b.len /\ Set(s, new, w)
    BY DEF String_remove
  <2>2. MaxLen \in Nat /\ i \in Nat
    BY StringAssumption
  <2> QED
    BY <2>1, <2>2, Zenon
<1>3. v # NULL
  BY <1>1, <1>2
<1>4. n \in Nat /\ i + n <= Len(v)
  BY <1>1, <1>2, <1>3 DEF CountLeft
<1>4a. w = Drop(v, i, n)
  <2>1. CASE n = count
    BY <2>1
  <2>2. CASE n # count
    <3>1. n = Len(v) - i /\ count > n /\ count \in Int
      BY <1>1, <1>2, <1>3, <2>2 DEF CountLeft
    <3> HIDE DEF n, b, v
    <3>2. SubSeq(v, i + n + 1, Len(v)) = <<>> /\ SubSeq(v, i + count + 1, Len(v)) = <<>>
      <4>1. /\ Len(v) < i + n + 1 /\ Len(v) < i + count + 1
            /\ i + n + 1 \in Int /\ i + count + 1 \in Int /\ Len(v) \in Int
        <5>1. Len(v) \in Nat
          BY <1>1, <1>3
        <5> QED
          BY <1>2, <1>4, <3>1, <5>1
      <4> QED
        BY <4>1, SubSeqEmpty
    <3> QED
      BY <3>2 DEF Drop
  <2> QED
    BY <2>1, <2>2
<1> HIDE DEF n, b, v
<1>5. w \in Seq(Letters) /\ Len(w) = Len(v) - n
  BY <1>1, <1>3, <1>4, <1>4a, DropIs
<1>6. new = [b EXCEPT !.buffer = w, !.len = Len(w)]
  BY <1>1, <1>3, <1>4a, <1>5
<1> HIDE DEF w
<1>7. Len(w) <= b.capacity /\ Len(w) <= MaxLen
  BY <1>1, <1>2, <1>3, <1>4, <1>5
<1>8. StringOK(new, w)
  BY <1>1, <1>5, <1>6, <1>7, WrittenIs
<1> HIDE DEF new
<1> QED
  BY <1>2, <1>8, SetKeeps

(* trim() keeps what lies between the first and the last character that    *)
(* is not a space.                                                         *)
LEMMA trimKeeps ==
    ASSUME StringInv, NEW s \in Strings, trim(s)
    PROVE  StringInv'
<1> DEFINE b == str[s]
           v == value[s]
           begin == Min({i \in 1..b.len : b.buffer[i] # Space} \cup {b.len + 1})
           end == Max({i \in begin..b.len : b.buffer[i] # Space} \cup {begin - 1})
           new == [b EXCEPT !.buffer = SubSeq(b.buffer, begin, end), !.len = end + 1 - begin]
           w == Trimmed(v)
           inked == {i \in 1..Len(v) : v[i] # Space}
<1>1. /\ b \in StringStates /\ b.buffer = v /\ b.capacity \in Nat /\ b.len \in Nat
      /\ v = NULL => b.capacity = 0 /\ b.len = 0
      /\ v # NULL => /\ v \in Seq(Letters) /\ Len(v) \in Nat
                     /\ b.len = Len(v) /\ Len(v) <= b.capacity /\ Len(v) <= MaxLen
  <2>1. StringOK(str[s], value[s])
    BY Owned DEF trim
  <2> QED
    BY <2>1, StringIs
<1>2. Set(s, new, w) /\ b.buffer # NULL /\ MaxLen \in Nat
  BY StringAssumption DEF trim
<1>3. /\ v \in Seq(Letters) /\ Len(v) \in Nat /\ b.len = Len(v) /\ Len(v) <= b.capacity
      /\ Len(v) <= MaxLen /\ b.buffer = v /\ DOMAIN v = 1..Len(v)
  BY <1>1, <1>2, LenProperties
<1>4. w = IF inked = {} THEN <<>> ELSE SubSeq(v, Min(inked), Max(inked))
  BY <1>3 DEF Trimmed
<1>5. /\ begin = Min(inked \cup {Len(v) + 1})
      /\ end = Max({i \in begin..Len(v) : v[i] # Space} \cup {begin - 1})
  BY <1>3
<1> HIDE DEF b, v, w
<1>6. SUFFICES /\ SubSeq(v, begin, end) = w /\ w \in Seq(Letters)
               /\ Len(w) = end + 1 - begin /\ Len(w) <= Len(v)
  <2>1. new = [b EXCEPT !.buffer = w, !.len = Len(w)]
    BY <1>3, <1>6
  <2> HIDE DEF new, begin, end, inked
  <2>2. Len(w) <= b.capacity /\ Len(w) <= MaxLen
    <3>1. Len(w) \in Nat
      BY <1>6, LenProperties
    <3> QED
      BY <1>1, <1>2, <1>3, <1>6, <3>1
  <2>3. StringOK(new, w)
    BY <1>1, <1>6, <2>1, <2>2, WrittenIs
  <2> QED
    BY <1>2, <2>3, SetKeeps
<1>7. CASE inked = {}
  <2>1. begin = Len(v) + 1
    <3> DEFINE S == inked \cup {Len(v) + 1}
    <3>1. S = {Len(v) + 1}
      BY <1>7
    <3>2. Min({Len(v) + 1}) = Len(v) + 1
      BY <1>3, MinIs
    <3> QED
      BY <1>5, <3>1, <3>2
  <2> HIDE DEF begin
  <2>2. end = Len(v)
    <3>1. {i \in begin..Len(v) : v[i] # Space} \cup {begin - 1} = {Len(v)}
      BY <1>3, <2>1
    <3> DEFINE m == Len(v)
               S == {m}
    <3>2. S \subseteq Int /\ m \in S /\ \A k \in S : k <= m
      BY <1>3
    <3> HIDE DEF S, m
    <3>3. Max(S) = m
      BY <3>2, MaxIs
    <3> QED
      BY <1>5, <3>1, <3>3 DEF S, m
  <2> HIDE DEF end
  <2>3. SubSeq(v, begin, end) = <<>>
    BY <1>3, <2>1, <2>2, SubSeqEmpty
  <2> QED
    BY <1>3, <1>4, <1>7, <2>1, <2>2, <2>3, EmptySeq
<1>8. CASE inked # {}
  <2> DEFINE lo == Min(inked)
             hi == Max(inked)
  <2>1. inked \subseteq 1..Len(v) /\ inked \subseteq Nat /\ inked \subseteq Int
        /\ \A i \in inked : i <= Len(v)
    BY <1>3
  <2> HIDE DEF inked
  <2>2. lo \in inked /\ \A i \in inked : lo <= i
    BY <1>8, <2>1, LeastIs
  <2>3. hi \in inked /\ \A i \in inked : i <= hi
    <3>1. PICK n \in Int : \A k \in inked : k <= n
      <4>1. Len(v) \in Int /\ \A k \in inked : k <= Len(v)
        BY <1>3, <2>1
      <4> QED
        BY <4>1
    <3> QED
      BY <1>8, <2>1, <3>1, GreatestIs
  <2> HIDE DEF lo, hi
  <2>4. begin = lo
    <3> DEFINE S == inked \cup {Len(v) + 1}
    <3>1. S \subseteq Int /\ lo \in S /\ \A i \in S : lo <= i
      <4>1. Len(v) + 1 \in Int /\ lo <= Len(v) + 1
        BY <1>3, <2>1, <2>2
      <4> QED
        BY <2>1, <2>2, <4>1
    <3> HIDE DEF S
    <3>2. Min(S) = lo
      BY <3>1, MinIs
    <3> QED
      BY <1>5, <3>2 DEF S
  <2> HIDE DEF begin
  <2>5. end = hi
    <3> DEFINE S == {i \in begin..Len(v) : v[i] # Space} \cup {begin - 1}
    <3>1. lo \in 1..Len(v) /\ hi \in 1..Len(v) /\ lo <= hi
      BY <2>1, <2>2, <2>3
    <3>2. S \subseteq Int /\ hi \in S /\ \A i \in S : i <= hi
      <4>1. {i \in begin..Len(v) : v[i] # Space} \subseteq inked
        BY <1>3, <2>4, <3>1 DEF inked
      <4>2. v[hi] # Space /\ hi \in begin..Len(v)
        BY <1>3, <2>3, <2>4, <3>1 DEF inked
      <4> QED
        BY <1>3, <2>1, <2>3, <2>4, <3>1, <4>1, <4>2
    <3> HIDE DEF S
    <3>3. Max(S) = hi
      BY <3>2, MaxIs
    <3> QED
      BY <1>5, <3>3 DEF S
  <2> HIDE DEF end
  <2>6. /\ lo \in Nat \ {0} /\ hi \in 0..Len(v)
        /\ (IF lo <= hi THEN hi - lo + 1 ELSE 0) = hi + 1 - lo /\ hi + 1 - lo <= Len(v)
    BY <1>3, <2>1, <2>2, <2>3
  <2>7. SubSeq(v, lo, hi) \in Seq(Letters) /\ Len(SubSeq(v, lo, hi)) = hi + 1 - lo
    BY <1>3, <2>6, PartIs
  <2> QED
    BY <1>4, <1>8, <2>4, <2>5, <2>6, <2>7 DEF lo, hi
<1> QED
  BY <1>7, <1>8

(* What replace() computes is what the text becomes, and as long as the    *)
(* size it computed before.                                                *)
LEMMA ReplacedIs ==
    ASSUME NEW b, NEW v, StringOK(b, v), NEW find, NEW new, IsText(find), IsText(new), NEW mem,
           b.len # 0, Len(find) >= 1, Len(find) = 1 \/ Len(new) <= Len(find),
           Len(AllReplaced(v, find, new)) <= MaxLen,
           ~(/\ SizeNeeded(b, find, new) > b.len
             /\ SizeNeeded(b, find, new) > b.capacity /\ ~mem)
    PROVE  StringOK(Replaced(b, find, new, mem), AllReplaced(v, find, new))
<1> DEFINE w == AllReplaced(v, find, new)
           T == Times(v, find)[Len(v)]
           d == Len(new) - Len(find)
           size == SizeNeeded(b, find, new)
           r == Replaced(b, find, new, mem)
<1>1. /\ b \in StringStates /\ b.buffer = v /\ b.capacity \in Nat
      /\ v \in Seq(Letters) /\ Len(v) \in Nat
      /\ b.len = Len(v) /\ Len(v) <= b.capacity /\ Len(v) <= MaxLen
  BY StringIs
<1>2. IsText(v) /\ Len(v) \in 0..Len(v) /\ Len(find) \in Nat /\ Len(new) \in Nat
  BY <1>1, LenProperties DEF IsText
<1>3. BecomesRight(v, find, new, Len(v))
  BY <1>2, BecomesIsRight
<1>4. w = Becomes(v, find, new)[Len(v)]
  BY AllReplacedIs
<1>5. /\ w \in Seq(Letters) /\ T \in Nat /\ Len(w) = Len(v) + d * T
      /\ T = 0 => w = SubSeq(v, Len(v) - Len(v) + 1, Len(v))
  BY <1>3, <1>4 DEF BecomesRight, IsText
<1>6. d \in Int /\ d * T \in Int
  BY <1>2, <1>5
<1>7. size = Len(w)
  <2>1. Forward(v, find, find).count = T
    BY <1>2, ForwardIs
  <2> QED
    BY <1>1, <1>5, <2>1 DEF SizeNeeded
<1> HIDE DEF w, T, size
<1>8. CASE d <= 0
  <2>1. d * T <= 0
    BY <1>5, <1>6, <1>8
  <2>2. Forward(v, find, new).buffer = w /\ Forward(v, find, new).count = T
    BY <1>2, <1>4, ForwardIs DEF T
  <2>3. r = [b EXCEPT !.buffer = w, !.len = Len(w)]
    <3>1. r = [b EXCEPT !.buffer = Forward(v, find, new).buffer,
                        !.len = b.len + d * Forward(v, find, new).count]
      BY <1>1, <1>2, <1>8 DEF Replaced
    <3> QED
      BY <1>1, <1>5, <2>2, <3>1
  <2>4. Len(w) <= b.capacity /\ Len(w) <= MaxLen
    BY <1>1, <1>5, <1>6, <2>1, StringAssumption DEF w
  <2>5. StringOK([b EXCEPT !.buffer = w, !.len = Len(w)], w)
    BY <1>1, <1>5, <2>4, WrittenIs
  <2> HIDE DEF r
  <2> QED
    BY <2>3, <2>5 DEF r, w
<1>9. CASE d > 0
  <2>1. Len(find) = 1
    BY <1>2, <1>9
  <2>2. d * T >= 0 /\ (d * T = 0 => T = 0)
    BY <1>5, <1>6, <1>9
  <2>3. CASE size = b.len
    <3>1. T = 0
      BY <1>1, <1>5, <1>6, <1>7, <2>2, <2>3
    <3>2. w = v
      BY <1>1, <1>5, <3>1, SubSeqFull
    <3>3. r = b
      BY <1>2, <1>9, <2>3 DEF Replaced, size
    <3> QED
      BY <3>2, <3>3 DEF w
  <2>4. CASE size # b.len
    <3> DEFINE m == IF size > b.capacity THEN size ELSE b.capacity
    <3>1. size > b.len /\ ~(size > b.capacity /\ ~mem)
      BY <1>1, <1>5, <1>6, <1>7, <2>2, <2>4 DEF size
    <3>2. Backward(v, find, new) = w
      BY <1>2, <1>4, <2>1, BackwardIs
    <3>3. r = [buffer |-> w, len |-> Len(w), capacity |-> m]
      BY <1>1, <1>2, <1>9, <2>4, <3>1, <3>2 DEF Replaced, size
    <3>4. Len(w) \in Nat /\ m \in Nat /\ Len(w) <= m
      BY <1>1, <1>5, <1>7, LenProperties
    <3> HIDE DEF m, r
    <3>5. r \in StringStates /\ r.buffer = w /\ r.len = Len(w) /\ r.capacity = m
      BY <1>5, <3>3, <3>4 DEF StringStates
    <3>6. Len(w) <= MaxLen
      BY DEF w
    <3>7. StringOK(r, w)
      BY <1>5, <3>4, <3>5, <3>6, TextIsString
    <3> QED
      BY <3>7 DEF r, w
  <2> QED
    BY <2>3, <2>4
<1> QED
  BY <1>6, <1>8, <1>9

LEMMA replaceKeeps ==
    ASSUME StringInv, ~GrowAny, NEW s \in Strings, NEW find \in Literals, NEW new \in Literals,
           NEW mem, replace(s, find, new, mem)
    PROVE  StringInv'
<1> DEFINE b == str[s]
           size == SizeNeeded(b, find, new)
           r == Replaced(b, find, new, mem)
           w == AllReplaced(value[s], find, new)
<1>1. /\ b.len # 0 => StringOK(b, value[s])
      /\ IsText(find) /\ IsText(new) /\ Len(find) \in Nat /\ Len(new) \in Nat
  BY StringAssumption, LenProperties, Owned DEF IsText
<1>2. b.len # 0 => b.buffer = value[s]
  BY <1>1, StringIs
<1>3. CASE b.len = 0 \/ Len(find) = 0 \/ (size > b.len /\ size > b.capacity /\ ~mem)
  <2>1. UNCHANGED stringVars
    BY <1>3 DEF replace
  <2> QED
    BY <2>1 DEF StringInv, stringVars
<1>4. CASE ~(b.len = 0 \/ Len(find) = 0 \/ (size > b.len /\ size > b.capacity /\ ~mem))
  <2>1. Len(AllReplaced(b.buffer, find, new)) <= MaxLen /\ Set(s, r, w)
    BY <1>4 DEF replace
  <2>2. Len(find) <= 1 \/ Len(new) <= Len(find)
    BY DEF replace
  <2>3. b.len # 0 /\ Len(find) >= 1 /\ (Len(find) = 1 \/ Len(new) <= Len(find))
    <3> HIDE DEF b, size
    <3> QED
      BY <1>1, <1>4, <2>2
  <2>4. Len(w) <= MaxLen
    BY <1>2, <2>1, <2>3
  <2>5. StringOK(r, w)
    BY <1>1, <1>4, <2>3, <2>4, ReplacedIs
  <2> HIDE DEF r, w
  <2> QED
    BY <2>1, <2>5, SetKeeps
<1> QED
  BY <1>3, <1>4

LEMMA StringStarts == StringInit => StringInv
<1> SUFFICES ASSUME StringInit PROVE StringInv
  OBVIOUS
<1>1. StringOK(emptyString, <<>>)
  BY EmptyIsString
<1>2. emptyString \in StringStates /\ <<>> \in Seq(Letters) \cup {NULL}
  BY <1>1 DEF StringOK, StringStates
<1> QED
  BY <1>1, <1>2 DEF StringInit, StringInv

LEMMA StringSteps == StringInv /\ ~GrowAny /\ [StringNext]_stringVars => StringInv'
<1> SUFFICES ASSUME StringInv, ~GrowAny, [StringNext]_stringVars PROVE StringInv'
  OBVIOUS
<1>1. CASE UNCHANGED stringVars
  BY <1>1 DEF StringInv, stringVars
<1>2. ASSUME NEW s \in Strings, NEW mem \in BOOLEAN, NEW size \in 0..MaxLen, reserve(s, size, mem)
      PROVE  StringInv'
  BY <1>2, reserveKeeps
<1>3. ASSUME NEW s \in Strings, NEW mem \in BOOLEAN, NEW w \in Literals, assign(s, w, mem)
      PROVE  StringInv'
  BY <1>3, assignKeeps
<1>4. ASSUME NEW s \in Strings, NEW mem \in BOOLEAN, NEW w \in Literals, concat(s, w, mem)
      PROVE  StringInv'
  BY <1>4, concatKeeps
<1>5. ASSUME NEW s \in Strings, NEW mem \in BOOLEAN, NEW t \in Strings, assignString(s, t, mem)
      PROVE  StringInv'
  BY <1>5, assignStringKeeps
<1>6. ASSUME NEW s \in Strings, NEW mem \in BOOLEAN, NEW t \in Strings, plus(s, t, mem)
      PROVE  StringInv'
  BY <1>6, plusKeeps
<1>7. ASSUME NEW s \in Strings, NEW mem \in BOOLEAN, NEW find \in Literals, NEW new \in Literals,
             replace(s, find, new, mem)
      PROVE  StringInv'
  BY <1>7, replaceKeeps
<1>8. ASSUME NEW s \in Strings, NEW t \in Strings, move(s, t)
      PROVE  StringInv'
  BY <1>8, moveKeeps
<1>9. ASSUME NEW s \in Strings, NEW i \in 0..MaxLen, NEW count \in 1..(MaxLen + 1),
             String_remove(s, i, count)
      PROVE  StringInv'
  BY <1>9, StringRemoveKeeps
<1>10. ASSUME NEW s \in Strings, trim(s) PROVE StringInv'
  BY <1>10, trimKeeps
<1>11. CASE StringNext
  BY <1>2, <1>3, <1>4, <1>5, <1>6, <1>7, <1>8, <1>9, <1>10, <1>11, Zenon DEF StringNext
<1> QED
  BY <1>1, <1>11

LEMMA StringTypesFollow == StringInv => StringTypeOK
<1> SUFFICES ASSUME StringInv, NEW s \in Strings
             PROVE  /\ str[s].buffer = NULL => str[s].capacity = 0 /\ str[s].len = 0
                    /\ str[s].capacity \in Nat /\ str[s].len \in Nat
                    /\ value[s] # NULL => Len(value[s]) <= MaxLen
  BY DEF StringTypeOK, StringInv
<1>1. CASE s \in moved
  <2>1. LeftOver(str[s], value[s])
    BY <1>1 DEF StringInv
  <2>2. value[s] = <<>> /\ str[s].buffer # NULL /\ str[s].capacity \in Nat /\ str[s].len \in Nat
    BY <2>1 DEF LeftOver, StringStates
  <2>3. Len(value[s]) = 0 /\ MaxLen \in Nat
    BY <2>2, EmptySeq, StringAssumption
  <2> QED
    BY <2>2, <2>3
<1>2. CASE s \notin moved
  BY <1>2, Owned, StringIs
<1> QED
  BY <1>1, <1>2

LEMMA StringRightFollows == StringInv => StringRight
<1> SUFFICES ASSUME StringInv, NEW s \in Strings
             PROVE  /\ str[s].buffer = value[s] \/ s \in moved
                    /\ value[s] # NULL => str[s].len = Len(value[s])
                    /\ str[s].buffer # NULL => Len(str[s].buffer) <= str[s].capacity
  BY DEF StringRight, TextRight, Fits
<1>1. CASE s \in moved
  <2>1. LeftOver(str[s], value[s])
    BY <1>1 DEF StringInv
  <2>2. value[s] = <<>> /\ str[s].len = 0 /\ Len(str[s].buffer) <= str[s].capacity
    BY <2>1 DEF LeftOver
  <2> QED
    BY <1>1, <2>2, EmptySeq
<1>2. CASE s \notin moved
  BY <1>2, Owned, StringIs
<1> QED
  BY <1>1, <1>2

(* Every String keeps its type, however short memory is: an invalid one    *)
(* has no capacity and no length.  ~GrowAny: a replace() that lengthens    *)
(* replaces single characters; the run wstring_replace shows what happens  *)
(* otherwise.                                                              *)
THEOREM StringTypes ==
    ASSUME ~GrowAny
    PROVE  StringSpec => []StringTypeOK
<1>1. StringInit => StringInv
  BY StringStarts
<1>2. StringInv /\ [StringNext]_stringVars => StringInv'
  BY StringSteps
<1>3. StringInv => StringTypeOK
  BY StringTypesFollow
<1> QED
  BY <1>1, <1>2, <1>3, PTL DEF StringSpec

(* After every sequence of operations of WString.cpp a String holds the    *)
(* text it should have, the length kept beside it is right, and the text   *)
(* fits the memory behind it; replace() in particular replaces every find  *)
(* from the left, whichever way its loop runs.  A String whose text was    *)
(* moved away has length 0 and may still hold the text.                    *)
THEOREM StringIsRight ==
    ASSUME ~GrowAny
    PROVE  StringSpec => []StringRight
<1>1. StringInit => StringInv
  BY StringStarts
<1>2. StringInv /\ [StringNext]_stringVars => StringInv'
  BY StringSteps
<1>3. StringInv => StringRight
  BY StringRightFollows
<1> QED
  BY <1>1, <1>2, <1>3, PTL DEF StringSpec
=============================================================================
