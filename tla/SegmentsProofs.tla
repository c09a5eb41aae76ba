---------------------------- MODULE SegmentsProofs ---------------------------
(***************************************************************************)
(* What ikcp_send makes of a stream (module Segments), for every segment   *)
(* size and any number of bytes: no byte is lost or repeated, no payload   *)
(* is larger than a segment, and only the last one may be smaller.         *)
(***************************************************************************)
EXTENDS Segments, WellFoundedInduction, TLAPS

-----------------------------------------------------------------------------
(* Arithmetic *)

LEMMA Monotone ==
  ASSUME NEW m \in Nat, NEW i \in Int, NEW j \in Int, i <= j
  PROVE  i * m <= j * m
<1>1. (j - i) * m >= 0
  OBVIOUS
<1> QED  BY <1>1

LEMMA Division ==
  ASSUME NEW d \in Nat \ {0}, NEW n \in Nat
  PROVE  /\ n \div d \in Nat
         /\ (n \div d) * d <= n /\ n < (n \div d) * d + d
OBVIOUS

\* The number of segments that n bytes need.
Ceiling(n) == (n + Mss - 1) \div Mss

LEMMA CeilingFacts ==
  ASSUME NEW n \in Nat
  PROVE  /\ Ceiling(n) \in Nat
         /\ n <= Ceiling(n) * Mss /\ Ceiling(n) * Mss < n + Mss
<1>1. n + Mss - 1 \in Nat
  BY MssAssumption
<1>2. /\ Ceiling(n) \in Nat
      /\ Ceiling(n) * Mss <= n + Mss - 1 /\ n + Mss - 1 < Ceiling(n) * Mss + Mss
  BY <1>1, MssAssumption, Division DEF Ceiling
<1>3. PICK c \in Nat : c = Ceiling(n) * Mss
  BY <1>2, MssAssumption
<1> QED  BY <1>2, <1>3, MssAssumption

LEMMA CeilingGrows ==
  ASSUME NEW m \in Nat, NEW n \in Nat, m <= n
  PROVE  Ceiling(m) <= Ceiling(n)
<1> DEFINE a == Ceiling(m)
           b == Ceiling(n)
<1>1. /\ a \in Nat /\ a * Mss < m + Mss
      /\ b \in Nat /\ n <= b * Mss
  BY CeilingFacts
<1> HIDE DEF a, b
<1>2. SUFFICES ASSUME b + 1 <= a PROVE FALSE
  BY <1>1 DEF a, b
<1>3. (b + 1) * Mss <= a * Mss
  BY <1>1, <1>2, Monotone, MssAssumption
<1>4. (b + 1) * Mss = b * Mss + Mss
  BY <1>1, MssAssumption
<1>5. PICK x \in Nat, y \in Nat : x = a * Mss /\ y = b * Mss
  BY <1>1, MssAssumption
<1> QED  BY <1>1, <1>3, <1>4, <1>5, MssAssumption

\* A set of numbers has a least one: the induction of the proofs below goes by
\* the least counterexample.
LEMMA Least ==
  ASSUME NEW T, T \subseteq Nat, T # {}
  PROVE  \E x \in T : \A y \in T : x <= y
<1> DEFINE R == {ss \in Nat \X Nat : ss[1] < ss[2]}
<1>1. IsWellFoundedOn(R, Nat)
  BY NatLessThanWellFounded DEF OpToRel
<1> HIDE DEF R
<1>2. PICK x \in T : \A y \in T : ~ (<<y, x>> \in R)
  BY <1>1, WFMin
<1>3. \A y \in T : ~(y < x)
  BY <1>2 DEF R
<1> QED  BY <1>2, <1>3

-----------------------------------------------------------------------------
(* Stretches of a stream *)

\* The payloads of queue are the bytes lo + 1 .. hi, one after the other, and
\* none is larger than a segment.
Stretch(queue, lo, hi) ==
  /\ queue \in Seq(Payload) /\ lo \in Nat /\ hi \in Nat /\ lo <= hi
  /\ Spans(queue, lo, hi)
  /\ \A i \in DOMAIN queue : /\ lo <= queue[i][1] /\ queue[i][2] <= hi
                             /\ Length(queue[i]) <= Mss
  /\ \A i, j \in DOMAIN queue : i < j => queue[i][2] <= queue[j][1]

\* All payloads but the last are full.
Packed(queue) ==
  \A i \in DOMAIN queue : i < Len(queue) => Length(queue[i]) = Mss

LEMMA EmptyStretch == \A lo \in Nat : Stretch(<< >>, lo, lo) /\ Packed(<< >>)
BY DEF Stretch, Spans, Packed

\* Two stretches that meet are one.
LEMMA StretchesJoin ==
  ASSUME NEW q, NEW r, NEW lo, NEW mid, NEW hi,
         Stretch(q, lo, mid), Stretch(r, mid, hi)
  PROVE  Stretch(q \o r, lo, hi)
<1> DEFINE s == q \o r
<1>1. /\ q \in Seq(Payload) /\ r \in Seq(Payload)
      /\ lo \in Nat /\ mid \in Nat /\ hi \in Nat /\ lo <= mid /\ mid <= hi
  BY DEF Stretch
<1>2. /\ s \in Seq(Payload) /\ Len(s) = Len(q) + Len(r)
      /\ \A i \in 1 .. Len(q) : s[i] = q[i]
      /\ \A i \in Len(q) + 1 .. Len(q) + Len(r) : s[i] = r[i - Len(q)]
  BY <1>1
<1>3. \A i \in 1 .. Len(s) : \/ i \in 1 .. Len(q)
                             \/ i \in Len(q) + 1 .. Len(q) + Len(r) /\ i - Len(q) \in 1 .. Len(r)
  BY <1>1, <1>2
<1>4. \A p \in Payload : p[1] \in Nat /\ p[2] \in Nat
  BY DEF Payload
<1>5. /\ \A i \in 1 .. Len(q) : q[i] \in Payload
      /\ \A i \in 1 .. Len(r) : r[i] \in Payload
  BY <1>1
<1>a. /\ \A i \in 1 .. Len(q) : /\ q[i][1] < q[i][2]
                                /\ q[i][1] = IF i = 1 THEN lo ELSE q[i - 1][2]
      /\ mid = IF q = << >> THEN lo ELSE q[Len(q)][2]
  BY <1>1 DEF Stretch, Spans
<1>b. /\ \A i \in 1 .. Len(r) : /\ r[i][1] < r[i][2]
                                /\ r[i][1] = IF i = 1 THEN mid ELSE r[i - 1][2]
      /\ hi = IF r = << >> THEN mid ELSE r[Len(r)][2]
  BY <1>1 DEF Stretch, Spans
<1> HIDE DEF s
<1>6. Spans(s, lo, hi)
  <2>1. \A i \in 1 .. Len(s) : s[i][1] < s[i][2]
    <3> TAKE i \in 1 .. Len(s)
    <3>1. CASE i \in 1 .. Len(q)
      BY <1>2, <1>a, <3>1
    <3>2. CASE i \in Len(q) + 1 .. Len(q) + Len(r) /\ i - Len(q) \in 1 .. Len(r)
      BY <1>2, <1>b, <3>2
    <3> QED  BY <1>3, <3>1, <3>2
  <2>2. \A i \in 1 .. Len(s) : s[i][1] = IF i = 1 THEN lo ELSE s[i - 1][2]
    <3> TAKE i \in 1 .. Len(s)
    <3>1. CASE i \in 1 .. Len(q)
      <4>1. i # 1 => i - 1 \in 1 .. Len(q)
        BY <1>1, <3>1
      <4> QED  BY <1>2, <1>a, <3>1, <4>1
    <3>2. CASE i = Len(q) + 1
      <4>1. 1 \in 1 .. Len(r) /\ s[i] = r[1] /\ r[1][1] = mid
        <5>1. Len(r) \in Nat /\ Len(q) \in Nat /\ i \in Len(q) + 1 .. Len(q) + Len(r)
          BY <1>1, <1>2, <3>2
        <5>2. 1 \in 1 .. Len(r) /\ i - Len(q) = 1
          BY <3>2, <5>1
        <5>3. s[i] = r[1]
          BY <1>2, <5>1, <5>2
        <5> QED  BY <1>b, <5>2, <5>3
      <4>2. CASE q = << >>
        <5>1. i = 1
          BY <3>2, <4>2
        <5> QED  BY <1>a, <4>1, <4>2, <5>1
      <4>3. CASE q # << >>
        <5>1. i # 1 /\ i - 1 = Len(q) /\ Len(q) \in 1 .. Len(q)
          BY <1>1, <3>2, <4>3
        <5> QED  BY <1>2, <1>a, <4>1, <4>3, <5>1
      <4> QED  BY <4>2, <4>3
    <3>3. CASE i \in Len(q) + 2 .. Len(q) + Len(r)
      <4>1. /\ i # 1 /\ i - 1 \in Len(q) + 1 .. Len(q) + Len(r)
            /\ i \in Len(q) + 1 .. Len(q) + Len(r)
            /\ i - Len(q) \in 1 .. Len(r) /\ i - Len(q) # 1
            /\ (i - 1) - Len(q) = (i - Len(q)) - 1
        BY <1>1, <3>3
      <4>2. s[i] = r[i - Len(q)] /\ s[i - 1] = r[(i - Len(q)) - 1]
        BY <1>2, <4>1
      <4> QED  BY <1>b, <4>1, <4>2
    <3> QED  BY <1>1, <1>2, <3>1, <3>2, <3>3
  <2>3. hi = IF s = << >> THEN lo ELSE s[Len(s)][2]
    <3>1. CASE r = << >>
      <4>1. s = q
        BY <1>1, <3>1 DEF s
      <4> QED  BY <1>a, <1>b, <3>1, <4>1
    <3>2. CASE r # << >>
      <4>1. /\ Len(s) \in Len(q) + 1 .. Len(q) + Len(r) /\ Len(s) - Len(q) = Len(r)
            /\ s # << >>
        BY <1>1, <1>2, <3>2
      <4>2. s[Len(s)] = r[Len(r)]
        BY <1>2, <4>1
      <4> QED  BY <1>b, <3>2, <4>1, <4>2
    <3> QED  BY <3>1, <3>2
  <2>4. DOMAIN s = 1 .. Len(s)
    BY <1>2
  <2> QED  BY <2>1, <2>2, <2>3, <2>4 DEF Spans
<1>7. \A i \in 1 .. Len(s) : lo <= s[i][1] /\ s[i][2] <= hi /\ Length(s[i]) <= Mss
  <2> TAKE i \in 1 .. Len(s)
  <2>1. CASE i \in 1 .. Len(q)
    <3>1. s[i] = q[i] /\ q[i] \in Payload /\ i \in DOMAIN q
      BY <1>1, <1>2, <2>1
    <3>2. lo <= q[i][1] /\ q[i][2] <= mid /\ Length(q[i]) <= Mss
      BY <3>1 DEF Stretch
    <3> QED  BY <1>1, <1>4, <3>1, <3>2
  <2>2. CASE i \in Len(q) + 1 .. Len(q) + Len(r)
    <3> DEFINE k == i - Len(q)
    <3>1. s[i] = r[k] /\ k \in 1 .. Len(r)
      BY <1>1, <1>2, <2>2
    <3>2. r[k] \in Payload /\ k \in DOMAIN r
      BY <1>1, <3>1
    <3> HIDE DEF k
    <3>3. mid <= r[k][1] /\ r[k][2] <= hi /\ Length(r[k]) <= Mss
      BY <3>2 DEF Stretch
    <3> QED  BY <1>1, <1>4, <3>1, <3>2, <3>3
  <2> QED  BY <1>3, <2>1, <2>2
<1>8. \A i, j \in 1 .. Len(s) : i < j => s[i][2] <= s[j][1]
  <2> SUFFICES ASSUME NEW i \in 1 .. Len(s), NEW j \in 1 .. Len(s), i < j
               PROVE  s[i][2] <= s[j][1]
    OBVIOUS
  <2>1. CASE i \in 1 .. Len(q) /\ j \in 1 .. Len(q)
    BY <1>1, <1>2, <2>1 DEF Stretch
  <2>2. CASE i \in 1 .. Len(q) /\ j \in Len(q) + 1 .. Len(q) + Len(r)
    <3> DEFINE k == j - Len(q)
    <3>1. s[i] = q[i] /\ s[j] = r[k] /\ k \in 1 .. Len(r)
      BY <1>1, <1>2, <2>2
    <3>2. q[i] \in Payload /\ r[k] \in Payload /\ i \in DOMAIN q /\ k \in DOMAIN r
      BY <1>1, <2>2, <3>1
    <3> HIDE DEF k
    <3>3. q[i][2] <= mid /\ mid <= r[k][1]
      BY <3>2 DEF Stretch
    <3> QED  BY <1>1, <1>4, <3>1, <3>2, <3>3
  <2>3. CASE i \in Len(q) + 1 .. Len(q) + Len(r) /\ j \in Len(q) + 1 .. Len(q) + Len(r)
    <3> DEFINE k == i - Len(q)
               l == j - Len(q)
    <3>1. s[i] = r[k] /\ s[j] = r[l] /\ k \in 1 .. Len(r) /\ l \in 1 .. Len(r) /\ k < l
      BY <1>1, <1>2, <2>3
    <3>2. k \in DOMAIN r /\ l \in DOMAIN r
      BY <1>1, <3>1
    <3> HIDE DEF k, l
    <3> QED  BY <3>1, <3>2 DEF Stretch
  <2> QED  BY <1>1, <1>2, <1>3, <2>1, <2>2, <2>3
<1>9. DOMAIN s = 1 .. Len(s)
  BY <1>2
<1>c. lo <= hi
  BY <1>1
<1>d. Stretch(s, lo, hi)
  BY <1>1, <1>2, <1>6, <1>7, <1>8, <1>9, <1>c DEF Stretch
<1> QED  BY <1>d DEF s

\* A stretch cut in two gives two that meet.
LEMMA StretchCut ==
  ASSUME NEW q, NEW lo, NEW hi, Stretch(q, lo, hi), NEW k \in 0 .. Len(q)
  PROVE  LET mid == IF k = 0 THEN lo ELSE q[k][2]
         IN  /\ Stretch(SubSeq(q, 1, k), lo, mid)
             /\ Stretch(SubSeq(q, k + 1, Len(q)), mid, hi)
             /\ Len(SubSeq(q, 1, k)) = k /\ Len(SubSeq(q, k + 1, Len(q))) = Len(q) - k
             /\ k > 0 => lo < mid
             /\ Packed(q) => Packed(SubSeq(q, k + 1, Len(q)))
<1> DEFINE mid == IF k = 0 THEN lo ELSE q[k][2]
           a == SubSeq(q, 1, k)
           b == SubSeq(q, k + 1, Len(q))
           n == Len(q) - k
<1>1. /\ q \in Seq(Payload) /\ lo \in Nat /\ hi \in Nat /\ lo <= hi
      /\ DOMAIN q = 1 .. Len(q) /\ n \in Nat
      /\ \A i \in 1 .. Len(q) : q[i] \in Payload
  BY DEF Stretch
<1>2. /\ a \in Seq(Payload) /\ Len(a) = k /\ DOMAIN a = 1 .. k
      /\ \A i \in 1 .. k : a[i] = q[i] /\ i \in 1 .. Len(q)
  BY <1>1
<1>3. /\ b \in Seq(Payload) /\ Len(b) = n /\ DOMAIN b = 1 .. n
      /\ \A i \in 1 .. n : b[i] = q[k + i] /\ k + i \in 1 .. Len(q)
  BY <1>1
<1>4. \A p \in Payload : p[1] \in Nat /\ p[2] \in Nat
  BY DEF Payload
<1>5. /\ \A i \in 1 .. Len(q) : /\ q[i][1] < q[i][2]
                                /\ q[i][1] = IF i = 1 THEN lo ELSE q[i - 1][2]
                                /\ lo <= q[i][1] /\ q[i][2] <= hi /\ Length(q[i]) <= Mss
      /\ \A i, j \in 1 .. Len(q) : i < j => q[i][2] <= q[j][1]
      /\ hi = IF q = << >> THEN lo ELSE q[Len(q)][2]
  BY <1>1 DEF Stretch, Spans
<1>6. /\ mid \in Nat /\ lo <= mid /\ mid <= hi /\ (k > 0 => lo < mid)
      /\ \A i \in 1 .. k : q[i][2] <= mid
      /\ \A i \in 1 .. n : mid <= q[k + i][1]
  <2>1. CASE k = 0
    BY <1>1, <1>5, <2>1
  <2>2. CASE k > 0
    <3>1. k \in 1 .. Len(q) /\ mid = q[k][2] /\ q[k] \in Payload
      BY <1>1, <2>2
    <3>2. \A i \in 1 .. k : i \in 1 .. Len(q) /\ (i = k \/ i < k)
      BY <1>1
    <3>3. \A i \in 1 .. k : q[i][2] <= mid
      <4> TAKE i \in 1 .. k
      <4>1. q[i] \in Payload /\ q[i][1] < q[i][2] /\ (i < k => q[i][2] <= q[k][1])
        BY <1>1, <1>5, <3>1, <3>2
      <4>2. q[k][1] < q[k][2]
        BY <1>5, <3>1
      <4> QED  BY <1>4, <3>1, <3>2, <4>1, <4>2
    <3>4. \A i \in 1 .. n : mid <= q[k + i][1]
      <4> TAKE i \in 1 .. n
      <4>1. k + i \in 1 .. Len(q) /\ k < k + i
        BY <1>3, <3>1
      <4> QED  BY <1>5, <3>1, <4>1
    <3>5. mid \in Nat /\ lo < mid /\ mid <= hi
      BY <1>1, <1>4, <1>5, <3>1, SMTT(30)
    <3> QED  BY <1>1, <3>3, <3>4, <3>5
  <2> QED  BY <2>1, <2>2
<1>n. /\ Len(q) \in Nat /\ k \in Nat /\ Len(q) = k + n
      /\ (q = << >>) <=> (Len(q) = 0)
      /\ (b = << >>) <=> (Len(b) = 0)
  <2>1. Len(q) \in Nat /\ k \in Nat /\ Len(q) = k + n
    BY <1>1
  <2>2. (q = << >>) <=> (Len(q) = 0)
    BY <1>1
  <2>3. (b = << >>) <=> (Len(b) = 0)
    <3> HIDE DEF b, n
    <3> QED  BY <1>3
  <2> QED  BY <2>1, <2>2, <2>3
<1> HIDE DEF a, b, mid, n
<1>7. Stretch(a, lo, mid)
  <2>1. Spans(a, lo, mid)
    <3>1. \A i \in 1 .. k : a[i][1] < a[i][2]
      BY <1>2, <1>5
    <3>2. \A i \in 1 .. k : a[i][1] = IF i = 1 THEN lo ELSE a[i - 1][2]
      <4> TAKE i \in 1 .. k
      <4>1. i # 1 => i - 1 \in 1 .. k
        OBVIOUS
      <4> QED  BY <1>2, <1>5, <4>1
    <3>3. mid = IF a = << >> THEN lo ELSE a[Len(a)][2]
      <4>1. CASE k = 0
        BY <1>2, <4>1 DEF mid
      <4>2. CASE k > 0
        BY <1>2, <4>2 DEF mid
      <4> QED  BY <4>1, <4>2
    <3> QED  BY <1>2, <3>1, <3>2, <3>3 DEF Spans
  <2>2. \A i \in DOMAIN a : lo <= a[i][1] /\ a[i][2] <= mid /\ Length(a[i]) <= Mss
    BY <1>2, <1>5, <1>6
  <2>3. \A i, j \in DOMAIN a : i < j => a[i][2] <= a[j][1]
    BY <1>2, <1>5
  <2> QED  BY <1>1, <1>2, <1>6, <2>1, <2>2, <2>3 DEF Stretch
<1>8. Stretch(b, mid, hi)
  <2>1. Spans(b, mid, hi)
    <3>1. \A i \in 1 .. n : b[i][1] < b[i][2]
      BY <1>3, <1>5
    <3>2. \A i \in 1 .. n : b[i][1] = IF i = 1 THEN mid ELSE b[i - 1][2]
      <4> TAKE i \in 1 .. n
      <4>1. b[i] = q[k + i] /\ k + i \in 1 .. Len(q)
        BY <1>3
      <4>2. q[k + i][1] = IF k + i = 1 THEN lo ELSE q[(k + i) - 1][2]
        BY <1>5, <4>1
      <4>3. CASE i = 1
        <5>1. (k + i) - 1 = k /\ (k + i = 1 <=> k = 0)
          BY <4>3
        <5> QED  BY <4>1, <4>2, <4>3, <5>1 DEF mid
      <4>4. CASE i # 1
        <5>1. i - 1 \in 1 .. n /\ (k + i) - 1 = k + (i - 1) /\ k + i # 1
          BY <1>1, <4>4
        <5>2. b[i - 1] = q[k + (i - 1)]
          BY <1>3, <5>1
        <5> QED  BY <4>1, <4>2, <4>4, <5>1, <5>2
      <4> QED  BY <4>3, <4>4
    <3>3. hi = IF b = << >> THEN mid ELSE b[Len(b)][2]
      <4>1. CASE n = 0
        <5>1. b = << >>
          BY <1>3, <4>1
        <5>2. Len(q) \in Nat /\ k = Len(q)
          BY <1>n, <4>1
        <5>3. mid = hi
          BY <1>1, <1>5, <5>2 DEF mid
        <5> QED  BY <5>1, <5>3
      <4>2. CASE n # 0
        <5>1. n \in 1 .. n
          BY <1>1, <4>2
        <5>2. Len(q) \in Nat /\ k + n = Len(q)
          BY <1>n
        <5>3. b # << >> /\ q # << >>
          BY <1>1, <1>3, <1>n, <4>2
        <5>4. b[n] = q[Len(q)]
          BY <1>3, <5>1, <5>2
        <5> QED  BY <1>3, <1>5, <5>3, <5>4
      <4> QED  BY <4>1, <4>2
    <3> QED  BY <1>3, <3>1, <3>2, <3>3 DEF Spans
  <2>2. \A i \in DOMAIN b : mid <= b[i][1] /\ b[i][2] <= hi /\ Length(b[i]) <= Mss
    BY <1>3, <1>5, <1>6
  <2>3. \A i, j \in DOMAIN b : i < j => b[i][2] <= b[j][1]
    <3> SUFFICES ASSUME NEW i \in 1 .. n, NEW j \in 1 .. n, i < j
                 PROVE  b[i][2] <= b[j][1]
      BY <1>3
    <3>1. k + i < k + j
      OBVIOUS
    <3>2. /\ b[i] = q[k + i] /\ k + i \in 1 .. Len(q)
          /\ b[j] = q[k + j] /\ k + j \in 1 .. Len(q)
      BY <1>3
    <3> QED  BY <1>5, <3>1, <3>2
  <2> QED  BY <1>1, <1>3, <1>6, <2>1, <2>2, <2>3 DEF Stretch
<1>9. ASSUME Packed(q) PROVE Packed(b)
  <2> SUFFICES ASSUME NEW i \in 1 .. n, i < n PROVE Length(b[i]) = Mss
    BY <1>3 DEF Packed
  <2>1. k + i \in 1 .. Len(q) /\ k + i < Len(q) /\ b[i] = q[k + i]
    BY <1>1, <1>3
  <2> QED  BY <1>1, <1>9, <2>1 DEF Packed
<1> QED  BY <1>2, <1>3, <1>6, <1>7, <1>8, <1>9 DEF a, b, mid, n

-----------------------------------------------------------------------------
(* ikcp_send *)

LEMMA FragmentsFacts ==
  ASSUME NEW lo \in Nat, NEW hi \in Nat, lo <= hi
  PROVE  /\ Stretch(Fragments(lo, hi), lo, hi) /\ Packed(Fragments(lo, hi))
         /\ Len(Fragments(lo, hi)) = Ceiling(hi - lo)
<1> DEFINE c == Ceiling(hi - lo)
           f == Fragments(lo, hi)
<1>1. /\ c \in Nat /\ Mss \in Nat /\ Mss # 0
      /\ hi - lo <= c * Mss /\ c * Mss < hi - lo + Mss
  BY CeilingFacts, MssAssumption
<1>2. f = [i \in 1 .. c |-> <<lo + (i - 1) * Mss, Smaller(lo + i * Mss, hi)>>]
  BY DEF Fragments, Ceiling
<1> HIDE DEF c
<1>3. ASSUME NEW i \in 1 .. c
      PROVE  /\ (i - 1) * Mss \in Nat /\ i * Mss \in Nat
             /\ i * Mss = (i - 1) * Mss + Mss
             /\ (i - 1) * Mss < hi - lo
             /\ i < c => i * Mss < hi - lo
             /\ i = c => hi - lo <= i * Mss
  <2>1. (i - 1) * Mss \in Nat /\ i * Mss \in Nat /\ i * Mss = (i - 1) * Mss + Mss
    BY <1>1
  <2>2. PICK m \in Nat : m = c * Mss
    BY <1>1
  <2>3. i * Mss <= c * Mss
    BY <1>1, Monotone
  <2>4. PICK x \in Nat : x = (i - 1) * Mss
    BY <2>1
  <2>5. (i - 1) * Mss < hi - lo
    BY <1>1, <2>1, <2>2, <2>3, <2>4
  <2>6. ASSUME i < c PROVE i * Mss < hi - lo
    <3>1. (i + 1) * Mss <= c * Mss /\ (i + 1) * Mss = i * Mss + Mss
      BY <1>1, <2>6, Monotone
    <3>2. PICK y \in Nat : y = i * Mss
      BY <2>1
    <3> QED  BY <1>1, <2>2, <3>1, <3>2
  <2> QED  BY <1>1, <2>1, <2>5, <2>6
<1>4. ASSUME NEW i \in 1 .. c
      PROVE  /\ f[i] = <<lo + (i - 1) * Mss, Smaller(lo + i * Mss, hi)>>
             /\ f[i] \in Payload /\ f[i][1] = lo + (i - 1) * Mss
             /\ f[i][2] = IF i < c THEN lo + i * Mss ELSE hi
             /\ f[i][1] < f[i][2] /\ lo <= f[i][1] /\ f[i][2] <= hi
             /\ Length(f[i]) <= Mss /\ (i < c => Length(f[i]) = Mss)
  <2>1. PICK x \in Nat, y \in Nat : x = (i - 1) * Mss /\ y = i * Mss
    BY <1>3
  <2>2. /\ y = x + Mss /\ x < hi - lo
        /\ i < c => y < hi - lo
        /\ i = c => hi - lo <= y
    BY <1>3, <2>1
  <2>3. f[i] = <<lo + x, Smaller(lo + y, hi)>>
    BY <1>2, <2>1
  <2>4. Smaller(lo + y, hi) = IF i < c THEN lo + y ELSE hi
    <3>1. i < c \/ i = c
      BY <1>1
    <3> QED  BY <1>1, <2>2, <3>1 DEF Smaller
  <2>5. (i < c => lo + y < hi) /\ (~(i < c) => hi <= lo + y)
    BY <1>1, <2>2
  <2> QED  BY <1>1, <2>1, <2>2, <2>3, <2>4, <2>5 DEF Payload, Length
<1>5. f \in Seq(Payload) /\ Len(f) = c /\ DOMAIN f = 1 .. c
  <2>1. f \in [1 .. c -> Payload]
    BY <1>2, <1>4
  <2> QED  BY <1>1, <2>1
<1> HIDE DEF f
<1>6. Spans(f, lo, hi)
  <2>1. \A i \in 1 .. c : f[i][1] = IF i = 1 THEN lo ELSE f[i - 1][2]
    <3> TAKE i \in 1 .. c
    <3>1. CASE i = 1
      BY <1>1, <1>4, <3>1
    <3>2. CASE i # 1
      <4>1. i - 1 \in 1 .. c /\ i - 1 < c
        BY <1>1, <3>2
      <4> QED  BY <1>4, <3>2, <4>1
    <3> QED  BY <3>1, <3>2
  <2>2. hi = IF f = << >> THEN lo ELSE f[Len(f)][2]
    <3>1. CASE c = 0
      <4>1. c * Mss = 0
        BY <1>1, <3>1
      <4> QED  BY <1>1, <1>5, <3>1, <4>1
    <3>2. CASE c # 0
      <4>1. c \in 1 .. c /\ ~(c < c) /\ f # << >>
        BY <1>1, <1>5, <3>2
      <4> QED  BY <1>4, <1>5, <4>1
    <3> QED  BY <3>1, <3>2
  <2>3. \A i \in 1 .. c : f[i][1] < f[i][2]
    BY <1>4
  <2> QED  BY <1>5, <2>1, <2>2, <2>3 DEF Spans
<1>7. \A i, j \in 1 .. c : i < j => f[i][2] <= f[j][1]
  <2> SUFFICES ASSUME NEW i \in 1 .. c, NEW j \in 1 .. c, i < j PROVE f[i][2] <= f[j][1]
    OBVIOUS
  <2>1. i <= j - 1 /\ i < c
    BY <1>1
  <2>2. i * Mss <= (j - 1) * Mss
    BY <1>1, <2>1, Monotone
  <2>3. PICK x \in Nat, y \in Nat : x = i * Mss /\ y = (j - 1) * Mss
    BY <1>3
  <2>4. f[i][2] = lo + i * Mss /\ f[j][1] = lo + (j - 1) * Mss
    BY <1>4, <2>1
  <2> QED  BY <2>2, <2>3, <2>4
<1>8. Stretch(f, lo, hi)
  BY <1>4, <1>5, <1>6, <1>7 DEF Stretch
<1>9. Packed(f)
  BY <1>4, <1>5 DEF Packed
<1> QED  BY <1>5, <1>8, <1>9 DEF f, c

LEMMA ExtendedFacts ==
  ASSUME NEW q, NEW lo, NEW hi, Stretch(q, lo, hi), Packed(q), q # << >>,
         NEW room \in Nat, Length(q[Len(q)]) + room <= Mss
  PROVE  /\ Stretch(Extended(q, room), lo, hi + room) /\ Packed(Extended(q, room))
         /\ Len(Extended(q, room)) = Len(q)
         /\ Length(Extended(q, room)[Len(q)]) = Length(q[Len(q)]) + room
<1> DEFINE e == Extended(q, room)
           n == Len(q)
<1>0. q \in Seq(Payload) /\ lo \in Nat /\ hi \in Nat /\ lo <= hi
  BY DEF Stretch
<1>1. /\ n \in 1 .. n /\ n \in Nat /\ DOMAIN q = 1 .. n
      /\ \A i \in 1 .. n : q[i] \in Payload
  <2>1. n \in Nat /\ DOMAIN q = 1 .. n /\ (n = 0 => q = << >>)
    BY <1>0
  <2>2. n \in 1 .. n
    <3> HIDE DEF n
    <3> QED  BY <2>1
  <2> QED  BY <1>0, <2>1, <2>2
<1>2. \A p \in Payload : p[1] \in Nat /\ p[2] \in Nat
  BY DEF Payload
<1>3. /\ \A i \in 1 .. n : /\ q[i][1] < q[i][2]
                           /\ q[i][1] = IF i = 1 THEN lo ELSE q[i - 1][2]
                           /\ lo <= q[i][1] /\ q[i][2] <= hi /\ Length(q[i]) <= Mss
      /\ \A i, j \in 1 .. n : i < j => q[i][2] <= q[j][1]
      /\ hi = q[n][2]
  BY <1>0, <1>1 DEF Stretch, Spans
<1>4. <<q[n][1], q[n][2] + room>> \in Payload
  BY <1>1, <1>2 DEF Payload
<1>5. /\ e \in Seq(Payload) /\ Len(e) = n /\ DOMAIN e = 1 .. n
      /\ e[n] = <<q[n][1], q[n][2] + room>>
      /\ \A i \in 1 .. n : i # n => e[i] = q[i]
  BY <1>0, <1>1, <1>4 DEF Extended
<1> HIDE DEF e, n
<1>6. /\ e[n][1] = q[n][1] /\ e[n][2] = hi + room
      /\ Length(e[n]) = Length(q[n]) + room
  <2>1. q[n][1] \in Nat /\ q[n][2] \in Nat
    BY <1>1, <1>2
  <2> QED  BY <1>0, <1>3, <1>5, <2>1 DEF Length
<1>7. \A i \in 1 .. n : e[i][1] = q[i][1] /\ (i # n => e[i][2] = q[i][2])
  BY <1>5, <1>6
<1>8. \A i \in 1 .. n : /\ e[i][1] < e[i][2] /\ lo <= e[i][1] /\ e[i][2] <= hi + room
                        /\ Length(e[i]) <= Mss
  <2> TAKE i \in 1 .. n
  <2>1. q[i][1] \in Nat /\ q[i][2] \in Nat
    BY <1>1, <1>2
  <2>2. q[i][1] < q[i][2] /\ lo <= q[i][1] /\ q[i][2] <= hi /\ Length(q[i]) <= Mss
    BY <1>3
  <2>3. CASE i = n
    <3>1. e[i][1] = q[i][1] /\ e[i][2] = hi + room /\ Length(e[i]) = Length(q[i]) + room
      BY <1>6, <2>3
    <3>2. q[i][2] = hi
      BY <1>3, <2>3
    <3>3. Length(e[i]) <= Mss
      BY <2>3, <3>1 DEF n
    <3> QED  BY <1>0, <2>1, <2>2, <3>1, <3>2, <3>3
  <2>4. CASE i # n
    <3>1. e[i] = q[i]
      BY <1>5, <2>4
    <3> QED  BY <1>0, <2>1, <2>2, <3>1
  <2> QED  BY <2>3, <2>4
<1>9. Spans(e, lo, hi + room)
  <2>1. \A i \in 1 .. n : e[i][1] = IF i = 1 THEN lo ELSE e[i - 1][2]
    <3> TAKE i \in 1 .. n
    <3>1. i # 1 => i - 1 \in 1 .. n /\ i - 1 # n
      BY <1>1
    <3> QED  BY <1>3, <1>7, <3>1
  <2>2. e # << >>
    BY <1>1, <1>5
  <2> QED  BY <1>5, <1>6, <1>8, <2>1, <2>2 DEF Spans
<1>10. \A i, j \in 1 .. n : i < j => e[i][2] <= e[j][1]
  <2> TAKE i, j \in 1 .. n
  <2>1. i < j => i # n
    BY <1>1
  <2> QED  BY <1>3, <1>7, <2>1
<1>11. Packed(e)
  <2> SUFFICES ASSUME NEW i \in 1 .. n, i < n PROVE Length(e[i]) = Mss
    BY <1>5 DEF Packed
  <2>1. e[i] = q[i] /\ i \in DOMAIN q
    BY <1>1, <1>5
  <2> QED  BY <2>1 DEF Packed, n
<1>12. hi + room \in Nat /\ lo <= hi + room
  BY <1>0
<1>13. Stretch(e, lo, hi + room)
  BY <1>0, <1>5, <1>8, <1>9, <1>10, <1>12 DEF Stretch
<1> QED  BY <1>5, <1>6, <1>11, <1>13 DEF e, n

\* A packed queue stays packed when payloads follow that are packed, provided
\* its last payload is full or nothing follows.
LEMMA PackedJoin ==
  ASSUME NEW q \in Seq(Payload), NEW r \in Seq(Payload), Packed(q), Packed(r),
         q = << >> \/ r = << >> \/ Length(q[Len(q)]) = Mss
  PROVE  Packed(q \o r)
<1> DEFINE s == q \o r
<1>1. /\ s \in Seq(Payload) /\ Len(s) = Len(q) + Len(r)
      /\ \A i \in 1 .. Len(q) : s[i] = q[i]
      /\ \A i \in Len(q) + 1 .. Len(q) + Len(r) : s[i] = r[i - Len(q)]
  OBVIOUS
<1> SUFFICES ASSUME NEW i \in 1 .. Len(s), i < Len(s) PROVE Length(s[i]) = Mss
  BY <1>1 DEF Packed
<1>2. CASE i \in 1 .. Len(q) /\ i < Len(q)
  BY <1>1, <1>2 DEF Packed
<1>3. CASE i = Len(q)
  BY <1>1, <1>3
<1>4. CASE i \in Len(q) + 1 .. Len(q) + Len(r)
  <2> DEFINE k == i - Len(q)
  <2>1. k \in 1 .. Len(r) /\ k < Len(r) /\ s[i] = r[k]
    BY <1>1, <1>4
  <2> HIDE DEF k
  <2> QED  BY <2>1 DEF Packed
<1> QED  BY <1>1, <1>2, <1>3, <1>4

\* ikcp_send in stream mode keeps every byte, in order, in full segments, and
\* adds no more segments than the bytes alone would need.
THEOREM SendKeepsTheStream ==
  ASSUME NEW q, NEW lo, NEW mid, NEW hi \in Nat,
         Stretch(q, lo, mid), Packed(q), mid <= hi
  PROVE  /\ Stretch(Queued(q, mid, hi), lo, hi) /\ Packed(Queued(q, mid, hi))
         /\ Len(Queued(q, mid, hi)) <= Len(q) + Ceiling(hi - mid)
<1> DEFINE x == Smaller(hi - mid, TailRoom(q))
<1>1. q \in Seq(Payload) /\ lo \in Nat /\ mid \in Nat /\ hi - mid \in Nat /\ Mss \in Nat
  BY MssAssumption DEF Stretch
<1>2. TailRoom(q) \in Nat
  <2>1. CASE q # << >> /\ Length(q[Len(q)]) < Mss
    <3>1. q[Len(q)] \in Payload
      BY <1>1, <2>1
    <3>2. Length(q[Len(q)]) \in Int
      BY <3>1 DEF Payload, Length
    <3> QED  BY <1>1, <2>1, <3>2 DEF TailRoom
  <2>2. CASE ~(q # << >> /\ Length(q[Len(q)]) < Mss)
    BY <2>2 DEF TailRoom
  <2> QED  BY <2>1, <2>2
<1>3. x \in Nat /\ x <= hi - mid /\ x <= TailRoom(q) /\ (x = hi - mid \/ x = TailRoom(q))
  BY <1>1, <1>2 DEF Smaller
<1> DEFINE e == IF x = 0 THEN q ELSE Extended(q, x)
           f == Fragments(mid + x, hi)
<1>4. Queued(q, mid, hi) = e \o f
  BY DEF Queued
<1> HIDE DEF x
<1>5. /\ Stretch(f, mid + x, hi) /\ Packed(f) /\ Len(f) = Ceiling(hi - (mid + x))
  <2>1. mid + x \in Nat /\ mid + x <= hi
    BY <1>1, <1>3
  <2> QED  BY <2>1, FragmentsFacts
<1>6. Ceiling(hi - (mid + x)) <= Ceiling(hi - mid)
  <2>1. hi - (mid + x) \in Nat /\ hi - (mid + x) <= hi - mid
    BY <1>1, <1>3
  <2> QED  BY <1>1, <2>1, CeilingGrows
<1>7. /\ Stretch(e, lo, mid + x) /\ Packed(e) /\ Len(e) = Len(q)
      /\ e = << >> \/ x = hi - mid \/ Length(e[Len(e)]) = Mss
  <2>1. CASE x = 0
    <3>1. e = q /\ mid + x = mid
      BY <1>1, <2>1
    <3>2. q = << >> \/ x = hi - mid \/ Length(q[Len(q)]) = Mss
      <4>1. SUFFICES ASSUME q # << >>, x # hi - mid PROVE Length(q[Len(q)]) = Mss
        OBVIOUS
      <4>2. Len(q) \in DOMAIN q
        BY <1>1, <4>1
      <4>3. q[Len(q)] \in Payload /\ Length(q[Len(q)]) <= Mss
        BY <1>1, <4>2 DEF Stretch
      <4>4. Length(q[Len(q)]) \in Int
        BY <4>3 DEF Payload, Length
      <4>5. TailRoom(q) = 0
        BY <1>3, <2>1, <4>1
      <4> QED  BY <1>1, <4>1, <4>3, <4>4, <4>5 DEF TailRoom
    <3> QED  BY <3>1, <3>2
  <2>2. CASE x # 0
    <3>1. q # << >> /\ Length(q[Len(q)]) < Mss /\ TailRoom(q) = Mss - Length(q[Len(q)])
      BY <1>3, <2>2 DEF TailRoom
    <3>2. q[Len(q)] \in Payload
      BY <1>1, <3>1
    <3>3. Length(q[Len(q)]) \in Int
      BY <3>2 DEF Payload, Length
    <3>4. Length(q[Len(q)]) + x <= Mss
      BY <1>1, <1>3, <3>1, <3>3
    <3>5. /\ Stretch(Extended(q, x), lo, mid + x) /\ Packed(Extended(q, x))
          /\ Len(Extended(q, x)) = Len(q)
          /\ Length(Extended(q, x)[Len(q)]) = Length(q[Len(q)]) + x
      BY <1>3, <3>1, <3>4, ExtendedFacts
    <3>6. x = TailRoom(q) => Length(q[Len(q)]) + x = Mss
      BY <1>1, <3>1, <3>3
    <3> QED  BY <1>3, <2>2, <3>5, <3>6
  <2> QED  BY <2>1, <2>2
<1>8. x = hi - mid => f = << >>
  <2>1. SUFFICES ASSUME x = hi - mid PROVE Len(f) = 0
    BY <1>5 DEF Stretch
  <2>2. hi - (mid + x) = 0
    BY <1>1, <2>1
  <2>3. Ceiling(0) \in Nat /\ Ceiling(0) * Mss < 0 + Mss
    BY CeilingFacts
  <2>4. Ceiling(0) = 0
    <3>1. SUFFICES ASSUME 1 <= Ceiling(0) PROVE FALSE
      BY <2>3
    <3>2. 1 * Mss <= Ceiling(0) * Mss
      BY <1>1, <2>3, <3>1, Monotone
    <3>3. PICK z \in Nat : z = Ceiling(0) * Mss
      BY <1>1, <2>3
    <3> QED  BY <1>1, <2>3, <3>2, <3>3
  <2> QED  BY <1>5, <2>2, <2>4
<1> HIDE DEF e, f
<1>9. Stretch(e \o f, lo, hi)
  BY <1>5, <1>7, StretchesJoin
<1>10. e \in Seq(Payload) /\ f \in Seq(Payload)
  BY <1>5, <1>7 DEF Stretch
<1>11. Packed(e \o f)
  BY <1>5, <1>7, <1>8, <1>10, PackedJoin
<1>12. Len(e \o f) <= Len(q) + Ceiling(hi - mid)
  <2>1. Len(e \o f) = Len(e) + Len(f)
    BY <1>10
  <2>2. Ceiling(hi - mid) \in Nat /\ Len(q) \in Nat /\ Len(f) \in Nat
    <3>1. Ceiling(hi - mid) \in Nat
      BY <1>1, CeilingFacts
    <3> QED  BY <1>1, <1>10, <3>1
  <2> QED  BY <1>5, <1>6, <1>7, <2>1, <2>2
<1> QED  BY <1>4, <1>9, <1>11, <1>12

\* How many bytes wait in a packed queue: more than all its payloads but one
\* can hold.
THEOREM PackedHoldsMuch ==
  ASSUME NEW q, NEW lo, NEW hi, Stretch(q, lo, hi), Packed(q), q # << >>
  PROVE  hi - lo > (Len(q) - 1) * Mss
<1> DEFINE n == Len(q)
<1>1. q \in Seq(Payload) /\ lo \in Nat /\ hi \in Nat /\ Mss \in Nat
  BY MssAssumption DEF Stretch
<1>2. n \in Nat /\ n # 0 /\ DOMAIN q = 1 .. n
  BY <1>1
<1>3. \A i \in 1 .. n : q[i][1] \in Nat /\ q[i][2] \in Nat
  BY <1>1 DEF Payload
<1>4. /\ \A i \in 1 .. n : /\ q[i][1] < q[i][2]
                           /\ q[i][1] = IF i = 1 THEN lo ELSE q[i - 1][2]
                           /\ i < n => q[i][2] - q[i][1] = Mss
      /\ hi = q[n][2]
  BY <1>2 DEF Stretch, Spans, Packed, Length
<1> HIDE DEF n
<1>5. \A i \in 1 .. n : lo + (i - 1) * Mss <= q[i][1]
  <2> DEFINE T == {i \in 1 .. n : ~ (lo + (i - 1) * Mss <= q[i][1])}
  <2> SUFFICES ASSUME T # {} PROVE FALSE
    OBVIOUS
  <2>1. PICK i \in T : \A y \in T : i <= y
    <3>1. T \subseteq Nat
      BY <1>2
    <3> HIDE DEF T
    <3> QED  BY <3>1, Least
  <2>2. i \in 1 .. n /\ ~ (lo + (i - 1) * Mss <= q[i][1])
    OBVIOUS
  <2>3. i # 1
    BY <1>1, <1>4, <2>2
  <2>4. i - 1 \in 1 .. n /\ i - 1 < n /\ i - 1 \notin T
    BY <1>2, <2>1, <2>2, <2>3
  <2>5. lo + ((i - 1) - 1) * Mss <= q[i - 1][1]
    BY <2>4
  <2>6. q[i][1] = q[i - 1][2] /\ q[i - 1][2] - q[i - 1][1] = Mss
    BY <1>4, <2>2, <2>3, <2>4
  <2>7. PICK x \in Int, y \in Int : x = (i - 1) * Mss /\ y = ((i - 1) - 1) * Mss
    <3>1. i - 1 \in Int /\ (i - 1) - 1 \in Int /\ Mss \in Int
      BY <1>1, <2>4
    <3> QED  BY <3>1
  <2>8. x = y + Mss
    BY <1>1, <2>4, <2>7
  <2>9. q[i - 1][1] \in Nat /\ q[i - 1][2] \in Nat
    BY <1>3, <2>4
  <2> HIDE DEF T
  <2> QED  BY <1>1, <2>2, <2>5, <2>6, <2>7, <2>8, <2>9
<1>6. n \in 1 .. n
  BY <1>2
<1>7. PICK z \in Int : z = (n - 1) * Mss
  BY <1>1, <1>2
<1>8. lo + z <= q[n][1] /\ q[n][1] < hi /\ q[n][1] \in Nat
  BY <1>3, <1>4, <1>5, <1>6, <1>7
<1>9. hi - lo > z
  BY <1>1, <1>8
<1> QED  BY <1>7, <1>9 DEF n
=============================================================================
