---------------------------- MODULE LinemapProofs ----------------------------
(***************************************************************************)
(* Theorems about Linemap, for all files, lines and columns.                *)
(***************************************************************************)
EXTENDS Linemap, SequenceTheorems, TLAPS

-----------------------------------------------------------------------------
(* ULEB128.                                                                 *)

Number == {v \in Nat : v \div 268435456 < 16}

LEMMA Weights ==
  /\ Weight[1] = 1 /\ Weight[2] = 128 /\ Weight[3] = 16384
  /\ Weight[4] = 2097152 /\ Weight[5] = 268435456
BY DEF Weight

\* Division by the weights, as one group at a time.
LEMMA Shifts ==
  ASSUME NEW v \in Nat
  PROVE  /\ v \div 1 = v
         /\ v \div 128 \in Nat /\ v \div 16384 = (v \div 128) \div 128
         /\ v \div 2097152 = (v \div 16384) \div 128
         /\ v \div 268435456 = (v \div 2097152) \div 128
         /\ v \div 16384 \in Nat /\ v \div 2097152 \in Nat /\ v \div 268435456 \in Nat
OBVIOUS

\* A number is the sum of its groups.
LEMMA Groups ==
  ASSUME NEW v \in Nat
  PROVE  /\ v = (v % 128) + 128 * (v \div 128)
         /\ v % 128 \in 0..127
OBVIOUS

\* The number of bytes: the least n such that the groups beyond the n-th are zero.
LEMMA UlebLenFits ==
  ASSUME NEW v \in Number
  PROVE  /\ UlebLen(v) \in 1..5
         /\ v \div Weight[UlebLen(v)] < 128
         /\ \A m \in 1..(UlebLen(v) - 1) : v \div Weight[m] >= 128
<1> DEFINE P(n) == /\ v \div Weight[n] < 128
                   /\ \A m \in 1..(n - 1) : v \div Weight[m] >= 128
<1>1. v \in Nat /\ v \div Weight[5] < 128
  BY Weights DEF Number
<1>2. \E n \in 1..5 : P(n)
  <2>1. CASE v \div Weight[1] < 128
    <3>1. P(1)
      BY <2>1
    <3>2. QED
      BY <3>1
  <2>2. CASE v \div Weight[1] >= 128 /\ v \div Weight[2] < 128
    <3>1. P(2)
      BY <2>2
    <3>2. QED
      BY <3>1
  <2>3. CASE v \div Weight[1] >= 128 /\ v \div Weight[2] >= 128 /\ v \div Weight[3] < 128
    <3>1. P(3)
      <4>1. 1..(3 - 1) = {1, 2}
        OBVIOUS
      <4>2. QED
        BY <2>3, <4>1
    <3>2. QED
      BY <3>1
  <2>4. CASE /\ v \div Weight[1] >= 128 /\ v \div Weight[2] >= 128
             /\ v \div Weight[3] >= 128 /\ v \div Weight[4] < 128
    <3>1. P(4)
      <4>1. 1..(4 - 1) = {1, 2, 3}
        OBVIOUS
      <4>2. QED
        BY <2>4, <4>1
    <3>2. QED
      BY <3>1
  <2>5. CASE /\ v \div Weight[1] >= 128 /\ v \div Weight[2] >= 128
             /\ v \div Weight[3] >= 128 /\ v \div Weight[4] >= 128
    <3>1. P(5)
      <4>1. 1..(5 - 1) = {1, 2, 3, 4}
        OBVIOUS
      <4>2. QED
        BY <2>5, <4>1, <1>1
    <3>2. QED
      BY <3>1
  <2>6. /\ v \div Weight[1] \in Nat /\ v \div Weight[2] \in Nat
        /\ v \div Weight[3] \in Nat /\ v \div Weight[4] \in Nat
    BY <1>1, Weights, Shifts
  <2> HIDE DEF P
  <2>7. QED
    BY <2>1, <2>2, <2>3, <2>4, <2>5, <2>6
<1>3. UlebLen(v) = CHOOSE n \in 1..5 : P(n)
  BY DEF UlebLen
<1> HIDE DEF P
<1>4. UlebLen(v) \in 1..5 /\ P(UlebLen(v))
  BY <1>2, <1>3
<1>5. QED
  BY <1>4 DEF P

\* The bytes of a number: all but the last are marked, and they hold its groups.
LEMMA UlebBytes ==
  ASSUME NEW v \in Number
  PROVE  /\ Uleb(v) \in Seq(0..255) /\ Len(Uleb(v)) = UlebLen(v)
         /\ \A i \in 1..UlebLen(v) :
              /\ Uleb(v)[i] \in 0..255
              /\ (Uleb(v)[i] >= 128) <=> (i < UlebLen(v))
              /\ Uleb(v)[i] % 128 = (v \div Weight[i]) % 128
<1>1. UlebLen(v) \in 1..5
  BY UlebLenFits
<1>2. ASSUME NEW i \in 1..5 PROVE v \div Weight[i] \in Nat
  <2>1. v \in Nat /\ i \in {1, 2, 3, 4, 5}
    BY DEF Number
  <2>2. QED
    BY <2>1, Weights, Shifts
<1>3. ASSUME NEW i \in 1..UlebLen(v)
      PROVE  /\ Uleb(v)[i] \in 0..255
             /\ (Uleb(v)[i] >= 128) <=> (i < UlebLen(v))
             /\ Uleb(v)[i] % 128 = (v \div Weight[i]) % 128
  <2> DEFINE q == v \div Weight[i]
             mark == IF i < UlebLen(v) THEN 128 ELSE 0
  <2>1. q \in Nat
    BY <1>1, <1>2
  <2>2. Uleb(v)[i] = (q % 128) + mark
    BY DEF Uleb
  <2>3. (mark = 128 /\ i < UlebLen(v)) \/ (mark = 0 /\ ~(i < UlebLen(v)))
    OBVIOUS
  <2> HIDE DEF q, mark
  <2>4. q % 128 \in 0..127
    BY <2>1
  <2>5. (q % 128) % 128 = q % 128 /\ ((q % 128) + 128) % 128 = q % 128
    BY <2>4
  <2>6. QED
    BY <2>2, <2>3, <2>4, <2>5 DEF q
<1>4. Uleb(v) = [i \in 1..UlebLen(v) |-> Uleb(v)[i]]
  BY DEF Uleb
<1>5. Uleb(v) \in Seq(0..255) /\ Len(Uleb(v)) = UlebLen(v)
  <2> DEFINE k == UlebLen(v)
             u == Uleb(v)
  <2>1. k \in Nat /\ u = [i \in 1..k |-> u[i]] /\ \A i \in 1..k : u[i] \in 0..255
    BY <1>1, <1>3, <1>4
  <2> HIDE DEF k, u
  <2>2. u \in [1..k -> 0..255]
    BY <2>1
  <2>3. u \in Seq(0..255)
    BY <2>1, <2>2
  <2>4. Len(u) = k
    BY <2>1, <2>2, <2>3, LenProperties
  <2>5. QED
    BY <2>3, <2>4 DEF k, u
<1>6. QED
  BY <1>3, <1>5

\* v is the weighted sum of its first n groups when the others are zero.
LEMMA WeightedSum ==
  ASSUME NEW v \in Number, NEW n \in 1..5, v \div Weight[n] < 128
  PROVE  v = LET Group(i) == IF i <= n THEN ((v \div Weight[i]) % 128) * Weight[i] ELSE 0
             IN  Group(1) + Group(2) + Group(3) + Group(4) + Group(5)
<1> DEFINE a == v \div 128
           b == a \div 128
           c == b \div 128
           d == c \div 128
<1>1. /\ v \in Nat /\ a \in Nat /\ b \in Nat /\ c \in Nat /\ d \in Nat
      /\ v \div Weight[1] = v /\ v \div Weight[2] = a /\ v \div Weight[3] = b
      /\ v \div Weight[4] = c /\ v \div Weight[5] = d
  BY Weights, Shifts DEF Number
<1>2. /\ v = (v % 128) + 128 * a /\ a = (a % 128) + 128 * b
      /\ b = (b % 128) + 128 * c /\ c = (c % 128) + 128 * d
  BY <1>1, Groups
<1>3. /\ v % 128 \in Nat /\ a % 128 \in Nat /\ b % 128 \in Nat /\ c % 128 \in Nat
      /\ d % 128 \in Nat
  BY <1>1, Groups
<1>4. /\ (v < 128 => v % 128 = v) /\ (a < 128 => a % 128 = a) /\ (b < 128 => b % 128 = b)
      /\ (c < 128 => c % 128 = c) /\ (d < 128 => d % 128 = d)
  BY <1>1
<1> HIDE DEF a, b, c, d
<1>5. CASE n = 1
  BY <1>1, <1>3, <1>4, <1>5, Weights
<1>6. CASE n = 2
  BY <1>1, <1>2, <1>3, <1>4, <1>6, Weights
<1>7. CASE n = 3
  BY <1>1, <1>2, <1>3, <1>4, <1>7, Weights
<1>8. CASE n = 4
  BY <1>1, <1>2, <1>3, <1>4, <1>8, Weights
<1>9. CASE n = 5
  BY <1>1, <1>2, <1>3, <1>4, <1>9, Weights
<1>10. n \in {1, 2, 3, 4, 5}
  OBVIOUS
<1>11. QED
  BY <1>5, <1>6, <1>7, <1>8, <1>9, <1>10

\* Decoding reads back the number that was encoded, and as many bytes.
LEMMA UlebDecodes ==
  ASSUME NEW v \in Number, NEW bs, NEW p \in Nat,
         \A i \in 1..UlebLen(v) : bs[p + i] = Uleb(v)[i]
  PROVE  UlebLenAt(bs, p) = UlebLen(v) /\ UlebAt(bs, p) = v
<1> DEFINE k == UlebLen(v)
           P(n) == bs[p + n] < 128 /\ \A m \in 1..(n - 1) : bs[p + m] >= 128
<1>1. k \in 1..5 /\ v \div Weight[k] < 128
  BY UlebLenFits
<1>2. \A i \in 1..k : /\ bs[p + i] \in 0..255
                      /\ (bs[p + i] >= 128) <=> (i < k)
                      /\ bs[p + i] % 128 = (v \div Weight[i]) % 128
  BY UlebBytes, SMTT(30)
<1> HIDE DEF k
<1>3. P(k)
  <2>1. k \in 1..k /\ ~(k < k)
    BY <1>1
  <2>2. \A m \in 1..(k - 1) : m \in 1..k /\ m < k
    BY <1>1
  <2>3. bs[p + k] < 128
    BY <2>1, <1>2, SMTT(30)
  <2>4. \A m \in 1..(k - 1) : bs[p + m] >= 128
    BY <2>2, <1>2
  <2>5. QED
    BY <2>3, <2>4
<1>4. ASSUME NEW n \in 1..5, P(n) PROVE n = k
  <2>1. CASE n < k
    <3>1. n \in 1..k
      BY <2>1, <1>1
    <3>2. QED
      BY <2>1, <3>1, <1>2, <1>4, SMTT(30)
  <2>2. CASE n > k
    <3>1. k \in 1..(n - 1) /\ k \in 1..k
      BY <2>2, <1>1
    <3>2. bs[p + k] >= 128 /\ bs[p + k] \in 0..255 /\ bs[p + k] < 128
      BY <3>1, <1>2, <1>3, <1>4
    <3>3. QED
      BY <3>2
  <2>3. QED
    BY <2>1, <2>2, <1>1
<1>5. UlebLenAt(bs, p) = CHOOSE n \in 1..5 : P(n)
  BY DEF UlebLenAt
<1>6. UlebLenAt(bs, p) = k
  <2> HIDE DEF P
  <2>1. QED
    BY <1>1, <1>3, <1>4, <1>5
<1>7. ASSUME NEW i \in 1..k
      PROVE  (bs[p + i] % 128) * Weight[i] = ((v \div Weight[i]) % 128) * Weight[i]
  BY <1>2
<1> DEFINE Read(i) == IF i <= k THEN (bs[p + i] % 128) * Weight[i] ELSE 0
           Group(i) == IF i <= k THEN ((v \div Weight[i]) % 128) * Weight[i] ELSE 0
<1>8. \A i \in 1..5 : Read(i) = Group(i)
  BY <1>1, <1>7
<1>9. UlebAt(bs, p) = Read(1) + Read(2) + Read(3) + Read(4) + Read(5)
  BY <1>6 DEF UlebAt
<1>10. v = Group(1) + Group(2) + Group(3) + Group(4) + Group(5)
  BY <1>1, WeightedSum
<1> HIDE DEF Read, Group
<1>11. UlebAt(bs, p) = v
  BY <1>8, <1>9, <1>10
<1>12. QED
  BY <1>6, <1>11 DEF k

Bytes == Seq(0..255)

\* A pair takes at least two bytes.
LEMMA PairType ==
  ASSUME NEW l \in Number, NEW c \in Number
  PROVE  /\ Encode(l, c) \in Bytes
         /\ Len(Encode(l, c)) = UlebLen(l) + UlebLen(c)
         /\ UlebLen(l) \in 1..5 /\ UlebLen(c) \in 1..5
         /\ \A i \in 1..UlebLen(l) : Encode(l, c)[i] = Uleb(l)[i]
         /\ \A i \in 1..UlebLen(c) : Encode(l, c)[UlebLen(l) + i] = Uleb(c)[i]
<1> DEFINE s == Uleb(l)
           t == Uleb(c)
           m == UlebLen(l)
           n == UlebLen(c)
<1>1. s \in Bytes /\ t \in Bytes /\ Len(s) = m /\ Len(t) = n /\ m \in 1..5 /\ n \in 1..5
  BY UlebBytes, UlebLenFits DEF Bytes
<1>2. Encode(l, c) = s \o t
  BY DEF Encode
<1> HIDE DEF s, t, m, n
<1>3. /\ s \o t \in Bytes /\ Len(s \o t) = m + n
      /\ \A i \in 1..(m + n) : (s \o t)[i] = IF i <= m THEN s[i] ELSE t[i - m]
  BY <1>1, ConcatProperties DEF Bytes
<1>4. \A i \in 1..m : (s \o t)[i] = s[i]
  BY <1>1, <1>3
<1>5. \A i \in 1..n : (s \o t)[m + i] = t[i]
  <2> SUFFICES ASSUME NEW i \in 1..n PROVE (s \o t)[m + i] = t[i]
    OBVIOUS
  <2> DEFINE x == m + i
  <2>1. x \in 1..(m + n) /\ ~(x <= m) /\ x - m = i
    BY <1>1
  <2> HIDE DEF x
  <2>2. (s \o t)[x] = t[x - m]
    BY <2>1, <1>3
  <2>3. QED
    BY <2>1, <2>2 DEF x
<1>6. QED
  BY <1>1, <1>2, <1>3, <1>4, <1>5 DEF s, t, m, n

\* The pair of l and c is in the byte array bs at offset h.
StoredAt(bs, h, l, c) == \A i \in 1..Len(Encode(l, c)) : bs[h + i] = Encode(l, c)[i]

\* What is stored at a handle is what decode_location reads there.
LEMMA PairDecodes ==
  ASSUME NEW l \in Number, NEW c \in Number, NEW bs, NEW h \in Nat, StoredAt(bs, h, l, c)
  PROVE  UlebAt(bs, h) = l /\ UlebAt(bs, h + UlebLenAt(bs, h)) = c
<1> DEFINE m == UlebLen(l)
           n == UlebLen(c)
<1>1. /\ m \in 1..5 /\ n \in 1..5
      /\ \A i \in 1..(m + n) : bs[h + i] = Encode(l, c)[i]
      /\ \A i \in 1..m : Encode(l, c)[i] = Uleb(l)[i]
      /\ \A i \in 1..n : Encode(l, c)[m + i] = Uleb(c)[i]
  BY PairType DEF StoredAt
<1> HIDE DEF m, n
<1>2. \A i \in 1..m : bs[h + i] = Uleb(l)[i]
  BY <1>1
<1>3. \A i \in 1..n : bs[h + m + i] = Uleb(c)[i]
  <2> SUFFICES ASSUME NEW i \in 1..n PROVE bs[h + m + i] = Uleb(c)[i]
    OBVIOUS
  <2>1. m + i \in 1..(m + n) /\ h + (m + i) = h + m + i
    BY <1>1
  <2>2. QED
    BY <2>1, <1>1
<1>4. UlebLenAt(bs, h) = m /\ UlebAt(bs, h) = l
  BY <1>2, UlebDecodes DEF m
<1>5. h + m \in Nat
  BY <1>1
<1>6. UlebAt(bs, h + m) = c
  BY <1>3, <1>5, UlebDecodes DEF n
<1>7. QED
  BY <1>4, <1>6

-----------------------------------------------------------------------------
(* Segments.                                                                *)

\* lower_bound finds the segment a handle is in.
LEMMA SegmentFound ==
  ASSUME TypeOK, SegmentsCover, NEW h \in Nat, NEW i \in DOMAIN segments,
         segments[i].lo <= h, h <= segments[i].hi
  PROVE  FirstSegment(h) = i /\ i <= Len(segments)
<1> DEFINE n == Len(segments)
           P(k) == /\ k <= n => segments[k].hi >= h
                   /\ \A j \in 1..(k - 1) : segments[j].hi < h
<1>1. /\ n \in Nat /\ DOMAIN segments = 1..n /\ i \in 1..n
      /\ \A k \in 1..n : segments[k].lo \in Nat /\ segments[k].hi \in Nat
      /\ \A j, k \in 1..n : j < k => segments[j].hi < segments[k].lo
  <2>1. n \in Nat /\ DOMAIN segments = 1..n
    BY LenProperties DEF TypeOK
  <2>2. \A k \in 1..n : segments[k] \in [lo : Handles, hi : Handles, fidx : FileIds]
    BY ElementOfSeq DEF TypeOK
  <2>3. \A k \in 1..n : segments[k].lo \in Nat /\ segments[k].hi \in Nat
    BY <2>2, LenProperties, SMTT(30) DEF Handles, TypeOK
  <2>4. QED
    BY <2>1, <2>3 DEF SegmentsCover
<1> HIDE DEF n
<1>2. P(i) /\ i \in 1..(n + 1)
  <2>1. \A j \in 1..(i - 1) : j \in 1..n /\ j < i
    BY <1>1
  <2>2. \A j \in 1..(i - 1) : segments[j].hi < h
    BY <1>1, <2>1
  <2>3. QED
    BY <1>1, <2>2
<1>3. ASSUME NEW k \in 1..(n + 1), P(k) PROVE k = i
  <2>1. CASE k < i
    <3>1. k \in 1..n /\ segments[k].hi < segments[i].lo /\ segments[k].hi >= h
      BY <2>1, <1>1, <1>3
    <3>2. QED
      BY <3>1, <1>1
  <2>2. CASE k > i
    <3>1. i \in 1..(k - 1)
      BY <2>2, <1>1
    <3>2. segments[i].hi < h
      BY <3>1, <1>3
    <3>3. QED
      BY <3>2, <1>1
  <2>3. QED
    BY <2>1, <2>2, <1>1
<1>4. FirstSegment(h) = CHOOSE k \in 1..(n + 1) : P(k)
  BY DEF FirstSegment, n
<1> HIDE DEF P
<1>5. FirstSegment(h) = i
  BY <1>2, <1>3, <1>4
<1>6. QED
  BY <1>1, <1>5 DEF n

\* A handle behind all closed segments is in the open one.
LEMMA SegmentOpen ==
  ASSUME TypeOK, NEW h \in Nat, \A i \in DOMAIN segments : segments[i].hi < h
  PROVE  FirstSegment(h) = Len(segments) + 1 /\ Len(segments) \in Nat
<1> DEFINE n == Len(segments)
           P(k) == /\ k <= n => segments[k].hi >= h
                   /\ \A j \in 1..(k - 1) : segments[j].hi < h
<1>1. /\ n \in Nat /\ DOMAIN segments = 1..n
      /\ \A k \in 1..n : segments[k].hi \in Nat
  <2>1. n \in Nat /\ DOMAIN segments = 1..n
    BY LenProperties DEF TypeOK
  <2>2. \A k \in 1..n : segments[k] \in [lo : Handles, hi : Handles, fidx : FileIds]
    BY ElementOfSeq DEF TypeOK
  <2>3. QED
    BY <2>1, <2>2, LenProperties DEF Handles, TypeOK
<1> HIDE DEF n
<1>2. P(n + 1) /\ n + 1 \in 1..(n + 1)
  <2>1. 1..(n + 1 - 1) = 1..n /\ ~(n + 1 <= n)
    BY <1>1
  <2>2. QED
    BY <2>1, <1>1
<1>3. ASSUME NEW k \in 1..(n + 1), P(k) PROVE k = n + 1
  <2>1. CASE k <= n
    <3>1. k \in 1..n
      BY <2>1
    <3>2. segments[k].hi >= h /\ segments[k].hi < h /\ segments[k].hi \in Nat
      BY <2>1, <3>1, <1>1, <1>3
    <3>3. QED
      BY <3>2
  <2>2. QED
    BY <2>1, <1>1
<1>4. FirstSegment(h) = CHOOSE k \in 1..(n + 1) : P(k)
  BY DEF FirstSegment, n
<1> HIDE DEF P
<1>5. FirstSegment(h) = n + 1
  BY <1>2, <1>3, <1>4
<1>6. QED
  BY <1>1, <1>5 DEF n


-----------------------------------------------------------------------------
(* The invariant.                                                           *)

Names == File \cup {UnknownFile, BuiltinFile}

\* The lines and columns of locations are numbers that ULEB128 holds.
LEMMA Numbers == Line \cup {0, 1} \subseteq Number /\ Column \cup {0, 1} \subseteq Number
<1>1. 0 \in Number /\ 1 \in Number
  BY DEF Number
<1>2. \A v \in Line \cup Column : v \in Number
  BY NumberAssumption, Weights DEF Number
<1>3. QED
  BY <1>1, <1>2

\* The pair of two numbers takes from 2 to 10 bytes.
LEMMA PairLength ==
  ASSUME NEW l \in Number, NEW c \in Number
  PROVE  Encode(l, c) \in Bytes /\ Len(Encode(l, c)) \in 2..10
<1> DEFINE m == UlebLen(l)
           n == UlebLen(c)
<1>1. m \in 1..5 /\ n \in 1..5 /\ Encode(l, c) \in Bytes /\ Len(Encode(l, c)) = m + n
  BY PairType
<1> HIDE DEF m, n
<1>2. QED
  BY <1>1

\* The unknown and the predeclared location are stored and covered.
LEMMA InitInvariant == Init => TypeOK /\ HandlesResolve
<1> DEFINE s == Encode(0, 0)
           t == Encode(1, 1)
           k == Len(s)
           j == Len(t)
<1>1. s \in Bytes /\ t \in Bytes /\ k \in 2..10 /\ j \in 2..10
  BY Numbers, PairLength
<1> SUFFICES ASSUME Init PROVE TypeOK /\ HandlesResolve
  OBVIOUS
<1>2. /\ encoded = s \o t /\ UnknownHandle = 0 /\ BuiltinHandle = k
      /\ DOMAIN asked = {0, k}
      /\ asked[0] = Place(UnknownFile, 0, 0)
      /\ asked[k] = Place(BuiltinFile, 1, 1)
  BY <1>1 DEF Init, UnknownHandle, BuiltinHandle
<1> HIDE DEF s, t, k, j
<1>3. /\ s \o t \in Bytes /\ Len(s \o t) = k + j
      /\ \A i \in 1..(k + j) : (s \o t)[i] = IF i <= k THEN s[i] ELSE t[i - k]
  BY <1>1, ConcatProperties DEF Bytes, k, j
<1>4. Len(encoded) = k + j /\ Handles = 0..(k + j - 1) /\ 0 \in Handles /\ k \in Handles
  BY <1>1, <1>2, <1>3 DEF Handles
<1>5. /\ segments = <<Segment(0, 0, 1), Segment(k, k, 2)>>
      /\ files = <<UnknownFile, BuiltinFile>> /\ currentFidx = 1
      /\ firstHandle = NoHandle /\ lastHandle = NoHandle
  BY <1>2 DEF Init
<1>6. FileIds = {1, 2} /\ DOMAIN segments = {1, 2}
  BY <1>5 DEF FileIds
<1>7. TypeOK
  <2>1. files \in Seq(Names)
    BY <1>5 DEF Names
  <2>2. segments \in Seq([lo : Handles, hi : Handles, fidx : FileIds])
    <3>1. /\ Segment(0, 0, 1) \in [lo : Handles, hi : Handles, fidx : FileIds]
          /\ Segment(k, k, 2) \in [lo : Handles, hi : Handles, fidx : FileIds]
      BY <1>4, <1>6 DEF Segment
    <3>2. QED
      BY <3>1, <1>5
  <2>3. DOMAIN fmap = {} /\ currentLine = NoLine /\ inFile = FALSE
    BY DEF Init
  <2>4. encoded \in Seq(0..255)
    BY <1>2, <1>3 DEF Bytes
  <2>5. \A h \in DOMAIN asked :
          asked[h] \in [file : Names, line : Line \cup {0, 1}, column : Column \cup {0, 1}]
    BY <1>2 DEF Names, Place
  <2>6. QED
    BY <2>1, <2>2, <2>3, <2>4, <2>5, <1>2, <1>4, <1>5, <1>6 DEF TypeOK, Names
<1>8. SegmentsCover
  <2>1. /\ segments[1].lo = 0 /\ segments[1].hi = 0 /\ segments[1].fidx = 1
        /\ segments[2].lo = k /\ segments[2].hi = k /\ segments[2].fidx = 2
        /\ files[1] = UnknownFile /\ files[2] = BuiltinFile
    BY <1>5 DEF Segment
  <2>2. asked[0].file = UnknownFile /\ asked[k].file = BuiltinFile
    BY <1>2 DEF Place
  <2>3. \A h \in DOMAIN asked : \E i \in DOMAIN segments :
          /\ segments[i].lo <= h /\ h <= segments[i].hi
          /\ files[segments[i].fidx] = asked[h].file
    BY <2>1, <2>2, <1>1, <1>2, <1>6
  <2>4. QED
    BY <2>1, <2>3, <1>1, <1>5, <1>6 DEF SegmentsCover
<1>9. PairsStored
  <2>1. asked[0].line = 0 /\ asked[0].column = 0 /\ asked[k].line = 1 /\ asked[k].column = 1
    BY <1>2 DEF Place
  <2>2. 0 + k <= k + j /\ \A i \in 1..k : (s \o t)[0 + i] = s[i]
    BY <1>1, <1>3
  <2>3. \A i \in 1..j : (s \o t)[k + i] = t[i]
    <3> SUFFICES ASSUME NEW i \in 1..j PROVE (s \o t)[k + i] = t[i]
      OBVIOUS
    <3> DEFINE x == k + i
    <3>1. x \in 1..(k + j) /\ ~(x <= k) /\ x - k = i
      BY <1>1
    <3> HIDE DEF x
    <3>2. (s \o t)[x] = t[x - k]
      BY <3>1, <1>3
    <3>3. QED
      BY <3>1, <3>2 DEF x
  <2>4. \A h \in DOMAIN asked : h = 0 \/ h = k
    BY <1>2
  <2>5. ASSUME NEW h \in DOMAIN asked
        PROVE  LET pair == Encode(asked[h].line, asked[h].column) IN
               /\ h + Len(pair) <= Len(encoded)
               /\ \A i \in 1..Len(pair) : encoded[h + i] = pair[i]
    <3>1. CASE h = 0
      <4>1. Encode(asked[h].line, asked[h].column) = s
        BY <3>1, <2>1 DEF s
      <4>2. QED
        BY <4>1, <3>1, <2>2, <1>2, <1>4 DEF k
    <3>2. CASE h = k
      <4>1. Encode(asked[h].line, asked[h].column) = t
        BY <3>2, <2>1 DEF t
      <4>2. QED
        BY <4>1, <3>2, <2>3, <1>1, <1>2, <1>4 DEF j
    <3>3. QED
      BY <3>1, <3>2, <2>4
  <2>6. QED
    BY <2>5 DEF PairsStored
<1>10. QED
  BY <1>7, <1>8, <1>9 DEF HandlesResolve


\* What the invariant says of segments, one by one.
LEMMA SegmentType ==
  ASSUME TypeOK
  PROVE  /\ Len(segments) \in Nat /\ DOMAIN segments = 1..Len(segments)
         /\ Len(files) \in Nat /\ Len(encoded) \in Nat
         /\ \A i \in DOMAIN segments : /\ segments[i].lo \in Nat /\ segments[i].hi \in Nat
                                       /\ segments[i].lo < Len(encoded)
                                       /\ segments[i].hi < Len(encoded)
                                       /\ segments[i].fidx \in FileIds
<1>1. /\ Len(segments) \in Nat /\ DOMAIN segments = 1..Len(segments)
      /\ Len(files) \in Nat /\ Len(encoded) \in Nat
  BY LenProperties DEF TypeOK
<1>2. \A i \in DOMAIN segments : segments[i] \in [lo : Handles, hi : Handles, fidx : FileIds]
  BY <1>1, ElementOfSeq DEF TypeOK
<1>3. QED
  BY <1>1, <1>2 DEF Handles

\* The file table grows at its end only, and has the file being read.
LEMMA FileTable ==
  ASSUME TypeOK, NEW name \in File, NEW l, StartFile(name, l)
  PROVE  /\ files' \in Seq(Names)
         /\ DOMAIN fmap' \subseteq File
         /\ FileIds \subseteq FileIds'
         /\ \A i \in FileIds : files'[i] = files[i]
         /\ \A f \in DOMAIN fmap' : fmap'[f] \in FileIds' /\ files'[fmap'[f]] = f
         /\ currentFidx' \in FileIds' /\ files'[currentFidx'] = name
<1>1. files \in Seq(Names) /\ name \in Names /\ Len(files) \in Nat
  BY LenProperties DEF TypeOK, Names
<1>2. CASE name \in DOMAIN fmap
  <2>1. files' = files /\ fmap' = fmap /\ currentFidx' = fmap[name]
    BY <1>2 DEF StartFile, FileIndex
  <2>2. FileIds' = FileIds
    BY <2>1 DEF FileIds
  <2>3. QED
    BY <2>1, <2>2, <1>1, <1>2 DEF TypeOK
<1>3. CASE name \notin DOMAIN fmap
  <2> DEFINE n == Len(files)
  <2>1. /\ files' = Append(files, name) /\ currentFidx' = n + 1
        /\ fmap' = [f \in DOMAIN fmap \cup {name} |-> IF f = name THEN n + 1 ELSE fmap[f]]
    BY <1>3 DEF StartFile, FileIndex
  <2>2. /\ files' \in Seq(Names) /\ Len(files') = n + 1 /\ files'[n + 1] = name
        /\ \A i \in 1..n : files'[i] = files[i]
    BY <2>1, <1>1, AppendProperties
  <2>3. FileIds = 1..n /\ FileIds' = 1..(n + 1)
    BY <2>2 DEF FileIds
  <2>4. n \in Nat
    BY <1>1
  <2> HIDE DEF n
  <2>5. /\ DOMAIN fmap' = DOMAIN fmap \cup {name}
        /\ \A f \in DOMAIN fmap' : fmap'[f] = IF f = name THEN n + 1 ELSE fmap[f]
    BY <2>1
  <2>6. \A f \in DOMAIN fmap : fmap[f] \in 1..n /\ files[fmap[f]] = f
    BY <2>3 DEF TypeOK
  <2>7. \A f \in DOMAIN fmap' : fmap'[f] \in 1..(n + 1) /\ files'[fmap'[f]] = f
    <3> SUFFICES ASSUME NEW f \in DOMAIN fmap'
                 PROVE fmap'[f] \in 1..(n + 1) /\ files'[fmap'[f]] = f
      OBVIOUS
    <3>1. CASE f = name
      BY <3>1, <2>2, <2>4, <2>5
    <3>2. CASE f # name
      <4>1. fmap'[f] = fmap[f] /\ fmap[f] \in 1..n /\ files[fmap[f]] = f
        BY <3>2, <2>5, <2>6
      <4>2. QED
        BY <4>1, <2>2, <2>4
    <3>3. QED
      BY <3>1, <3>2
  <2>8. DOMAIN fmap \subseteq File
    BY DEF TypeOK
  <2>9. FileIds \subseteq FileIds' /\ \A i \in FileIds : files'[i] = files[i]
    BY <2>2, <2>3, <2>4
  <2>10. currentFidx' \in FileIds' /\ files'[currentFidx'] = name
    BY <2>1, <2>2, <2>3, <2>4
  <2>11. DOMAIN fmap' \subseteq File
    BY <2>5, <2>8
  <2>12. QED
    BY <2>2, <2>3, <2>7, <2>9, <2>10, <2>11
<1>4. QED
  BY <1>2, <1>3

\* Closing the open segment keeps every handle covered.
LEMMA StartFileInvariant ==
  ASSUME TypeOK, HandlesResolve, NEW name \in File, NEW l \in Line, StartFile(name, l)
  PROVE  TypeOK' /\ HandlesResolve'
<1>1. /\ encoded' = encoded /\ asked' = asked /\ segments' = ClosedSegments
      /\ firstHandle' = NoHandle /\ lastHandle' = NoHandle
      /\ currentLine' = l /\ inFile' = TRUE
  BY DEF StartFile
<1>2. /\ files' \in Seq(Names) /\ DOMAIN fmap' \subseteq File /\ FileIds \subseteq FileIds'
      /\ \A i \in FileIds : files'[i] = files[i]
      /\ \A f \in DOMAIN fmap' : fmap'[f] \in FileIds' /\ files'[fmap'[f]] = f
      /\ currentFidx' \in FileIds'
  BY FileTable
<1>3. Handles' = Handles
  BY <1>1 DEF Handles
<1> DEFINE SegmentSet == [lo : Handles, hi : Handles, fidx : FileIds]
           n == Len(segments)
           open == Segment(firstHandle, lastHandle, currentFidx)
<1>4. /\ segments \in Seq(SegmentSet) /\ currentFidx \in FileIds /\ SegmentsCover
      /\ (firstHandle # NoHandle => firstHandle \in Handles /\ lastHandle \in Handles)
  BY DEF TypeOK, HandlesResolve, SegmentsCover
<1>5. n \in Nat /\ DOMAIN segments = 1..n
  BY SegmentType
<1>6. \/ firstHandle = NoHandle /\ segments' = segments
      \/ firstHandle # NoHandle /\ segments' = Append(segments, open)
  BY <1>1 DEF ClosedSegments
<1>7. firstHandle # NoHandle =>
        /\ open \in SegmentSet /\ open.lo = firstHandle /\ open.hi = lastHandle
        /\ open.fidx = currentFidx
  BY <1>4 DEF Segment
<1>8. /\ segments' \in Seq(SegmentSet)
      /\ \/ /\ firstHandle = NoHandle /\ DOMAIN segments' = 1..n
            /\ \A i \in 1..n : segments'[i] = segments[i]
         \/ /\ firstHandle # NoHandle /\ DOMAIN segments' = 1..(n + 1)
            /\ \A i \in 1..n : segments'[i] = segments[i]
            /\ segments'[n + 1] = open
  <2>1. CASE firstHandle = NoHandle
    BY <2>1, <1>4, <1>5, <1>6
  <2>2. CASE firstHandle # NoHandle
    <3>1. segments' = Append(segments, open) /\ open \in SegmentSet
      BY <2>2, <1>6, <1>7
    <3> HIDE DEF SegmentSet, open
    <3>2. /\ segments' \in Seq(SegmentSet) /\ Len(segments') = n + 1
          /\ \A i \in 1..n : segments'[i] = segments[i]
          /\ segments'[n + 1] = open
      BY <3>1, <1>4, AppendProperties
    <3>3. DOMAIN segments' = 1..(n + 1)
      BY <3>2, LenProperties
    <3>4. QED
      BY <3>2, <3>3, <2>2
  <2>3. QED
    BY <2>1, <2>2
<1>9. TypeOK'
  <2> DEFINE SegmentSetP == [lo : Handles', hi : Handles', fidx : FileIds']
  <2>1. SegmentSet \subseteq SegmentSetP
    BY <1>2, <1>3
  <2>2. segments' \in Seq(SegmentSetP)
    <3> HIDE DEF SegmentSet, SegmentSetP
    <3>1. QED
      BY <2>1, <1>8, SeqMonotonic
  <2>3. QED
    BY <2>2, <1>1, <1>2, <1>3 DEF TypeOK, Names
<1>10. SegmentsCover'
  <2>1. \A i \in 1..n : /\ segments[i].lo \in Nat /\ segments[i].hi \in Nat
                        /\ segments[i].fidx \in FileIds
    BY <1>5, SegmentType
  <2>2. /\ \A i, j \in 1..n : i < j => segments[i].hi < segments[j].lo
        /\ \A i \in 1..n : segments[i].lo <= segments[i].hi
        /\ firstHandle # NoHandle =>
              firstHandle <= lastHandle /\ \A i \in 1..n : segments[i].hi < firstHandle
    BY <1>4, <1>5 DEF SegmentsCover
  <2>3. \A h \in DOMAIN asked :
          \/ /\ firstHandle # NoHandle /\ firstHandle <= h /\ h <= lastHandle
             /\ files[currentFidx] = asked[h].file
          \/ \E i \in 1..n : /\ segments[i].lo <= h /\ h <= segments[i].hi
                             /\ files[segments[i].fidx] = asked[h].file
    BY <1>4, <1>5 DEF SegmentsCover
  <2> HIDE DEF open, n
  <2>4. CASE firstHandle = NoHandle
    <3>1. DOMAIN segments' = 1..n /\ \A i \in 1..n : segments'[i] = segments[i]
      BY <2>4, <1>8
    <3>2. \A h \in DOMAIN asked' : \E i \in DOMAIN segments' :
             /\ segments'[i].lo <= h /\ h <= segments'[i].hi
             /\ files'[segments'[i].fidx] = asked'[h].file
      BY <3>1, <2>1, <2>3, <2>4, <1>1, <1>2
    <3>3. QED
      BY <3>1, <3>2, <2>2, <1>1 DEF SegmentsCover
  <2>5. CASE firstHandle # NoHandle
    <3>1. /\ DOMAIN segments' = 1..(n + 1) /\ segments'[n + 1] = open
          /\ \A i \in 1..n : segments'[i] = segments[i]
          /\ open.lo = firstHandle /\ open.hi = lastHandle /\ open.fidx = currentFidx
      BY <2>5, <1>7, <1>8
    <3>2. \A i \in 1..(n + 1) : i \in 1..n \/ i = n + 1
      BY <1>5
    <3>3. \A i, j \in DOMAIN segments' : i < j => segments'[i].hi < segments'[j].lo
      <4> SUFFICES ASSUME NEW i \in 1..(n + 1), NEW j \in 1..(n + 1), i < j
                   PROVE segments'[i].hi < segments'[j].lo
        BY <3>1
      <4>1. i \in 1..n
        BY <1>5
      <4>2. CASE j \in 1..n
        BY <4>1, <4>2, <3>1, <2>2
      <4>3. CASE j = n + 1
        BY <4>1, <4>3, <3>1, <2>2, <2>5
      <4>4. QED
        BY <4>2, <4>3, <3>2
    <3>4. \A i \in DOMAIN segments' : segments'[i].lo <= segments'[i].hi
      BY <3>1, <3>2, <2>2, <2>5
    <3>5. \A h \in DOMAIN asked' : \E i \in DOMAIN segments' :
             /\ segments'[i].lo <= h /\ h <= segments'[i].hi
             /\ files'[segments'[i].fidx] = asked'[h].file
      <4> SUFFICES ASSUME NEW h \in DOMAIN asked
                   PROVE \E i \in 1..(n + 1) :
                           /\ segments'[i].lo <= h /\ h <= segments'[i].hi
                           /\ files'[segments'[i].fidx] = asked[h].file
        BY <3>1, <1>1
      <4>1. CASE /\ firstHandle <= h /\ h <= lastHandle
                 /\ files[currentFidx] = asked[h].file
        <5>1. n + 1 \in 1..(n + 1)
          BY <1>5
        <5>2. files'[currentFidx] = files[currentFidx]
          BY <1>2, <1>4
        <5>3. QED
          BY <5>1, <5>2, <4>1, <3>1
      <4>2. CASE \E i \in 1..n : /\ segments[i].lo <= h /\ h <= segments[i].hi
                                 /\ files[segments[i].fidx] = asked[h].file
        <5>1. PICK i \in 1..n : /\ segments[i].lo <= h /\ h <= segments[i].hi
                                /\ files[segments[i].fidx] = asked[h].file
          BY <4>2
        <5>2. i \in 1..(n + 1) /\ segments'[i] = segments[i]
          BY <3>1, <1>5
        <5>3. files'[segments[i].fidx] = files[segments[i].fidx]
          BY <2>1, <1>2
        <5>4. QED
          BY <5>1, <5>2, <5>3
      <4>3. QED
        BY <4>1, <4>2, <2>3
    <3>6. QED
      BY <3>3, <3>4, <3>5, <1>1 DEF SegmentsCover
  <2>6. QED
    BY <2>4, <2>5
<1>11. PairsStored'
  BY <1>1 DEF HandlesResolve, PairsStored
<1>12. QED
  BY <1>9, <1>10, <1>11 DEF HandlesResolve


\* What a holder asked for are numbers that can be encoded.
LEMMA AskedNumbers ==
  ASSUME TypeOK, NEW h \in DOMAIN asked
  PROVE  /\ h \in Nat /\ h < Len(encoded)
         /\ asked[h].line \in Number /\ asked[h].column \in Number
         /\ asked[h] = Place(asked[h].file, asked[h].line, asked[h].column)
<1>1. h \in Handles /\ Len(encoded) \in Nat
  BY LenProperties DEF TypeOK
<1>2. asked[h] \in [file : Names, line : Line \cup {0, 1}, column : Column \cup {0, 1}]
  BY DEF TypeOK, Names
<1>3. asked[h].line \in Line \cup {0, 1} /\ asked[h].column \in Column \cup {0, 1}
  BY <1>2
<1>4. asked[h].line \in Number /\ asked[h].column \in Number
  BY <1>3, Numbers
<1>5. asked[h] = Place(asked[h].file, asked[h].line, asked[h].column)
  BY <1>2 DEF Place
<1>6. QED
  BY <1>1, <1>4, <1>5 DEF Handles

\* What get_location does to the byte array and to the table of holders.
LEMMA PairAppended ==
  ASSUME TypeOK, NEW c \in Column, GetLocation(c)
  PROVE  LET pair == Encode(currentLine, c)
             n == Len(encoded)
         IN  /\ n \in Nat /\ Len(pair) \in 2..10 /\ n \notin DOMAIN asked
             /\ encoded' \in Bytes /\ Len(encoded') = n + Len(pair)
             /\ \A i \in 1..n : encoded'[i] = encoded[i]
             /\ \A i \in 1..Len(pair) : encoded'[n + i] = pair[i]
             /\ DOMAIN asked' = DOMAIN asked \cup {n}
             /\ asked'[n] = Place(files[currentFidx], currentLine, c)
             /\ \A h \in DOMAIN asked : asked'[h] = asked[h]
<1> DEFINE pair == Encode(currentLine, c)
           n == Len(encoded)
           k == Len(pair)
<1>1. currentLine \in Number /\ c \in Number
  BY Numbers DEF GetLocation, TypeOK
<1>2. pair \in Bytes /\ k \in 2..10
  BY <1>1, PairLength
<1>3. encoded \in Bytes /\ n \in Nat
  BY LenProperties DEF TypeOK, Bytes
<1>4. encoded' = encoded \o pair
  BY DEF GetLocation
<1>5. /\ asked' = [h \in DOMAIN asked \cup {n} |->
                     IF h = n THEN Place(files[currentFidx], currentLine, c) ELSE asked[h]]
      /\ n \notin DOMAIN asked
  <2>1. DOMAIN asked \subseteq 0..(n - 1)
    BY DEF TypeOK, Handles
  <2>2. QED
    BY <2>1, <1>3 DEF GetLocation, NewHandle
<1> HIDE DEF pair
<1>6. /\ encoded' \in Bytes /\ Len(encoded') = n + k
      /\ \A i \in 1..(n + k) : encoded'[i] = IF i <= n THEN encoded[i] ELSE pair[i - n]
  BY <1>2, <1>3, <1>4, ConcatProperties DEF Bytes
<1> HIDE DEF n, k
<1>7. \A i \in 1..n : encoded'[i] = encoded[i]
  BY <1>2, <1>3, <1>6
<1>8. \A i \in 1..k : encoded'[n + i] = pair[i]
  <2> SUFFICES ASSUME NEW i \in 1..k PROVE encoded'[n + i] = pair[i]
    OBVIOUS
  <2> DEFINE x == n + i
  <2>1. x \in 1..(n + k) /\ ~(x <= n) /\ x - n = i
    BY <1>2, <1>3
  <2> HIDE DEF x
  <2>2. encoded'[x] = pair[x - n]
    BY <2>1, <1>6
  <2>3. QED
    BY <2>1, <2>2 DEF x
<1>9. /\ DOMAIN asked' = DOMAIN asked \cup {n}
      /\ asked'[n] = Place(files[currentFidx], currentLine, c)
      /\ \A h \in DOMAIN asked : asked'[h] = asked[h]
  BY <1>5 DEF n
<1>10. QED
  BY <1>2, <1>3, <1>5, <1>6, <1>7, <1>8, <1>9 DEF n, k, pair

\* The new handle extends the open segment, and earlier pairs stay where they were.
LEMMA GetLocationInvariant ==
  ASSUME TypeOK, HandlesResolve, NEW c \in Column, GetLocation(c)
  PROVE  TypeOK' /\ HandlesResolve'
<1> DEFINE pair == Encode(currentLine, c)
           n == Len(encoded)
           k == Len(pair)
<1>1. /\ n \in Nat /\ k \in 2..10 /\ n \notin DOMAIN asked
      /\ encoded' \in Bytes /\ Len(encoded') = n + k
      /\ \A i \in 1..n : encoded'[i] = encoded[i]
      /\ \A i \in 1..k : encoded'[n + i] = pair[i]
      /\ DOMAIN asked' = DOMAIN asked \cup {n}
      /\ asked'[n] = Place(files[currentFidx], currentLine, c)
      /\ \A h \in DOMAIN asked : asked'[h] = asked[h]
  BY PairAppended
<1>2. /\ files' = files /\ fmap' = fmap /\ segments' = segments
      /\ currentFidx' = currentFidx /\ currentLine' = currentLine /\ inFile' = inFile
      /\ currentLine \in Line /\ inFile
      /\ firstHandle' = (IF firstHandle = NoHandle THEN n ELSE firstHandle)
      /\ lastHandle' = n
  BY DEF GetLocation, NewHandle, TypeOK
<1>3. /\ SegmentsCover /\ PairsStored
      /\ Handles = 0..(n - 1) /\ Handles' = 0..(n + k - 1) /\ FileIds' = FileIds
  BY <1>1, <1>2 DEF HandlesResolve, Handles, FileIds
<1>4. firstHandle \in Handles \cup {NoHandle} /\ lastHandle \in Handles \cup {NoHandle}
  BY DEF TypeOK
<1> HIDE DEF pair, n, k
<1>5. Handles \subseteq Handles' /\ n \in Handles' /\ NoHandle \notin Handles'
  BY <1>1, <1>3 DEF NoHandle
<1>6. TypeOK'
  <2> DEFINE SegmentSet == [lo : Handles, hi : Handles, fidx : FileIds]
             SegmentSetP == [lo : Handles', hi : Handles', fidx : FileIds']
             PlaceSet == [file : Names, line : Line \cup {0, 1}, column : Column \cup {0, 1}]
  <2>1. SegmentSet \subseteq SegmentSetP /\ segments \in Seq(SegmentSet)
    BY <1>3, <1>5 DEF TypeOK
  <2>2. segments' \in Seq(SegmentSetP)
    <3> HIDE DEF SegmentSet, SegmentSetP
    <3>1. QED
      BY <2>1, <1>2, SeqMonotonic
  <2>3. firstHandle' \in Handles' \cup {NoHandle} /\ lastHandle' \in Handles' \cup {NoHandle}
    BY <1>2, <1>4, <1>5
  <2>4. files[currentFidx] \in Names
    BY ElementOfSeq DEF TypeOK, FileIds, Names
  <2>5. \A h \in DOMAIN asked' : asked'[h] \in PlaceSet
    <3>1. asked'[n] \in PlaceSet
      BY <2>4, <1>1, <1>2 DEF Place
    <3>2. \A h \in DOMAIN asked : asked[h] \in PlaceSet
      BY DEF TypeOK, Names
    <3> HIDE DEF PlaceSet
    <3>3. QED
      BY <3>1, <3>2, <1>1
  <2>6. DOMAIN asked' \subseteq Handles'
    BY <1>1, <1>5 DEF TypeOK
  <2>7. /\ files' \in Seq(File \cup {UnknownFile, BuiltinFile}) /\ DOMAIN fmap' \subseteq File
        /\ \A f \in DOMAIN fmap' : fmap'[f] \in FileIds' /\ files'[fmap'[f]] = f
        /\ currentFidx' \in FileIds' /\ currentLine' \in Line \cup {NoLine}
        /\ inFile' \in BOOLEAN /\ (inFile' => currentLine' \in Line)
    BY <1>2, <1>3 DEF TypeOK
  <2>8. encoded' \in Seq(0..255)
    BY <1>1 DEF Bytes
  <2>9. QED
    BY <2>2, <2>3, <2>5, <2>6, <2>7, <2>8 DEF TypeOK, Names
<1>7. SegmentsCover'
  <2>1. \A i \in DOMAIN segments : segments[i].hi \in Nat /\ segments[i].hi < n
    BY SegmentType DEF n
  <2>2. firstHandle' # NoHandle /\ lastHandle' # NoHandle /\ firstHandle' <= n
    BY <1>1, <1>2, <1>3, <1>4, <1>5 DEF NoHandle
  <2>3. \A i \in DOMAIN segments : segments[i].hi < firstHandle'
    BY <2>1, <1>2, <1>3 DEF SegmentsCover
  <2>4. ASSUME NEW h \in DOMAIN asked
        PROVE  \/ /\ firstHandle' <= h /\ h <= n
                  /\ files[currentFidx] = asked[h].file
               \/ \E i \in DOMAIN segments :
                    /\ segments[i].lo <= h /\ h <= segments[i].hi
                    /\ files[segments[i].fidx] = asked[h].file
    <3>1. h \in Handles
      BY DEF TypeOK
    <3>2. h <= n
      BY <3>1, <1>1, <1>3
    <3>3. QED
      BY <3>2, <1>2, <1>3 DEF SegmentsCover
  <2>5. ASSUME NEW h \in DOMAIN asked'
        PROVE  \/ /\ firstHandle' # NoHandle /\ firstHandle' <= h /\ h <= lastHandle'
                  /\ files'[currentFidx'] = asked'[h].file
               \/ \E i \in DOMAIN segments' :
                    /\ segments'[i].lo <= h /\ h <= segments'[i].hi
                    /\ files'[segments'[i].fidx] = asked'[h].file
    <3>1. CASE h = n
      <4>1. asked'[h].file = files[currentFidx]
        BY <3>1, <1>1 DEF Place
      <4>2. n <= n
        BY <1>1
      <4>3. QED
        BY <4>1, <4>2, <3>1, <2>2, <1>2
    <3>2. CASE h \in DOMAIN asked
      BY <3>2, <2>2, <2>4, <1>1, <1>2
    <3>3. QED
      BY <3>1, <3>2, <1>1
  <2>6. \A i, j \in DOMAIN segments' : i < j => segments'[i].hi < segments'[j].lo
    BY <1>2, <1>3 DEF SegmentsCover
  <2>7. \A i \in DOMAIN segments' : segments'[i].lo <= segments'[i].hi
    BY <1>2, <1>3 DEF SegmentsCover
  <2>8. QED
    BY <2>2, <2>3, <2>5, <2>6, <2>7, <1>2 DEF SegmentsCover
<1>8. PairsStored'
  <2> SUFFICES ASSUME NEW h \in DOMAIN asked'
               PROVE LET p == Encode(asked'[h].line, asked'[h].column) IN
                     /\ h + Len(p) <= Len(encoded')
                     /\ \A i \in 1..Len(p) : encoded'[h + i] = p[i]
    BY DEF PairsStored
  <2>1. CASE h = n
    <3>1. asked'[h].line = currentLine /\ asked'[h].column = c
      BY <2>1, <1>1 DEF Place
    <3>2. Encode(asked'[h].line, asked'[h].column) = pair
      BY <3>1 DEF pair
    <3>3. n + k <= n + k
      BY <1>1
    <3>4. QED
      BY <3>2, <3>3, <2>1, <1>1 DEF k
  <2>2. CASE h \in DOMAIN asked
    <3> DEFINE p == Encode(asked[h].line, asked[h].column)
               m == Len(p)
    <3>1. h \in Nat /\ m \in 2..10
      BY <2>2, AskedNumbers, PairLength
    <3>2. h + m <= n /\ \A i \in 1..m : encoded[h + i] = p[i]
      BY <2>2, <1>3 DEF PairsStored, n
    <3>3. Encode(asked'[h].line, asked'[h].column) = p
      BY <2>2, <1>1
    <3> HIDE DEF p, m
    <3>4. \A i \in 1..m : h + i \in 1..n
      BY <3>1, <3>2, <1>1, SMTT(30)
    <3>5. \A i \in 1..m : encoded'[h + i] = p[i]
      BY <3>2, <3>4, <1>1
    <3>6. h + m <= n + k
      BY <3>1, <3>2, <1>1
    <3>7. QED
      BY <3>3, <3>5, <3>6, <1>1 DEF m
  <2>3. QED
    BY <2>1, <2>2, <1>1
<1>9. QED
  BY <1>6, <1>7, <1>8 DEF HandlesResolve


LEMMA StartLineInvariant ==
  ASSUME TypeOK, HandlesResolve, NEW l \in Line, StartLine(l)
  PROVE  TypeOK' /\ HandlesResolve'
<1>1. /\ currentLine' = l
      /\ UNCHANGED <<files, fmap, segments, encoded, currentFidx, firstHandle, lastHandle,
                     inFile, asked>>
  BY DEF StartLine
<1>2. TypeOK'
  BY <1>1 DEF TypeOK, Handles, FileIds
<1>3. SegmentsCover' /\ PairsStored'
  BY <1>1 DEF HandlesResolve, SegmentsCover, PairsStored
<1>4. QED
  BY <1>2, <1>3 DEF HandlesResolve

LEMMA StopInvariant ==
  ASSUME TypeOK, HandlesResolve, Stop
  PROVE  TypeOK' /\ HandlesResolve'
<1>1. /\ inFile' = FALSE
      /\ UNCHANGED <<files, fmap, segments, encoded, currentFidx, currentLine, firstHandle,
                     lastHandle, asked>>
  BY DEF Stop
<1>2. TypeOK'
  BY <1>1 DEF TypeOK, Handles, FileIds
<1>3. SegmentsCover' /\ PairsStored'
  BY <1>1 DEF HandlesResolve, SegmentsCover, PairsStored
<1>4. QED
  BY <1>2, <1>3 DEF HandlesResolve

LEMMA StepInvariant ==
  ASSUME TypeOK, HandlesResolve, [Next]_vars
  PROVE  TypeOK' /\ HandlesResolve'
<1>1. CASE \E f \in File, l \in Line : StartFile(f, l)
  BY <1>1, StartFileInvariant
<1>2. CASE \E l \in Line : StartLine(l)
  BY <1>2, StartLineInvariant
<1>3. CASE \E c \in Column : GetLocation(c)
  BY <1>3, GetLocationInvariant
<1>4. CASE Stop
  BY <1>4, StopInvariant
<1>5. CASE UNCHANGED vars
  <2>1. TypeOK'
    BY <1>5 DEF vars, TypeOK, Handles, FileIds
  <2>2. SegmentsCover' /\ PairsStored'
    BY <1>5 DEF vars, HandlesResolve, SegmentsCover, PairsStored
  <2>3. QED
    BY <2>1, <2>2 DEF HandlesResolve
<1>6. QED
  BY <1>1, <1>2, <1>3, <1>4, <1>5 DEF Next

\* The invariant decides what a handle decodes to.
LEMMA HandlesDecode ==
  ASSUME TypeOK, HandlesResolve, NEW h \in DOMAIN asked
  PROVE  LocationPlace(h) = asked[h]
<1>1. /\ h \in Nat /\ asked[h].line \in Number /\ asked[h].column \in Number
      /\ asked[h] = Place(asked[h].file, asked[h].line, asked[h].column)
  BY AskedNumbers
<1>2. UlebAt(encoded, h) = asked[h].line
      /\ UlebAt(encoded, h + UlebLenAt(encoded, h)) = asked[h].column
  <2> DEFINE l == asked[h].line
             c == asked[h].column
  <2>1. l \in Number /\ c \in Number /\ h \in Nat
    BY <1>1
  <2>2. StoredAt(encoded, h, l, c)
    BY DEF HandlesResolve, PairsStored, StoredAt
  <2> HIDE DEF l, c
  <2>3. UlebAt(encoded, h) = l /\ UlebAt(encoded, h + UlebLenAt(encoded, h)) = c
    BY <2>1, <2>2, PairDecodes
  <2>4. QED
    BY <2>3 DEF l, c
<1>3. files[FileOf(h)] = asked[h].file
  <2>1. CASE /\ firstHandle # NoHandle /\ firstHandle <= h /\ h <= lastHandle
             /\ files[currentFidx] = asked[h].file
    <3>1. /\ \A i \in DOMAIN segments : segments[i].hi \in Nat /\ segments[i].hi < firstHandle
          /\ firstHandle \in Nat
      BY <2>1, SegmentType, SMTT(30) DEF TypeOK, HandlesResolve, SegmentsCover, Handles
    <3>2. \A i \in DOMAIN segments : segments[i].hi < h
      BY <3>1, <2>1, <1>1
    <3>3. FirstSegment(h) = Len(segments) + 1 /\ Len(segments) \in Nat
      BY <3>2, <1>1, SegmentOpen
    <3>4. FirstSegment(h) > Len(segments)
      BY <3>3
    <3>5. QED
      BY <3>4, <2>1 DEF FileOf
  <2>2. CASE \E i \in DOMAIN segments :
               /\ segments[i].lo <= h /\ h <= segments[i].hi
               /\ files[segments[i].fidx] = asked[h].file
    <3>1. PICK i \in DOMAIN segments : /\ segments[i].lo <= h /\ h <= segments[i].hi
                                       /\ files[segments[i].fidx] = asked[h].file
      BY <2>2
    <3>2. FirstSegment(h) = i /\ i <= Len(segments)
      BY <3>1, <1>1, SegmentFound DEF HandlesResolve
    <3>3. i \in Nat /\ Len(segments) \in Nat
      BY SegmentType
    <3>4. ~(FirstSegment(h) > Len(segments))
      BY <3>2, <3>3
    <3>5. QED
      BY <3>1, <3>2, <3>4 DEF FileOf
  <2>3. QED
    BY <2>1, <2>2 DEF HandlesResolve, SegmentsCover
<1>4. QED
  BY <1>1, <1>2, <1>3 DEF LocationPlace, DecodeLocation, Flc

\* Whatever is started afterwards, the segments stay ordered, disjoint and cover every
\* handle given out, and its bytes stay whole: what lower_bound and decodeULEB128 need
\* in decode_location.
THEOREM HandlesAlwaysResolve == Spec => [](TypeOK /\ HandlesResolve)
<1>1. Init => TypeOK /\ HandlesResolve
  BY InitInvariant
<1>2. TypeOK /\ HandlesResolve /\ [Next]_vars => (TypeOK /\ HandlesResolve)'
  BY StepInvariant
<1>3. QED
  BY <1>1, <1>2, PTL DEF Spec

\* A Location that get_location returned decodes for ever to the file, the line and the
\* column it was asked for, for all files and all 32 bit lines and columns.
THEOREM LocationsKept == Spec => []LocationsKeepMeaning
<1>1. TypeOK /\ HandlesResolve => LocationsKeepMeaning
  BY HandlesDecode DEF LocationsKeepMeaning
<1>2. QED
  BY <1>1, HandlesAlwaysResolve, PTL


-----------------------------------------------------------------------------
(* Refinement.                                                              *)

\* The table of the refinement: what each handle decodes to.
Decoded == [h \in DOMAIN asked |-> LocationPlace(h)]

\* Under the invariant it is what the holders asked for.
LEMMA DecodedAsAsked ==
  ASSUME LocationsKeepMeaning
  PROVE  DOMAIN Decoded = DOMAIN asked /\ \A h \in DOMAIN asked : Decoded[h] = asked[h]
BY DEF Decoded, LocationsKeepMeaning

LEMMA SameNames == /\ Table!UnknownFile = UnknownFile /\ Table!BuiltinFile = BuiltinFile
                   /\ \A f, l, c : Table!Place(f, l, c) = Place(f, l, c)
BY Zenon DEF Table!UnknownFile, UnknownFile, Table!BuiltinFile, BuiltinFile, Table!Place, Place

LEMMA InitMaps ==
  ASSUME Init, LocationsKeepMeaning
  PROVE  Table!TableInit
<1> DEFINE k == Len(Encode(0, 0))
           unknown == Table!Place(Table!UnknownFile, 0, 0)
           builtin == Table!Place(Table!BuiltinFile, 1, 1)
<1>1. k \in 2..10
  BY Numbers, PairLength
<1>2. DOMAIN asked = {0, k} /\ asked[0] = unknown /\ asked[k] = builtin
  <2>1. /\ DOMAIN asked = {0, k}
        /\ asked[0] = Place(UnknownFile, 0, 0) /\ asked[k] = Place(BuiltinFile, 1, 1)
    <3>1. asked = [h \in {0, k} |-> IF h = 0 THEN Place(UnknownFile, 0, 0)
                                    ELSE Place(BuiltinFile, 1, 1)]
      BY DEF Init, UnknownHandle, BuiltinHandle
    <3> HIDE DEF k
    <3>2. QED
      BY <1>1, <3>1
  <2>2. QED
    BY <2>1, SameNames
<1> HIDE DEF k, unknown, builtin
<1>3. DOMAIN Decoded = {0, k} /\ Decoded[0] = unknown /\ Decoded[k] = builtin /\ 0 # k
  BY <1>1, <1>2, DecodedAsAsked
<1>4. Decoded = [h \in {0, k} |-> IF h = 0 THEN unknown ELSE builtin]
  BY <1>3 DEF Decoded
<1>5. \E u, b \in DOMAIN Decoded :
        u # b /\ Decoded = [h \in {u, b} |-> IF h = u THEN unknown ELSE builtin]
  <2>1. 0 \in DOMAIN Decoded /\ k \in DOMAIN Decoded
    BY <1>3
  <2>2. QED
    BY <2>1, <1>3, <1>4
<1>6. inFile = FALSE /\ files[currentFidx] = Table!UnknownFile /\ currentLine = -1
  BY SameNames DEF Init, NoLine
<1>7. QED
  BY <1>5, <1>6 DEF Table!TableInit, Decoded, unknown, builtin

LEMMA StepMaps ==
  ASSUME TypeOK, LocationsKeepMeaning, LocationsKeepMeaning', [Next]_vars
  PROVE  [Table!TableNext]_(Table!tableVars)
<1>1. /\ DOMAIN Decoded = DOMAIN asked /\ \A h \in DOMAIN asked : Decoded[h] = asked[h]
      /\ DOMAIN Decoded' = DOMAIN asked' /\ \A h \in DOMAIN asked' : Decoded'[h] = asked'[h]
  BY DEF Decoded, LocationsKeepMeaning
<1>2. asked' = asked => Decoded' = Decoded
  BY DEF LocationsKeepMeaning, Decoded
<1>3. ASSUME NEW name \in File, NEW l \in Line, StartFile(name, l)
      PROVE  Table!TableNext
  <2>1. files'[currentFidx'] = name
    BY <1>3, FileTable
  <2>2. currentLine' = l /\ inFile' = TRUE /\ Decoded' = Decoded
    BY <1>2, <1>3 DEF StartFile
  <2>3. Table!BeginFile(name, l)
    BY <2>1, <2>2 DEF Table!BeginFile, Decoded
  <2>4. QED
    BY <2>3 DEF Table!TableNext
<1>4. ASSUME NEW l \in Line, StartLine(l)
      PROVE  Table!TableNext
  <2>1. /\ files' = files /\ currentFidx' = currentFidx /\ currentLine' = l
        /\ inFile' = inFile /\ Decoded' = Decoded
    BY <1>2, <1>4 DEF StartLine
  <2>2. Table!BeginLine(l)
    BY <2>1 DEF Table!BeginLine, Decoded
  <2>3. QED
    BY <2>2 DEF Table!TableNext
<1>5. ASSUME NEW c \in Column, GetLocation(c)
      PROVE  Table!TableNext
  <2> DEFINE n == Len(encoded)
             place == Table!Place(files[currentFidx], currentLine, c)
  <2>1. /\ n \notin DOMAIN asked /\ DOMAIN asked' = DOMAIN asked \cup {n}
        /\ asked'[n] = place
        /\ \A h \in DOMAIN asked : asked'[h] = asked[h]
    BY <1>5, PairAppended DEF Place, Table!Place
  <2>2. /\ files' = files /\ currentFidx' = currentFidx /\ currentLine' = currentLine
        /\ inFile' = inFile /\ inFile
    BY <1>5 DEF GetLocation
  <2> HIDE DEF n, place
  <2>3. \A h \in DOMAIN asked' : Decoded'[h] = IF h = n THEN place ELSE Decoded[h]
    BY <2>1, <1>1
  <2>4. Decoded' = [h \in DOMAIN Decoded \cup {n} |-> IF h = n THEN place ELSE Decoded[h]]
    BY <2>1, <2>3, <1>1 DEF Decoded
  <2>5. n \in DOMAIN Decoded' \ DOMAIN Decoded
    BY <2>1, <1>1
  <2>6. \E h \in DOMAIN Decoded' \ DOMAIN Decoded :
          Decoded' = [x \in DOMAIN Decoded \cup {h} |-> IF x = h THEN place ELSE Decoded[x]]
    BY <2>4, <2>5
  <2>7. Table!Locate(c)
    BY <2>2, <2>6 DEF Table!Locate, Decoded, place
  <2>8. QED
    BY <2>7 DEF Table!TableNext
<1>6. ASSUME Stop
      PROVE  Table!TableNext
  <2>1. /\ files' = files /\ currentFidx' = currentFidx /\ currentLine' = currentLine
        /\ inFile' = FALSE /\ Decoded' = Decoded
    BY <1>2, <1>6 DEF Stop
  <2>2. Table!EndInput
    BY <2>1 DEF Table!EndInput, Decoded
  <2>3. QED
    BY <2>2 DEF Table!TableNext
<1>7. ASSUME UNCHANGED vars
      PROVE  UNCHANGED Table!tableVars
  <2>1. files' = files /\ currentFidx' = currentFidx /\ currentLine' = currentLine
        /\ inFile' = inFile /\ Decoded' = Decoded
    BY <1>2, <1>7 DEF vars
  <2>2. QED
    BY <2>1 DEF Table!tableVars, Decoded
<1>8. QED
  BY <1>3, <1>4, <1>5, <1>6, <1>7 DEF Next

\* The line map implements the table of locations: a handle is new when it is given out
\* and keeps its meaning for ever, although its file is not stored with it.
THEOREM LinemapImplementsTable == Spec => ImplementsTable
<1>1. Init /\ LocationsKeepMeaning => Table!TableInit
  BY InitMaps
<1>2. TypeOK /\ LocationsKeepMeaning /\ LocationsKeepMeaning' /\ [Next]_vars
        => [Table!TableNext]_(Table!tableVars)
  BY StepMaps
<1>3. QED
  BY <1>1, <1>2, HandlesAlwaysResolve, LocationsKept, PTL
     DEF Spec, ImplementsTable, Table!TableSpec
=============================================================================
