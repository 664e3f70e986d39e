------------------------------ MODULE VoiceProofs ------------------------------
(***************************************************************************)
(* The server finds every frame of the voice, in order, and every sample   *)
(* once (FramesInOrder, EverySampleOnce), for any sizes of frames, packets, *)
(* buffer and fragments, any number of requests and calls of any length in  *)
(* bytes, whose last byte is dropped when that is odd.                      *)
(***************************************************************************)
EXTENDS Voice, Integers, TLAPS, WellFoundedInduction

\* The sizes are numbers, the lengths fit a byte (VoiceAssumption).
LEMMA Constants ==
    /\ Requests \in Nat /\ ByteLimit \in Nat /\ MaxPacket \in Nat /\ BufferSize \in Nat
    /\ FrameSize \in Nat \ {0} /\ Fragments \subseteq Nat /\ MaxPacket < ByteLimit
BY VoiceAssumption

-----------------------------------------------------------------------------
(* Numbers.                                                                *)

\* Induction without a predicate: a set of naturals has a least element.
LEMMA LeastNatural ==
    ASSUME NEW T, T \subseteq Nat, T # {}
    PROVE  \E x \in T : \A y \in T : x <= y
<1>1. PICK x \in T : \A y \in T : ~(<<y, x>> \in OpToRel(<, Nat))
  BY NatLessThanWellFounded, WFMin
<1>2. x \in T /\ \A y \in T : ~(y < x)
  BY <1>1 DEF OpToRel
<1>3. \A y \in T : y \in Nat
  OBVIOUS
<1> QED
  BY <1>2, <1>3

\* A set of naturals that has 0 and with any number the next one, up to n.
LEMMA UpTo ==
    ASSUME NEW n \in Nat, NEW S, 0 \in S,
           \A m \in 0 .. n : m # n /\ m \in S => m + 1 \in S
    PROVE  \A m \in 0 .. n : m \in S
<1> DEFINE T == {m \in 0 .. n : m \notin S}
<1>1. SUFFICES ASSUME T # {} PROVE FALSE
  OBVIOUS
<1>2. T \subseteq Nat
  OBVIOUS
<1> HIDE DEF T
<1>3. PICK x \in T : \A y \in T : x <= y
  BY <1>1, <1>2, LeastNatural
<1> USE DEF T
<1>4. x \in 0 .. n /\ x \notin S
  OBVIOUS
<1>5. x # 0
  BY <1>4
<1>6. x - 1 \in 0 .. n /\ x - 1 # n /\ x - 1 \notin T
  BY <1>3, <1>4, <1>5
<1>7. (x - 1) + 1 \in S
  BY <1>6
<1> QED
  BY <1>4, <1>7

\* A length below the limit of a byte is the byte.
LEMMA ModSmall ==
    ASSUME NEW a \in Nat, NEW b \in Nat, a < b
    PROVE  a % b = a
OBVIOUS

\* A number by quotient and rest.
LEMMA Division ==
    ASSUME NEW d \in Nat \ {0}, NEW n \in Nat
    PROVE  /\ n \div d \in Nat
           /\ d * (n \div d) \in Nat
           /\ d * (n \div d) <= n /\ n < d * (n \div d) + d
OBVIOUS

\* The multiples of a number, one after the other.
LEMMA Multiples ==
    ASSUME NEW d \in Nat \ {0}, NEW k \in Nat
    PROVE  d * k \in Nat /\ d * (k + 1) = d * k + d
OBVIOUS

\* The multiples of a number are a whole one apart.
LEMMA MultiplesOrdered ==
    ASSUME NEW d \in Nat \ {0}, NEW k \in Nat, NEW l \in Nat, k < l
    PROVE  d * k + d <= d * l
OBVIOUS

-----------------------------------------------------------------------------
(* Fragments.                                                              *)

\* join gives the first fragments of fs put together, up to m of them.
Joins(join, fs, m, S) ==
    /\ join \in [0 .. m -> Seq(S)]
    /\ join[0] = <<>>
    /\ \A n \in 1 .. m : join[n] = join[n - 1] \o fs[n]

\* Fragments can be put together.
LEMMA JoinExists ==
    ASSUME NEW S, NEW fs \in Seq(Seq(S))
    PROVE  \E join : Joins(join, fs, Len(fs), S)
<1> DEFINE T == {m \in 0 .. Len(fs) : \E join : Joins(join, fs, m, S)}
<1>0. Len(fs) \in Nat
  OBVIOUS
<1>1. 0 \in T
  <2>1. Joins([n \in 0 .. 0 |-> <<>>], fs, 0, S)
    BY DEF Joins
  <2> QED
    BY <1>0, <2>1
<1>2. ASSUME NEW m \in 0 .. Len(fs), m # Len(fs), m \in T
      PROVE  m + 1 \in T
  <2>1. PICK join : Joins(join, fs, m, S)
    BY <1>2
  <2>2. m \in Nat /\ m + 1 \in 1 .. Len(fs)
    BY <1>0, <1>2
  <2>3. fs[m + 1] \in Seq(S) /\ join[m] \in Seq(S)
    BY <2>1, <2>2 DEF Joins
  <2>4. join[m] \o fs[m + 1] \in Seq(S)
    BY <2>3
  <2> DEFINE more == [n \in 0 .. (m + 1) |-> IF n = m + 1 THEN join[m] \o fs[m + 1] ELSE join[n]]
  <2>5. \A n \in 0 .. (m + 1) : n # m + 1 => n \in 0 .. m /\ join[n] \in Seq(S)
    BY <2>1, <2>2 DEF Joins
  <2>6. more \in [0 .. (m + 1) -> Seq(S)]
    BY <2>4, <2>5
  <2>7. more[0] = <<>>
    BY <2>1, <2>2 DEF Joins
  <2>8. ASSUME NEW n \in 1 .. (m + 1)
        PROVE  more[n] = more[n - 1] \o fs[n]
    <3>1. CASE n = m + 1
      <4>1. more[m + 1] = join[m] \o fs[m + 1]
        <5>1. m + 1 \in 0 .. (m + 1)
          BY <2>2
        <5> QED
          BY <5>1, Zenon
      <4>2. n - 1 = m /\ n - 1 \in 0 .. (m + 1) /\ n - 1 # m + 1
        BY <2>2, <3>1
      <4>3. more[n - 1] = join[m]
        BY <4>2
      <4> QED
        BY <3>1, <4>1, <4>3
    <3>2. CASE n # m + 1
      <4>1. n \in 1 .. m /\ n - 1 \in 0 .. (m + 1) /\ n - 1 # m + 1
        BY <2>2, <3>2
      <4>2. join[n] = join[n - 1] \o fs[n]
        BY <2>1, <4>1 DEF Joins
      <4>3. more[n] = join[n] /\ more[n - 1] = join[n - 1]
        BY <3>2, <4>1
      <4> QED
        BY <4>2, <4>3
    <3> QED
      BY <3>1, <3>2
  <2> HIDE DEF more
  <2>9. Joins(more, fs, m + 1, S)
    BY <2>6, <2>7, <2>8 DEF Joins
  <2> QED
    BY <2>2, <2>9
<1> HIDE DEF T
<1>3. \A m \in 0 .. Len(fs) : m \in T
  BY <1>0, <1>1, <1>2, UpTo
<1>4. Len(fs) \in T
  BY <1>0, <1>3
<1> QED
  BY <1>4 DEF T

\* What the server gets is the last of them.
LEMMA JoinedLemma ==
    ASSUME NEW S, NEW fs \in Seq(Seq(S))
    PROVE  \E join : Joins(join, fs, Len(fs), S) /\ Joined(fs) = join[Len(fs)]
<1> DEFINE N == Len(fs)
           Step(f) == [n \in 0 .. N |-> IF n = 0 THEN <<>> ELSE f[n - 1] \o fs[n]]
           join == CHOOSE f : f = Step(f)
<1>0. N \in Nat
  OBVIOUS
<1>1. Joined(fs) = join[N]
  BY DEF Joined
<1>2. PICK f : Joins(f, fs, N, S)
  BY JoinExists
<1>3. f = Step(f)
  <2>1. f = [n \in 0 .. N |-> f[n]]
    BY <1>2 DEF Joins
  <2>2. f[0] = <<>> /\ \A n \in 1 .. N : f[n] = f[n - 1] \o fs[n]
    BY <1>2 DEF Joins
  <2>3. ASSUME NEW n \in 0 .. N
        PROVE  f[n] = IF n = 0 THEN <<>> ELSE f[n - 1] \o fs[n]
    <3>1. CASE n = 0
      BY <2>2, <3>1
    <3>2. CASE n # 0
      <4>1. n \in 1 .. N
        BY <1>0, <3>2
      <4> QED
        BY <2>2, <3>2, <4>1
    <3> QED
      BY <3>1, <3>2
  <2>4. [n \in 0 .. N |-> f[n]] = Step(f)
    BY <2>3, Zenon
  <2> QED
    BY <2>1, <2>4
<1>4. join = Step(join)
  BY <1>3
<1> HIDE DEF join
<1>5. \A n \in 0 .. N : join[n] = IF n = 0 THEN <<>> ELSE join[n - 1] \o fs[n]
  BY <1>4, Zenon
<1>6. join[0] = <<>> /\ \A n \in 1 .. N : join[n] = join[n - 1] \o fs[n]
  <2>1. 0 \in 0 .. N /\ \A n \in 1 .. N : n \in 0 .. N /\ n # 0
    BY <1>0
  <2> QED
    BY <1>5, <2>1, Zenon
<1> DEFINE T == {n \in 0 .. N : join[n] \in Seq(S)}
<1>7. 0 \in T
  <2>1. 0 \in 0 .. N /\ <<>> \in Seq(S)
    BY <1>0
  <2>2. join[0] \in Seq(S)
    BY <1>6, <2>1, Zenon
  <2> QED
    BY <2>1, <2>2, Zenon
<1>8. ASSUME NEW m \in 0 .. N, m # N, m \in T
      PROVE  m + 1 \in T
  <2>1. m + 1 \in 1 .. N /\ (m + 1) - 1 = m
    BY <1>0, <1>8
  <2>2. join[m + 1] = join[m] \o fs[m + 1]
    BY <1>6, <2>1
  <2>3. fs[m + 1] \in Seq(S) /\ join[m] \in Seq(S)
    BY <1>8, <2>1
  <2>4. join[m] \o fs[m + 1] \in Seq(S)
    BY <2>3
  <2>5. m + 1 \in 0 .. N
    BY <1>0, <2>1
  <2> QED
    BY <2>2, <2>4, <2>5
<1> HIDE DEF T
<1>9. \A m \in 0 .. N : m \in T
  BY <1>0, <1>7, <1>8, UpTo
<1>10. join \in [0 .. N -> Seq(S)]
  <2>1. \A n \in 0 .. N : join[n] \in Seq(S)
    BY <1>9 DEF T
  <2>2. join = [n \in 0 .. N |-> join[n]]
    <3>1. Step(join) = [n \in 0 .. N |-> Step(join)[n]]
      BY Zenon
    <3> QED
      BY <1>4, <3>1, Zenon
  <2> QED
    BY <2>1, <2>2
<1> QED
  BY <1>1, <1>6, <1>10 DEF Joins

\* Sequences put together and taken apart.
LEMMA ConcatAssociative ==
    ASSUME NEW S, NEW p \in Seq(S), NEW q \in Seq(S), NEW r \in Seq(S)
    PROVE  (p \o q) \o r = p \o (q \o r)
OBVIOUS

\* The elements of a part of a sequence.
LEMMA SubSeqLemma ==
    ASSUME NEW S, NEW s \in Seq(S), NEW m \in Nat, NEW n \in Nat, m <= n, n <= Len(s)
    PROVE  /\ SubSeq(s, m + 1, n) \in Seq(S)
           /\ Len(SubSeq(s, m + 1, n)) = n - m
           /\ \A i \in 1 .. (n - m) : SubSeq(s, m + 1, n)[i] = s[m + i]
<1>1. Len(s) \in Nat /\ \A i \in 1 .. Len(s) : s[i] \in S
  OBVIOUS
<1>2. /\ SubSeq(s, m + 1, n) \in Seq(S)
      /\ Len(SubSeq(s, m + 1, n)) = n - m
  BY <1>1
<1>3. ASSUME NEW i \in 1 .. (n - m)
      PROVE  SubSeq(s, m + 1, n)[i] = s[m + i]
  BY <1>1
<1> QED
  BY <1>2, <1>3

\* Sequences with the same elements are the same.
LEMMA SameSequence ==
    ASSUME NEW S, NEW p \in Seq(S), NEW q \in Seq(S), Len(p) = Len(q),
           \A i \in 1 .. Len(p) : p[i] = q[i]
    PROVE  p = q
OBVIOUS

\* Two parts that meet are one.
LEMMA SubSeqsMeet ==
    ASSUME NEW S, NEW s \in Seq(S), NEW m \in Nat, NEW n \in Nat, m <= n, n <= Len(s)
    PROVE  SubSeq(s, 1, m) \o SubSeq(s, m + 1, n) = SubSeq(s, 1, n)
<1> DEFINE a == SubSeq(s, 1, m)
           b == SubSeq(s, m + 1, n)
           c == SubSeq(s, 1, n)
<1>0. Len(s) \in Nat /\ m <= Len(s)
  OBVIOUS
<1>1. a \in Seq(S) /\ Len(a) = m /\ \A i \in 1 .. m : a[i] = s[i]
  <2>1. 0 \in Nat /\ 0 <= m /\ 0 + 1 = 1 /\ m - 0 = m /\ \A i \in 1 .. m : 0 + i = i
    OBVIOUS
  <2>2. /\ SubSeq(s, 0 + 1, m) \in Seq(S) /\ Len(SubSeq(s, 0 + 1, m)) = m - 0
        /\ \A i \in 1 .. (m - 0) : SubSeq(s, 0 + 1, m)[i] = s[0 + i]
    BY <1>0, <2>1, SubSeqLemma
  <2> QED
    BY <2>1, <2>2
<1>2. b \in Seq(S) /\ Len(b) = n - m /\ \A i \in 1 .. (n - m) : b[i] = s[m + i]
  BY SubSeqLemma
<1>3. c \in Seq(S) /\ Len(c) = n /\ \A i \in 1 .. n : c[i] = s[i]
  <2>1. 0 \in Nat /\ 0 <= n /\ 0 + 1 = 1 /\ n - 0 = n /\ \A i \in 1 .. n : 0 + i = i
    OBVIOUS
  <2>2. /\ SubSeq(s, 0 + 1, n) \in Seq(S) /\ Len(SubSeq(s, 0 + 1, n)) = n - 0
        /\ \A i \in 1 .. (n - 0) : SubSeq(s, 0 + 1, n)[i] = s[0 + i]
    BY <1>0, <2>1, SubSeqLemma
  <2> QED
    BY <2>1, <2>2
<1> HIDE DEF a, b, c
<1>4. a \o b \in Seq(S) /\ Len(a \o b) = n
  BY <1>1, <1>2
<1>5. ASSUME NEW i \in 1 .. n
      PROVE  (a \o b)[i] = c[i]
  <2>1. CASE i <= m
    BY <1>1, <1>2, <1>3, <2>1
  <2>2. CASE ~(i <= m)
    <3>1. (a \o b)[i] = b[i - m]
      BY <1>1, <1>2, <2>2
    <3>2. i - m \in 1 .. (n - m) /\ m + (i - m) = i
      BY <2>2
    <3> QED
      BY <1>2, <1>3, <3>1, <3>2
  <2> QED
    BY <2>1, <2>2
<1>6. a \o b = c
  BY <1>3, <1>4, <1>5, SameSequence
<1> QED
  BY <1>6 DEF a, b, c

\* Where the k-th fragment of n bytes ends.
FragmentEnd(n, k) == IF fragment * k < n THEN fragment * k ELSE n

\* The fragments of a call meet, and end with its bytes.
LEMMA CutLemma ==
    ASSUME NEW S, NEW b \in Seq(S), fragment \in Nat \ {0}
    PROVE  /\ Cut(b) \in Seq(Seq(S))
           /\ FragmentEnd(Len(b), 0) = 0
           /\ FragmentEnd(Len(b), Len(Cut(b))) = Len(b)
           /\ \A k \in 1 .. Len(Cut(b)) :
                LET m == FragmentEnd(Len(b), k - 1)
                    n == FragmentEnd(Len(b), k)
                IN  /\ m \in Nat /\ n \in Nat /\ m <= n /\ n <= Len(b)
                    /\ Cut(b)[k] = SubSeq(b, m + 1, n)
<1> DEFINE L == Len(b)
           K == (L + fragment - 1) \div fragment
<1>0. fragment \in Nat \ {0} /\ L \in Nat
  OBVIOUS
<1>1. L + fragment - 1 \in Nat
  BY <1>0
<1>2. /\ K \in Nat /\ fragment * K \in Nat
      /\ fragment * K <= L + fragment - 1 /\ L + fragment - 1 < fragment * K + fragment
  BY <1>0, <1>1, Division
<1>3. L <= fragment * K /\ fragment * K < L + fragment
  BY <1>0, <1>2
<1> HIDE DEF K
<1>4. ASSUME NEW k \in 1 .. K
      PROVE  /\ k \in Nat /\ k - 1 \in Nat
             /\ fragment * k \in Nat /\ fragment * (k - 1) \in Nat
             /\ fragment * k = fragment * (k - 1) + fragment
             /\ fragment * (k - 1) < L
  <2>1. k \in Nat /\ k - 1 \in Nat /\ (k - 1) + 1 = k /\ k <= K
    BY <1>2
  <2>2. /\ fragment * (k - 1) \in Nat /\ fragment * k \in Nat
        /\ fragment * k = fragment * (k - 1) + fragment
    BY <1>0, <2>1, Multiples
  <2>3. fragment * k <= fragment * K
    <3>1. CASE k = K
      BY <1>2, <3>1
    <3>2. CASE k # K
      <4>1. k < K
        BY <1>2, <2>1, <3>2
      <4>2. fragment * k + fragment <= fragment * K
        BY <1>0, <1>2, <2>1, <4>1, MultiplesOrdered
      <4> QED
        BY <1>0, <1>2, <2>2, <4>2
    <3> QED
      BY <3>1, <3>2
  <2>4. fragment * (k - 1) < L
    BY <1>0, <1>2, <1>3, <2>2, <2>3
  <2> QED
    BY <2>1, <2>2, <2>4
<1>5. ASSUME NEW k \in 1 .. K
      PROVE  LET m == FragmentEnd(L, k - 1)
                 n == FragmentEnd(L, k)
             IN  /\ m \in Nat /\ n \in Nat /\ m <= n /\ n <= L
                 /\ m = fragment * (k - 1)
  <2>1. FragmentEnd(L, k - 1) = fragment * (k - 1)
    BY <1>4 DEF FragmentEnd
  <2>2. CASE fragment * k < L
    <3>1. FragmentEnd(L, k) = fragment * k
      BY <2>2 DEF FragmentEnd
    <3> QED
      BY <1>0, <1>4, <2>1, <2>2, <3>1
  <2>3. CASE ~(fragment * k < L)
    <3>1. FragmentEnd(L, k) = L
      BY <2>3 DEF FragmentEnd
    <3> QED
      BY <1>0, <1>4, <2>1, <3>1
  <2> QED
    BY <2>2, <2>3
<1>6. Cut(b) = [k \in 1 .. K |-> SubSeq(b, fragment * (k - 1) + 1, FragmentEnd(L, k))]
  BY DEF Cut, FragmentEnd, K
<1>7. ASSUME NEW k \in 1 .. K
      PROVE  /\ Cut(b)[k] = SubSeq(b, FragmentEnd(L, k - 1) + 1, FragmentEnd(L, k))
             /\ Cut(b)[k] \in Seq(S)
  <2>1. Cut(b)[k] = SubSeq(b, FragmentEnd(L, k - 1) + 1, FragmentEnd(L, k))
    BY <1>5, <1>6
  <2> QED
    BY <1>5, <2>1, SubSeqLemma
<1>8. Cut(b) = [k \in 1 .. K |-> Cut(b)[k]]
  BY <1>6
<1>9. Cut(b) \in Seq(Seq(S)) /\ Len(Cut(b)) = K
  <2>1. Cut(b) \in [1 .. K -> Seq(S)]
    BY <1>7, <1>8
  <2> HIDE DEF K
  <2> QED
    BY <1>2, <2>1
<1>10. FragmentEnd(L, 0) = 0
  <2>1. fragment * 0 = 0
    BY <1>0
  <2> QED
    BY <1>0, <2>1 DEF FragmentEnd
<1>11. FragmentEnd(L, K) = L
  BY <1>0, <1>2, <1>3 DEF FragmentEnd
<1> QED
  BY <1>5, <1>7, <1>9, <1>10, <1>11

\* The server gets the bytes of the calls, one after the other.
LEMMA JoinedCut ==
    ASSUME NEW S, NEW fs \in Seq(Seq(S)), NEW b \in Seq(S), fragment \in Nat \ {0}
    PROVE  /\ fs \o Cut(b) \in Seq(Seq(S))
           /\ Joined(fs) \in Seq(S)
           /\ Joined(fs \o Cut(b)) = Joined(fs) \o b
<1> DEFINE N == Len(fs)
           gs == Cut(b)
           K == Len(gs)
           all == fs \o gs
<1>1. /\ gs \in Seq(Seq(S)) /\ N \in Nat /\ K \in Nat
      /\ all \in Seq(Seq(S)) /\ Len(all) = N + K
      /\ \A k \in 1 .. N : all[k] = fs[k]
      /\ \A k \in 1 .. K : all[N + k] = gs[k]
  <2>1. gs \in Seq(Seq(S))
    BY CutLemma
  <2> HIDE DEF gs
  <2> QED
    BY <2>1
<1>2. PICK f : Joins(f, fs, N, S) /\ Joined(fs) = f[N]
  BY JoinedLemma
<1>3. PICK h : Joins(h, all, N + K, S) /\ Joined(all) = h[N + K]
  <2>1. \E h : Joins(h, all, Len(all), S) /\ Joined(all) = h[Len(all)]
    BY <1>1, JoinedLemma
  <2> QED
    BY <1>1, <2>1
<1>4. \A n \in 0 .. N : f[n] \in Seq(S)
  BY <1>2 DEF Joins
<1>5. \A n \in 1 .. N : f[n] = f[n - 1] \o fs[n]
  BY <1>2 DEF Joins
<1>6. \A n \in 1 .. (N + K) : h[n] = h[n - 1] \o all[n]
  BY <1>3 DEF Joins
<1>7. f[0] = <<>> /\ h[0] = <<>>
  BY <1>2, <1>3 DEF Joins
<1> HIDE DEF all, K, N
<1>8. h[N] = f[N]
  <2> DEFINE T == {n \in 0 .. N : h[n] = f[n]}
  <2>1. 0 \in T
    BY <1>1, <1>7
  <2>2. ASSUME NEW m \in 0 .. N, m # N, m \in T
        PROVE  m + 1 \in T
    <3>1. /\ m + 1 \in 1 .. N /\ m + 1 \in 1 .. (N + K) /\ m + 1 \in 0 .. N
          /\ (m + 1) - 1 = m
      BY <1>1, <2>2
    <3>2. h[m + 1] = h[m] \o all[m + 1] /\ f[m + 1] = f[m] \o fs[m + 1]
      BY <1>5, <1>6, <3>1
    <3>3. h[m] = f[m] /\ all[m + 1] = fs[m + 1]
      BY <1>1, <2>2, <3>1
    <3> QED
      BY <3>1, <3>2, <3>3
  <2> HIDE DEF T
  <2>3. \A m \in 0 .. N : m \in T
    BY <1>1, <2>1, <2>2, UpTo
  <2>4. N \in T
    BY <1>1, <2>3
  <2> QED
    BY <2>4 DEF T
<1> DEFINE End(k) == FragmentEnd(Len(b), k)
<1>9. /\ End(0) = 0 /\ End(K) = Len(b)
      /\ \A k \in 1 .. K :
            /\ End(k - 1) \in Nat /\ End(k) \in Nat /\ End(k - 1) <= End(k)
            /\ End(k) <= Len(b)
            /\ gs[k] = SubSeq(b, End(k - 1) + 1, End(k))
  BY CutLemma DEF K
<1> HIDE DEF End, gs
<1>10. f[N] \in Seq(S)
  BY <1>1, <1>4
<1>11. h[N + K] = f[N] \o SubSeq(b, 1, End(K))
  <2> DEFINE T == {k \in 0 .. K : h[N + k] = f[N] \o SubSeq(b, 1, End(k))}
  <2>1. 0 \in T
    <3>1. SubSeq(b, 1, 0) = <<>>
      OBVIOUS
    <3>2. f[N] \o <<>> = f[N]
      BY <1>10
    <3>3. N + 0 = N /\ 0 \in 0 .. K
      BY <1>1
    <3> QED
      BY <1>8, <1>9, <3>1, <3>2, <3>3
  <2>2. ASSUME NEW m \in 0 .. K, m # K, m \in T
        PROVE  m + 1 \in T
    <3> DEFINE p == SubSeq(b, 1, End(m))
               q == SubSeq(b, End(m) + 1, End(m + 1))
    <3>1. /\ m + 1 \in 1 .. K /\ m + 1 \in 0 .. K /\ (m + 1) - 1 = m
          /\ N + (m + 1) \in 1 .. (N + K) /\ (N + (m + 1)) - 1 = N + m
      BY <1>1, <2>2
    <3>2. h[N + (m + 1)] = h[N + m] \o gs[m + 1]
      BY <1>1, <1>6, <3>1
    <3>3. /\ End(m) \in Nat /\ End(m + 1) \in Nat /\ End(m) <= End(m + 1)
          /\ End(m + 1) <= Len(b) /\ gs[m + 1] = q
      BY <1>9, <3>1
    <3>4. p \o q = SubSeq(b, 1, End(m + 1))
      BY <3>3, SubSeqsMeet
    <3>5. q \in Seq(S)
      BY <3>3, SubSeqLemma
    <3>6. p \in Seq(S)
      <4>1. Len(b) \in Nat /\ End(m) <= Len(b)
        BY <3>3
      <4> QED
        BY <3>3, <4>1
    <3>7. h[N + m] = f[N] \o p
      BY <2>2
    <3> HIDE DEF p, q
    <3>8. (f[N] \o p) \o q = f[N] \o (p \o q)
      <4>1. PICK a : a = f[N]
        OBVIOUS
      <4>2. a \in Seq(S)
        BY <1>10, <4>1
      <4>3. (a \o p) \o q = a \o (p \o q)
        BY <3>5, <3>6, <4>2, ConcatAssociative, SMTT(30)
      <4> QED
        BY <4>1, <4>3, Zenon
    <3>9. h[N + (m + 1)] = f[N] \o SubSeq(b, 1, End(m + 1))
      BY <3>2, <3>3, <3>4, <3>7, <3>8
    <3> QED
      BY <3>1, <3>9
  <2> HIDE DEF T
  <2>3. \A m \in 0 .. K : m \in T
    BY <1>1, <2>1, <2>2, UpTo
  <2>4. K \in T
    BY <1>1, <2>3
  <2> QED
    BY <2>4 DEF T
<1>12. SubSeq(b, 1, Len(b)) = b
  OBVIOUS
<1>13. Joined(all) = Joined(fs) \o b
  BY <1>2, <1>3, <1>9, <1>11, <1>12
<1>14. Joined(fs) \in Seq(S)
  BY <1>2, <1>10
<1> QED
  BY <1>1, <1>13, <1>14 DEF all, gs

-----------------------------------------------------------------------------
(* Frames and packets.                                                     *)

\* The frames of pcm and what is left of it.
LEMMA FrameLemma ==
    ASSUME NEW pcm \in Seq(Nat)
    PROVE  LET n == Frames(pcm) IN
           /\ n \in Nat /\ FrameSize * n \in 0 .. Len(pcm)
           /\ Len(pcm) < FrameSize * n + FrameSize
           /\ \A j \in 1 .. n :
                /\ FrameSize * (j - 1) \in Nat
                /\ FrameSize * (j - 1) + FrameSize <= FrameSize * n
                /\ Frame(pcm, j) \in Seq(Nat) /\ Len(Frame(pcm, j)) = FrameSize
                /\ \A i \in 1 .. FrameSize : Frame(pcm, j)[i] = pcm[FrameSize * (j - 1) + i]
           /\ Rest(pcm) \in Seq(Nat) /\ Len(Rest(pcm)) = Len(pcm) - FrameSize * n
           /\ \A i \in 1 .. (Len(pcm) - FrameSize * n) : Rest(pcm)[i] = pcm[FrameSize * n + i]
<1> DEFINE n == Frames(pcm)
<1>0. FrameSize \in Nat \ {0} /\ Len(pcm) \in Nat
  BY Constants
<1>1. /\ n \in Nat /\ FrameSize * n \in Nat
      /\ FrameSize * n <= Len(pcm) /\ Len(pcm) < FrameSize * n + FrameSize
  BY <1>0, Division DEF Frames
<1>2. /\ Rest(pcm) \in Seq(Nat) /\ Len(Rest(pcm)) = Len(pcm) - FrameSize * n
      /\ \A i \in 1 .. (Len(pcm) - FrameSize * n) : Rest(pcm)[i] = pcm[FrameSize * n + i]
  <2>1. Rest(pcm) = SubSeq(pcm, FrameSize * n + 1, Len(pcm))
    BY DEF Rest
  <2> HIDE DEF n
  <2>2. PICK a \in Nat : a = FrameSize * n
    BY <1>1
  <2>3. a <= Len(pcm) /\ Len(pcm) <= Len(pcm)
    BY <1>0, <1>1, <2>2
  <2>4. /\ SubSeq(pcm, a + 1, Len(pcm)) \in Seq(Nat)
        /\ Len(SubSeq(pcm, a + 1, Len(pcm))) = Len(pcm) - a
        /\ \A i \in 1 .. (Len(pcm) - a) : SubSeq(pcm, a + 1, Len(pcm))[i] = pcm[a + i]
    BY <1>0, <2>3, SubSeqLemma
  <2> QED
    BY <2>1, <2>2, <2>4
<1> HIDE DEF n
<1>3. ASSUME NEW j \in 1 .. n
      PROVE  /\ FrameSize * (j - 1) \in Nat
             /\ FrameSize * (j - 1) + FrameSize <= FrameSize * n
             /\ Frame(pcm, j) \in Seq(Nat) /\ Len(Frame(pcm, j)) = FrameSize
             /\ \A i \in 1 .. FrameSize : Frame(pcm, j)[i] = pcm[FrameSize * (j - 1) + i]
  <2>1. j - 1 \in Nat /\ (j - 1) + 1 = j /\ j \in Nat /\ j - 1 < n
    BY <1>1
  <2>2. /\ FrameSize * (j - 1) \in Nat
        /\ FrameSize * j = FrameSize * (j - 1) + FrameSize
    BY <1>0, <2>1, Multiples
  <2>3. FrameSize * (j - 1) + FrameSize <= FrameSize * n
    BY <1>0, <1>1, <2>1, MultiplesOrdered
  <2> DEFINE a == FrameSize * (j - 1)
             z == FrameSize * j
  <2>4. a \in Nat /\ z \in Nat /\ a <= z /\ z <= Len(pcm) /\ z - a = FrameSize
    BY <1>0, <1>1, <2>2, <2>3
  <2>5. Frame(pcm, j) = SubSeq(pcm, a + 1, z)
    BY DEF Frame
  <2>6. /\ a \in Nat /\ a + FrameSize <= FrameSize * n
    BY <2>2, <2>3
  <2> HIDE DEF a, z
  <2>7. /\ Frame(pcm, j) \in Seq(Nat) /\ Len(Frame(pcm, j)) = FrameSize
        /\ \A i \in 1 .. FrameSize : Frame(pcm, j)[i] = pcm[a + i]
    BY <2>4, <2>5, SubSeqLemma
  <2> QED
    BY <2>6, <2>7 DEF a
<1>4. FrameSize * n \in 0 .. Len(pcm)
  BY <1>0, <1>1
<1> QED
  BY <1>1, <1>2, <1>3, <1>4 DEF n

\* Where a sample of a frame is in pcm.
PlaceIn(j, i) == FrameSize * (j - 1) + i

\* Frames, and samples in a frame, are in the order of their places.
LEMMA PlacesOrdered ==
    ASSUME NEW j \in Nat \ {0}, NEW k \in Nat \ {0},
           NEW i \in 1 .. FrameSize, NEW l \in 1 .. FrameSize,
           j < k \/ (j = k /\ i < l)
    PROVE  PlaceIn(j, i) < PlaceIn(k, l)
<1>0. FrameSize \in Nat \ {0}
  BY Constants
<1>1. j - 1 \in Nat /\ k - 1 \in Nat
  OBVIOUS
<1>2. FrameSize * (j - 1) \in Nat /\ FrameSize * (k - 1) \in Nat
  BY <1>0, <1>1, Multiples
<1>3. CASE j < k
  <2>1. j - 1 < k - 1
    BY <1>3
  <2>2. FrameSize * (j - 1) + FrameSize <= FrameSize * (k - 1)
    BY <1>0, <1>1, <2>1, MultiplesOrdered
  <2> QED
    BY <1>0, <1>2, <2>2 DEF PlaceIn
<1>4. CASE j = k /\ i < l
  BY <1>0, <1>2, <1>4 DEF PlaceIn
<1> QED
  BY <1>3, <1>4

\* Every sample of the whole frames is in one.
LEMMA PlaceFound ==
    ASSUME NEW n \in Nat, NEW x \in 1 .. (FrameSize * n)
    PROVE  \E j \in 1 .. n, i \in 1 .. FrameSize : x = PlaceIn(j, i)
<1>0. FrameSize \in Nat \ {0} /\ FrameSize * n \in Nat
  BY Constants, Multiples
<1> DEFINE q == (x - 1) \div FrameSize
<1>1. x - 1 \in Nat
  BY <1>0
<1>2. /\ q \in Nat /\ FrameSize * q \in Nat
      /\ FrameSize * q <= x - 1 /\ x - 1 < FrameSize * q + FrameSize
  BY <1>0, <1>1, Division
<1> HIDE DEF q
<1>3. q < n
  <2>1. SUFFICES ASSUME ~(q < n) PROVE FALSE
    OBVIOUS
  <2>2. CASE n = q
    BY <1>0, <1>2, <2>2
  <2>3. CASE n < q
    <3>1. FrameSize * n + FrameSize <= FrameSize * q
      BY <1>0, <1>2, <2>3, MultiplesOrdered
    <3> QED
      BY <1>0, <1>2, <3>1
  <2> QED
    BY <1>2, <2>1, <2>2, <2>3
<1>4. q + 1 \in 1 .. n /\ (q + 1) - 1 = q
  BY <1>2, <1>3
<1>5. x - FrameSize * q \in 1 .. FrameSize
  BY <1>0, <1>1, <1>2
<1>6. x = PlaceIn(q + 1, x - FrameSize * q)
  BY <1>0, <1>2, <1>4 DEF PlaceIn
<1> QED
  BY <1>4, <1>5, <1>6

\* The buffer fills from packet to packet.
LEMMA SizesGrow ==
    ASSUME NEW n \in Nat, NEW size \in EncSizes(n)
    PROVE  /\ size[0] = 0
           /\ \A j \in 0 .. n : size[j] \in Nat
           /\ \A j \in 1 .. n : /\ size[j - 1] \in Nat
                                /\ size[j] - size[j - 1] - 1 \in 1 .. MaxPacket
           /\ \A j, k \in 0 .. n : j < k => size[j] < size[k]
<1>1. /\ size[0] = 0 /\ size \in [0 .. n -> 0 .. BufferSize]
      /\ \A j \in 1 .. n : size[j] \in (size[j - 1] + 2) .. (size[j - 1] + 1 + MaxPacket)
  BY DEF EncSizes
<1>2. \A j \in 0 .. n : size[j] \in Nat
  BY <1>1, Constants
<1>3. ASSUME NEW j \in 1 .. n
      PROVE  size[j - 1] \in Nat /\ size[j] - size[j - 1] - 1 \in 1 .. MaxPacket
  <2>1. j - 1 \in 0 .. n /\ j \in 0 .. n
    OBVIOUS
  <2>2. size[j - 1] \in Nat /\ size[j] \in Nat
    BY <1>2, <2>1
  <2>3. size[j] \in (size[j - 1] + 2) .. (size[j - 1] + 1 + MaxPacket)
    BY <1>1
  <2> QED
    BY <2>2, <2>3, Constants
<1> DEFINE T == {k \in 0 .. n : \A j \in 0 .. n : j < k => size[j] < size[k]}
<1>4. 0 \in T
  OBVIOUS
<1>5. ASSUME NEW m \in 0 .. n, m # n, m \in T
      PROVE  m + 1 \in T
  <2>1. m + 1 \in 1 .. n /\ m + 1 \in 0 .. n /\ (m + 1) - 1 = m
    BY <1>5
  <2>2. /\ size[m] \in Nat /\ size[m + 1] \in Nat
        /\ size[m + 1] - size[m] - 1 \in 1 .. MaxPacket
    BY <1>2, <1>3, <2>1
  <2>3. size[m] < size[m + 1]
    BY <2>2, Constants
  <2>4. ASSUME NEW j \in 0 .. n, j < m + 1
        PROVE  size[j] < size[m + 1]
    <3>1. CASE j = m
      BY <2>3, <3>1
    <3>2. CASE j # m
      <4>1. j < m
        BY <2>4, <3>2
      <4>2. size[j] < size[m]
        BY <1>5, <4>1
      <4> QED
        BY <1>2, <2>2, <2>3, <4>2
    <3> QED
      BY <3>1, <3>2
  <2> QED
    BY <2>1, <2>4
<1> HIDE DEF T
<1>6. \A k \in 0 .. n : k \in T
  BY <1>4, <1>5, UpTo
<1> QED
  BY <1>1, <1>2, <1>3, <1>6 DEF T

\* The bytes of packets.
PacketBytes == [samples : Seq(Nat), of : Nat, at : Nat, value : Nat]

\* A byte of a packet names its frame; the first one has the length.
LEMMA PacketByteLemma ==
    ASSUME NEW frame \in Seq(Nat), NEW len \in 1 .. MaxPacket, NEW at \in 0 .. len
    PROVE  LET b == PacketByte(frame, len, at) IN
           /\ b \in PacketBytes
           /\ b.samples = frame /\ b.of = len /\ b.at = at
           /\ at = 0 => b.value = len
<1>1. len \in Nat /\ len < ByteLimit /\ ByteLimit \in Nat /\ at \in Nat
  BY Constants
<1>2. LengthByte(len) = len
  BY <1>1, ModSmall DEF LengthByte
<1>3. (IF at = 0 THEN LengthByte(len) ELSE 0) \in Nat
  BY <1>1, <1>2
<1> QED
  BY <1>1, <1>2, <1>3 DEF PacketByte, PacketBytes

\* s holds the frames of pcm, one after the other, each in a packet from
\* starts[j] on.
HoldsFrames(s, pcm, starts) ==
    /\ s \in Seq(PacketBytes) /\ PacketsFollow(s)
    /\ starts \in [1 .. Frames(pcm) -> Lengths(s)]
    /\ \A b \in Lengths(s) : \E j \in 1 .. Frames(pcm) : b = starts[j]
    /\ \A j \in 1 .. Frames(pcm) : s[starts[j]].samples = Frame(pcm, j)
    /\ \A j, k \in 1 .. Frames(pcm) : j < k => starts[j] < starts[k]

\* The encoder writes every frame, in order, in packets that follow.
LEMMA EncodedLemma ==
    ASSUME NEW pcm \in Seq(Nat), NEW size \in EncSizes(Frames(pcm))
    PROVE  \E starts : HoldsFrames(Encoded(pcm, size), pcm, starts)
<1> DEFINE n == Frames(pcm)
           s == Encoded(pcm, size)
           len(j) == size[j] - size[j - 1] - 1
           PacketOf(i) == CHOOSE j \in 1 .. n : size[j - 1] < i /\ i <= size[j]
           starts == [j \in 1 .. n |-> size[j - 1] + 1]
<1>0. n \in Nat /\ \A j \in 1 .. n : Frame(pcm, j) \in Seq(Nat)
  BY FrameLemma
<1>1. /\ size[0] = 0
      /\ \A j \in 0 .. n : size[j] \in Nat
      /\ \A j \in 1 .. n : size[j - 1] \in Nat /\ len(j) \in 1 .. MaxPacket
      /\ \A j, k \in 0 .. n : j < k => size[j] < size[k]
  BY <1>0, SizesGrow
<1>2. s = [i \in 1 .. size[n] |->
            PacketByte(Frame(pcm, PacketOf(i)), size[PacketOf(i)] - size[PacketOf(i) - 1] - 1,
                       i - size[PacketOf(i) - 1] - 1)]
  BY DEF Encoded
<1> HIDE DEF s, n
<1>3. n \in 0 .. n /\ size[n] \in Nat
  BY <1>0, <1>1
\* A byte is of one packet.
<1>4. ASSUME NEW i \in 1 .. size[n]
      PROVE  /\ PacketOf(i) \in 1 .. n
             /\ size[PacketOf(i) - 1] < i /\ i <= size[PacketOf(i)]
  <2> DEFINE T == {j \in 0 .. n : i <= size[j]}
  <2>1. T \subseteq Nat /\ n \in T
    BY <1>0, <1>3
  <2> HIDE DEF T
  <2>2. PICK j \in T : \A k \in T : j <= k
    BY <2>1, LeastNatural
  <2>3. j \in 0 .. n /\ i <= size[j] /\ j \in Nat
    BY <1>0, <2>2 DEF T
  <2>4. j # 0
    BY <1>1, <2>3
  <2>5. j \in 1 .. n /\ j - 1 \in 0 .. n /\ j - 1 < j
    BY <1>0, <2>3, <2>4
  <2>6. ~(i <= size[j - 1])
    BY <2>2, <2>3, <2>5 DEF T
  <2>7. size[j - 1] < i
    BY <1>1, <2>5, <2>6
  <2> QED
    BY <2>3, <2>5, <2>7
<1>5. ASSUME NEW i \in 1 .. size[n], NEW j \in 1 .. n, size[j - 1] < i, i <= size[j]
      PROVE  PacketOf(i) = j
  <2>1. PICK p : p = PacketOf(i)
    OBVIOUS
  <2>2. p \in 1 .. n /\ size[p - 1] < i /\ i <= size[p]
    BY <1>4, <2>1
  <2> HIDE DEF PacketOf
  <2>3. /\ p \in 0 .. n /\ j \in 0 .. n /\ p - 1 \in 0 .. n /\ j - 1 \in 0 .. n
        /\ p \in Nat /\ j \in Nat
    BY <1>0, <2>2
  <2>4. /\ size[p] \in Nat /\ size[j] \in Nat /\ size[p - 1] \in Nat
        /\ size[j - 1] \in Nat /\ i \in Nat
    BY <1>1, <2>3
  <2>5. ~(p < j)
    <3>1. SUFFICES ASSUME p < j PROVE FALSE
      OBVIOUS
    <3>2. p = j - 1 \/ p < j - 1
      BY <2>3, <3>1
    <3>3. p < j - 1 => size[p] < size[j - 1]
      BY <1>1, <2>3
    <3>4. p = j - 1 => size[p] = size[j - 1]
      OBVIOUS
    <3>5. size[p] <= size[j - 1]
      BY <2>4, <3>2, <3>3, <3>4
    <3> QED
      BY <1>5, <2>2, <2>4, <3>5
  <2>6. ~(j < p)
    <3>1. SUFFICES ASSUME j < p PROVE FALSE
      OBVIOUS
    <3>2. j = p - 1 \/ j < p - 1
      BY <2>3, <3>1
    <3>3. j < p - 1 => size[j] < size[p - 1]
      BY <1>1, <2>3
    <3>4. j = p - 1 => size[j] = size[p - 1]
      OBVIOUS
    <3>5. size[j] <= size[p - 1]
      BY <2>4, <3>2, <3>3, <3>4
    <3> QED
      BY <1>5, <2>2, <2>4, <3>5
  <2> QED
    BY <2>1, <2>3, <2>5, <2>6
\* The k-th byte of the j-th packet.
<1>6. ASSUME NEW j \in 1 .. n, NEW k \in 0 .. len(j)
      PROVE  /\ size[j - 1] + 1 + k \in 1 .. size[n]
             /\ s[size[j - 1] + 1 + k] = PacketByte(Frame(pcm, j), len(j), k)
  <2> DEFINE i == size[j - 1] + 1 + k
  <2>1. /\ j \in 0 .. n /\ size[j] \in Nat /\ size[j - 1] \in Nat
        /\ len(j) \in 1 .. MaxPacket /\ k \in Nat /\ k <= len(j)
    BY <1>0, <1>1
  <2>2. size[j] <= size[n]
    <3>1. CASE j = n
      BY <1>3, <3>1
    <3>2. CASE j # n
      <4>1. j < n
        BY <1>0, <3>2
      <4>2. size[j] < size[n]
        BY <1>1, <1>3, <2>1, <4>1
      <4> QED
        BY <1>3, <2>1, <4>2
    <3> QED
      BY <3>1, <3>2
  <2>3. i \in 1 .. size[n] /\ size[j - 1] < i /\ i <= size[j] /\ i - size[j - 1] - 1 = k
    <3>1. PICK a \in Nat, z \in Nat, l \in Nat :
                a = size[j - 1] /\ z = size[j] /\ l = size[n]
      BY <1>3, <2>1
    <3>2. k \in Nat /\ k <= z - a - 1 /\ z <= l
      BY <2>1, <2>2, <3>1
    <3>3. a + 1 + k \in 1 .. l /\ a < a + 1 + k /\ a + 1 + k <= z /\ (a + 1 + k) - a - 1 = k
      BY <3>2
    <3> QED
      BY <3>1, <3>3
  <2> HIDE DEF i
  <2>4. PacketOf(i) = j
    BY <1>5, <2>3
  <2> HIDE DEF PacketOf
  <2>5. s[i] = PacketByte(Frame(pcm, PacketOf(i)), size[PacketOf(i)] - size[PacketOf(i) - 1] - 1,
                          i - size[PacketOf(i) - 1] - 1)
    BY <1>2, <2>3
  <2>6. s[i] = PacketByte(Frame(pcm, j), len(j), k)
    BY <2>3, <2>4, <2>5
  <2> QED
    BY <2>3, <2>6 DEF i
<1>7. ASSUME NEW i \in 1 .. size[n]
      PROVE  \E j \in 1 .. n : \E k \in 0 .. len(j) : i = size[j - 1] + 1 + k
  <2>1. PICK j \in 1 .. n : size[j - 1] < i /\ i <= size[j]
    BY <1>4
  <2>2. size[j - 1] \in Nat /\ size[j] \in Nat /\ i \in Nat
    BY <1>0, <1>1, <2>1
  <2>3. i - size[j - 1] - 1 \in 0 .. len(j)
    BY <2>1, <2>2
  <2>4. i = size[j - 1] + 1 + (i - size[j - 1] - 1)
    BY <2>2
  <2> QED
    BY <2>3, <2>4
<1> HIDE DEF PacketOf
<1>8. ASSUME NEW j \in 1 .. n, NEW k \in 0 .. len(j)
      PROVE  LET b == s[size[j - 1] + 1 + k] IN
             /\ b \in PacketBytes
             /\ b.samples = Frame(pcm, j) /\ b.of = len(j) /\ b.at = k
             /\ k = 0 => b.value = len(j)
  <2>1. len(j) \in 1 .. MaxPacket /\ Frame(pcm, j) \in Seq(Nat)
    BY <1>0, <1>1
  <2> HIDE DEF len
  <2> QED
    BY <1>6, <2>1, PacketByteLemma
<1>9. s \in Seq(PacketBytes) /\ Len(s) = size[n] /\ DOMAIN s = 1 .. size[n]
  <2>1. \A i \in 1 .. size[n] : s[i] \in PacketBytes
    <3> TAKE i \in 1 .. size[n]
    <3>1. PICK j \in 1 .. n : \E k \in 0 .. len(j) : i = size[j - 1] + 1 + k
      BY <1>7
    <3>2. PICK k \in 0 .. len(j) : i = size[j - 1] + 1 + k
      BY <3>1
    <3> QED
      BY <1>8, <3>2
  <2>2. s = [i \in 1 .. size[n] |-> s[i]]
    BY <1>2
  <2>3. s \in [1 .. size[n] -> PacketBytes]
    BY <2>1, <2>2
  <2> QED
    BY <1>3, <2>3
<1>10. ASSUME NEW j \in 1 .. n
       PROVE  /\ size[j - 1] + 1 \in 1 .. size[n]
              /\ s[size[j - 1] + 1].samples = Frame(pcm, j)
              /\ s[size[j - 1] + 1].at = 0 /\ s[size[j - 1] + 1].value = len(j)
  <2>1. 0 \in 0 .. len(j) /\ size[j - 1] + 1 + 0 = size[j - 1] + 1
    BY <1>1, Constants
  <2> HIDE DEF len
  <2> QED
    BY <1>6, <1>8, <2>1
<1>11. starts \in [1 .. n -> Lengths(s)] /\ \A j \in 1 .. n : starts[j] = size[j - 1] + 1
  <2>1. \A j \in 1 .. n : size[j - 1] + 1 \in Lengths(s)
    BY <1>9, <1>10 DEF Lengths
  <2> QED
    BY <2>1
<1> HIDE DEF starts
<1>12. ASSUME NEW b \in Lengths(s)
       PROVE  \E j \in 1 .. n : b = starts[j]
  <2>1. b \in 1 .. size[n] /\ s[b].at = 0
    BY <1>9 DEF Lengths
  <2>2. PICK j \in 1 .. n : \E k \in 0 .. len(j) : b = size[j - 1] + 1 + k
    BY <1>7, <2>1
  <2>3. PICK k \in 0 .. len(j) : b = size[j - 1] + 1 + k
    BY <2>2
  <2>4. s[b].at = k
    BY <1>8, <2>3
  <2>5. b = size[j - 1] + 1
    BY <1>1, <2>1, <2>3, <2>4
  <2> QED
    BY <1>11, <2>5
<1>13. ASSUME NEW j \in 1 .. n, NEW k \in 1 .. n, j < k
       PROVE  starts[j] < starts[k]
  <2>1. j - 1 \in 0 .. n /\ k - 1 \in 0 .. n /\ j - 1 < k - 1
    BY <1>0, <1>13
  <2>2. size[j - 1] < size[k - 1] /\ size[j - 1] \in Nat /\ size[k - 1] \in Nat
    BY <1>1, <2>1
  <2> QED
    BY <1>11, <2>2
<1>14. s # <<>> => 1 \in Lengths(s)
  <2> HAVE s # <<>>
  <2>1. size[n] # 0
    BY <1>9
  <2>2. n # 0
    BY <1>1, <2>1
  <2>3. 1 \in 1 .. n
    BY <1>0, <2>2
  <2>4. starts[1] = 1
    <3>1. starts[1] = size[1 - 1] + 1
      BY <1>11, <2>3
    <3>2. 1 - 1 = 0 /\ 0 + 1 = 1
      OBVIOUS
    <3> QED
      BY <1>1, <3>1, <3>2
  <2>5. starts[1] \in Lengths(s)
    BY <1>11, <2>3
  <2> QED
    BY <2>4, <2>5
<1>15. ASSUME NEW b \in Lengths(s)
       PROVE  LET m == s[b].value IN
              /\ m > 0 /\ b + m + 1 \in Lengths(s) \cup {Len(s) + 1}
              /\ \A i \in 1 .. m :
                    /\ s[b + i].samples = s[b].samples
                    /\ s[b + i].at = i /\ s[b + i].of = m
  <2>1. PICK j \in 1 .. n : b = starts[j]
    BY <1>12
  <2>2. /\ b = size[j - 1] + 1 /\ s[b].value = len(j)
        /\ s[b].samples = Frame(pcm, j)
    BY <1>10, <1>11, <2>1
  <2>3. size[j - 1] \in Nat /\ size[j] \in Nat /\ len(j) \in 1 .. MaxPacket
    BY <1>0, <1>1
  <2>4. b + len(j) + 1 \in Lengths(s) \cup {Len(s) + 1}
    <3>1. b + len(j) + 1 = size[j] + 1
      BY <2>2, <2>3, SMTT(30)
    <3>2. CASE j = n
      <4>1. b + len(j) + 1 = Len(s) + 1
        BY <1>9, <3>1, <3>2
      <4> QED
        BY <4>1, Zenon
    <3>3. CASE j # n
      <4>1. j + 1 \in 1 .. n /\ (j + 1) - 1 = j
        BY <1>0, <3>3
      <4>2. starts[j + 1] = size[(j + 1) - 1] + 1 /\ starts[j + 1] \in Lengths(s)
        BY <1>11, <4>1
      <4>3. starts[j + 1] = b + len(j) + 1
        BY <3>1, <4>1, <4>2
      <4> QED
        BY <4>2, <4>3
    <3> QED
      BY <3>2, <3>3
  <2>5. ASSUME NEW i \in 1 .. len(j)
        PROVE  /\ s[b + i].samples = Frame(pcm, j)
               /\ s[b + i].at = i /\ s[b + i].of = len(j)
    <3>1. i \in 0 .. len(j) /\ b + i = size[j - 1] + 1 + i
      BY <2>2, <2>3
    <3> HIDE DEF len
    <3> QED
      BY <1>8, <3>1
  <2>6. len(j) > 0
    BY <2>3, Constants
  <2> HIDE DEF len
  <2> QED
    BY <2>2, <2>4, <2>5, <2>6
<1>16. PacketsFollow(s)
  BY <1>14, <1>15 DEF PacketsFollow
<1>17. \A j \in 1 .. n : s[starts[j]].samples = Frame(pcm, j)
  BY <1>10, <1>11
<1>18. HoldsFrames(s, pcm, starts)
  BY <1>9, <1>11, <1>12, <1>13, <1>16, <1>17 DEF HoldsFrames, n
<1> QED
  BY <1>18 DEF s

-----------------------------------------------------------------------------
(* What the server hears.                                                  *)

\* The samples of the packets in s.
SamplesOf(s) == UNION {ToSet(s[b].samples) : b \in Lengths(s)}

\* FramesInOrder of the bytes s of a request, of which the samples have are.
Sound(s, have) ==
    /\ s \in Seq(PacketBytes) /\ PacketsFollow(s)
    /\ \A b \in Lengths(s) :
        Len(s[b].samples) = FrameSize /\ s[b].samples[FrameSize] \in have
    /\ \A b, c \in Lengths(s), i, j \in 1 .. FrameSize :
        b < c \/ (b = c /\ i < j) => s[b].samples[i] < s[c].samples[j]

\* The samples of whole packets, by packet and place.
LEMMA SampleFound ==
    ASSUME NEW s \in Seq(PacketBytes),
           \A b \in Lengths(s) : Len(s[b].samples) = FrameSize
    PROVE  /\ Lengths(s) \subseteq 1 .. Len(s)
           /\ \A b \in Lengths(s), i \in 1 .. FrameSize :
                s[b].samples[i] \in Nat /\ s[b].samples[i] \in SamplesOf(s)
           /\ \A x \in SamplesOf(s) :
                \E b \in Lengths(s), i \in 1 .. FrameSize : x = s[b].samples[i]
<1>1. Lengths(s) \subseteq 1 .. Len(s)
  BY DEF Lengths
<1>2. ASSUME NEW b \in Lengths(s)
      PROVE  /\ s[b].samples \in Seq(Nat) /\ DOMAIN s[b].samples = 1 .. FrameSize
             /\ \A i \in 1 .. FrameSize : s[b].samples[i] \in Nat
  <2>1. s[b] \in PacketBytes
    BY <1>1
  <2>2. PICK f : f = s[b].samples
    OBVIOUS
  <2>3. f \in Seq(Nat) /\ Len(f) = FrameSize
    BY <2>1, <2>2 DEF PacketBytes
  <2> QED
    BY <2>2, <2>3
<1>3. \A b \in Lengths(s) : ToSet(s[b].samples) = {s[b].samples[i] : i \in 1 .. FrameSize}
  BY <1>2 DEF ToSet
<1>4. \A b \in Lengths(s), i \in 1 .. FrameSize : s[b].samples[i] \in SamplesOf(s)
  BY <1>3 DEF SamplesOf
<1>5. ASSUME NEW x \in SamplesOf(s)
      PROVE  \E b \in Lengths(s), i \in 1 .. FrameSize : x = s[b].samples[i]
  <2>1. PICK b \in Lengths(s) : x \in ToSet(s[b].samples)
    BY DEF SamplesOf
  <2> QED
    BY <1>3, <2>1
<1> QED
  BY <1>1, <1>2, <1>4, <1>5

\* Bytes after bytes.
LEMMA ConcatLemma ==
    ASSUME NEW s \in Seq(PacketBytes), NEW e \in Seq(PacketBytes)
    PROVE  /\ s \o e \in Seq(PacketBytes) /\ Len(s \o e) = Len(s) + Len(e)
           /\ \A b \in 1 .. Len(s) : (s \o e)[b] = s[b]
           /\ \A b \in 1 .. Len(e) : (s \o e)[Len(s) + b] = e[b]
           /\ \A b \in Lengths(s) : b \in Lengths(s \o e) /\ (s \o e)[b] = s[b]
           /\ \A b \in Lengths(e) :
                Len(s) + b \in Lengths(s \o e) /\ (s \o e)[Len(s) + b] = e[b]
           /\ \A b \in Lengths(s \o e) :
                b \in Lengths(s) \/ \E c \in Lengths(e) : b = Len(s) + c
<1> DEFINE t == s \o e
<1>1. /\ t \in Seq(PacketBytes) /\ Len(t) = Len(s) + Len(e)
      /\ Len(s) \in Nat /\ Len(e) \in Nat
      /\ \A b \in 1 .. Len(s) : t[b] = s[b]
      /\ \A b \in 1 .. Len(e) : t[Len(s) + b] = e[b]
  OBVIOUS
<1>2. /\ Lengths(s) = {b \in 1 .. Len(s) : s[b].at = 0}
      /\ Lengths(e) = {b \in 1 .. Len(e) : e[b].at = 0}
      /\ Lengths(t) = {b \in 1 .. Len(t) : t[b].at = 0}
  BY <1>1 DEF Lengths
<1> HIDE DEF t
<1>3. ASSUME NEW b \in Lengths(s)
      PROVE  b \in Lengths(t) /\ t[b] = s[b]
  BY <1>1, <1>2
<1>4. ASSUME NEW b \in Lengths(e)
      PROVE  Len(s) + b \in Lengths(t) /\ t[Len(s) + b] = e[b]
  BY <1>1, <1>2
<1>5. ASSUME NEW b \in Lengths(t), b \notin Lengths(s)
      PROVE  \E c \in Lengths(e) : b = Len(s) + c
  <2>1. b \in 1 .. Len(t) /\ t[b].at = 0
    BY <1>2
  <2>2. ~(b <= Len(s))
    BY <1>1, <1>2, <1>5, <2>1
  <2>3. b - Len(s) \in 1 .. Len(e) /\ b = Len(s) + (b - Len(s))
    BY <1>1, <2>1, <2>2
  <2>4. t[b] = e[b - Len(s)]
    BY <1>1, <2>3
  <2>5. b - Len(s) \in Lengths(e)
    BY <1>2, <2>1, <2>3, <2>4
  <2> QED
    BY <2>3, <2>5
<1> QED
  BY <1>1, <1>3, <1>4, <1>5 DEF t

\* Packets that follow, after packets that follow.
LEMMA FollowLemma ==
    ASSUME NEW s \in Seq(PacketBytes), NEW e \in Seq(PacketBytes),
           PacketsFollow(s), PacketsFollow(e)
    PROVE  PacketsFollow(s \o e)
<1> DEFINE t == s \o e
<1>1. /\ t \in Seq(PacketBytes) /\ Len(t) = Len(s) + Len(e)
      /\ \A b \in 1 .. Len(s) : t[b] = s[b]
      /\ \A b \in 1 .. Len(e) : t[Len(s) + b] = e[b]
      /\ \A b \in Lengths(s) : b \in Lengths(t) /\ t[b] = s[b]
      /\ \A b \in Lengths(e) : Len(s) + b \in Lengths(t) /\ t[Len(s) + b] = e[b]
      /\ \A b \in Lengths(t) : b \in Lengths(s) \/ \E c \in Lengths(e) : b = Len(s) + c
  BY ConcatLemma
<1> HIDE DEF t
<1>2. Len(s) \in Nat /\ Len(e) \in Nat
  OBVIOUS
<1>3. ASSUME e # <<>> PROVE Len(s) + 1 \in Lengths(t)
  BY <1>1, <1>3 DEF PacketsFollow
<1>4. t # <<>> => 1 \in Lengths(t)
  <2>1. CASE s # <<>>
    BY <1>1, <2>1 DEF PacketsFollow
  <2>2. CASE s = <<>> /\ e # <<>>
    <3>1. Len(s) + 1 = 1
      BY <2>2
    <3> QED
      BY <1>3, <2>2, <3>1
  <2>3. CASE s = <<>> /\ e = <<>>
    BY <1>1, <2>3
  <2> QED
    BY <2>1, <2>2, <2>3
<1> DEFINE Follows(u, b) ==
        LET m == u[b].value IN
        /\ m > 0 /\ b + m + 1 \in Lengths(u) \cup {Len(u) + 1}
        /\ \A i \in 1 .. m :
            u[b + i].samples = u[b].samples /\ u[b + i].at = i /\ u[b + i].of = m
<1>5. ASSUME NEW b \in Lengths(s)
      PROVE  Follows(t, b)
  <2>1. b \in 1 .. Len(s) /\ s[b] \in PacketBytes /\ t[b] = s[b]
    BY <1>1 DEF Lengths
  <2>2. PICK m \in Nat : m = s[b].value
    BY <2>1 DEF PacketBytes
  <2>3. /\ m > 0 /\ b + m + 1 \in Lengths(s) \cup {Len(s) + 1}
        /\ \A i \in 1 .. m :
            s[b + i].samples = s[b].samples /\ s[b + i].at = i /\ s[b + i].of = m
    BY <2>2 DEF PacketsFollow
  <2>4. b + m <= Len(s)
    <3>1. b + m + 1 \in 1 .. Len(s) \/ b + m + 1 = Len(s) + 1
      BY <2>3 DEF Lengths
    <3> QED
      BY <1>2, <2>1, <3>1
  <2>5. b + m + 1 \in Lengths(t) \cup {Len(t) + 1}
    <3>1. CASE b + m + 1 \in Lengths(s)
      BY <1>1, <3>1
    <3>2. CASE b + m + 1 = Len(s) + 1 /\ e # <<>>
      BY <1>3, <3>2
    <3>3. CASE b + m + 1 = Len(s) + 1 /\ e = <<>>
      BY <1>1, <1>2, <3>3
    <3> QED
      BY <2>3, <3>1, <3>2, <3>3
  <2>6. \A i \in 1 .. m : b + i \in 1 .. Len(s) /\ t[b + i] = s[b + i]
    BY <1>1, <1>2, <2>1, <2>4
  <2> QED
    BY <2>1, <2>2, <2>3, <2>5, <2>6
<1>6. ASSUME NEW b \in Lengths(e)
      PROVE  Follows(t, Len(s) + b)
  <2>1. b \in 1 .. Len(e) /\ e[b] \in PacketBytes /\ t[Len(s) + b] = e[b]
    BY <1>1 DEF Lengths
  <2>2. PICK m \in Nat : m = e[b].value
    BY <2>1 DEF PacketBytes
  <2>3. /\ m > 0 /\ b + m + 1 \in Lengths(e) \cup {Len(e) + 1}
        /\ \A i \in 1 .. m :
            e[b + i].samples = e[b].samples /\ e[b + i].at = i /\ e[b + i].of = m
    BY <2>2 DEF PacketsFollow
  <2>4. b + m <= Len(e)
    <3>1. b + m + 1 \in 1 .. Len(e) \/ b + m + 1 = Len(e) + 1
      BY <2>3 DEF Lengths
    <3> QED
      BY <1>2, <2>1, <3>1
  <2>5. (Len(s) + b) + m + 1 \in Lengths(t) \cup {Len(t) + 1}
    <3>1. CASE b + m + 1 \in Lengths(e)
      <4>1. Len(s) + (b + m + 1) \in Lengths(t)
        BY <1>1, <3>1
      <4>2. Len(s) + (b + m + 1) = (Len(s) + b) + m + 1
        BY <1>2, <2>1
      <4> QED
        BY <4>1, <4>2
    <3>2. CASE b + m + 1 = Len(e) + 1
      <4>1. PICK p \in Nat, q \in Nat, d \in Nat : p = Len(s) /\ q = Len(e) /\ d = b
        BY <1>2, <2>1
      <4>2. d + m + 1 = q + 1 /\ Len(t) = p + q
        BY <1>1, <3>2, <4>1
      <4>3. (p + d) + m + 1 = (p + q) + 1
        BY <4>2
      <4> QED
        BY <4>1, <4>2, <4>3
    <3> QED
      BY <2>3, <3>1, <3>2
  <2>6. ASSUME NEW i \in 1 .. m
        PROVE  t[(Len(s) + b) + i] = e[b + i]
    <3>1. b + i \in 1 .. Len(e) /\ Len(s) + (b + i) = (Len(s) + b) + i
      BY <1>2, <2>1, <2>4
    <3> QED
      BY <1>1, <3>1
  <2> QED
    BY <2>1, <2>2, <2>3, <2>5, <2>6
<1>7. \A b \in Lengths(t) : Follows(t, b)
  <2> HIDE DEF Follows
  <2> QED
    BY <1>1, <1>5, <1>6
<1>8. PacketsFollow(t)
  BY <1>4, <1>7 DEF PacketsFollow
<1> QED
  BY <1>8 DEF t

\* Later frames after earlier ones.
LEMMA AppendSound ==
    ASSUME NEW s, NEW e, NEW have, NEW more, Sound(s, have), Sound(e, more),
           have \subseteq more,
           \A x \in SamplesOf(s), y \in SamplesOf(e) : x < y
    PROVE  /\ Sound(s \o e, more)
           /\ SamplesOf(s \o e) = SamplesOf(s) \cup SamplesOf(e)
<1> DEFINE t == s \o e
<1>0. /\ s \in Seq(PacketBytes) /\ e \in Seq(PacketBytes)
      /\ PacketsFollow(s) /\ PacketsFollow(e)
      /\ \A b \in Lengths(s) : Len(s[b].samples) = FrameSize /\ s[b].samples[FrameSize] \in have
      /\ \A b \in Lengths(e) : Len(e[b].samples) = FrameSize /\ e[b].samples[FrameSize] \in more
  BY DEF Sound
<1>a. Len(s) \in Nat
  BY <1>0
<1>1. /\ t \in Seq(PacketBytes)
      /\ \A b \in Lengths(s) : b \in Lengths(t) /\ t[b] = s[b]
      /\ \A b \in Lengths(e) : Len(s) + b \in Lengths(t) /\ t[Len(s) + b] = e[b]
      /\ \A b \in Lengths(t) : b \in Lengths(s) \/ \E c \in Lengths(e) : b = Len(s) + c
  BY <1>0, ConcatLemma
<1>2. PacketsFollow(t)
  BY <1>0, FollowLemma
<1> HIDE DEF t
<1>3. ASSUME NEW b \in Lengths(t)
      PROVE  Len(t[b].samples) = FrameSize /\ t[b].samples[FrameSize] \in more
  <2>1. CASE b \in Lengths(s)
    <3>1. t[b] = s[b]
      BY <1>1, <2>1
    <3> QED
      BY <1>0, <2>1, <3>1
  <2>2. CASE \E c \in Lengths(e) : b = Len(s) + c
    <3>1. PICK c \in Lengths(e) : b = Len(s) + c
      BY <2>2
    <3>2. t[b] = e[c]
      BY <1>1, <3>1
    <3> QED
      BY <1>0, <3>2
  <2> QED
    BY <1>1, <2>1, <2>2
<1>4. Lengths(s) \subseteq 1 .. Len(s) /\ Lengths(e) \subseteq 1 .. Len(e)
  BY <1>0, SampleFound
<1>5. /\ \A b \in Lengths(s), i \in 1 .. FrameSize : s[b].samples[i] \in SamplesOf(s)
      /\ \A b \in Lengths(e), i \in 1 .. FrameSize : e[b].samples[i] \in SamplesOf(e)
  BY <1>0, SampleFound
<1>6. ASSUME NEW b \in Lengths(t), NEW c \in Lengths(t),
             NEW i \in 1 .. FrameSize, NEW j \in 1 .. FrameSize,
             b < c \/ (b = c /\ i < j)
      PROVE  t[b].samples[i] < t[c].samples[j]
  <2>1. CASE b \in Lengths(s) /\ c \in Lengths(s)
    <3>1. s[b].samples[i] < s[c].samples[j]
      BY <1>6, <2>1 DEF Sound
    <3> QED
      BY <1>1, <2>1, <3>1
  <2>2. CASE b \in Lengths(s) /\ \E d \in Lengths(e) : c = Len(s) + d
    <3>1. PICK d \in Lengths(e) : c = Len(s) + d
      BY <2>2
    <3>2. s[b].samples[i] < e[d].samples[j]
      BY <1>5, <2>2
    <3> QED
      BY <1>1, <2>2, <3>1, <3>2
  <2>3. CASE (\E d \in Lengths(e) : b = Len(s) + d) /\ c \in Lengths(s)
    <3>1. PICK d \in Lengths(e) : b = Len(s) + d
      BY <2>3
    <3>2. c < b /\ b \in Nat /\ c \in Nat
      BY <1>a, <1>4, <2>3, <3>1
    <3> QED
      BY <1>6, <3>2
  <2>4. CASE (\E d \in Lengths(e) : b = Len(s) + d) /\ (\E d \in Lengths(e) : c = Len(s) + d)
    <3>1. PICK d \in Lengths(e) : b = Len(s) + d
      BY <2>4
    <3>2. PICK f \in Lengths(e) : c = Len(s) + f
      BY <2>4
    <3>3. d \in Nat /\ f \in Nat
      BY <1>4
    <3>4. d < f \/ (d = f /\ i < j)
      BY <1>a, <1>6, <3>1, <3>2, <3>3
    <3>5. e[d].samples[i] < e[f].samples[j]
      BY <3>4 DEF Sound
    <3> QED
      BY <1>1, <3>1, <3>2, <3>5
  <2> QED
    BY <1>1, <2>1, <2>2, <2>3, <2>4
<1>7. Sound(t, more)
  BY <1>1, <1>2, <1>3, <1>6 DEF Sound
<1>8. SamplesOf(t) = SamplesOf(s) \cup SamplesOf(e)
  <2>1. ASSUME NEW x \in SamplesOf(t) PROVE x \in SamplesOf(s) \cup SamplesOf(e)
    <3>1. PICK b \in Lengths(t) : x \in ToSet(t[b].samples)
      BY DEF SamplesOf
    <3>2. CASE b \in Lengths(s)
      BY <1>1, <3>1, <3>2 DEF SamplesOf
    <3>3. CASE \E c \in Lengths(e) : b = Len(s) + c
      BY <1>1, <3>1, <3>3 DEF SamplesOf
    <3> QED
      BY <1>1, <3>2, <3>3
  <2>2. ASSUME NEW x \in SamplesOf(s) PROVE x \in SamplesOf(t)
    BY <1>1 DEF SamplesOf
  <2>3. ASSUME NEW x \in SamplesOf(e) PROVE x \in SamplesOf(t)
    BY <1>1 DEF SamplesOf
  <2> QED
    BY <2>1, <2>2, <2>3
<1> QED
  BY <1>7, <1>8 DEF t

\* What is encoded of samples in order, of which all after the first c are in
\* have: the frames, each with one of have at its end.
LEMMA EncodedSound ==
    ASSUME NEW pcm \in Seq(Nat), NEW e, NEW starts, HoldsFrames(e, pcm, starts),
           \A k, l \in 1 .. Len(pcm) : k < l => pcm[k] < pcm[l],
           NEW have, NEW c \in Nat, c < FrameSize,
           \A k \in 1 .. Len(pcm) : k > c => pcm[k] \in have
    PROVE  /\ Sound(e, have)
           /\ SamplesOf(e) = {pcm[k] : k \in 1 .. (FrameSize * Frames(pcm))}
<1> DEFINE n == Frames(pcm)
<1>0. FrameSize \in Nat \ {0} /\ Len(pcm) \in Nat
  BY Constants
<1>1. /\ n \in Nat /\ FrameSize * n \in 0 .. Len(pcm)
      /\ \A j \in 1 .. n :
            /\ FrameSize * (j - 1) \in Nat
            /\ FrameSize * (j - 1) + FrameSize <= FrameSize * n
            /\ Len(Frame(pcm, j)) = FrameSize
            /\ \A i \in 1 .. FrameSize : Frame(pcm, j)[i] = pcm[PlaceIn(j, i)]
  BY FrameLemma DEF PlaceIn
<1>2. /\ e \in Seq(PacketBytes) /\ PacketsFollow(e)
      /\ starts \in [1 .. n -> Lengths(e)]
      /\ \A b \in Lengths(e) : \E j \in 1 .. n : b = starts[j]
      /\ \A j \in 1 .. n : e[starts[j]].samples = Frame(pcm, j)
      /\ \A j, k \in 1 .. n : j < k => starts[j] < starts[k]
  BY DEF HoldsFrames
<1> HIDE DEF n
<1>3. ASSUME NEW j \in 1 .. n, NEW i \in 1 .. FrameSize
      PROVE  PlaceIn(j, i) \in 1 .. (FrameSize * n) /\ PlaceIn(j, i) \in 1 .. Len(pcm)
  <2>a. FrameSize * n \in Nat /\ FrameSize * n <= Len(pcm)
    BY <1>0, <1>1
  <2>b. /\ FrameSize * (j - 1) \in Nat
        /\ FrameSize * (j - 1) + FrameSize <= FrameSize * n
    BY <1>1
  <2>1. PICK a \in Nat, z \in Nat : a = FrameSize * (j - 1) /\ z = FrameSize * n
    BY <2>a, <2>b
  <2>2. a + FrameSize <= z /\ z <= Len(pcm)
    BY <2>a, <2>b, <2>1
  <2>3. a + i \in 1 .. z /\ a + i \in 1 .. Len(pcm)
    BY <1>0, <2>2
  <2> QED
    BY <2>1, <2>3 DEF PlaceIn
<1>4. Lengths(e) \subseteq 1 .. Len(e) /\ Len(e) \in Nat
  BY <1>2 DEF Lengths
<1>5. ASSUME NEW b \in Lengths(e)
      PROVE  Len(e[b].samples) = FrameSize
  <2>1. PICK j \in 1 .. n : b = starts[j]
    BY <1>2
  <2> QED
    BY <1>1, <1>2, <2>1
<1>6. ASSUME NEW b \in Lengths(e)
      PROVE  e[b].samples[FrameSize] \in have
  <2>1. PICK j \in 1 .. n : b = starts[j]
    BY <1>2
  <2>2. FrameSize \in 1 .. FrameSize
    BY <1>0
  <2>3. e[b].samples[FrameSize] = pcm[PlaceIn(j, FrameSize)]
    BY <1>1, <1>2, <2>1, <2>2
  <2>4. PlaceIn(j, FrameSize) > c
    <3>1. FrameSize * (j - 1) \in Nat
      BY <1>1
    <3> QED
      BY <1>0, <3>1 DEF PlaceIn
  <2> QED
    BY <1>3, <2>2, <2>3, <2>4
<1>7. ASSUME NEW b \in Lengths(e), NEW d \in Lengths(e),
             NEW i \in 1 .. FrameSize, NEW l \in 1 .. FrameSize,
             b < d \/ (b = d /\ i < l)
      PROVE  e[b].samples[i] < e[d].samples[l]
  <2>1. PICK j \in 1 .. n : b = starts[j]
    BY <1>2
  <2>2. PICK k \in 1 .. n : d = starts[k]
    BY <1>2
  <2>3. /\ starts[j] \in Nat /\ starts[k] \in Nat
        /\ j \in Nat \ {0} /\ k \in Nat \ {0}
    <3>1. b \in Nat /\ d \in Nat
      BY <1>4
    <3>2. n \in Nat
      BY <1>1
    <3>3. j \in Nat \ {0} /\ k \in Nat \ {0}
      BY <3>2
    <3> QED
      BY <2>1, <2>2, <3>1, <3>3
  <2>4. j < k \/ (j = k /\ i < l)
    <3>1. ~(k < j)
      BY <1>2, <1>7, <2>1, <2>2, <2>3
    <3>2. j = k => b = d
      BY <2>1, <2>2
    <3>3. b = d => ~(b < d)
      BY <2>1, <2>3
    <3> QED
      BY <1>7, <2>3, <3>1, <3>2, <3>3
  <2>5. PlaceIn(j, i) < PlaceIn(k, l)
    BY <2>3, <2>4, PlacesOrdered
  <2>6. pcm[PlaceIn(j, i)] < pcm[PlaceIn(k, l)]
    BY <1>3, <2>5
  <2>7. e[b].samples[i] = pcm[PlaceIn(j, i)] /\ e[d].samples[l] = pcm[PlaceIn(k, l)]
    BY <1>1, <1>2, <2>1, <2>2
  <2> QED
    BY <2>6, <2>7
<1>8. Sound(e, have)
  BY <1>2, <1>5, <1>6, <1>7 DEF Sound
<1>9. SamplesOf(e) = {pcm[k] : k \in 1 .. (FrameSize * n)}
  <2>1. ASSUME NEW x \in SamplesOf(e)
        PROVE  \E k \in 1 .. (FrameSize * n) : x = pcm[k]
    <3>1. PICK b \in Lengths(e), i \in 1 .. FrameSize : x = e[b].samples[i]
      BY <1>2, <1>5, SampleFound
    <3>2. PICK j \in 1 .. n : b = starts[j]
      BY <1>2
    <3>3. x = pcm[PlaceIn(j, i)]
      BY <1>1, <1>2, <3>1, <3>2
    <3> QED
      BY <1>3, <3>3
  <2>2. ASSUME NEW k \in 1 .. (FrameSize * n)
        PROVE  pcm[k] \in SamplesOf(e)
    <3>1. PICK j \in 1 .. n, i \in 1 .. FrameSize : k = PlaceIn(j, i)
      BY <1>1, PlaceFound
    <3>2. starts[j] \in Lengths(e) /\ e[starts[j]].samples[i] = pcm[k]
      BY <1>1, <1>2, <3>1
    <3> QED
      BY <1>2, <1>5, <3>2, SampleFound
  <2> QED
    BY <2>1, <2>2
<1> QED
  BY <1>8, <1>9 DEF n

-----------------------------------------------------------------------------
(* The inductive invariant.                                                *)

Types ==
    /\ carry \in Seq(Nat) /\ fed \in Nat /\ fragment \in Nat /\ started \in Nat
    /\ open \subseteq 1 .. Requests
    /\ put \in [1 .. Requests -> SUBSET Nat]
    /\ fragments \in [1 .. Requests -> Seq(Seq(PacketBytes))]
    /\ lost \subseteq 1 .. fed /\ odd \subseteq 1 .. fed
    /\ failed \in BOOLEAN /\ stopped \in BOOLEAN

\* What waits in the encoder is less than a frame, and in order.
CarryInOrder ==
    /\ Len(carry) < FrameSize
    /\ \A k \in 1 .. Len(carry) : carry[k] \in 1 .. fed
    /\ \A k, l \in 1 .. Len(carry) : k < l => carry[k] < carry[l]

\* What was heard, in any request, was put before what waits.
HeardBefore ==
    \A r \in 1 .. Requests : \A x \in Heard(r) :
        x \in 1 .. fed /\ \A k \in 1 .. Len(carry) : x < carry[k]

IInv ==
    /\ Types /\ CarryInOrder /\ HeardBefore
    /\ \A r \in 1 .. Requests : Sound(Bytes(r), put[r])
    /\ EverySampleOnce

\* The frames are in order if every request is sound.
LEMMA SoundInOrder ==
    ASSUME \A r \in 1 .. Requests : Sound(Bytes(r), put[r])
    PROVE  FramesInOrder
BY DEF Sound, FramesInOrder

\* No fragments, no bytes.
LEMMA JoinedNothing == Joined(<<>>) = <<>>
<1>1. <<>> \in Seq(Seq(PacketBytes)) /\ Len(<<>>) = 0
  OBVIOUS
<1>2. PICK join : Joins(join, <<>>, Len(<<>>), PacketBytes) /\ Joined(<<>>) = join[Len(<<>>)]
  BY <1>1, JoinedLemma
<1> QED
  BY <1>1, <1>2 DEF Joins

\* The initial state satisfies the invariant.
LEMMA InitInvariant ==
    ASSUME Init
    PROVE  IInv
<1>1. /\ carry = <<>> /\ fed = 0 /\ open = {} /\ started = 0 /\ fragment \in Nat
      /\ put = [r \in 1 .. Requests |-> {}]
      /\ fragments = [r \in 1 .. Requests |-> <<>>]
      /\ lost = {} /\ odd = {} /\ failed = FALSE /\ stopped = FALSE
  BY Constants DEF Init
<1>2. Types
  <2>1. <<>> \in Seq(Seq(PacketBytes)) /\ <<>> \in Seq(Nat)
    OBVIOUS
  <2>2. fragments \in [1 .. Requests -> Seq(Seq(PacketBytes))]
    BY <1>1, <2>1
  <2>3. put \in [1 .. Requests -> SUBSET Nat]
    BY <1>1
  <2> QED
    BY <1>1, <2>1, <2>2, <2>3 DEF Types
<1>3. CarryInOrder
  BY <1>1, Constants DEF CarryInOrder
<1>4. ASSUME NEW r \in 1 .. Requests
      PROVE  Bytes(r) = <<>> /\ Heard(r) = {} /\ Sound(Bytes(r), put[r])
  <2>1. fragments[r] = <<>>
    BY <1>1
  <2>2. Bytes(r) = <<>>
    BY <2>1, JoinedNothing DEF Bytes
  <2>3. Lengths(<<>>) = {} /\ <<>> \in Seq(PacketBytes)
    BY DEF Lengths
  <2>4. Heard(r) = {}
    BY <2>2, <2>3 DEF Heard
  <2>5. PacketsFollow(<<>>)
    BY <2>3 DEF PacketsFollow
  <2>6. Sound(<<>>, put[r])
    BY <2>3, <2>5 DEF Sound
  <2> QED
    BY <2>2, <2>4, <2>6
<1>5. HeardBefore
  BY <1>4 DEF HeardBefore
<1>6. EverySampleOnce
  <2>1. ToSet(carry) = {} /\ IsInjective(carry)
    BY <1>1 DEF ToSet, IsInjective
  <2>2. 1 .. fed = {}
    BY <1>1
  <2>3. Accounted = {}
    BY <1>1, <1>4, <2>1 DEF Accounted
  <2> QED
    BY <1>1, <1>4, <2>1, <2>2, <2>3 DEF EverySampleOnce, BytesOf
<1> QED
  BY <1>2, <1>3, <1>4, <1>5, <1>6 DEF IInv

\* What the next state says of the bytes, when these stay.
LEMMA SameBytes ==
    ASSUME UNCHANGED fragments
    PROVE  /\ \A r \in 1 .. Requests : Bytes(r)' = Bytes(r)
           /\ \A r \in 1 .. Requests : Heard(r)' = Heard(r)
<1>1. \A r \in 1 .. Requests : Bytes(r)' = Bytes(r)
  BY DEF Bytes
<1> QED
  BY <1>1 DEF Heard

\* Nor do the properties change when the voice does not.
LEMMA SameVoice ==
    ASSUME IInv, Types', UNCHANGED <<carry, fed, put, fragments, lost, odd, failed, stopped>>
    PROVE  IInv'
<1>1. /\ \A r \in 1 .. Requests : Bytes(r)' = Bytes(r)
      /\ \A r \in 1 .. Requests : Heard(r)' = Heard(r)
  BY SameBytes
<1>2. CarryInOrder'
  BY DEF IInv, CarryInOrder
<1>3. HeardBefore'
  BY <1>1 DEF IInv, HeardBefore
<1>4. \A r \in 1 .. Requests : Sound(Bytes(r), put[r])'
  BY <1>1 DEF IInv, Sound
<1>5. EverySampleOnce'
  <2>1. UNION {Heard(r)' : r \in 1 .. Requests} = UNION {Heard(r) : r \in 1 .. Requests}
    BY <1>1
  <2>2. Accounted' = Accounted
    BY <2>1 DEF Accounted
  <2> QED
    BY <1>1, <2>2 DEF IInv, EverySampleOnce, BytesOf
<1> QED
  BY <1>2, <1>3, <1>4, <1>5 DEF IInv

-----------------------------------------------------------------------------
(* The steps.                                                              *)

\* The samples of a call.
NewSamples(length) == {fed + 2 * i - 1 : i \in 1 .. length \div 2}

\* Halves, and the places of samples.
LEMMA Halves ==
    ASSUME NEW length \in Nat
    PROVE  /\ length \div 2 \in Nat
           /\ length % 2 = 0 => length = 2 * (length \div 2)
           /\ length % 2 # 0 => length = 2 * (length \div 2) + 1
OBVIOUS

\* The samples of a call after those that waited.
LEMMA PcmLemma ==
    ASSUME Types, CarryInOrder, NEW length \in Nat
    PROVE  LET pcm == carry \o Samples(length) IN
           /\ pcm \in Seq(Nat)
           /\ \A k \in 1 .. Len(pcm) : pcm[k] \in 1 .. (fed + length)
           /\ \A k \in 1 .. Len(carry) : pcm[k] = carry[k]
           /\ \A k \in 1 .. Len(pcm) : k > Len(carry) => pcm[k] \in (fed + 1) .. (fed + length)
           /\ \A k, l \in 1 .. Len(pcm) : k < l => pcm[k] < pcm[l]
           /\ ToSet(pcm) = ToSet(carry) \cup NewSamples(length)
<1> DEFINE new == Samples(length)
           pcm == carry \o new
<1>1. carry \in Seq(Nat) /\ Len(carry) \in Nat /\ fed \in Nat
  BY DEF Types
<1>h. PICK h \in Nat : h = length \div 2 /\ 2 * h <= length
  BY Halves
<1>2. /\ new \in Seq(Nat) /\ Len(new) = h
      /\ \A i \in 1 .. h : new[i] = fed + 2 * i - 1
  <2>1. new = [i \in 1 .. h |-> fed + 2 * i - 1]
    BY <1>h DEF Samples
  <2>2. \A i \in 1 .. h : fed + 2 * i - 1 \in Nat
    BY <1>1
  <2>3. new \in [1 .. h -> Nat]
    BY <2>1, <2>2
  <2> HIDE DEF new
  <2> QED
    BY <2>1, <2>3
<1>n. NewSamples(length) = {fed + 2 * i - 1 : i \in 1 .. h}
  BY <1>h DEF NewSamples
<1> HIDE DEF new
<1>3. /\ pcm \in Seq(Nat) /\ Len(pcm) = Len(carry) + h /\ DOMAIN pcm = 1 .. Len(pcm)
      /\ \A k \in 1 .. Len(carry) : pcm[k] = carry[k]
      /\ \A k \in 1 .. h : pcm[Len(carry) + k] = new[k]
  <2>1. PICK p, q : p = carry /\ q = new
    OBVIOUS
  <2>2. p \in Seq(Nat) /\ q \in Seq(Nat) /\ Len(p) \in Nat /\ Len(q) = h
    BY <1>1, <1>2, <2>1
  <2>3. p \o q \in Seq(Nat) /\ Len(p \o q) = Len(p) + Len(q)
    BY <2>2
  <2>4. DOMAIN (p \o q) = 1 .. Len(p \o q)
    BY <2>3
  <2>5. \A k \in 1 .. Len(p) : (p \o q)[k] = p[k]
    BY <2>2
  <2>6. \A k \in 1 .. Len(q) : (p \o q)[Len(p) + k] = q[k]
    BY <2>2
  <2> QED
    BY <2>1, <2>2, <2>3, <2>4, <2>5, <2>6
<1> HIDE DEF pcm
<1>4. ASSUME NEW k \in 1 .. Len(pcm), ~(k <= Len(carry))
      PROVE  /\ k - Len(carry) \in 1 .. h
             /\ pcm[k] = fed + 2 * (k - Len(carry)) - 1
  <2>1. k - Len(carry) \in 1 .. h /\ Len(carry) + (k - Len(carry)) = k
    BY <1>1, <1>3, <1>4
  <2> QED
    BY <1>2, <1>3, <2>1
<1>5. ASSUME NEW k \in 1 .. Len(pcm), k <= Len(carry)
      PROVE  k \in 1 .. Len(carry) /\ pcm[k] = carry[k] /\ carry[k] \in 1 .. fed
  <2>1. k \in 1 .. Len(carry)
    BY <1>1, <1>3, <1>5
  <2> QED
    BY <1>3, <2>1 DEF CarryInOrder
<1>6. ASSUME NEW k \in 1 .. Len(pcm)
      PROVE  pcm[k] \in 1 .. (fed + length)
  BY <1>1, <1>4, <1>5, <1>h
<1>7. ASSUME NEW k \in 1 .. Len(pcm), k > Len(carry)
      PROVE  pcm[k] \in (fed + 1) .. (fed + length)
  <2>1. ~(k <= Len(carry))
    BY <1>1, <1>7
  <2> QED
    BY <1>1, <1>4, <1>h, <2>1
<1>8. ASSUME NEW k \in 1 .. Len(pcm), NEW l \in 1 .. Len(pcm), k < l
      PROVE  pcm[k] < pcm[l]
  <2>1. CASE k <= Len(carry) /\ l <= Len(carry)
    <3>1. carry[k] < carry[l]
      BY <1>5, <1>8, <2>1 DEF CarryInOrder
    <3> QED
      BY <1>5, <2>1, <3>1
  <2>2. CASE k <= Len(carry) /\ ~(l <= Len(carry))
    BY <1>1, <1>4, <1>5, <2>2
  <2>3. CASE ~(k <= Len(carry)) /\ ~(l <= Len(carry))
    BY <1>1, <1>4, <1>8, <2>3
  <2>4. CASE ~(k <= Len(carry)) /\ l <= Len(carry)
    BY <1>1, <1>3, <1>8, <2>4
  <2> QED
    BY <2>1, <2>2, <2>3, <2>4
<1>9. ToSet(pcm) = ToSet(carry) \cup NewSamples(length)
  <2>1. /\ ToSet(pcm) = {pcm[k] : k \in 1 .. Len(pcm)}
        /\ ToSet(carry) = {carry[k] : k \in 1 .. Len(carry)}
    BY <1>1, <1>3 DEF ToSet
  <2>2. ASSUME NEW x \in ToSet(pcm)
        PROVE  x \in ToSet(carry) \cup NewSamples(length)
    <3>1. PICK k \in 1 .. Len(pcm) : x = pcm[k]
      BY <2>1
    <3>2. CASE k <= Len(carry)
      BY <1>5, <2>1, <3>1, <3>2
    <3>3. CASE ~(k <= Len(carry))
      BY <1>4, <1>n, <3>1, <3>3
    <3> QED
      BY <3>2, <3>3
  <2>3. ASSUME NEW x \in ToSet(carry)
        PROVE  x \in ToSet(pcm)
    <3>1. PICK k \in 1 .. Len(carry) : x = carry[k]
      BY <2>1
    <3>2. k \in 1 .. Len(pcm)
      BY <1>1, <1>3
    <3> QED
      BY <1>3, <2>1, <3>1, <3>2
  <2>4. ASSUME NEW x \in NewSamples(length)
        PROVE  x \in ToSet(pcm)
    <3>1. PICK i \in 1 .. h : x = fed + 2 * i - 1
      BY <1>n
    <3>2. Len(carry) + i \in 1 .. Len(pcm)
      BY <1>1, <1>3
    <3>3. pcm[Len(carry) + i] = x
      BY <1>2, <1>3, <3>1
    <3> QED
      BY <2>1, <3>2, <3>3
  <2> QED
    BY <2>2, <2>3, <2>4
<1> QED
  BY <1>3, <1>6, <1>7, <1>8, <1>9 DEF pcm, new

\* Samples in order: what is encoded of them, and what is left.
PartsOf(pcm, whole, rest) ==
    /\ ToSet(pcm) = whole \cup ToSet(rest) /\ whole \cap ToSet(rest) = {}
    /\ \A x \in whole, i \in 1 .. Len(rest) : x < rest[i]
    /\ \A i \in 1 .. Len(rest) : \E k \in 1 .. Len(pcm) : rest[i] = pcm[k]
    /\ Len(rest) < FrameSize /\ IsInjective(rest)
    /\ \A i, j \in 1 .. Len(rest) : i < j => rest[i] < rest[j]

\* The whole frames and the rest part the samples.
LEMMA Parted ==
    ASSUME NEW pcm \in Seq(Nat),
           \A k, l \in 1 .. Len(pcm) : k < l => pcm[k] < pcm[l]
    PROVE  PartsOf(pcm, {pcm[k] : k \in 1 .. (FrameSize * Frames(pcm))}, Rest(pcm))
<1> DEFINE rest == Rest(pcm)
<1>0. Len(pcm) \in Nat /\ DOMAIN pcm = 1 .. Len(pcm) /\ FrameSize \in Nat
  BY Constants
<1>1. PICK w : w = FrameSize * Frames(pcm)
  OBVIOUS
<1>2. /\ w \in 0 .. Len(pcm) /\ Len(pcm) < w + FrameSize
      /\ rest \in Seq(Nat) /\ Len(rest) = Len(pcm) - w
      /\ \A i \in 1 .. (Len(pcm) - w) : rest[i] = pcm[w + i]
  BY <1>1, FrameLemma
<1>3. DOMAIN rest = 1 .. Len(rest) /\ \A i \in 1 .. Len(rest) : rest[i] \in Nat
  BY <1>2
<1> HIDE DEF rest
<1>4. ASSUME NEW i \in 1 .. Len(rest)
      PROVE  rest[i] = pcm[w + i] /\ w + i \in 1 .. Len(pcm)
  BY <1>0, <1>2
<1>5. ASSUME NEW k \in 1 .. w
      PROVE  k \in 1 .. Len(pcm)
  BY <1>0, <1>2
<1>6. ASSUME NEW k \in 1 .. w, NEW i \in 1 .. Len(rest)
      PROVE  pcm[k] < rest[i]
  <2>1. k < w + i
    BY <1>0, <1>2
  <2> QED
    BY <1>4, <1>5, <2>1
<1>7. ASSUME NEW i \in 1 .. Len(rest), NEW j \in 1 .. Len(rest), i < j
      PROVE  rest[i] < rest[j]
  <2>1. w + i < w + j
    BY <1>0, <1>2, <1>7
  <2> QED
    BY <1>4, <2>1
<1> DEFINE whole == {pcm[k] : k \in 1 .. w}
<1>8. /\ ToSet(rest) = {rest[i] : i \in 1 .. Len(rest)}
      /\ ToSet(pcm) = {pcm[k] : k \in 1 .. Len(pcm)}
  BY <1>0, <1>3 DEF ToSet
<1>9. ToSet(pcm) = whole \cup ToSet(rest)
  <2>1. ASSUME NEW k \in 1 .. Len(pcm), k \notin 1 .. w
        PROVE  pcm[k] \in ToSet(rest)
    <3>1. k - w \in 1 .. Len(rest) /\ w + (k - w) = k
      BY <1>0, <1>2, <2>1
    <3>2. pcm[k] = rest[k - w]
      BY <1>4, <3>1
    <3> QED
      BY <1>8, <3>1, <3>2
  <2>2. ToSet(pcm) \subseteq whole \cup ToSet(rest)
    BY <1>8, <2>1
  <2>3. whole \subseteq ToSet(pcm)
    BY <1>5, <1>8
  <2>4. ToSet(rest) \subseteq ToSet(pcm)
    BY <1>4, <1>8
  <2> QED
    BY <2>2, <2>3, <2>4
<1>10. whole \cap ToSet(rest) = {}
  <2>1. ASSUME NEW k \in 1 .. w, NEW i \in 1 .. Len(rest)
        PROVE  pcm[k] # rest[i]
    <3>1. pcm[k] < rest[i] /\ rest[i] \in Nat /\ pcm[k] \in Nat
      BY <1>3, <1>5, <1>6
    <3> QED
      BY <3>1
  <2> QED
    BY <1>8, <2>1
<1>11. IsInjective(rest)
  <2>1. ASSUME NEW i \in 1 .. Len(rest), NEW j \in 1 .. Len(rest), rest[i] = rest[j]
        PROVE  i = j
    <3>1. ~(i < j) /\ ~(j < i)
      BY <1>3, <1>7, <2>1
    <3> QED
      BY <3>1
  <2> QED
    BY <1>3, <2>1 DEF IsInjective
<1>12. Len(rest) < FrameSize
  BY <1>0, <1>2
<1> QED
  <2>1. /\ \A x \in whole, i \in 1 .. Len(rest) : x < rest[i]
        /\ \A i \in 1 .. Len(rest) : \E k \in 1 .. Len(pcm) : rest[i] = pcm[k]
    BY <1>4, <1>6
  <2> HIDE DEF whole
  <2>2. PartsOf(pcm, whole, rest)
    BY <1>7, <1>9, <1>10, <1>11, <1>12, <2>1 DEF PartsOf
  <2> QED
    BY <1>1, <2>2 DEF rest, whole

\* The bytes of a call are in its samples, but for the last of an odd length.
LEMMA BytesGrow ==
    ASSUME fed \in Nat, odd \subseteq 1 .. fed, NEW length \in Nat, NEW A,
           BytesOf(A) = (1 .. fed) \ odd, \A x \in A : x + 1 \notin A
    PROVE  /\ BytesOf(A \cup NewSamples(length))
                = (1 .. (fed + length)) \ (odd \cup OddByte(length))
           /\ \A x \in A \cup NewSamples(length) : x + 1 \notin A \cup NewSamples(length)
<1> DEFINE N == NewSamples(length)
<1>1. PICK h \in Nat : h = length \div 2
  BY Halves
<1>2. (length % 2 = 0 /\ length = 2 * h) \/ (length % 2 # 0 /\ length = 2 * h + 1)
  BY <1>1, Halves
<1>3. \A x : x \in N <=> \E i \in 1 .. h : x = fed + 2 * i - 1
  BY <1>1 DEF NewSamples
<1>4. \A x : x \in BytesOf(A) <=> x \in 1 .. fed /\ x \notin odd
  OBVIOUS
<1>5. \A x \in A : x \in 1 .. fed /\ x + 1 \in 1 .. fed
  BY <1>4 DEF BytesOf
<1> HIDE DEF N
<1>6. ASSUME NEW y \in BytesOf(N)
      PROVE  y \in (fed + 1) .. (fed + 2 * h)
  <2>1. PICK x \in N : y = x \/ y = x + 1
    BY DEF BytesOf
  <2>2. PICK i \in 1 .. h : x = fed + 2 * i - 1
    BY <1>3, <2>1
  <2> QED
    BY <2>1, <2>2
<1>7. ASSUME NEW y \in (fed + 1) .. (fed + 2 * h)
      PROVE  y \in BytesOf(N)
  <2>1. PICK d \in Nat : y = fed + 1 + d /\ d < 2 * h
    <3>1. y - fed - 1 \in Nat /\ y = fed + 1 + (y - fed - 1) /\ y - fed - 1 < 2 * h
      OBVIOUS
    <3> QED
      BY <3>1
  <2>2. PICK k \in Nat : d = 2 * k \/ d = 2 * k + 1
    BY Halves
  <2>3. k + 1 \in 1 .. h
    BY <2>1, <2>2
  <2>4. fed + 2 * (k + 1) - 1 \in N
    BY <1>3, <2>3
  <2>5. y = fed + 2 * (k + 1) - 1 \/ y = (fed + 2 * (k + 1) - 1) + 1
    BY <2>1, <2>2
  <2> QED
    BY <2>4, <2>5 DEF BytesOf
<1>8. BytesOf(A \cup N) = BytesOf(A) \cup BytesOf(N)
  BY DEF BytesOf
<1>9. OddByte(length) = IF length = 2 * h THEN {} ELSE {fed + 2 * h + 1}
  BY <1>2 DEF OddByte
<1>10. ASSUME NEW y
       PROVE  y \in BytesOf(A \cup N)
                <=> y \in 1 .. (fed + length) /\ y \notin odd \cup OddByte(length)
  <2>1. y \in BytesOf(A \cup N) <=> (y \in 1 .. fed /\ y \notin odd)
                                   \/ y \in (fed + 1) .. (fed + 2 * h)
    BY <1>4, <1>6, <1>7, <1>8
  <2>2. CASE length = 2 * h
    BY <1>9, <2>1, <2>2
  <2>3. CASE length # 2 * h
    <3>1. length = 2 * h + 1
      BY <1>2, <2>3
    <3> QED
      BY <1>9, <2>1, <2>3, <3>1
  <2> QED
    BY <2>2, <2>3
<1>11. ASSUME NEW x \in A \cup N, x + 1 \in A \cup N
       PROVE  FALSE
  <2>1. CASE x \in A /\ x + 1 \in N
    BY <1>3, <1>5, <2>1
  <2>2. CASE x \in N /\ x + 1 \in A
    BY <1>3, <1>5, <2>2
  <2>3. CASE x \in N /\ x + 1 \in N
    <3>1. PICK i \in 1 .. h : x = fed + 2 * i - 1
      BY <1>3, <2>3
    <3>2. PICK k \in 1 .. h : x + 1 = fed + 2 * k - 1
      BY <1>3, <2>3
    <3> QED
      BY <3>1, <3>2
  <2> QED
    BY <1>11, <2>1, <2>2, <2>3
<1> QED
  BY <1>10, <1>11 DEF N

\* The samples of a call are made of its bytes.
LEMMA NewSamplesLemma ==
    ASSUME fed \in Nat, NEW length \in Nat
    PROVE  NewSamples(length) \subseteq (fed + 1) .. (fed + length)
<1>1. PICK h \in Nat : h = length \div 2 /\ 2 * h <= length
  BY Halves
<1> QED
  BY <1>1 DEF NewSamples

\* The last byte of an odd length is one of the bytes put.
LEMMA OddIsPut ==
    ASSUME Types, NEW length \in Nat
    PROVE  odd \cup OddByte(length) \subseteq 1 .. (fed + length)
<1>1. fed \in Nat /\ odd \subseteq 1 .. fed
  BY DEF Types
<1>2. ASSUME NEW x \in OddByte(length)
      PROVE  x \in 1 .. (fed + length)
  <2>1. length % 2 # 0 /\ x = fed + length
    BY DEF OddByte
  <2>2. length # 0
    BY <2>1
  <2> QED
    BY <1>1, <2>1, <2>2
<1>3. ASSUME NEW x \in odd
      PROVE  x \in 1 .. (fed + length)
  BY <1>1
<1> QED
  BY <1>2, <1>3

\* A call that is encoded: its frames are after all others, the rest waits.
LEMMA PutVoiceStep ==
    ASSUME IInv, NEW r \in 1 .. Requests, NEW length \in 1 .. MaxLength, PutVoice(r, length)
    PROVE  IInv'
<1> DEFINE pcm == carry \o Samples(length)
           n == Frames(pcm)
           whole == {pcm[k] : k \in 1 .. (FrameSize * n)}
           bytes == (fed + 1) .. (fed + length)
           more == NewSamples(length)
<1>0. /\ Types /\ CarryInOrder /\ HeardBefore /\ EverySampleOnce
      /\ \A q \in 1 .. Requests : Sound(Bytes(q), put[q])
      /\ length \in Nat /\ Requests \in Nat
  BY VoiceAssumption DEF IInv
<1>1. /\ fed' = fed + length
      /\ put' = [put EXCEPT ![r] = @ \cup bytes]
      /\ odd' = odd \cup OddByte(length)
      /\ carry' = Rest(pcm)
      /\ fragment # 0 \/ n = 0
      /\ \E size \in EncSizes(n) :
            fragments' = IF r \notin open \/ n = 0 THEN fragments
                         ELSE [fragments EXCEPT ![r] = @ \o Cut(Encoded(pcm, size))]
      /\ lost' = IF r \in open THEN lost ELSE lost \cup (ToSet(pcm) \ ToSet(carry'))
      /\ UNCHANGED <<fragment, open, started, failed, stopped>>
  <2>1. Feed(r, length)
    BY DEF PutVoice
  <2> QED
    BY <2>1 DEF PutVoice, Feed
<1>2. /\ pcm \in Seq(Nat)
      /\ \A k \in 1 .. Len(pcm) : pcm[k] \in 1 .. (fed + length)
      /\ \A k \in 1 .. Len(carry) : pcm[k] = carry[k]
      /\ \A k \in 1 .. Len(pcm) : k > Len(carry) => pcm[k] \in bytes
      /\ \A k, l \in 1 .. Len(pcm) : k < l => pcm[k] < pcm[l]
      /\ ToSet(pcm) = ToSet(carry) \cup more
      /\ more \subseteq bytes
  BY <1>0, PcmLemma, NewSamplesLemma DEF Types
<1> HIDE DEF pcm, more, bytes
<1>3. /\ ToSet(pcm) = whole \cup ToSet(carry') /\ whole \cap ToSet(carry') = {}
      /\ \A x \in whole, i \in 1 .. Len(carry') : x < carry'[i]
      /\ \A i \in 1 .. Len(carry') : \E k \in 1 .. Len(pcm) : carry'[i] = pcm[k]
      /\ Len(carry') < FrameSize /\ IsInjective(carry')
      /\ \A i, j \in 1 .. Len(carry') : i < j => carry'[i] < carry'[j]
  <2>1. PartsOf(pcm, whole, Rest(pcm))
    BY <1>2, Parted, Zenon
  <2> HIDE DEF whole
  <2>2. PartsOf(pcm, whole, carry')
    BY <1>1, <2>1
  <2> QED
    BY <2>2 DEF PartsOf
<1>4. carry' \in Seq(Nat) /\ n \in Nat
  BY <1>1, <1>2, FrameLemma
<1>5. PICK size \in EncSizes(n) :
            fragments' = IF r \notin open \/ n = 0 THEN fragments
                         ELSE [fragments EXCEPT ![r] = @ \o Cut(Encoded(pcm, size))]
  BY <1>1
<1> DEFINE e == Encoded(pcm, size)
<1>6. PICK starts : HoldsFrames(e, pcm, starts)
  BY <1>2, EncodedLemma
<1> HIDE DEF e
<1>7. /\ \A q \in 1 .. Requests : put[q] \subseteq put'[q]
      /\ bytes \subseteq put'[r]
  BY <1>0, <1>1 DEF Types
<1>8. Sound(e, put'[r]) /\ SamplesOf(e) = whole
  <2>1. Len(carry) \in Nat /\ Len(carry) < FrameSize
    BY <1>0 DEF Types, CarryInOrder
  <2>2. \A k \in 1 .. Len(pcm) : k > Len(carry) => pcm[k] \in put'[r]
    BY <1>2, <1>7
  <2> QED
    BY <1>2, <1>6, <2>1, <2>2, EncodedSound
<1>z. /\ n = 0 => whole = {}
      /\ n # 0 => fragment \in Nat \ {0}
  BY <1>0, <1>1, Constants DEF Types
<1> HIDE DEF n, whole
<1>9. ASSUME NEW q \in 1 .. Requests, NEW x \in Heard(q), NEW y \in ToSet(pcm)
      PROVE  x < y
  <2>1. x \in 1 .. fed /\ \A k \in 1 .. Len(carry) : x < carry[k]
    BY <1>0 DEF HeardBefore
  <2>2. carry \in Seq(Nat) /\ fed \in Nat
    BY <1>0 DEF Types
  <2>3. CASE y \in ToSet(carry)
    BY <2>1, <2>2, <2>3 DEF ToSet
  <2>4. CASE y \in more
    BY <1>2, <2>1, <2>2, <2>4 DEF bytes
  <2> QED
    BY <1>2, <2>3, <2>4
<1>10. /\ fragments \in [1 .. Requests -> Seq(Seq(PacketBytes))]
       /\ e \in Seq(PacketBytes)
  BY <1>0, <1>8 DEF Types, Sound
<1>11. fragments' \in [1 .. Requests -> Seq(Seq(PacketBytes))]
  <2>1. CASE n = 0
    BY <1>5, <1>10, <2>1
  <2>2. CASE n # 0
    <3>1. fragments[r] \o Cut(e) \in Seq(Seq(PacketBytes))
      BY <1>10, <1>z, <2>2, JoinedCut
    <3> QED
      BY <1>5, <1>10, <2>2, <3>1 DEF e
  <2> QED
    BY <2>1, <2>2
\* What each request holds now.
<1>12. ASSUME NEW q \in 1 .. Requests
       PROVE  /\ Sound(Bytes(q)', put'[q])
              /\ Heard(q)' = IF q = r /\ r \in open THEN Heard(q) \cup whole ELSE Heard(q)
  <2>1. Sound(Bytes(q), put'[q])
    <3>1. Sound(Bytes(q), put[q]) /\ put[q] \subseteq put'[q]
      BY <1>0, <1>7
    <3> QED
      BY <3>1 DEF Sound
  <2>2. /\ Heard(q) = SamplesOf(Bytes(q))
        /\ Heard(q)' = SamplesOf(Bytes(q)')
    BY DEF Heard, SamplesOf
  <2>3. CASE q = r /\ r \in open /\ n # 0
    <3>1. fragments'[q] = fragments[q] \o Cut(e)
      BY <1>5, <1>10, <2>3 DEF e
    <3>2. Bytes(q)' = Bytes(q) \o e
      <4>1. Bytes(q)' = Joined(fragments'[q]) /\ Bytes(q) = Joined(fragments[q])
        BY DEF Bytes
      <4>2. Joined(fragments[q] \o Cut(e)) = Joined(fragments[q]) \o e
        <5>1. PICK fs : fs = fragments[q]
          OBVIOUS
        <5>2. fs \in Seq(Seq(PacketBytes)) /\ fragment \in Nat \ {0}
          BY <1>10, <1>z, <2>3, <5>1
        <5>3. Joined(fs \o Cut(e)) = Joined(fs) \o e
          BY <1>10, <5>2, JoinedCut
        <5> QED
          BY <5>1, <5>3
      <4> QED
        BY <3>1, <4>1, <4>2
    <3>3. \A x \in SamplesOf(Bytes(q)), y \in SamplesOf(e) : x < y
      BY <1>3, <1>8, <1>9, <2>2
    <3>4. /\ Sound(Bytes(q) \o e, put'[q])
          /\ SamplesOf(Bytes(q) \o e) = SamplesOf(Bytes(q)) \cup SamplesOf(e)
      BY <1>8, <2>1, <2>3, <3>3, AppendSound
    <3> QED
      BY <1>8, <2>2, <2>3, <3>2, <3>4
  <2>4. CASE ~(q = r /\ r \in open /\ n # 0)
    <3>1. fragments'[q] = fragments[q]
      BY <1>5, <1>10, <2>4
    <3>2. Bytes(q)' = Bytes(q)
      BY <3>1 DEF Bytes
    <3> QED
      BY <1>z, <2>1, <2>2, <2>4, <3>2
  <2> QED
    BY <2>3, <2>4
<1>13. fed \in Nat /\ fed' \in Nat /\ fed <= fed' /\ lost \subseteq 1 .. fed
  BY <1>0, <1>1 DEF Types
<1>14. ToSet(pcm) \subseteq 1 .. fed'
  <2>1. DOMAIN pcm = 1 .. Len(pcm)
    BY <1>2
  <2> QED
    BY <1>1, <1>2, <2>1 DEF ToSet
<1>15. Types'
  <2>1. put' \in [1 .. Requests -> SUBSET Nat]
    <3>1. bytes \subseteq Nat /\ put \in [1 .. Requests -> SUBSET Nat]
      BY <1>0, <1>13 DEF Types, bytes
    <3> QED
      BY <1>1, <3>1
  <2>2. 1 .. fed \subseteq 1 .. fed'
    BY <1>13
  <2>3. lost' \subseteq 1 .. fed'
    BY <1>1, <1>13, <1>14, <2>2
  <2>4. odd' \subseteq 1 .. fed'
    BY <1>0, <1>1, OddIsPut
  <2> QED
    BY <1>0, <1>1, <1>4, <1>11, <1>13, <2>1, <2>3, <2>4 DEF Types
<1>16. CarryInOrder'
  <2>1. \A i \in 1 .. Len(carry') : carry'[i] \in 1 .. fed'
    BY <1>1, <1>2, <1>3
  <2> QED
    BY <1>3, <2>1 DEF CarryInOrder
<1>17. \A i \in 1 .. Len(carry') : carry'[i] \in ToSet(carry')
  BY <1>4 DEF ToSet
<1>18. ASSUME NEW q \in 1 .. Requests, NEW x \in Heard(q)'
       PROVE  x \in 1 .. fed' /\ \A i \in 1 .. Len(carry') : x < carry'[i]
  <2>1. CASE x \in Heard(q)
    <3>1. x \in 1 .. fed
      BY <1>0, <2>1 DEF HeardBefore
    <3>2. x \in 1 .. fed'
      BY <1>13, <3>1
    <3>3. \A i \in 1 .. Len(carry') : x < carry'[i]
      BY <1>3, <1>9, <1>17, <2>1
    <3> QED
      BY <3>2, <3>3
  <2>2. CASE x \in whole
    BY <1>3, <1>14, <2>2
  <2> QED
    BY <1>12, <2>1, <2>2
<1>19. HeardBefore'
  BY <1>18 DEF HeardBefore
<1>20. EverySampleOnce'
  <2>1. SUFFICES ASSUME ~failed', ~stopped' PROVE EverySampleOnce'
    BY DEF EverySampleOnce
  <2>2. /\ BytesOf(Accounted) = (1 .. fed) \ odd
        /\ \A x \in Accounted : x + 1 \notin Accounted
        /\ \A q \in 1 .. Requests :
            /\ Heard(q) \cap (ToSet(carry) \cup lost) = {}
            /\ \A p \in 1 .. Requests : p # q => Heard(p) \cap Heard(q) = {}
        /\ ToSet(carry) \cap lost = {}
    <3>1. ~failed /\ ~stopped
      BY <1>1, <2>1
    <3> QED
      BY <1>0, <3>1 DEF EverySampleOnce
  <2>3. PICK c : c = ToSet(carry')
    OBVIOUS
  <2>4. /\ ToSet(pcm) = whole \cup c /\ whole \cap c = {}
        /\ ToSet(pcm) = ToSet(carry) \cup more
    BY <1>2, <1>3, <2>3
  <2>5. PICK u : u = UNION {Heard(q) : q \in 1 .. Requests}
    OBVIOUS
  <2>6. \A q \in 1 .. Requests : Heard(q) \cap ToSet(pcm) = {}
    <3>1. ASSUME NEW q \in 1 .. Requests, NEW x \in Heard(q), x \in ToSet(pcm)
          PROVE  FALSE
      <4>1. x < x
        BY <1>9, <3>1
      <4>2. x \in Nat
        BY <1>14, <3>1
      <4> QED
        BY <4>1, <4>2
    <3> QED
      BY <3>1
  <2>7. lost \cap more = {}
    <3>1. lost \cap bytes = {}
      BY <1>13 DEF bytes
    <3> QED
      BY <1>2, <3>1
  <2>8. lost \cap ToSet(pcm) = {}
    BY <2>2, <2>4, <2>7
  <2>9. lost' = IF r \in open THEN lost ELSE lost \cup whole
    BY <1>1, <2>3, <2>4
  <2>10. PICK h2 : h2 = [q \in 1 .. Requests |-> Heard(q)']
    OBVIOUS
  <2>11. ASSUME NEW q \in 1 .. Requests
         PROVE  h2[q] = IF q = r /\ r \in open THEN Heard(q) \cup whole ELSE Heard(q)
    BY <1>12, <2>10
  <2>12. PICK l : l = lost'
    OBVIOUS
  <2>13. l = IF r \in open THEN lost ELSE lost \cup whole
    BY <2>9, <2>12
  <2>14. PICK u2 : u2 = UNION {h2[q] : q \in 1 .. Requests}
    OBVIOUS
  <2>15. u2 \cup c \cup l = (u \cup ToSet(carry) \cup lost) \cup more
    <3>1. u2 = IF r \in open THEN u \cup whole ELSE u
      <4>1. \A x : x \in u2 <=> \E q \in 1 .. Requests : x \in h2[q]
        BY <2>14
      <4>2. \A x : x \in u <=> \E q \in 1 .. Requests : x \in Heard(q)
        BY <2>5
      <4>3. CASE r \in open
        BY <2>11, <4>1, <4>2, <4>3
      <4>4. CASE r \notin open
        BY <2>11, <4>1, <4>2, <4>4
      <4> QED
        BY <4>3, <4>4
    <3> QED
      BY <2>4, <2>13, <3>1
  <2>16. Accounted = u \cup ToSet(carry) \cup lost
    BY <2>5 DEF Accounted
  <2>17. BytesOf(u2 \cup c \cup l) = (1 .. fed') \ odd'
         /\ \A x \in u2 \cup c \cup l : x + 1 \notin u2 \cup c \cup l
    <3>1. PICK A : A = Accounted
      OBVIOUS
    <3>2. fed \in Nat /\ odd \subseteq 1 .. fed /\ u2 \cup c \cup l = A \cup more
      BY <1>0, <2>15, <2>16, <3>1 DEF Types
    <3>3. /\ BytesOf(A \cup more) = (1 .. (fed + length)) \ (odd \cup OddByte(length))
          /\ \A x \in A \cup more : x + 1 \notin A \cup more
      BY <1>0, <2>2, <3>1, <3>2, BytesGrow DEF more
    <3> QED
      BY <1>1, <3>2, <3>3
  <2>18. ASSUME NEW q \in 1 .. Requests
         PROVE  h2[q] \cap (c \cup l) = {}
    <3>1. Heard(q) \cap (c \cup l) = {}
      BY <2>2, <2>4, <2>6, <2>13
    <3>2. CASE q = r /\ r \in open
      BY <2>4, <2>8, <2>11, <2>13, <3>1, <3>2
    <3>3. CASE ~(q = r /\ r \in open)
      BY <2>11, <3>1, <3>3
    <3> QED
      BY <3>2, <3>3
  <2>19. ASSUME NEW p \in 1 .. Requests, NEW q \in 1 .. Requests, p # q
         PROVE  h2[p] \cap h2[q] = {}
    <3>1. /\ Heard(p) \cap Heard(q) = {}
          /\ Heard(p) \cap whole = {} /\ Heard(q) \cap whole = {}
      BY <2>2, <2>4, <2>6, <2>19
    <3> QED
      BY <2>11, <2>19, <3>1
  <2>20. c \cap l = {}
    BY <2>4, <2>8, <2>13
  <2>21. \A q \in 1 .. Requests : h2[q] = Heard(q)'
    BY <2>10
  <2>22. UNION {h2[q] : q \in 1 .. Requests} = UNION {Heard(q)' : q \in 1 .. Requests}
    BY <2>21, Zenon
  <2>23. Accounted' = u2 \cup c \cup l
    BY <2>3, <2>12, <2>14, <2>22 DEF Accounted
  <2>24. /\ \A q \in 1 .. Requests :
            /\ Heard(q)' \cap (ToSet(carry') \cup lost') = {}
            /\ \A p \in 1 .. Requests : p # q => Heard(p)' \cap Heard(q)' = {}
         /\ ToSet(carry') \cap lost' = {} /\ IsInjective(carry')
    BY <1>3, <2>3, <2>12, <2>18, <2>19, <2>20, <2>21
  <2>25. /\ BytesOf(Accounted)' = (1 .. fed') \ odd'
         /\ \A x \in Accounted' : x + 1 \notin Accounted'
    BY <2>17, <2>23 DEF BytesOf
  <2> QED
    BY <2>24, <2>25 DEF EverySampleOnce
<1>21. \A q \in 1 .. Requests : Sound(Bytes(q), put[q])'
  BY <1>12 DEF Sound
<1> QED
  BY <1>15, <1>16, <1>19, <1>20, <1>21 DEF IInv

\* The encoder failed: of the samples of the call nothing is heard.
LEMMA PutVoiceFailsStep ==
    ASSUME IInv, NEW r \in 1 .. Requests, NEW length \in 1 .. MaxLength,
           PutVoiceFails(r, length)
    PROVE  IInv'
<1>0. /\ Types /\ CarryInOrder /\ HeardBefore
      /\ \A q \in 1 .. Requests : Sound(Bytes(q), put[q])
      /\ length \in Nat
  BY VoiceAssumption DEF IInv
<1>1. /\ fed' = fed + length
      /\ put' = [put EXCEPT ![r] = @ \cup (fed + 1) .. (fed + length)]
      /\ odd' = odd \cup OddByte(length)
      /\ carry' = carry \/ carry' = <<>>
      /\ stopped' \in BOOLEAN /\ failed' = TRUE
      /\ UNCHANGED <<fragment, open, started, fragments, lost>>
  <2>1. Feed(r, length)
    BY DEF PutVoiceFails
  <2>2. (carry' = carry \/ carry' = <<>>) /\ stopped' \in BOOLEAN
    BY DEF PutVoiceFails
  <2> QED
    BY <2>1, <2>2 DEF PutVoiceFails, Feed
<1>2. fed \in Nat /\ fed' \in Nat /\ fed <= fed' /\ 1 .. fed \subseteq 1 .. fed'
  BY <1>0, <1>1 DEF Types
<1>3. Types'
  <2>1. put' \in [1 .. Requests -> SUBSET Nat]
    <3>1. (fed + 1) .. (fed + length) \subseteq Nat /\ put \in [1 .. Requests -> SUBSET Nat]
      BY <1>0, <1>2 DEF Types
    <3> QED
      BY <1>1, <3>1
  <2>2. carry' \in Seq(Nat)
    <3>1. <<>> \in Seq(Nat) /\ carry \in Seq(Nat)
      BY <1>0 DEF Types
    <3> QED
      BY <1>1, <3>1
  <2>3. lost' \subseteq 1 .. fed'
    BY <1>0, <1>1, <1>2 DEF Types
  <2>4. odd' \subseteq 1 .. fed'
    BY <1>0, <1>1, <1>2, OddIsPut
  <2> QED
    BY <1>0, <1>1, <1>2, <2>1, <2>2, <2>3, <2>4 DEF Types
<1>4. /\ \A q \in 1 .. Requests : Bytes(q)' = Bytes(q)
      /\ \A q \in 1 .. Requests : Heard(q)' = Heard(q)
  BY <1>1, SameBytes
<1>5. Len(carry') < FrameSize /\ \A k \in 1 .. Len(carry') : k \in 1 .. Len(carry) /\ carry'[k] = carry[k]
  BY <1>0, <1>1, Constants DEF CarryInOrder
<1>6. CarryInOrder'
  BY <1>0, <1>2, <1>5 DEF CarryInOrder
<1>7. HeardBefore'
  BY <1>0, <1>2, <1>4, <1>5 DEF HeardBefore
<1>8. ASSUME NEW q \in 1 .. Requests
      PROVE  Sound(Bytes(q)', put'[q])
  <2>1. put[q] \subseteq put'[q]
    BY <1>0, <1>1 DEF Types
  <2>2. Sound(Bytes(q), put[q])
    BY <1>0
  <2>3. Sound(Bytes(q), put'[q])
    BY <2>1, <2>2 DEF Sound
  <2> QED
    BY <1>4, <2>3
<1>9. EverySampleOnce'
  BY <1>1 DEF EverySampleOnce
<1>10. \A q \in 1 .. Requests : Sound(Bytes(q), put[q])'
  BY <1>8 DEF Sound
<1> QED
  BY <1>3, <1>6, <1>7, <1>9, <1>10 DEF IInv

\* put_voice() never ends: what it encoded is not heard, the rest waits.
LEMMA PutVoiceHangsStep ==
    ASSUME IInv, NEW r \in 1 .. Requests, NEW length \in 1 .. MaxLength,
           PutVoiceHangs(r, length)
    PROVE  IInv'
<1> DEFINE pcm == carry \o Samples(length)
           whole == {pcm[k] : k \in 1 .. (FrameSize * Frames(pcm))}
<1>0. /\ Types /\ CarryInOrder /\ HeardBefore
      /\ \A q \in 1 .. Requests : Sound(Bytes(q), put[q])
      /\ length \in Nat
  BY VoiceAssumption DEF IInv
<1>1. /\ fed' = fed + length
      /\ put' = [put EXCEPT ![r] = @ \cup (fed + 1) .. (fed + length)]
      /\ odd' = odd \cup OddByte(length)
      /\ carry' = Rest(pcm) /\ stopped' = TRUE
      /\ UNCHANGED <<fragment, open, started, fragments, lost, failed>>
  <2>1. Feed(r, length)
    BY DEF PutVoiceHangs
  <2> QED
    BY <2>1 DEF PutVoiceHangs, Feed
<1>2. fed \in Nat /\ fed' \in Nat /\ fed <= fed' /\ 1 .. fed \subseteq 1 .. fed'
  BY <1>0, <1>1 DEF Types
<1>3. /\ pcm \in Seq(Nat)
      /\ \A k \in 1 .. Len(pcm) : pcm[k] \in 1 .. fed'
      /\ \A k \in 1 .. Len(carry) : pcm[k] = carry[k]
      /\ \A k \in 1 .. Len(pcm) : k > Len(carry) => pcm[k] \in (fed + 1) .. (fed + length)
      /\ \A k, l \in 1 .. Len(pcm) : k < l => pcm[k] < pcm[l]
  BY <1>0, <1>1, PcmLemma
<1> HIDE DEF pcm
<1>4. /\ \A i \in 1 .. Len(carry') : \E k \in 1 .. Len(pcm) : carry'[i] = pcm[k]
      /\ Len(carry') < FrameSize
      /\ \A i, j \in 1 .. Len(carry') : i < j => carry'[i] < carry'[j]
  <2>1. PartsOf(pcm, whole, Rest(pcm))
    BY <1>3, Parted, Zenon
  <2> HIDE DEF whole
  <2>2. PartsOf(pcm, whole, carry')
    BY <1>1, <2>1
  <2> QED
    BY <2>2 DEF PartsOf
<1>5. carry' \in Seq(Nat)
  BY <1>1, <1>3, FrameLemma
<1>6. Types'
  <2>1. put' \in [1 .. Requests -> SUBSET Nat]
    <3>1. (fed + 1) .. (fed + length) \subseteq Nat /\ put \in [1 .. Requests -> SUBSET Nat]
      BY <1>0, <1>2 DEF Types
    <3> QED
      BY <1>1, <3>1
  <2>2. lost' \subseteq 1 .. fed' /\ odd' \subseteq 1 .. fed'
    BY <1>0, <1>1, <1>2, OddIsPut DEF Types
  <2> QED
    BY <1>0, <1>1, <1>2, <1>5, <2>1, <2>2 DEF Types
<1>7. /\ \A q \in 1 .. Requests : Bytes(q)' = Bytes(q)
      /\ \A q \in 1 .. Requests : Heard(q)' = Heard(q)
  BY <1>1, SameBytes
<1>8. CarryInOrder'
  BY <1>3, <1>4 DEF CarryInOrder
<1>9. ASSUME NEW q \in 1 .. Requests, NEW x \in Heard(q), NEW i \in 1 .. Len(carry')
      PROVE  x \in 1 .. fed /\ x < carry'[i]
  <2>1. PICK k \in 1 .. Len(pcm) : carry'[i] = pcm[k]
    BY <1>4
  <2>2. x \in 1 .. fed /\ \A m \in 1 .. Len(carry) : x < carry[m]
    BY <1>0 DEF HeardBefore
  <2>3. Len(carry) \in Nat /\ Len(pcm) \in Nat
    BY <1>0, <1>3 DEF Types
  <2>4. CASE k \in 1 .. Len(carry)
    BY <1>3, <2>1, <2>2, <2>4
  <2>5. CASE k > Len(carry)
    BY <1>2, <1>3, <2>1, <2>2, <2>5
  <2> QED
    BY <2>2, <2>3, <2>4, <2>5
<1>10. HeardBefore'
  BY <1>0, <1>2, <1>7, <1>9 DEF HeardBefore
<1>11. ASSUME NEW q \in 1 .. Requests
       PROVE  Sound(Bytes(q)', put'[q])
  <2>1. put[q] \subseteq put'[q]
    BY <1>0, <1>1 DEF Types
  <2>2. Sound(Bytes(q), put[q])
    BY <1>0
  <2>3. Sound(Bytes(q), put'[q])
    BY <2>1, <2>2 DEF Sound
  <2> QED
    BY <1>7, <2>3
<1>12. EverySampleOnce'
  BY <1>1 DEF EverySampleOnce
<1>13. \A q \in 1 .. Requests : Sound(Bytes(q), put[q])'
  BY <1>11 DEF Sound
<1> QED
  BY <1>6, <1>8, <1>10, <1>12, <1>13 DEF IInv

\* What waits in the encoder goes with it.
LEMMA ReopenStep ==
    ASSUME IInv, Reopen
    PROVE  IInv'
<1>1. /\ carry' = <<>> /\ open' = {} /\ lost' = lost \cup ToSet(carry)
      /\ UNCHANGED <<fragment, fed, started, put, fragments, odd, failed, stopped>>
  BY DEF Reopen
<1>2. Types /\ CarryInOrder
  BY DEF IInv
<1>3. ToSet(carry) \subseteq 1 .. fed /\ ToSet(carry') = {}
  BY <1>1, <1>2 DEF Types, CarryInOrder, ToSet
<1>4. Types'
  <2>1. carry' \in Seq(Nat)
    BY <1>1
  <2>2. lost' \subseteq 1 .. fed'
    BY <1>1, <1>2, <1>3 DEF Types
  <2> QED
    BY <1>1, <1>2, <2>1, <2>2 DEF Types
<1>5. /\ \A q \in 1 .. Requests : Bytes(q)' = Bytes(q)
      /\ \A q \in 1 .. Requests : Heard(q)' = Heard(q)
  BY <1>1, SameBytes
<1>6. CarryInOrder'
  BY <1>1, Constants DEF CarryInOrder
<1>7. HeardBefore'
  BY <1>1, <1>5 DEF IInv, HeardBefore
<1>8. \A q \in 1 .. Requests : Sound(Bytes(q), put[q])'
  BY <1>1, <1>5 DEF IInv, Sound
<1>9. EverySampleOnce'
  <2>1. SUFFICES ASSUME ~failed, ~stopped PROVE EverySampleOnce'
    BY <1>1 DEF EverySampleOnce
  <2>2. EverySampleOnce
    BY DEF IInv
  <2> DEFINE u == UNION {Heard(r) : r \in 1 .. Requests}
             u2 == UNION {Heard(r)' : r \in 1 .. Requests}
  <2>3. u = u2
    BY <1>5
  <2>4. Accounted = u \cup ToSet(carry) \cup lost /\ Accounted' = u2 \cup ToSet(carry') \cup lost'
    BY DEF Accounted
  <2> HIDE DEF u, u2
  <2>5. Accounted' = Accounted
    BY <1>1, <1>3, <2>3, <2>4
  <2>6. IsInjective(carry')
    BY <1>1 DEF IsInjective
  <2>7. \A q \in 1 .. Requests :
            /\ Heard(q)' \cap (ToSet(carry') \cup lost') = {}
            /\ \A p \in 1 .. Requests : p # q => Heard(p)' \cap Heard(q)' = {}
    <3>1. \A q \in 1 .. Requests :
            /\ Heard(q) \cap (ToSet(carry) \cup lost) = {}
            /\ \A p \in 1 .. Requests : p # q => Heard(p) \cap Heard(q) = {}
      BY <2>1, <2>2 DEF EverySampleOnce
    <3> QED
      BY <1>1, <1>3, <1>5, <3>1
  <2> QED
    BY <1>1, <1>3, <2>1, <2>2, <2>5, <2>6, <2>7 DEF EverySampleOnce, BytesOf
<1> QED
  BY <1>4, <1>6, <1>7, <1>8, <1>9 DEF IInv

-----------------------------------------------------------------------------
(* The theorems.                                                           *)

\* The inductive invariant holds in every reachable state.
THEOREM InvariantHolds == Spec => []IInv
<1>1. Init => IInv
  BY InitInvariant
<1>2. IInv /\ [Next]_vars => IInv'
  <2> SUFFICES ASSUME IInv, [Next]_vars
               PROVE  IInv'
    OBVIOUS
  <2>0. Types
    BY DEF IInv
  <2>1. CASE Start
    <3>1. Types'
      <4>1. started + 1 \in 1 .. Requests /\ started' = started + 1
        BY <2>0, <2>1, Constants DEF Start, Types
      <4>2. open' \subseteq 1 .. Requests
        BY <2>0, <2>1, <4>1 DEF Start, Types
      <4> QED
        BY <2>0, <2>1, <4>1, <4>2 DEF Start, Types
    <3> QED
      BY <2>1, <3>1, SameVoice DEF Start
  <2>2. ASSUME NEW r \in open, Close(r) PROVE IInv'
    <3>1. Types'
      BY <2>0, <2>2 DEF Close, Types
    <3> QED
      BY <2>2, <3>1, SameVoice DEF Close
  <2>3. ASSUME NEW r \in 1 .. Requests, NEW length \in 1 .. MaxLength, PutVoice(r, length)
        PROVE  IInv'
    BY <2>3, PutVoiceStep
  <2>4. ASSUME NEW r \in 1 .. Requests, NEW length \in 1 .. MaxLength, PutVoiceFails(r, length)
        PROVE  IInv'
    BY <2>4, PutVoiceFailsStep
  <2>5. CASE Reopen
    BY <2>5, ReopenStep
  <2>6. ASSUME NEW r \in 1 .. Requests, NEW length \in 1 .. MaxLength, PutVoiceHangs(r, length)
        PROVE  IInv'
    BY <2>6, PutVoiceHangsStep
  <2>7. CASE SetFragment
    <3>1. Types'
      BY <2>0, <2>7, Constants DEF SetFragment, Types
    <3> QED
      BY <2>7, <3>1, SameVoice DEF SetFragment
  <2>8. CASE UNCHANGED vars
    <3>1. Types'
      BY <2>0, <2>8 DEF vars, Types
    <3> QED
      BY <2>8, <3>1, SameVoice DEF vars
  <2> QED
    BY <2>1, <2>2, <2>3, <2>4, <2>5, <2>6, <2>7, <2>8 DEF Next
<1> QED
  BY <1>1, <1>2, PTL DEF Spec

\* However the calls cut the voice, whatever the sizes of frames, packets, buffer
\* and fragments, the server finds the packets of a request and the samples in
\* them in the order they were put, and every packet ends with voice of the
\* request.
THEOREM FramesHold == Spec => []FramesInOrder
<1>1. IInv => FramesInOrder
  BY SoundInOrder DEF IInv
<1> QED
  BY <1>1, InvariantHolds, PTL

\* Every byte put, but for the last of a call of an odd length, is in one sample,
\* and that is heard in one request, waits, or was put for a request that takes no
\* more; but for a failure of the encoder and a fragment size of 0, at which
\* put_voice() hangs (speech_impl.cc:213-253, rkcodec.cc:118-170).
THEOREM SamplesHold == Spec => []EverySampleOnce
<1>1. IInv => EverySampleOnce
  BY DEF IInv
<1> QED
  BY <1>1, InvariantHolds, PTL

================================================================================
