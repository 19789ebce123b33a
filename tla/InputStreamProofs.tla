------------------------- MODULE InputStreamProofs -------------------------
(***************************************************************************)
(* Proofs about InputStream.tla, for every set of bytes, every size of the *)
(* buffer and every length of the input: between two calls of onUser all   *)
(* complete lines have been executed, and every step is one that Lines.tla *)
(* allows.                                                                 *)
(***************************************************************************)
EXTENDS InputStream, SequenceLemmas

-----------------------------------------------------------------------------
(* Where the lines of a stream end.                                        *)

LEMMA EndsProperties ==
    ASSUME NEW S, NEW s \in Seq(S)
    PROVE  /\ Ends(s) \in Seq(Nat) /\ DOMAIN Ends(s) = 1 .. Len(Ends(s)) /\ Len(Ends(s)) \in Nat
           /\ \A k \in DOMAIN Ends(s) : Ends(s)[k] \in 1 .. Len(s) /\ s[Ends(s)[k]] = END_MSG
           /\ \A i \in 1 .. Len(s) : s[i] = END_MSG => \E k \in DOMAIN Ends(s) : Ends(s)[k] = i
           /\ \A j, k \in DOMAIN Ends(s) : j < k => Ends(s)[j] < Ends(s)[k]
<1> DEFINE N == { i \in DOMAIN s : s[i] = END_MSG }
<1>1. Len(s) \in Nat /\ DOMAIN s = 1 .. Len(s)
  BY LenProperties
<1>2. N \in SUBSET Int /\ IsFiniteSet(N)
  <2>1. N \in SUBSET (1 .. Len(s))
    BY <1>1
  <2>2. IsFiniteSet(1 .. Len(s))
    BY <1>1, FS_Interval
  <2> HIDE DEF N
  <2>3. IsFiniteSet(N)
    BY <2>1, <2>2, FS_Subset
  <2>4. N \in SUBSET Int
    BY <1>1, <2>1
  <2>5. QED
    BY <2>3, <2>4
<1>3. Ends(s) = Ascending(N)
  BY DEF Ends
<1>4. N \in SUBSET Nat /\ \A i : i \in N <=> i \in 1 .. Len(s) /\ s[i] = END_MSG
  BY <1>1
<1> HIDE DEF N
<1>5. /\ Ends(s) \in Seq(N) /\ ToSet(Ends(s)) = N
      /\ \A j, k \in DOMAIN Ends(s) : j < k => Ends(s)[j] < Ends(s)[k]
  BY <1>2, <1>3, AscendingProperties
<1>6. /\ DOMAIN Ends(s) = 1 .. Len(Ends(s)) /\ Len(Ends(s)) \in Nat
      /\ \A k \in DOMAIN Ends(s) : Ends(s)[k] \in N
  BY <1>5, LenProperties, ElementOfSeq
<1>7. Ends(s) \in Seq(Nat)
  BY <1>4, <1>5, SeqMonotonic
<1>8. \A i \in N : \E k \in DOMAIN Ends(s) : Ends(s)[k] = i
  BY <1>5 DEF ToSet
<1>9. QED
  BY <1>4, <1>5, <1>6, <1>7, <1>8

\* What comes later ends later.
LEMMA EndsOfConcat ==
    ASSUME NEW S, NEW s \in Seq(S), NEW t \in Seq(S)
    PROVE  /\ DOMAIN Ends(s) \subseteq DOMAIN Ends(s \o t)
           /\ Len(Ends(s)) <= Len(Ends(s \o t))
           /\ \A k \in DOMAIN Ends(s) : Ends(s \o t)[k] = Ends(s)[k]
<1> DEFINE M == { i \in DOMAIN s : s[i] = END_MSG }
           N == { i \in DOMAIN (s \o t) : (s \o t)[i] = END_MSG }
<1>1. /\ Len(s) \in Nat /\ DOMAIN s = 1 .. Len(s) /\ Len(t) \in Nat
      /\ s \o t \in Seq(S) /\ DOMAIN (s \o t) = 1 .. (Len(s) + Len(t))
      /\ \A i \in 1 .. Len(s) : (s \o t)[i] = s[i]
  BY LenProperties, ConcatProperties
<1>2. \A i : /\ i \in M <=> i \in 1 .. Len(s) /\ s[i] = END_MSG
             /\ i \in N <=> i \in 1 .. (Len(s) + Len(t)) /\ (s \o t)[i] = END_MSG
  BY <1>1
<1>3. Ends(s) = Ascending(M) /\ Ends(s \o t) = Ascending(N)
  BY DEF Ends
<1> HIDE DEF M, N
<1>4. N \in SUBSET Int /\ IsFiniteSet(N)
  <2>1. N \in SUBSET (1 .. (Len(s) + Len(t)))
    BY <1>2
  <2>2. IsFiniteSet(1 .. (Len(s) + Len(t)))
    BY <1>1, FS_Interval
  <2>3. IsFiniteSet(N)
    BY <2>1, <2>2, FS_Subset
  <2>4. N \in SUBSET Int
    BY <1>1, <2>1
  <2>5. QED
    BY <2>3, <2>4
<1>5. M \in SUBSET N
  BY <1>1, <1>2
<1>6. \A i \in M, j \in N \ M : i < j
  <2>1. ASSUME NEW j \in N \ M
        PROVE  j \in Int /\ j > Len(s)
    BY <1>1, <1>2
  <2>2. QED
    BY <1>1, <1>2, <2>1
<1>7. /\ DOMAIN Ends(s) \subseteq DOMAIN Ends(s \o t)
      /\ \A k \in DOMAIN Ends(s) : Ends(s \o t)[k] = Ends(s)[k]
  BY <1>3, <1>4, <1>5, <1>6, AscendingPrefix
<1>8. /\ DOMAIN Ends(s) = 1 .. Len(Ends(s)) /\ Len(Ends(s)) \in Nat
      /\ DOMAIN Ends(s \o t) = 1 .. Len(Ends(s \o t)) /\ Len(Ends(s \o t)) \in Nat
  BY <1>1, EndsProperties
<1>9. Len(Ends(s)) <= Len(Ends(s \o t))
  BY <1>7, <1>8
<1>10. QED
  BY <1>7, <1>9

\* How much of s its first k lines take, their newlines included.
CutAfter(s, k) == IF k = 0 THEN 0 ELSE Ends(s)[k]

LEMMA CutAfterProperties ==
    ASSUME NEW S, NEW s \in Seq(S), NEW k \in 0 .. Len(Ends(s))
    PROVE  /\ CutAfter(s, k) \in 0 .. Len(s) /\ Len(s) \in Nat
           /\ \A j \in DOMAIN Ends(s) : Ends(s)[j] > CutAfter(s, k) <=> j > k
<1>1. Len(s) \in Nat
  BY LenProperties
<1>2. /\ DOMAIN Ends(s) = 1 .. Len(Ends(s)) /\ Len(Ends(s)) \in Nat
      /\ \A j \in DOMAIN Ends(s) : Ends(s)[j] \in 1 .. Len(s)
      /\ \A i, j \in DOMAIN Ends(s) : i < j => Ends(s)[i] < Ends(s)[j]
  BY EndsProperties
<1>3. CutAfter(s, k) \in 0 .. Len(s)
  BY <1>1, <1>2 DEF CutAfter
<1>4. ASSUME NEW j \in DOMAIN Ends(s)
      PROVE  Ends(s)[j] > CutAfter(s, k) <=> j > k
  <2>1. j \in 1 .. Len(Ends(s)) /\ Ends(s)[j] \in 1 .. Len(s)
    BY <1>2
  <2>2. CASE k = 0
    BY <1>1, <1>2, <2>1, <2>2 DEF CutAfter
  <2>3. CASE k # 0
    <3>1. k \in DOMAIN Ends(s) /\ Ends(s)[k] \in 1 .. Len(s)
      BY <1>2, <2>3
    <3>2. /\ j < k => Ends(s)[j] < Ends(s)[k]
          /\ k < j => Ends(s)[k] < Ends(s)[j]
      BY <1>2, <3>1
    <3>3. QED
      BY <1>1, <1>2, <2>1, <2>3, <3>1, <3>2 DEF CutAfter
  <2>4. QED
    BY <2>2, <2>3
<1>5. QED
  BY <1>1, <1>3, <1>4

LEMMA LinesOfProperties ==
    ASSUME NEW S, NEW s \in Seq(S)
    PROVE  /\ LinesOf(s) \in Seq(Seq(S)) /\ Len(LinesOf(s)) = Len(Ends(s))
           /\ DOMAIN LinesOf(s) = 1 .. Len(Ends(s)) /\ Len(Ends(s)) \in Nat
           /\ \A k \in 1 .. Len(Ends(s)) :
                LinesOf(s)[k] = SubSeq(s, CutAfter(s, k - 1) + 1, CutAfter(s, k) - 1)
<1>1. DOMAIN Ends(s) = 1 .. Len(Ends(s)) /\ Len(Ends(s)) \in Nat /\ Len(s) \in Nat
      /\ DOMAIN s = 1 .. Len(s)
  BY EndsProperties, LenProperties
<1>2. ASSUME NEW k \in 1 .. Len(Ends(s))
      PROVE  /\ LinesOf(s)[k] = SubSeq(s, CutAfter(s, k - 1) + 1, CutAfter(s, k) - 1)
             /\ LinesOf(s)[k] \in Seq(S)
  <2>1. LinesOf(s)[k] = SubSeq(s, CutAfter(s, k - 1) + 1, CutAfter(s, k) - 1)
    <3>1. LinesOf(s)[k] = SubSeq(s, IF k = 1 THEN 1 ELSE Ends(s)[k - 1] + 1, Ends(s)[k] - 1)
      BY <1>1 DEF LinesOf
    <3>2. CutAfter(s, k) = Ends(s)[k]
      BY <1>1 DEF CutAfter
    <3>3. CASE k = 1
      BY <3>1, <3>2, <3>3 DEF CutAfter
    <3>4. CASE k # 1
      <4>1. k - 1 # 0
        BY <1>1, <3>4
      <4>2. CutAfter(s, k - 1) = Ends(s)[k - 1]
        BY <4>1 DEF CutAfter
      <4>3. QED
        BY <3>1, <3>2, <3>4, <4>2
    <3>5. QED
      BY <3>3, <3>4
  <2>2. CutAfter(s, k - 1) \in 0 .. Len(s) /\ CutAfter(s, k) \in 0 .. Len(s)
    <3>1. k - 1 \in 0 .. Len(Ends(s)) /\ k \in 0 .. Len(Ends(s))
      BY <1>1
    <3>2. QED
      BY <3>1, CutAfterProperties
  <2> DEFINE m == CutAfter(s, k - 1) + 1
             n == CutAfter(s, k) - 1
  <2>3. m \in Int /\ n \in Int /\ \A i \in m .. n : s[i] \in S
    <3>1. m \in Int /\ n \in Int /\ \A i \in m .. n : i \in 1 .. Len(s)
      BY <1>1, <2>2
    <3>2. QED
      BY <3>1, ElementOfSeq
  <2> HIDE DEF m, n
  <2>4. SubSeq(s, m, n) \in Seq(S)
    BY <2>3, SubSeqProperties
  <2>5. QED
    BY <2>1, <2>4 DEF m, n
<1>3. LinesOf(s) \in [ 1 .. Len(Ends(s)) -> Seq(S) ]
  <2>1. DOMAIN LinesOf(s) = 1 .. Len(Ends(s))
    BY <1>1 DEF LinesOf
  <2>2. LinesOf(s) = [ k \in DOMAIN LinesOf(s) |-> LinesOf(s)[k] ]
    BY DEF LinesOf
  <2>3. QED
    BY <1>2, <2>1, <2>2
<1>4. LinesOf(s) \in Seq(Seq(S)) /\ Len(LinesOf(s)) = Len(Ends(s))
  BY <1>1, <1>3
<1>5. QED
  BY <1>1, <1>2, <1>3, <1>4

\* A part of s is the same part of what s begins.
LEMMA PartOfConcat ==
    ASSUME NEW S, NEW s \in Seq(S), NEW t \in Seq(S),
           NEW m \in 1 .. (Len(s) + 1), NEW n \in 0 .. Len(s)
    PROVE  SubSeq(s \o t, m, n) = SubSeq(s, m, n)
<1>1. /\ Len(s) \in Nat /\ Len(t) \in Nat /\ s \o t \in Seq(S)
      /\ Len(s \o t) = Len(s) + Len(t) /\ \A i \in 1 .. Len(s) : (s \o t)[i] = s[i]
  BY LenProperties, ConcatProperties
<1>2. m \in Int /\ n \in Int /\ \A i \in m .. n : i \in 1 .. Len(s) /\ s[i] \in S
  <2>1. m \in Int /\ n \in Int /\ \A i \in m .. n : i \in 1 .. Len(s)
    BY <1>1
  <2>2. QED
    BY <2>1, ElementOfSeq
<1>3. \A i \in m .. n : (s \o t)[i] = s[i] /\ (s \o t)[i] \in S
  BY <1>1, <1>2
<1>4. /\ SubSeq(s, m, n) \in Seq(S)
      /\ Len(SubSeq(s, m, n)) = IF m <= n THEN n - m + 1 ELSE 0
      /\ \A i \in 1 .. n - m + 1 : SubSeq(s, m, n)[i] = s[m + i - 1]
  BY <1>2, SubSeqProperties
<1>5. /\ SubSeq(s \o t, m, n) \in Seq(S)
      /\ Len(SubSeq(s \o t, m, n)) = IF m <= n THEN n - m + 1 ELSE 0
      /\ \A i \in 1 .. n - m + 1 : SubSeq(s \o t, m, n)[i] = (s \o t)[m + i - 1]
  BY <1>2, <1>3, SubSeqProperties
<1>6. ASSUME NEW i \in 1 .. Len(SubSeq(s, m, n))
      PROVE  SubSeq(s \o t, m, n)[i] = SubSeq(s, m, n)[i]
  <2>1. i \in 1 .. n - m + 1 /\ m + i - 1 \in m .. n
    BY <1>2, <1>4
  <2>2. QED
    BY <1>3, <1>4, <1>5, <2>1
<1> DEFINE a == SubSeq(s, m, n)
           b == SubSeq(s \o t, m, n)
<1>7. a \in Seq(S) /\ b \in Seq(S) /\ Len(a) = Len(b) /\ \A i \in 1 .. Len(a) : a[i] = b[i]
  BY <1>4, <1>5, <1>6
<1> HIDE DEF a, b
<1>8. a = b
  BY <1>7, SeqEqual
<1>9. QED
  BY <1>8 DEF a, b

\* The complete lines of s stay lines when bytes are appended.
LEMMA LinesOfConcat ==
    ASSUME NEW S, NEW s \in Seq(S), NEW t \in Seq(S)
    PROVE  /\ Len(Ends(s)) <= Len(Ends(s \o t))
           /\ \A k \in 0 .. Len(Ends(s)) : CutAfter(s \o t, k) = CutAfter(s, k)
           /\ \A k \in 1 .. Len(Ends(s)) : LinesOf(s \o t)[k] = LinesOf(s)[k]
<1>1. /\ s \o t \in Seq(S) /\ Len(s) \in Nat
      /\ Len(Ends(s)) <= Len(Ends(s \o t)) /\ Len(Ends(s)) \in Nat /\ Len(Ends(s \o t)) \in Nat
      /\ DOMAIN Ends(s) = 1 .. Len(Ends(s))
  BY LenProperties, ConcatProperties, EndsOfConcat, EndsProperties
<1>2. ASSUME NEW k \in 0 .. Len(Ends(s))
      PROVE  CutAfter(s \o t, k) = CutAfter(s, k)
  BY <1>1, EndsOfConcat DEF CutAfter
<1>3. ASSUME NEW k \in 1 .. Len(Ends(s))
      PROVE  LinesOf(s \o t)[k] = LinesOf(s)[k]
  <2>1. /\ k \in 1 .. Len(Ends(s \o t))
        /\ k - 1 \in 0 .. Len(Ends(s)) /\ k \in 0 .. Len(Ends(s))
    BY <1>1
  <2>2. LinesOf(s)[k] = SubSeq(s, CutAfter(s, k - 1) + 1, CutAfter(s, k) - 1)
    BY LinesOfProperties
  <2>3. LinesOf(s \o t)[k] = SubSeq(s \o t, CutAfter(s, k - 1) + 1, CutAfter(s, k) - 1)
    BY <1>1, <1>2, <2>1, LinesOfProperties
  <2>4. CutAfter(s, k - 1) + 1 \in 1 .. (Len(s) + 1) /\ CutAfter(s, k) - 1 \in 0 .. Len(s)
    <3>1. CutAfter(s, k - 1) \in 0 .. Len(s)
      BY <2>1, CutAfterProperties
    <3>2. CutAfter(s, k) \in 1 .. Len(s)
      <4>1. k # 0 /\ k \in DOMAIN Ends(s)
        BY <1>1
      <4>2. Ends(s)[k] \in 1 .. Len(s)
        BY <4>1, EndsProperties
      <4>3. QED
        BY <4>1, <4>2 DEF CutAfter
    <3>3. QED
      BY <1>1, <3>1, <3>2
  <2>5. QED
    BY <2>2, <2>3, <2>4, PartOfConcat
<1>4. QED
  BY <1>1, <1>2, <1>3

\* Where the first newline and the first byte 0 are found.
LEMMA FirstPosition ==
    ASSUME NEW S, NEW s \in Seq(S), NEW e, e \in ToSet(s),
           NEW I, I = { i \in 1 .. Len(s) : s[i] = e }
    PROVE  LET p == Min(I) IN
           p \in 1 .. Len(s) /\ s[p] = e /\ \A i \in 1 .. Len(s) : s[i] = e => p <= i
<1>1. DOMAIN s = 1 .. Len(s) /\ Len(s) \in Nat
  BY LenProperties
<1>2. I # {} /\ I \in SUBSET Nat
  BY <1>1 DEF ToSet
<1>3. Min(I) \in I /\ \A i \in I : Min(I) <= i
  BY <1>2, MinOfNaturals
<1>4. QED
  BY <1>3

\* What follows the first c bytes of s.
LEMMA RestProperties ==
    ASSUME NEW S, NEW s \in Seq(S), NEW c \in 0 .. Len(s)
    PROVE  /\ SubSeq(s, c + 1, Len(s)) \in Seq(S)
           /\ Len(SubSeq(s, c + 1, Len(s))) = Len(s) - c
           /\ DOMAIN SubSeq(s, c + 1, Len(s)) = 1 .. (Len(s) - c)
           /\ \A i \in 1 .. (Len(s) - c) :
                SubSeq(s, c + 1, Len(s))[i] = s[c + i] /\ c + i \in 1 .. Len(s)
           /\ \A j \in 1 .. Len(s) : j > c => j - c \in 1 .. (Len(s) - c) /\ c + (j - c) = j
<1> DEFINE m == c + 1
           n == Len(s)
<1>1. n \in Nat /\ c \in 0 .. n
  BY LenProperties
<1>2. m \in Int /\ n \in Int /\ \A i \in m .. n : i \in 1 .. Len(s)
  BY <1>1
<1>3. \A i \in m .. n : s[i] \in S
  BY <1>2, ElementOfSeq
<1> HIDE DEF m
<1>4. /\ SubSeq(s, m, n) \in Seq(S)
      /\ Len(SubSeq(s, m, n)) = IF m <= n THEN n - m + 1 ELSE 0
      /\ \A i \in 1 .. n - m + 1 : SubSeq(s, m, n)[i] = s[m + i - 1]
  BY <1>2, <1>3, SubSeqProperties
<1>5. Len(SubSeq(s, m, n)) = n - c /\ 1 .. n - m + 1 = 1 .. (n - c)
  BY <1>1, <1>4 DEF m
<1>6. \A i \in 1 .. (n - c) : m + i - 1 = c + i /\ c + i \in 1 .. n
  BY <1>1 DEF m
<1>7. \A j \in 1 .. n : j > c => j - c \in 1 .. (n - c) /\ c + (j - c) = j
  BY <1>1
<1>8. DOMAIN SubSeq(s, m, n) = 1 .. (n - c)
  BY <1>4, <1>5, LenProperties
<1>9. \A i \in 1 .. (n - c) : SubSeq(s, m, n)[i] = s[c + i]
  BY <1>4, <1>5, <1>6
<1>10. QED
  BY <1>4, <1>5, <1>6, <1>7, <1>8, <1>9 DEF m

\* A part of what follows the first c bytes.
LEMMA PartOfRest ==
    ASSUME NEW S, NEW s \in Seq(S), NEW c \in 0 .. Len(s),
           NEW m \in 1 .. (Len(s) - c + 1), NEW n \in 0 .. (Len(s) - c)
    PROVE  SubSeq(SubSeq(s, c + 1, Len(s)), m, n) = SubSeq(s, c + m, c + n)
<1> DEFINE b == SubSeq(s, c + 1, Len(s))
           x == SubSeq(b, m, n)
           y == SubSeq(s, c + m, c + n)
<1>1. /\ b \in Seq(S) /\ Len(b) = Len(s) - c
      /\ \A i \in 1 .. (Len(s) - c) : b[i] = s[c + i] /\ c + i \in 1 .. Len(s)
  BY RestProperties
<1>2. Len(s) \in Nat /\ c \in Nat /\ m \in Nat /\ n \in Nat
  BY LenProperties
<1> HIDE DEF b
<1>3. \A i \in m .. n : i \in 1 .. (Len(s) - c)
  BY <1>2
<1>4. \A i \in m .. n : b[i] \in S
  BY <1>1, <1>3, ElementOfSeq
<1>5. /\ x \in Seq(S) /\ Len(x) = IF m <= n THEN n - m + 1 ELSE 0
      /\ \A i \in 1 .. n - m + 1 : x[i] = b[m + i - 1]
  BY <1>2, <1>4, SubSeqProperties
<1>6. c + m \in Int /\ c + n \in Int /\ \A i \in (c + m) .. (c + n) : i \in 1 .. Len(s)
  BY <1>2
<1>7. \A i \in (c + m) .. (c + n) : s[i] \in S
  BY <1>6, ElementOfSeq
<1>8. /\ y \in Seq(S)
      /\ Len(y) = IF c + m <= c + n THEN (c + n) - (c + m) + 1 ELSE 0
      /\ \A i \in 1 .. (c + n) - (c + m) + 1 : y[i] = s[(c + m) + i - 1]
  BY <1>6, <1>7, SubSeqProperties
<1> HIDE DEF x, y
<1>9. ASSUME NEW i \in 1 .. Len(x)
      PROVE  x[i] = y[i]
  <2>1. i \in 1 .. n - m + 1 /\ i \in 1 .. (c + n) - (c + m) + 1
    BY <1>2, <1>5, <1>8
  <2>2. m + i - 1 \in m .. n /\ c + (m + i - 1) = (c + m) + i - 1
    BY <1>2, <2>1
  <2>3. b[m + i - 1] = s[(c + m) + i - 1]
    BY <1>1, <1>3, <2>2
  <2>4. QED
    BY <1>5, <1>8, <2>1, <2>3
<1>10. Len(x) = Len(y)
  BY <1>2, <1>5, <1>8
<1>11. x = y
  BY <1>5, <1>8, <1>9, <1>10, SeqEqual
<1>12. QED
  BY <1>11 DEF x, y, b

\* What stands before position p of b, and what stands behind it.
Before(b, p) == SubSeq(b, 1, p - 1)
Behind(b, p) == SubSeq(b, p + 1, Len(b))

\* p is the place of the first newline of b.
IsFirstEnd(b, p) ==
    p \in 1 .. Len(b) /\ b[p] = END_MSG /\ \A i \in 1 .. Len(b) : b[i] = END_MSG => p <= i

\* What split() finds behind the first k lines: a newline as long as lines are left,
\* then the next line before it and the rest behind it.
LEMMA NextLine ==
    ASSUME NEW S, NEW s \in Seq(S), NEW k \in 0 .. Len(Ends(s)),
           NEW b, b = Behind(s, CutAfter(s, k))
    PROVE  /\ b \in Seq(S)
           /\ END_MSG \in ToSet(b) <=> k < Len(Ends(s))
           /\ \A p \in 1 .. Len(b) : \A n : k < Len(Ends(s)) /\ n = k + 1 /\ IsFirstEnd(b, p) =>
                /\ Before(b, p) = LinesOf(s)[n]
                /\ Behind(b, p) = Behind(s, CutAfter(s, n))
<1>1. PICK c \in 0 .. Len(s) :
        c = CutAfter(s, k) /\ \A j \in DOMAIN Ends(s) : Ends(s)[j] > c <=> j > k
  BY CutAfterProperties
<1>2. /\ DOMAIN Ends(s) = 1 .. Len(Ends(s)) /\ Len(Ends(s)) \in Nat
      /\ \A j \in DOMAIN Ends(s) : Ends(s)[j] \in 1 .. Len(s) /\ s[Ends(s)[j]] = END_MSG
      /\ \A i \in 1 .. Len(s) : s[i] = END_MSG => \E j \in DOMAIN Ends(s) : Ends(s)[j] = i
      /\ \A i, j \in DOMAIN Ends(s) : i < j => Ends(s)[i] < Ends(s)[j]
  BY EndsProperties
<1>3. b = SubSeq(s, c + 1, Len(s))
  BY <1>1 DEF Behind
<1>4. /\ b \in Seq(S) /\ Len(b) = Len(s) - c /\ DOMAIN b = 1 .. (Len(s) - c)
      /\ \A i \in 1 .. (Len(s) - c) : b[i] = s[c + i] /\ c + i \in 1 .. Len(s)
      /\ \A j \in 1 .. Len(s) : j > c => j - c \in 1 .. (Len(s) - c) /\ c + (j - c) = j
  <2> DEFINE r == SubSeq(s, c + 1, Len(s))
  <2>1. /\ r \in Seq(S) /\ Len(r) = Len(s) - c /\ DOMAIN r = 1 .. (Len(s) - c)
        /\ \A i \in 1 .. (Len(s) - c) : r[i] = s[c + i] /\ c + i \in 1 .. Len(s)
        /\ \A j \in 1 .. Len(s) : j > c => j - c \in 1 .. (Len(s) - c) /\ c + (j - c) = j
    BY RestProperties
  <2>2. r = b
    BY <1>3
  <2> HIDE DEF r
  <2>3. QED
    BY <2>1, <2>2
<1>5. Len(s) \in Nat /\ c \in Nat
  BY LenProperties
\* A newline of b is the end of a line behind the k-th.
<1>6. ASSUME NEW i \in 1 .. (Len(s) - c), b[i] = END_MSG
      PROVE  \E j \in DOMAIN Ends(s) : Ends(s)[j] = c + i /\ j > k
  <2>1. c + i \in 1 .. Len(s) /\ s[c + i] = END_MSG
    BY <1>4, <1>6
  <2>2. PICK j \in DOMAIN Ends(s) : Ends(s)[j] = c + i
    BY <1>2, <2>1
  <2>3. c + i > c
    BY <1>5
  <2>4. QED
    BY <1>1, <2>2, <2>3
<1>7. ASSUME k < Len(Ends(s)), NEW e, e = Ends(s)[k + 1]
      PROVE  /\ k + 1 \in DOMAIN Ends(s) /\ e \in 1 .. Len(s) /\ e > c
             /\ e - c \in 1 .. (Len(s) - c) /\ b[e - c] = END_MSG
             /\ \A i \in 1 .. (Len(s) - c) : b[i] = END_MSG => e - c <= i
  <2>1. k + 1 \in DOMAIN Ends(s) /\ k + 1 > k
    BY <1>2, <1>7
  <2>2. e \in 1 .. Len(s) /\ e > c /\ s[e] = END_MSG
    BY <1>1, <1>2, <1>7, <2>1
  <2>3. e - c \in 1 .. (Len(s) - c) /\ b[e - c] = END_MSG
    BY <1>4, <2>2
  <2>4. ASSUME NEW i \in 1 .. (Len(s) - c), b[i] = END_MSG
        PROVE  e - c <= i
    <3>1. PICK j \in DOMAIN Ends(s) : Ends(s)[j] = c + i /\ j > k
      BY <1>6, <2>4
    <3>2. j = k + 1 \/ k + 1 < j
      BY <1>2, <3>1
    <3>3. e = c + i \/ e < c + i
      BY <1>2, <1>7, <2>1, <3>1, <3>2
    <3>4. QED
      BY <1>5, <2>2, <3>3
  <2>5. QED
    BY <2>1, <2>2, <2>3, <2>4
<1>8. END_MSG \in ToSet(b) <=> k < Len(Ends(s))
  <2>1. ASSUME END_MSG \in ToSet(b)
        PROVE  k < Len(Ends(s))
    <3>1. PICK i \in 1 .. (Len(s) - c) : b[i] = END_MSG
      BY <1>4, <2>1 DEF ToSet
    <3>2. PICK j \in DOMAIN Ends(s) : j > k
      BY <1>6, <3>1
    <3>3. QED
      BY <1>2, <3>2
  <2>2. ASSUME k < Len(Ends(s))
        PROVE  END_MSG \in ToSet(b)
    <3>1. Ends(s)[k + 1] - c \in 1 .. (Len(s) - c) /\ b[Ends(s)[k + 1] - c] = END_MSG
      BY <1>7, <2>2
    <3>2. QED
      BY <1>4, <3>1 DEF ToSet
  <2>3. QED
    BY <2>1, <2>2
<1>9. ASSUME k < Len(Ends(s)), NEW p \in 1 .. Len(b), IsFirstEnd(b, p)
      PROVE  /\ SubSeq(b, 1, p - 1) = LinesOf(s)[k + 1]
             /\ SubSeq(b, p + 1, Len(b)) = SubSeq(s, CutAfter(s, k + 1) + 1, Len(s))
  <2>1. PICK e : e = Ends(s)[k + 1]
    OBVIOUS
  <2>2. /\ k + 1 \in DOMAIN Ends(s) /\ e \in 1 .. Len(s) /\ e > c
        /\ e - c \in 1 .. (Len(s) - c) /\ b[e - c] = END_MSG
        /\ \A i \in 1 .. (Len(s) - c) : b[i] = END_MSG => e - c <= i
    BY <1>7, <1>9, <2>1
  <2>3. k + 1 \in 1 .. Len(Ends(s)) /\ k + 1 # 0 /\ (k + 1) - 1 = k
    <3>1. k \in Nat /\ k < Len(Ends(s)) /\ Len(Ends(s)) \in Nat
      BY <1>2, <1>9
    <3>2. QED
      BY <3>1
  <2>4. CutAfter(s, k + 1) = e
    BY <2>1, <2>3 DEF CutAfter
  <2>5. LinesOf(s)[k + 1] = SubSeq(s, c + 1, e - 1)
    <3>1. LinesOf(s)[k + 1] = SubSeq(s, CutAfter(s, (k + 1) - 1) + 1, CutAfter(s, k + 1) - 1)
      BY <2>3, LinesOfProperties
    <3>2. QED
      BY <1>1, <2>3, <2>4, <3>1
  <2>6. p = e - c
    <3>1. p \in 1 .. (Len(s) - c) /\ p <= e - c /\ e - c <= p
      BY <1>4, <1>9, <2>2 DEF IsFirstEnd
    <3>2. QED
      BY <1>5, <2>2, <3>1
  <2>7. SubSeq(b, 1, p - 1) = SubSeq(s, c + 1, e - 1)
    <3>1. 1 \in 1 .. (Len(s) - c + 1) /\ p - 1 \in 0 .. (Len(s) - c) /\ c + (p - 1) = e - 1
      BY <1>5, <2>2, <2>6
    <3>2. SubSeq(SubSeq(s, c + 1, Len(s)), 1, p - 1) = SubSeq(s, c + 1, c + (p - 1))
      BY <3>1, PartOfRest
    <3>3. QED
      BY <1>3, <3>1, <3>2
  <2>8. SubSeq(b, p + 1, Len(b)) = SubSeq(s, e + 1, Len(s))
    <3>1. /\ p + 1 \in 1 .. (Len(s) - c + 1) /\ Len(s) - c \in 0 .. (Len(s) - c)
          /\ c + (p + 1) = e + 1 /\ c + (Len(s) - c) = Len(s)
      BY <1>5, <2>2, <2>6
    <3>2. SubSeq(SubSeq(s, c + 1, Len(s)), p + 1, Len(s) - c)
            = SubSeq(s, c + (p + 1), c + (Len(s) - c))
      BY <3>1, PartOfRest
    <3>3. QED
      BY <1>3, <1>4, <3>1, <3>2
  <2>9. QED
    BY <2>4, <2>5, <2>7, <2>8
<1>10. QED
  BY <1>4, <1>8, <1>9 DEF Before, Behind

\* Appending to s appends to what follows its first c bytes.
LEMMA RestOfConcat ==
    ASSUME NEW S, NEW s \in Seq(S), NEW t \in Seq(S), NEW c \in 0 .. Len(s)
    PROVE  SubSeq(s, c + 1, Len(s)) \o t = SubSeq(s \o t, c + 1, Len(s \o t))
<1> DEFINE r == SubSeq(s, c + 1, Len(s))
           u == s \o t
           v == SubSeq(u, c + 1, Len(u))
<1>1. /\ Len(s) \in Nat /\ Len(t) \in Nat /\ u \in Seq(S) /\ Len(u) = Len(s) + Len(t)
      /\ \A i \in 1 .. Len(s) + Len(t) : u[i] = IF i <= Len(s) THEN s[i] ELSE t[i - Len(s)]
  BY LenProperties, ConcatProperties
<1>2. /\ r \in Seq(S) /\ Len(r) = Len(s) - c
      /\ \A i \in 1 .. (Len(s) - c) : r[i] = s[c + i]
  BY RestProperties
<1> HIDE DEF u
<1>3. c \in 0 .. Len(u)
  BY <1>1
<1>4. /\ v \in Seq(S) /\ Len(v) = Len(u) - c
      /\ \A i \in 1 .. (Len(u) - c) : v[i] = u[c + i]
  BY <1>1, <1>3, RestProperties
<1> HIDE DEF r, v
<1>5. /\ r \o t \in Seq(S) /\ Len(r \o t) = Len(r) + Len(t)
      /\ \A i \in 1 .. Len(r) + Len(t) : (r \o t)[i] = IF i <= Len(r) THEN r[i] ELSE t[i - Len(r)]
  BY <1>2, ConcatProperties
<1>6. Len(r \o t) = Len(v)
  BY <1>1, <1>2, <1>4, <1>5
<1>7. ASSUME NEW i \in 1 .. Len(r \o t)
      PROVE  (r \o t)[i] = v[i]
  <2>1. i \in 1 .. (Len(u) - c) /\ c + i \in 1 .. Len(s) + Len(t) /\ i \in 1 .. Len(r) + Len(t)
    BY <1>1, <1>2, <1>5
  <2>2. CASE i <= Len(r)
    <3>1. i \in 1 .. (Len(s) - c) /\ c + i <= Len(s)
      BY <1>1, <1>2, <2>1, <2>2
    <3>2. QED
      BY <1>1, <1>2, <1>4, <1>5, <2>1, <2>2, <3>1
  <2>3. CASE ~ (i <= Len(r))
    <3>1. ~ (c + i <= Len(s)) /\ (c + i) - Len(s) = i - Len(r)
      BY <1>1, <1>2, <2>1, <2>3
    <3>2. QED
      BY <1>1, <1>4, <1>5, <2>1, <2>3, <3>1
  <2>4. QED
    BY <2>2, <2>3
<1>8. r \o t = v
  BY <1>4, <1>5, <1>6, <1>7, SeqEqual
<1>9. QED
  BY <1>8 DEF r, u, v

\* The first n elements of s, and the first f of these.
LEMMA FirstElements ==
    ASSUME NEW S, NEW s \in Seq(S), NEW n \in 0 .. Len(s)
    PROVE  /\ SubSeq(s, 1, n) \in Seq(S) /\ Len(SubSeq(s, 1, n)) = n
           /\ \A i \in 1 .. n : SubSeq(s, 1, n)[i] = s[i]
           /\ \A f \in 0 .. n : SubSeq(SubSeq(s, 1, n), 1, f) = SubSeq(s, 1, f)
<1>1. Len(s) \in Nat /\ DOMAIN s = 1 .. Len(s)
  BY LenProperties
<1>2. ASSUME NEW t \in Seq(S), NEW f \in 0 .. Len(t)
      PROVE  /\ SubSeq(t, 1, f) \in Seq(S) /\ Len(SubSeq(t, 1, f)) = f
             /\ \A i \in 1 .. f : SubSeq(t, 1, f)[i] = t[i]
  <2>1. Len(t) \in Nat
    BY LenProperties
  <2>2. f \in Int /\ 1 \in Int /\ \A i \in 1 .. f : i \in 1 .. Len(t)
    BY <2>1
  <2>3. \A i \in 1 .. f : t[i] \in S
    BY <2>2, ElementOfSeq
  <2>4. /\ SubSeq(t, 1, f) \in Seq(S)
        /\ Len(SubSeq(t, 1, f)) = IF 1 <= f THEN f - 1 + 1 ELSE 0
        /\ \A i \in 1 .. (f - 1 + 1) : SubSeq(t, 1, f)[i] = t[1 + i - 1]
    BY <2>2, <2>3, SubSeqProperties
  <2>5. f - 1 + 1 = f /\ \A i \in 1 .. f : 1 + i - 1 = i
    BY <2>2
  <2>6. Len(SubSeq(t, 1, f)) = f
    BY <2>1, <2>4
  <2>7. QED
    BY <2>4, <2>5, <2>6
<1> DEFINE r == SubSeq(s, 1, n)
<1>3. r \in Seq(S) /\ Len(r) = n /\ \A i \in 1 .. n : r[i] = s[i]
  BY <1>2
<1> HIDE DEF r
<1>4. ASSUME NEW f \in 0 .. n
      PROVE  SubSeq(r, 1, f) = SubSeq(s, 1, f)
  <2>1. f \in 0 .. Len(s) /\ f \in 0 .. Len(r) /\ \A i \in 1 .. f : i \in 1 .. n
    BY <1>1, <1>3
  <2> DEFINE a == SubSeq(r, 1, f)
             b == SubSeq(s, 1, f)
  <2>2. a \in Seq(S) /\ Len(a) = f /\ \A i \in 1 .. f : a[i] = r[i]
    BY <1>2, <1>3, <2>1
  <2>3. b \in Seq(S) /\ Len(b) = f /\ \A i \in 1 .. f : b[i] = s[i]
    BY <1>2, <2>1
  <2> HIDE DEF a, b
  <2>4. \A i \in 1 .. Len(a) : a[i] = b[i]
    BY <1>3, <2>1, <2>2, <2>3
  <2>5. a = b
    BY <2>2, <2>3, <2>4, SeqEqual
  <2>6. QED
    BY <2>5 DEF a, b
<1>5. QED
  BY <1>3, <1>4 DEF r

\* A C string is what stands before the first byte 0.
LEMMA CStringProperties ==
    ASSUME NEW S, NEW s \in Seq(S)
    PROVE  /\ CString(s) \in Seq(S)
           /\ \E f \in 0 .. Len(s) :
                /\ CString(s) = SubSeq(s, 1, f)
                /\ Len(CString(s)) = f
                /\ \A i \in 1 .. f : CString(s)[i] = s[i] /\ s[i] # NUL
                /\ f = Len(s) \/ s[f + 1] = NUL
<1>1. Len(s) \in Nat /\ DOMAIN s = 1 .. Len(s)
  BY LenProperties
<1>2. ASSUME NEW f \in 0 .. Len(s)
      PROVE  /\ SubSeq(s, 1, f) \in Seq(S) /\ Len(SubSeq(s, 1, f)) = f
             /\ \A i \in 1 .. f : SubSeq(s, 1, f)[i] = s[i]
  BY FirstElements
<1>3. CASE NUL \in ToSet(s)
  <2> DEFINE I == { i \in 1 .. Len(s) : s[i] = NUL }
             p == Min(I)
  <2>1. p \in 1 .. Len(s) /\ s[p] = NUL /\ \A i \in 1 .. Len(s) : s[i] = NUL => p <= i
    BY <1>3, FirstPosition
  <2>2. CString(s) = SubSeq(s, 1, p - 1)
    BY <1>3, <2>1 DEF CString, SelectInSeq
  <2> HIDE DEF I, p
  <2>3. p - 1 \in 0 .. Len(s) /\ (p - 1) + 1 = p
    BY <1>1, <2>1
  <2>4. \A i \in 1 .. (p - 1) : s[i] # NUL
    BY <1>1, <2>1
  <2>5. QED
    BY <1>2, <2>1, <2>2, <2>3, <2>4
<1>4. CASE NUL \notin ToSet(s)
  <2>1. CString(s) = SubSeq(s, 1, Len(s))
    BY <1>4, SubSeqFull DEF CString
  <2>2. \A i \in 1 .. Len(s) : s[i] # NUL
    BY <1>1, <1>4 DEF ToSet
  <2>3. Len(s) \in 0 .. Len(s)
    BY <1>1
  <2>4. QED
    BY <1>2, <2>1, <2>2, <2>3
<1>5. QED
  BY <1>3, <1>4

-----------------------------------------------------------------------------
(* The inductive invariant: the lines that were executed and those that    *)
(* wait in _dataToSend are the first lines of what was saved, and _buffer  *)
(* is what follows them.                                                   *)

SplitLines == Len(executed) + Len(_dataToSend) + 1 - iter

InputTyped ==
    /\ kernel \in Seq(Byte) /\ saved \in Seq(Byte) /\ _buffer \in Seq(Byte)
    /\ _dataToSend \in Seq(Seq(Byte)) /\ executed \in Seq(Seq(Byte))
    /\ iter \in 1 .. (Len(_dataToSend) + 1)
    /\ peer \in {"open", "closed", "reset"} /\ state \in {"ONLINE", "DELETE"}
    /\ pc \in {"poll", "split", "invoke", "return", "gone"}

LinesInOrder ==
    /\ SplitLines <= Len(Ends(saved))
    /\ \A i \in DOMAIN executed : executed[i] = LinesOf(saved)[i]
    /\ \A i \in iter .. Len(_dataToSend) :
         _dataToSend[i] = LinesOf(saved)[Len(executed) + i + 1 - iter]
    /\ _buffer = Behind(saved, CutAfter(saved, SplitLines))

\* What holds at the places of onUser; and only a QUIT or the end of the input
\* makes the state DELETE.
PcOK ==
    /\ pc # "split" => ~ HasLine
    /\ pc # "invoke" => iter = 1
    /\ pc \in {"poll", "return", "gone"} => _dataToSend = << >>
    /\ NUL \notin ToSet(saved)
    /\ state = "DELETE" => HasQuit(executed) \/ (kernel = << >> /\ peer = "closed")

InputInv == InputTyped /\ LinesInOrder /\ PcOK

\* The numbers that the invariant speaks of.
LEMMA InputNumbers ==
    ASSUME InputTyped, LinesInOrder
    PROVE  /\ Len(executed) \in Nat /\ DOMAIN executed = 1 .. Len(executed)
           /\ Len(_dataToSend) \in Nat /\ DOMAIN _dataToSend = 1 .. Len(_dataToSend)
           /\ Len(Ends(saved)) \in Nat /\ Len(saved) \in Nat
           /\ iter \in Nat /\ iter >= 1 /\ iter <= Len(_dataToSend) + 1
           /\ SplitLines \in 0 .. Len(Ends(saved)) /\ Len(executed) <= SplitLines
           /\ CutAfter(saved, SplitLines) \in 0 .. Len(saved)
<1>1. /\ Len(executed) \in Nat /\ DOMAIN executed = 1 .. Len(executed)
      /\ Len(_dataToSend) \in Nat /\ DOMAIN _dataToSend = 1 .. Len(_dataToSend)
      /\ Len(Ends(saved)) \in Nat /\ Len(saved) \in Nat
  BY LenProperties, EndsProperties DEF InputTyped
<1>2. iter \in Nat /\ iter >= 1 /\ iter <= Len(_dataToSend) + 1
  BY <1>1 DEF InputTyped
<1>3. SplitLines \in 0 .. Len(Ends(saved)) /\ Len(executed) <= SplitLines
  BY <1>1, <1>2 DEF SplitLines, LinesInOrder
<1>4. CutAfter(saved, SplitLines) \in 0 .. Len(saved)
  <2>1. saved \in Seq(Byte)
    BY DEF InputTyped
  <2>2. QED
    BY <1>3, <2>1, CutAfterProperties
<1>5. QED
  BY <1>1, <1>2, <1>3, <1>4

LEMMA InputInit == Init => InputInv
<1> SUFFICES ASSUME Init
             PROVE  InputInv
  OBVIOUS
<1>1. /\ kernel = << >> /\ saved = << >> /\ _buffer = << >> /\ _dataToSend = << >>
      /\ executed = << >> /\ iter = 1 /\ peer = "open" /\ state = "ONLINE" /\ pc = "poll"
  BY DEF Init
<1>2. InputTyped
  BY <1>1 DEF InputTyped
<1>3. SplitLines = 0 /\ CutAfter(saved, SplitLines) = 0
  BY <1>1 DEF SplitLines, CutAfter
<1>4. LinesInOrder
  <2>1. Len(Ends(saved)) \in Nat
    BY <1>2, EndsProperties DEF InputTyped
  <2>2. _buffer = Behind(saved, CutAfter(saved, SplitLines))
    <3>1. SubSeq(saved, CutAfter(saved, SplitLines) + 1, Len(saved)) = SubSeq(saved, 1, Len(saved))
      BY <1>3
    <3>2. QED
      BY <1>1, <1>2, <3>1, SubSeqFull DEF InputTyped, Behind
  <2>3. \A i \in DOMAIN executed : executed[i] = LinesOf(saved)[i]
    BY <1>1
  <2>4. \A i \in iter .. Len(_dataToSend) :
          _dataToSend[i] = LinesOf(saved)[Len(executed) + i + 1 - iter]
    BY <1>1
  <2>5. QED
    BY <1>3, <2>1, <2>2, <2>3, <2>4 DEF LinesInOrder
<1>5. PcOK
  BY <1>1 DEF PcOK, HasLine, ToSet
<1>6. QED
  BY <1>2, <1>4, <1>5 DEF InputInv

\* Steps that leave the lines alone.
LEMMA LinesUnchanged ==
    ASSUME InputInv, UNCHANGED << saved, _buffer, _dataToSend, iter, executed >>
    PROVE  LinesInOrder' /\ (HasLine' <=> HasLine) /\ (HasQuit(executed)' <=> HasQuit(executed))
BY DEF InputInv, LinesInOrder, SplitLines, HasLine, HasQuit

\* What one recv() reads and what of it is saved: the first n bytes of the kernel's,
\* and of these the first f, up to a byte 0.
LEMMA ReadProperties ==
    ASSUME InputTyped, ReceiveBytes
    PROVE  \E n \in 1 .. Len(kernel), f \in 0 .. Len(kernel) :
             /\ n <= BUFFER_SIZE /\ f <= n
             /\ f = n \/ kernel[f + 1] = NUL
             /\ \A i \in 1 .. f : kernel[i] # NUL
             /\ kernel' = SubSeq(kernel, n + 1, Len(kernel))
             /\ saved' = saved \o SubSeq(kernel, 1, f)
             /\ _buffer' = _buffer \o SubSeq(kernel, 1, f)
<1> DEFINE n == Min({BUFFER_SIZE, Len(kernel)})
<1>1. /\ kernel' = SubSeq(kernel, n + 1, Len(kernel))
      /\ saved' = saved \o CString(SubSeq(kernel, 1, n))
      /\ _buffer' = _buffer \o CString(SubSeq(kernel, 1, n))
  BY DEF ReceiveBytes
<1>2. kernel \in Seq(Byte) /\ Len(kernel) \in Nat \ {0} /\ BUFFER_SIZE \in Nat \ {0}
  <2>1. kernel \in Seq(Byte) /\ kernel # << >> /\ BUFFER_SIZE \in Nat \ {0}
    BY InputAssumption DEF InputTyped, ReceiveBytes
  <2>2. Len(kernel) \in Nat
    BY <2>1, LenProperties
  <2>3. Len(kernel) # 0
    BY <2>1, EmptySeq
  <2>4. QED
    BY <2>1, <2>2, <2>3
<1>3. n \in 1 .. Len(kernel) /\ n <= BUFFER_SIZE
  <2>1. {BUFFER_SIZE, Len(kernel)} \in SUBSET Nat /\ {BUFFER_SIZE, Len(kernel)} # {}
    BY <1>2
  <2>2. /\ n \in {BUFFER_SIZE, Len(kernel)}
        /\ \A y \in {BUFFER_SIZE, Len(kernel)} : n <= y
    BY <2>1, MinOfNaturals
  <2> HIDE DEF n
  <2>3. QED
    BY <1>2, <2>2
<1> HIDE DEF n
<1>4. n \in 0 .. Len(kernel) /\ n \in Nat
  BY <1>2, <1>3
<1> DEFINE u == SubSeq(kernel, 1, n)
<1>5. /\ u \in Seq(Byte) /\ Len(u) = n
      /\ \A i \in 1 .. n : u[i] = kernel[i]
      /\ \A f \in 0 .. n : SubSeq(u, 1, f) = SubSeq(kernel, 1, f)
  BY <1>2, <1>4, FirstElements
<1>6. CString(u) = CString(SubSeq(kernel, 1, n))
  OBVIOUS
<1> HIDE DEF u
<1>7. PICK f \in 0 .. Len(u) :
        /\ CString(u) = SubSeq(u, 1, f) /\ \A i \in 1 .. f : u[i] # NUL
        /\ f = Len(u) \/ u[f + 1] = NUL
  BY <1>5, CStringProperties
<1>8. f \in 0 .. n /\ f \in 0 .. Len(kernel) /\ f <= n
  BY <1>2, <1>3, <1>4, <1>5, <1>7
<1>9. CString(SubSeq(kernel, 1, n)) = SubSeq(kernel, 1, f)
  BY <1>5, <1>6, <1>7, <1>8
<1>10. \A i \in 1 .. f : kernel[i] # NUL
  BY <1>4, <1>5, <1>7, <1>8
<1>11. f = n \/ kernel[f + 1] = NUL
  <2>1. CASE f # n
    <3>1. f + 1 \in 1 .. n
      BY <1>4, <1>8, <2>1
    <3>2. QED
      BY <1>5, <1>7, <2>1, <3>1
  <2>2. QED
    BY <2>1
<1>12. QED
  BY <1>1, <1>3, <1>8, <1>9, <1>10, <1>11

LEMMA ReceiveBytesStep == InputInv /\ ReceiveBytes => InputInv'
<1> SUFFICES ASSUME InputInv, ReceiveBytes
             PROVE  InputInv'
  OBVIOUS
<1>1. InputTyped /\ LinesInOrder /\ PcOK
  BY DEF InputInv
<1>2. /\ pc = "poll" /\ pc' = "split" /\ peer' = peer /\ _dataToSend' = _dataToSend
      /\ iter' = iter /\ executed' = executed /\ state' = state /\ kernel # << >>
  BY DEF ReceiveBytes
<1>3. PICK n \in 1 .. Len(kernel), f \in 0 .. Len(kernel) :
        /\ \A i \in 1 .. f : kernel[i] # NUL
        /\ kernel' = SubSeq(kernel, n + 1, Len(kernel))
        /\ saved' = saved \o SubSeq(kernel, 1, f)
        /\ _buffer' = _buffer \o SubSeq(kernel, 1, f)
  BY <1>1, ReadProperties
<1>4. kernel \in Seq(Byte) /\ saved \in Seq(Byte) /\ _buffer \in Seq(Byte)
  BY <1>1 DEF InputTyped
<1>5. PICK t : t = SubSeq(kernel, 1, f)
  OBVIOUS
<1>6. t \in Seq(Byte) /\ Len(t) = f /\ f \in Nat /\ \A i \in 1 .. f : t[i] # NUL
  <2>1. t \in Seq(Byte) /\ Len(t) = f /\ \A i \in 1 .. f : t[i] = kernel[i]
    BY <1>4, <1>5, FirstElements
  <2>2. f \in Nat
    BY <1>4, LenProperties
  <2>3. QED
    BY <1>3, <2>1, <2>2
<1>7. saved' = saved \o t /\ _buffer' = _buffer \o t
  BY <1>3, <1>5
<1>8. /\ saved' \in Seq(Byte) /\ _buffer' \in Seq(Byte)
      /\ kernel' \in Seq(Byte)
  <2>1. n \in 0 .. Len(kernel)
    BY <1>4, LenProperties
  <2>2. kernel' \in Seq(Byte)
    BY <1>3, <1>4, <2>1, RestProperties
  <2>3. QED
    BY <1>4, <1>6, <1>7, <2>2, ConcatProperties
<1>9. InputTyped'
  BY <1>1, <1>2, <1>8 DEF InputTyped
\* The lines.
<1>10. PICK k \in 0 .. Len(Ends(saved)) : k = SplitLines
  BY <1>1, InputNumbers
<1>11. /\ Len(executed) \in Nat /\ Len(_dataToSend) \in Nat /\ iter \in Nat /\ iter >= 1
       /\ Len(Ends(saved)) \in Nat /\ Len(executed) <= k /\ CutAfter(saved, k) \in 0 .. Len(saved)
       /\ DOMAIN executed = 1 .. Len(executed)
  BY <1>1, <1>10, InputNumbers
<1>12. /\ Len(Ends(saved)) <= Len(Ends(saved \o t)) /\ Len(Ends(saved \o t)) \in Nat
       /\ CutAfter(saved \o t, k) = CutAfter(saved, k)
       /\ \A j \in 1 .. k : LinesOf(saved \o t)[j] = LinesOf(saved)[j]
  <2>1. /\ Len(Ends(saved)) <= Len(Ends(saved \o t))
        /\ \A j \in 0 .. Len(Ends(saved)) : CutAfter(saved \o t, j) = CutAfter(saved, j)
        /\ \A j \in 1 .. Len(Ends(saved)) : LinesOf(saved \o t)[j] = LinesOf(saved)[j]
    BY <1>4, <1>6, LinesOfConcat
  <2>2. \A j \in 1 .. k : j \in 1 .. Len(Ends(saved))
    BY <1>11
  <2>3. Len(Ends(saved \o t)) \in Nat
    BY <1>7, <1>8, EndsProperties
  <2>4. QED
    BY <2>1, <2>2, <2>3
<1>13. SplitLines' = k
  BY <1>2, <1>10 DEF SplitLines
<1>14. _buffer = Behind(saved, CutAfter(saved, k))
  BY <1>1, <1>10 DEF LinesInOrder
<1>15. _buffer' = Behind(saved \o t, CutAfter(saved \o t, k))
  <2>1. PICK c \in 0 .. Len(saved) : c = CutAfter(saved, k)
    BY <1>11
  <2>2. SubSeq(saved, c + 1, Len(saved)) \o t = SubSeq(saved \o t, c + 1, Len(saved \o t))
    BY <1>4, <1>6, RestOfConcat
  <2>3. QED
    BY <1>7, <1>12, <1>14, <2>1, <2>2 DEF Behind
<1>16. \A i \in DOMAIN executed : executed[i] = LinesOf(saved \o t)[i]
  <2>1. \A i \in DOMAIN executed : i \in 1 .. k
    BY <1>11
  <2>2. QED
    BY <1>1, <1>12, <2>1 DEF LinesInOrder
<1>17. \A i \in iter .. Len(_dataToSend) :
         _dataToSend[i] = LinesOf(saved \o t)[Len(executed) + i + 1 - iter]
  <2>1. \A i \in iter .. Len(_dataToSend) : Len(executed) + i + 1 - iter \in 1 .. k
    BY <1>10, <1>11 DEF SplitLines
  <2>2. QED
    BY <1>1, <1>12, <2>1 DEF LinesInOrder
<1>18. LinesInOrder'
  <2>1. SplitLines' <= Len(Ends(saved \o t))
    BY <1>11, <1>12, <1>13
  <2>2. QED
    BY <1>2, <1>7, <1>13, <1>15, <1>16, <1>17, <2>1 DEF LinesInOrder
<1>19. PcOK'
  <2>1. NUL \notin ToSet(saved \o t)
    <3>1. SUFFICES ASSUME NEW i \in 1 .. (Len(saved) + Len(t))
                   PROVE  (saved \o t)[i] # NUL
      <4>1. DOMAIN (saved \o t) = 1 .. (Len(saved) + Len(t))
        <5>1. saved \o t \in Seq(Byte) /\ Len(saved \o t) = Len(saved) + Len(t)
          BY <1>4, <1>6, ConcatProperties
        <5>2. DOMAIN (saved \o t) = 1 .. Len(saved \o t)
          BY <5>1, LenProperties
        <5>3. QED
          BY <5>1, <5>2
      <4>2. QED
        BY <4>1 DEF ToSet
    <3>2. (saved \o t)[i] = IF i <= Len(saved) THEN saved[i] ELSE t[i - Len(saved)]
      BY <1>4, <1>6, ConcatProperties
    <3>3. Len(saved) \in Nat /\ DOMAIN saved = 1 .. Len(saved)
      BY <1>4, LenProperties
    <3>4. CASE i <= Len(saved)
      <4>1. i \in DOMAIN saved
        BY <1>6, <3>3, <3>4
      <4>2. QED
        BY <1>1, <3>2, <3>4, <4>1 DEF PcOK, ToSet
    <3>5. CASE ~ (i <= Len(saved))
      <4>1. i - Len(saved) \in 1 .. f
        BY <1>6, <3>3, <3>5
      <4>2. QED
        BY <1>6, <3>2, <3>5, <4>1
    <3>6. QED
      BY <3>4, <3>5
  <2>2. state' = "DELETE" => HasQuit(executed)'
    BY <1>1, <1>2 DEF PcOK, HasQuit
  <2>3. QED
    BY <1>1, <1>2, <1>7, <2>1, <2>2 DEF PcOK
<1>20. QED
  BY <1>9, <1>18, <1>19 DEF InputInv

\* One line split off: the next one.
LEMMA SplitLineStep == InputInv /\ SplitLine => InputInv'
<1> SUFFICES ASSUME InputInv, SplitLine
             PROVE  InputInv'
  OBVIOUS
<1>1. InputTyped /\ LinesInOrder /\ PcOK
  BY DEF InputInv
<1>2. /\ pc = "split" /\ HasLine /\ pc' = "split" /\ iter = 1 /\ iter' = 1
      /\ kernel' = kernel /\ saved' = saved /\ peer' = peer /\ executed' = executed /\ state' = state
      /\ _dataToSend' = Append(_dataToSend, SubSeq(_buffer, 1, pos - 1))
      /\ _buffer' = SubSeq(_buffer, pos + 1, Len(_buffer))
  BY <1>1 DEF SplitLine, PcOK
<1>3. saved \in Seq(Byte) /\ _buffer \in Seq(Byte) /\ _dataToSend \in Seq(Seq(Byte))
  BY <1>1 DEF InputTyped
<1>4. PICK p \in 1 .. Len(_buffer) :
        p = pos /\ _buffer[p] = END_MSG /\ \A i \in 1 .. Len(_buffer) : _buffer[i] = END_MSG => p <= i
  <2> DEFINE I == { i \in 1 .. Len(_buffer) : _buffer[i] = END_MSG }
             p == Min(I)
  <2>1. END_MSG \in ToSet(_buffer)
    BY <1>2 DEF HasLine
  <2>2. /\ p \in 1 .. Len(_buffer) /\ _buffer[p] = END_MSG
        /\ \A i \in 1 .. Len(_buffer) : _buffer[i] = END_MSG => p <= i
    BY <1>3, <2>1, FirstPosition
  <2>3. I # {}
    BY <2>2
  <2>4. pos = p
    BY <2>3 DEF pos, SelectInSeq
  <2> HIDE DEF I, p
  <2>5. QED
    BY <2>2, <2>4
<1>5. PICK k \in 0 .. Len(Ends(saved)) : k = SplitLines
  BY <1>1, InputNumbers
<1>6. /\ Len(executed) \in Nat /\ Len(_dataToSend) \in Nat /\ Len(Ends(saved)) \in Nat
      /\ k = Len(executed) + Len(_dataToSend) /\ Len(saved) \in Nat
  BY <1>1, <1>2, <1>5, InputNumbers DEF SplitLines
<1>7. _buffer = Behind(saved, CutAfter(saved, k))
  BY <1>1, <1>5 DEF LinesInOrder
<1>8. /\ k < Len(Ends(saved))
      /\ SubSeq(_buffer, 1, p - 1) = LinesOf(saved)[k + 1]
      /\ SubSeq(_buffer, p + 1, Len(_buffer)) = Behind(saved, CutAfter(saved, k + 1))
  <2>1. END_MSG \in ToSet(_buffer)
    BY <1>2 DEF HasLine
  <2>2. k < Len(Ends(saved))
    BY <1>3, <1>7, <2>1, NextLine
  <2>3. IsFirstEnd(_buffer, p)
    BY <1>4 DEF IsFirstEnd
  <2>4. QED
    <3>1. PICK n : n = k + 1
      OBVIOUS
    <3>2. Before(_buffer, p) = LinesOf(saved)[n] /\ Behind(_buffer, p) = Behind(saved, CutAfter(saved, n))
      BY <1>3, <1>7, <2>2, <2>3, <3>1, NextLine
    <3>3. QED
      BY <2>2, <3>1, <3>2 DEF Before, Behind
<1>9. PICK line : line = LinesOf(saved)[k + 1]
  OBVIOUS
<1>10. line \in Seq(Byte) /\ _dataToSend' = Append(_dataToSend, line)
  <2>1. k + 1 \in 1 .. Len(Ends(saved))
    BY <1>6, <1>8
  <2>2. LinesOf(saved)[k + 1] \in Seq(Byte)
    BY <1>3, <2>1, LinesOfProperties, ElementOfSeq
  <2>3. QED
    BY <1>2, <1>4, <1>8, <1>9, <2>2
<1>11. /\ _dataToSend' \in Seq(Seq(Byte)) /\ Len(_dataToSend') = Len(_dataToSend) + 1
       /\ \A i \in 1 .. Len(_dataToSend) : _dataToSend'[i] = _dataToSend[i]
       /\ _dataToSend'[Len(_dataToSend) + 1] = line
  BY <1>3, <1>10, AppendProperties
<1>12. _buffer' \in Seq(Byte)
  <2>1. p \in 0 .. Len(_buffer)
    BY <1>3, LenProperties
  <2>2. SubSeq(_buffer, p + 1, Len(_buffer)) \in Seq(Byte)
    BY <1>3, <2>1, RestProperties
  <2>3. QED
    BY <1>2, <1>4, <2>2
<1>13. InputTyped'
  <2>1. iter' \in 1 .. (Len(_dataToSend') + 1)
    BY <1>2, <1>6, <1>11
  <2>2. QED
    BY <1>1, <1>2, <1>11, <1>12, <2>1 DEF InputTyped
<1>14. SplitLines' = k + 1
  BY <1>2, <1>6, <1>11 DEF SplitLines
<1>15. LinesInOrder'
  <2>1. SplitLines' <= Len(Ends(saved))
    BY <1>6, <1>8, <1>14
  <2>2. ASSUME NEW i \in 1 .. (Len(_dataToSend) + 1)
        PROVE  _dataToSend'[i] = LinesOf(saved)[Len(executed) + i + 1 - 1]
    <3>1. CASE i = Len(_dataToSend) + 1
      <4>1. Len(executed) + i + 1 - 1 = k + 1
        BY <1>6, <3>1
      <4>2. QED
        BY <1>9, <1>11, <3>1, <4>1
    <3>2. CASE i # Len(_dataToSend) + 1
      <4>1. i \in 1 .. Len(_dataToSend)
        BY <1>6, <3>2
      <4>2. _dataToSend[i] = LinesOf(saved)[Len(executed) + i + 1 - 1]
        BY <1>1, <1>2, <4>1 DEF LinesInOrder
      <4>3. QED
        BY <1>11, <4>1, <4>2
    <3>3. QED
      BY <3>1, <3>2
  <2>3. _buffer' = Behind(saved, CutAfter(saved, k + 1))
    BY <1>2, <1>4, <1>8
  <2>4. \A i \in DOMAIN executed : executed[i] = LinesOf(saved)[i]
    BY <1>1 DEF LinesInOrder
  <2>5. QED
    BY <1>2, <1>11, <1>14, <2>1, <2>2, <2>3, <2>4 DEF LinesInOrder
<1>16. PcOK'
  BY <1>1, <1>2 DEF PcOK, HasQuit
<1>17. QED
  BY <1>13, <1>15, <1>16 DEF InputInv

\* One line executed: the next one.
LEMMA InvokeLineStep == InputInv /\ InvokeLine => InputInv'
<1> SUFFICES ASSUME InputInv, InvokeLine
             PROVE  InputInv'
  OBVIOUS
<1>1. InputTyped /\ LinesInOrder /\ PcOK
  BY DEF InputInv
<1>2. PICK line : line = _dataToSend[iter]
  OBVIOUS
<1>3. /\ pc = "invoke" /\ pc' = "invoke" /\ iter \in DOMAIN _dataToSend /\ iter' = iter + 1
      /\ executed' = Append(executed, line)
      /\ state' = IF line = << QUIT >> THEN "DELETE" ELSE state
      /\ kernel' = kernel /\ saved' = saved /\ peer' = peer
      /\ _buffer' = _buffer /\ _dataToSend' = _dataToSend
  BY <1>2 DEF InvokeLine
<1>4. /\ Len(executed) \in Nat /\ DOMAIN executed = 1 .. Len(executed)
      /\ Len(_dataToSend) \in Nat /\ DOMAIN _dataToSend = 1 .. Len(_dataToSend)
      /\ iter \in Nat /\ iter >= 1
  BY <1>1, InputNumbers
<1>5. /\ executed \in Seq(Seq(Byte)) /\ line \in Seq(Byte)
  <2>1. executed \in Seq(Seq(Byte)) /\ _dataToSend \in Seq(Seq(Byte))
    BY <1>1 DEF InputTyped
  <2>2. QED
    BY <1>2, <1>3, <1>4, <2>1, ElementOfSeq
<1>6. /\ executed' \in Seq(Seq(Byte)) /\ Len(executed') = Len(executed) + 1
      /\ \A i \in 1 .. Len(executed) : executed'[i] = executed[i]
      /\ executed'[Len(executed) + 1] = line
  BY <1>3, <1>5, AppendProperties
<1>7. DOMAIN executed' = 1 .. (Len(executed) + 1)
  BY <1>6, LenProperties
<1>8. InputTyped'
  <2>1. iter' \in 1 .. (Len(_dataToSend) + 1)
    BY <1>3, <1>4
  <2>2. QED
    BY <1>1, <1>3, <1>6, <2>1 DEF InputTyped
<1>9. SplitLines' = SplitLines
  BY <1>3, <1>4, <1>6 DEF SplitLines
<1>10. LinesInOrder'
  <2>1. line = LinesOf(saved)[Len(executed) + 1]
    <3>1. iter \in iter .. Len(_dataToSend) /\ Len(executed) + iter + 1 - iter = Len(executed) + 1
      BY <1>3, <1>4
    <3>2. _dataToSend[iter] = LinesOf(saved)[Len(executed) + iter + 1 - iter]
      BY <1>1, <3>1 DEF LinesInOrder
    <3>3. QED
      BY <1>2, <3>1, <3>2
  <2>2. ASSUME NEW i \in 1 .. (Len(executed) + 1)
        PROVE  executed'[i] = LinesOf(saved)[i]
    <3>1. CASE i = Len(executed) + 1
      BY <1>6, <2>1, <3>1
    <3>2. CASE i # Len(executed) + 1
      <4>1. i \in 1 .. Len(executed)
        BY <1>4, <3>2
      <4>2. QED
        BY <1>1, <1>4, <1>6, <4>1 DEF LinesInOrder
    <3>3. QED
      BY <3>1, <3>2
  <2>3. ASSUME NEW i \in (iter + 1) .. Len(_dataToSend)
        PROVE  _dataToSend[i] = LinesOf(saved)[(Len(executed) + 1) + i + 1 - (iter + 1)]
    <3>1. /\ i \in iter .. Len(_dataToSend)
          /\ (Len(executed) + 1) + i + 1 - (iter + 1) = Len(executed) + i + 1 - iter
      BY <1>4
    <3>2. _dataToSend[i] = LinesOf(saved)[Len(executed) + i + 1 - iter]
      BY <1>1, <3>1 DEF LinesInOrder
    <3>3. QED
      BY <3>1, <3>2
  <2>4. /\ SplitLines <= Len(Ends(saved))
        /\ _buffer = Behind(saved, CutAfter(saved, SplitLines))
    BY <1>1 DEF LinesInOrder
  <2>5. QED
    BY <1>3, <1>6, <1>7, <1>9, <2>2, <2>3, <2>4 DEF LinesInOrder
<1>11. PcOK'
  <2>1. ~ HasLine'
    BY <1>1, <1>3 DEF PcOK, HasLine
  <2>2. ASSUME state' = "DELETE"
        PROVE  HasQuit(executed') \/ (kernel = << >> /\ peer = "closed")
    <3>1. CASE line = << QUIT >>
      <4>1. Len(executed) + 1 \in DOMAIN executed' /\ executed'[Len(executed) + 1] = << QUIT >>
        BY <1>4, <1>6, <1>7, <3>1
      <4>2. QED
        BY <4>1 DEF HasQuit
    <3>2. CASE line # << QUIT >>
      <4>1. HasQuit(executed) \/ (kernel = << >> /\ peer = "closed")
        BY <1>1, <1>3, <2>2, <3>2 DEF PcOK
      <4>2. HasQuit(executed) => HasQuit(executed')
        <5>1. \A i \in DOMAIN executed : i \in DOMAIN executed' /\ executed'[i] = executed[i]
          BY <1>4, <1>6, <1>7
        <5>2. QED
          BY <5>1 DEF HasQuit
      <4>3. QED
        BY <4>1, <4>2
    <3>3. QED
      BY <3>1, <3>2
  <2>3. QED
    BY <1>1, <1>3, <2>1, <2>2 DEF PcOK
<1>12. QED
  BY <1>8, <1>10, <1>11 DEF InputInv

LEMMA InputInvariant == InputInv /\ [Next]_vars => InputInv'
<1> SUFFICES ASSUME InputInv, [Next]_vars
             PROVE  InputInv'
  OBVIOUS
<1>1. InputTyped /\ LinesInOrder /\ PcOK
  BY DEF InputInv
<1>2. CASE ReceiveBytes
  BY <1>2, ReceiveBytesStep
<1>3. CASE ReceiveError
  <2>1. InputTyped'
    BY <1>1, <1>3 DEF InputTyped, ReceiveError
  <2>2. LinesInOrder' /\ (HasLine' <=> HasLine) /\ (HasQuit(executed)' <=> HasQuit(executed))
    BY <1>3, LinesUnchanged DEF ReceiveError
  <2>3. PcOK'
    BY <1>1, <1>3, <2>2 DEF PcOK, ReceiveError
  <2>4. QED
    BY <2>1, <2>2, <2>3 DEF InputInv
<1>4. CASE ReceiveEof
  <2>1. InputTyped'
    BY <1>1, <1>4 DEF InputTyped, ReceiveEof
  <2>2. LinesInOrder' /\ (HasLine' <=> HasLine) /\ (HasQuit(executed)' <=> HasQuit(executed))
    BY <1>4, LinesUnchanged DEF ReceiveEof
  <2>3. PcOK'
    BY <1>1, <1>4, <2>2 DEF PcOK, ReceiveEof
  <2>4. QED
    BY <2>1, <2>2, <2>3 DEF InputInv
<1>5. CASE SplitLine
  BY <1>5, SplitLineStep
<1>6. CASE EndOfSplit
  <2>1. InputTyped'
    BY <1>1, <1>6 DEF InputTyped, EndOfSplit
  <2>2. LinesInOrder' /\ (HasLine' <=> HasLine) /\ (HasQuit(executed)' <=> HasQuit(executed))
    BY <1>6, LinesUnchanged DEF EndOfSplit
  <2>3. PcOK'
    BY <1>1, <1>6, <2>2 DEF PcOK, EndOfSplit
  <2>4. QED
    BY <2>1, <2>2, <2>3 DEF InputInv
<1>7. CASE InvokeLine
  BY <1>7, InvokeLineStep
<1>8. CASE EndOfInvoke
  <2>1. /\ pc = "invoke" /\ iter \notin DOMAIN _dataToSend /\ _dataToSend' = << >> /\ iter' = 1
        /\ pc' = "return"
        /\ UNCHANGED << kernel, saved, peer, _buffer, executed, state >>
    BY <1>8 DEF EndOfInvoke
  <2>2. /\ Len(executed) \in Nat /\ Len(_dataToSend) \in Nat
        /\ DOMAIN _dataToSend = 1 .. Len(_dataToSend) /\ iter \in Nat
        /\ iter >= 1 /\ iter <= Len(_dataToSend) + 1
    BY <1>1, InputNumbers
  <2>3. SplitLines = Len(executed) /\ SplitLines' = Len(executed)
    BY <2>1, <2>2 DEF SplitLines
  <2>4. InputTyped'
    BY <1>1, <2>1 DEF InputTyped
  <2>5. LinesInOrder'
    BY <1>1, <2>1, <2>3 DEF LinesInOrder
  <2>6. PcOK'
    BY <1>1, <2>1 DEF PcOK, HasLine, HasQuit
  <2>7. QED
    BY <2>4, <2>5, <2>6 DEF InputInv
<1>9. CASE Return
  <2>1. InputTyped'
    BY <1>1, <1>9 DEF InputTyped, Return
  <2>2. LinesInOrder' /\ (HasLine' <=> HasLine) /\ (HasQuit(executed)' <=> HasQuit(executed))
    BY <1>9, LinesUnchanged DEF Return
  <2>3. PcOK'
    BY <1>1, <1>9, <2>2 DEF PcOK, Return
  <2>4. QED
    BY <2>1, <2>2, <2>3 DEF InputInv
<1>10. ASSUME NEW b \in Byte, ClientSends(b)
       PROVE  InputInv'
  <2>1. kernel \in Seq(Byte) /\ kernel' = Append(kernel, b)
    BY <1>1, <1>10 DEF InputTyped, ClientSends
  <2>2. kernel' \in Seq(Byte)
    BY <2>1, AppendProperties
  <2>3. InputTyped'
    BY <1>1, <1>10, <2>2 DEF InputTyped, ClientSends
  <2>4. LinesInOrder' /\ (HasLine' <=> HasLine) /\ (HasQuit(executed)' <=> HasQuit(executed))
    BY <1>10, LinesUnchanged DEF ClientSends
  <2>5. PcOK'
    BY <1>1, <1>10, <2>4 DEF PcOK, ClientSends
  <2>6. QED
    BY <2>3, <2>4, <2>5 DEF InputInv
<1>11. ASSUME NEW how \in {"closed", "reset"}, ClientLeaves(how)
       PROVE  InputInv'
  <2>1. InputTyped'
    BY <1>1, <1>11 DEF InputTyped, ClientLeaves
  <2>2. LinesInOrder' /\ (HasLine' <=> HasLine) /\ (HasQuit(executed)' <=> HasQuit(executed))
    BY <1>11, LinesUnchanged DEF ClientLeaves
  <2>3. PcOK'
    BY <1>1, <1>11, <2>2 DEF PcOK, ClientLeaves
  <2>4. QED
    BY <2>1, <2>2, <2>3 DEF InputInv
<1>12. CASE UNCHANGED vars
  BY <1>1, <1>12 DEF InputInv, InputTyped, LinesInOrder, PcOK, SplitLines, HasLine, HasQuit, vars
<1>13. QED
  BY <1>2, <1>3, <1>4, <1>5, <1>6, <1>7, <1>8, <1>9, <1>10, <1>11, <1>12
     DEF Next, Process, Client

LEMMA InputAlways == Spec => []InputInv
BY InputInit, InputInvariant, PTL DEF Spec

-----------------------------------------------------------------------------
\* When no line waits anywhere, what was executed is what was saved.
LEMMA AllExecuted ==
    ASSUME InputInv, _dataToSend = << >>, iter = 1, ~ HasLine
    PROVE  executed = LinesOf(saved) /\ _buffer = RestOf(saved)
<1>1. InputTyped /\ LinesInOrder
  BY DEF InputInv
<1>2. saved \in Seq(Byte) /\ executed \in Seq(Seq(Byte))
  BY <1>1 DEF InputTyped
<1>3. PICK k \in 0 .. Len(Ends(saved)) : k = SplitLines
  BY <1>1, InputNumbers
<1>4. /\ Len(executed) \in Nat /\ DOMAIN executed = 1 .. Len(executed)
      /\ Len(Ends(saved)) \in Nat /\ k = Len(executed)
  BY <1>1, <1>3, InputNumbers DEF SplitLines
<1>5. _buffer = Behind(saved, CutAfter(saved, k))
  BY <1>1, <1>3 DEF LinesInOrder
<1>6. k = Len(Ends(saved))
  <2>1. ~ (k < Len(Ends(saved)))
    BY <1>2, <1>5, NextLine DEF HasLine
  <2>2. QED
    BY <1>4, <2>1
<1>7. executed = LinesOf(saved)
  <2>1. LinesOf(saved) \in Seq(Seq(Byte)) /\ Len(LinesOf(saved)) = Len(Ends(saved))
    BY <1>2, LinesOfProperties
  <2>2. Len(executed) = Len(LinesOf(saved))
    BY <1>4, <1>6, <2>1
  <2>3. \A i \in 1 .. Len(executed) : executed[i] = LinesOf(saved)[i]
    BY <1>1, <1>4 DEF LinesInOrder
  <2>4. QED
    BY <1>2, <2>1, <2>2, <2>3, SeqEqual
<1>8. _buffer = RestOf(saved)
  <2>1. Ends(saved) \in Seq(Nat)
    BY <1>2, EndsProperties
  <2>2. CASE Ends(saved) = << >>
    <3>1. k = 0
      BY <1>6, <2>2, EmptySeq
    <3>2. CutAfter(saved, k) + 1 = 1
      BY <3>1 DEF CutAfter
    <3>3. QED
      BY <1>5, <2>2, <3>2 DEF RestOf, Behind
  <2>3. CASE Ends(saved) # << >>
    <3>1. k # 0
      BY <1>6, <2>1, <2>3, EmptySeq
    <3>2. CutAfter(saved, k) = Last(Ends(saved))
      BY <1>6, <3>1 DEF CutAfter, Last
    <3>3. QED
      BY <1>5, <2>3, <3>2 DEF RestOf, Behind
  <2>4. QED
    BY <2>2, <2>3
<1>9. QED
  BY <1>7, <1>8

\* Between two calls of onUser everything that was saved has been dealt with: every
\* complete line has been executed, also those behind a QUIT in the same read, and
\* _buffer is the line that was begun (User::receive, split, invoke).
THEOREM NoLineWaits == Spec => []NothingWaits
<1>1. InputInv => NothingWaits
  <2> SUFFICES ASSUME InputInv, pc = "poll"
               PROVE  executed = LinesOf(saved) /\ _buffer = RestOf(saved)
    BY DEF NothingWaits
  <2>1. _dataToSend = << >> /\ iter = 1 /\ ~ HasLine
    BY DEF InputInv, PcOK
  <2>2. QED
    BY <2>1, AllExecuted
<1>2. QED
  BY <1>1, InputAlways, PTL

-----------------------------------------------------------------------------
(* Every step is one that Lines.tla allows.                                *)

\* The operators of Lines.tla are those of InputStream.tla.
LEMMA SameOperators ==
    ASSUME NEW s, NEW t
    PROVE  /\ Abstract!LinesOf(s) = LinesOf(s) /\ Abstract!CString(s) = CString(s)
           /\ Abstract!IsPrefix(s, t) = IsPrefix(s, t) /\ Abstract!HasQuit(s) = HasQuit(s)
<1>1. \A S : Abstract!Cardinality(S) = Cardinality(S)
  BY DEF Abstract!Cardinality, Cardinality
<1>2. \A S, x : Abstract!Rank(S, x) = Rank(S, x)
  BY <1>1 DEF Abstract!Rank, Rank
<1>3. \A S : Abstract!Ascending(S) = Ascending(S)
  BY <1>1, <1>2 DEF Abstract!Ascending, Ascending
<1>4. Abstract!Ends(s) = Ends(s)
  BY <1>3 DEF Abstract!Ends, Ends
<1>5. Abstract!LinesOf(s) = LinesOf(s)
  BY <1>4 DEF Abstract!LinesOf, LinesOf
<1>6. Abstract!CString(s) = CString(s)
  BY DEF Abstract!CString, CString, Abstract!SelectInSeq, SelectInSeq, Abstract!ToSet, ToSet,
         Abstract!Min, Min
<1>7. Abstract!IsPrefix(s, t) = IsPrefix(s, t)
  BY DEF Abstract!IsPrefix, IsPrefix
<1>8. Abstract!HasQuit(s) = HasQuit(s)
  BY DEF Abstract!HasQuit, HasQuit
<1>9. QED
  BY <1>5, <1>6, <1>7, <1>8

\* Both parts of a concatenation, cut out again.
LEMMA PartsOfConcat ==
    ASSUME NEW S, NEW s \in Seq(S), NEW t \in Seq(S)
    PROVE  /\ SubSeq(s \o t, 1, Len(s)) = s
           /\ SubSeq(s \o t, Len(s) + 1, Len(s \o t)) = t
<1>1. Len(s) \in Nat
  BY LenProperties
<1>2. 1 \in 1 .. (Len(s) + 1) /\ Len(s) \in 0 .. Len(s)
  BY <1>1
<1>3. SubSeq(s \o t, 1, Len(s)) = s
  <2>1. SubSeq(s \o t, 1, Len(s)) = SubSeq(s, 1, Len(s))
    BY <1>2, PartOfConcat
  <2>2. QED
    BY <2>1, SubSeqFull
<1>4. SubSeq(s, Len(s) + 1, Len(s)) \o t = SubSeq(s \o t, Len(s) + 1, Len(s \o t))
  BY <1>2, RestOfConcat
<1>5. SubSeq(s, Len(s) + 1, Len(s)) = << >>
  <2>1. Len(s) + 1 \in Int /\ Len(s) \in Int /\ Len(s) < Len(s) + 1
    BY <1>1
  <2>2. QED
    BY <2>1, SubSeqEmpty
<1>6. << >> \o t = t
  BY ConcatEmptySeq
<1>7. QED
  BY <1>3, <1>4, <1>5, <1>6

\* The first n elements and the others make up s.
LEMMA SplitAt ==
    ASSUME NEW S, NEW s \in Seq(S), NEW n \in 0 .. Len(s)
    PROVE  SubSeq(s, 1, n) \o SubSeq(s, n + 1, Len(s)) = s
<1>1. Len(s) \in Nat
  BY LenProperties
<1>2. 1 \in 1 .. Len(s) + 1 /\ n \in (1 - 1) .. Len(s) /\ Len(s) \in n .. Len(s)
  BY <1>1
<1>3. SubSeq(s, 1, n) \o SubSeq(s, n + 1, Len(s)) = SubSeq(s, 1, Len(s))
  BY <1>2, ConcatAdjacentSubSeq
<1>4. QED
  BY <1>3, SubSeqFull

\* No byte 0 in s: a C string that begins with s reaches beyond it.
LEMMA CStringOfConcat ==
    ASSUME NEW S, NEW s \in Seq(S), NEW t \in Seq(S), NUL \notin ToSet(s)
    PROVE  \E u \in Seq(S) : CString(s \o t) = s \o u
<1> DEFINE v == s \o t
<1>1. /\ v \in Seq(S) /\ Len(v) = Len(s) + Len(t) /\ Len(s) \in Nat /\ Len(t) \in Nat
      /\ DOMAIN s = 1 .. Len(s) /\ \A i \in 1 .. Len(s) : v[i] = s[i]
  <2>1. Len(s) \in Nat /\ Len(t) \in Nat /\ DOMAIN s = 1 .. Len(s)
    BY LenProperties
  <2>2. QED
    BY <2>1, ConcatProperties
<1>2. SubSeq(v, 1, Len(s)) = s
  BY PartsOfConcat
<1> HIDE DEF v
<1>3. PICK f \in 0 .. Len(v) :
        CString(v) = SubSeq(v, 1, f) /\ (f = Len(v) \/ v[f + 1] = NUL)
  BY <1>1, CStringProperties
<1>4. f >= Len(s)
  <2>1. SUFFICES ASSUME f < Len(s)
                 PROVE  FALSE
    BY <1>1, <1>3
  <2>2. f + 1 \in 1 .. Len(s) /\ f # Len(v)
    BY <1>1, <2>1
  <2>3. s[f + 1] = NUL
    BY <1>1, <1>3, <2>2
  <2>4. QED
    BY <1>1, <2>2, <2>3 DEF ToSet
<1>5. /\ 1 \in 1 .. Len(v) + 1 /\ Len(s) \in (1 - 1) .. Len(v) /\ f \in Len(s) .. Len(v)
      /\ \A i \in (Len(s) + 1) .. f : i \in 1 .. Len(v)
  BY <1>1, <1>3, <1>4
<1>6. SubSeq(v, 1, Len(s)) \o SubSeq(v, Len(s) + 1, f) = SubSeq(v, 1, f)
  BY <1>1, <1>5, ConcatAdjacentSubSeq
<1>7. SubSeq(v, Len(s) + 1, f) \in Seq(S)
  <2>1. Len(s) + 1 \in Int /\ f \in Int /\ \A i \in (Len(s) + 1) .. f : v[i] \in S
    BY <1>1, <1>3, <1>5, ElementOfSeq
  <2>2. QED
    BY <2>1, SubSeqProperties
<1>8. CString(v) = s \o SubSeq(v, Len(s) + 1, f)
  BY <1>2, <1>3, <1>6
<1>9. QED
  BY <1>7, <1>8 DEF v

\* What was executed is the beginning of the lines of what the saved bytes begin.
LEMMA ExecutedIsPrefix ==
    ASSUME InputInv, NEW t \in Seq(Byte)
    PROVE  IsPrefix(executed, LinesOf(saved \o t))
<1> DEFINE lines == LinesOf(saved \o t)
           a == SubSeq(executed, 1, Len(executed))
           b == SubSeq(lines, 1, Len(executed))
<1>1. /\ InputTyped /\ LinesInOrder /\ saved \in Seq(Byte) /\ executed \in Seq(Seq(Byte))
      /\ saved \o t \in Seq(Byte)
  BY ConcatProperties DEF InputInv, InputTyped
<1>2. /\ Len(executed) \in Nat /\ DOMAIN executed = 1 .. Len(executed)
      /\ Len(Ends(saved)) \in Nat /\ Len(executed) <= Len(Ends(saved))
  BY <1>1, InputNumbers
<1>3. /\ Len(Ends(saved)) <= Len(Ends(saved \o t))
      /\ \A k \in 1 .. Len(Ends(saved)) : lines[k] = LinesOf(saved)[k]
  BY <1>1, LinesOfConcat
<1>4. lines \in Seq(Seq(Byte)) /\ Len(lines) = Len(Ends(saved \o t))
  BY <1>1, LinesOfProperties
<1> HIDE DEF lines
<1>5. Len(lines) \in Nat
  BY <1>4, LenProperties
<1>6. Len(executed) <= Len(lines) /\ Len(executed) \in 0 .. Len(lines)
  BY <1>2, <1>3, <1>4, <1>5
<1>7. b \in Seq(Seq(Byte)) /\ Len(b) = Len(executed) /\ \A i \in 1 .. Len(executed) : b[i] = lines[i]
  BY <1>4, <1>6, FirstElements
<1>8. a = executed
  BY <1>1, SubSeqFull
<1> HIDE DEF a, b
<1>9. \A i \in 1 .. Len(executed) : executed[i] = b[i]
  <2>1. \A i \in 1 .. Len(executed) : i \in 1 .. Len(Ends(saved)) /\ i \in DOMAIN executed
    BY <1>2
  <2>2. QED
    BY <1>1, <1>3, <1>7, <2>1 DEF LinesInOrder
<1>10. executed = b
  BY <1>1, <1>7, <1>9, SeqEqual
<1>11. QED
  BY <1>6, <1>8, <1>10 DEF IsPrefix, a, b, lines

\* A read is no step of Lines.tla, or the loss of what follows a byte 0.
LEMMA ReadIsAllowed ==
    ASSUME InputInv, ReceiveBytes
    PROVE  Abstract!Lose \/ UNCHANGED Abstract!vars
<1>1. InputTyped /\ kernel \in Seq(Byte) /\ saved \in Seq(Byte)
  BY DEF InputInv, InputTyped
<1>2. PICK n \in 1 .. Len(kernel), f \in 0 .. Len(kernel) :
        /\ n <= BUFFER_SIZE /\ f <= n
        /\ f = n \/ kernel[f + 1] = NUL
        /\ kernel' = SubSeq(kernel, n + 1, Len(kernel))
        /\ saved' = saved \o SubSeq(kernel, 1, f)
  BY <1>1, ReadProperties
<1>3. PICK t, w, rest, u : /\ t = SubSeq(kernel, 1, f) /\ w = SubSeq(kernel, f + 1, Len(kernel))
                           /\ u = SubSeq(kernel, 1, n) /\ rest = SubSeq(kernel, n + 1, Len(kernel))
  OBVIOUS
<1>4. Len(kernel) \in Nat /\ Len(saved) \in Nat /\ n \in 0 .. Len(kernel) /\ BUFFER_SIZE \in Nat \ {0}
  BY <1>1, LenProperties, InputAssumption
<1>5. /\ t \in Seq(Byte) /\ Len(t) = f /\ w \in Seq(Byte) /\ t \o w = kernel
      /\ u \in Seq(Byte) /\ Len(u) = n /\ rest \in Seq(Byte) /\ u \o rest = kernel
  <2>1. t \in Seq(Byte) /\ Len(t) = f /\ u \in Seq(Byte) /\ Len(u) = n
    BY <1>1, <1>3, <1>4, FirstElements
  <2>2. w \in Seq(Byte) /\ rest \in Seq(Byte)
    BY <1>1, <1>3, <1>4, RestProperties
  <2>3. t \o w = kernel /\ u \o rest = kernel
    BY <1>1, <1>3, <1>4, SplitAt
  <2>4. QED
    BY <2>1, <2>2, <2>3
<1>6. /\ (saved \o t) \o rest = saved \o (t \o rest)
      /\ (saved \o t) \o w = saved \o (t \o w)
      /\ (saved \o u) \o rest = saved \o (u \o rest)
  <2>1. saved \in Seq(Byte) /\ t \in Seq(Byte) /\ u \in Seq(Byte) /\ w \in Seq(Byte) /\ rest \in Seq(Byte)
    BY <1>1, <1>5
  <2>2. \A a, b, c \in Seq(Byte) : (a \o b) \o c = a \o (b \o c)
    BY ConcatAssociative
  <2>3. QED
    BY <2>1, <2>2, Zenon
<1>7. kernel' = rest /\ saved' = saved \o t
  BY <1>2, <1>3
<1>8. executed' = executed /\ (pc' = "gone") = (pc = "gone") /\ ~ (pc = "gone")
  BY DEF ReceiveBytes
<1>9. CASE f = n
  <2>1. t = u
    BY <1>3, <1>9
  <2>2. saved' \o kernel' = saved \o kernel
    BY <1>5, <1>6, <1>7, <2>1
  <2>3. QED
    BY <1>8, <2>2 DEF Abstract!vars
<1>10. CASE f # n
  <2> DEFINE stream == saved \o kernel
             i == Len(saved) + f + 1
             m == n - f
  <2>1. /\ stream \in Seq(Byte) /\ Len(stream) = Len(saved) + Len(kernel)
        /\ \A j \in 1 .. Len(saved) + Len(kernel) :
             stream[j] = IF j <= Len(saved) THEN saved[j] ELSE kernel[j - Len(saved)]
    BY <1>1, ConcatProperties
  <2>2. DOMAIN stream = 1 .. (Len(saved) + Len(kernel))
    BY <2>1, LenProperties
  <2>3. /\ i \in 1 .. (Len(saved) + Len(kernel)) /\ i \in 1 .. Len(saved) + Len(kernel)
        /\ ~ (i <= Len(saved)) /\ i - Len(saved) = f + 1 /\ i - 1 = Len(saved) + f
    BY <1>2, <1>4, <1>10
  <2>4. /\ m \in 1 .. BUFFER_SIZE /\ i + m = Len(saved) + n + 1
        /\ Len(saved) + n + 1 <= Len(saved) + Len(kernel) + 1
    BY <1>2, <1>4, <1>10
  <2>5. stream[i] = NUL
    BY <1>2, <1>10, <2>1, <2>3
  <2>6. SubSeq(stream, 1, Len(saved) + f) = saved \o t
    <3>1. stream = (saved \o t) \o w
      BY <1>5, <1>6
    <3>2. saved \o t \in Seq(Byte) /\ Len(saved \o t) = Len(saved) + f
      BY <1>1, <1>5, ConcatProperties
    <3>3. SubSeq((saved \o t) \o w, 1, Len(saved \o t)) = saved \o t
      BY <1>5, <3>2, PartsOfConcat
    <3>4. QED
      BY <3>1, <3>2, <3>3
  <2>7. SubSeq(stream, Len(saved) + n + 1, Len(stream)) = rest
    <3>1. stream = (saved \o u) \o rest
      BY <1>5, <1>6
    <3>2. saved \o u \in Seq(Byte) /\ Len(saved \o u) = Len(saved) + n
      BY <1>1, <1>5, ConcatProperties
    <3>3. SubSeq((saved \o u) \o rest, Len(saved \o u) + 1, Len((saved \o u) \o rest)) = rest
      BY <1>5, <3>2, PartsOfConcat
    <3>4. QED
      BY <3>1, <3>2, <3>3
  <2>8. Abstract!IsPrefix(executed, Abstract!LinesOf(saved \o t))
    BY <1>5, ExecutedIsPrefix, SameOperators
  <2>9. \E j \in DOMAIN stream, k \in 1 .. BUFFER_SIZE :
          /\ stream[j] = NUL /\ j + k <= Len(stream) + 1
          /\ saved' \o kernel' = SubSeq(stream, 1, j - 1) \o SubSeq(stream, j + k, Len(stream))
          /\ Abstract!IsPrefix(executed, Abstract!LinesOf(SubSeq(stream, 1, j - 1)))
    <3>1. i \in DOMAIN stream
      BY <2>2, <2>3
    <3>2. i + m <= Len(stream) + 1
      BY <2>1, <2>4
    <3>3. SubSeq(stream, 1, i - 1) = saved \o t /\ SubSeq(stream, i + m, Len(stream)) = rest
      BY <2>3, <2>4, <2>6, <2>7
    <3>4. /\ saved' \o kernel' = SubSeq(stream, 1, i - 1) \o SubSeq(stream, i + m, Len(stream))
          /\ Abstract!IsPrefix(executed, Abstract!LinesOf(SubSeq(stream, 1, i - 1)))
      BY <1>7, <2>8, <3>3
    <3> HIDE DEF i, m, stream
    <3>5. QED
      BY <2>4, <2>5, <3>1, <3>2, <3>4
  <2>10. QED
    BY <1>8, <2>9 DEF Abstract!Lose
<1>11. QED
  BY <1>9, <1>10

\* A line is executed: the next one of the whole input.
LEMMA InvokeIsAllowed ==
    ASSUME InputInv, InvokeLine
    PROVE  Abstract!Deliver
<1>1. InputTyped /\ LinesInOrder /\ kernel \in Seq(Byte) /\ saved \in Seq(Byte) /\ NUL \notin ToSet(saved)
  BY DEF InputInv, InputTyped, PcOK
<1>2. /\ pc = "invoke" /\ pc' = "invoke" /\ iter \in DOMAIN _dataToSend
      /\ executed' = Append(executed, _dataToSend[iter])
      /\ saved' = saved /\ kernel' = kernel
  BY DEF InvokeLine
<1>3. /\ Len(executed) \in Nat /\ Len(_dataToSend) \in Nat
      /\ DOMAIN _dataToSend = 1 .. Len(_dataToSend) /\ iter \in Nat
      /\ Len(Ends(saved)) \in Nat /\ SplitLines \in 0 .. Len(Ends(saved))
  BY <1>1, InputNumbers
<1>4. PICK k : k = Len(executed) + 1
  OBVIOUS
<1>5. k \in 1 .. Len(Ends(saved)) /\ Len(executed) < Len(Ends(saved))
  BY <1>2, <1>3, <1>4 DEF SplitLines
<1>6. _dataToSend[iter] = LinesOf(saved)[k]
  <2>1. iter \in iter .. Len(_dataToSend) /\ Len(executed) + iter + 1 - iter = k
    BY <1>2, <1>3, <1>4
  <2>2. _dataToSend[iter] = LinesOf(saved)[Len(executed) + iter + 1 - iter]
    BY <1>1, <2>1 DEF LinesInOrder
  <2>3. QED
    BY <2>1, <2>2
<1>7. LinesOf(saved \o kernel)[k] = LinesOf(saved)[k]
  BY <1>1, <1>5, LinesOfConcat
<1>8. Len(executed) < Len(LinesOf(CString(saved \o kernel)))
  <2>1. PICK u \in Seq(Byte) : CString(saved \o kernel) = saved \o u
    BY <1>1, CStringOfConcat
  <2>2. saved \o u \in Seq(Byte)
    BY <1>1, ConcatProperties
  <2>3. Len(Ends(saved)) <= Len(Ends(saved \o u))
    BY <1>1, LinesOfConcat
  <2>4. Len(LinesOf(saved \o u)) = Len(Ends(saved \o u)) /\ Len(Ends(saved \o u)) \in Nat
    BY <2>2, LinesOfProperties, EndsProperties
  <2>5. QED
    BY <1>3, <1>5, <2>1, <2>3, <2>4
<1>9. executed' = Append(executed, LinesOf(saved \o kernel)[Len(executed) + 1])
  BY <1>2, <1>4, <1>6, <1>7
<1>10. QED
  BY <1>2, <1>8, <1>9, SameOperators DEF Abstract!Deliver

\* The connection ends after a QUIT or after the last line of the input.
LEMMA ReturnIsAllowed ==
    ASSUME InputInv, Return
    PROVE  Abstract!End \/ UNCHANGED Abstract!vars
<1>1. /\ pc = "return" /\ pc' = IF state = "DELETE" THEN "gone" ELSE "poll"
      /\ saved' = saved /\ kernel' = kernel /\ executed' = executed
  BY DEF Return
<1>2. CASE state # "DELETE"
  BY <1>1, <1>2 DEF Abstract!vars
<1>3. CASE state = "DELETE"
  <2>1. _dataToSend = << >> /\ iter = 1 /\ ~ HasLine
    BY <1>1 DEF InputInv, PcOK
  <2>2. executed = LinesOf(saved) /\ saved \in Seq(Byte)
    BY <2>1, AllExecuted DEF InputInv, InputTyped
  <2>3. HasQuit(executed) \/ kernel = << >>
    BY <1>3 DEF InputInv, PcOK
  <2>4. kernel = << >> => executed = LinesOf(saved \o kernel)
    BY <2>2, ConcatEmptySeq
  <2>5. QED
    BY <1>1, <1>3, <2>3, <2>4, SameOperators DEF Abstract!End
<1>4. QED
  BY <1>2, <1>3

\* What arrives is appended to the input.
LEMMA SendIsAllowed ==
    ASSUME InputInv, NEW b \in Byte, ClientSends(b)
    PROVE  Abstract!Send
<1>1. kernel \in Seq(Byte) /\ saved \in Seq(Byte)
  BY DEF InputInv, InputTyped
<1>2. kernel' = Append(kernel, b) /\ saved' = saved /\ executed' = executed /\ pc' = pc
  BY DEF ClientSends
<1>3. saved \o Append(kernel, b) = Append(saved \o kernel, b)
  <2>1. <<b>> \in Seq(Byte) /\ saved \o kernel \in Seq(Byte)
    BY <1>1, ConcatProperties
  <2>2. Append(kernel, b) = kernel \o <<b>>
    BY <1>1, AppendIsConcat
  <2>3. Append(saved \o kernel, b) = (saved \o kernel) \o <<b>>
    BY <2>1, AppendIsConcat
  <2>4. (saved \o kernel) \o <<b>> = saved \o (kernel \o <<b>>)
    <3>1. \A x, y, z \in Seq(Byte) : (x \o y) \o z = x \o (y \o z)
      BY ConcatAssociative
    <3>2. QED
      BY <1>1, <2>1, <3>1, Zenon
  <2>5. QED
    BY <2>2, <2>3, <2>4
<1>4. QED
  BY <1>2, <1>3 DEF Abstract!Send

\* What the input promises, without the promise that something happens: every line
\* that is executed is the next one of what the client sent, a byte 0 costs no more
\* than the rest of the read it is in and no line that was executed, and nobody is
\* let go with a complete line waiting unless he has quit (User::receive, split,
\* invoke, and the disconnect in Server::run).
THEOREM InputAsPromised == Spec => Abstract!Init /\ [][Abstract!Next]_(Abstract!vars)
<1>1. Init => Abstract!Init
  <2>1. << >> \o << >> = << >>
    BY ConcatEmptySeq
  <2>2. QED
    BY <2>1 DEF Init, Abstract!Init
<1>2. InputInv /\ [Next]_vars => [Abstract!Next]_(Abstract!vars)
  <2> SUFFICES ASSUME InputInv, [Next]_vars
               PROVE  Abstract!Next \/ UNCHANGED Abstract!vars
    OBVIOUS
  <2>1. CASE ReceiveBytes
    BY <2>1, ReadIsAllowed DEF Abstract!Next
  <2>2. CASE InvokeLine
    BY <2>2, InvokeIsAllowed DEF Abstract!Next
  <2>3. CASE Return
    BY <2>3, ReturnIsAllowed DEF Abstract!Next
  <2>4. ASSUME NEW b \in Byte, ClientSends(b)
        PROVE  Abstract!Next
    BY <2>4, SendIsAllowed DEF Abstract!Next
  <2>5. ASSUME ReceiveError \/ ReceiveEof \/ SplitLine \/ EndOfSplit \/ EndOfInvoke
        PROVE  UNCHANGED Abstract!vars
    BY <2>5 DEF ReceiveError, ReceiveEof, SplitLine, EndOfSplit, EndOfInvoke, Abstract!vars
  <2>6. ASSUME NEW how \in {"closed", "reset"}, ClientLeaves(how)
        PROVE  UNCHANGED Abstract!vars
    BY <2>6 DEF ClientLeaves, Abstract!vars
  <2>7. CASE UNCHANGED vars
    BY <2>7 DEF vars, Abstract!vars
  <2>8. QED
    BY <2>1, <2>2, <2>3, <2>4, <2>5, <2>6, <2>7 DEF Next, Process, Client
<1>3. QED
  BY <1>1, <1>2, InputAlways, PTL DEF Spec

=============================================================================
