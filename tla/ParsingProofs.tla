--------------------------- MODULE ParsingProofs ---------------------------
(***************************************************************************)
(* Proofs about Parsing: what the handlers cut out of a line, for lines of *)
(* any length over any characters.                                         *)
(***************************************************************************)
EXTENDS Parsing, SequenceLemmas

\* What stands before the first c, and what stands behind it.
Before(s, c) == SubSeq(s, 1, Find(s, c))
Behind(s, c) == SubSeq(s, Find(s, c) + 2, Len(s))

-----------------------------------------------------------------------------
(* Find and Substr.                                                        *)

\* find() gives the first place, or npos.
LEMMA FindProperties ==
    ASSUME NEW S, NEW s \in Seq(S), NEW c
    PROVE  /\ c \notin ToSet(s) => Find(s, c) = -1
           /\ c \in ToSet(s) => /\ Find(s, c) \in 0 .. (Len(s) - 1)
                                /\ s[Find(s, c) + 1] = c
                                /\ \A j \in 1 .. Find(s, c) : s[j] # c
<1> DEFINE I == { i \in 1 .. Len(s) : s[i] = c }
<1>1. CASE c \notin ToSet(s)
  BY <1>1 DEF Find, npos
<1>2. CASE c \in ToSet(s)
  <2>1. I \in SUBSET Nat /\ I # {}
    BY <1>2 DEF ToSet
  <2>2. Find(s, c) = Min(I) - 1
    BY <1>2, <2>1 DEF Find, SelectInSeq
  <2>3. Min(I) \in I /\ \A y \in I : Min(I) <= y
    BY <2>1, MinOfNaturals, Zenon
  <2>4. PICK m : m = Min(I)
    OBVIOUS
  <2>5. m \in 1 .. Len(s) /\ s[m] = c
    BY <2>3, <2>4
  <2>6. Find(s, c) = m - 1
    BY <2>2, <2>4
  <2>7. ASSUME NEW j \in 1 .. (m - 1), s[j] = c
        PROVE  FALSE
    <3>1. j \in I
      BY <2>5, <2>7
    <3>2. m <= j
      BY <2>3, <2>4, <3>1
    <3>3. QED
      BY <2>5, <3>2
  <2>8. QED
    BY <1>2, <2>5, <2>6, <2>7
<1>3. QED
  BY <1>1, <1>2

\* The first place of c is the one that find() gives.
LEMMA FindIs ==
    ASSUME NEW S, NEW s \in Seq(S), NEW c, NEW n \in Nat, n < Len(s),
           s[n + 1] = c, \A j \in 1 .. n : s[j] # c
    PROVE  c \in ToSet(s) /\ Find(s, c) = n
<1>1. c \in ToSet(s)
  BY DEF ToSet
<1>2. PICK f : f = Find(s, c)
  OBVIOUS
<1>3. f \in 0 .. (Len(s) - 1) /\ s[f + 1] = c /\ \A j \in 1 .. f : s[j] # c
  BY <1>1, <1>2, FindProperties
<1>4. ~ f < n
  BY <1>3
<1>5. ~ n < f
  BY <1>3
<1>6. QED
  BY <1>1, <1>2, <1>3, <1>4, <1>5

\* A string is what stands before the first c, the c, and what stands behind it.
LEMMA CutAtFirst ==
    ASSUME NEW S, NEW s \in Seq(S), NEW c, c \in ToSet(s)
    PROVE  /\ Find(s, c) \in Nat /\ Find(s, c) < Len(s)
           /\ Before(s, c) \in Seq(S) /\ Behind(s, c) \in Seq(S)
           /\ Len(Before(s, c)) = Find(s, c)
           /\ Len(Behind(s, c)) = Len(s) - Find(s, c) - 1
           /\ \A i \in 1 .. Find(s, c) : Before(s, c)[i] = s[i] /\ s[i] # c
           /\ s[Find(s, c) + 1] = c
           /\ \A i \in 1 .. (Len(s) - Find(s, c) - 1) : Behind(s, c)[i] = s[Find(s, c) + 1 + i]
<1>1. PICK f : f = Find(s, c)
  OBVIOUS
<1>2. f \in 0 .. (Len(s) - 1) /\ s[f + 1] = c /\ \A j \in 1 .. f : s[j] # c
  BY <1>1, FindProperties
<1>3. Before(s, c) = SubSeq(s, 1, f) /\ Behind(s, c) = SubSeq(s, f + 2, Len(s))
  BY <1>1 DEF Before, Behind
<1>4. Len(s) \in Nat /\ f \in Nat /\ f < Len(s)
  BY <1>2
<1>5. /\ SubSeq(s, 1, f) \in Seq(S) /\ Len(SubSeq(s, 1, f)) = f
      /\ \A i \in 1 .. f : SubSeq(s, 1, f)[i] = s[i]
  BY <1>4
<1>6. /\ SubSeq(s, f + 2, Len(s)) \in Seq(S)
      /\ Len(SubSeq(s, f + 2, Len(s))) = Len(s) - f - 1
      /\ \A i \in 1 .. (Len(s) - f - 1) : SubSeq(s, f + 2, Len(s))[i] = s[f + 1 + i]
  BY <1>4
<1>7. QED
  BY <1>1, <1>2, <1>3, <1>4, <1>5, <1>6

\* substr() up to the first c, and from behind it, as long as the length is not too
\* short; and substr() of the whole.
LEMMA SubstrAtFirst ==
    ASSUME NEW S, NEW s \in Seq(S), NEW c, c \in ToSet(s), NEW n \in Int
    PROVE  /\ Substr(s, 0, Find(s, c)) = Before(s, c)
           /\ n < 0 \/ n >= Len(s) - Find(s, c) - 1 =>
                Substr(s, Find(s, c) + 1, n) = Behind(s, c)
<1>1. PICK f : f = Find(s, c)
  OBVIOUS
<1>2. f \in Nat /\ f < Len(s) /\ Len(s) \in Nat
  BY <1>1, CutAtFirst
<1>3. Substr(s, 0, f) = SubSeq(s, 1, f)
  BY <1>2 DEF Substr
<1>4. n < 0 \/ n >= Len(s) - f - 1 => Substr(s, f + 1, n) = SubSeq(s, f + 2, Len(s))
  BY <1>2 DEF Substr
<1>5. QED
  BY <1>1, <1>3, <1>4 DEF Before, Behind

LEMMA SubstrOfAll ==
    ASSUME NEW S, NEW s \in Seq(S), NEW n \in Int, n < 0 \/ n >= Len(s)
    PROVE  Substr(s, 0, n) = s
<1>1. Substr(s, 0, n) = SubSeq(s, 1, Len(s))
  BY DEF Substr
<1>2. QED
  BY <1>1

-----------------------------------------------------------------------------
(* Cutting at every c: the reference.                                      *)

\* A sequence in strictly ascending order is the one Ascending makes of its elements.
LEMMA IncreasingIsAscending ==
    ASSUME NEW S \in SUBSET Int, NEW t \in Seq(S), ToSet(t) = S,
           \A i, j \in DOMAIN t : i < j => t[i] < t[j]
    PROVE  IsFiniteSet(S) /\ Ascending(S) = t
<1> DEFINE n == Len(t)
<1>1. n \in Nat /\ DOMAIN t = 1 .. n /\ \A i \in 1 .. n : t[i] \in S
  OBVIOUS
<1>2. \A i, j \in 1 .. n : t[i] <= t[j] <=> i <= j
  <2>1. ASSUME NEW i \in 1 .. n, NEW j \in 1 .. n
        PROVE  t[i] <= t[j] <=> i <= j
    <3>1. t[i] \in S /\ t[j] \in S /\ i \in Int /\ j \in Int
      BY <1>1, <2>1
    <3>2. (i < j => t[i] < t[j]) /\ (j < i => t[j] < t[i])
      BY <1>1, <2>1
    <3>3. t[i] \in Int /\ t[j] \in Int
      BY <3>1
    <3>4. CASE i = j
      BY <3>3, <3>4
    <3>5. QED
      BY <3>1, <3>2, <3>3, <3>4
  <2>2. QED
    BY <2>1
<1>3. ASSUME NEW m \in 0 .. n, NEW B, B = { t[i] : i \in 1 .. m }
      PROVE  IsFiniteSet(B) /\ Cardinality(B) = m
  <2> DEFINE b == [ i \in 1 .. m |-> t[i] ]
  <2>1. b \in Bijection(1 .. m, B)
    <3>1. \A i, j \in 1 .. m : b[i] = b[j] => i = j
      <4>1. ASSUME NEW i \in 1 .. m, NEW j \in 1 .. m, t[i] = t[j]
            PROVE  i = j
        <5>1. i \in 1 .. n /\ j \in 1 .. n
          BY <1>1
        <5>2. t[i] \in Int /\ t[j] \in Int
          BY <1>1, <5>1
        <5>3. i <= j /\ j <= i
          BY <1>2, <4>1, <5>1, <5>2
        <5>4. QED
          BY <5>3
      <4>2. QED
        BY <4>1
    <3>2. b \in [1 .. m -> B]
      BY <1>3
    <3>3. \A y \in B : \E i \in 1 .. m : b[i] = y
      BY <1>3
    <3>4. QED
      BY <3>1, <3>2, <3>3 DEF Bijection, Injection, Surjection, IsInjective
  <2>2. ExistsBijection(1 .. m, B)
    BY <2>1 DEF ExistsBijection
  <2>3. m \in Nat
    BY <1>1
  <2>4. QED
    BY <2>2, <2>3, FS_CountingElements, FS_NatBijection, Zenon
<1>4. S = { t[i] : i \in 1 .. n }
  BY <1>1 DEF ToSet
<1>5. IsFiniteSet(S) /\ Cardinality(S) = n
  <2>1. n \in 0 .. n
    BY <1>1
  <2>2. QED
    BY <1>3, <1>4, <2>1
<1>6. ASSUME NEW i \in 1 .. n
      PROVE  Rank(S, t[i]) = i
  <2>1. { y \in S : y <= t[i] } = { t[j] : j \in 1 .. i }
    <3>1. ASSUME NEW y \in S, y <= t[i]
          PROVE  \E j \in 1 .. i : y = t[j]
      <4>1. PICK j \in 1 .. n : y = t[j]
        BY <1>4
      <4>2. j <= i
        BY <1>2, <3>1, <4>1
      <4>3. QED
        BY <1>1, <4>1, <4>2
    <3>2. ASSUME NEW j \in 1 .. i
          PROVE  t[j] \in S /\ t[j] <= t[i]
      BY <1>1, <1>2
    <3>3. QED
      BY <3>1, <3>2
  <2>2. i \in 0 .. n
    BY <1>1
  <2>3. QED
    BY <1>3, <2>1, <2>2 DEF Rank
<1>7. ASSUME NEW i \in 1 .. n
      PROVE  (CHOOSE x \in S : Rank(S, x) = i) = t[i]
  <2>1. t[i] \in S /\ Rank(S, t[i]) = i
    BY <1>1, <1>6
  <2>2. ASSUME NEW x \in S, Rank(S, x) = i
        PROVE  x = t[i]
    <3>1. PICK j \in 1 .. n : x = t[j]
      BY <1>4
    <3>2. Rank(S, x) = j
      BY <1>6, <3>1
    <3>3. QED
      BY <2>2, <3>1, <3>2
  <2>3. QED
    BY <2>1, <2>2
<1>8. Ascending(S) = [ i \in 1 .. n |-> t[i] ]
  BY <1>5, <1>7 DEF Ascending
<1>9. QED
  BY <1>1, <1>5, <1>8

\* The places of c, for all of the string and for what stands behind the first c.
LEMMA PlacesProperties ==
    ASSUME NEW S, NEW s \in Seq(S), NEW c
    PROVE  /\ Places(s, c) \in Seq(1 .. Len(s))
           /\ c \notin ToSet(s) => Places(s, c) = << >>
           /\ c \in ToSet(s) => Len(Places(s, c)) > 0
<1> DEFINE P == { i \in DOMAIN s : s[i] = c }
<1>1. P \in SUBSET Int /\ P \subseteq 1 .. Len(s) /\ Len(s) \in Nat
  OBVIOUS
<1>2. IsFiniteSet(P)
  BY <1>1, FS_Interval, FS_Subset
<1>3. /\ Ascending(P) \in Seq(P) /\ Len(Ascending(P)) = Cardinality(P)
      /\ ToSet(Ascending(P)) = P
  BY <1>1, <1>2, AscendingProperties, Zenon
<1>4. Places(s, c) = Ascending(P)
  BY DEF Places
<1>5. Ascending(P) \in Seq(1 .. Len(s))
  BY <1>1, <1>3
<1>6. CASE c \notin ToSet(s)
  <2>1. P = {}
    BY <1>6 DEF ToSet
  <2>2. Len(Ascending(P)) = 0
    BY <1>3, <2>1, FS_EmptySet
  <2>3. QED
    BY <1>3, <1>4, <1>5, <1>6, <2>2
<1>7. CASE c \in ToSet(s)
  <2>1. PICK i \in P : TRUE
    BY <1>7 DEF ToSet
  <2>2. Ascending(P) # << >>
    BY <1>3, <2>1 DEF ToSet
  <2>3. Len(Ascending(P)) > 0
    BY <1>5, <2>2
  <2>4. QED
    BY <1>4, <1>5, <1>7, <2>3
<1>8. QED
  BY <1>6, <1>7

LEMMA PlacesCut ==
    ASSUME NEW S, NEW s \in Seq(S), NEW c, c \in ToSet(s),
           NEW p, p = Places(s, c), NEW q, q = Places(Behind(s, c), c)
    PROVE  /\ Len(p) = Len(q) + 1
           /\ p[1] = Find(s, c) + 1
           /\ \A i \in 1 .. Len(q) : p[i + 1] = q[i] + Find(s, c) + 1
<1>1. PICK f, b : f = Find(s, c) /\ b = Behind(s, c)
  OBVIOUS
<1>2. /\ f \in Nat /\ f < Len(s) /\ b \in Seq(S) /\ Len(b) = Len(s) - f - 1
      /\ \A i \in 1 .. f : s[i] # c
      /\ s[f + 1] = c
      /\ \A i \in 1 .. (Len(s) - f - 1) : b[i] = s[f + 1 + i]
  BY <1>1, CutAtFirst
<1> DEFINE T == { i \in DOMAIN s : s[i] = c }
           U == { i \in DOMAIN b : b[i] = c }
           t == [ i \in 1 .. (Len(q) + 1) |-> IF i = 1 THEN f + 1 ELSE q[i - 1] + f + 1 ]
<1>3. U \in SUBSET Int /\ IsFiniteSet(U)
  <2>1. U \in SUBSET (1 .. Len(b)) /\ Len(b) \in Nat
    BY <1>2
  <2>2. IsFiniteSet(1 .. Len(b)) /\ 1 .. Len(b) \subseteq Int
    BY <2>1, FS_Interval
  <2>3. QED
    <3> HIDE DEF U
    <3> QED
      BY <2>1, <2>2, FS_Subset
<1>4. q = Ascending(U)
  BY <1>1 DEF Places
<1>5. /\ q \in Seq(U)
      /\ ToSet(q) = U
      /\ \A i, j \in DOMAIN q : i < j => q[i] < q[j]
  BY <1>3, <1>4, AscendingProperties, Zenon
<1> HIDE DEF U
<1>6. Len(q) \in Nat /\ DOMAIN q = 1 .. Len(q) /\ \A i \in 1 .. Len(q) : q[i] \in U
  BY <1>5
<1>7. \A i \in Int : i \in U <=> i \in 1 .. (Len(s) - f - 1) /\ s[f + 1 + i] = c
  BY <1>2 DEF U
<1>8. \A i \in 1 .. Len(q) : q[i] \in Int /\ q[i] \in 1 .. (Len(s) - f - 1) /\ s[f + 1 + q[i]] = c
  BY <1>3, <1>6, <1>7
<1>9. T \in SUBSET Int /\ Len(s) \in Nat
  BY <1>2
<1>10. \A i \in 1 .. (Len(q) + 1) : t[i] \in T
  <2>1. ASSUME NEW i \in 1 .. (Len(q) + 1)
        PROVE  t[i] \in T
    <3>1. CASE i = 1
      BY <1>2, <3>1
    <3>2. CASE i # 1
      <4>1. i - 1 \in 1 .. Len(q)
        BY <1>6, <3>2
      <4>2. PICK x : x = q[i - 1]
        OBVIOUS
      <4>3. x \in 1 .. (Len(s) - f - 1) /\ s[f + 1 + x] = c
        BY <1>8, <4>1, <4>2
      <4>4. x + f + 1 \in 1 .. Len(s) /\ x + f + 1 = f + 1 + x
        BY <1>2, <1>9, <4>3
      <4>5. t[i] = x + f + 1
        BY <3>2, <4>2
      <4>6. QED
        BY <4>3, <4>4, <4>5
    <3>3. QED
      BY <3>1, <3>2
  <2>2. QED
    BY <2>1
<1>11. ASSUME NEW y \in T
       PROVE  \E i \in 1 .. (Len(q) + 1) : t[i] = y
  <2>1. y \in 1 .. Len(s) /\ s[y] = c
    BY <1>2
  <2>2. ~ y < f + 1
    BY <1>2, <2>1
  <2>3. CASE y = f + 1
    BY <1>6, <2>3
  <2>4. CASE y > f + 1
    <3>1. PICK u : u = y - f - 1
      OBVIOUS
    <3>2. u \in Int /\ u \in 1 .. (Len(s) - f - 1) /\ f + 1 + u = y /\ u + f + 1 = y
      <4>1. f \in Int /\ Len(s) \in Int
        BY <1>2
      <4>2. y \in Int /\ y <= Len(s) /\ y > f + 1
        BY <2>1, <2>4, <4>1
      <4>3. u = y - f - 1
        BY <3>1
      <4> HIDE DEF T
      <4>4. QED
        BY <4>1, <4>2, <4>3
    <3>3. u \in U
      BY <1>7, <2>1, <3>2
    <3>4. PICK i \in 1 .. Len(q) : q[i] = u
      BY <1>5, <1>6, <3>3 DEF ToSet
    <3>5. i + 1 \in 1 .. (Len(q) + 1) /\ i + 1 # 1 /\ (i + 1) - 1 = i
      BY <1>6, <3>4
    <3>6. t[i + 1] = q[i] + f + 1
      BY <3>5
    <3>7. QED
      BY <3>2, <3>4, <3>5, <3>6
  <2>5. QED
    BY <1>2, <2>1, <2>2, <2>3, <2>4
<1>12. \A i, j \in DOMAIN t : i < j => t[i] < t[j]
  <2>1. ASSUME NEW i \in 1 .. (Len(q) + 1), NEW j \in 1 .. (Len(q) + 1), i < j
        PROVE  t[i] < t[j]
    <3>1. j - 1 \in 1 .. Len(q) /\ j # 1
      BY <1>6, <2>1
    <3>2. PICK y : y = q[j - 1]
      OBVIOUS
    <3>3. y \in Int /\ y >= 1 /\ t[j] = y + f + 1
      BY <1>2, <1>8, <3>1, <3>2
    <3>4. CASE i = 1
      BY <1>2, <3>3, <3>4
    <3>5. CASE i # 1
      <4>1. i - 1 \in 1 .. Len(q) /\ i - 1 < j - 1
        BY <1>6, <2>1, <3>5
      <4>2. PICK x : x = q[i - 1]
        OBVIOUS
      <4>3. x \in Int /\ t[i] = x + f + 1
        BY <1>8, <3>5, <4>1, <4>2
      <4>4. x < y
        BY <1>5, <1>6, <3>1, <3>2, <4>1, <4>2
      <4>5. QED
        BY <1>2, <3>3, <4>3, <4>4
    <3>6. QED
      BY <3>4, <3>5
  <2>2. QED
    BY <2>1
<1>13. t \in Seq(T) /\ ToSet(t) = T /\ Len(t) = Len(q) + 1
  <2>1. t \in Seq(T) /\ Len(t) = Len(q) + 1 /\ DOMAIN t = 1 .. (Len(q) + 1)
    BY <1>6, <1>10
  <2>2. ToSet(t) = T
    <3> HIDE DEF T, t
    <3> QED
      BY <1>10, <1>11, <2>1 DEF ToSet
  <2>3. QED
    BY <2>1, <2>2
<1>14. Places(s, c) = t
  <2> HIDE DEF t
  <2>1. Ascending(T) = t
    BY <1>9, <1>12, <1>13, IncreasingIsAscending, Zenon
  <2>2. QED
    BY <2>1 DEF Places
<1>15. \A i \in 1 .. Len(q) : t[i + 1] = q[i] + f + 1
  BY <1>6
<1>16. QED
  BY <1>1, <1>6, <1>13, <1>14, <1>15

\* s cut at the first m of the places p.
CutAt(s, p, m) ==
    [ i \in 1 .. (m + 1) |->
        SubSeq(s, IF i = 1 THEN 1 ELSE p[i - 1] + 1, IF i > m THEN Len(s) ELSE p[i] - 1) ]

Least(k, l) == IF k <= l THEN k ELSE l

\* Pieces without the minimum and the subsequence of its definition.
LEMMA PiecesAre ==
    ASSUME NEW S, NEW s \in Seq(S), NEW c, NEW k \in Nat, NEW p, p = Places(s, c)
    PROVE  Pieces(s, c, k) = CutAt(s, p, Least(k, Len(p)))
<1>1. PICK m : m = Least(k, Len(p))
  OBVIOUS
<1>2. p \in Seq(1 .. Len(s)) /\ Len(p) \in Nat
  BY PlacesProperties
<1>3. m \in Nat /\ m <= Len(p)
  BY <1>1, <1>2 DEF Least
<1>4. Min({k, Len(p)}) = m
  <2>1. {k, Len(p)} \in SUBSET Nat /\ {k, Len(p)} # {}
    BY <1>2
  <2>2. PICK I : I = {k, Len(p)}
    OBVIOUS
  <2>3. Min(I) \in I /\ \A y \in I : Min(I) <= y
    BY <2>1, <2>2, MinOfNaturals, Zenon
  <2>4. QED
    BY <1>1, <1>2, <2>2, <2>3 DEF Least
<1>5. PICK u : u = SubSeq(p, 1, m)
  OBVIOUS
<1>6. Len(u) = m /\ \A i \in 1 .. m : u[i] = p[i]
  BY <1>2, <1>3, <1>5
<1>7. Pieces(s, c, k) = CutAt(s, u, m)
  BY <1>4, <1>5, <1>6 DEF Pieces, CutAt
<1>8. ASSUME NEW i \in 1 .. (m + 1)
      PROVE  /\ (IF i = 1 THEN 1 ELSE u[i - 1] + 1) = (IF i = 1 THEN 1 ELSE p[i - 1] + 1)
             /\ (IF i > m THEN Len(s) ELSE u[i] - 1) = (IF i > m THEN Len(s) ELSE p[i] - 1)
  <2>1. i # 1 => u[i - 1] = p[i - 1]
    <3>1. i # 1 => i - 1 \in 1 .. m
      BY <1>3
    <3>2. QED
      BY <1>6, <3>1
  <2>2. ~ i > m => u[i] = p[i]
    BY <1>3, <1>6
  <2>3. QED
    BY <2>1, <2>2
<1>9. CutAt(s, u, m) = CutAt(s, p, m)
  BY <1>8 DEF CutAt
<1>10. QED
  BY <1>1, <1>7, <1>9

LEMMA CutAtType ==
    ASSUME NEW S, NEW s \in Seq(S), NEW p \in Seq(1 .. Len(s)), NEW k \in Nat
    PROVE  /\ Least(k, Len(p)) \in Nat
           /\ CutAt(s, p, Least(k, Len(p))) \in Seq(Seq(S))
           /\ Len(CutAt(s, p, Least(k, Len(p)))) = Least(k, Len(p)) + 1
<1>1. PICK m : m = Least(k, Len(p))
  OBVIOUS
<1>2. m \in Nat /\ m <= Len(p) /\ Len(s) \in Nat
  BY <1>1 DEF Least
<1>3. ASSUME NEW i \in 1 .. (m + 1)
      PROVE  SubSeq(s, IF i = 1 THEN 1 ELSE p[i - 1] + 1, IF i > m THEN Len(s) ELSE p[i] - 1) \in Seq(S)
  <2>1. PICK x, z : /\ x = IF i = 1 THEN 1 ELSE p[i - 1] + 1
                    /\ z = IF i > m THEN Len(s) ELSE p[i] - 1
    OBVIOUS
  <2>2. x \in Nat /\ x >= 1
    <3>1. i # 1 => p[i - 1] \in 1 .. Len(s)
      <4>1. i # 1 => i - 1 \in 1 .. Len(p)
        BY <1>2
      <4>2. QED
        BY <4>1
    <3>2. QED
      BY <1>2, <2>1, <3>1
  <2>3. z \in Nat /\ z <= Len(s)
    <3>1. ~ i > m => p[i] \in 1 .. Len(s)
      BY <1>2
    <3>2. QED
      BY <1>2, <2>1, <3>1
  <2>4. SubSeq(s, x, z) \in Seq(S)
    BY <2>2, <2>3
  <2>5. QED
    BY <2>1, <2>4
<1>4. CutAt(s, p, m) \in Seq(Seq(S)) /\ Len(CutAt(s, p, m)) = m + 1
  BY <1>2, <1>3 DEF CutAt
<1>5. QED
  BY <1>1, <1>2, <1>4

LEMMA PiecesType ==
    ASSUME NEW S, NEW s \in Seq(S), NEW c, NEW k \in Nat
    PROVE  Pieces(s, c, k) \in Seq(Seq(S)) /\ Len(Pieces(s, c, k)) > 0
<1>1. PICK p : p = Places(s, c)
  OBVIOUS
<1>2. p \in Seq(1 .. Len(s))
  BY <1>1, PlacesProperties
<1>3. Pieces(s, c, k) = CutAt(s, p, Least(k, Len(p)))
  BY <1>1, PiecesAre
<1>4. QED
  BY <1>2, <1>3, CutAtType

\* Without a c, or cut nowhere, a string is one piece.
LEMMA PiecesWhole ==
    ASSUME NEW S, NEW s \in Seq(S), NEW c, NEW k \in Nat, k = 0 \/ c \notin ToSet(s)
    PROVE  Pieces(s, c, k) = << s >>
<1>1. PICK p : p = Places(s, c)
  OBVIOUS
<1>2. p \in Seq(1 .. Len(s)) /\ (c \notin ToSet(s) => p = << >>)
  BY <1>1, PlacesProperties
<1>3. Least(k, Len(p)) = 0
  BY <1>2 DEF Least
<1>4. Pieces(s, c, k) = CutAt(s, p, 0)
  BY <1>1, <1>3, PiecesAre
<1>5. CutAt(s, p, 0) = [ i \in 1 .. 1 |-> SubSeq(s, 1, Len(s)) ]
  BY DEF CutAt
<1>6. SubSeq(s, 1, Len(s)) = s
  OBVIOUS
<1>7. QED
  BY <1>4, <1>5, <1>6

\* Otherwise the first piece stands before the first c, and the others are the pieces
\* of what stands behind it.
LEMMA PiecesCut ==
    ASSUME NEW S, NEW s \in Seq(S), NEW c, c \in ToSet(s), NEW n \in Nat
    PROVE  Pieces(s, c, n + 1) = << Before(s, c) >> \o Pieces(Behind(s, c), c, n)
<1>1. PICK f, b, k : f = Find(s, c) /\ b = Behind(s, c) /\ k = n + 1
  OBVIOUS
<1>2. /\ f \in Nat /\ f < Len(s) /\ b \in Seq(S) /\ Len(b) = Len(s) - f - 1
      /\ \A i \in 1 .. (Len(s) - f - 1) : b[i] = s[f + 1 + i]
  BY <1>1, CutAtFirst
<1>3. PICK p, q : p = Places(s, c) /\ q = Places(b, c)
  OBVIOUS
<1>4. PICK m, l : m = Least(k, Len(p)) /\ l = Least(n, Len(q))
  OBVIOUS
<1>5. k \in Nat
  BY <1>1
<1>6. Pieces(s, c, k) = CutAt(s, p, m) /\ Pieces(b, c, n) = CutAt(b, q, l)
  BY <1>2, <1>3, <1>4, <1>5, PiecesAre
<1>7. /\ p \in Seq(1 .. Len(s)) /\ q \in Seq(1 .. Len(b))
      /\ Len(p) \in Nat /\ Len(q) \in Nat
  BY <1>2, <1>3, PlacesProperties
<1>8. Len(p) = Len(q) + 1 /\ p[1] = f + 1 /\ \A i \in 1 .. Len(q) : p[i + 1] = q[i] + f + 1
  BY <1>1, <1>3, PlacesCut
<1>9. l \in Nat /\ l <= Len(q) /\ m = l + 1
  BY <1>1, <1>4, <1>7, <1>8 DEF Least
<1>10. \A i \in 1 .. Len(q) : q[i] \in 1 .. Len(b)
  BY <1>7
<1>11. ASSUME NEW x \in Nat, x >= 1, NEW z \in Nat, z <= Len(b)
       PROVE  SubSeq(s, x + f + 1, z + f + 1) = SubSeq(b, x, z)
  <2>1. Len(s) \in Nat /\ Len(b) \in Nat
    BY <1>2
  <2>2. \A i \in 1 .. (z - x + 1) : s[x + f + 1 + i - 1] = b[x + i - 1]
    <3>1. ASSUME NEW i \in 1 .. (z - x + 1)
          PROVE  s[x + f + 1 + i - 1] = b[x + i - 1]
      <4>1. PICK j : j = x + i - 1
        OBVIOUS
      <4>2. j \in 1 .. (Len(s) - f - 1) /\ f + 1 + j = x + f + 1 + i - 1
        BY <1>2, <1>11, <2>1, <4>1
      <4>3. QED
        BY <1>2, <4>1, <4>2
    <3>2. QED
      BY <3>1
  <2>3. SubSeq(b, x, z) = [ i \in 1 .. (z - x + 1) |-> b[x + i - 1] ]
    BY <1>2, <1>11
  <2>4. SubSeq(s, x + f + 1, z + f + 1) = [ i \in 1 .. (z - x + 1) |-> s[x + f + 1 + i - 1] ]
    <3>1. PICK v, w : v = x + f + 1 /\ w = z + f + 1
      OBVIOUS
    <3>2. v \in Nat /\ w \in Nat /\ v >= 1 /\ w <= Len(s) /\ w - v + 1 = z - x + 1
      BY <1>2, <1>11, <2>1, <3>1
    <3>3. SubSeq(s, v, w) = [ i \in 1 .. (w - v + 1) |-> s[v + i - 1] ]
      BY <3>2
    <3>4. QED
      BY <3>1, <3>2, <3>3
  <2>5. QED
    BY <2>2, <2>3, <2>4
<1> DEFINE g == CutAt(s, p, m)
           h == CutAt(b, q, l)
<1>12. h \in Seq(Seq(S)) /\ Len(h) = l + 1 /\ g \in Seq(Seq(S)) /\ Len(g) = l + 2
  <2>1. h \in Seq(Seq(S)) /\ Len(h) = l + 1
    BY <1>2, <1>4, <1>7, CutAtType
  <2>2. g \in Seq(Seq(S)) /\ Len(g) = m + 1
    BY <1>4, <1>5, <1>7, CutAtType
  <2> HIDE DEF g, h
  <2>3. QED
    BY <1>9, <2>1, <2>2
<1>13. g[1] = Before(s, c)
  <2>1. 1 \in 1 .. (m + 1) /\ ~ 1 > m /\ f + 1 - 1 = f
    BY <1>2, <1>9
  <2>2. g[1] = SubSeq(s, 1, p[1] - 1)
    BY <2>1 DEF CutAt
  <2>3. p[1] - 1 = f
    <3>1. f \in Int /\ p[1] = f + 1
      BY <1>2, <1>8
    <3>2. QED
      BY <3>1
  <2>4. QED
    BY <1>1, <2>2, <2>3 DEF Before
<1>14. ASSUME NEW j \in 1 .. (l + 1)
       PROVE  g[j + 1] = h[j]
  <2>1. PICK x, z : /\ x = IF j = 1 THEN 1 ELSE q[j - 1] + 1
                    /\ z = IF j > l THEN Len(b) ELSE q[j] - 1
    OBVIOUS
  <2>2. h[j] = SubSeq(b, x, z)
    BY <2>1 DEF CutAt
  <2>3. Len(b) \in Nat
    BY <1>2
  <2>4. x \in Nat /\ x >= 1 /\ p[j] + 1 = x + f + 1
    <3>1. CASE j = 1
      BY <1>2, <1>8, <2>1, <3>1
    <3>2. CASE j # 1
      <4>1. PICK i : i = j - 1
        OBVIOUS
      <4>2. i \in 1 .. Len(q) /\ i + 1 = j
        BY <1>9, <3>2, <4>1
      <4>3. q[i] \in 1 .. Len(b) /\ p[j] = q[i] + f + 1
        BY <1>8, <1>10, <4>2
      <4>4. x = q[i] + 1
        BY <2>1, <3>2, <4>1
      <4>5. PICK y : y = q[i]
        OBVIOUS
      <4>6. y \in Nat /\ p[j] = y + f + 1 /\ x = y + 1
        BY <2>3, <4>3, <4>4, <4>5
      <4>7. QED
        BY <1>2, <4>6
    <3>3. QED
      BY <3>1, <3>2
  <2>5. /\ z \in Nat /\ z <= Len(b)
        /\ (IF j + 1 > m THEN Len(s) ELSE p[j + 1] - 1) = z + f + 1
    <3>1. CASE j > l
      <4>1. j + 1 > m
        BY <1>9, <3>1
      <4>2. z = Len(b)
        BY <2>1, <3>1
      <4>3. Len(s) = z + f + 1
        BY <1>2, <4>2
      <4>4. QED
        BY <2>3, <4>1, <4>2, <4>3
    <3>2. CASE ~ j > l
      <4>1. j \in 1 .. Len(q) /\ ~ j + 1 > m
        BY <1>9, <3>2
      <4>2. q[j] \in 1 .. Len(b) /\ p[j + 1] = q[j] + f + 1
        BY <1>8, <1>10, <4>1
      <4>3. z = q[j] - 1
        BY <2>1, <3>2
      <4>4. QED
        BY <1>2, <2>3, <4>1, <4>2, <4>3
    <3>3. QED
      BY <3>1, <3>2
  <2>6. j + 1 \in 1 .. (m + 1) /\ j + 1 # 1 /\ (j + 1) - 1 = j
    BY <1>9
  <2>7. g[j + 1] = SubSeq(s, p[j] + 1, IF j + 1 > m THEN Len(s) ELSE p[j + 1] - 1)
    BY <2>6 DEF CutAt
  <2>8. QED
    BY <1>11, <2>2, <2>4, <2>5, <2>7
<1>15. g = << Before(s, c) >> \o h
  <2>1. PICK e : e = Before(s, c)
    OBVIOUS
  <2>2. e \in Seq(S)
    BY <2>1, CutAtFirst
  <2>3. PICK r : r = << e >> \o h
    OBVIOUS
  <2> HIDE DEF g, h
  <2>4. r \in Seq(Seq(S)) /\ Len(r) = l + 2
    BY <1>9, <1>12, <2>2, <2>3
  <2>5. r[1] = e /\ \A j \in 1 .. (l + 1) : r[j + 1] = h[j]
    BY <1>9, <1>12, <2>2, <2>3
  <2>6. \A i \in 1 .. (l + 2) : g[i] = r[i]
    <3>1. ASSUME NEW i \in 1 .. (l + 2)
          PROVE  g[i] = r[i]
      <4>1. CASE i = 1
        BY <1>13, <2>1, <2>5, <4>1
      <4>2. CASE i # 1
        <5>1. PICK j : j = i - 1
          OBVIOUS
        <5>2. j \in 1 .. (l + 1) /\ j + 1 = i
          BY <1>9, <4>2, <5>1
        <5>3. QED
          BY <1>14, <2>5, <5>2
      <4>3. QED
        BY <4>1, <4>2
    <3>2. QED
      BY <3>1
  <2>7. g = r
    BY <1>12, <2>4, <2>6, SeqEqual
  <2>8. QED
    BY <2>1, <2>3, <2>7
<1>16. QED
  BY <1>1, <1>6, <1>15

LEMMA Two ==
    ASSUME NEW T, NEW a \in T, NEW b \in T
    PROVE  << a >> \o << b >> = << a, b >>
<1>1. PICK r, u : r = << a >> \o << b >> /\ u = << a, b >>
  OBVIOUS
<1>2. r \in Seq(T) /\ Len(r) = 2 /\ r[1] = a /\ r[2] = b
  BY <1>1
<1>3. u \in Seq(T) /\ Len(u) = 2 /\ u[1] = a /\ u[2] = b
  BY <1>1
<1>4. \A i \in 1 .. 2 : r[i] = u[i]
  BY <1>2, <1>3
<1>5. r = u
  BY <1>2, <1>3, <1>4, SeqEqual
<1>6. QED
  BY <1>1, <1>5

LEMMA Three ==
    ASSUME NEW T, NEW a \in T, NEW b \in T, NEW c \in T
    PROVE  << a >> \o << b, c >> = << a, b, c >>
<1>1. PICK r, u : r = << a >> \o << b, c >> /\ u = << a, b, c >>
  OBVIOUS
<1>2. r \in Seq(T) /\ Len(r) = 3 /\ r[1] = a /\ r[2] = b /\ r[3] = c
  BY <1>1
<1>3. u \in Seq(T) /\ Len(u) = 3 /\ u[1] = a /\ u[2] = b /\ u[3] = c
  BY <1>1
<1>4. \A i \in 1 .. 3 : r[i] = u[i]
  BY <1>2, <1>3
<1>5. r = u
  BY <1>2, <1>3, <1>4, SeqEqual
<1>6. QED
  BY <1>1, <1>5

\* Cut once, and cut twice.
LEMMA PiecesOne ==
    ASSUME NEW S, NEW s \in Seq(S), NEW c
    PROVE  Pieces(s, c, 1) = IF c \in ToSet(s) THEN << Before(s, c), Behind(s, c) >> ELSE << s >>
<1>1. CASE c \notin ToSet(s)
  BY <1>1, PiecesWhole
<1>2. CASE c \in ToSet(s)
  <2>1. Pieces(s, c, 0 + 1) = << Before(s, c) >> \o Pieces(Behind(s, c), c, 0)
    BY <1>2, PiecesCut
  <2>2. Behind(s, c) \in Seq(S)
    BY <1>2, CutAtFirst
  <2>3. Pieces(Behind(s, c), c, 0) = << Behind(s, c) >>
    BY <2>2, PiecesWhole
  <2>4. PICK a, b : a = Before(s, c) /\ b = Behind(s, c)
    OBVIOUS
  <2>5. << a >> \o << b >> = << a, b >>
    BY <1>2, <2>4, CutAtFirst, Two
  <2>6. 0 + 1 = 1
    OBVIOUS
  <2>7. QED
    BY <1>2, <2>1, <2>3, <2>4, <2>5, <2>6
<1>3. QED
  BY <1>1, <1>2

LEMMA PiecesTwo ==
    ASSUME NEW S, NEW s \in Seq(S), NEW c
    PROVE  Pieces(s, c, 2) =
             IF c \notin ToSet(s) THEN << s >>
             ELSE IF c \notin ToSet(Behind(s, c)) THEN << Before(s, c), Behind(s, c) >>
             ELSE << Before(s, c), Before(Behind(s, c), c), Behind(Behind(s, c), c) >>
<1>1. CASE c \notin ToSet(s)
  BY <1>1, PiecesWhole
<1>2. CASE c \in ToSet(s)
  <2>1. Pieces(s, c, 1 + 1) = << Before(s, c) >> \o Pieces(Behind(s, c), c, 1)
    BY <1>2, PiecesCut
  <2>2. Behind(s, c) \in Seq(S)
    BY <1>2, CutAtFirst
  <2>3. PICK a, b : a = Before(s, c) /\ b = Behind(s, c)
    OBVIOUS
  <2>4. Pieces(b, c, 1) = IF c \in ToSet(b) THEN << Before(b, c), Behind(b, c) >> ELSE << b >>
    BY <2>2, <2>3, PiecesOne
  <2>5. \A x \in Seq(S), y \in Seq(S) : /\ << a >> \o << x, y >> = << a, x, y >>
                                        /\ << a >> \o << x >> = << a, x >>
    <3>1. a \in Seq(S)
      BY <1>2, <2>3, CutAtFirst
    <3>2. QED
      BY <3>1, Two, Three
  <2>6. 1 + 1 = 2
    OBVIOUS
  <2>7. Pieces(s, c, 2) = << a >> \o Pieces(b, c, 1)
    BY <2>1, <2>3, <2>6
  <2>8. CASE c \in ToSet(b)
    <3>1. Before(b, c) \in Seq(S) /\ Behind(b, c) \in Seq(S)
      BY <2>2, <2>3, <2>8, CutAtFirst
    <3>2. QED
      BY <1>2, <2>3, <2>4, <2>5, <2>7, <2>8, <3>1
  <2>9. CASE c \notin ToSet(b)
    BY <1>2, <2>2, <2>3, <2>4, <2>5, <2>7, <2>9
  <2>10. QED
    BY <2>8, <2>9
<1>3. QED
  BY <1>1, <1>2

-----------------------------------------------------------------------------
(* What the handlers cut out.                                              *)

LEMMA OneCharacter ==
    ASSUME NEW a, NEW b
    PROVE  << a >> = << b >> <=> a = b
OBVIOUS

\* The first space, the character after it, and the rest.
LEMMA Beginning ==
    ASSUME NEW S, NEW msg \in Seq(S), SP \in ToSet(msg), NEW p, p = Behind(msg, SP)
    PROVE  /\ p \in Seq(S) /\ space(msg) # npos
           /\ RestThrows(msg) <=> p = << >>
           /\ p # << >> => /\ prefix_channel(msg) = << Head(p) >>
                           /\ rest(msg) = Tail(p)
                           /\ Tail(p) \in Seq(S)
           /\ p = Substr(msg, space(msg) + 1, Len(msg) - space(msg))
<1>1. PICK f : f = space(msg)
  OBVIOUS
<1>2. /\ f \in Nat /\ f < Len(msg) /\ Len(msg) \in Nat
      /\ p \in Seq(S) /\ Len(p) = Len(msg) - f - 1
      /\ \A i \in 1 .. (Len(msg) - f - 1) : p[i] = msg[f + 1 + i]
  BY <1>1, CutAtFirst DEF space
<1>3. f # npos
  BY <1>2 DEF npos
<1>4. RestThrows(msg) <=> Len(p) = 0
  BY <1>1, <1>2 DEF RestThrows, PastEnd
<1>5. Len(p) = 0 <=> p = << >>
  BY <1>2
<1>6. p = Substr(msg, f + 1, Len(msg) - f)
  <2>1. Len(msg) - f \in Int /\ Len(msg) - f >= Len(msg) - f - 1
    BY <1>2
  <2>2. f = Find(msg, SP)
    BY <1>1 DEF space
  <2>3. QED
    BY <2>1, <2>2, SubstrAtFirst
<1>7. ASSUME p # << >>
      PROVE  prefix_channel(msg) = << Head(p) >> /\ rest(msg) = Tail(p) /\ Tail(p) \in Seq(S)
  <2>1. Len(p) > 0 /\ f + 2 <= Len(msg)
    BY <1>2, <1>5, <1>7
  <2>2. prefix_channel(msg) = SubSeq(msg, f + 2, f + 2)
    <3>1. PICK x : x = f + 1
      OBVIOUS
    <3>2. x \in Nat /\ x + 1 = f + 2 /\ ~ x + 1 > Len(msg)
      BY <1>2, <2>1, <3>1
    <3>3. prefix_channel(msg) = Substr(msg, x, 1)
      BY <1>1, <3>1 DEF prefix_channel
    <3>4. Substr(msg, x, 1) = SubSeq(msg, x + 1, x + 1)
      BY <3>2 DEF Substr
    <3>5. QED
      BY <3>2, <3>3, <3>4
  <2>3. SubSeq(msg, f + 2, f + 2) = << msg[f + 2] >>
    <3>1. PICK g : g = f + 2
      OBVIOUS
    <3>2. g \in 1 .. Len(msg)
      BY <1>2, <2>1, <3>1
    <3>3. PICK u : u = SubSeq(msg, g, g)
      OBVIOUS
    <3>4. u \in Seq(S) /\ Len(u) = 1 /\ u[1] = msg[g]
      BY <3>2, <3>3
    <3>5. u = << u[1] >>
      BY <3>4
    <3>6. QED
      BY <3>1, <3>3, <3>4, <3>5
  <2>4. Head(p) = msg[f + 2]
    <3>1. Head(p) = p[1]
      BY <1>2, <1>7
    <3>2. 1 \in 1 .. (Len(msg) - f - 1) /\ f + 1 + 1 = f + 2
      BY <1>2, <2>1
    <3>3. QED
      BY <1>2, <3>1, <3>2
  <2>5. rest(msg) = SubSeq(msg, f + 3, Len(msg))
    <3>1. rest(msg) = SubSeq(msg, f + 2 + 1, Len(msg))
      BY <1>1, <1>2, <2>1 DEF rest, Substr
    <3>2. f + 2 + 1 = f + 3
      BY <1>2
    <3>3. QED
      BY <3>1, <3>2
  <2>6. Tail(p) \in Seq(S) /\ Len(Tail(p)) = Len(p) - 1 /\ \A i \in 1 .. (Len(p) - 1) : Tail(p)[i] = p[i + 1]
    BY <1>2, <1>7
  <2>7. /\ SubSeq(msg, f + 3, Len(msg)) \in Seq(S)
        /\ Len(SubSeq(msg, f + 3, Len(msg))) = Len(msg) - f - 2
        /\ \A i \in 1 .. (Len(msg) - f - 2) : SubSeq(msg, f + 3, Len(msg))[i] = msg[f + 2 + i]
    <3>1. PICK g, n : g = f + 3 /\ n = Len(msg)
      OBVIOUS
    <3>2. g \in Nat /\ g >= 1 /\ n \in Nat /\ g <= n + 1
      BY <1>2, <2>1, <3>1
    <3>3. /\ SubSeq(msg, g, n) \in Seq(S) /\ Len(SubSeq(msg, g, n)) = n - g + 1
          /\ \A i \in 1 .. (n - g + 1) : SubSeq(msg, g, n)[i] = msg[g + i - 1]
      BY <3>1, <3>2
    <3>4. n - g + 1 = Len(msg) - f - 2
      BY <1>2, <3>1
    <3>5. ASSUME NEW i \in 1 .. (Len(msg) - f - 2)
          PROVE  SubSeq(msg, g, n)[i] = msg[f + 2 + i]
      <4>1. g + i - 1 = f + 2 + i
        BY <1>2, <3>1
      <4>2. QED
        BY <3>3, <3>4, <4>1
    <3>6. QED
      BY <3>1, <3>3, <3>4, <3>5
  <2>8. PICK r, t : r = SubSeq(msg, f + 3, Len(msg)) /\ t = Tail(p)
    OBVIOUS
  <2>9. \A i \in 1 .. Len(t) : t[i] = r[i]
    <3>1. ASSUME NEW i \in 1 .. Len(t)
          PROVE  t[i] = r[i]
      <4>1. PICK j : j = i + 1
        OBVIOUS
      <4>2. i \in 1 .. (Len(p) - 1) /\ j \in 1 .. (Len(msg) - f - 1) /\ f + 1 + j = f + 2 + i
        BY <1>2, <2>6, <2>8, <4>1
      <4>3. t[i] = p[j]
        BY <2>6, <2>8, <4>1, <4>2
      <4>4. p[j] = msg[f + 2 + i]
        BY <1>2, <4>2
      <4>5. i \in 1 .. (Len(msg) - f - 2)
        BY <1>2, <4>2
      <4>6. QED
        BY <2>7, <2>8, <4>3, <4>4, <4>5
    <3>2. QED
      BY <3>1
  <2>10. Len(t) = Len(r)
    BY <1>2, <2>6, <2>7, <2>8
  <2>11. t = r
    BY <2>6, <2>7, <2>8, <2>9, <2>10, SeqEqual
  <2>12. QED
    BY <2>2, <2>3, <2>4, <2>5, <2>6, <2>8, <2>11
<1>8. QED
  BY <1>1, <1>2, <1>3, <1>4, <1>5, <1>6, <1>7

\* The expressions by which the handlers cut at the first space.
LEMMA CutsInHandlers ==
    ASSUME NEW S, NEW t \in Seq(S), SP \in ToSet(t)
    PROVE  /\ Find(t, SP) # npos
           /\ Before(t, SP) \in Seq(S) /\ Behind(t, SP) \in Seq(S)
           /\ Substr(t, 0, Find(t, SP)) = Before(t, SP)
           /\ Substr(t, 0, Len(t) - (Len(t) - Find(t, SP))) = Before(t, SP)
           /\ Substr(t, Find(t, SP) + 1, Len(t) - Find(t, SP)) = Behind(t, SP)
           /\ Substr(t, Find(t, SP) + 1, Len(t) - Len(Before(t, SP)) - 1) = Behind(t, SP)
           /\ Substr(t, 0, Len(t) - Len(Behind(t, SP)) - 1) = Before(t, SP)
<1>1. PICK f : f = Find(t, SP)
  OBVIOUS
<1>2. /\ f \in Nat /\ f < Len(t) /\ Len(t) \in Nat
      /\ Before(t, SP) \in Seq(S) /\ Behind(t, SP) \in Seq(S)
      /\ Len(Before(t, SP)) = f /\ Len(Behind(t, SP)) = Len(t) - f - 1
  BY <1>1, CutAtFirst
<1>3. /\ Len(t) - (Len(t) - f) = f
      /\ Len(t) - Len(Before(t, SP)) - 1 = Len(t) - f - 1
      /\ Len(t) - Len(Behind(t, SP)) - 1 = f
  BY <1>2
<1>4. Substr(t, 0, f) = Before(t, SP)
  BY <1>1, SubstrAtFirst
<1>5. /\ Len(t) - f \in Int /\ Len(t) - f >= Len(t) - f - 1
      /\ Len(t) - f - 1 \in Int /\ Len(t) - f - 1 >= Len(t) - f - 1
  BY <1>2
<1>6. Substr(t, f + 1, Len(t) - f) = Behind(t, SP) /\ Substr(t, f + 1, Len(t) - f - 1) = Behind(t, SP)
  BY <1>1, <1>5, SubstrAtFirst
<1>7. f # npos
  BY <1>2 DEF npos
<1>8. QED
  BY <1>1, <1>2, <1>3, <1>4, <1>6, <1>7

LEMMA NoSpace ==
    ASSUME NEW S, NEW t \in Seq(S), SP \notin ToSet(t)
    PROVE  Find(t, SP) = npos
BY FindProperties DEF npos

\* sendMode and sendKick.
LEMMA ThreeParametersAre ==
    ASSUME NEW S, NEW msg \in Seq(S), SP \in ToSet(msg), NEW p, p = Behind(msg, SP)
    PROVE  /\ p = << >> => ThreeParameters(msg) = Throws
           /\ p # << >> => ThreeParameters(msg) =
                IF \/ SP \notin ToSet(Tail(p)) \/ SP \notin ToSet(Behind(Tail(p), SP))
                   \/ Head(p) # HASH
                THEN Ignored
                ELSE Cut(<< Before(Tail(p), SP), Before(Behind(Tail(p), SP), SP),
                            Behind(Behind(Tail(p), SP), SP) >>)
<1>1. /\ space(msg) # npos
      /\ RestThrows(msg) <=> p = << >>
      /\ p # << >> => /\ prefix_channel(msg) = << Head(p) >>
                      /\ rest(msg) = Tail(p)
                      /\ Tail(p) \in Seq(S)
  BY Beginning
<1>2. CASE p = << >>
  BY <1>1, <1>2 DEF ThreeParameters
<1>3. CASE p # << >>
  <2>1. PICK t : t = Tail(p)
    OBVIOUS
  <2>2. t \in Seq(S) /\ rest(msg) = t
    BY <1>1, <1>3, <2>1
  <2>3. prefix_channel(msg) # << HASH >> <=> Head(p) # HASH
    BY <1>1, <1>3, OneCharacter
  <2>4. CASE SP \notin ToSet(t)
    <3>1. Find(t, SP) = npos
      BY <2>2, <2>4, NoSpace
    <3>2. ThreeParameters(msg) = Ignored
      BY <1>1, <1>3, <2>2, <3>1 DEF ThreeParameters
    <3>3. QED
      BY <1>3, <2>1, <2>4, <3>2
  <2>5. CASE SP \in ToSet(t)
    <3>1. PICK u : u = Behind(t, SP)
      OBVIOUS
    <3>2. /\ Find(t, SP) # npos /\ u \in Seq(S)
          /\ Substr(t, 0, Len(t) - (Len(t) - Find(t, SP))) = Before(t, SP)
          /\ Substr(t, Find(t, SP) + 1, Len(t) - Len(Before(t, SP)) - 1) = u
      BY <2>2, <2>5, <3>1, CutsInHandlers
    <3>3. CASE SP \notin ToSet(u)
      <4>1. Find(u, SP) = npos
        BY <3>2, <3>3, NoSpace
      <4>2. ThreeParameters(msg) = Ignored
        BY <1>1, <1>3, <2>2, <3>2, <4>1 DEF ThreeParameters
      <4>3. QED
        BY <1>3, <2>1, <3>1, <3>3, <4>2
    <3>4. CASE SP \in ToSet(u)
      <4>1. /\ Find(u, SP) # npos
            /\ Substr(u, 0, Find(u, SP)) = Before(u, SP)
            /\ Substr(u, Find(u, SP) + 1, Len(u) - Len(Before(u, SP)) - 1) = Behind(u, SP)
        BY <3>2, <3>4, CutsInHandlers
      <4>2. ThreeParameters(msg) =
              IF prefix_channel(msg) # << HASH >> THEN Ignored
              ELSE Cut(<< Before(t, SP), Before(u, SP), Behind(u, SP) >>)
        BY <1>1, <1>3, <2>2, <3>2, <4>1 DEF ThreeParameters
      <4>3. QED
        BY <1>3, <2>1, <2>3, <2>5, <3>1, <3>4, <4>2
    <3>5. QED
      BY <3>3, <3>4
  <2>6. QED
    BY <2>4, <2>5
<1>4. QED
  BY <1>2, <1>3

LEMMA PartIs ==
    ASSUME NEW S, NEW msg \in Seq(S), SP \in ToSet(msg), NEW p, p = Behind(msg, SP)
    PROVE  /\ p = << >> => sendPart(msg) = Throws
           /\ p # << >> => sendPart(msg) =
                IF Head(p) # HASH THEN Ignored
                ELSE IF SP \in ToSet(Tail(p))
                THEN Cut(<< Before(Tail(p), SP), Behind(Tail(p), SP) >>)
                ELSE Cut(<< Tail(p), Tail(p) >>)
<1>1. /\ space(msg) # npos
      /\ RestThrows(msg) <=> p = << >>
      /\ p # << >> => /\ prefix_channel(msg) = << Head(p) >>
                      /\ rest(msg) = Tail(p)
                      /\ Tail(p) \in Seq(S)
  BY Beginning
<1>2. CASE p = << >>
  BY <1>1, <1>2 DEF sendPart
<1>3. CASE p # << >>
  <2>1. PICK t : t = Tail(p)
    OBVIOUS
  <2>2. t \in Seq(S) /\ rest(msg) = t
    BY <1>1, <1>3, <2>1
  <2>3. prefix_channel(msg) # << HASH >> <=> Head(p) # HASH
    BY <1>1, <1>3, OneCharacter
  <2>4. CASE SP \notin ToSet(t)
    <3>1. Find(t, SP) = -1
      BY <2>2, <2>4, NoSpace DEF npos
    <3>2. /\ Len(t) - (-1) \in Int /\ Len(t) - (-1) >= Len(t)
          /\ Len(t) - Len(t) - 1 \in Int /\ Len(t) - Len(t) - 1 < 0
          /\ (-1) + 1 = 0
      BY <2>2
    <3>3. Substr(t, 0, Len(t) - (-1)) = t /\ Substr(t, 0, Len(t) - Len(t) - 1) = t
      BY <2>2, <3>2, SubstrOfAll
    <3>4. Substr(t, Find(t, SP) + 1, Len(t) - Find(t, SP)) = t
      BY <3>1, <3>2, <3>3
    <3>5. sendPart(msg) = IF prefix_channel(msg) # << HASH >> THEN Ignored ELSE Cut(<< t, t >>)
      BY <1>1, <1>3, <2>2, <3>3, <3>4 DEF sendPart
    <3>6. QED
      BY <1>3, <2>1, <2>3, <2>4, <3>5
  <2>5. CASE SP \in ToSet(t)
    <3>1. PICK u : u = Behind(t, SP)
      OBVIOUS
    <3>2. /\ Substr(t, Find(t, SP) + 1, Len(t) - Find(t, SP)) = u
          /\ Substr(t, 0, Len(t) - Len(u) - 1) = Before(t, SP)
      BY <2>2, <2>5, <3>1, CutsInHandlers
    <3>3. sendPart(msg) = IF prefix_channel(msg) # << HASH >> THEN Ignored ELSE Cut(<< Before(t, SP), u >>)
      BY <1>1, <1>3, <2>2, <3>2 DEF sendPart
    <3>4. QED
      BY <1>3, <2>1, <2>3, <2>5, <3>1, <3>3
  <2>6. QED
    BY <2>4, <2>5
<1>4. QED
  BY <1>2, <1>3

\* From behind the second character on is the tail of the tail.
LEMMA SubSeqIsTail ==
    ASSUME NEW S, NEW s \in Seq(S), s # << >>
    PROVE  SubSeq(s, 2, Len(s)) = Tail(s)
<1>1. PICK r, u : r = SubSeq(s, 2, Len(s)) /\ u = Tail(s)
  OBVIOUS
<1>2. Len(s) \in Nat /\ Len(s) > 0
  OBVIOUS
<1>3. r \in Seq(S) /\ Len(r) = Len(s) - 1 /\ \A i \in 1 .. (Len(s) - 1) : r[i] = s[i + 1]
  <2>1. PICK n : n = Len(s)
    OBVIOUS
  <2>2. /\ SubSeq(s, 2, n) \in Seq(S) /\ Len(SubSeq(s, 2, n)) = n - 1
        /\ \A i \in 1 .. (n - 1) : SubSeq(s, 2, n)[i] = s[i + 1]
    BY <1>2, <2>1
  <2>3. QED
    BY <1>1, <2>1, <2>2
<1>4. u \in Seq(S) /\ Len(u) = Len(s) - 1 /\ \A i \in 1 .. (Len(s) - 1) : u[i] = s[i + 1]
  BY <1>1, <1>2
<1>5. r = u
  BY <1>3, <1>4, SeqEqual
<1>6. QED
  BY <1>1, <1>5

LEMMA TopicIs ==
    ASSUME NEW S, NEW msg \in Seq(S), SP \in ToSet(msg), NEW p, p = Behind(msg, SP)
    PROVE  /\ p = << >> => sendTopic(msg) = Throws
           /\ p # << >> => sendTopic(msg) =
                IF SP \notin ToSet(Tail(p)) THEN Ignored
                ELSE IF Behind(Tail(p), SP) = << >> THEN Throws
                ELSE Cut(<< Before(Tail(p), SP), Tail(Behind(Tail(p), SP)) >>)
<1>1. /\ space(msg) # npos
      /\ RestThrows(msg) <=> p = << >>
      /\ p # << >> => rest(msg) = Tail(p) /\ Tail(p) \in Seq(S)
  BY Beginning
<1>2. CASE p = << >>
  BY <1>1, <1>2 DEF sendTopic
<1>3. CASE p # << >>
  <2>1. PICK t : t = Tail(p)
    OBVIOUS
  <2>2. t \in Seq(S) /\ rest(msg) = t
    BY <1>1, <1>3, <2>1
  <2>3. CASE SP \notin ToSet(t)
    <3>1. Find(t, SP) = npos
      BY <2>2, <2>3, NoSpace
    <3>2. sendTopic(msg) = Ignored
      BY <1>1, <1>3, <2>2, <3>1 DEF sendTopic
    <3>3. QED
      BY <1>3, <2>1, <2>3, <3>2
  <2>4. CASE SP \in ToSet(t)
    <3>1. PICK u, f : u = Behind(t, SP) /\ f = Find(t, SP)
      OBVIOUS
    <3>2. /\ Substr(t, 0, Len(t) - (Len(t) - f)) = Before(t, SP)
          /\ f # npos
      BY <2>2, <2>4, <3>1, CutsInHandlers
    <3>3. /\ f \in Nat /\ f < Len(t) /\ Len(t) \in Nat
          /\ u \in Seq(S) /\ Len(u) = Len(t) - f - 1 /\ Len(Before(t, SP)) = f
          /\ \A i \in 1 .. (Len(t) - f - 1) : u[i] = t[f + 1 + i]
      BY <2>2, <2>4, <3>1, CutAtFirst
    <3>4. PastEnd(t, f + 2) <=> u = << >>
      BY <3>3 DEF PastEnd
    <3>5. CASE u = << >>
      <4>1. sendTopic(msg) = Throws
        BY <1>1, <1>3, <2>2, <3>1, <3>2, <3>4, <3>5 DEF sendTopic
      <4>2. QED
        BY <1>3, <2>1, <2>4, <3>1, <3>5, <4>1
    <3>6. CASE u # << >>
      <4>1. Substr(t, f + 2, Len(t) - Len(Before(t, SP)) - 1) = Tail(u)
        <5>1. Len(u) > 0
          BY <3>3, <3>6
        <5>2. PICK x, n : x = f + 2 /\ n = Len(t) - Len(Before(t, SP)) - 1
          OBVIOUS
        <5>3. x \in Nat /\ n \in Int /\ x + n > Len(t) /\ x + 1 = f + 3
          BY <3>3, <5>1, <5>2
        <5>4. Substr(t, x, n) = SubSeq(t, x + 1, Len(t))
          BY <5>3 DEF Substr
        <5>5. PICK r, v : r = SubSeq(t, x + 1, Len(t)) /\ v = Tail(u)
          OBVIOUS
        <5>6. v \in Seq(S) /\ Len(v) = Len(u) - 1 /\ \A i \in 1 .. (Len(u) - 1) : v[i] = u[i + 1]
          BY <3>3, <3>6, <5>5
        <5>7. /\ r \in Seq(S) /\ Len(r) = Len(t) - x
              /\ \A i \in 1 .. (Len(t) - x) : r[i] = t[x + i]
          <6>1. PICK g, m : g = x + 1 /\ m = Len(t)
            OBVIOUS
          <6>2. g \in Nat /\ g >= 1 /\ m \in Nat /\ g <= m + 1
            BY <3>3, <5>1, <5>2, <6>1
          <6>3. /\ SubSeq(t, g, m) \in Seq(S) /\ Len(SubSeq(t, g, m)) = m - g + 1
                /\ \A i \in 1 .. (m - g + 1) : SubSeq(t, g, m)[i] = t[g + i - 1]
            BY <2>2, <6>1, <6>2
          <6>4. m - g + 1 = Len(t) - x
            BY <3>3, <5>3, <6>1
          <6>5. ASSUME NEW i \in 1 .. (Len(t) - x)
                PROVE  SubSeq(t, g, m)[i] = t[x + i]
            <7>1. g + i - 1 = x + i
              BY <5>3, <6>1
            <7>2. QED
              BY <6>3, <6>4, <7>1
          <6>6. QED
            BY <5>5, <6>1, <6>3, <6>4, <6>5
        <5>8. Len(r) = Len(v)
          BY <3>3, <5>2, <5>6, <5>7
        <5>9. \A i \in 1 .. Len(v) : v[i] = r[i]
          <6>1. ASSUME NEW i \in 1 .. Len(v)
                PROVE  v[i] = r[i]
            <7>1. PICK j : j = i + 1
              OBVIOUS
            <7>2. /\ i \in 1 .. (Len(u) - 1) /\ j \in 1 .. (Len(t) - f - 1)
                  /\ f + 1 + j = x + i /\ i \in 1 .. (Len(t) - x)
              BY <3>3, <5>2, <5>6, <7>1
            <7>3. v[i] = u[j] /\ u[j] = t[x + i]
              BY <3>3, <5>6, <7>1, <7>2
            <7>4. QED
              BY <5>7, <7>2, <7>3
          <6>2. QED
            BY <6>1
        <5>10. r = v
          BY <5>6, <5>7, <5>8, <5>9, SeqEqual
        <5>11. QED
          BY <5>2, <5>4, <5>5, <5>10
      <4>2. sendTopic(msg) = Cut(<< Before(t, SP), Tail(u) >>)
        BY <1>1, <1>3, <2>2, <3>1, <3>2, <3>4, <3>6, <4>1 DEF sendTopic
      <4>3. QED
        BY <1>3, <2>1, <2>4, <3>1, <3>6, <4>2
    <3>7. QED
      BY <3>5, <3>6
  <2>5. QED
    BY <2>3, <2>4
<1>4. QED
  BY <1>2, <1>3

LEMMA JoinIs ==
    ASSUME NEW S, NEW msg \in Seq(S), SP \in ToSet(msg), NEW p, p = Behind(msg, SP)
    PROVE  /\ p = << >> => sendJoin(msg) = Throws
           /\ p # << >> => sendJoin(msg) =
                IF \/ Head(p) # HASH
                   \/ ToSet(Substr(Tail(p), 0, NameLimit)) \cap {SP, COLON, COMMA} # {}
                THEN Ignored
                ELSE Cut(<< Substr(Tail(p), 0, NameLimit) >>)
<1>1. /\ space(msg) # npos
      /\ RestThrows(msg) <=> p = << >>
      /\ p # << >> => /\ prefix_channel(msg) = << Head(p) >>
                      /\ rest(msg) = Tail(p)
  BY Beginning
<1>2. CASE p = << >>
  BY <1>1, <1>2 DEF sendJoin
<1>3. CASE p # << >>
  <2>1. prefix_channel(msg) # << HASH >> <=> Head(p) # HASH
    BY <1>1, <1>3, OneCharacter
  <2>2. QED
    BY <1>1, <1>3, <2>1 DEF sendJoin, joinInputFormatCheck
<1>4. QED
  BY <1>2, <1>3

LEMMA FileIs ==
    ASSUME NEW S, NEW msg \in Seq(S), SP \in ToSet(msg), NEW p, p = Behind(msg, SP)
    PROVE  sendFile(msg) =
             IF SP \notin ToSet(p) \/ SP \notin ToSet(Behind(p, SP)) THEN Ignored
             ELSE Cut(<< Before(Behind(p, SP), SP), Behind(Behind(p, SP), SP) >>)
<1>1. /\ space(msg) # npos /\ p \in Seq(S)
      /\ Substr(msg, space(msg) + 1, Len(msg) - space(msg)) = p
  BY Beginning
<1>2. CASE SP \notin ToSet(p)
  <2>1. Find(p, SP) = npos
    BY <1>1, <1>2, NoSpace
  <2>2. sendFile(msg) = Ignored
    BY <1>1, <2>1 DEF sendFile
  <2>3. QED
    BY <1>2, <2>2
<1>3. CASE SP \in ToSet(p)
  <2>1. PICK u : u = Behind(p, SP)
    OBVIOUS
  <2>2. /\ Find(p, SP) # npos /\ u \in Seq(S)
        /\ Substr(p, 0, Len(p) - (Len(p) - Find(p, SP))) = Before(p, SP)
        /\ Substr(p, Find(p, SP) + 1, Len(p) - Len(Before(p, SP)) - 1) = u
    BY <1>1, <1>3, <2>1, CutsInHandlers
  <2>3. CASE SP \notin ToSet(u)
    <3>1. Find(u, SP) = npos
      BY <2>2, <2>3, NoSpace
    <3>2. sendFile(msg) = Ignored
      BY <1>1, <2>2, <3>1 DEF sendFile
    <3>3. QED
      BY <2>1, <2>3, <3>2
  <2>4. CASE SP \in ToSet(u)
    <3>1. /\ Find(u, SP) # npos
          /\ Substr(u, 0, Find(u, SP)) = Before(u, SP)
          /\ Substr(u, Find(u, SP) + 1, Len(u) - Len(Before(u, SP)) - 1) = Behind(u, SP)
      BY <2>2, <2>4, CutsInHandlers
    <3>2. sendFile(msg) = Cut(<< Before(u, SP), Behind(u, SP) >>)
      BY <1>1, <2>2, <3>1 DEF sendFile
    <3>3. QED
      BY <1>3, <2>1, <2>4, <3>2
  <2>5. QED
    BY <2>3, <2>4
<1>4. QED
  BY <1>2, <1>3

LEMMA PrivMsgIs ==
    ASSUME NEW S, NEW msg \in Seq(S), SP \in ToSet(msg), NEW p, p = Behind(msg, SP)
    PROVE  sendPrivMsgUser(msg) =
             IF SP \notin ToSet(p) THEN Ignored
             ELSE IF Before(p, SP) # << >> /\ Head(Before(p, SP)) = HASH
             THEN CutForChannel(<< Tail(Before(p, SP)), Behind(p, SP) >>)
             ELSE Cut(<< Before(p, SP), Behind(p, SP) >>)
<1>1. /\ space(msg) # npos /\ p \in Seq(S)
      /\ Substr(msg, space(msg) + 1, Len(msg) - space(msg)) = p
  BY Beginning
<1>2. CASE SP \notin ToSet(p)
  <2>1. Find(p, SP) = npos
    BY <1>1, <1>2, NoSpace
  <2>2. sendPrivMsgUser(msg) = Ignored
    BY <1>1, <2>1 DEF sendPrivMsgUser
  <2>3. QED
    BY <1>2, <2>2
<1>3. CASE SP \in ToSet(p)
  <2>1. PICK e : e = Before(p, SP)
    OBVIOUS
  <2>2. /\ Find(p, SP) # npos /\ e \in Seq(S)
        /\ Substr(p, 0, Find(p, SP)) = e
        /\ Substr(p, Find(p, SP) + 1, Len(p) - Find(p, SP)) = Behind(p, SP)
    BY <1>1, <1>3, <2>1, CutsInHandlers
  <2>3. Substr(e, 0, 1) = << HASH >> <=> e # << >> /\ Head(e) = HASH
    <3>1. CASE e = << >>
      <4>1. Len(e) = 0
        BY <3>1
      <4>2. Substr(e, 0, 1) = e
        <5>1. 1 \in Int /\ 1 >= Len(e)
          BY <4>1
        <5>2. QED
          BY <2>2, <5>1, SubstrOfAll
      <4>3. << HASH >> # << >>
        OBVIOUS
      <4>4. QED
        BY <3>1, <4>2, <4>3
    <3>2. CASE e # << >>
      <4>1. Len(e) \in Nat /\ Len(e) > 0
        BY <2>2, <3>2
      <4>2. Substr(e, 0, 1) = SubSeq(e, 1, 1)
        BY <4>1 DEF Substr
      <4>3. PICK v : v = SubSeq(e, 1, 1)
        OBVIOUS
      <4>4. v \in Seq(S) /\ Len(v) = 1 /\ v[1] = e[1]
        BY <2>2, <4>1, <4>3
      <4>5. v = << v[1] >>
        BY <4>4
      <4>6. Head(e) = e[1]
        BY <2>2, <3>2
      <4>7. QED
        BY <3>2, <4>2, <4>3, <4>4, <4>5, <4>6, OneCharacter
    <3>3. QED
      BY <3>1, <3>2
  <2>4. e # << >> => Substr(e, 1, Len(e) - 1) = Tail(e)
    <3>1. ASSUME e # << >>
          PROVE  Substr(e, 1, Len(e) - 1) = Tail(e)
      <4>1. Len(e) \in Nat /\ Len(e) > 0
        BY <2>2, <3>1
      <4>2. Substr(e, 1, Len(e) - 1) = SubSeq(e, 2, Len(e))
        BY <4>1 DEF Substr
      <4>3. QED
        BY <2>2, <3>1, <4>2, SubSeqIsTail
    <3>2. QED
      BY <3>1
  <2>5. sendPrivMsgUser(msg) =
          IF Substr(e, 0, 1) = << HASH >> THEN CutForChannel(<< Substr(e, 1, Len(e) - 1), Behind(p, SP) >>)
          ELSE Cut(<< e, Behind(p, SP) >>)
    BY <1>1, <2>2 DEF sendPrivMsgUser
  <2>6. QED
    BY <1>3, <2>1, <2>3, <2>4, <2>5
<1>4. QED
  BY <1>2, <1>3

LEMMA Outcomes ==
    /\ Ignored # Throws
    /\ Throws.outcome # "cut" /\ Ignored.outcome # "cut"
    /\ \A x : Cut(x) # Throws /\ Cut(x) # Ignored /\ CutForChannel(x) # Throws
    /\ \A x : Cut(x).outcome = "cut" /\ Cut(x).parameters = x
    /\ \A x, y : CutForChannel(x) # Cut(y)
BY DEF Cut, Ignored, Throws, CutForChannel

\* How many pieces there are.
LEMMA Lengths ==
    \A x, y, z : Len(<< x >>) = 1 /\ Len(<< x, y >>) = 2 /\ Len(<< x, y, z >>) = 3
OBVIOUS

LEMMA SubstrType ==
    ASSUME NEW S, NEW s \in Seq(S), NEW pos \in Nat, NEW n \in Int
    PROVE  Substr(s, pos, n) \in Seq(S)
<1>1. PICK m, k : m = (IF n < 0 \/ pos + n > Len(s) THEN Len(s) ELSE pos + n) /\ k = pos + 1
  OBVIOUS
<1>2. m \in Nat /\ m <= Len(s) /\ k \in Nat /\ k >= 1
  BY <1>1
<1>3. SubSeq(s, k, m) \in Seq(S)
  BY <1>2
<1>4. QED
  BY <1>1, <1>3 DEF Substr

-----------------------------------------------------------------------------
(* The properties, for every line.                                         *)

\* Every state's line is a string.
THEOREM LineIsString == Spec => [](line \in Seq(Char))
<1>1. Init => line \in Seq(Char)
  <2>1. \A c \in Letter : << c >> \in Seq(Char)
    BY DEF Char
  <2>2. QED
    BY <2>1 DEF Init
<1>2. line \in Seq(Char) /\ [Next]_line => (line \in Seq(Char))'
  BY DEF Next
<1>3. QED
  BY <1>1, <1>2, PTL DEF Spec

\* What a handler is given: a string, whose parameters stand behind its first space.
LEMMA QueryFacts ==
    ASSUME line \in Seq(Char)
    PROVE  /\ query \in Seq(Char)
           /\ Dispatched => Parameters = Behind(query, SP) /\ Parameters \in Seq(Char)
<1>1. query \in Seq(Char)
  <2>1. 0 \in Nat /\ Len(line) - 1 \in Int
    OBVIOUS
  <2>2. Substr(line, 0, Len(line) - 1) \in Seq(Char)
    BY <2>1, SubstrType
  <2>3. QED
    BY <2>2 DEF query
<1>2. ASSUME Dispatched
      PROVE  Parameters = Behind(query, SP) /\ Parameters \in Seq(Char)
  <2>1. SP \in ToSet(query)
    BY <1>2 DEF Dispatched
  <2>2. Pieces(query, SP, 1) = << Before(query, SP), Behind(query, SP) >>
    BY <1>1, <2>1, PiecesOne
  <2>3. Behind(query, SP) \in Seq(Char)
    BY <1>1, <2>1, CutAtFirst
  <2>4. QED
    BY <2>2, <2>3 DEF Parameters
<1>3. QED
  BY <1>1, <1>2

\* Exactly the lines that end with their first space make JOIN, PART, MODE, KICK and
\* TOPIC throw, and those that end with the space after a channel make TOPIC throw
\* (Command.cpp, the substr() calls).
LEMMA ThrowsExactly ==
    ASSUME line \in Seq(Char)
    PROVE  ThrowsExactlyWhen
<1> SUFFICES ASSUME Dispatched
             PROVE  ThrowsExactlyWhen
  BY DEF ThrowsExactlyWhen
<1>1. PICK msg, p : msg = query /\ p = Parameters
  OBVIOUS
<1>2. msg \in Seq(Char) /\ SP \in ToSet(msg) /\ p = Behind(msg, SP) /\ p \in Seq(Char)
  BY <1>1, QueryFacts DEF Dispatched
<1>3. sendJoin(msg) = Throws <=> p = << >>
  <2>1. /\ p = << >> => sendJoin(msg) = Throws
        /\ p # << >> => sendJoin(msg) = Ignored \/ \E x : sendJoin(msg) = Cut(x)
    BY <1>2, JoinIs
  <2>2. QED
    BY <2>1, Outcomes
<1>4. sendPart(msg) = Throws <=> p = << >>
  <2>1. /\ p = << >> => sendPart(msg) = Throws
        /\ p # << >> => sendPart(msg) = Ignored \/ \E x : sendPart(msg) = Cut(x)
    BY <1>2, PartIs
  <2>2. QED
    BY <2>1, Outcomes
<1>5. ThreeParameters(msg) = Throws <=> p = << >>
  <2>1. /\ p = << >> => ThreeParameters(msg) = Throws
        /\ p # << >> => ThreeParameters(msg) = Ignored \/ \E x : ThreeParameters(msg) = Cut(x)
    BY <1>2, ThreeParametersAre
  <2>2. QED
    BY <2>1, Outcomes
<1>6. sendPrivMsgUser(msg) # Throws /\ sendFile(msg) # Throws
  <2>1. \/ sendPrivMsgUser(msg) = Ignored
        \/ \E x : sendPrivMsgUser(msg) = Cut(x) \/ sendPrivMsgUser(msg) = CutForChannel(x)
    BY <1>2, PrivMsgIs
  <2>2. sendFile(msg) = Ignored \/ \E x : sendFile(msg) = Cut(x)
    BY <1>2, FileIs
  <2>3. QED
    BY <2>1, <2>2, Outcomes
<1>7. sendTopic(msg) = Throws <=>
        \/ p = << >>
        \/ LET pieces == Pieces(Tail(p), SP, 1)
           IN  Len(pieces) = 2 /\ pieces[2] = << >>
  <2>1. CASE p = << >>
    BY <1>2, <2>1, TopicIs
  <2>2. CASE p # << >>
    <3>1. PICK t : t = Tail(p)
      OBVIOUS
    <3>2. t \in Seq(Char)
      BY <1>2, <2>2, <3>1
    <3>3. sendTopic(msg) = IF SP \notin ToSet(t) THEN Ignored
                           ELSE IF Behind(t, SP) = << >> THEN Throws
                           ELSE Cut(<< Before(t, SP), Tail(Behind(t, SP)) >>)
      BY <1>2, <2>2, <3>1, TopicIs
    <3>4. Pieces(t, SP, 1) = IF SP \in ToSet(t) THEN << Before(t, SP), Behind(t, SP) >> ELSE << t >>
      BY <3>2, PiecesOne
    <3>5. sendTopic(msg) = Throws <=> SP \in ToSet(t) /\ Behind(t, SP) = << >>
      BY <3>3, Outcomes
    <3>6. SP \in ToSet(t) /\ Behind(t, SP) = << >> <=>
            Len(Pieces(t, SP, 1)) = 2 /\ Pieces(t, SP, 1)[2] = << >>
      BY <3>4
    <3>7. QED
      BY <2>2, <3>1, <3>5, <3>6
  <2>3. QED
    BY <2>1, <2>2
<1>8. QED
  BY <1>1, <1>3, <1>4, <1>5, <1>6, <1>7 DEF ThrowsExactlyWhen, sendMode, sendKick

\* Exactly the lines of ThrowsExactlyWhen end the process (Command.cpp, the substr()
\* calls).
THEOREM ThrowsAsStated == Spec => []ThrowsExactlyWhen
BY LineIsString, ThrowsExactly, PTL

\* What the handlers cut out of a line is what stands between its spaces
\* (Command.cpp, sendPart, sendMode, sendKick, sendPrivMsgUser, sendFile).
LEMMA CutsExactly ==
    ASSUME line \in Seq(Char)
    PROVE  CutsAtSpaces
<1> SUFFICES ASSUME Dispatched
             PROVE  CutsAtSpaces
  BY DEF CutsAtSpaces
<1>1. PICK msg, p : msg = query /\ p = Parameters
  OBVIOUS
<1>2. msg \in Seq(Char) /\ SP \in ToSet(msg) /\ p = Behind(msg, SP) /\ p \in Seq(Char)
  BY <1>1, QueryFacts DEF Dispatched
<1>3. ASSUME p # << >>
      PROVE  /\ ThreeParameters(msg) = WithChannel(3)
             /\ sendPart(msg) = IF WithChannel(2) # Ignored THEN WithChannel(2)
                                ELSE IF ChannelGiven THEN Cut(<< Tail(p), Tail(p) >>)
                                ELSE Ignored
  <2>1. PICK t : t = Tail(p)
    OBVIOUS
  <2>2. t \in Seq(Char)
    BY <1>2, <1>3, <2>1
  <2>3. ChannelGiven <=> Head(p) = HASH
    BY <1>1, <1>3 DEF ChannelGiven
  <2>4. 3 - 1 = 2 /\ 2 - 1 = 1
    OBVIOUS
  <2>5. WithChannel(3) =
          IF ChannelGiven /\ Len(Pieces(t, SP, 2)) = 3 THEN Cut(Pieces(t, SP, 2)) ELSE Ignored
    BY <1>1, <2>1, <2>4 DEF WithChannel
  <2>6. WithChannel(2) =
          IF ChannelGiven /\ Len(Pieces(t, SP, 1)) = 2 THEN Cut(Pieces(t, SP, 1)) ELSE Ignored
    BY <1>1, <2>1, <2>4 DEF WithChannel
  <2>7. Pieces(t, SP, 2) =
          IF SP \notin ToSet(t) THEN << t >>
          ELSE IF SP \notin ToSet(Behind(t, SP)) THEN << Before(t, SP), Behind(t, SP) >>
          ELSE << Before(t, SP), Before(Behind(t, SP), SP), Behind(Behind(t, SP), SP) >>
    BY <2>2, PiecesTwo
  <2>8. Pieces(t, SP, 1) = IF SP \in ToSet(t) THEN << Before(t, SP), Behind(t, SP) >> ELSE << t >>
    BY <2>2, PiecesOne
  <2>9. Len(Pieces(t, SP, 2)) = 3 <=> SP \in ToSet(t) /\ SP \in ToSet(Behind(t, SP))
    <3>1. Len(Pieces(t, SP, 2)) = IF SP \notin ToSet(t) THEN 1
                                  ELSE IF SP \notin ToSet(Behind(t, SP)) THEN 2 ELSE 3
      BY <2>7, Lengths
    <3>2. QED
      BY <3>1
  <2>10. Len(Pieces(t, SP, 1)) = 2 <=> SP \in ToSet(t)
    <3>1. Len(Pieces(t, SP, 1)) = IF SP \in ToSet(t) THEN 2 ELSE 1
      BY <2>8, Lengths
    <3>2. QED
      BY <3>1
  <2>11. ThreeParameters(msg) = WithChannel(3)
    <3>1. ThreeParameters(msg) =
            IF \/ SP \notin ToSet(t) \/ SP \notin ToSet(Behind(t, SP)) \/ Head(p) # HASH
            THEN Ignored
            ELSE Cut(<< Before(t, SP), Before(Behind(t, SP), SP), Behind(Behind(t, SP), SP) >>)
      BY <1>2, <1>3, <2>1, ThreeParametersAre
    <3>2. QED
      BY <2>3, <2>5, <2>7, <2>9, <3>1
  <2>12. sendPart(msg) = IF Head(p) # HASH THEN Ignored
                         ELSE IF SP \in ToSet(t) THEN Cut(<< Before(t, SP), Behind(t, SP) >>)
                         ELSE Cut(<< t, t >>)
    BY <1>2, <1>3, <2>1, PartIs
  <2>13. CASE SP \in ToSet(t)
    BY <2>1, <2>3, <2>6, <2>8, <2>10, <2>11, <2>12, <2>13, Outcomes
  <2>14. CASE SP \notin ToSet(t)
    BY <2>1, <2>3, <2>6, <2>10, <2>11, <2>12, <2>14, Outcomes
  <2>15. QED
    BY <2>13, <2>14
<1>4. sendPrivMsgUser(msg) =
        LET pieces == Pieces(p, SP, 1)
        IN  IF Len(pieces) < 2 THEN Ignored
            ELSE IF ChannelGiven THEN CutForChannel(<< Tail(pieces[1]), pieces[2] >>)
            ELSE Cut(pieces)
  <2>1. PICK pieces : pieces = Pieces(p, SP, 1)
    OBVIOUS
  <2>2. pieces = IF SP \in ToSet(p) THEN << Before(p, SP), Behind(p, SP) >> ELSE << p >>
    BY <1>2, <2>1, PiecesOne
  <2>3. Len(pieces) < 2 <=> SP \notin ToSet(p)
    BY <2>2
  <2>4. PICK e : e = Before(p, SP)
    OBVIOUS
  <2>5. sendPrivMsgUser(msg) =
          IF SP \notin ToSet(p) THEN Ignored
          ELSE IF e # << >> /\ Head(e) = HASH THEN CutForChannel(<< Tail(e), Behind(p, SP) >>)
          ELSE Cut(<< e, Behind(p, SP) >>)
    BY <1>2, <2>4, PrivMsgIs
  <2>6. CASE SP \notin ToSet(p)
    BY <2>1, <2>3, <2>5, <2>6
  <2>7. CASE SP \in ToSet(p)
    <3>1. e # << >> /\ Head(e) = HASH <=> ChannelGiven
      <4>1. PICK f : f = Find(p, SP)
        OBVIOUS
      <4>2. /\ f \in Nat /\ f < Len(p) /\ e \in Seq(Char) /\ Len(e) = f
            /\ \A i \in 1 .. f : e[i] = p[i]
            /\ p[f + 1] = SP
        BY <1>2, <2>4, <2>7, <4>1, CutAtFirst
      <4>3. p # << >> /\ Head(p) = p[1]
        BY <1>2, <4>2
      <4>4. CASE f = 0
        <5>1. e = << >>
          BY <4>2, <4>4
        <5>2. p[1] = SP
          BY <4>2, <4>4
        <5>3. SP # HASH
          BY DEF SP, HASH
        <5>4. QED
          BY <1>1, <4>3, <5>1, <5>2, <5>3 DEF ChannelGiven
      <4>5. CASE f # 0
        <5>1. e # << >> /\ Head(e) = e[1] /\ 1 \in 1 .. f
          BY <4>2, <4>5
        <5>2. QED
          BY <1>1, <4>2, <4>3, <5>1 DEF ChannelGiven
      <4>6. QED
        BY <4>4, <4>5
    <3>2. pieces = << e, Behind(p, SP) >>
      BY <2>2, <2>4, <2>7
    <3>3. pieces[1] = e /\ pieces[2] = Behind(p, SP) /\ ~ Len(pieces) < 2
      BY <3>2
    <3>4. sendPrivMsgUser(msg) = IF ChannelGiven THEN CutForChannel(<< Tail(pieces[1]), pieces[2] >>)
                                 ELSE Cut(pieces)
      BY <2>5, <2>7, <3>1, <3>2, <3>3
    <3>5. QED
      BY <2>1, <3>3, <3>4
  <2>8. QED
    BY <2>6, <2>7
<1>5. sendFile(msg) = LET pieces == Pieces(p, SP, 2)
                      IN  IF Len(pieces) = 3 THEN Cut(Tail(pieces)) ELSE Ignored
  <2>1. PICK u : u = Behind(p, SP)
    OBVIOUS
  <2>2. sendFile(msg) = IF SP \notin ToSet(p) \/ SP \notin ToSet(u) THEN Ignored
                        ELSE Cut(<< Before(u, SP), Behind(u, SP) >>)
    BY <1>2, <2>1, FileIs
  <2>3. Pieces(p, SP, 2) =
          IF SP \notin ToSet(p) THEN << p >>
          ELSE IF SP \notin ToSet(u) THEN << Before(p, SP), u >>
          ELSE << Before(p, SP), Before(u, SP), Behind(u, SP) >>
    BY <1>2, <2>1, PiecesTwo
  <2>4. Len(Pieces(p, SP, 2)) = 3 <=> SP \in ToSet(p) /\ SP \in ToSet(u)
    BY <2>3
  <2>5. ASSUME SP \in ToSet(p), SP \in ToSet(u)
        PROVE  Tail(Pieces(p, SP, 2)) = << Before(u, SP), Behind(u, SP) >>
    <3>1. PICK x, y, z : x = Before(p, SP) /\ y = Before(u, SP) /\ z = Behind(u, SP)
      OBVIOUS
    <3>2. Tail(<< x, y, z >>) = << y, z >>
      OBVIOUS
    <3>3. QED
      BY <2>3, <2>5, <3>1, <3>2
  <2>6. QED
    BY <2>2, <2>4, <2>5
<1>6. QED
  BY <1>1, <1>3, <1>4, <1>5 DEF CutsAtSpaces, sendMode, sendKick

\* The handlers cut every line at its spaces (Command.cpp, sendPart, sendMode,
\* sendKick, sendPrivMsgUser, sendFile).
THEOREM CutAsStated == Spec => []CutsAtSpaces
BY LineIsString, CutsExactly, PTL

-----------------------------------------------------------------------------
(* Strings put together.                                                   *)

LEMMA Associative ==
    ASSUME NEW S
    PROVE  \A a, b, c \in Seq(S) : (a \o b) \o c = a \o (b \o c) /\ a \o b \in Seq(S)
OBVIOUS

\* r is cut at its first c into a and b; and put together from them.
CutInto(r, c, a, b) == c \in ToSet(r) /\ Before(r, c) = a /\ Behind(r, c) = b
Joined(a, c, b) == a \o (<< c >> \o b)
Parts(r, c, a, b) ==
    /\ Len(r) = Len(a) + Len(b) + 1 /\ r[Len(a) + 1] = c
    /\ \A i \in 1 .. Len(a) : r[i] = a[i]
    /\ \A i \in 1 .. Len(b) : r[Len(a) + 1 + i] = b[i]

LEMMA CutByParts ==
    ASSUME NEW S, NEW r \in Seq(S), NEW c, NEW a \in Seq(S), NEW b \in Seq(S),
           c \notin ToSet(a), Parts(r, c, a, b)
    PROVE  CutInto(r, c, a, b)
<1>1. PICK n : n = Len(a)
  OBVIOUS
<1>2. n \in Nat /\ Len(b) \in Nat /\ n < Len(r) /\ Len(r) - n - 1 = Len(b) /\ r[n + 1] = c
  BY <1>1 DEF Parts
<1>3. \A j \in 1 .. n : r[j] # c
  BY <1>1 DEF ToSet, Parts
<1>4. c \in ToSet(r) /\ Find(r, c) = n
  BY <1>2, <1>3, FindIs
<1>5. PICK x, y, f : x = Before(r, c) /\ y = Behind(r, c) /\ f = Find(r, c)
  OBVIOUS
<1>6. /\ x \in Seq(S) /\ y \in Seq(S) /\ Len(x) = f /\ Len(y) = Len(r) - f - 1
      /\ \A i \in 1 .. f : x[i] = r[i]
      /\ \A i \in 1 .. (Len(r) - f - 1) : y[i] = r[f + 1 + i]
  BY <1>4, <1>5, CutAtFirst
<1>7. f = n
  BY <1>4, <1>5
<1>8. x = a
  <2>1. Len(x) = Len(a) /\ \A i \in 1 .. Len(a) : x[i] = a[i]
    BY <1>1, <1>6, <1>7 DEF Parts
  <2>2. QED
    BY <1>6, <2>1, SeqEqual
<1>9. y = b
  <2>1. Len(y) = Len(b) /\ \A i \in 1 .. Len(b) : y[i] = b[i]
    BY <1>1, <1>2, <1>6, <1>7 DEF Parts
  <2>2. QED
    BY <1>6, <2>1, SeqEqual
<1>10. QED
  BY <1>4, <1>5, <1>8, <1>9 DEF CutInto

\* A string without a c, a c, and another string.
LEMMA JoinedIsCut ==
    ASSUME NEW S, NEW a \in Seq(S), NEW c \in S, NEW b \in Seq(S), c \notin ToSet(a)
    PROVE  Joined(a, c, b) \in Seq(S) /\ CutInto(Joined(a, c, b), c, a, b)
<1>1. PICK n, u, r : n = Len(a) /\ u = << c >> \o b /\ r = a \o u
  OBVIOUS
<1>2. u \in Seq(S) /\ Len(u) = Len(b) + 1 /\ u[1] = c
  BY <1>1
<1>3. \A i \in 1 .. Len(b) : u[i + 1] = b[i]
  BY <1>1
<1>4. n \in Nat /\ Len(b) \in Nat
  BY <1>1
<1>5. r \in Seq(S) /\ Len(r) = n + Len(u)
  BY <1>1, <1>2
<1>6. \A i \in 1 .. n : r[i] = a[i]
  BY <1>1, <1>2
<1>7. \A i \in 1 .. Len(u) : r[n + i] = u[i]
  BY <1>1, <1>2
<1>8. r[n + 1] = c
  <2>1. 1 \in 1 .. Len(u)
    BY <1>2, <1>4
  <2>2. QED
    BY <1>2, <1>7, <2>1
<1>9. \A i \in 1 .. Len(b) : r[n + 1 + i] = b[i]
  <2>1. ASSUME NEW i \in 1 .. Len(b)
        PROVE  r[n + 1 + i] = b[i]
    <3>1. PICK j : j = i + 1
      OBVIOUS
    <3>2. j \in 1 .. Len(u) /\ n + j = n + 1 + i
      BY <1>2, <1>4, <3>1
    <3>3. r[n + 1 + i] = u[j]
      BY <1>7, <3>2
    <3>4. QED
      BY <1>3, <3>1, <3>3
  <2>2. QED
    BY <2>1
<1>10. Len(r) = n + Len(b) + 1
  BY <1>2, <1>4, <1>5
<1>11. Parts(r, c, a, b)
  BY <1>1, <1>6, <1>8, <1>9, <1>10 DEF Parts
<1>12. CutInto(r, c, a, b)
  BY <1>5, <1>11, CutByParts
<1>13. QED
  BY <1>1, <1>5, <1>12 DEF Joined

\* A string is put together from what it is cut into, and what is added at its end is
\* added behind.
LEMMA CutIsJoined ==
    ASSUME NEW S, NEW s \in Seq(S), NEW c, c \in ToSet(s)
    PROVE  s = Joined(Before(s, c), c, Behind(s, c)) /\ c \notin ToSet(Before(s, c))
<1>1. PICK a, b, f : a = Before(s, c) /\ b = Behind(s, c) /\ f = Find(s, c)
  OBVIOUS
<1>2. /\ f \in Nat /\ f < Len(s) /\ Len(s) \in Nat
      /\ a \in Seq(S) /\ b \in Seq(S) /\ Len(a) = f /\ Len(b) = Len(s) - f - 1
      /\ \A i \in 1 .. f : a[i] = s[i] /\ s[i] # c
      /\ s[f + 1] = c
      /\ \A i \in 1 .. (Len(s) - f - 1) : b[i] = s[f + 1 + i]
  BY <1>1, CutAtFirst
<1>3. c \in S
  <2>1. f + 1 \in 1 .. Len(s)
    BY <1>2
  <2>2. QED
    BY <1>2, <2>1
<1>4. c \notin ToSet(a)
  <2>1. \A i \in 1 .. f : a[i] # c
    BY <1>2
  <2>2. DOMAIN a = 1 .. f
    BY <1>2
  <2>3. QED
    BY <2>1, <2>2 DEF ToSet
<1>5. PICK r, u : u = << c >> \o b /\ r = a \o u
  OBVIOUS
<1>6. u \in Seq(S) /\ Len(u) = Len(b) + 1 /\ u[1] = c
  BY <1>2, <1>3, <1>5
<1>7. \A i \in 1 .. Len(b) : u[i + 1] = b[i]
  BY <1>2, <1>3, <1>5
<1>8. r \in Seq(S) /\ Len(r) = Len(s) /\ (\A i \in 1 .. f : r[i] = a[i])
  BY <1>2, <1>5, <1>6
<1>9. \A i \in 1 .. Len(u) : r[f + i] = u[i]
  BY <1>2, <1>5, <1>6
<1>10. ASSUME NEW i \in 1 .. Len(s)
       PROVE  r[i] = s[i]
  <2>1. CASE i <= f
    BY <1>2, <1>8, <2>1
  <2>2. CASE i = f + 1
    <3>1. 1 \in 1 .. Len(u)
      BY <1>2, <1>6
    <3>2. QED
      BY <1>2, <1>6, <1>9, <2>2, <3>1
  <2>3. CASE i > f + 1
    <3>1. PICK j, k : j = i - f - 1 /\ k = i - f
      OBVIOUS
    <3>2. /\ j \in 1 .. Len(b) /\ j \in 1 .. (Len(s) - f - 1) /\ k \in 1 .. Len(u)
          /\ f + k = i /\ k = j + 1 /\ f + 1 + j = i
      BY <1>2, <1>6, <2>3, <3>1
    <3>3. r[i] = u[k] /\ u[k] = b[j] /\ b[j] = s[i]
      BY <1>2, <1>7, <1>9, <3>2
    <3>4. QED
      BY <3>3
  <2>4. QED
    BY <1>2, <2>1, <2>2, <2>3
<1>11. r = s
  BY <1>8, <1>10, SeqEqual
<1>12. QED
  BY <1>1, <1>4, <1>5, <1>11 DEF Joined

LEMMA CutOfLonger ==
    ASSUME NEW S, NEW s \in Seq(S), NEW c, c \in ToSet(s), NEW e \in Seq(S)
    PROVE  s \o e \in Seq(S) /\ CutInto(s \o e, c, Before(s, c), Behind(s, c) \o e)
<1>1. PICK a, b : a = Before(s, c) /\ b = Behind(s, c)
  OBVIOUS
<1>2. a \in Seq(S) /\ b \in Seq(S) /\ c \in S
  <2>1. a \in Seq(S) /\ b \in Seq(S)
    BY <1>1, CutAtFirst
  <2>2. c \in S
    BY DEF ToSet
  <2>3. QED
    BY <2>1, <2>2
<1>3. s = Joined(a, c, b) /\ c \notin ToSet(a)
  BY <1>1, CutIsJoined
<1>4. PICK u : u = << c >> \o b
  OBVIOUS
<1>5. << c >> \in Seq(S) /\ u \in Seq(S)
  BY <1>2, <1>4
<1>6. \A x, y, z \in Seq(S) : (x \o y) \o z = x \o (y \o z)
  BY Associative
<1>7. (a \o u) \o e = a \o (u \o e)
  BY <1>2, <1>5, <1>6, ZenonT(40)
<1>8. (<< c >> \o b) \o e = << c >> \o (b \o e)
  BY <1>2, <1>5, <1>6, ZenonT(40)
<1>9. s \o e = Joined(a, c, b \o e)
  BY <1>3, <1>4, <1>7, <1>8 DEF Joined
<1>10. b \o e \in Seq(S)
  BY <1>2
<1>11. Joined(a, c, b \o e) \in Seq(S) /\ CutInto(Joined(a, c, b \o e), c, a, b \o e)
  BY <1>2, <1>3, <1>10, JoinedIsCut, Zenon
<1>12. QED
  BY <1>1, <1>9, <1>11

LEMMA TailOfConcat ==
    ASSUME NEW S, NEW s \in Seq(S), s # << >>, NEW e \in Seq(S)
    PROVE  s \o e # << >> /\ Head(s \o e) = Head(s) /\ Tail(s \o e) = Tail(s) \o e
<1>1. PICK r, t, n : r = s \o e /\ t = Tail(s) /\ n = Len(s)
  OBVIOUS
<1>2. n \in Nat /\ n > 0 /\ Len(e) \in Nat
  BY <1>1
<1>3. r \in Seq(S) /\ Len(r) = n + Len(e)
  BY <1>1
<1>4. \A i \in 1 .. n : r[i] = s[i]
  BY <1>1
<1>5. \A i \in 1 .. Len(e) : r[n + i] = e[i]
  BY <1>1
<1>6. r # << >> /\ Head(r) = r[1] /\ Head(s) = s[1]
  BY <1>2, <1>3
<1>7. t \in Seq(S) /\ Len(t) = n - 1 /\ \A i \in 1 .. (n - 1) : t[i] = s[i + 1]
  BY <1>1, <1>2
<1>8. PICK x, y : x = Tail(r) /\ y = t \o e
  OBVIOUS
<1>9. x \in Seq(S) /\ Len(x) = n + Len(e) - 1 /\ \A i \in 1 .. (n + Len(e) - 1) : x[i] = r[i + 1]
  BY <1>2, <1>3, <1>6, <1>8
<1>10. y \in Seq(S) /\ Len(y) = n - 1 + Len(e) /\ (\A i \in 1 .. (n - 1) : y[i] = t[i])
  <2>1. t \in Seq(S) /\ y = t \o e
    BY <1>7, <1>8
  <2>2. y \in Seq(S) /\ Len(y) = Len(t) + Len(e) /\ (\A i \in 1 .. Len(t) : y[i] = t[i])
    BY <2>1
  <2>3. QED
    BY <1>7, <2>2
<1>11. \A i \in 1 .. Len(e) : y[n - 1 + i] = e[i]
  <2>1. \A i \in 1 .. Len(e) : y[Len(t) + i] = e[i]
    BY <1>7, <1>8
  <2>2. QED
    BY <1>7, <2>1
<1>12. ASSUME NEW i \in 1 .. (n + Len(e) - 1)
       PROVE  x[i] = y[i]
  <2>1. CASE i <= n - 1
    <3>1. i \in 1 .. (n - 1) /\ i + 1 \in 1 .. n
      BY <1>2, <2>1
    <3>2. QED
      BY <1>4, <1>7, <1>9, <1>10, <3>1
  <2>2. CASE i > n - 1
    <3>1. PICK j : j = i - (n - 1)
      OBVIOUS
    <3>2. j \in 1 .. Len(e) /\ n - 1 + j = i /\ n + j = i + 1
      BY <1>2, <2>2, <3>1
    <3>3. y[i] = e[j] /\ r[i + 1] = e[j]
      BY <1>5, <1>11, <3>2
    <3>4. QED
      BY <1>9, <3>3
  <2>3. QED
    BY <1>2, <2>1, <2>2
<1>13. x = y
  <2>1. Len(x) = Len(y)
    BY <1>2, <1>9, <1>10
  <2>2. QED
    BY <1>9, <1>10, <1>12, <2>1, SeqEqual
<1>14. QED
  BY <1>1, <1>2, <1>4, <1>6, <1>8, <1>13

-----------------------------------------------------------------------------
\* The channel a JOIN creates can be named again, with the same text, exactly if its
\* name has not been cut to NameLimit (Command.cpp, sendJoin, sendPart, sendTopic).
LEMMA JoinedChannel ==
    ASSUME line \in Seq(Char)
    PROVE  JoinedChannelCanBeNamed
<1> SUFFICES ASSUME Dispatched, sendJoin(query).outcome = "cut"
             PROVE  JoinedChannelCanBeNamed
  BY DEF JoinedChannelCanBeNamed
<1>1. PICK msg, p : msg = query /\ p = Parameters
  OBVIOUS
<1>2. msg \in Seq(Char) /\ SP \in ToSet(msg) /\ p = Behind(msg, SP) /\ p \in Seq(Char)
  BY <1>1, QueryFacts DEF Dispatched
<1>3. PICK t, name : t = Tail(p) /\ name = Substr(t, 0, NameLimit)
  OBVIOUS
<1>4. /\ p = << >> => sendJoin(msg) = Throws
      /\ p # << >> => sendJoin(msg) =
           IF Head(p) # HASH \/ ToSet(name) \cap {SP, COLON, COMMA} # {} THEN Ignored
           ELSE Cut(<< name >>)
  BY <1>2, <1>3, JoinIs
<1>5. /\ p # << >> /\ Head(p) = HASH /\ ToSet(name) \cap {SP, COLON, COMMA} = {}
      /\ sendJoin(msg) = Cut(<< name >>)
  BY <1>1, <1>4, Outcomes
<1>6. sendJoin(msg).parameters[1] = name
  BY <1>5, Outcomes
<1>7. SP \notin ToSet(name)
  BY <1>5
<1>8. t \in Seq(Char)
  BY <1>2, <1>3, <1>5
<1>9. ASSUME SP \notin ToSet(t)
      PROVE  /\ sendTopic(msg \o << SP, COLON, COLON >>) = Cut(<< t, << COLON >> >>)
             /\ sendPart(msg).parameters[1] = name <=> Len(t) <= NameLimit
  <2>1. SP \in Char /\ COLON \in Char
    BY ParsingAssumption DEF Char
  <2>2. PICK e, d : d = << COLON, COLON >> /\ e = << SP >> \o d
    OBVIOUS
  <2>3. d \in Seq(Char) /\ e \in Seq(Char) /\ e = << SP, COLON, COLON >>
    BY <2>1, <2>2, Three
  <2>4. PICK long, q : long = msg \o e /\ q = p \o e
    OBVIOUS
  <2>5. long \in Seq(Char) /\ SP \in ToSet(long) /\ Behind(long, SP) = q
    <3>1. msg \o e \in Seq(Char) /\ CutInto(msg \o e, SP, Before(msg, SP), Behind(msg, SP) \o e)
      BY <1>2, <2>3, CutOfLonger
    <3>2. QED
      BY <1>2, <2>4, <3>1 DEF CutInto
  <2>6. q # << >> /\ Tail(q) = t \o e
    BY <1>2, <1>3, <1>5, <2>3, <2>4, TailOfConcat
  <2>7. PICK u : u = Tail(q)
    OBVIOUS
  <2>8. SP \in ToSet(u) /\ Before(u, SP) = t /\ Behind(u, SP) = d
    <3>1. u = Joined(t, SP, d)
      BY <2>2, <2>6, <2>7 DEF Joined
    <3>2. QED
      BY <1>8, <1>9, <2>1, <2>3, <3>1, JoinedIsCut DEF CutInto
  <2>9. d # << >> /\ Tail(d) = << COLON >>
    BY <2>2
  <2>10. sendTopic(long) = Cut(<< t, << COLON >> >>)
    <3>1. sendTopic(long) = IF SP \notin ToSet(u) THEN Ignored
                            ELSE IF Behind(u, SP) = << >> THEN Throws
                            ELSE Cut(<< Before(u, SP), Tail(Behind(u, SP)) >>)
      BY <2>5, <2>6, <2>7, TopicIs
    <3>2. QED
      BY <2>8, <2>9, <3>1
  <2>11. sendPart(msg) = Cut(<< t, t >>)
    <3>1. sendPart(msg) = IF Head(p) # HASH THEN Ignored
                          ELSE IF SP \in ToSet(t) THEN Cut(<< Before(t, SP), Behind(t, SP) >>)
                          ELSE Cut(<< t, t >>)
      BY <1>2, <1>3, <1>5, PartIs
    <3>2. QED
      BY <1>5, <1>9, <3>1
  <2>12. sendPart(msg).parameters[1] = t
    BY <2>11, Outcomes
  <2>13. t = name <=> Len(t) <= NameLimit
    <3>1. NameLimit \in Nat /\ Len(t) \in Nat
      BY <1>8, ParsingAssumption
    <3>2. CASE Len(t) <= NameLimit
      <4>1. NameLimit \in Int /\ NameLimit >= Len(t)
        BY <3>1, <3>2
      <4>2. name = t
        BY <1>3, <1>8, <4>1, SubstrOfAll
      <4>3. QED
        BY <3>2, <4>2
    <3>3. CASE ~ Len(t) <= NameLimit
      <4>1. Substr(t, 0, NameLimit) = SubSeq(t, 1, NameLimit)
        BY <3>1, <3>3 DEF Substr
      <4>2. Len(SubSeq(t, 1, NameLimit)) = NameLimit
        BY <1>8, <3>1, <3>3
      <4>3. t # name
        BY <1>3, <3>1, <3>3, <4>1, <4>2
      <4>4. QED
        BY <3>3, <4>3
    <3>4. QED
      BY <3>2, <3>3
  <2>14. QED
    BY <2>3, <2>4, <2>10, <2>12, <2>13
<1>10. QED
  BY <1>1, <1>3, <1>6, <1>7, <1>9 DEF JoinedChannelCanBeNamed

\* A joined channel can be named again as long as its name has not been cut
\* (Command.cpp, sendJoin).
THEOREM JoinedChannelAsStated == Spec => []JoinedChannelCanBeNamed
BY LineIsString, JoinedChannel, PTL

-----------------------------------------------------------------------------
(* Utils.cpp, split: a loop over the rest of the string.                   *)

\* There are no more pieces than a string of that length can have.
LEMMA PiecesEnough ==
    ASSUME NEW S, NEW s \in Seq(S), NEW c, NEW k \in Nat, k >= Len(s)
    PROVE  Pieces(s, c, k) = Pieces(s, c, Len(s))
<1>1. PICK p, n : p = Places(s, c) /\ n = Len(s)
  OBVIOUS
<1>2. n \in Nat /\ k >= n
  BY <1>1
<1> DEFINE P == { i \in DOMAIN s : s[i] = c }
<1>3. P \in SUBSET Int /\ P \in SUBSET (1 .. n)
  BY <1>1
<1>4. IsFiniteSet(1 .. n) /\ Cardinality(1 .. n) = n
  BY <1>2, FS_Interval
<1> HIDE DEF P
<1>5. IsFiniteSet(P) /\ Cardinality(P) <= n
  BY <1>3, <1>4, FS_Subset
<1>6. Len(Ascending(P)) = Cardinality(P)
  BY <1>3, <1>5, AscendingProperties, Zenon
<1>7. p = Ascending(P)
  BY <1>1 DEF Places, P
<1>8. p \in Seq(1 .. n)
  BY <1>1, PlacesProperties
<1>9. Len(p) \in Nat /\ Len(p) <= n
  BY <1>5, <1>6, <1>7, <1>8
<1>10. Least(k, Len(p)) = Len(p) /\ Least(n, Len(p)) = Len(p)
  BY <1>2, <1>9 DEF Least
<1>11. Pieces(s, c, k) = CutAt(s, p, Least(k, Len(p))) /\ Pieces(s, c, n) = CutAt(s, p, Least(n, Len(p)))
  BY <1>1, <1>2, PiecesAre
<1>12. QED
  BY <1>1, <1>10, <1>11

LEMMA FrontAndLast ==
    ASSUME NEW S, NEW a \in S, NEW t \in Seq(S), Len(t) > 0
    PROVE  Last(<< a >> \o t) = Last(t) /\ Front(<< a >> \o t) = << a >> \o Front(t)
<1>1. PICK r, n : r = << a >> \o t /\ n = Len(t)
  OBVIOUS
<1>2. n \in Nat /\ n > 0
  BY <1>1
<1>3. r \in Seq(S) /\ Len(r) = n + 1 /\ r[1] = a
  BY <1>1
<1>4. \A i \in 1 .. n : r[i + 1] = t[i]
  BY <1>1
<1>5. Last(r) = Last(t)
  BY <1>1, <1>2, <1>3, <1>4 DEF Last
<1>6. PICK x, f, y : x = SubSeq(r, 1, n) /\ f = SubSeq(t, 1, n - 1) /\ y = << a >> \o f
  OBVIOUS
<1>7. x \in Seq(S) /\ Len(x) = n /\ \A i \in 1 .. n : x[i] = r[i]
  BY <1>2, <1>3, <1>6
<1>8. f \in Seq(S) /\ Len(f) = n - 1 /\ \A i \in 1 .. (n - 1) : f[i] = t[i]
  BY <1>1, <1>2, <1>6
<1>9. f \in Seq(S) /\ y = << a >> \o f
  BY <1>6, <1>8
<1>10. y \in Seq(S) /\ Len(y) = Len(f) + 1 /\ y[1] = a /\ \A i \in 1 .. Len(f) : y[i + 1] = f[i]
  BY <1>9
<1>11. ASSUME NEW i \in 1 .. n
       PROVE  x[i] = y[i]
  <2>1. CASE i = 1
    BY <1>2, <1>3, <1>7, <1>10, <2>1
  <2>2. CASE i # 1
    <3>1. PICK j : j = i - 1
      OBVIOUS
    <3>2. j \in 1 .. (n - 1) /\ j \in 1 .. n /\ j \in 1 .. Len(f) /\ i = j + 1
      BY <1>2, <1>8, <2>2, <3>1
    <3>3. x[i] = t[j]
      BY <1>4, <1>7, <3>2
    <3>4. y[i] = t[j]
      BY <1>8, <1>10, <3>2
    <3>5. QED
      BY <3>3, <3>4
  <2>3. QED
    BY <2>1, <2>2
<1>12. x = y
  <2>1. Len(x) = Len(y)
    BY <1>2, <1>7, <1>8, <1>10
  <2>2. QED
    BY <1>7, <1>10, <1>11, <2>1, SeqEqual
<1>13. Front(r) = x /\ Front(t) = f
  <2>1. Len(r) - 1 = n
    BY <1>2, <1>3
  <2>2. QED
    BY <1>1, <1>6, <2>1 DEF Front
<1>14. QED
  BY <1>1, <1>5, <1>6, <1>12, <1>13

\* All the pieces, without the last one if it is empty.
AllPieces(s, c) ==
    LET pieces == Pieces(s, c, Len(s))
    IN  IF Last(pieces) = << >> THEN Front(pieces) ELSE pieces

LEMMA AllPiecesCut ==
    ASSUME NEW S, NEW s \in Seq(S), NEW c
    PROVE  AllPieces(s, c) = IF c \in ToSet(s) THEN << Before(s, c) >> \o AllPieces(Behind(s, c), c)
                             ELSE IF s # << >> THEN << s >> ELSE << >>
<1>1. PICK n, all : n = Len(s) /\ all = Pieces(s, c, n)
  OBVIOUS
<1>2. n \in Nat /\ AllPieces(s, c) = IF Last(all) = << >> THEN Front(all) ELSE all
  BY <1>1 DEF AllPieces
<1>3. CASE c \notin ToSet(s)
  <2>1. all = << s >>
    BY <1>1, <1>2, <1>3, PiecesWhole
  <2>2. Last(all) = s /\ Front(all) = << >>
    BY <2>1 DEF Last, Front
  <2>3. QED
    BY <1>2, <1>3, <2>1, <2>2
<1>4. CASE c \in ToSet(s)
  <2>1. PICK a, b, k, l : a = Before(s, c) /\ b = Behind(s, c) /\ k = n - 1 /\ l = Len(b)
    OBVIOUS
  <2>2. a \in Seq(S) /\ b \in Seq(S) /\ l \in Nat /\ n > 0 /\ l <= n - 1
    BY <1>1, <1>4, <2>1, CutAtFirst
  <2>3. k \in Nat /\ n = k + 1 /\ k >= Len(b)
    BY <1>2, <2>1, <2>2
  <2>4. all = << a >> \o Pieces(b, c, k)
    BY <1>1, <1>4, <2>1, <2>3, PiecesCut
  <2>5. Pieces(b, c, k) = Pieces(b, c, l)
    BY <2>1, <2>2, <2>3, PiecesEnough
  <2>6. PICK t : t = Pieces(b, c, l)
    OBVIOUS
  <2>7. t \in Seq(Seq(S)) /\ Len(t) > 0
    BY <2>2, <2>6, PiecesType
  <2>8. all = << a >> \o t
    BY <2>4, <2>5, <2>6
  <2>9. Last(all) = Last(t) /\ Front(all) = << a >> \o Front(t)
    BY <2>2, <2>7, <2>8, FrontAndLast
  <2>10. AllPieces(b, c) = IF Last(t) = << >> THEN Front(t) ELSE t
    BY <2>1, <2>6 DEF AllPieces
  <2>11. AllPieces(s, c) = << a >> \o AllPieces(b, c)
    BY <1>2, <2>8, <2>9, <2>10
  <2>12. QED
    BY <1>4, <2>1, <2>11
<1>5. QED
  BY <1>3, <1>4

\* One round of the loop.
SplitOnce(f, s, c) ==
    LET pos == Find(s, c)
    IN  IF pos # npos THEN << Substr(s, 0, pos) >> \o f[Substr(s, pos + 1, npos)]
        ELSE IF s # << >> THEN << s >> ELSE << >>

LEMMA SplitOnceIs ==
    ASSUME NEW s \in Seq(Char), NEW c, NEW f
    PROVE  SplitOnce(f, s, c) = IF c \in ToSet(s) THEN << Before(s, c) >> \o f[Behind(s, c)]
                                ELSE IF s # << >> THEN << s >> ELSE << >>
<1>1. CASE c \notin ToSet(s)
  <2>1. Find(s, c) = npos
    BY <1>1, FindProperties DEF npos
  <2>2. QED
    BY <1>1, <2>1 DEF SplitOnce
<1>2. CASE c \in ToSet(s)
  <2>1. Find(s, c) # npos
    BY <1>2, CutAtFirst DEF npos
  <2>2. npos \in Int /\ npos < 0
    BY DEF npos
  <2>3. Substr(s, 0, Find(s, c)) = Before(s, c) /\ Substr(s, Find(s, c) + 1, npos) = Behind(s, c)
    BY <1>2, <2>2, SubstrAtFirst
  <2>4. QED
    BY <1>2, <2>1, <2>3 DEF SplitOnce
<1>3. QED
  BY <1>1, <1>2

\* split is the loop: one round, and the loop for the rest.
LEMMA SplitRound ==
    ASSUME NEW s \in Seq(Char), NEW c
    PROVE  split(s, c) = IF c \in ToSet(s) THEN << Before(s, c) >> \o split(Behind(s, c), c)
                         ELSE IF s # << >> THEN << s >> ELSE << >>
<1> DEFINE f == CHOOSE f : f = [ x \in Seq(Char) |-> SplitOnce(f, x, c) ]
           g == [ x \in Seq(Char) |-> AllPieces(x, c) ]
<1>1. \A x : split(x, c) = f[x]
  BY DEF split, SplitOnce
<1>2. g = [ x \in Seq(Char) |-> SplitOnce(g, x, c) ]
  <2>1. ASSUME NEW x \in Seq(Char)
        PROVE  AllPieces(x, c) = SplitOnce(g, x, c)
    <3>1. AllPieces(x, c) = IF c \in ToSet(x) THEN << Before(x, c) >> \o AllPieces(Behind(x, c), c)
                            ELSE IF x # << >> THEN << x >> ELSE << >>
      BY AllPiecesCut
    <3>2. c \in ToSet(x) => Behind(x, c) \in Seq(Char)
      BY CutAtFirst
    <3>3. c \in ToSet(x) => g[Behind(x, c)] = AllPieces(Behind(x, c), c)
      BY <3>2
    <3> HIDE DEF g
    <3>4. SplitOnce(g, x, c) = IF c \in ToSet(x) THEN << Before(x, c) >> \o g[Behind(x, c)]
                               ELSE IF x # << >> THEN << x >> ELSE << >>
      BY SplitOnceIs
    <3>5. QED
      BY <3>1, <3>3, <3>4
  <2>2. QED
    BY <2>1
<1>3. f = [ x \in Seq(Char) |-> SplitOnce(f, x, c) ]
  <2> HIDE DEF g
  <2>1. \E h : h = [ x \in Seq(Char) |-> SplitOnce(h, x, c) ]
    BY <1>2
  <2>2. QED
    BY <2>1
<1> HIDE DEF f, g
<1>4. f[s] = SplitOnce(f, s, c)
  BY <1>3
<1>5. SplitOnce(f, s, c) = IF c \in ToSet(s) THEN << Before(s, c) >> \o f[Behind(s, c)]
                           ELSE IF s # << >> THEN << s >> ELSE << >>
  BY SplitOnceIs
<1>6. QED
  BY <1>1, <1>4, <1>5

\* By induction on the length, split makes all the pieces.
LEMMA SplitIsAllPieces ==
    ASSUME NEW c
    PROVE  \A s \in Seq(Char) : split(s, c) = AllPieces(s, c)
<1> DEFINE I == { n \in Nat : \A s \in Seq(Char) : Len(s) <= n => split(s, c) = AllPieces(s, c) }
<1>1. ASSUME NEW s \in Seq(Char), c \in ToSet(s) => split(Behind(s, c), c) = AllPieces(Behind(s, c), c)
      PROVE  split(s, c) = AllPieces(s, c)
  <2>1. split(s, c) = IF c \in ToSet(s) THEN << Before(s, c) >> \o split(Behind(s, c), c)
                      ELSE IF s # << >> THEN << s >> ELSE << >>
    BY SplitRound
  <2>2. AllPieces(s, c) = IF c \in ToSet(s) THEN << Before(s, c) >> \o AllPieces(Behind(s, c), c)
                          ELSE IF s # << >> THEN << s >> ELSE << >>
    BY AllPiecesCut
  <2>3. QED
    BY <1>1, <2>1, <2>2
<1>2. 0 \in I
  <2>1. ASSUME NEW s \in Seq(Char), Len(s) <= 0
        PROVE  split(s, c) = AllPieces(s, c)
    <3>1. c \notin ToSet(s)
      BY <2>1 DEF ToSet
    <3>2. QED
      BY <1>1, <3>1
  <2>2. QED
    BY <2>1
<1>3. ASSUME NEW n \in I
      PROVE  n + 1 \in I
  <2>1. n \in Nat /\ \A s \in Seq(Char) : Len(s) <= n => split(s, c) = AllPieces(s, c)
    OBVIOUS
  <2>2. ASSUME NEW s \in Seq(Char), Len(s) <= n + 1
        PROVE  split(s, c) = AllPieces(s, c)
    <3>1. ASSUME c \in ToSet(s)
          PROVE  split(Behind(s, c), c) = AllPieces(Behind(s, c), c)
      <4>1. PICK b, f : b = Behind(s, c) /\ f = Find(s, c)
        OBVIOUS
      <4>2. b \in Seq(Char) /\ f \in Nat /\ Len(b) = Len(s) - f - 1 /\ Len(s) \in Nat
        BY <3>1, <4>1, CutAtFirst
      <4>3. Len(b) <= n
        BY <2>1, <2>2, <4>2
      <4>4. QED
        BY <2>1, <4>1, <4>2, <4>3
    <3>2. QED
      BY <1>1, <3>1
  <2>3. n + 1 \in Nat
    BY <2>1
  <2>4. QED
    BY <2>2, <2>3
<1>4. \A n \in Nat : n \in I
  <2>1. I \in SUBSET Nat
    OBVIOUS
  <2> HIDE DEF I
  <2>2. QED
    BY <1>2, <1>3, <2>1, SetInduction
<1>5. ASSUME NEW s \in Seq(Char)
      PROVE  split(s, c) = AllPieces(s, c)
  <2>1. PICK n : n = Len(s)
    OBVIOUS
  <2>2. n \in I /\ Len(s) <= n
    BY <1>4, <2>1
  <2>3. QED
    BY <2>2
<1>6. QED
  BY <1>5

\* What split makes of a line are the pieces between its spaces, without the last one
\* if it is empty (Utils.cpp, split).
THEOREM SplitAsStated == Spec => []SplitsIntoPieces
<1>1. line \in Seq(Char) => SplitsIntoPieces
  BY SplitIsAllPieces DEF SplitsIntoPieces, AllPieces
<1>2. QED
  BY <1>1, LineIsString, PTL

-----------------------------------------------------------------------------
(* Nicknames.                                                              *)

LEMMA SplitType ==
    ASSUME NEW s \in Seq(Char), NEW c
    PROVE  split(s, c) \in Seq(Seq(Char))
<1>1. PICK n, t : n = Len(s) /\ t = Pieces(s, c, n)
  OBVIOUS
<1>2. n \in Nat
  BY <1>1
<1>3. t \in Seq(Seq(Char)) /\ Len(t) > 0
  BY <1>1, <1>2, PiecesType
<1>4. PICK m : m = Len(t) - 1
  OBVIOUS
<1>5. m \in Nat /\ m <= Len(t)
  BY <1>3, <1>4
<1>6. SubSeq(t, 1, m) \in Seq(Seq(Char))
  BY <1>3, <1>5
<1>7. Front(t) \in Seq(Seq(Char))
  BY <1>4, <1>6 DEF Front
<1>8. AllPieces(s, c) \in Seq(Seq(Char))
  BY <1>1, <1>3, <1>7 DEF AllPieces
<1>9. QED
  BY <1>8, SplitIsAllPieces

\* The second word of a line that has one.
LEMMA SecondWord ==
    ASSUME line \in Seq(Char), NEW a, NEW b, a = Before(line, SP), b = Behind(line, SP),
           SP \in ToSet(line),
           NEW word, word = (IF SP \in ToSet(b) THEN Before(b, SP) ELSE b), word # << >>
    PROVE  args0(line) = word
<1>1. a \in Seq(Char) /\ b \in Seq(Char)
  BY CutAtFirst
<1>2. word \in Seq(Char)
  BY <1>1, CutAtFirst
<1>3. split(line, SP) = << a >> \o split(b, SP)
  BY SplitRound
<1>4. PICK u : u = split(b, SP)
  OBVIOUS
<1>5. u \in Seq(Seq(Char))
  BY <1>1, <1>4, SplitType
<1>6. Len(u) > 0 /\ u[1] = word
  <2>1. u = IF SP \in ToSet(b) THEN << Before(b, SP) >> \o split(Behind(b, SP), SP)
            ELSE IF b # << >> THEN << b >> ELSE << >>
    BY <1>1, <1>4, SplitRound
  <2>2. CASE SP \in ToSet(b)
    <3>1. PICK v : v = split(Behind(b, SP), SP)
      OBVIOUS
    <3>2. v \in Seq(Seq(Char))
      BY <1>1, <2>2, <3>1, CutAtFirst, SplitType
    <3>3. u = << word >> \o v
      BY <2>1, <2>2, <3>1
    <3>4. QED
      BY <1>2, <3>2, <3>3
  <2>3. CASE SP \notin ToSet(b)
    <3>1. u = << word >>
      BY <2>1, <2>3
    <3>2. QED
      BY <3>1
  <2>4. QED
    BY <2>2, <2>3
<1>7. PICK r : r = split(line, SP)
  OBVIOUS
<1>8. r = << a >> \o u
  BY <1>3, <1>4, <1>7
<1>9. Len(r) = Len(u) + 1 /\ r[1 + 1] = u[1]
  BY <1>1, <1>5, <1>6, <1>8
<1>10. Len(r) > 1 /\ r[2] = word
  BY <1>5, <1>6, <1>9
<1>11. QED
  BY <1>7, <1>10 DEF args0

\* check_characters looks at nothing but the length.
LEMMA OnlyLengthIsChecked ==
    ASSUME NEW s
    PROVE  check_characters(s) <=> Len(s) < NickLimit
<1>1. ASSUME NEW d
      PROVE  ~ (isalpha(d) /\ isdigit(d))
  BY ParsingAssumption DEF isalpha, isdigit
<1>2. QED
  BY <1>1 DEF check_characters

\* NICK takes its word or ignores it, takes a short one of letters and digits, and a
\* PRIVMSG reaches whoever has taken it unless it begins with # (Command.cpp,
\* register_nickname and sendPrivMsgUser; Utils.cpp, check_characters).
LEMMA NicknameNamed ==
    ASSUME line \in Seq(Char)
    PROVE  NicknameCanBeNamed
<1>1. PICK pieces : pieces = Pieces(line, SP, 2)
  OBVIOUS
<1>2. PICK word : word = IF Len(pieces) > 1 THEN pieces[2] ELSE << >>
  OBVIOUS
<1>3. PICK nick : nick = IF CR \in ToSet(word) /\ Last(word) = CR THEN Front(word) ELSE word
  OBVIOUS
<1>4. PICK message : message = pieces[1] \o << SP >> \o nick \o << SP, COLON >>
  OBVIOUS
<1>5. ASSUME word # << >>, CR \notin ToSet(nick)
      PROVE  /\ register_nickname(line) = IF Len(nick) < NickLimit THEN Cut(<< nick >>) ELSE Ignored
             /\ sendPrivMsgUser(message) = Cut(<< nick, << COLON >> >>)
                  <=> nick = << >> \/ Head(nick) # HASH
  <2>1. PICK a, b : a = Before(line, SP) /\ b = Behind(line, SP)
    OBVIOUS
  <2>2. pieces = IF SP \notin ToSet(line) THEN << line >>
                 ELSE IF SP \notin ToSet(b) THEN << a, b >>
                 ELSE << a, Before(b, SP), Behind(b, SP) >>
    BY <1>1, <2>1, PiecesTwo
  <2>3. SP \in ToSet(line)
    BY <1>2, <1>5, <2>2, Lengths
  <2>4. pieces[1] = a /\ word = IF SP \in ToSet(b) THEN Before(b, SP) ELSE b
    <3>1. CASE SP \in ToSet(b)
      <4>1. pieces = << a, Before(b, SP), Behind(b, SP) >>
        BY <2>2, <2>3, <3>1
      <4>2. pieces[1] = a /\ pieces[2] = Before(b, SP) /\ Len(pieces) > 1
        BY <4>1
      <4>3. QED
        BY <1>2, <3>1, <4>2
    <3>2. CASE SP \notin ToSet(b)
      <4>1. pieces = << a, b >>
        BY <2>2, <2>3, <3>2
      <4>2. pieces[1] = a /\ pieces[2] = b /\ Len(pieces) > 1
        BY <4>1
      <4>3. QED
        BY <1>2, <3>2, <4>2
    <3>3. QED
      BY <3>1, <3>2
  <2>5. a \in Seq(Char) /\ b \in Seq(Char) /\ SP \notin ToSet(a)
    BY <2>1, <2>3, CutAtFirst, CutIsJoined
  <2>6. word \in Seq(Char) /\ SP \notin ToSet(word)
    BY <2>4, <2>5, CutAtFirst, CutIsJoined
  <2>7. Len(word) \in Nat /\ Len(word) > 0
    BY <1>5, <2>6
  <2>8. Front(word) \in Seq(Char) /\ SP \notin ToSet(Front(word))
    <3>1. PICK m, x : m = Len(word) - 1 /\ x = SubSeq(word, 1, m)
      OBVIOUS
    <3>2. m \in Nat /\ m <= Len(word)
      BY <2>7, <3>1
    <3>3. x \in Seq(Char) /\ Len(x) = m /\ \A i \in 1 .. m : x[i] = word[i]
      BY <2>6, <3>1, <3>2
    <3>4. SP \notin ToSet(x)
      <4>1. ASSUME NEW i \in DOMAIN x, x[i] = SP
            PROVE  FALSE
        <5>1. i \in 1 .. m /\ i \in DOMAIN word
          BY <2>6, <3>2, <3>3
        <5>2. QED
          BY <2>6, <3>3, <4>1, <5>1 DEF ToSet
      <4>2. QED
        BY <4>1 DEF ToSet
    <3>5. Front(word) = x
      BY <3>1 DEF Front
    <3>6. QED
      BY <3>3, <3>4, <3>5
  <2>9. nick \in Seq(Char) /\ SP \notin ToSet(nick)
    BY <1>3, <2>6, <2>8
  <2>10. register_nickname(line) = IF Len(nick) < NickLimit THEN Cut(<< nick >>) ELSE Ignored
    <3>1. args0(line) = word
      BY <1>5, <2>1, <2>3, <2>4, SecondWord
    <3>2. (IF Find(word, CR) # npos THEN Substr(word, 0, Len(word) - 1) ELSE word) = nick
      <4>1. CASE CR \notin ToSet(word)
        <5>1. Find(word, CR) = npos
          BY <2>6, <4>1, FindProperties DEF npos
        <5>2. QED
          BY <1>3, <4>1, <5>1
      <4>2. CASE CR \in ToSet(word)
        <5>1. nick = Front(word)
          BY <1>3, <1>5, <4>2
        <5>2. Find(word, CR) # npos
          BY <2>6, <4>2, CutAtFirst DEF npos
        <5>3. Substr(word, 0, Len(word) - 1) = SubSeq(word, 1, Len(word) - 1)
          BY <2>7 DEF Substr
        <5>4. QED
          BY <5>1, <5>2, <5>3 DEF Front
      <4>3. QED
        BY <4>1, <4>2
    <3>3. register_nickname(line) = IF check_characters(nick) THEN Cut(<< nick >>) ELSE Ignored
      BY <3>1, <3>2 DEF register_nickname
    <3>4. QED
      BY <3>3, OnlyLengthIsChecked
  <2>11. PICK e, p : e = << COLON >> /\ p = Joined(nick, SP, e)
    OBVIOUS
  <2>12. SP \in Char /\ COLON \in Char
    BY ParsingAssumption DEF Char
  <2>13. e \in Seq(Char)
    BY <2>11, <2>12
  <2>14. p \in Seq(Char) /\ SP \in ToSet(p) /\ Before(p, SP) = nick /\ Behind(p, SP) = e
    <3>1. Joined(nick, SP, e) \in Seq(Char) /\ CutInto(Joined(nick, SP, e), SP, nick, e)
      BY <2>9, <2>12, <2>13, JoinedIsCut
    <3>2. QED
      BY <2>11, <3>1 DEF CutInto
  <2>15. message = Joined(a, SP, p)
    <3>1. PICK s, u : s = << SP >> /\ u = << SP, COLON >>
      OBVIOUS
    <3>2. s \in Seq(Char) /\ u \in Seq(Char) /\ s \o e = u
      BY <2>11, <2>12, <3>1, Two
    <3>3. \A x, y, z \in Seq(Char) : (x \o y) \o z = x \o (y \o z)
      BY Associative
    <3>4. PICK w, v : w = a \o s /\ v = nick \o u
      OBVIOUS
    <3>5. w \in Seq(Char) /\ v \in Seq(Char)
      BY <2>5, <2>9, <3>2, <3>4
    <3>6. (w \o nick) \o u = w \o (nick \o u)
      <4>1. w \in Seq(Char) /\ nick \in Seq(Char) /\ u \in Seq(Char)
        BY <2>9, <3>2, <3>5
      <4>2. QED
        BY <3>3, <4>1, ZenonT(40)
    <3>7. (a \o s) \o v = a \o (s \o v)
      <4>1. a \in Seq(Char) /\ s \in Seq(Char) /\ v \in Seq(Char)
        BY <2>5, <3>2, <3>5
      <4>2. QED
        BY <3>3, <4>1, ZenonT(40)
    <3>8. v = p
      BY <2>11, <3>1, <3>2, <3>4 DEF Joined
    <3>9. message = (w \o nick) \o u
      BY <1>4, <2>4, <3>1, <3>4
    <3>10. message = a \o (s \o p)
      BY <3>4, <3>6, <3>7, <3>8, <3>9
    <3>11. QED
      BY <3>1, <3>10 DEF Joined
  <2>16. message \in Seq(Char) /\ SP \in ToSet(message) /\ Behind(message, SP) = p
    <3>1. Joined(a, SP, p) \in Seq(Char) /\ CutInto(Joined(a, SP, p), SP, a, p)
      BY <2>5, <2>12, <2>14, JoinedIsCut
    <3>2. QED
      BY <2>15, <3>1 DEF CutInto
  <2>17. sendPrivMsgUser(message) =
           IF SP \notin ToSet(p) THEN Ignored
           ELSE IF Before(p, SP) # << >> /\ Head(Before(p, SP)) = HASH
           THEN CutForChannel(<< Tail(Before(p, SP)), Behind(p, SP) >>)
           ELSE Cut(<< Before(p, SP), Behind(p, SP) >>)
    BY <2>16, PrivMsgIs
  <2>18. sendPrivMsgUser(message) =
           IF nick # << >> /\ Head(nick) = HASH THEN CutForChannel(<< Tail(nick), e >>)
           ELSE Cut(<< nick, e >>)
    BY <2>14, <2>17
  <2>19. QED
    BY <2>10, <2>11, <2>18, Outcomes
<1>6. NickWord = word
  BY <1>1, <1>2 DEF NickWord
<1>7. GivenNick = nick
  BY <1>3, <1>6 DEF GivenNick
<1>8. ASSUME NickIsGiven
      PROVE  /\ register_nickname(line) \in { Ignored, Cut(<< nick >>) }
             /\ Len(nick) < NickLimit => register_nickname(line) # Ignored
             /\ sendPrivMsgUser(message) = Cut(<< nick, << COLON >> >>)
                  <=> nick = << >> \/ Head(nick) # HASH
  <2>1. word # << >> /\ CR \notin ToSet(nick)
    BY <1>6, <1>7, <1>8 DEF NickIsGiven
  <2>2. Cut(<< nick >>) # Ignored
    BY Outcomes
  <2>3. QED
    BY <1>5, <2>1, <2>2
<1>9. QED
  BY <1>1, <1>4, <1>7, <1>8 DEF NicknameCanBeNamed

\* An accepted nickname is the word of the NICK, and PRIVMSG finds it (Command.cpp,
\* register_nickname and sendPrivMsgUser).
THEOREM NicknameAsStated == Spec => []NicknameCanBeNamed
BY LineIsString, NicknameNamed, PTL
=============================================================================
