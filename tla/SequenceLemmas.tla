--------------------------- MODULE SequenceLemmas ---------------------------
(***************************************************************************)
(* Induction over the naturals, and what appending to, erasing from and    *)
(* sorting the program's vectors does.                                     *)
(***************************************************************************)
EXTENDS Integers, Sequences, SequencesExt, SequenceTheorems, FiniteSetTheorems,
        WellFoundedInduction, Sorting, TLAPS

\* A non-empty set of naturals has the minimum that Min chooses.
LEMMA MinOfNaturals ==
    ASSUME NEW I \in SUBSET Nat, I # {}
    PROVE  Min(I) \in I /\ \A y \in I : Min(I) <= y
<1>1. \E x \in I : \A y \in I : ~ (<<y, x>> \in OpToRel(<, Nat))
  BY NatLessThanWellFounded, WFMin, Zenon
<1>2. PICK x \in I : \A y \in I : ~ (<<y, x>> \in OpToRel(<, Nat))
  BY <1>1
<1>3. ASSUME NEW y \in I
      PROVE  x <= y
  <2>1. x \in Nat /\ y \in Nat
    OBVIOUS
  <2>2. CASE y < x
    <3>1. <<y, x>> \in OpToRel(<, Nat)
      BY <2>1, <2>2 DEF OpToRel
    <3>2. QED
      BY <1>2, <3>1
  <2>3. QED
    BY <2>1, <2>2
<1>4. QED
  BY <1>3 DEF Min

\* Induction, stated with a set instead of a predicate.
LEMMA SetInduction ==
    ASSUME NEW I \in SUBSET Nat, 0 \in I, \A n \in I : n + 1 \in I
    PROVE  \A n \in Nat : n \in I
<1> DEFINE J == Nat \ I
<1>1. SUFFICES ASSUME J # {}
               PROVE  FALSE
  OBVIOUS
<1>2. J \in SUBSET Nat
  OBVIOUS
<1>3. PICK m \in J : \A y \in J : m <= y
  BY <1>1, <1>2, MinOfNaturals
<1>4. m \in Nat \ {0} /\ m - 1 \notin J
  BY <1>3
<1>5. m - 1 \in I /\ m = (m - 1) + 1
  BY <1>4
<1>6. QED
  BY <1>3, <1>5

\* Erasing position i closes the gap and changes nothing else.
LEMMA RemoveAtProperties ==
    ASSUME NEW S, NEW s \in Seq(S), NEW i \in 1 .. Len(s)
    PROVE  /\ RemoveAt(s, i) \in Seq(S)
           /\ Len(RemoveAt(s, i)) = Len(s) - 1
           /\ \A k \in 1 .. (Len(s) - 1) :
                RemoveAt(s, i)[k] = IF k < i THEN s[k] ELSE s[k + 1]
<1> DEFINE before == SubSeq(s, 1, i - 1)
           after == SubSeq(s, i + 1, Len(s))
<1>1. /\ before \in Seq(S) /\ Len(before) = i - 1
      /\ \A k \in 1 .. (i - 1) : before[k] = s[k]
  <2>1. \A k \in 1 .. (i - 1) : s[k] \in S
    BY ElementOfSeq
  <2>2. /\ SubSeq(s, 1, i - 1) \in Seq(S)
        /\ Len(SubSeq(s, 1, i - 1)) = IF 1 <= i - 1 THEN (i - 1) - 1 + 1 ELSE 0
        /\ \A k \in 1 .. ((i - 1) - 1 + 1) : SubSeq(s, 1, i - 1)[k] = s[1 + k - 1]
    BY <2>1, SubSeqProperties
  <2>3. QED
    BY <2>2
<1>2. /\ after \in Seq(S) /\ Len(after) = Len(s) - i
      /\ \A k \in 1 .. (Len(s) - i) : after[k] = s[i + k]
  <2>1. \A k \in (i + 1) .. Len(s) : s[k] \in S
    BY ElementOfSeq
  <2>2. /\ SubSeq(s, i + 1, Len(s)) \in Seq(S)
        /\ Len(SubSeq(s, i + 1, Len(s))) = IF i + 1 <= Len(s) THEN Len(s) - (i + 1) + 1 ELSE 0
        /\ \A k \in 1 .. (Len(s) - (i + 1) + 1) :
             SubSeq(s, i + 1, Len(s))[k] = s[(i + 1) + k - 1]
    BY <2>1, SubSeqProperties
  <2>3. QED
    BY <2>2
<1> HIDE DEF before, after
<1>3. RemoveAt(s, i) = before \o after
  BY DEF RemoveAt, before, after
<1>4. /\ before \o after \in Seq(S)
      /\ Len(before \o after) = Len(before) + Len(after)
      /\ \A k \in 1 .. (Len(before) + Len(after)) :
           (before \o after)[k] = IF k <= Len(before) THEN before[k] ELSE after[k - Len(before)]
  BY <1>1, <1>2, ConcatProperties
<1>5. QED
  BY <1>1, <1>2, <1>3, <1>4

\* Erasing position i takes no new element in, loses at most the element at i, and
\* that one only if it is nowhere else; it keeps a sequence injective.
LEMMA RemoveAtElements ==
    ASSUME NEW S, NEW s \in Seq(S), NEW i \in 1 .. Len(s)
    PROVE  /\ ToSet(RemoveAt(s, i)) \subseteq ToSet(s)
           /\ ToSet(s) \ {s[i]} \subseteq ToSet(RemoveAt(s, i))
           /\ s[i] \in ToSet(RemoveAt(s, i)) <=> \E j \in DOMAIN s : j # i /\ s[j] = s[i]
           /\ IsInjective(s) => /\ IsInjective(RemoveAt(s, i))
                                /\ ToSet(RemoveAt(s, i)) = ToSet(s) \ {s[i]}
<1> DEFINE r == RemoveAt(s, i)
<1>1. /\ r \in Seq(S) /\ Len(r) = Len(s) - 1
      /\ \A k \in 1 .. (Len(s) - 1) : r[k] = IF k < i THEN s[k] ELSE s[k + 1]
  BY RemoveAtProperties
<1>2. DOMAIN r = 1 .. (Len(s) - 1) /\ DOMAIN s = 1 .. Len(s) /\ Len(s) \in Nat
  BY <1>1
<1> HIDE DEF r
<1>3. ToSet(r) \subseteq ToSet(s)
  BY <1>1, <1>2 DEF ToSet
<1>4. ASSUME IsInjective(s)
      PROVE  IsInjective(r)
  <2>1. SUFFICES ASSUME NEW j \in DOMAIN r, NEW k \in DOMAIN r, r[j] = r[k]
                 PROVE  j = k
    BY DEF IsInjective
  <2>2. DEFINE old(m) == IF m < i THEN m ELSE m + 1
  <2>3. /\ old(j) \in DOMAIN s /\ r[j] = s[old(j)]
        /\ old(k) \in DOMAIN s /\ r[k] = s[old(k)]
    BY <1>1, <1>2
  <2>4. old(j) = old(k)
    BY <1>4, <2>1, <2>3, Zenon DEF IsInjective
  <2>5. QED
    BY <1>2, <2>4
<1>5. s[i] \in ToSet(r) <=> \E j \in DOMAIN s : j # i /\ s[j] = s[i]
  <2>1. ASSUME NEW k \in DOMAIN r, r[k] = s[i]
        PROVE  \E j \in DOMAIN s : j # i /\ s[j] = s[i]
    <3>1. CASE k < i
      BY <1>1, <1>2, <2>1, <3>1
    <3>2. CASE k >= i
      <4>1. k + 1 \in DOMAIN s /\ k + 1 # i /\ s[k + 1] = s[i]
        BY <1>1, <1>2, <2>1, <3>2
      <4>2. QED
        BY <4>1
    <3>3. QED
      BY <1>2, <3>1, <3>2
  <2>2. ASSUME NEW j \in DOMAIN s, j # i, s[j] = s[i]
        PROVE  \E k \in DOMAIN r : r[k] = s[i]
    <3>1. CASE j < i
      BY <1>1, <1>2, <2>2, <3>1
    <3>2. CASE j > i
      <4>1. j - 1 \in DOMAIN r /\ r[j - 1] = s[i]
        BY <1>1, <1>2, <2>2, <3>2
      <4>2. QED
        BY <4>1
    <3>3. QED
      BY <1>2, <2>2, <3>1, <3>2
  <2>3. QED
    BY <2>1, <2>2 DEF ToSet
<1>6. ToSet(s) \ {s[i]} \subseteq ToSet(r)
  <2>1. SUFFICES ASSUME NEW j \in DOMAIN s, s[j] # s[i]
                 PROVE  \E k \in DOMAIN r : r[k] = s[j]
    BY DEF ToSet
  <2>2. CASE j < i
    BY <1>1, <1>2, <2>2
  <2>3. CASE j > i
    <3>1. j - 1 \in DOMAIN r /\ r[j - 1] = s[j]
      BY <1>1, <1>2, <2>3
    <3>2. QED
      BY <3>1
  <2>4. QED
    BY <1>2, <2>1, <2>2, <2>3
<1>7. IsInjective(s) => ToSet(r) = ToSet(s) \ {s[i]}
  <2>1. IsInjective(s) => s[i] \notin ToSet(r)
    BY <1>2, <1>5 DEF IsInjective
  <2>2. QED
    BY <1>3, <1>6, <2>1
<1>8. QED
  BY <1>3, <1>4, <1>5, <1>6, <1>7 DEF r

\* From an injective sequence RemoveFirst takes the element and nothing else.
LEMMA RemoveFirstProperties ==
    ASSUME NEW S, NEW s \in Seq(S), NEW e
    PROVE  /\ RemoveFirst(s, e) \in Seq(S)
           /\ IsInjective(s) => /\ IsInjective(RemoveFirst(s, e))
                                /\ ToSet(RemoveFirst(s, e)) = ToSet(s) \ {e}
<1> DEFINE I == { i \in 1 .. Len(s) : s[i] = e }
<1>1. CASE I = {}
  <2>1. RemoveFirst(s, e) = s
    BY <1>1 DEF RemoveFirst
  <2>2. e \notin ToSet(s)
    BY <1>1 DEF ToSet
  <2>3. QED
    BY <2>1, <2>2
<1>2. CASE I # {}
  <2>1. RemoveFirst(s, e) = RemoveAt(s, Min(I))
    BY <1>2 DEF RemoveFirst, SelectInSeq
  <2>2. Min(I) \in 1 .. Len(s) /\ s[Min(I)] = e
    <3>1. I \in SUBSET Nat
      OBVIOUS
    <3>2. Min(I) \in I
      BY <1>2, <3>1, MinOfNaturals
    <3>3. QED
      BY <3>2
  <2> HIDE DEF I
  <2>3. QED
    BY <2>1, <2>2, RemoveAtProperties, RemoveAtElements
<1>3. QED
  BY <1>1, <1>2

\* A new element at the end keeps a sequence injective.
LEMMA AppendElements ==
    ASSUME NEW S, NEW s \in Seq(S), NEW e \in S
    PROVE  /\ ToSet(Append(s, e)) = ToSet(s) \cup {e}
           /\ IsInjective(s) /\ e \notin ToSet(s) => IsInjective(Append(s, e))
<1> DEFINE t == Append(s, e)
<1>1. /\ t \in Seq(S) /\ Len(t) = Len(s) + 1
      /\ \A i \in 1 .. Len(s) : t[i] = s[i]
      /\ t[Len(s) + 1] = e
  BY AppendProperties
<1>2. DOMAIN t = 1 .. (Len(s) + 1) /\ DOMAIN s = 1 .. Len(s) /\ Len(s) \in Nat
  BY <1>1
<1> HIDE DEF t
<1>3. ToSet(t) = ToSet(s) \cup {e}
  <2>1. ToSet(t) \subseteq ToSet(s) \cup {e}
    BY <1>1, <1>2 DEF ToSet
  <2>2. ToSet(s) \cup {e} \subseteq ToSet(t)
    BY <1>1, <1>2 DEF ToSet
  <2>3. QED
    BY <2>1, <2>2
<1>4. ASSUME IsInjective(s), e \notin ToSet(s)
      PROVE  IsInjective(t)
  <2>1. SUFFICES ASSUME NEW j \in DOMAIN t, NEW k \in DOMAIN t, t[j] = t[k]
                 PROVE  j = k
    BY DEF IsInjective
  <2>2. CASE j \in DOMAIN s /\ k \in DOMAIN s
    <3>1. s[j] = s[k]
      BY <1>1, <1>2, <2>1, <2>2
    <3>2. QED
      BY <1>4, <2>2, <3>1, Zenon DEF IsInjective
  <2>3. CASE j \notin DOMAIN s /\ k \notin DOMAIN s
    BY <1>2, <2>3
  <2>4. CASE (j \in DOMAIN s) # (k \in DOMAIN s)
    BY <1>1, <1>2, <1>4, <2>1, <2>4 DEF ToSet
  <2>5. QED
    BY <2>2, <2>3, <2>4
<1>5. QED
  BY <1>3, <1>4 DEF t

\* The rank tells the elements of a finite set apart and reaches its cardinality.
LEMMA RankProperties ==
    ASSUME NEW S \in SUBSET Int, IsFiniteSet(S)
    PROVE  /\ Cardinality(S) \in Nat
           /\ \A x \in S : Rank(S, x) \in 1 .. Cardinality(S)
           /\ \A x, y \in S : x < y => Rank(S, x) < Rank(S, y)
           /\ \A i \in 1 .. Cardinality(S) : \E x \in S : Rank(S, x) = i
<1> DEFINE n == Cardinality(S)
           Below(x) == { y \in S : y <= x }
<1>1. n \in Nat
  BY FS_CardinalityType
<1>2. ASSUME NEW x \in S
      PROVE  IsFiniteSet(Below(x)) /\ Cardinality(Below(x)) \in 1 .. n
  <2>1. IsFiniteSet(Below(x)) /\ Cardinality(Below(x)) <= n
    <3>1. Below(x) \in SUBSET S
      OBVIOUS
    <3> HIDE DEF Below
    <3>2. QED
      BY <3>1, FS_Subset
  <2>2. Cardinality(Below(x)) \in Nat
    BY <2>1, FS_CardinalityType
  <2>3. x \in Below(x)
    OBVIOUS
  <2> HIDE DEF Below
  <2>4. Cardinality(Below(x)) # 0
    BY <2>1, <2>3, FS_EmptySet
  <2>5. QED
    BY <1>1, <2>1, <2>2, <2>4
<1>3. ASSUME NEW x \in S, NEW y \in S, x < y
      PROVE  Cardinality(Below(x)) < Cardinality(Below(y))
  <2>1. Below(x) \in SUBSET Below(y) /\ y \in Below(y) /\ y \notin Below(x)
    <3>1. x \in Int /\ y \in Int
      OBVIOUS
    <3>2. ASSUME NEW z \in S, z <= x
          PROVE  z <= y
      <4>1. z \in Int
        OBVIOUS
      <4>2. QED
        BY <1>3, <3>1, <3>2, <4>1
    <3>3. y <= y /\ ~ (y <= x)
      BY <1>3, <3>1
    <3>4. QED
      BY <3>2, <3>3
  <2>2. IsFiniteSet(Below(y)) /\ Cardinality(Below(x)) \in 1 .. n /\ Cardinality(Below(y)) \in 1 .. n
    BY <1>2
  <2> HIDE DEF Below
  <2>3. /\ Cardinality(Below(x)) <= Cardinality(Below(y))
        /\ Cardinality(Below(y)) = Cardinality(Below(x)) => Below(y) = Below(x)
    BY <2>1, <2>2, FS_Subset
  <2>4. Cardinality(Below(y)) # Cardinality(Below(x))
    BY <2>1, <2>3
  <2>5. QED
    BY <1>1, <2>2, <2>3, <2>4
<1>4. \A x \in S : Rank(S, x) = Cardinality(Below(x))
  BY DEF Rank
<1> HIDE DEF Below
<1>5. \A i \in 1 .. n : \E x \in S : Rank(S, x) = i
  <2> DEFINE f == [ x \in S |-> Rank(S, x) ]
  <2>1. f \in Injection(S, 1 .. n)
    <3>1. f \in [ S -> 1 .. n ]
      BY <1>2, <1>4
    <3>2. ASSUME NEW x \in S, NEW y \in S, f[x] = f[y]
          PROVE  x = y
      <4>1. f[x] \in Int /\ ~ (f[x] < f[y]) /\ ~ (f[y] < f[x])
        BY <3>1, <3>2, <1>1
      <4>2. ~ (x < y) /\ ~ (y < x)
        BY <1>3, <1>4, <4>1
      <4>3. QED
        BY <4>2
    <3>3. QED
      BY <3>1, <3>2 DEF Injection, IsInjective
  <2>2. IsFiniteSet(1 .. n) /\ Cardinality(1 .. n) = n
    BY <1>1, FS_Interval
  <2> HIDE DEF f
  <2>3. f \in Surjection(S, 1 .. n)
    BY <2>1, <2>2, FS_Injection
  <2>4. QED
    BY <2>3 DEF Surjection, f
<1>6. QED
  BY <1>1, <1>2, <1>3, <1>4, <1>5

\* What Ascending returns: each element once, the smaller ones first.
LEMMA AscendingProperties ==
    ASSUME NEW S \in SUBSET Int, IsFiniteSet(S)
    PROVE  /\ Ascending(S) \in Seq(S)
           /\ Len(Ascending(S)) = Cardinality(S)
           /\ ToSet(Ascending(S)) = S
           /\ \A i, j \in DOMAIN Ascending(S) : i < j => Ascending(S)[i] < Ascending(S)[j]
           /\ \A i \in DOMAIN Ascending(S) : Rank(S, Ascending(S)[i]) = i
<1> DEFINE n == Cardinality(S)
           f == Ascending(S)
<1>1. /\ n \in Nat
      /\ \A x \in S : Rank(S, x) \in 1 .. n
      /\ \A x, y \in S : x < y => Rank(S, x) < Rank(S, y)
      /\ \A i \in 1 .. n : \E x \in S : Rank(S, x) = i
  BY RankProperties
<1>2. f = [ i \in 1 .. n |-> CHOOSE x \in S : Rank(S, x) = i ]
  BY DEF Ascending
<1>3. ASSUME NEW i \in 1 .. n
      PROVE  f[i] \in S /\ Rank(S, f[i]) = i
  BY <1>1, <1>2
<1> HIDE DEF f
<1>4. DOMAIN f = 1 .. n /\ f \in [ 1 .. n -> S ]
  BY <1>2, <1>3
<1>5. f \in Seq(S) /\ Len(f) = n
  BY <1>1, <1>4
<1>6. ToSet(f) = S
  <2>1. ASSUME NEW x \in S
        PROVE  x \in ToSet(f)
    <3>1. Rank(S, x) \in 1 .. n
      BY <1>1
    <3>2. f[Rank(S, x)] \in S /\ Rank(S, f[Rank(S, x)]) = Rank(S, x)
      BY <1>3, <3>1
    <3>3. ~ (x < f[Rank(S, x)]) /\ ~ (f[Rank(S, x)] < x)
      <4> DEFINE y == f[Rank(S, x)]
      <4>1. y \in S /\ Rank(S, y) = Rank(S, x) /\ Rank(S, x) \in Int
        BY <3>1, <3>2
      <4> HIDE DEF y
      <4>2. /\ x < y => Rank(S, x) < Rank(S, y)
            /\ y < x => Rank(S, y) < Rank(S, x)
        BY <1>1, <4>1
      <4>3. ~ (x < y) /\ ~ (y < x)
        BY <4>1, <4>2
      <4>4. QED
        BY <4>3 DEF y
    <3>4. x = f[Rank(S, x)]
      <4>1. x \in Int /\ f[Rank(S, x)] \in Int
        BY <3>2
      <4>2. QED
        BY <3>3, <4>1
    <3>5. QED
      BY <1>4, <3>1, <3>4 DEF ToSet
  <2>2. QED
    BY <1>4, <2>1 DEF ToSet
<1>7. ASSUME NEW i \in 1 .. n, NEW j \in 1 .. n, i < j
      PROVE  f[i] < f[j]
  <2>1. f[i] \in S /\ Rank(S, f[i]) = i /\ f[j] \in S /\ Rank(S, f[j]) = j
    BY <1>3
  <2>2. f[j] < f[i] => Rank(S, f[j]) < Rank(S, f[i])
    BY <1>1, <2>1
  <2>3. f[i] # f[j] /\ ~ (f[j] < f[i])
    BY <1>7, <2>1, <2>2
  <2>4. f[i] \in Int /\ f[j] \in Int
    BY <2>1
  <2>5. QED
    BY <2>3, <2>4
<1>8. QED
  BY <1>3, <1>4, <1>5, <1>6, <1>7 DEF f

\* When the elements of S are those of T below some limit, they come first in T.
LEMMA AscendingPrefix ==
    ASSUME NEW T \in SUBSET Int, IsFiniteSet(T), NEW S \in SUBSET T,
           \A x \in S, y \in T \ S : x < y
    PROVE  /\ DOMAIN Ascending(S) \subseteq DOMAIN Ascending(T)
           /\ \A i \in DOMAIN Ascending(S) : Ascending(T)[i] = Ascending(S)[i]
           /\ \A i \in DOMAIN Ascending(T) \ DOMAIN Ascending(S) : Ascending(T)[i] \in T \ S
<1> DEFINE f == Ascending(S)
           g == Ascending(T)
<1>1. IsFiniteSet(S) /\ Cardinality(S) <= Cardinality(T)
      /\ Cardinality(S) \in Nat /\ Cardinality(T) \in Nat
  BY FS_Subset, FS_CardinalityType
<1>2. ASSUME NEW x \in S
      PROVE  Rank(T, x) = Rank(S, x)
  <2>1. ASSUME NEW y \in T, y <= x
        PROVE  y \in S
    <3>1. x \in Int /\ y \in Int
      OBVIOUS
    <3>2. y \notin S => x < y
      OBVIOUS
    <3>3. QED
      BY <2>1, <3>1, <3>2
  <2>2. { y \in T : y <= x } = { y \in S : y <= x }
    BY <2>1
  <2>3. QED
    BY <2>2 DEF Rank
<1>3. /\ f \in Seq(S) /\ DOMAIN f = 1 .. Cardinality(S)
      /\ \A i \in DOMAIN f : f[i] \in S /\ Rank(S, f[i]) = i
  <2>1. f \in Seq(S) /\ Len(f) = Cardinality(S) /\ \A i \in DOMAIN f : Rank(S, f[i]) = i
    BY <1>1, AscendingProperties
  <2> HIDE DEF f
  <2>2. QED
    BY <2>1, LenProperties, ElementOfSeq
<1>4. /\ g \in Seq(T) /\ DOMAIN g = 1 .. Cardinality(T)
      /\ \A i \in DOMAIN g : g[i] \in T /\ Rank(T, g[i]) = i
  <2>1. g \in Seq(T) /\ Len(g) = Cardinality(T) /\ \A i \in DOMAIN g : Rank(T, g[i]) = i
    BY AscendingProperties
  <2> HIDE DEF g
  <2>2. QED
    BY <2>1, LenProperties, ElementOfSeq
<1> HIDE DEF f, g
<1>5. DOMAIN f \subseteq DOMAIN g
  BY <1>1, <1>3, <1>4
<1>6. ASSUME NEW x \in T, NEW y \in T, Rank(T, x) = Rank(T, y), Rank(T, x) \in Nat
      PROVE  x = y
  <2>1. /\ x < y => Rank(T, x) < Rank(T, y)
        /\ y < x => Rank(T, y) < Rank(T, x)
    BY RankProperties
  <2>2. x \in Int /\ y \in Int /\ ~ (x < y) /\ ~ (y < x)
    BY <1>6, <2>1
  <2>3. QED
    BY <2>2
<1>7. ASSUME NEW i \in DOMAIN f
      PROVE  g[i] = f[i]
  <2>1. f[i] \in S /\ f[i] \in T /\ Rank(S, f[i]) = i
    BY <1>3, <1>7
  <2>2. Rank(T, f[i]) = i
    BY <1>2, <2>1
  <2>3. i \in DOMAIN g /\ i \in Nat
    BY <1>3, <1>5, <1>7
  <2>4. g[i] \in T /\ Rank(T, g[i]) = i
    BY <1>4, <2>3
  <2>5. QED
    BY <1>6, <2>1, <2>2, <2>3, <2>4
<1>8. ASSUME NEW i \in DOMAIN g \ DOMAIN f, g[i] \in S
      PROVE  FALSE
  <2>1. Rank(S, g[i]) = i
    BY <1>2, <1>4, <1>8
  <2>2. Rank(S, g[i]) \in 1 .. Cardinality(S)
    <3>1. S \in SUBSET Int
      OBVIOUS
    <3>2. QED
      BY <1>1, <1>8, <3>1, RankProperties
  <2>3. QED
    BY <1>3, <1>8, <2>1, <2>2
<1>9. QED
  BY <1>4, <1>5, <1>7, <1>8 DEF f, g

\* Ascending repeats nothing.
LEMMA AscendingIsInjective ==
    ASSUME NEW S \in SUBSET Int, IsFiniteSet(S)
    PROVE  IsInjective(Ascending(S))
<1> DEFINE f == Ascending(S)
<1>1. /\ f \in Seq(S)
      /\ \A i, j \in DOMAIN f : i < j => f[i] < f[j]
  BY AscendingProperties
<1> HIDE DEF f
<1>2. SUFFICES ASSUME NEW i \in DOMAIN f, NEW j \in DOMAIN f, f[i] = f[j]
               PROVE  i = j
  BY DEF IsInjective, f
<1>3. DOMAIN f = 1 .. Len(f) /\ Len(f) \in Nat /\ f[i] \in S /\ f[j] \in S
  <2>1. DOMAIN f = 1 .. Len(f) /\ Len(f) \in Nat
    BY <1>1, LenProperties
  <2>2. QED
    BY <1>1, <2>1, ElementOfSeq
<1>4. ~ (i < j) /\ ~ (j < i)
  <2>1. f[i] \in Int /\ f[j] \in Int
    BY <1>3
  <2>2. QED
    BY <1>1, <1>2, <2>1
<1>5. QED
  BY <1>3, <1>4

\* Flattening sequences over S gives a sequence over S.
LEMMA FlattenSeqType ==
    ASSUME NEW S, NEW ss \in Seq(Seq(S))
    PROVE  FlattenSeq(ss) \in Seq(S)
<1> DEFINE Flat(f, n) ==
             f = [ i \in 1 .. n |-> IF i = 1 THEN ss[i] ELSE f[i - 1] \o ss[i] ]
           I == { m \in Nat : \E f : Flat(f, m) }
<1>1. 0 \in I
  <2>1. Flat([ i \in 1 .. 0 |-> << >> ], 0)
    OBVIOUS
  <2>2. QED
    BY <2>1
<1>2. ASSUME NEW m \in I
      PROVE  m + 1 \in I
  <2>1. PICK f : Flat(f, m)
    BY <1>2
  <2> DEFINE next == IF m = 0 THEN ss[m + 1] ELSE f[m] \o ss[m + 1]
             g == [ i \in 1 .. (m + 1) |-> IF i <= m THEN f[i] ELSE next ]
  <2>2. ASSUME NEW i \in 1 .. (m + 1)
        PROVE  g[i] = IF i = 1 THEN ss[i] ELSE g[i - 1] \o ss[i]
    <3>1. CASE i = m + 1
      <4>1. g[i] = next /\ (i # 1 => g[i - 1] = f[m]) /\ (i = 1 <=> m = 0)
        BY <1>2, <3>1
      <4>2. QED
        BY <3>1, <4>1
    <3>2. CASE i \in 1 .. m
      <4>1. g[i] = f[i] /\ (i # 1 => g[i - 1] = f[i - 1])
        BY <1>2, <3>2
      <4>2. f[i] = IF i = 1 THEN ss[i] ELSE f[i - 1] \o ss[i]
        BY <2>1, <3>2
      <4>3. QED
        BY <4>1, <4>2
    <3>3. QED
      BY <1>2, <3>1, <3>2
  <2>3. g = [ i \in 1 .. (m + 1) |-> g[i] ]
    OBVIOUS
  <2> HIDE DEF g
  <2>4. Flat(g, m + 1)
    BY <2>2, <2>3
  <2> HIDE DEF Flat
  <2>5. m \in Nat
    OBVIOUS
  <2>6. QED
    BY <2>4, <2>5
<1>3. I \in SUBSET Nat /\ Len(ss) \in Nat
  <2>1. Len(ss) \in Nat
    BY LenProperties
  <2> HIDE DEF Flat
  <2>2. QED
    BY <2>1
<1> HIDE DEF I
<1>4. Len(ss) \in I
  BY <1>1, <1>2, <1>3, SetInduction
<1> HIDE DEF Flat
<1>5. CASE Len(ss) = 0
  <2>1. ss = << >>
    BY <1>5
  <2>2. QED
    BY <1>5, <2>1 DEF FlattenSeq
<1>6. CASE Len(ss) # 0
  <2> DEFINE f == CHOOSE g : Flat(g, Len(ss))
  <2>1. FlattenSeq(ss) = f[Len(ss)]
    BY <1>6 DEF FlattenSeq, Flat
  <2>2. Flat(f, Len(ss))
    BY <1>4 DEF I
  <2> HIDE DEF f
  <2> DEFINE J == { m \in Nat : m \in 1 .. Len(ss) => f[m] \in Seq(S) }
  <2>3. 0 \in J
    OBVIOUS
  <2>4. ASSUME NEW m \in J
        PROVE  m + 1 \in J
    <3>1. SUFFICES ASSUME m + 1 \in 1 .. Len(ss)
                   PROVE  f[m + 1] \in Seq(S)
      BY <2>4
    <3>2. f[m + 1] = IF m + 1 = 1 THEN ss[m + 1] ELSE f[m] \o ss[m + 1]
      <4>1. f[m + 1] = IF m + 1 = 1 THEN ss[m + 1] ELSE f[(m + 1) - 1] \o ss[m + 1]
        BY <2>2, <3>1 DEF Flat
      <4>2. (m + 1) - 1 = m
        BY <2>4
      <4>3. QED
        BY <4>1, <4>2
    <3>3. ss[m + 1] \in Seq(S)
      BY <3>1
    <3>4. m # 0 => f[m] \in Seq(S)
      BY <1>3, <2>4, <3>1
    <3>5. QED
      BY <2>4, <3>2, <3>3, <3>4
  <2>5. J \in SUBSET Nat
    OBVIOUS
  <2> HIDE DEF J
  <2>6. Len(ss) \in J
    BY <1>3, <2>3, <2>4, <2>5, SetInduction
  <2>7. QED
    BY <1>3, <1>6, <2>1, <2>6 DEF J
<1>7. QED
  BY <1>5, <1>6
=============================================================================
