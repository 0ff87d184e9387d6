------------------------- MODULE LightControlProofs -------------------------
(***************************************************************************)
(* Proofs about the light, for any window, any range of readings and any   *)
(* two thresholds: the sum the sensor maintains is that of its window, the *)
(* light follows mode, command and mean, and every change has its event.   *)
(***************************************************************************)
EXTENDS LightControl, FiniteSetTheorems, TLAPS

(* Sums over a part of a function's domain.  A fold is a recursive function *)
(* on the subsets of the set; its laws are proved by induction on their     *)
(* size, with the least-element form of induction.                          *)

LEMMA Induction ==
  ASSUME NEW S \in SUBSET Nat, 0 \in S, \A n \in S : n + 1 \in S
  PROVE  S = Nat
<1> DEFINE T == Nat \ S
           R == OpToRel(<, Nat)
<1> SUFFICES ASSUME T # {} PROVE FALSE
  OBVIOUS
<1>1. IsWellFoundedOn(R, Nat) /\ T \subseteq Nat
  BY NatLessThanWellFounded
<1>2. \A m, n \in Nat : m < n => <<m, n>> \in R
  BY DEF OpToRel
<1>3. \A x \in T : x - 1 \in T /\ x \in Nat /\ x - 1 \in Nat /\ x - 1 < x
  OBVIOUS
<1> HIDE DEF R, T
<1>4. PICK x \in T : \A y \in T : ~(<<y, x>> \in R)
  BY <1>1, WFMin
<1> QED
  BY <1>2, <1>3, <1>4

Pick(x) == CHOOSE i \in x : TRUE

Summing(f, s, is) ==
  f = [x \in SUBSET is |-> IF x = {} THEN 0 ELSE s[Pick(x)] + f[x \ {Pick(x)}]]

LEMMA Smaller ==
  ASSUME NEW x, IsFiniteSet(x), NEW i \in x
  PROVE  /\ IsFiniteSet(x \ {i}) /\ Cardinality(x) \in Nat \ {0}
         /\ Cardinality(x \ {i}) \in Nat
         /\ Cardinality(x \ {i}) = Cardinality(x) - 1
<1>1. /\ IsFiniteSet(x \ {i}) /\ Cardinality(x \ {i}) = Cardinality(x) - 1
      /\ Cardinality(x) \in Nat
  BY FS_RemoveElement, FS_CardinalityType
<1>2. Cardinality(x) # 0
  BY FS_EmptySet
<1> QED
  BY <1>1, <1>2

LEMMA PickFacts == ASSUME NEW x, x # {} PROVE Pick(x) \in x
BY DEF Pick

LEMMA SubsetInduction ==
  ASSUME NEW A, IsFiniteSet(A), NEW G, {} \in G,
         \A x \in SUBSET A : x # {} /\ (\A i \in x : x \ {i} \in G) => x \in G
  PROVE  SUBSET A \subseteq G
<1> DEFINE S == {n \in Nat : \A x \in SUBSET A : Cardinality(x) = n => x \in G}
<1>1. ASSUME NEW x \in SUBSET A
      PROVE  /\ IsFiniteSet(x) /\ Cardinality(x) \in Nat
             /\ Cardinality(x) = 0 <=> x = {}
  BY FS_Subset, FS_CardinalityType, FS_EmptySet
<1>2. 0 \in S
  BY <1>1
<1>3. ASSUME NEW n \in S PROVE n + 1 \in S
  <2>1. n \in Nat /\ \A x \in SUBSET A : Cardinality(x) = n => x \in G
    OBVIOUS
  <2>2. ASSUME NEW x \in SUBSET A, Cardinality(x) = n + 1 PROVE x \in G
    <3>1. x # {}
      BY <1>1, <2>1, <2>2
    <3>2. ASSUME NEW i \in x PROVE x \ {i} \in G
      <4>1. Cardinality(x \ {i}) = n
        BY <1>1, <2>1, <2>2, Smaller
      <4> QED
        BY <2>1, <4>1
    <3> QED
      BY <3>1, <3>2
  <2> QED
    BY <2>1, <2>2
<1>4. S = Nat
  <2>1. S \in SUBSET Nat
    OBVIOUS
  <2> HIDE DEF S
  <2> QED
    BY <1>2, <1>3, <2>1, Induction
<1> QED
  BY <1>1, <1>4

LEMMA SumExists ==
  ASSUME NEW s, NEW is, IsFiniteSet(is)
  PROVE  \E f : Summing(f, s, is)
<1> DEFINE Small(n) == {x \in SUBSET is : Cardinality(x) <= n}
           Sums(f, n) ==
             f = [x \in Small(n) |->
                    IF x = {} THEN 0 ELSE s[Pick(x)] + f[x \ {Pick(x)}]]
           S == {n \in Nat : \E f : Sums(f, n)}
<1>1. ASSUME NEW x \in SUBSET is
      PROVE  /\ IsFiniteSet(x) /\ Cardinality(x) \in Nat
             /\ Cardinality(x) <= Cardinality(is) /\ Cardinality(is) \in Nat
             /\ Cardinality(x) = 0 => x = {}
  BY FS_Subset, FS_CardinalityType, FS_EmptySet
<1>2. 0 \in S
  <2> DEFINE f == [x \in Small(0) |-> 0]
  <2>1. \A x \in Small(0) : x = {}
    BY <1>1
  <2>2. f = [x \in Small(0) |-> IF x = {} THEN 0 ELSE s[Pick(x)] + f[x \ {Pick(x)}]]
    BY <2>1
  <2> QED
    BY <2>2
<1>3. ASSUME NEW n \in S PROVE n + 1 \in S
  <2>1. PICK g : Sums(g, n)
    OBVIOUS
  <2> DEFINE h == [x \in Small(n + 1) |->
                     IF x = {} THEN 0 ELSE s[Pick(x)] + g[x \ {Pick(x)}]]
  <2>2. ASSUME NEW y \in Small(n) PROVE y \in Small(n + 1) /\ h[y] = g[y]
    <3>1. y \in Small(n + 1)
      BY <1>1
    <3>2. g[y] = IF y = {} THEN 0 ELSE s[Pick(y)] + g[y \ {Pick(y)}]
      BY <2>1
    <3> QED
      BY <3>1, <3>2
  <2>3. ASSUME NEW x \in Small(n + 1), x # {}
        PROVE  x \ {Pick(x)} \in Small(n)
    BY <1>1, <2>3, PickFacts, Smaller
  <2>4. ASSUME NEW x \in Small(n + 1)
        PROVE  h[x] = IF x = {} THEN 0 ELSE s[Pick(x)] + h[x \ {Pick(x)}]
    BY <2>2, <2>3
  <2>5. Sums(h, n + 1)
    <3>1. h = [x \in Small(n + 1) |-> h[x]]
      OBVIOUS
    <3> HIDE DEF h, Small
    <3> QED
      BY <2>4, <3>1
  <2>6. n + 1 \in Nat
    OBVIOUS
  <2> HIDE DEF h, Sums
  <2> QED
    BY <2>5, <2>6
<1>4. S = Nat
  <2> HIDE DEF S
  <2> SUFFICES S \in SUBSET Nat
    BY <1>2, <1>3, Induction
  <2> QED
    BY DEF S
<1>5. is \in SUBSET is
  OBVIOUS
<1>6. Cardinality(is) \in S
  BY <1>1, <1>4, <1>5
<1>7. PICK f : Sums(f, Cardinality(is))
  BY <1>6
<1>8. Small(Cardinality(is)) = SUBSET is
  BY <1>1
<1>9. Summing(f, s, is)
  <2> HIDE DEF Small
  <2> QED
    BY <1>7, <1>8 DEF Summing
<1> QED
  BY <1>9

LEMMA SumIs ==
  ASSUME NEW s, NEW is, IsFiniteSet(is)
  PROVE  \E f : Summing(f, s, is) /\ SumOf(s, is) = f[is]
<1> DEFINE f[x \in SUBSET is] ==
             IF x = {} THEN 0
             ELSE LET i == CHOOSE i \in x : TRUE IN s[i] + f[x \ {i}]
<1>1. SumOf(s, is) = f[is]
  BY DEF SumOf, FoldFunctionOnSet, MapThenFoldSet
<1>2. \E g : Summing(g, s, is)
  BY SumExists
<1>3. \E g : g = [x \in SUBSET is |->
                    IF x = {} THEN 0
                    ELSE LET i == CHOOSE i \in x : TRUE IN s[i] + g[x \ {i}]]
  BY <1>2 DEF Summing, Pick
<1>4. Summing(f, s, is)
  BY <1>3 DEF Summing, Pick
<1> HIDE DEF f
<1> QED
  BY <1>1, <1>4

LEMMA SumStep ==
  ASSUME NEW f, NEW s, NEW is, Summing(f, s, is), NEW x \in SUBSET is
  PROVE  f[x] = IF x = {} THEN 0 ELSE s[Pick(x)] + f[x \ {Pick(x)}]
BY DEF Summing

(* The sum depends on the summed values only. *)
LEMMA SumUnique ==
  ASSUME NEW f, NEW s, NEW A, IsFiniteSet(A), Summing(f, s, A),
         NEW g, NEW t, NEW B, Summing(g, t, B),
         NEW y \in SUBSET A, y \in SUBSET B, \A i \in y : s[i] = t[i]
  PROVE  f[y] = g[y]
<1> DEFINE G == {x \in SUBSET y : f[x] = g[x]}
<1>1. IsFiniteSet(y)
  BY FS_Subset
<1>2. ASSUME NEW x \in SUBSET y
      PROVE  /\ f[x] = IF x = {} THEN 0 ELSE s[Pick(x)] + f[x \ {Pick(x)}]
             /\ g[x] = IF x = {} THEN 0 ELSE t[Pick(x)] + g[x \ {Pick(x)}]
  <2>1. x \in SUBSET A /\ x \in SUBSET B
    OBVIOUS
  <2>2. f[x] = IF x = {} THEN 0 ELSE s[Pick(x)] + f[x \ {Pick(x)}]
    BY <2>1, SumStep
  <2>3. g[x] = IF x = {} THEN 0 ELSE t[Pick(x)] + g[x \ {Pick(x)}]
    BY <2>1, SumStep
  <2> QED
    BY <2>2, <2>3
<1>3. {} \in G
  BY <1>2
<1>4. ASSUME NEW x \in SUBSET y, x # {}, \A i \in x : x \ {i} \in G
      PROVE  x \in G
  <2>1. Pick(x) \in x
    BY <1>4, PickFacts
  <2>2. s[Pick(x)] = t[Pick(x)] /\ f[x \ {Pick(x)}] = g[x \ {Pick(x)}]
    BY <1>4, <2>1
  <2> QED
    BY <1>2, <1>4, <2>2
<1>5. SUBSET y \subseteq G
  <2> HIDE DEF G
  <2> QED
    BY <1>1, <1>3, <1>4, SubsetInduction
<1> QED
  BY <1>5

LEMMA SumIsNat ==
  ASSUME NEW f, NEW s, NEW A, IsFiniteSet(A), Summing(f, s, A), \A i \in A : s[i] \in Nat
  PROVE  \A x \in SUBSET A : f[x] \in Nat
<1> DEFINE G == {x \in SUBSET A : f[x] \in Nat}
<1>1. {} \in G
  <2>1. {} \in SUBSET A
    OBVIOUS
  <2>2. f[{}] = IF {} = {} THEN 0 ELSE s[Pick({})] + f[{} \ {Pick({})}]
    BY <2>1, SumStep
  <2> QED
    BY <2>2
<1>2. ASSUME NEW x \in SUBSET A, x # {}, \A i \in x : x \ {i} \in G
      PROVE  x \in G
  <2>1. Pick(x) \in x
    BY <1>2, PickFacts
  <2>2. s[Pick(x)] \in Nat /\ f[x \ {Pick(x)}] \in Nat
    BY <1>2, <2>1
  <2>3. f[x] = s[Pick(x)] + f[x \ {Pick(x)}]
    BY <1>2, SumStep
  <2> QED
    BY <2>2, <2>3
<1>3. SUBSET A \subseteq G
  <2> HIDE DEF G
  <2> QED
    BY <1>1, <1>2, SubsetInduction
<1> QED
  BY <1>3

(* Any element may be taken out first. *)
LEMMA SumAnyFirst ==
  ASSUME NEW f, NEW s, NEW A, IsFiniteSet(A), Summing(f, s, A), \A i \in A : s[i] \in Nat
  PROVE  \A x \in SUBSET A : \A i \in x : f[x] = s[i] + f[x \ {i}]
<1> DEFINE G == {x \in SUBSET A : \A i \in x : f[x] = s[i] + f[x \ {i}]}
<1>1. {} \in G
  OBVIOUS
<1>2. ASSUME NEW x \in SUBSET A, x # {}, \A i \in x : x \ {i} \in G
      PROVE  x \in G
  <2>1. PICK c \in x : f[x] = s[c] + f[x \ {c}]
    <3>1. Pick(x) \in x
      BY <1>2, PickFacts
    <3>2. f[x] = s[Pick(x)] + f[x \ {Pick(x)}]
      BY <1>2, SumStep
    <3> QED
      BY <3>1, <3>2
  <2>2. ASSUME NEW i \in x, i # c PROVE f[x] = s[i] + f[x \ {i}]
    <3>1. f[x \ {c}] = s[i] + f[(x \ {c}) \ {i}]
      BY <1>2, <2>1, <2>2
    <3>2. f[x \ {i}] = s[c] + f[(x \ {i}) \ {c}]
      BY <1>2, <2>1, <2>2
    <3>3. (x \ {c}) \ {i} = (x \ {i}) \ {c}
      OBVIOUS
    <3>4. s[i] \in Nat /\ s[c] \in Nat /\ f[(x \ {i}) \ {c}] \in Nat
      BY SumIsNat
    <3> QED
      BY <2>1, <3>1, <3>2, <3>3, <3>4
  <2> QED
    BY <2>1, <2>2
<1>3. SUBSET A \subseteq G
  <2> HIDE DEF G
  <2> QED
    BY <1>1, <1>2, SubsetInduction
<1> QED
  BY <1>3

(* The laws of SumOf that the proofs below use. *)
LEMMA SumEmpty == ASSUME NEW s PROVE SumOf(s, {}) = 0
<1>1. PICK f : Summing(f, s, {}) /\ SumOf(s, {}) = f[{}]
  BY SumIs, FS_EmptySet
<1> QED
  BY <1>1, SumStep

LEMMA SumSame ==
  ASSUME NEW s, NEW t, NEW x, IsFiniteSet(x), \A i \in x : s[i] = t[i]
  PROVE  SumOf(s, x) = SumOf(t, x)
<1>1. PICK f : Summing(f, s, x) /\ SumOf(s, x) = f[x]
  BY SumIs
<1>2. PICK g : Summing(g, t, x) /\ SumOf(t, x) = g[x]
  BY SumIs
<1>3. x \in SUBSET x
  OBVIOUS
<1> QED
  BY <1>1, <1>2, <1>3, SumUnique

LEMMA SumSplit ==
  ASSUME NEW s, NEW x, IsFiniteSet(x), \A i \in x : s[i] \in Nat, NEW i \in x
  PROVE  SumOf(s, x) = s[i] + SumOf(s, x \ {i})
<1>1. PICK f : Summing(f, s, x) /\ SumOf(s, x) = f[x]
  BY SumIs
<1>2. IsFiniteSet(x \ {i}) /\ x \ {i} \in SUBSET x /\ x \in SUBSET x
  BY FS_RemoveElement
<1>3. PICK g : Summing(g, s, x \ {i}) /\ SumOf(s, x \ {i}) = g[x \ {i}]
  BY <1>2, SumIs
<1>4. f[x \ {i}] = g[x \ {i}]
  BY <1>1, <1>2, <1>3, SumUnique
<1>5. f[x] = s[i] + f[x \ {i}]
  BY <1>1, <1>2, SumAnyFirst
<1> QED
  BY <1>1, <1>3, <1>4, <1>5

LEMMA SumNat ==
  ASSUME NEW s, NEW x, IsFiniteSet(x), \A i \in x : s[i] \in Nat
  PROVE  SumOf(s, x) \in Nat
<1>1. PICK f : Summing(f, s, x) /\ SumOf(s, x) = f[x]
  BY SumIs
<1> QED
  BY <1>1, SumIsNat

LEMMA SumBound ==
  ASSUME NEW s, NEW y, IsFiniteSet(y), NEW m \in Nat, \A i \in y : s[i] \in 0..m
  PROVE  SumOf(s, y) <= m * Cardinality(y)
<1> DEFINE G == {x \in SUBSET y : SumOf(s, x) <= m * Cardinality(x)}
<1>1. {} \in G
  <2>1. SumOf(s, {}) = 0 /\ Cardinality({}) = 0
    BY SumEmpty, FS_EmptySet
  <2> QED
    BY <2>1
<1>2. ASSUME NEW x \in SUBSET y, x # {}, \A i \in x : x \ {i} \in G
      PROVE  x \in G
  <2>1. IsFiniteSet(x)
    BY FS_Subset
  <2>2. PICK i \in x : TRUE
    BY <1>2
  <2>3. s[i] \in Nat /\ s[i] <= m
    OBVIOUS
  <2>4. SumOf(s, x) = s[i] + SumOf(s, x \ {i})
    BY <2>1, SumSplit
  <2>5. SumOf(s, x \ {i}) <= m * Cardinality(x \ {i})
    BY <1>2
  <2>6. /\ Cardinality(x) \in Nat /\ Cardinality(x \ {i}) \in Nat
        /\ Cardinality(x \ {i}) = Cardinality(x) - 1
    BY <2>1, Smaller
  <2>7. SumOf(s, x \ {i}) \in Nat
    <3>1. IsFiniteSet(x \ {i}) /\ \A k \in x \ {i} : s[k] \in Nat
      BY <2>1, Smaller
    <3> QED
      BY <3>1, SumNat
  <2>8. ASSUME NEW a \in Nat, NEW b \in Nat, NEW p \in Nat, NEW q \in Nat,
               a <= m, b <= m * q, q = p - 1
        PROVE  a + b <= m * p
    <3>1. m * p = m * q + m
      BY <2>8
    <3>2. m * q \in Nat
      OBVIOUS
    <3> HIDE DEF G
    <3> QED
      BY <2>8, <3>1, <3>2
  <2>9. SumOf(s, x) <= m * Cardinality(x)
    BY <2>3, <2>4, <2>5, <2>6, <2>7, <2>8
  <2> QED
    BY <2>9
<1>3. SUBSET y \subseteq G
  <2> HIDE DEF G
  <2> QED
    BY <1>1, <1>2, SubsetInduction
<1> QED
  BY <1>3
-----------------------------------------------------------------------------
(* The sensor. *)

LEMMA IndicesFinite == IsFiniteSet(Indices) /\ Cardinality(Indices) = SampleCount
<1>1. SampleCount \in Nat /\ SampleCount - 1 \in Nat /\ SampleCount # 0
  BY LightAssumption
<1>2. Indices = 0..(SampleCount - 1)
  BY DEF Indices
<1> QED
  BY <1>1, <1>2, FS_Interval

LEMMA WindowFacts ==
  ASSUME TypeOK
  PROVE  /\ Window \subseteq Indices /\ IsFiniteSet(Window)
         /\ Cardinality(Window) = sampleCount
         /\ sampleCount \in Nat /\ SampleCount \in Nat /\ SampleCount # 0
         /\ \A i \in Indices : samples[i] \in Reading /\ samples[i] \in Nat
<1>1. sampleCount \in 0..SampleCount /\ SampleCount \in Nat /\ SampleCount # 0
  BY LightAssumption DEF TypeOK
<1>2. Window = 0..(sampleCount - 1) /\ Window \subseteq Indices
  BY <1>1 DEF Window, Indices
<1>3. IsFiniteSet(Window)
  BY <1>2, IndicesFinite, FS_Subset
<1>4. Cardinality(Window) = sampleCount
  <2>1. CASE sampleCount = 0
    <3>1. Window = {}
      BY <1>2, <2>1
    <3> QED
      BY <2>1, <3>1, FS_EmptySet
  <2>2. CASE sampleCount # 0
    BY <1>1, <1>2, <2>2, FS_Interval
  <2> QED
    BY <2>1, <2>2
<1>5. \A i \in Indices : samples[i] \in Reading /\ samples[i] \in Nat
  BY LightAssumption DEF TypeOK, Reading
<1> QED
  BY <1>1, <1>2, <1>3, <1>4, <1>5

\* The ring is filled from its beginning.
FillsInOrder == sampleCount < SampleCount => nextSampleIndex = sampleCount

SensorOK == /\ samples \in [Indices -> Reading]
            /\ sampleCount \in 0..SampleCount
            /\ nextSampleIndex \in Indices
            /\ runningSum \in Nat
            /\ filtered \in Reading

SwitchesOK == /\ mode \in Mode
              /\ manualLightOn \in BOOLEAN /\ actualLightOn \in BOOLEAN
              /\ lamp \in BOOLEAN
              /\ reported \in [mode : Mode, light : BOOLEAN]

LEMMA TypesApart == TypeOK <=> SensorOK /\ SwitchesOK
BY DEF TypeOK, SensorOK, SwitchesOK

LEMMA RingStep ==
  ASSUME TypeOK, FillsInOrder, NEW raw \in Reading, TakeSample(raw)
  PROVE  /\ samples' \in [Indices -> Reading]
         /\ sampleCount' \in 1..SampleCount
         /\ nextSampleIndex' \in Indices
         /\ FillsInOrder'
<1>1. /\ SampleCount \in Nat /\ SampleCount # 0
      /\ sampleCount \in 0..SampleCount /\ nextSampleIndex \in 0..(SampleCount - 1)
  BY LightAssumption DEF TypeOK, Indices
<1>2. samples' \in [Indices -> Reading]
  BY DEF TypeOK, TakeSample
<1>3. sampleCount' = IF sampleCount < SampleCount THEN sampleCount + 1 ELSE sampleCount
  BY DEF TakeSample
<1>4. nextSampleIndex' = IF nextSampleIndex + 1 = SampleCount THEN 0
                                                             ELSE nextSampleIndex + 1
  <2>1. nextSampleIndex' = (nextSampleIndex + 1) % SampleCount
    BY DEF TakeSample
  <2>2. ASSUME NEW n \in Nat \ {0}, NEW i \in 0..(n - 1)
        PROVE  (i + 1) % n = IF i + 1 = n THEN 0 ELSE i + 1
    OBVIOUS
  <2> QED
    BY <1>1, <2>1, <2>2
<1>5. nextSampleIndex' \in Indices
  BY <1>1, <1>4 DEF Indices
<1>6. sampleCount' \in 1..SampleCount
  BY <1>1, <1>3
<1>7. FillsInOrder'
  BY <1>1, <1>3, <1>4 DEF FillsInOrder
<1> QED
  BY <1>2, <1>5, <1>6, <1>7

(* One sample in, and when the ring is full one out: the sum stays the sum. *)
LEMMA SumFollows ==
  ASSUME TypeOK, FillsInOrder, runningSum = SumOf(samples, Window),
         NEW raw \in Reading, TakeSample(raw)
  PROVE  runningSum' = SumOf(samples', Window')
<1> DEFINE n == nextSampleIndex
           rest == Window' \ {n}
<1>1. /\ SampleCount \in Nat /\ SampleCount # 0
      /\ sampleCount \in 0..SampleCount /\ n \in Indices /\ n \in Nat /\ n < SampleCount
  BY LightAssumption DEF TypeOK, Indices
<1>2. sampleCount' \in 1..SampleCount /\ samples' \in [Indices -> Reading]
  BY RingStep
<1>3. samples' = [samples EXCEPT ![n] = raw] /\ runningSum' = runningSum - Evicted + raw
  BY DEF TakeSample
<1>4. sampleCount' = IF sampleCount < SampleCount THEN sampleCount + 1 ELSE sampleCount
  BY DEF TakeSample
<1>5. n \in Window' /\ Window' \subseteq Indices
  BY <1>1, <1>2, <1>4 DEF Window, Indices, FillsInOrder
<1>6. /\ \A i \in Indices : samples[i] \in Nat /\ samples'[i] \in Nat
      /\ raw \in Nat /\ samples'[n] = raw
      /\ \A i \in rest : samples'[i] = samples[i]
  <2>1. Reading \subseteq Nat
    BY LightAssumption DEF Reading
  <2>2. samples \in [Indices -> Reading]
    BY DEF TypeOK
  <2> HIDE DEF n
  <2> QED
    BY <1>1, <1>2, <1>3, <1>5, <2>1, <2>2
<1>7. IsFiniteSet(Window') /\ IsFiniteSet(rest) /\ rest \subseteq Indices
  BY <1>5, IndicesFinite, FS_Subset
<1> HIDE DEF n, rest
<1>8. SumOf(samples', Window') = raw + SumOf(samples', rest)
  BY <1>5, <1>6, <1>7, SumSplit DEF rest
<1>9. SumOf(samples', rest) = SumOf(samples, rest)
  BY <1>6, <1>7, SumSame
<1>10. SumOf(samples, rest) \in Nat
  BY <1>6, <1>7, SumNat
<1>11. runningSum - Evicted = SumOf(samples, rest)
  <2>1. CASE sampleCount < SampleCount
    <3>1. Evicted = 0
      BY <2>1 DEF Evicted
    <3>2. n = sampleCount /\ sampleCount' = n + 1
      BY <1>4, <2>1 DEF n, FillsInOrder
    <3>3. \A i \in Indices : i < n + 1 /\ i # n <=> i < n
      BY <1>1 DEF Indices
    <3>4. rest = Window
      BY <3>2, <3>3 DEF rest, Window
    <3> QED
      BY <1>10, <3>1, <3>4
  <2>2. CASE ~(sampleCount < SampleCount)
    <3>1. Evicted = samples[n] /\ Window = Window'
      BY <1>1, <1>4, <2>2 DEF Evicted, n, Window
    <3>2. SumOf(samples, Window) = samples[n] + SumOf(samples, rest)
      BY <1>5, <1>6, <1>7, <3>1, SumSplit DEF rest
    <3>3. samples[n] \in Nat
      BY <1>1, <1>6
    <3> QED
      BY <1>10, <3>1, <3>2, <3>3
  <2> QED
    BY <2>1, <2>2
<1> QED
  BY <1>3, <1>6, <1>8, <1>9, <1>10, <1>11

(* A mean is no greater than the greatest of what it is the mean of. *)
LEMMA MeanInRange ==
  ASSUME NEW sum \in Nat, NEW count \in Nat \ {0}, NEW m \in Nat, sum <= m * count
  PROVE  sum \div count \in 0..m
<1> DEFINE q == sum \div count
<1>1. q \in Nat /\ q * count <= sum
  OBVIOUS
<1>2. ASSUME q >= m + 1 PROVE FALSE
  <2>1. q * count >= (m + 1) * count
    BY <1>1, <1>2
  <2>2. (m + 1) * count = m * count + count
    OBVIOUS
  <2> QED
    BY <1>1, <2>1, <2>2
<1> HIDE DEF q
<1>3. q <= m
  BY <1>1, <1>2
<1> QED
  BY <1>1, <1>3 DEF q

LEMMA SensorStep ==
  ASSUME TypeOK, FillsInOrder, FilteredIsMean, NEW raw \in Reading, TakeSample(raw)
  PROVE  SensorOK' /\ FillsInOrder' /\ FilteredIsMean' /\ sampleCount' > 0
<1>1. /\ samples' \in [Indices -> Reading] /\ sampleCount' \in 1..SampleCount
      /\ nextSampleIndex' \in Indices /\ FillsInOrder'
  BY RingStep
<1>2. runningSum' = SumOf(samples', Window')
  BY SumFollows DEF FilteredIsMean
<1>3. filtered' = runningSum' \div sampleCount'
  BY DEF TakeSample
<1>4. SampleCount \in Nat /\ MaxReading \in Nat /\ Reading = 0..MaxReading
  BY LightAssumption DEF Reading
<1>5. /\ Window' \subseteq Indices /\ IsFiniteSet(Window')
      /\ Window' = 0..(sampleCount' - 1)
  <2>1. Window' = 0..(sampleCount' - 1) /\ Window' \subseteq Indices
    BY <1>1, <1>4 DEF Window, Indices
  <2> QED
    BY <2>1, IndicesFinite, FS_Subset
<1>6. Cardinality(Window') = sampleCount'
  BY <1>1, <1>4, <1>5, FS_Interval
<1>7. \A i \in Window' : samples'[i] \in 0..MaxReading /\ samples'[i] \in Nat
  <2>1. \A i \in Indices : samples'[i] \in Reading
    BY <1>1
  <2> QED
    BY <1>4, <1>5, <2>1
<1>8. SumOf(samples', Window') \in Nat
  BY <1>5, <1>7, SumNat
<1>9. SumOf(samples', Window') <= MaxReading * sampleCount'
  BY <1>4, <1>5, <1>6, <1>7, SumBound
<1>10. filtered' \in Reading
  <2>1. sampleCount' \in Nat \ {0}
    BY <1>1, <1>4
  <2> QED
    BY <1>2, <1>3, <1>4, <1>8, <1>9, <2>1, MeanInRange
<1>11. sampleCount' \in 0..SampleCount /\ sampleCount' > 0
  BY <1>1, <1>4
<1>12. SensorOK'
  BY <1>1, <1>2, <1>8, <1>10, <1>11 DEF SensorOK
<1>13. FilteredIsMean'
  BY <1>2, <1>3 DEF FilteredIsMean
<1> QED
  BY <1>1, <1>11, <1>12, <1>13
-----------------------------------------------------------------------------
(* The light.  What every caller leaves behind is stated once, for the two  *)
(* ways the light is decided: the manual command and the night mode.        *)

LightInv == /\ TypeOK /\ FillsInOrder /\ FilteredIsMean
            /\ lamp = actualLightOn
            /\ LightFollowsMode /\ EventsTellState

LEMMA LightInit == Init => LightInv
<1> SUFFICES ASSUME Init PROVE LightInv
  OBVIOUS
<1>1. /\ SampleCount \in Nat /\ SampleCount # 0 /\ MaxReading \in Nat
  BY LightAssumption
<1>2. samples \in [Indices -> Reading] /\ filtered \in Reading
  BY <1>1 DEF Init, Reading
<1>3. nextSampleIndex \in Indices /\ sampleCount \in 0..SampleCount /\ runningSum \in Nat
  BY <1>1 DEF Init, Indices
<1>4. SensorOK
  BY <1>2, <1>3 DEF SensorOK
<1>5. mode \in Mode /\ manualLightOn \in BOOLEAN /\ lamp = actualLightOn
  BY DEF Init
<1>6. actualLightOn \in BOOLEAN /\ lamp \in BOOLEAN
  BY Zenon DEF Init
<1>7. reported = [mode |-> mode, light |-> lamp]
  BY DEF Init
<1>8. SwitchesOK
  BY <1>5, <1>6, <1>7 DEF SwitchesOK
<1>9. FillsInOrder
  BY DEF Init, FillsInOrder
<1>10. FilteredIsMean
  <2>1. Window = {} /\ sampleCount = 0
    BY <1>1 DEF Init, Window, Indices
  <2> QED
    BY <2>1, SumEmpty DEF Init, FilteredIsMean
<1>11. LightFollowsMode
  <2>1. sampleCount = 0 /\ ~(0 > 0)
    BY DEF Init
  <2>2. actualLightOn <=> (mode = Manual /\ manualLightOn)
    BY Zenon DEF Init
  <2>3. Manual # Night
    BY LightAssumption
  <2> QED
    BY <2>1, <2>2, <2>3, <1>5 DEF LightFollowsMode
<1> QED
  BY <1>4, <1>5, <1>7, <1>8, <1>9, <1>10, <1>11, TypesApart DEF LightInv, EventsTellState

LEMMA ApplyLightIs ==
  ASSUME NEW on \in BOOLEAN, ApplyLight(on)
  PROVE  lamp' = on /\ actualLightOn' = on
BY Zenon DEF ApplyLight

LEMMA EvaluateNightIs ==
  ASSUME NEW value \in Nat, lamp \in BOOLEAN, lamp = actualLightOn, EvaluateNight(value)
  PROVE  /\ lamp' = actualLightOn' /\ lamp' \in BOOLEAN
         /\ value < OnBelow => lamp' = TRUE
         /\ value > OffAbove => lamp' = FALSE
         /\ ~(value < OnBelow) /\ ~(value > OffAbove) => lamp' = lamp
<1>1. ~(value < OnBelow /\ value > OffAbove)
  BY LightAssumption
<1>2. CASE value < OnBelow
  <2>1. ~(value > OffAbove)
    BY <1>1, <1>2
  <2>2. ApplyLight(TRUE)
    BY <1>2, <2>1, Zenon DEF EvaluateNight
  <2> QED
    BY <1>2, <2>1, <2>2, ApplyLightIs, Zenon
<1>3. CASE value > OffAbove
  <2>1. ~(value < OnBelow)
    BY <1>1, <1>3
  <2>2. ApplyLight(FALSE)
    BY <1>3, <2>1, Zenon DEF EvaluateNight
  <2> QED
    BY <1>3, <2>1, <2>2, ApplyLightIs, Zenon
<1>4. CASE ~(value < OnBelow) /\ ~(value > OffAbove)
  <2>1. UNCHANGED <<lamp, actualLightOn>>
    BY <1>4, Zenon DEF EvaluateNight
  <2>2. lamp' = lamp /\ actualLightOn' = actualLightOn
    BY <2>1
  <2> QED
    BY <1>4, <2>2, Zenon
<1> QED
  BY <1>2, <1>3, <1>4, Zenon

\* What the light must be, said of the next state.
Decided == /\ lamp' = actualLightOn' /\ lamp' \in BOOLEAN
           /\ mode' \in Mode /\ manualLightOn' \in BOOLEAN
           /\ LightFollowsMode'

LEMMA SetModeDecides ==
  ASSUME LightInv, NEW m \in Mode, NEW on \in BOOLEAN, SetMode(m, on),
         manualLightOn' = on, UNCHANGED sensor
  PROVE  Decided
<1>1. mode' = m /\ sampleCount' = sampleCount /\ filtered' = filtered
  BY DEF SetMode, sensor
<1>2. /\ Manual # Night /\ m \in {Manual, Night}
      /\ lamp \in BOOLEAN /\ lamp = actualLightOn
  BY LightAssumption, Zenon DEF LightInv, TypeOK, Mode
<1>3. filtered \in Nat /\ sampleCount \in Nat
  BY LightAssumption DEF LightInv, TypeOK, Reading
<1>4. CASE m = Manual
  <2>1. ApplyLight(on)
    BY <1>4, Zenon DEF SetMode
  <2>2. lamp' = on /\ actualLightOn' = on
    BY <2>1, ApplyLightIs
  <2> QED
    BY <1>1, <1>2, <1>4, <2>2, Zenon DEF Decided, LightFollowsMode
<1>5. CASE m = Night /\ sampleCount > 0
  <2>1. EvaluateNight(filtered)
    BY <1>2, <1>5, Zenon DEF SetMode
  <2>2. /\ lamp' = actualLightOn' /\ lamp' \in BOOLEAN
        /\ filtered < OnBelow => lamp' = TRUE
        /\ filtered > OffAbove => lamp' = FALSE
    BY <1>2, <1>3, <2>1, EvaluateNightIs, Zenon
  <2>3. sampleCount # 0
    BY <1>3, <1>5
  <2> QED
    BY <1>1, <1>2, <1>5, <2>2, <2>3, Zenon DEF Decided, LightFollowsMode
<1>6. CASE m = Night /\ ~(sampleCount > 0)
  <2>1. ApplyLight(FALSE)
    BY <1>2, <1>6, Zenon DEF SetMode
  <2>2. lamp' = FALSE /\ actualLightOn' = FALSE
    BY <2>1, ApplyLightIs, Zenon
  <2> QED
    BY <1>1, <1>2, <1>6, <2>2, Zenon DEF Decided, LightFollowsMode
<1> QED
  BY <1>2, <1>4, <1>5, <1>6, Zenon

LEMMA SampleDecides ==
  ASSUME LightInv, UNCHANGED <<mode, manualLightOn>>,
         filtered' \in Nat, sampleCount' \in Nat, sampleCount' > 0,
         IF mode = Night THEN EvaluateNight(filtered') ELSE UNCHANGED <<lamp, actualLightOn>>
  PROVE  Decided
<1>1. mode' = mode /\ manualLightOn' = manualLightOn
  OBVIOUS
<1>2. /\ Manual # Night /\ mode \in {Manual, Night} /\ manualLightOn \in BOOLEAN
      /\ lamp \in BOOLEAN /\ lamp = actualLightOn
  BY LightAssumption, Zenon DEF LightInv, TypeOK, Mode
<1>3. sampleCount' # 0
  OBVIOUS
<1>4. CASE mode = Night
  <2>1. EvaluateNight(filtered')
    BY <1>4, Zenon
  <2>2. /\ lamp' = actualLightOn' /\ lamp' \in BOOLEAN
        /\ filtered' < OnBelow => lamp' = TRUE
        /\ filtered' > OffAbove => lamp' = FALSE
    BY <1>2, <2>1, EvaluateNightIs, Zenon
  <2> QED
    BY <1>1, <1>2, <1>3, <1>4, <2>2, Zenon DEF Decided, LightFollowsMode, Mode
<1>5. CASE mode = Manual
  <2>1. UNCHANGED <<lamp, actualLightOn>>
    BY <1>2, <1>5, Zenon
  <2>2. lamp' = lamp /\ actualLightOn' = actualLightOn
    BY <2>1
  <2>3. actualLightOn = manualLightOn
    BY <1>5, Zenon DEF LightInv, LightFollowsMode
  <2> QED
    BY <1>1, <1>2, <1>3, <1>5, <2>2, <2>3, Zenon DEF Decided, LightFollowsMode, Mode
<1> QED
  BY <1>2, <1>4, <1>5

(* An event for every change: what was told stays told. *)
LEMMA ChangesTold ==
  ASSUME LightInv, RecordChanges, Decided
  PROVE  EventsTellState' /\ SwitchesOK'
<1>1. reported = [mode |-> mode, light |-> actualLightOn]
  BY DEF LightInv, EventsTellState
<1>2. reported.mode = mode /\ reported.light = actualLightOn
  BY <1>1
<1>3. reported' = [mode |-> mode', light |-> actualLightOn']
  BY <1>2, Zenon DEF RecordChanges
<1>4. reported' = [mode |-> mode', light |-> lamp']
  BY <1>3 DEF Decided
<1>5. lamp' \in BOOLEAN /\ actualLightOn' \in BOOLEAN /\ mode' \in Mode
      /\ manualLightOn' \in BOOLEAN
  BY Zenon DEF Decided
<1>6. reported' \in [mode : Mode, light : BOOLEAN]
  BY <1>4, <1>5
<1> QED
  BY <1>4, <1>5, <1>6 DEF EventsTellState, SwitchesOK

LEMMA SensorKept ==
  ASSUME LightInv, UNCHANGED sensor
  PROVE  SensorOK' /\ FillsInOrder' /\ FilteredIsMean'
<1>1. SensorOK /\ FillsInOrder /\ FilteredIsMean
  BY TypesApart DEF LightInv
<1> QED
  BY <1>1 DEF sensor, SensorOK, FillsInOrder, FilteredIsMean, Window

LEMMA LightStep == LightInv /\ [Next]_vars => LightInv'
<1> SUFFICES ASSUME LightInv, [Next]_vars PROVE LightInv'
  OBVIOUS
<1>1. TypeOK /\ SensorOK /\ SwitchesOK
  BY TypesApart DEF LightInv
<1>2. ASSUME SensorOK', FillsInOrder', FilteredIsMean', Decided, RecordChanges
      PROVE  LightInv'
  <2>1. EventsTellState' /\ SwitchesOK'
    BY <1>2, ChangesTold
  <2>2. TypeOK'
    BY <1>2, <2>1 DEF TypeOK, SensorOK, SwitchesOK
  <2> QED
    BY <1>2, <2>1, <2>2 DEF LightInv, Decided
<1>3. CASE Sample
  <2>1. PICK raw \in Reading :
          /\ TakeSample(raw)
          /\ IF mode = Night THEN EvaluateNight(filtered')
                             ELSE UNCHANGED <<lamp, actualLightOn>>
          /\ UNCHANGED <<mode, manualLightOn>>
          /\ RecordChanges
    BY <1>3 DEF Sample
  <2>2. SensorOK' /\ FillsInOrder' /\ FilteredIsMean' /\ sampleCount' > 0
    BY <2>1, SensorStep DEF LightInv
  <2>3. filtered' \in Nat /\ sampleCount' \in Nat
    BY <2>2, LightAssumption DEF SensorOK, Reading
  <2>4. Decided
    BY <2>1, <2>2, <2>3, SampleDecides
  <2> QED
    BY <1>2, <2>1, <2>2, <2>4
<1>4. CASE SerialMode
  <2>1. PICK m \in Mode : /\ SetMode(m, manualLightOn)
                          /\ UNCHANGED <<sensor, manualLightOn>>
                          /\ RecordChanges
    BY <1>4 DEF SerialMode
  <2>2. manualLightOn' = manualLightOn /\ UNCHANGED sensor
    BY <2>1
  <2>3. manualLightOn \in BOOLEAN
    BY <1>1 DEF SwitchesOK
  <2>4. Decided
    BY <2>1, <2>2, <2>3, SetModeDecides
  <2> QED
    BY <1>2, <2>1, <2>2, <2>4, SensorKept
<1>5. CASE SerialLight
  <2>1. PICK on \in BOOLEAN :
          /\ manualLightOn' = on
          /\ IF mode = Manual THEN SetMode(Manual, on)
                              ELSE UNCHANGED <<mode, lamp, actualLightOn>>
          /\ UNCHANGED sensor
          /\ RecordChanges
    BY <1>5 DEF SerialLight
  <2>2. Decided
    <3>1. CASE mode = Manual
      <4>1. SetMode(Manual, on) /\ Manual \in Mode
        BY <2>1, <3>1, Zenon DEF Mode
      <4> QED
        BY <2>1, <4>1, SetModeDecides
    <3>2. CASE mode # Manual
      <4>1. UNCHANGED <<mode, lamp, actualLightOn>>
        BY <2>1, <3>2, Zenon
      <4>2. /\ mode' = mode /\ lamp' = lamp /\ actualLightOn' = actualLightOn
            /\ sampleCount' = sampleCount /\ filtered' = filtered
        BY <2>1, <4>1 DEF sensor
      <4>3. /\ lamp = actualLightOn /\ lamp \in BOOLEAN /\ mode \in Mode
            /\ LightFollowsMode
        BY <1>1, Zenon DEF LightInv, SwitchesOK
      <4> QED
        BY <2>1, <3>2, <4>2, <4>3, Zenon DEF Decided, LightFollowsMode
    <3> QED
      BY <3>1, <3>2
  <2> QED
    BY <1>2, <2>1, <2>2, SensorKept
<1>6. CASE ApplyDesired
  <2>1. PICK m \in Mode, on \in BOOLEAN : /\ manualLightOn' = on
                                          /\ SetMode(m, on)
                                          /\ UNCHANGED sensor
                                          /\ RecordChanges
    BY <1>6 DEF ApplyDesired
  <2>2. Decided
    BY <2>1, SetModeDecides
  <2> QED
    BY <1>2, <2>1, <2>2, SensorKept
<1>7. CASE UNCHANGED vars
  <2>1. /\ UNCHANGED sensor /\ mode' = mode /\ manualLightOn' = manualLightOn
        /\ actualLightOn' = actualLightOn /\ lamp' = lamp /\ reported' = reported
    BY <1>7 DEF vars
  <2>2. SensorOK' /\ FillsInOrder' /\ FilteredIsMean'
    BY <2>1, SensorKept
  <2>3. SwitchesOK'
    BY <1>1, <2>1 DEF SwitchesOK
  <2>4. sampleCount' = sampleCount /\ filtered' = filtered
    BY <2>1 DEF sensor
  <2>5. LightFollowsMode'
    BY <2>1, <2>4, Zenon DEF LightInv, LightFollowsMode
  <2>6. TypeOK'
    BY <2>2, <2>3 DEF TypeOK, SensorOK, SwitchesOK
  <2> QED
    BY <2>1, <2>2, <2>5, <2>6 DEF LightInv, EventsTellState
<1> QED
  BY <1>3, <1>4, <1>5, <1>6, <1>7, Zenon DEF Next

LEMMA LightInvariant == Spec => []LightInv
BY LightInit, LightStep, PTL DEF Spec

(* The ranges of the fields hold of every run: the ring index stays in the  *)
(* ring, the unsigned sum never goes below zero and the mean stays within   *)
(* what the sensor reads (LightSensor.cpp).                                 *)
THEOREM LightTypeCorrect == Spec => []TypeOK
<1>1. LightInv => TypeOK
  BY DEF LightInv
<1> QED
  BY <1>1, LightInvariant, PTL

(* The filtered value is the mean of the samples in the window, however     *)
(* often the ring has wrapped (LightSensor::update).                        *)
THEOREM FilteredCorrect == Spec => []FilteredIsMean
<1>1. LightInv => FilteredIsMean
  BY DEF LightInv
<1> QED
  BY <1>1, LightInvariant, PTL

(* The light is what mode, manual command and mean ask for, whichever of    *)
(* the three callers acted last (ModeController.cpp).                       *)
THEOREM LightCorrect == Spec => []LightFollowsMode
<1>1. LightInv => LightFollowsMode
  BY DEF LightInv
<1> QED
  BY <1>1, LightInvariant, PTL

(* The events queued tell the mode and the light, and the light told is the *)
(* lamp's (recordObservableChanges).                                        *)
THEOREM EventsCorrect == Spec => []EventsTellState
<1>1. LightInv => EventsTellState
  BY DEF LightInv
<1> QED
  BY <1>1, LightInvariant, PTL

(* While night mode lasts, a mean between the thresholds never switches the *)
(* light (evaluateNightMode).                                               *)
THEOREM HysteresisHolds == Spec => NoFlicker
<1> DEFINE Steady == mode = Night /\ mode' = Night /\ filtered' \in OnBelow..OffAbove
                       => actualLightOn' = actualLightOn
<1>1. LightInv /\ [Next]_vars => [Steady]_vars
  <2> SUFFICES ASSUME LightInv, Next, mode = Night, mode' = Night,
                      filtered' \in OnBelow..OffAbove
               PROVE  actualLightOn' = actualLightOn
    BY Zenon
  <2>1. /\ Manual # Night /\ lamp \in BOOLEAN /\ lamp = actualLightOn
        /\ manualLightOn \in BOOLEAN
    BY LightAssumption, Zenon DEF LightInv, TypeOK
  <2>2. filtered' \in Nat /\ ~(filtered' < OnBelow) /\ ~(filtered' > OffAbove)
    BY LightAssumption
  <2>3. ASSUME EvaluateNight(filtered') PROVE actualLightOn' = actualLightOn
    BY <2>1, <2>2, <2>3, EvaluateNightIs
  <2>4. CASE Sample
    <3>1. EvaluateNight(filtered')
      BY <2>4, Zenon DEF Sample
    <3> QED
      BY <2>3, <3>1
  <2>5. CASE SerialMode
    BY <2>5, Zenon DEF SerialMode, SetMode
  <2>6. CASE SerialLight
    <3>1. UNCHANGED <<mode, lamp, actualLightOn>>
      BY <2>1, <2>6, Zenon DEF SerialLight
    <3> QED
      BY <3>1
  <2>7. CASE ApplyDesired
    <3>1. PICK m \in Mode, on \in BOOLEAN : SetMode(m, on) /\ UNCHANGED sensor
      BY <2>7, Zenon DEF ApplyDesired
    <3>2. m = Night /\ sampleCount' = sampleCount /\ filtered' = filtered
      BY <3>1 DEF SetMode, sensor
    <3>3. CASE sampleCount > 0
      <4>1. EvaluateNight(filtered)
        BY <2>1, <3>1, <3>2, <3>3, Zenon DEF SetMode
      <4>2. EvaluateNight(filtered')
        BY <3>2, <4>1
      <4> QED
        BY <2>3, <4>2
    <3>4. CASE ~(sampleCount > 0)
      <4>1. ApplyLight(FALSE)
        BY <2>1, <3>1, <3>2, <3>4, Zenon DEF SetMode
      <4>2. actualLightOn' = FALSE
        BY <4>1, ApplyLightIs, Zenon
      <4>3. sampleCount = 0
        BY <3>4 DEF LightInv, TypeOK
      <4>4. ~actualLightOn
        BY <4>3, Zenon DEF LightInv, LightFollowsMode
      <4> QED
        BY <2>1, <4>2, <4>4, Zenon
    <3> QED
      BY <3>3, <3>4
  <2> QED
    BY <2>4, <2>5, <2>6, <2>7, Zenon DEF Next
<1> QED
  BY <1>1, LightInvariant, PTL DEF Spec, NoFlicker
=============================================================================
