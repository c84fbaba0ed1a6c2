-------------------------- MODULE SampleDataProofs --------------------------
(***************************************************************************)
(* The proofs of SampleData: its type invariant, InputIsTheFile,           *)
(* SubsamplesMatchTheData and AdtsFramesAreWhole, for all Files of which   *)
(* FilesAssumption is true.                                                *)
(*                                                                         *)
(* First what the operators of SampleData compute, for all their           *)
(* arguments: sums and flattened sequences, the conversion of a sample to  *)
(* start codes and to ADTS frames, the walk over ADTS headers, subsamples  *)
(* and the frames that the CDM should see of a file.  Sum(),               *)
(* FlattenSeq(), NalStarts() and the walk are recursive functions: each is *)
(* proved to exist, then its equation is used in an induction over a set   *)
(* (SetInduction).  A conclusion that is cited often has a name, and is    *)
(* unfolded where it is needed.                                            *)
(*                                                                         *)
(* Then the invariants.  Each of the three looks at what came last, and    *)
(* none is inductive: that the next input buffer is the next frame of the  *)
(* file rests on where the reader is, on what the locals of                *)
(* ParseMoofMdat() hold after the atoms read so far, on the sample's data  *)
(* being the frames the moof describes, and on the offset being the sum of *)
(* their lengths.                                                          *)
(***************************************************************************)
EXTENDS SampleData, SequenceTheorems, WellFoundedInduction, TLAPS

-----------------------------------------------------------------------------
(* Sums                                                                    *)

\* Induction over a set: the form of it that needs no operator as a parameter.
LEMMA SetInduction ==
  ASSUME NEW T, 0 \in T, \A n \in Nat : n \in T => n + 1 \in T
  PROVE  Nat \subseteq T
<1> DEFINE U == {n \in Nat : n \notin T}
<1>1. SUFFICES ASSUME U # {} PROVE FALSE
  OBVIOUS
<1>2. PICK x \in U : \A y \in U : ~ (<<y, x>> \in OpToRel(<, Nat))
  <2>1. U \subseteq Nat
    OBVIOUS
  <2> HIDE DEF U
  <2>2. QED
    BY Zenon, <1>1, <2>1, WFMin, NatLessThanWellFounded
<1>3. \A y \in U : ~ (y < x)
  BY Zenon, <1>2 DEF OpToRel
<1>4. x \in Nat /\ x # 0
  OBVIOUS
<1>5. x - 1 \in Nat /\ x - 1 < x
  BY <1>4
<1>6. x - 1 \in T
  BY <1>3, <1>5
<1>7. x \in T
  BY <1>4, <1>5, <1>6
<1>8. QED
  BY <1>7

\* Max() of the library, which FoldLeft() takes its indices by.
LEMMA MaxOfIndices ==
  ASSUME NEW k \in Nat, NEW x \in SUBSET (1 .. k), x # {}
  PROVE  Max(x) \in x /\ \A y \in x : y <= Max(x)
<1> DEFINE T == {n \in Nat : \A z \in SUBSET (1 .. n) : z # {} => \E m \in z : \A y \in z : m >= y}
<1>1. 0 \in T
  <2>1. \A z \in SUBSET (1 .. 0) : z = {}
    OBVIOUS
  <2>2. QED
    BY Zenon, <2>1
<1>2. ASSUME NEW n \in Nat, n \in T PROVE n + 1 \in T
  <2>1. SUFFICES ASSUME NEW z \in SUBSET (1 .. n + 1), z # {}
                 PROVE  \E m \in z : \A y \in z : m >= y
    OBVIOUS
  <2>2. CASE n + 1 \in z
    BY <2>2
  <2>3. CASE n + 1 \notin z
    <3>1. z \in SUBSET (1 .. n)
      BY <2>3
    <3>2. QED
      BY <1>2, <2>1, <3>1
  <2>4. QED
    BY <2>2, <2>3
<1>3. k \in T
  <2> HIDE DEF T
  <2>1. QED
    BY <1>1, <1>2, SetInduction
<1>4. PICK m \in x : \A y \in x : m >= y
  BY <1>3
<1>5. Max(x) \in x /\ \A y \in x : Max(x) >= y
  BY Zenon, <1>4 DEF Max
<1>6. QED
  BY <1>5

\* The recursion that Sum() unfolds into.
SumFold(s) == CHOOSE g : g = [x \in SUBSET DOMAIN s |->
                 IF x = {} THEN 0 ELSE g[x \ {Max(x)}] + s[Max(x)]]

\* Sum() of SampleData is the function SumFold on all its indices.
LEMMA SumIsFold == ASSUME NEW s PROVE Sum(s) = SumFold(s)[DOMAIN s]
BY Zenon DEF Sum, FoldLeft, MapThenFoldSet, SumFold

\* The recursive function is defined for every finite set of indices.
LEMMA SumFoldExists ==
  ASSUME NEW s, NEW n \in Nat, DOMAIN s = 1 .. n
  PROVE  SumFold(s) = [x \in SUBSET (1 .. n) |->
           IF x = {} THEN 0 ELSE SumFold(s)[x \ {Max(x)}] + s[Max(x)]]
<1> DEFINE Step(g, x) == IF x = {} THEN 0 ELSE g[x \ {Max(x)}] + s[Max(x)]
<1> DEFINE T == {k \in Nat : \E g : g = [x \in SUBSET (1 .. k) |-> Step(g, x)]}
<1>1. 0 \in T
  <2>1. [x \in SUBSET (1 .. 0) |-> 0] = [x \in SUBSET (1 .. 0) |-> Step([y \in SUBSET (1 .. 0) |-> 0], x)]
    OBVIOUS
  <2>2. QED
    BY <2>1
<1>2. ASSUME NEW k \in Nat, k \in T PROVE k + 1 \in T
  <2>1. PICK g : g = [x \in SUBSET (1 .. k) |-> Step(g, x)]
    BY Zenon, <1>2
  <2> DEFINE h == [x \in SUBSET (1 .. k + 1) |-> Step(g, x)]
  <2>2. \A x \in SUBSET (1 .. k) : h[x] = g[x]
    <3>1. SUBSET (1 .. k) \subseteq SUBSET (1 .. k + 1)
      OBVIOUS
    <3>2. QED
      BY Zenon, <2>1, <3>1
  <2>3. \A x \in SUBSET (1 .. k + 1) : x # {} => x \ {Max(x)} \in SUBSET (1 .. k)
    <3>1. TAKE x \in SUBSET (1 .. k + 1)
    <3>2. HAVE x # {}
    <3>3. k + 1 \in Nat
      OBVIOUS
    <3>4. Max(x) \in x /\ \A y \in x : y <= Max(x)
      BY Zenon, <3>2, <3>3, MaxOfIndices
    <3>5. \A m, y \in 1 .. k + 1 : y <= m /\ y # m => y \in 1 .. k
      OBVIOUS
    <3>6. \A y \in x \ {Max(x)} : y \in 1 .. k
      BY Zenon, <3>4, <3>5
    <3>7. QED
      BY Zenon, <3>6
  <2>4. \A x \in SUBSET (1 .. k + 1) : Step(h, x) = Step(g, x)
    <3> HIDE DEF h
    <3>1. QED
      BY <2>2, <2>3
  <2>5. h = [x \in SUBSET (1 .. k + 1) |-> Step(h, x)]
    <3> HIDE DEF Step
    <3>1. QED
      BY Zenon, <2>4
  <2>6. QED
    <3> HIDE DEF h, Step
    <3>1. QED
      BY <2>5
<1>3. n \in T
  <2> HIDE DEF T
  <2>1. QED
    BY <1>1, <1>2, SetInduction
<1>4. \E g : g = [x \in SUBSET DOMAIN s |-> Step(g, x)]
  BY Zenon, <1>3
<1>5. QED
  BY Zenon, <1>4 DEF SumFold

\* It adds up one element after the other.
LEMMA SumFoldSteps ==
  ASSUME NEW s, NEW n \in Nat, DOMAIN s = 1 .. n
  PROVE  /\ SumFold(s)[1 .. 0] = 0
         /\ \A k \in 1 .. n : SumFold(s)[1 .. k] = SumFold(s)[1 .. k - 1] + s[k]
<1> DEFINE g == SumFold(s)
<1>1. g = [x \in SUBSET (1 .. n) |-> IF x = {} THEN 0 ELSE g[x \ {Max(x)}] + s[Max(x)]]
  BY Zenon, SumFoldExists
<1> HIDE DEF g
<1>2. g[1 .. 0] = 0
  <2>1. 1 .. 0 = {} /\ {} \in SUBSET (1 .. n)
    OBVIOUS
  <2>2. QED
    BY <1>1, <2>1
<1>3. ASSUME NEW k \in 1 .. n PROVE g[1 .. k] = g[1 .. k - 1] + s[k]
  <2>1. 1 .. k \in SUBSET (1 .. n) /\ k \in 1 .. k /\ k \in Nat
    OBVIOUS
  <2>2. Max(1 .. k) \in 1 .. k /\ \A y \in 1 .. k : y <= Max(1 .. k)
    BY Zenon, <2>1, MaxOfIndices
  <2>3. Max(1 .. k) = k
    BY <2>1, <2>2
  <2>4. (1 .. k) \ {k} = 1 .. k - 1
    OBVIOUS
  <2>5. g[1 .. k] = g[(1 .. k) \ {Max(1 .. k)}] + s[Max(1 .. k)]
    BY Zenon, <1>1, <2>1
  <2>6. QED
    BY Zenon, <2>3, <2>4, <2>5
<1>4. QED
  BY <1>2, <1>3 DEF g

\* Bytes in front of element k + 1.
Offset(s, k) == Sum(SubSeq(s, 1, k))

SameSums(s, t, k) == SumFold(s)[1 .. k] = SumFold(t)[1 .. k]

\* What it adds up depends on the elements it adds up alone.
LEMMA SumFoldOfPrefix ==
  ASSUME NEW s, NEW n \in Nat, DOMAIN s = 1 .. n,
         NEW t, NEW m \in Nat, DOMAIN t = 1 .. m,
         NEW k \in Nat, k <= n, k <= m, \A i \in 1 .. k : s[i] = t[i]
  PROVE  SameSums(s, t, k)
<1> DEFINE T == {i \in Nat : i <= k => SumFold(s)[1 .. i] = SumFold(t)[1 .. i]}
<1>1. 0 \in T
  BY SumFoldSteps
<1>2. ASSUME NEW i \in Nat, i \in T PROVE i + 1 \in T
  <2>1. SUFFICES ASSUME i + 1 <= k PROVE SumFold(s)[1 .. i + 1] = SumFold(t)[1 .. i + 1]
    OBVIOUS
  <2>2. /\ i + 1 \in 1 .. n /\ i + 1 \in 1 .. m /\ i + 1 \in 1 .. k
        /\ (i + 1) - 1 = i /\ i <= k
    BY <2>1
  <2>3. SumFold(s)[1 .. i + 1] = SumFold(s)[1 .. i] + s[i + 1]
    BY <2>2, SumFoldSteps
  <2>4. SumFold(t)[1 .. i + 1] = SumFold(t)[1 .. i] + t[i + 1]
    BY <2>2, SumFoldSteps
  <2>5. QED
    BY <1>2, <2>2, <2>3, <2>4
<1>3. k \in T
  <2> HIDE DEF T
  <2>1. QED
    BY <1>1, <1>2, SetInduction
<1>4. QED
  BY <1>3 DEF SameSums

\* The offset behind k elements is the fold of these k.
LEMMA OffsetIsFold ==
  ASSUME NEW S, NEW s \in Seq(S), NEW k \in 0 .. Len(s)
  PROVE  Offset(s, k) = SumFold(s)[1 .. k]
<1> DEFINE t == SubSeq(s, 1, k)
<1>1. Len(s) \in Nat /\ DOMAIN s = 1 .. Len(s) /\ \A i \in 1 .. Len(s) : s[i] \in S
  BY LenProperties
<1>2. t \in Seq(S) /\ Len(t) = k /\ \A i \in 1 .. k : t[i] = s[i]
  <2>1. /\ SubSeq(s, 1, k) \in Seq(S)
        /\ Len(SubSeq(s, 1, k)) = IF 1 <= k THEN k - 1 + 1 ELSE 0
        /\ \A i \in 1 .. k - 1 + 1 : SubSeq(s, 1, k)[i] = s[1 + i - 1]
    BY <1>1, SubSeqProperties
  <2>2. QED
    BY <2>1
<1>3. DOMAIN t = 1 .. k
  BY <1>2, LenProperties
<1> HIDE DEF t
<1>4. Sum(t) = SumFold(t)[1 .. k]
  BY <1>3, SumIsFold
<1>5. SumFold(t)[1 .. k] = SumFold(s)[1 .. k]
  <2>1. SameSums(t, s, k)
    BY <1>1, <1>2, <1>3, SumFoldOfPrefix
  <2>2. QED
    BY Zenon, <2>1 DEF SameSums
<1>6. QED
  BY <1>4, <1>5 DEF Offset, t

\* Offsets grow by one element at a time, up to the sum.
LEMMA OffsetStep ==
  ASSUME NEW s \in Seq(Nat)
  PROVE  /\ Offset(s, 0) = 0
         /\ \A k \in 1 .. Len(s) : Offset(s, k) = Offset(s, k - 1) + s[k]
         /\ \A k \in 0 .. Len(s) : Offset(s, k) \in Nat
         /\ Sum(s) = Offset(s, Len(s))
<1>1. Len(s) \in Nat /\ DOMAIN s = 1 .. Len(s) /\ \A i \in 1 .. Len(s) : s[i] \in Nat
  BY LenProperties
<1>2. \A k \in 0 .. Len(s) : Offset(s, k) = SumFold(s)[1 .. k]
  BY OffsetIsFold
<1>3. Offset(s, 0) = 0
  BY <1>1, <1>2, SumFoldSteps
<1>4. ASSUME NEW k \in 1 .. Len(s) PROVE Offset(s, k) = Offset(s, k - 1) + s[k]
  <2>1. k - 1 \in 0 .. Len(s) /\ k \in 0 .. Len(s)
    BY <1>1
  <2>2. SumFold(s)[1 .. k] = SumFold(s)[1 .. k - 1] + s[k]
    BY Zenon, <1>1, SumFoldSteps
  <2>3. QED
    BY <1>2, <2>1, <2>2
<1> DEFINE T == {k \in Nat : k <= Len(s) => Offset(s, k) \in Nat}
<1>5. \A k \in 0 .. Len(s) : Offset(s, k) \in Nat
  <2>1. 0 \in T
    BY <1>3
  <2>2. ASSUME NEW k \in Nat, k \in T PROVE k + 1 \in T
    <3>1. SUFFICES ASSUME k + 1 <= Len(s) PROVE Offset(s, k + 1) \in Nat
      OBVIOUS
    <3>2. k + 1 \in 1 .. Len(s) /\ (k + 1) - 1 = k /\ k <= Len(s)
      BY <1>1, <3>1
    <3>3. Offset(s, k + 1) = Offset(s, k) + s[k + 1]
      BY <1>4, <3>2
    <3>4. QED
      BY <1>1, <2>2, <3>2, <3>3
  <2>3. Nat \subseteq T
    <3> HIDE DEF T
    <3>1. QED
      BY Zenon, <2>1, <2>2, SetInduction
  <2>4. QED
    BY <1>1, <2>3
<1>6. Sum(s) = Offset(s, Len(s))
  BY <1>1, <1>2, SumIsFold
<1>7. QED
  BY <1>3, <1>4, <1>5, <1>6

\* Offsets never get smaller.
LEMMA OffsetMonotonic ==
  ASSUME NEW s \in Seq(Nat), NEW k \in 0 .. Len(s), NEW l \in k .. Len(s)
  PROVE  Offset(s, k) <= Offset(s, l)
<1> DEFINE T == {i \in Nat : k + i <= Len(s) => Offset(s, k) <= Offset(s, k + i)}
<1>1. Len(s) \in Nat /\ \A i \in 1 .. Len(s) : s[i] \in Nat
  BY LenProperties
<1>2. 0 \in T
  BY <1>1, OffsetStep
<1>3. ASSUME NEW i \in Nat, i \in T PROVE i + 1 \in T
  <2>1. SUFFICES ASSUME k + (i + 1) <= Len(s) PROVE Offset(s, k) <= Offset(s, k + (i + 1))
    OBVIOUS
  <2>2. /\ k + (i + 1) \in 1 .. Len(s) /\ (k + (i + 1)) - 1 = k + i
        /\ k + i <= Len(s) /\ k + i \in 0 .. Len(s)
    BY <1>1, <2>1
  <2>3. Offset(s, k + (i + 1)) = Offset(s, k + i) + s[k + (i + 1)]
    BY <2>2, OffsetStep
  <2>4. Offset(s, k) <= Offset(s, k + i)
    BY <1>3, <2>2
  <2>5. Offset(s, k) \in Nat /\ Offset(s, k + i) \in Nat /\ s[k + (i + 1)] \in Nat
    BY <1>1, <2>2, OffsetStep
  <2>6. QED
    BY <2>3, <2>4, <2>5
<1>4. l - k \in T
  <2> HIDE DEF T
  <2>1. Nat \subseteq T
    BY Zenon, <1>2, <1>3, SetInduction
  <2>2. QED
    BY <1>1, <2>1
<1>5. QED
  BY <1>1, <1>4

\* Every index below the sum lies within one of the elements.
LEMMA OffsetIndex ==
  ASSUME NEW s \in Seq(Nat), NEW i \in 1 .. Sum(s)
  PROVE  \E k \in 1 .. Len(s) : \E j \in 1 .. s[k] : i = Offset(s, k - 1) + j
<1> DEFINE Found(x) == \E k \in 1 .. Len(s) : \E j \in 1 .. s[k] : x = Offset(s, k - 1) + j
<1> DEFINE T == {k \in Nat : k <= Len(s) => \A x \in 1 .. Offset(s, k) : Found(x)}
<1>1. Len(s) \in Nat /\ \A k \in 1 .. Len(s) : s[k] \in Nat
  BY LenProperties
<1>2. 0 \in T
  <2>1. 1 .. Offset(s, 0) = {}
    BY OffsetStep
  <2>2. QED
    BY <2>1
<1>3. ASSUME NEW k \in Nat, k \in T PROVE k + 1 \in T
  <2>1. SUFFICES ASSUME k + 1 <= Len(s), NEW x \in 1 .. Offset(s, k + 1) PROVE Found(x)
    OBVIOUS
  <2>2. k + 1 \in 1 .. Len(s) /\ (k + 1) - 1 = k /\ k \in 0 .. Len(s)
    BY <1>1, <2>1
  <2>3. Offset(s, k + 1) = Offset(s, k) + s[k + 1]
    BY <2>2, OffsetStep
  <2>4. Offset(s, k) \in Nat /\ s[k + 1] \in Nat
    BY <1>1, <2>2, OffsetStep
  <2>5. CASE x <= Offset(s, k)
    BY <1>3, <2>2, <2>4, <2>5
  <2>6. CASE x > Offset(s, k)
    <3>1. x - Offset(s, k) \in 1 .. s[k + 1] /\ x = Offset(s, k) + (x - Offset(s, k))
      BY SMTT(20), <2>1, <2>3, <2>4, <2>6
    <3>2. QED
      BY <2>2, <3>1
  <2>7. QED
    BY <2>4, <2>5, <2>6
<1>4. Len(s) \in T
  <2> HIDE DEF T
  <2>1. Nat \subseteq T
    BY Zenon, <1>2, <1>3, SetInduction
  <2>2. QED
    BY <1>1, <2>1
<1>5. QED
  BY <1>1, <1>4, OffsetStep

\* An index lies within one element only.
LEMMA OffsetUnique ==
  ASSUME NEW s \in Seq(Nat),
         NEW k \in 1 .. Len(s), NEW j \in 1 .. s[k],
         NEW l \in 1 .. Len(s), NEW m \in 1 .. s[l],
         Offset(s, k - 1) + j = Offset(s, l - 1) + m
  PROVE  k = l /\ j = m
<1>1. Len(s) \in Nat /\ s[k] \in Nat /\ s[l] \in Nat
  BY Zenon, LenProperties
<1>2. /\ Offset(s, k - 1) \in Nat /\ Offset(s, l - 1) \in Nat
      /\ Offset(s, k) = Offset(s, k - 1) + s[k]
      /\ Offset(s, l) = Offset(s, l - 1) + s[l]
  <2>1. k - 1 \in 0 .. Len(s) /\ l - 1 \in 0 .. Len(s)
    BY SMTT(20), <1>1
  <2>2. QED
    BY Zenon, <2>1, OffsetStep
<1> DEFINE a == Offset(s, k - 1)
           b == Offset(s, l - 1)
           c == s[k]
           d == s[l]
<1>a. a \in Nat /\ b \in Nat /\ c \in Nat /\ d \in Nat /\ j \in 1 .. c /\ m \in 1 .. d
      /\ a + j = b + m
  BY <1>1, <1>2
<1>3. CASE k < l
  <2>1. k \in 0 .. Len(s) /\ l - 1 \in k .. Len(s)
    BY <1>1, <1>3
  <2>2. a + c <= b
    BY Zenon, <1>2, <2>1, OffsetMonotonic
  <2> HIDE DEF a, b, c, d
  <2>3. QED
    BY <1>a, <2>2
<1>4. CASE l < k
  <2>1. l \in 0 .. Len(s) /\ k - 1 \in l .. Len(s)
    BY <1>1, <1>4
  <2>2. b + d <= a
    BY Zenon, <1>2, <2>1, OffsetMonotonic
  <2> HIDE DEF a, b, c, d
  <2>3. QED
    BY <1>a, <2>2
<1>5. CASE k = l
  BY <1>2, <1>5
<1>6. QED
  BY <1>3, <1>4, <1>5

Lens(ss) == [k \in DOMAIN ss |-> Len(ss[k])]

FlattenFold(ss) ==
  CHOOSE f : f = [i \in 1 .. Len(ss) |-> IF i = 1 THEN ss[i] ELSE f[i - 1] \o ss[i]]

\* FlattenSeq() of the library is the function FlattenFold at the last index.
LEMMA FlattenIsFold ==
  ASSUME NEW ss
  PROVE  FlattenSeq(ss) = IF Len(ss) = 0 THEN ss ELSE FlattenFold(ss)[Len(ss)]
BY ZenonT(20) DEF FlattenSeq, FlattenFold

\* The recursive function is defined for every length.
LEMMA FlattenFoldExists ==
  ASSUME NEW ss, Len(ss) \in Nat
  PROVE  FlattenFold(ss) = [i \in 1 .. Len(ss) |->
           IF i = 1 THEN ss[i] ELSE FlattenFold(ss)[i - 1] \o ss[i]]
<1> DEFINE Step(f, i) == IF i = 1 THEN ss[i] ELSE f[i - 1] \o ss[i]
<1> DEFINE T == {k \in Nat : \E f : f = [i \in 1 .. k |-> Step(f, i)]}
<1>1. 0 \in T
  <2>1. [i \in 1 .. 0 |-> 0] = [i \in 1 .. 0 |-> Step([j \in 1 .. 0 |-> 0], i)]
    OBVIOUS
  <2>2. QED
    BY Zenon, <2>1
<1>2. ASSUME NEW k \in Nat, k \in T PROVE k + 1 \in T
  <2>1. PICK f : f = [i \in 1 .. k |-> Step(f, i)]
    BY Zenon, <1>2
  <2> DEFINE h == [i \in 1 .. k + 1 |-> Step(f, i)]
  <2>2. \A i \in 1 .. k : h[i] = f[i]
    <3>1. 1 .. k \subseteq 1 .. k + 1
      OBVIOUS
    <3>2. QED
      BY Zenon, <2>1, <3>1
  <2>3. \A i \in 1 .. k + 1 : Step(h, i) = Step(f, i)
    <3> HIDE DEF h
    <3>1. \A i \in 1 .. k + 1 : i # 1 => i - 1 \in 1 .. k
      OBVIOUS
    <3>2. QED
      BY <2>2, <3>1
  <2>4. h = [i \in 1 .. k + 1 |-> Step(h, i)]
    <3> HIDE DEF Step
    <3>1. QED
      BY <2>3
  <2>5. QED
    <3> HIDE DEF h, Step
    <3>1. QED
      BY <2>4
<1>3. Len(ss) \in T
  <2> HIDE DEF T
  <2>1. Nat \subseteq T
    BY <1>1, <1>2, SetInduction
  <2>2. QED
    BY <2>1
<1>4. \E f : f = [i \in 1 .. Len(ss) |-> Step(f, i)]
  BY Zenon, <1>3
<1>5. QED
  BY Zenon, <1>4 DEF FlattenFold

\* What the concatenation of pieces holds, and where.
LEMMA FlattenProperties ==
  ASSUME NEW S, NEW ss \in Seq(Seq(S))
  PROVE  /\ Lens(ss) \in Seq(Nat) /\ Len(Lens(ss)) = Len(ss)
         /\ \A k \in 1 .. Len(ss) : Lens(ss)[k] = Len(ss[k])
         /\ FlattenSeq(ss) \in Seq(S)
         /\ Len(FlattenSeq(ss)) = Sum(Lens(ss))
         /\ \A k \in 1 .. Len(ss) : \A j \in 1 .. Len(ss[k]) :
              FlattenSeq(ss)[Offset(Lens(ss), k - 1) + j] = ss[k][j]
<1> DEFINE n == Len(ss)
           lens == Lens(ss)
           F == FlattenFold(ss)
<1>1. n \in Nat /\ DOMAIN ss = 1 .. n /\ \A k \in 1 .. n : ss[k] \in Seq(S) /\ Len(ss[k]) \in Nat
  BY LenProperties
<1>2. lens \in Seq(Nat) /\ Len(lens) = n /\ \A k \in 1 .. n : lens[k] = Len(ss[k])
  BY <1>1 DEF Lens
<1>3. F = [i \in 1 .. n |-> IF i = 1 THEN ss[i] ELSE F[i - 1] \o ss[i]]
  BY Zenon, <1>1, FlattenFoldExists
<1>4. \A i \in 1 .. n : F[i] = IF i = 1 THEN ss[i] ELSE F[i - 1] \o ss[i]
  <2> HIDE DEF F
  <2>1. QED
    BY Zenon, <1>3
<1> HIDE DEF F, lens, n
<1> DEFINE Right(i) == /\ F[i] \in Seq(S)
                       /\ Len(F[i]) = Offset(lens, i)
                       /\ \A k \in 1 .. i : \A j \in 1 .. Len(ss[k]) :
                            F[i][Offset(lens, k - 1) + j] = ss[k][j]
           T == {i \in Nat : i \in 1 .. n => Right(i)}
<1>5. 0 \in T
  OBVIOUS
<1>6. ASSUME NEW i \in Nat, i \in T PROVE i + 1 \in T
  <2>1. SUFFICES ASSUME i + 1 \in 1 .. n PROVE Right(i + 1)
    BY SMTT(20)
  <2>2. Offset(lens, 0) = 0 /\ Offset(lens, i + 1) = Offset(lens, i) + Len(ss[i + 1])
        /\ Offset(lens, i) \in Nat
    <3>1. i \in 0 .. n /\ (i + 1) - 1 = i
      BY <1>1, <2>1
    <3>2. QED
      BY Zenon, <1>2, <2>1, <3>1, OffsetStep
  <2>3. CASE i = 0
    <3>1. F[1] = ss[1]
      BY <1>4, <2>1, <2>3
    <3>2. \A k \in 1 .. 1 : \A j \in 1 .. Len(ss[k]) : F[1][Offset(lens, k - 1) + j] = ss[k][j]
      BY <1>1, <2>1, <2>2, <2>3, <3>1
    <3>3. QED
      BY <1>1, <2>1, <2>2, <2>3, <3>1, <3>2
  <2>4. CASE i # 0
    <3>1. i \in 1 .. n /\ i + 1 # 1 /\ (i + 1) - 1 = i
      BY <1>1, <2>1, <2>4
    <3>2. Right(i)
      BY <1>6, <3>1
    <3>3. F[i + 1] = F[i] \o ss[i + 1]
      BY Zenon, <1>4, <2>1, <3>1
    <3>4. /\ F[i + 1] \in Seq(S)
          /\ Len(F[i + 1]) = Offset(lens, i + 1)
          /\ \A x \in 1 .. Offset(lens, i) + Len(ss[i + 1]) :
               F[i + 1][x] = IF x <= Offset(lens, i) THEN F[i][x] ELSE ss[i + 1][x - Offset(lens, i)]
      <4>1. F[i] \in Seq(S) /\ ss[i + 1] \in Seq(S)
        BY <1>1, <2>1, <3>2
      <4>2. /\ F[i] \o ss[i + 1] \in Seq(S)
            /\ Len(F[i] \o ss[i + 1]) = Len(F[i]) + Len(ss[i + 1])
            /\ \A x \in 1 .. Len(F[i]) + Len(ss[i + 1]) : (F[i] \o ss[i + 1])[x] =
                 IF x <= Len(F[i]) THEN F[i][x] ELSE ss[i + 1][x - Len(F[i])]
        BY Zenon, <4>1, ConcatProperties
      <4>3. QED
        BY Zenon, <2>2, <3>2, <3>3, <4>2
    <3>5. ASSUME NEW k \in 1 .. i + 1, NEW j \in 1 .. Len(ss[k])
          PROVE  F[i + 1][Offset(lens, k - 1) + j] = ss[k][j]
      <4>1. k \in 1 .. n /\ k - 1 \in 0 .. n
        BY <1>1, <2>1
      <4>2. Offset(lens, k) = Offset(lens, k - 1) + Len(ss[k]) /\ Offset(lens, k - 1) \in Nat
            /\ Len(ss[k]) \in Nat
        BY Zenon, <1>1, <1>2, <4>1, OffsetStep
      <4>3. CASE k = i + 1
        <5>1. Offset(lens, k - 1) = Offset(lens, i)
          BY <4>3, <3>1
        <5>2. /\ Offset(lens, i) + j \in 1 .. Offset(lens, i) + Len(ss[i + 1])
              /\ ~ (Offset(lens, i) + j <= Offset(lens, i))
              /\ (Offset(lens, i) + j) - Offset(lens, i) = j
          BY SMTT(20), <2>2, <4>2, <4>3
        <5>3. QED
          BY Zenon, <3>4, <4>3, <5>1, <5>2
      <4>4. CASE k # i + 1
        <5>1. k \in 1 .. i /\ i \in k .. n
          BY <3>1, <4>4
        <5>2. Offset(lens, k) <= Offset(lens, i)
          BY <1>2, <4>1, <5>1, OffsetMonotonic
        <5>3. Offset(lens, k - 1) + j \in 1 .. Offset(lens, i)
          BY SMTT(20), <2>2, <4>2, <5>2
        <5>4. Offset(lens, k - 1) + j \in 1 .. Offset(lens, i) + Len(ss[i + 1])
          BY <1>1, <2>1, <2>2, <5>3
        <5>5. QED
          <6>1. F[i + 1][Offset(lens, k - 1) + j] = F[i][Offset(lens, k - 1) + j]
            <7>1. Offset(lens, k - 1) + j <= Offset(lens, i)
              BY <2>2, <5>3
            <7>2. QED
              BY Zenon, <3>4, <5>4, <7>1
          <6>2. QED
            BY Zenon, <3>2, <5>1, <6>1
      <4>5. QED
        BY <4>3, <4>4
    <3>6. QED
      BY <3>4, <3>5
  <2>5. QED
    BY <2>3, <2>4
<1>7. n \in T
  <2> HIDE DEF T
  <2>1. Nat \subseteq T
    BY Zenon, <1>5, <1>6, SetInduction
  <2>2. QED
    BY <1>1, <2>1
<1>8. CASE n = 0
  <2>1. ss = <<>> /\ FlattenSeq(ss) = <<>>
    BY <1>1, <1>8, FlattenIsFold, EmptySeq DEF n
  <2>2. Sum(lens) = 0
    BY Zenon, <1>2, <1>8, OffsetStep
  <2>3. QED
    BY <1>2, <1>8, <2>1, <2>2, EmptySeq DEF n, lens
<1>9. CASE n # 0
  <2>1. n \in 1 .. n
    BY <1>1, <1>9
  <2>2. Right(n)
    BY Zenon, <1>7, <2>1
  <2>3. FlattenSeq(ss) = F[n]
    BY <1>9, FlattenIsFold DEF n, F
  <2>4. Sum(lens) = Offset(lens, n)
    BY <1>2, OffsetStep
  <2>5. QED
    BY <1>2, <2>2, <2>3, <2>4 DEF n, lens
<1>10. QED
  BY <1>8, <1>9

\* Sequences that begin alike have equal offsets.
LEMMA SumOfEqual ==
  ASSUME NEW s \in Seq(Nat), NEW t \in Seq(Nat), NEW k \in Nat, k <= Len(s), k <= Len(t),
         \A i \in 1 .. k : s[i] = t[i]
  PROVE  Offset(s, k) = Offset(t, k)
<1>1. /\ Len(s) \in Nat /\ DOMAIN s = 1 .. Len(s)
      /\ Len(t) \in Nat /\ DOMAIN t = 1 .. Len(t)
  BY LenProperties
<1>2. k \in 0 .. Len(s) /\ k \in 0 .. Len(t)
  BY <1>1
<1>3. SumFold(s)[1 .. k] = SumFold(t)[1 .. k]
  <2>1. PICK n \in Nat : n = Len(s)
    BY <1>1
  <2>2. PICK m \in Nat : m = Len(t)
    BY <1>1
  <2>3. DOMAIN s = 1 .. n /\ DOMAIN t = 1 .. m /\ k <= n /\ k <= m
    BY Zenon, <1>1, <2>1, <2>2
  <2>4. QED
    <3>1. SameSums(s, t, k)
      BY <2>3, SumFoldOfPrefix
    <3>2. QED
      BY Zenon, <3>1 DEF SameSums
<1>4. QED
  BY <1>2, <1>3, OffsetIsFold

\* Every byte of a flattened sequence comes out of one of its parts.
LEMMA FlattenIndex ==
  ASSUME NEW S, NEW ss \in Seq(Seq(S)), NEW i \in 1 .. Len(FlattenSeq(ss))
  PROVE  \E k \in 1 .. Len(ss) : \E j \in 1 .. Len(ss[k]) : i = Offset(Lens(ss), k - 1) + j
<1>1. /\ Lens(ss) \in Seq(Nat) /\ Len(Lens(ss)) = Len(ss)
      /\ \A k \in 1 .. Len(ss) : Lens(ss)[k] = Len(ss[k])
      /\ Len(FlattenSeq(ss)) = Sum(Lens(ss))
  BY Zenon, FlattenProperties
<1>2. PICK k \in 1 .. Len(Lens(ss)) : \E j \in 1 .. Lens(ss)[k] : i = Offset(Lens(ss), k - 1) + j
  BY <1>1, OffsetIndex
<1>3. QED
  BY Zenon, <1>1, <1>2

\* A sequence that holds every part at its offset is the flattened one.
LEMMA FlattenUnique ==
  ASSUME NEW S, NEW ss \in Seq(Seq(S)), NEW t \in Seq(S),
         Len(t) = Sum(Lens(ss)),
         \A k \in 1 .. Len(ss) : \A j \in 1 .. Len(ss[k]) :
           t[Offset(Lens(ss), k - 1) + j] = ss[k][j]
  PROVE  t = FlattenSeq(ss)
<1>1. /\ FlattenSeq(ss) \in Seq(S)
      /\ Len(FlattenSeq(ss)) = Sum(Lens(ss))
      /\ \A k \in 1 .. Len(ss) : \A j \in 1 .. Len(ss[k]) :
           FlattenSeq(ss)[Offset(Lens(ss), k - 1) + j] = ss[k][j]
  BY FlattenProperties
<1>2. ASSUME NEW i \in 1 .. Len(t) PROVE t[i] = FlattenSeq(ss)[i]
  <2>1. PICK k \in 1 .. Len(ss) : \E j \in 1 .. Len(ss[k]) : i = Offset(Lens(ss), k - 1) + j
    <3>1. i \in 1 .. Len(FlattenSeq(ss))
      BY <1>1
    <3>2. QED
      BY <3>1, FlattenIndex
  <2>2. PICK j \in 1 .. Len(ss[k]) : i = Offset(Lens(ss), k - 1) + j
    BY <2>1
  <2>3. QED
    BY Zenon, <1>1, <2>2
<1>3. QED
  BY <1>1, <1>2, SeqEqual

\* Cutting at a part's offset, as many bytes as it has, yields the part.
LEMMA FlattenSlice ==
  ASSUME NEW S, NEW ss \in Seq(Seq(S)), NEW k \in 1 .. Len(ss)
  PROVE  SubSeq(FlattenSeq(ss), Offset(Lens(ss), k - 1) + 1, Offset(Lens(ss), k - 1) + Len(ss[k])) = ss[k]
<1> DEFINE F == FlattenSeq(ss)
           o == Offset(Lens(ss), k - 1)
           n == Len(ss[k])
           t == SubSeq(F, o + 1, o + n)
<1>1. /\ Lens(ss) \in Seq(Nat) /\ Len(Lens(ss)) = Len(ss)
      /\ Lens(ss)[k] = Len(ss[k])
      /\ F \in Seq(S) /\ Len(F) = Sum(Lens(ss))
      /\ \A j \in 1 .. n : F[o + j] = ss[k][j]
  BY FlattenProperties
<1>2. ss[k] \in Seq(S) /\ n \in Nat /\ Len(ss) \in Nat /\ DOMAIN ss[k] = 1 .. n
      /\ \A j \in 1 .. n : ss[k][j] \in S
  BY LenProperties
<1>3. o \in Nat
  <2>1. k - 1 \in 0 .. Len(Lens(ss))
    BY <1>1, <1>2
  <2>2. QED
    BY Zenon, <1>1, <2>1, OffsetStep
<1> HIDE DEF F, o, n
<1>4. o + 1 \in Int /\ o + n \in Int /\ \A i \in o + 1 .. o + n : F[i] \in S
  <2>1. \A i \in o + 1 .. o + n : i - o \in 1 .. n /\ i = o + (i - o)
    BY <1>2, <1>3
  <2>2. ASSUME NEW i \in o + 1 .. o + n PROVE F[i] \in S
    <3>1. i - o \in 1 .. n /\ i = o + (i - o)
      BY <2>1
    <3>2. F[o + (i - o)] = ss[k][i - o] /\ ss[k][i - o] \in S
      BY Zenon, <1>1, <1>2, <3>1
    <3>3. QED
      BY <3>1, <3>2
  <2>3. QED
    BY <1>2, <1>3, <2>2
<1>5. /\ t \in Seq(S)
      /\ Len(t) = IF o + 1 <= o + n THEN (o + n) - (o + 1) + 1 ELSE 0
      /\ \A i \in 1 .. (o + n) - (o + 1) + 1 : t[i] = F[(o + 1) + i - 1]
  BY SMTT(20), <1>4, SubSeqProperties
<1>6. Len(t) = n
  BY <1>2, <1>3, <1>5
<1>7. \A i \in 1 .. n : t[i] = ss[k][i]
  <2>1. \A i \in 1 .. n : i \in 1 .. (o + n) - (o + 1) + 1 /\ (o + 1) + i - 1 = o + i
    BY <1>2, <1>3
  <2>2. QED
    BY Zenon, <1>1, <1>5, <2>1
<1>8. t = ss[k]
  <2>1. t \in Seq(S) /\ Len(t) = Len(ss[k]) /\ \A i \in 1 .. Len(t) : t[i] = ss[k][i]
    BY Zenon, <1>5, <1>6, <1>7 DEF n
  <2> HIDE DEF t
  <2>2. QED
    BY <1>2, <2>1, SeqEqual
<1>9. QED
  BY <1>8 DEF t, F, o, n

\* The first n elements of a sequence are a sequence of n elements.
LEMMA SubSeqPrefix ==
  ASSUME NEW S, NEW s \in Seq(S), NEW n \in 0 .. Len(s)
  PROVE  SubSeq(s, 1, n) \in Seq(S) /\ Len(SubSeq(s, 1, n)) = n /\ \A i \in 1 .. n : SubSeq(s, 1, n)[i] = s[i]
<1>1. Len(s) \in Nat /\ \A i \in 1 .. Len(s) : s[i] \in S
  BY LenProperties
<1>2. /\ SubSeq(s, 1, n) \in Seq(S)
      /\ Len(SubSeq(s, 1, n)) = IF 1 <= n THEN n - 1 + 1 ELSE 0
      /\ \A i \in 1 .. n - 1 + 1 : SubSeq(s, 1, n)[i] = s[1 + i - 1]
  BY <1>1, SubSeqProperties
<1>3. QED
  BY <1>1, <1>2

\* An index of a longer prefix is one of the shorter one or the last.
LEMMA WithinOneMore ==
  ASSUME NEW n \in Nat, NEW k \in 0 .. n, NEW i \in 1 .. k
  PROVE  i \in 1 .. n /\ i \in 1 .. n + 1
OBVIOUS

\* One more part is appended to what the others are flattened to.
LEMMA FlattenLast ==
  ASSUME NEW S, NEW ss \in Seq(Seq(S)), NEW tt \in Seq(Seq(S)),
         Len(tt) = Len(ss) + 1, \A k \in 1 .. Len(ss) : tt[k] = ss[k]
  PROVE  FlattenSeq(tt) = FlattenSeq(ss) \o tt[Len(ss) + 1]
<1> DEFINE n == Len(ss)
           a == Lens(ss)
           b == Lens(tt)
           F == FlattenSeq(ss)
           t == F \o tt[n + 1]
<1>1. n \in Nat /\ tt[n + 1] \in Seq(S) /\ Len(tt[n + 1]) \in Nat /\ n + 1 \in 1 .. Len(tt)
      /\ \A k \in 1 .. n + 1 : tt[k] \in Seq(S) /\ Len(tt[k]) \in Nat
  BY LenProperties
<1>2. /\ a \in Seq(Nat) /\ Len(a) = n /\ \A k \in 1 .. n : a[k] = Len(ss[k])
      /\ F \in Seq(S) /\ Len(F) = Sum(a)
      /\ \A k \in 1 .. n : \A j \in 1 .. Len(ss[k]) : F[Offset(a, k - 1) + j] = ss[k][j]
  BY ZenonT(20), FlattenProperties
<1>3. b \in Seq(Nat) /\ Len(b) = n + 1 /\ \A k \in 1 .. n + 1 : b[k] = Len(tt[k])
  BY SMTT(20), FlattenProperties
<1> HIDE DEF n, a, b, F
<1>4. \A k \in 0 .. n : Offset(a, k) = Offset(b, k) /\ Offset(a, k) \in Nat
  <2>1. TAKE k \in 0 .. n
  <2>2. k \in Nat /\ k <= Len(a) /\ k <= Len(b) /\ \A i \in 1 .. k : a[i] = b[i]
    <3>1. \A i \in 1 .. k : i \in 1 .. n /\ i \in 1 .. n + 1
      BY Zenon, <1>1, WithinOneMore
    <3>2. \A i \in 1 .. n : tt[i] = ss[i]
      BY Zenon DEF n
    <3>3. k \in Nat /\ k <= n /\ k <= n + 1
      BY <1>1
    <3>4. QED
      BY ZenonT(40), <1>2, <1>3, <3>1, <3>2, <3>3
  <2>3. QED
    BY ZenonT(20), <1>1, <1>2, <1>3, <2>2, SumOfEqual, OffsetStep
<1>5. Len(F) = Offset(b, n) /\ Len(F) \in Nat
  <2>1. Sum(a) = Offset(a, n)
    BY <1>2, OffsetStep
  <2>2. QED
    BY <1>1, <1>2, <1>4, <2>1
<1>6. Sum(b) = Offset(b, n) + Len(tt[n + 1])
  <2>1. n + 1 \in 1 .. Len(b) /\ (n + 1) - 1 = n
    BY <1>1, <1>3
  <2>2. Sum(b) = Offset(b, n + 1) /\ Offset(b, n + 1) = Offset(b, (n + 1) - 1) + b[n + 1]
    BY Zenon, <1>3, <2>1, OffsetStep
  <2>3. QED
    BY <1>1, <1>3, <2>1, <2>2
<1>7. /\ t \in Seq(S)
      /\ Len(t) = Len(F) + Len(tt[n + 1])
      /\ \A i \in 1 .. Len(F) + Len(tt[n + 1]) : t[i] = IF i <= Len(F) THEN F[i] ELSE tt[n + 1][i - Len(F)]
  <2>1. F \in Seq(S) /\ tt[n + 1] \in Seq(S)
    BY <1>1, <1>2
  <2>2. QED
    BY <2>1, ConcatProperties
<1>8. ASSUME NEW k \in 1 .. n + 1, NEW j \in 1 .. Len(tt[k])
      PROVE  t[Offset(b, k - 1) + j] = tt[k][j]
  <2>1. CASE k = n + 1
    <3>1. Offset(b, k - 1) = Len(F)
      BY <1>1, <1>5, <2>1
    <3>2. /\ Len(F) + j \in 1 .. Len(F) + Len(tt[n + 1])
          /\ ~ (Len(F) + j <= Len(F)) /\ (Len(F) + j) - Len(F) = j
      BY <1>1, <1>5, <2>1
    <3>3. QED
      BY Zenon, <1>7, <2>1, <3>1, <3>2
  <2>2. CASE k # n + 1
    <3>1. k \in 1 .. n /\ k - 1 \in 0 .. n /\ k \in 0 .. n /\ n \in k .. n
      BY <1>1, <2>2
    <3>2. tt[k] = ss[k] /\ Len(tt[k]) \in Nat
      BY Zenon, <1>1, <3>1 DEF n
    <3>3. Offset(a, k) = Offset(a, k - 1) + Len(ss[k]) /\ Offset(a, k) <= Offset(a, n)
      <4>1. Offset(a, k) = Offset(a, k - 1) + a[k] /\ a[k] = Len(ss[k])
        BY Zenon, <1>2, <3>1, OffsetStep
      <4>2. k \in 0 .. Len(a) /\ n \in k .. Len(a)
        BY <1>2, <3>1
      <4>3. QED
        BY Zenon, <1>2, <4>1, <4>2, OffsetMonotonic
    <3>4. Offset(b, k - 1) = Offset(a, k - 1) /\ Offset(a, k - 1) \in Nat /\ Offset(a, n) = Len(F)
      <4>1. n \in 0 .. n
        BY <1>1
      <4>2. Offset(b, k - 1) = Offset(a, k - 1) /\ Offset(a, k - 1) \in Nat
        BY <1>4, <3>1
      <4>3. Offset(b, n) = Offset(a, n)
        BY <1>4, <4>1
      <4>4. QED
        BY <1>5, <4>2, <4>3
    <3>5. /\ Offset(a, k - 1) + j \in 1 .. Len(F) + Len(tt[n + 1])
          /\ Offset(a, k - 1) + j <= Len(F)
      <4> DEFINE o == Offset(a, k - 1)
                 c == Len(tt[k])
                 m == Len(F)
                 d == Len(tt[n + 1])
      <4>1. o \in Nat /\ c \in Nat /\ m \in Nat /\ d \in Nat /\ j \in 1 .. c
        BY Zenon, <1>1, <1>5, <3>2, <3>4
      <4>2. o + c <= m
        BY <3>2, <3>3, <3>4
      <4> HIDE DEF o, c, m, d
      <4>3. o + j \in 1 .. m + d /\ o + j <= m
        BY <4>1, <4>2
      <4>4. QED
        BY <4>3 DEF o, c, m, d
    <3>6. t[Offset(a, k - 1) + j] = F[Offset(a, k - 1) + j]
      BY <1>7, <3>5
    <3>7. F[Offset(a, k - 1) + j] = ss[k][j]
      BY Zenon, <1>2, <3>1, <3>2
    <3>8. QED
      BY Zenon, <3>2, <3>4, <3>6, <3>7
  <2>3. QED
    BY Zenon, <2>1, <2>2
<1>9. t = FlattenSeq(tt)
  <2>1. /\ t \in Seq(S) /\ Len(t) = Sum(Lens(tt))
        /\ \A k \in 1 .. Len(tt) : \A j \in 1 .. Len(tt[k]) : t[Offset(Lens(tt), k - 1) + j] = tt[k][j]
    <3> HIDE DEF t
    <3>1. QED
      BY <1>5, <1>6, <1>7, <1>8 DEF b, n
  <2> HIDE DEF t
  <2>2. QED
    BY Zenon, <2>1, FlattenUnique
<1>10. QED
  BY <1>9 DEF t, F, n

\* A first element that is larger shifts every offset.
LEMMA OffsetShift ==
  ASSUME NEW a \in Seq(Nat), NEW b \in Seq(Nat), NEW c \in Nat, Len(b) = Len(a), Len(a) > 0,
         b[1] = a[1] + c, \A k \in 2 .. Len(a) : b[k] = a[k]
  PROVE  \A k \in 1 .. Len(a) : Offset(b, k) = Offset(a, k) + c
<1> DEFINE T == {i \in Nat : i \in 1 .. Len(a) => Offset(b, i) = Offset(a, i) + c}
<1>1. Len(a) \in Nat /\ \A k \in 1 .. Len(a) : a[k] \in Nat /\ b[k] \in Nat
  BY Zenon, LenProperties
<1>2. 0 \in T
  OBVIOUS
<1>3. ASSUME NEW i \in Nat, i \in T PROVE i + 1 \in T
  <2>1. SUFFICES ASSUME i + 1 \in 1 .. Len(a) PROVE Offset(b, i + 1) = Offset(a, i + 1) + c
    OBVIOUS
  <2>2. (i + 1) - 1 = i /\ i \in 0 .. Len(a) /\ a[i + 1] \in Nat
    BY <1>1, <2>1
  <2>3. /\ Offset(a, i + 1) = Offset(a, i) + a[i + 1]
        /\ Offset(b, i + 1) = Offset(b, i) + b[i + 1]
        /\ Offset(a, i) \in Nat /\ Offset(b, i) \in Nat
        /\ Offset(a, 0) = 0 /\ Offset(b, 0) = 0
    BY Zenon, <2>1, <2>2, OffsetStep
  <2>4. CASE i = 0
    BY <1>1, <2>2, <2>3, <2>4
  <2>5. CASE i # 0
    <3>1. i \in 1 .. Len(a) /\ i + 1 \in 2 .. Len(a)
      BY <1>1, <2>1, <2>5
    <3>2. b[i + 1] = a[i + 1] /\ Offset(b, i) = Offset(a, i) + c
      BY <1>3, <3>1
    <3>3. QED
      BY SMTT(20), <2>2, <2>3, <3>2
  <2>6. QED
    BY <2>4, <2>5
<1>4. Nat \subseteq T
  <2> HIDE DEF T
  <2>1. QED
    BY Zenon, <1>2, <1>3, SetInduction
<1>5. QED
  BY <1>1, <1>4

\* What is put in front of the first part comes in front of all.
LEMMA FlattenPrepend ==
  ASSUME NEW S, NEW ss \in Seq(Seq(S)), NEW x \in Seq(S), Len(ss) > 0
  PROVE  /\ [ss EXCEPT ![1] = x \o ss[1]] \in Seq(Seq(S))
         /\ x \o FlattenSeq(ss) = FlattenSeq([ss EXCEPT ![1] = x \o ss[1]])
<1> DEFINE n == Len(ss)
           tt == [ss EXCEPT ![1] = x \o ss[1]]
           a == Lens(ss)
           b == Lens(tt)
           c == Len(x)
           F == FlattenSeq(ss)
           t == x \o F
<1>1. /\ n \in Nat /\ 1 \in 1 .. n /\ c \in Nat
      /\ \A k \in 1 .. n : ss[k] \in Seq(S) /\ Len(ss[k]) \in Nat
  BY LenProperties
<1>2. /\ x \o ss[1] \in Seq(S)
      /\ Len(x \o ss[1]) = c + Len(ss[1])
      /\ \A i \in 1 .. c + Len(ss[1]) : (x \o ss[1])[i] = IF i <= c THEN x[i] ELSE ss[1][i - c]
  BY <1>1, ConcatProperties
<1>3. /\ tt \in Seq(Seq(S)) /\ Len(tt) = n
      /\ \A k \in 1 .. n : tt[k] = IF k = 1 THEN x \o ss[1] ELSE ss[k]
  <2>1. 1 \in 1 .. Len(ss) /\ x \o ss[1] \in Seq(S)
    BY <1>1, <1>2
  <2>2. QED
    BY <2>1, ExceptSeq
<1>4. /\ a \in Seq(Nat) /\ Len(a) = n /\ \A k \in 1 .. n : a[k] = Len(ss[k])
      /\ F \in Seq(S) /\ Len(F) = Sum(a)
      /\ \A k \in 1 .. n : \A j \in 1 .. Len(ss[k]) : F[Offset(a, k - 1) + j] = ss[k][j]
  BY FlattenProperties
<1> HIDE DEF tt
<1>5. b \in Seq(Nat) /\ Len(b) = n /\ \A k \in 1 .. n : b[k] = Len(tt[k])
  BY <1>3, FlattenProperties
<1> HIDE DEF n, a, b, c, F
<1>6. \A k \in 1 .. n : Offset(b, k) = Offset(a, k) + c
  <2>1. Len(b) = Len(a) /\ Len(a) > 0
    BY <1>1, <1>4, <1>5
  <2>2. b[1] = a[1] + c
    <3>1. a[1] = Len(ss[1]) /\ b[1] = Len(x \o ss[1]) /\ Len(x \o ss[1]) = c + Len(ss[1])
      BY Zenon, <1>1, <1>2, <1>3, <1>4, <1>5
    <3>2. PICK l \in Nat : l = Len(ss[1])
      BY <1>1
    <3>3. b[1] = c + l /\ a[1] = l /\ c \in Nat
      BY Zenon, <1>1, <3>1, <3>2
    <3>4. QED
      BY <3>3
  <2>3. \A k \in 2 .. Len(a) : b[k] = a[k]
    <3>1. TAKE k \in 2 .. Len(a)
    <3>2. k \in 1 .. n /\ k # 1
      BY <1>1, <1>4
    <3>3. QED
      BY ZenonT(40), <1>3, <1>4, <1>5, <3>2
  <2>4. c \in Nat
    BY <1>1
  <2>5. QED
    <3>1. \A k \in 1 .. Len(a) : Offset(b, k) = Offset(a, k) + c
      BY Zenon, <1>4, <1>5, <2>1, <2>2, <2>3, <2>4, OffsetShift
    <3>2. QED
      BY <1>4, <3>1
<1>7. Len(F) = Offset(a, n) /\ Sum(b) = Offset(b, n) /\ Len(F) \in Nat
      /\ Offset(a, 0) = 0 /\ Offset(b, 0) = 0
  BY <1>1, <1>4, <1>5, OffsetStep
<1>8. /\ t \in Seq(S)
      /\ Len(t) = c + Len(F)
      /\ \A i \in 1 .. c + Len(F) : t[i] = IF i <= c THEN x[i] ELSE F[i - c]
  <2>1. /\ x \o F \in Seq(S)
        /\ Len(x \o F) = Len(x) + Len(F)
        /\ \A i \in 1 .. Len(x) + Len(F) : (x \o F)[i] = IF i <= Len(x) THEN x[i] ELSE F[i - Len(x)]
    <3>1. F \in Seq(S)
      BY <1>4
    <3>2. QED
      BY <3>1, ConcatProperties
  <2>2. QED
    BY <2>1 DEF c
<1>9. ASSUME NEW k \in 1 .. n, NEW j \in 1 .. Len(tt[k])
      PROVE  t[Offset(b, k - 1) + j] = tt[k][j]
  <2>1. /\ Offset(a, k) = Offset(a, k - 1) + a[k] /\ a[k] = Len(ss[k])
        /\ Offset(a, k - 1) \in Nat /\ Offset(a, k) \in Nat /\ Len(ss[k]) \in Nat
    <3>1. k \in 1 .. Len(a) /\ k - 1 \in 0 .. Len(a) /\ k \in 0 .. Len(a)
      BY <1>1, <1>4
    <3>2. QED
      BY Zenon, <1>1, <1>4, <3>1, OffsetStep
  <2>2. Offset(a, k) <= Len(F)
    <3>1. k \in 0 .. Len(a) /\ n \in k .. Len(a)
      BY <1>1, <1>4
    <3>2. QED
      BY Zenon, <1>4, <1>7, <3>1, OffsetMonotonic
  <2> DEFINE o == Offset(a, k - 1)
             m == Len(F)
             d == Len(ss[k])
  <2>3. /\ o \in Nat /\ m \in Nat /\ d \in Nat /\ c \in Nat /\ o + d <= m
    BY <1>1, <1>7, <2>1, <2>2
  <2>4. \A i \in 1 .. d : F[o + i] = ss[k][i]
    BY Zenon, <1>4
  <2>5. CASE k = 1
    <3>1. o = 0 /\ Offset(b, k - 1) = 0
      BY <1>7, <2>5
    <3>2. tt[k] = x \o ss[1] /\ Len(tt[k]) = c + d
      BY Zenon, <1>1, <1>2, <1>3, <2>5
    <3> HIDE DEF o, m, d
    <3>3. j \in 1 .. c + m /\ j \in 1 .. c + d
      BY <2>3, <3>1, <3>2
    <3>4. tt[k][j] = IF j <= c THEN x[j] ELSE ss[1][j - c]
      BY <1>2, <2>5, <3>2, <3>3 DEF d
    <3>5. t[j] = IF j <= c THEN x[j] ELSE F[j - c]
      BY <1>8, <3>3 DEF m
    <3>6. j > c => j - c \in 1 .. d /\ o + (j - c) = j - c
      BY <2>3, <3>1, <3>3
    <3>7. Offset(b, k - 1) + j = j
      BY <2>3, <3>1, <3>3
    <3> HIDE DEF t
    <3>8. CASE j <= c
      BY <3>4, <3>5, <3>7, <3>8
    <3>9. CASE j > c
      <4>1. F[o + (j - c)] = ss[k][j - c] /\ o + (j - c) = j - c
        BY Zenon, <2>4, <3>6, <3>9
      <4>2. ~ (j <= c)
        BY <2>3, <3>3, <3>9
      <4>3. t[j] = F[j - c] /\ tt[k][j] = ss[1][j - c]
        BY <3>4, <3>5, <4>2
      <4>4. QED
        BY <2>5, <3>7, <4>1, <4>3
    <3>10. QED
      BY <2>3, <3>3, <3>8, <3>9
  <2>6. CASE k # 1
    <3>1. tt[k] = ss[k]
      BY <1>3, <2>6
    <3>2. k - 1 \in 1 .. n
      BY <1>1, <2>6
    <3>3. Offset(b, k - 1) = o + c
      BY <1>6, <3>2
    <3>4. j \in 1 .. d
      BY <3>1
    <3> HIDE DEF o, m, d
    <3>5. (o + c) + j \in 1 .. c + m /\ ~ ((o + c) + j <= c) /\ ((o + c) + j) - c = o + j
      BY <2>3, <3>4
    <3>6. t[(o + c) + j] = F[o + j]
      BY Zenon, <1>8, <3>5 DEF m
    <3>7. QED
      BY Zenon, <2>4, <3>1, <3>3, <3>4, <3>6
  <2>7. QED
    BY Zenon, <2>5, <2>6
<1>10. Len(t) = Sum(b)
  <2>1. n \in 1 .. n
    BY <1>1 DEF n
  <2>2. Offset(b, n) = Offset(a, n) + c
    BY <1>6, <2>1
  <2>3. QED
    BY <1>1, <1>7, <1>8, <2>2
<1>11. t = FlattenSeq(tt)
  <2>1. \A k \in 1 .. Len(tt) : \A j \in 1 .. Len(tt[k]) : t[Offset(b, k - 1) + j] = tt[k][j]
    BY Zenon, <1>3, <1>9
  <2> HIDE DEF t
  <2>2. QED
    BY Zenon, <1>3, <1>8, <1>10, <2>1, FlattenUnique DEF b
<1>12. QED
  BY <1>3, <1>11 DEF tt, t, F

\* A function on 1 .. n is a sequence of n elements.
LEMMA FunctionIsSeq ==
  ASSUME NEW S, NEW n \in Nat, NEW f \in [1 .. n -> S]
  PROVE  f \in Seq(S) /\ Len(f) = n
OBVIOUS

SizesIn(s) == [j \in DOMAIN s |-> s[j][1] + s[j][2]]

\* Size() adds up the clear and the cipher bytes of the subsamples.
LEMMA SizesInType ==
  ASSUME NEW s \in Seq(Nat \X Nat)
  PROVE  /\ SizesIn(s) \in Seq(Nat) /\ Len(SizesIn(s)) = Len(s)
         /\ \A j \in 1 .. Len(s) : SizesIn(s)[j] = s[j][1] + s[j][2] /\ s[j][1] \in Nat /\ s[j][2] \in Nat
         /\ Size(s) = Sum(SizesIn(s)) /\ Size(s) \in Nat
<1>1. Len(s) \in Nat /\ DOMAIN s = 1 .. Len(s) /\ \A j \in 1 .. Len(s) : s[j] \in Nat \X Nat
  BY LenProperties
<1>2. \A j \in 1 .. Len(s) : s[j][1] \in Nat /\ s[j][2] \in Nat
  BY <1>1
<1>3. SizesIn(s) \in [1 .. Len(s) -> Nat]
  BY <1>1, <1>2 DEF SizesIn
<1>4. SizesIn(s) \in Seq(Nat) /\ Len(SizesIn(s)) = Len(s)
  BY Zenon, <1>1, <1>3, FunctionIsSeq
<1>5. Size(s) = Sum(SizesIn(s))
  BY DEF Size, SizesIn
<1>6. Sum(SizesIn(s)) \in Nat
  BY <1>1, <1>4, OffsetStep
<1>7. QED
  BY <1>1, <1>2, <1>4, <1>5, <1>6 DEF SizesIn

\* Size() of the entries in front of one is the offset of the bytes it describes.
LEMMA SizeOfPrefix ==
  ASSUME NEW s \in Seq(Nat \X Nat), NEW k \in 0 .. Len(s)
  PROVE  Size(SubSeq(s, 1, k)) = Offset(SizesIn(s), k)
<1> DEFINE t == SubSeq(s, 1, k)
<1>1. t \in Seq(Nat \X Nat) /\ Len(t) = k /\ \A i \in 1 .. k : t[i] = s[i]
  BY SubSeqPrefix
<1>2. Len(s) \in Nat /\ k \in Nat /\ k <= Len(s)
  BY LenProperties
<1> HIDE DEF t
<1>3. /\ SizesIn(t) \in Seq(Nat) /\ Len(SizesIn(t)) = k /\ Size(t) = Sum(SizesIn(t))
      /\ \A j \in 1 .. k : SizesIn(t)[j] = t[j][1] + t[j][2]
  BY Zenon, <1>1, SizesInType
<1>4. /\ SizesIn(s) \in Seq(Nat) /\ Len(SizesIn(s)) = Len(s)
      /\ \A j \in 1 .. Len(s) : SizesIn(s)[j] = s[j][1] + s[j][2]
  BY SizesInType
<1>5. \A j \in 1 .. k : SizesIn(t)[j] = SizesIn(s)[j]
  <2>1. \A j \in 1 .. k : j \in 1 .. Len(s)
    BY <1>2
  <2>2. QED
    BY Zenon, <1>1, <1>3, <1>4, <2>1
<1>6. Offset(SizesIn(t), k) = Offset(SizesIn(s), k)
  <2>1. /\ SizesIn(t) \in Seq(Nat) /\ SizesIn(s) \in Seq(Nat) /\ k \in Nat
        /\ k <= Len(SizesIn(t)) /\ k <= Len(SizesIn(s))
    BY <1>2, <1>3, <1>4
  <2>2. QED
    BY <1>5, <2>1, SumOfEqual
<1>7. Sum(SizesIn(t)) = Offset(SizesIn(t), k)
  BY <1>3, OffsetStep
<1>8. QED
  BY <1>3, <1>6, <1>7 DEF t

\* The size of one subsample is the sum of its clear and its cipher bytes.
LEMMA SizeOfOne ==
  ASSUME NEW w \in Seq(Nat \X Nat), Len(w) = 1
  PROVE  Size(w) = w[1][1] + w[1][2]
<1> DEFINE a == SizesIn(w)
<1>1. 1 \in 1 .. Len(w) /\ 1 - 1 = 0
  OBVIOUS
<1>2. a \in Seq(Nat) /\ Len(a) = 1 /\ Size(w) = Sum(a)
      /\ a[1] = w[1][1] + w[1][2] /\ w[1][1] \in Nat /\ w[1][2] \in Nat
  BY Zenon, <1>1, SizesInType
<1> HIDE DEF a
<1>3. Sum(a) = Offset(a, 1) /\ Offset(a, 1) = Offset(a, 0) + a[1] /\ Offset(a, 0) = 0
  <2>1. 1 \in 1 .. Len(a)
    BY <1>2
  <2>2. QED
    BY Zenon, <1>1, <1>2, <2>1, OffsetStep
<1>4. QED
  BY <1>2, <1>3

\* With clear bytes in front and encrypted ones behind, the entry says what a byte is.
LEMMA WithinItem ==
  ASSUME NEW o \in Nat, NEW c \in Nat, NEW d \in Nat, NEW j \in 1 .. c + d, j > c
  PROVE  o + c < o + j /\ o + j <= o + (c + d)
OBVIOUS

\* Subsamples tell where the bytes of units of their sizes are encrypted.
LEMMA CipherPlaces ==
  ASSUME NEW s \in Seq(Nat \X Nat), NEW units \in Seq(Seq(Int)), Len(units) = Len(s),
         \A u \in 1 .. Len(s) : Len(units[u]) = s[u][1] + s[u][2],
         \A u \in 1 .. Len(s) : \A j \in 1 .. Len(units[u]) : units[u][j] < 0 <=> j > s[u][1]
  PROVE  /\ Lens(units) = SizesIn(s)
         /\ Size(s) = Len(FlattenSeq(units))
         /\ \A i \in 1 .. Len(FlattenSeq(units)) : FlattenSeq(units)[i] < 0 <=> CipherAt(s, i)
<1> DEFINE F == FlattenSeq(units)
           a == SizesIn(s)
<1>1. /\ a \in Seq(Nat) /\ Len(a) = Len(s)
      /\ \A j \in 1 .. Len(s) : a[j] = s[j][1] + s[j][2] /\ s[j][1] \in Nat /\ s[j][2] \in Nat
      /\ Size(s) = Sum(a)
  BY Zenon, SizesInType
<1>2. /\ Lens(units) \in Seq(Nat) /\ Len(Lens(units)) = Len(units)
      /\ \A u \in 1 .. Len(units) : Lens(units)[u] = Len(units[u])
      /\ F \in Seq(Int) /\ Len(F) = Sum(Lens(units))
      /\ \A k \in 1 .. Len(units) : \A j \in 1 .. Len(units[k]) :
           F[Offset(Lens(units), k - 1) + j] = units[k][j]
  BY FlattenProperties
<1>3. Lens(units) = a
  BY <1>1, <1>2, SeqEqual
<1>4. Len(s) \in Nat /\ DOMAIN s = 1 .. Len(s) /\ \A j \in 1 .. Len(s) : s[j] \in Nat \X Nat
  BY LenProperties
<1>5. \A j \in DOMAIN s : /\ Size(SubSeq(s, 1, j - 1)) = Offset(a, j - 1)
                          /\ Size(<<s[j]>>) = s[j][1] + s[j][2]
                          /\ Offset(a, j - 1) \in Nat
  <2>1. TAKE j \in DOMAIN s
  <2>2. j - 1 \in 0 .. Len(s) /\ j \in 1 .. Len(s)
    BY SMTT(20), <1>4
  <2>3. QED
    <3>1. Size(SubSeq(s, 1, j - 1)) = Offset(a, j - 1)
      BY <2>2, SizeOfPrefix
    <3>2. Size(<<s[j]>>) = s[j][1] + s[j][2]
      <4>1. <<s[j]>> \in Seq(Nat \X Nat) /\ Len(<<s[j]>>) = 1 /\ <<s[j]>>[1] = s[j]
        BY <1>4
      <4>2. QED
        BY Zenon, <4>1, SizeOfOne
    <3>3. QED
      BY <1>1, <2>2, <3>1, <3>2, OffsetStep
<1> HIDE DEF F, a
<1>6. ASSUME NEW i \in 1 .. Len(F) PROVE F[i] < 0 <=> CipherAt(s, i)
  <2>1. PICK u \in 1 .. Len(units) : \E j \in 1 .. Len(units[u]) : i = Offset(Lens(units), u - 1) + j
    BY Zenon, FlattenIndex DEF F
  <2>2. PICK j \in 1 .. Len(units[u]) : i = Offset(a, u - 1) + j
    BY Zenon, <1>3, <2>1
  <2>3. u \in 1 .. Len(s) /\ u \in DOMAIN s /\ j \in 1 .. s[u][1] + s[u][2]
        /\ s[u][1] \in Nat /\ s[u][2] \in Nat /\ Offset(a, u - 1) \in Nat
    BY Zenon, <1>1, <1>4, <1>5, <2>1, <2>2
  <2>4. F[i] = units[u][j] /\ (units[u][j] < 0 <=> j > s[u][1])
    BY Zenon, <1>2, <1>3, <2>1, <2>2, <2>3
  <2>5. ASSUME j > s[u][1] PROVE CipherAt(s, i)
    <3> DEFINE o == Offset(a, u - 1)
               c == s[u][1]
               d == s[u][2]
    <3>a. o \in Nat /\ c \in Nat /\ d \in Nat /\ j \in 1 .. c + d /\ j > c /\ i = o + j
      BY <2>2, <2>3, <2>5
    <3> HIDE DEF o, c, d
    <3>b. o + c < i /\ i <= o + (c + d)
      BY Zenon, <3>a, WithinItem
    <3>1. /\ Offset(a, u - 1) + s[u][1] < i
          /\ i <= Offset(a, u - 1) + (s[u][1] + s[u][2])
      BY <3>b DEF o, c, d
    <3>2. QED
      BY Zenon, <1>5, <2>3, <3>1 DEF CipherAt
  <2>6. ASSUME CipherAt(s, i) PROVE j > s[u][1]
    <3>1. PICK m \in DOMAIN s : /\ Offset(a, m - 1) + s[m][1] < i
                                /\ i <= Offset(a, m - 1) + (s[m][1] + s[m][2])
      BY <1>5, <2>6 DEF CipherAt
    <3> DEFINE l == i - Offset(a, m - 1)
    <3>2. /\ m \in 1 .. Len(a) /\ u \in 1 .. Len(a) /\ a[m] = s[m][1] + s[m][2] /\ s[m][1] \in Nat /\ s[m][2] \in Nat
          /\ Offset(a, m - 1) \in Nat /\ a[u] = s[u][1] + s[u][2]
      BY Zenon, <1>1, <1>4, <1>5, <2>3, <3>1
    <3>3. i \in Nat
      BY <2>2, <2>3
    <3>4. l \in 1 .. a[m] /\ Offset(a, m - 1) + l = i /\ l > s[m][1]
      <4> DEFINE o == Offset(a, m - 1)
                 c == s[m][1]
                 d == s[m][2]
      <4>1. o \in Nat /\ c \in Nat /\ d \in Nat /\ i \in Nat /\ o + c < i /\ i <= o + (c + d)
            /\ a[m] = c + d
        BY <3>1, <3>2, <3>3
      <4> HIDE DEF o, c, d
      <4>2. i - o \in 1 .. c + d /\ o + (i - o) = i /\ i - o > c
        BY <4>1
      <4>3. QED
        BY <4>1, <4>2 DEF o, c, d
    <3>5. j \in 1 .. a[u]
      BY <2>3, <3>2
    <3> HIDE DEF l
    <3>6. m = u /\ l = j
      <4>1. Offset(a, m - 1) + l = Offset(a, u - 1) + j
        BY <2>2, <3>4
      <4>2. a \in Seq(Nat) /\ m \in 1 .. Len(a) /\ u \in 1 .. Len(a)
        BY <1>1, <3>2
      <4>3. QED
        BY Zenon, <3>4, <3>5, <4>1, <4>2, OffsetUnique
    <3>7. QED
      BY <3>4, <3>6
  <2>7. QED
    BY Zenon, <2>4, <2>5, <2>6
<1>7. QED
  BY <1>1, <1>2, <1>3, <1>6 DEF F, a

\* Bytes that are not encrypted, and those that are from some place on.
IsClear(x) == \A i \in 1 .. Len(x) : x[i] >= 0
IsClearTo(z, a) == \A i \in 1 .. Len(z) : z[i] < 0 <=> i > a

\* What subsamples say of the units they describe, and entries of the bytes.
Tells(s, units) ==
  /\ s \in Seq(Nat \X Nat) /\ units \in Seq(Seq(Int)) /\ Len(units) = Len(s)
  /\ \A u \in 1 .. Len(s) : Len(units[u]) = s[u][1] + s[u][2] /\ IsClearTo(units[u], s[u][1])
TellsCipher(s, data) ==
  /\ s \in Seq(Nat \X Nat) /\ Size(s) = Len(data)
  /\ \A i \in 1 .. Len(data) : data[i] < 0 <=> CipherAt(s, i)

\* The same, in terms of TellsCipher: what SubsamplesMatchTheData says.
LEMMA CipherOfUnits ==
  ASSUME NEW s, NEW units, Tells(s, units)
  PROVE  Lens(units) = SizesIn(s) /\ TellsCipher(s, FlattenSeq(units))
<1>1. /\ s \in Seq(Nat \X Nat) /\ units \in Seq(Seq(Int)) /\ Len(units) = Len(s)
      /\ \A u \in 1 .. Len(s) : Len(units[u]) = s[u][1] + s[u][2]
      /\ \A u \in 1 .. Len(s) : IsClearTo(units[u], s[u][1])
  BY Zenon DEF Tells
<1>2. \A u \in 1 .. Len(s) : \A j \in 1 .. Len(units[u]) : units[u][j] < 0 <=> j > s[u][1]
  BY Zenon, <1>1 DEF IsClearTo
<1>3. /\ Lens(units) = SizesIn(s)
      /\ Size(s) = Len(FlattenSeq(units))
      /\ \A i \in 1 .. Len(FlattenSeq(units)) : FlattenSeq(units)[i] < 0 <=> CipherAt(s, i)
  BY Zenon, <1>1, <1>2, CipherPlaces
<1>4. QED
  BY Zenon, <1>1, <1>3 DEF TellsCipher

UnitOf(media, r, k, u, s, form) ==
  IF media = "video"
  THEN (IF form = "annexb" THEN <<0, 0, 0, 1>> ELSE LengthField(s[1] - NaluLengthField + s[2]))
         \o Payload(r, k, u, s[1] - NaluLengthField, s[2])
  ELSE Payload(r, k, u, s[1], s[2])

UnitsOf(media, r, k, s, form) ==
  [u \in DOMAIN s |-> UnitOf(media, r, k, u, s[u], form)]
SampleOf(media, r, k, s, form) == FlattenSeq(UnitsOf(media, r, k, s, form))
SamplesOf(media, r, samples, form) ==
  [k \in DOMAIN samples |-> SampleOf(media, r, k, samples[k], form)]

\* The subsamples of a sample.
IsSample(media, s) ==
  /\ s \in Seq(Nat \X Nat) /\ s # <<>>
  /\ media = "video" => \A u \in DOMAIN s : s[u][1] >= NaluLengthField

\* The payload of a subsample: its length, and what of it is encrypted.
LEMMA PayloadProperties ==
  ASSUME NEW r \in Nat, NEW k \in Nat, NEW u \in Nat, NEW clear \in Nat, NEW cipher \in Nat
  PROVE  /\ Payload(r, k, u, clear, cipher) \in Seq(Int)
         /\ Len(Payload(r, k, u, clear, cipher)) = clear + cipher
         /\ \A j \in 1 .. clear + cipher : Payload(r, k, u, clear, cipher)[j] < 0 <=> j > clear
<1> DEFINE p == Payload(r, k, u, clear, cipher)
           id(j) == 10000000 * r + 1000000 * k + 100000 * u + j
<1>1. p = [j \in 1 .. clear + cipher |-> IF j <= clear THEN id(j) ELSE -id(j)]
  BY DEF Payload
<1>2. \A j \in 1 .. clear + cipher : id(j) \in Nat /\ id(j) > 0
  OBVIOUS
<1> HIDE DEF p, id
<1>3. clear + cipher \in Nat
  OBVIOUS
<1>4. p \in [1 .. clear + cipher -> Int]
  BY <1>1, <1>2
<1>5. p \in Seq(Int) /\ Len(p) = clear + cipher
  BY <1>3, <1>4, FunctionIsSeq
<1>6. ASSUME NEW j \in 1 .. clear + cipher PROVE p[j] < 0 <=> j > clear
  <2>1. p[j] = IF j <= clear THEN id(j) ELSE -id(j)
    BY <1>1
  <2>2. QED
    BY <1>2, <2>1
<1>7. QED
  BY <1>5, <1>6 DEF p

\* The same for a subsample with the length or start code that video has in front.
LEMMA UnitProperties ==
  ASSUME NEW media, NEW form,
         NEW r \in Nat, NEW k \in Nat, NEW u \in Nat, NEW s \in Nat \X Nat,
         media = "video" => s[1] >= NaluLengthField
  PROVE  /\ UnitOf(media, r, k, u, s, form) \in Seq(Int)
         /\ Len(UnitOf(media, r, k, u, s, form)) = s[1] + s[2]
         /\ \A j \in 1 .. s[1] + s[2] : UnitOf(media, r, k, u, s, form)[j] < 0 <=> j > s[1]
<1>1. s[1] \in Nat /\ s[2] \in Nat
  OBVIOUS
<1> DEFINE c == s[1]
           d == s[2]
           t == UnitOf(media, r, k, u, s, form)
<1>2. CASE media # "video"
  <2>1. PICK m \in Nat : m = c
    BY <1>1
  <2>2. PICK n \in Nat : n = d
    BY <1>1
  <2>3. /\ Payload(r, k, u, m, n) \in Seq(Int)
        /\ Len(Payload(r, k, u, m, n)) = m + n
        /\ \A j \in 1 .. m + n : Payload(r, k, u, m, n)[j] < 0 <=> j > m
    BY Zenon, PayloadProperties
  <2>4. t = Payload(r, k, u, m, n)
    BY <1>2, <2>1, <2>2 DEF UnitOf
  <2> HIDE DEF t
  <2>5. QED
    BY <2>1, <2>2, <2>3, <2>4 DEF t
<1>3. CASE media = "video"
  <2> DEFINE h == IF form = "annexb" THEN <<0, 0, 0, 1>> ELSE LengthField(c - NaluLengthField + d)
             p == Payload(r, k, u, c - NaluLengthField, d)
  <2>1. t = h \o p
    BY <1>3 DEF UnitOf
  <2>2. c - 4 \in Nat /\ c - 4 + d \in Nat /\ c \in Nat /\ d \in Nat
    BY <1>1, <1>3 DEF NaluLengthField
  <2>3. /\ p \in Seq(Int) /\ Len(p) = (c - 4) + d
        /\ \A j \in 1 .. (c - 4) + d : p[j] < 0 <=> j > c - 4
    <3>1. PICK m \in Nat : m = c - 4
      BY <2>2
    <3>2. PICK n \in Nat : n = d
      BY <2>2
    <3>3. /\ Payload(r, k, u, m, n) \in Seq(Int)
          /\ Len(Payload(r, k, u, m, n)) = m + n
          /\ \A j \in 1 .. m + n : Payload(r, k, u, m, n)[j] < 0 <=> j > m
      BY Zenon, PayloadProperties
    <3>4. p = Payload(r, k, u, m, n)
      BY <3>1, <3>2 DEF NaluLengthField
    <3> HIDE DEF p
    <3>5. QED
      BY <3>1, <3>2, <3>3, <3>4
  <2>4. h \in Seq(Int) /\ Len(h) = 4 /\ \A j \in 1 .. 4 : h[j] \in Nat
    <3>1. CASE form = "annexb"
      BY <3>1
    <3>2. CASE form # "annexb"
      <4> DEFINE n == c - 4 + d
      <4>1. n \in Nat
        BY <2>2
      <4> HIDE DEF n
      <4>2. n \div 16777216 \in Nat /\ (n \div 65536) % 256 \in Nat /\ (n \div 256) % 256 \in Nat /\ n % 256 \in Nat
        BY <4>1
      <4>3. h = <<n \div 16777216, (n \div 65536) % 256, (n \div 256) % 256, n % 256>>
        BY <3>2 DEF LengthField, NaluLengthField, n
      <4> HIDE DEF h
      <4>4. QED
        BY <4>2, <4>3
    <3>3. QED
      BY <3>1, <3>2
  <2> HIDE DEF h, p, t
  <2>5. /\ t \in Seq(Int)
        /\ Len(t) = Len(h) + Len(p)
        /\ \A j \in 1 .. Len(h) + Len(p) : t[j] = IF j <= Len(h) THEN h[j] ELSE p[j - Len(h)]
    BY Zenon, <2>1, <2>3, <2>4, ConcatProperties
  <2> HIDE DEF c, d
  <2>6. Len(t) = c + d
    BY <2>2, <2>3, <2>4, <2>5
  <2>7. ASSUME NEW j \in 1 .. c + d PROVE t[j] < 0 <=> j > c
    <3>1. t[j] = IF j <= 4 THEN h[j] ELSE p[j - 4]
      BY SMTT(20), <2>3, <2>4, <2>5, <2>2
    <3>2. CASE j <= 4
      <4>1. j \in 1 .. 4 /\ ~ (j > c)
        BY <2>2, <3>2
      <4>2. h[j] \in Nat
        BY Zenon, <2>4, <4>1
      <4>3. QED
        BY <3>1, <3>2, <4>1, <4>2
    <3>3. CASE j > 4
      <4>1. j - 4 \in 1 .. (c - 4) + d /\ (j - 4 > c - 4 <=> j > c) /\ ~ (j <= 4)
        BY <2>2, <3>3
      <4>2. QED
        BY Zenon, <2>3, <3>1, <4>1
    <3>4. QED
      BY <2>2, <3>2, <3>3
  <2>8. QED
    BY <2>5, <2>6, <2>7 DEF t, c, d
<1>4. QED
  BY <1>2, <1>3

\* The bytes of a sample, in the file or form: where its units are, how long they
\* are and what is encrypted of them.
LEMMA UnitsProperties ==
  ASSUME NEW media, NEW form, NEW r \in Nat, NEW k \in Nat,
         NEW s, IsSample(media, s), NEW units, units = UnitsOf(media, r, k, s, form)
  PROVE  /\ units \in Seq(Seq(Int)) /\ Len(units) = Len(s) /\ Len(s) \in Nat
         /\ \A u \in 1 .. Len(s) : units[u] = UnitOf(media, r, k, u, s[u], form)
         /\ Tells(s, units)
         /\ FlattenSeq(units) \in Seq(Int)
         /\ Len(FlattenSeq(units)) = Size(s)
<1>1. /\ s \in Seq(Nat \X Nat) /\ Len(s) \in Nat /\ DOMAIN s = 1 .. Len(s)
      /\ \A u \in 1 .. Len(s) : s[u] \in Nat \X Nat /\ (media = "video" => s[u][1] >= NaluLengthField)
  BY Zenon, LenProperties DEF IsSample
<1>2. units = [u \in 1 .. Len(s) |-> UnitOf(media, r, k, u, s[u], form)]
  BY <1>1 DEF UnitsOf
<1>3. \A u \in 1 .. Len(s) : u \in Nat
  BY <1>1
<1>4. \A u \in 1 .. Len(s) :
        /\ UnitOf(media, r, k, u, s[u], form) \in Seq(Int)
        /\ Len(UnitOf(media, r, k, u, s[u], form)) = s[u][1] + s[u][2]
        /\ \A j \in 1 .. s[u][1] + s[u][2] :
             UnitOf(media, r, k, u, s[u], form)[j] < 0 <=> j > s[u][1]
  <2>1. TAKE u \in 1 .. Len(s)
  <2>2. PICK x \in Nat \X Nat : x = s[u] /\ (media = "video" => x[1] >= NaluLengthField)
    BY <1>1
  <2>3. PICK v \in Nat : v = u
    BY <1>3
  <2>4. /\ UnitOf(media, r, k, v, x, form) \in Seq(Int)
        /\ Len(UnitOf(media, r, k, v, x, form)) = x[1] + x[2]
        /\ \A j \in 1 .. x[1] + x[2] : UnitOf(media, r, k, v, x, form)[j] < 0 <=> j > x[1]
    <3>1. media = "video" => x[1] >= NaluLengthField
      BY <2>2
    <3>2. QED
      BY ZenonT(20), <3>1, UnitProperties
  <2>5. QED
    BY <2>2, <2>3, <2>4
<1>5. units \in [1 .. Len(s) -> Seq(Int)]
  BY <1>2, <1>4
<1>6. units \in Seq(Seq(Int)) /\ Len(units) = Len(s)
  BY Zenon, <1>1, <1>5, FunctionIsSeq
<1>7. \A u \in 1 .. Len(s) :
        /\ units[u] = UnitOf(media, r, k, u, s[u], form)
        /\ Len(units[u]) = s[u][1] + s[u][2]
        /\ \A j \in 1 .. Len(units[u]) : units[u][j] < 0 <=> j > s[u][1]
  <2>1. \A u \in 1 .. Len(s) : units[u] = UnitOf(media, r, k, u, s[u], form)
    BY <1>2
  <2>2. QED
    BY Zenon, <1>4, <2>1
<1>8. Tells(s, units)
  <2>1. \A u \in 1 .. Len(s) : Len(units[u]) = s[u][1] + s[u][2] /\ IsClearTo(units[u], s[u][1])
    BY Zenon, <1>7 DEF IsClearTo
  <2>2. QED
    BY Zenon, <1>1, <1>6, <2>1 DEF Tells
<1>9. Len(FlattenSeq(units)) = Size(s)
  BY Zenon, <1>8, CipherOfUnits DEF TellsCipher
<1>10. FlattenSeq(units) \in Seq(Int)
  BY <1>6, FlattenProperties
<1>11. QED
  BY Zenon, <1>1, <1>6, <1>7, <1>8, <1>9, <1>10

\* A frame has as many bytes as its subsamples say.
LEMMA SampleProperties ==
  ASSUME NEW media, NEW form, NEW r \in Nat, NEW k \in Nat, NEW s, IsSample(media, s)
  PROVE  /\ SampleOf(media, r, k, s, form) \in Seq(Int)
         /\ Len(SampleOf(media, r, k, s, form)) = Size(s)
<1>1. PICK units : units = UnitsOf(media, r, k, s, form)
  OBVIOUS
<1>2. FlattenSeq(units) \in Seq(Int) /\ Len(FlattenSeq(units)) = Size(s)
  BY <1>1, UnitsProperties
<1>3. QED
  BY <1>1, <1>2 DEF SampleOf

\* What the assumption about files says about a table.
LEMMA TableProperties ==
  ASSUME NEW media, NEW samples \in Tables, IsTable(media, samples)
  PROVE  /\ Len(samples) \in Nat \ {0} /\ DOMAIN samples = 1 .. Len(samples)
         /\ \A k \in 1 .. Len(samples) : k \in Nat /\ IsSample(media, samples[k])
<1> DEFINE n == Len(samples)
<1>1. n \in Nat \ {0} /\ DOMAIN samples = 1 .. n /\ \A k \in 1 .. n : samples[k] \in Seq(Nat \X Nat)
  BY LenProperties, EmptySeq DEF Tables, IsTable
<1>2. \A k \in 1 .. n : k \in Nat /\ IsSample(media, samples[k])
  <2>1. TAKE k \in 1 .. n
  <2>2. k \in Nat /\ samples[k] \in Seq(Nat \X Nat) /\ k \in DOMAIN samples
    BY <1>1
  <2>3. samples[k] # <<>> /\ (media = "video" => \A u \in DOMAIN samples[k] : samples[k][u][1] >= NaluLengthField)
    BY <2>2 DEF IsTable
  <2>4. QED
    BY <2>2, <2>3 DEF IsSample
<1>3. QED
  BY <1>1, <1>2

\* The samples of an mdat, one behind the other.
TableSizes(samples) == [k \in DOMAIN samples |-> Size(samples[k])]
AreSamples(media, r, samples, form, ss) ==
  /\ Len(samples) \in Nat \ {0} /\ DOMAIN samples = 1 .. Len(samples)
  /\ \A k \in 1 .. Len(samples) : IsSample(media, samples[k])
  /\ ss \in Seq(Seq(Int)) /\ Len(ss) = Len(samples)
  /\ \A k \in 1 .. Len(samples) :
       /\ ss[k] = SampleOf(media, r, k, samples[k], form)
       /\ Len(SampleOf(media, r, k, samples[k], form)) = Size(samples[k])
  /\ Lens(ss) = TableSizes(samples)
  /\ FlattenSeq(ss) \in Seq(Int)
  /\ Len(FlattenSeq(ss)) = TableSize(samples)

\* The frames of a table are sequences of bytes of the sizes the table says.
LEMMA SamplesProperties ==
  ASSUME NEW media, NEW form, NEW r \in Nat, NEW samples \in Tables, IsTable(media, samples),
         NEW ss, ss = SamplesOf(media, r, samples, form)
  PROVE  AreSamples(media, r, samples, form, ss)
<1> DEFINE n == Len(samples)
<1>1. n \in Nat \ {0} /\ DOMAIN samples = 1 .. n
  BY TableProperties
<1>2. \A k \in 1 .. n : k \in Nat /\ IsSample(media, samples[k])
  BY TableProperties
<1>3. \A k \in 1 .. n : /\ SampleOf(media, r, k, samples[k], form) \in Seq(Int)
                        /\ Len(SampleOf(media, r, k, samples[k], form)) = Size(samples[k])
  <2>1. TAKE k \in 1 .. n
  <2>2. PICK s : s = samples[k] /\ IsSample(media, s)
    BY <1>2
  <2>3. PICK m \in Nat : m = k
    BY <1>2
  <2>4. SampleOf(media, r, m, s, form) \in Seq(Int) /\ Len(SampleOf(media, r, m, s, form)) = Size(s)
    <3>1. IsSample(media, s)
      BY <2>2
    <3>2. QED
      BY <3>1, SampleProperties
  <2>5. QED
    BY <2>2, <2>3, <2>4
<1>4. ss = [k \in 1 .. n |-> SampleOf(media, r, k, samples[k], form)]
  BY <1>1 DEF SamplesOf
<1>5. ss \in [1 .. n -> Seq(Int)]
  BY <1>3, <1>4
<1>6. ss \in Seq(Seq(Int)) /\ Len(ss) = n /\ DOMAIN ss = 1 .. n
  BY <1>1, <1>5, FunctionIsSeq
<1>7. \A k \in 1 .. n : ss[k] = SampleOf(media, r, k, samples[k], form)
  BY <1>4
<1>8. Lens(ss) = TableSizes(samples)
  BY <1>1, <1>3, <1>6, <1>7 DEF Lens, TableSizes
<1>9. FlattenSeq(ss) \in Seq(Int) /\ Len(FlattenSeq(ss)) = Sum(Lens(ss))
  BY <1>6, FlattenProperties
<1>10. Len(FlattenSeq(ss)) = TableSize(samples)
  BY <1>8, <1>9 DEF TableSize, TableSizes
<1>11. QED
  BY Zenon, <1>1, <1>2, <1>3, <1>6, <1>7, <1>8, <1>9, <1>10 DEF AreSamples

\* Nothing flattened is nothing.
LEMMA FlattenEmpty == FlattenSeq(<<>>) = <<>>
BY FlattenIsFold

\* Concatenation is associative.
LEMMA AppendOnce ==
  ASSUME NEW S, NEW u \in Seq(S), NEW v \in Seq(S), NEW w \in Seq(S),
         NEW x \in Seq(S), x = u \o v, NEW y \in Seq(S), y = v \o w
  PROVE  x \o w = u \o y
<1> DEFINE a == x \o w
           b == u \o y
           l == Len(u)
           m == Len(v)
           n == Len(w)
<1>1. l \in Nat /\ m \in Nat /\ n \in Nat
  BY LenProperties
<1>2. Len(x) = l + m /\ \A i \in 1 .. l + m : x[i] = IF i <= l THEN u[i] ELSE v[i - l]
  BY ConcatProperties
<1>3. Len(y) = m + n /\ \A i \in 1 .. m + n : y[i] = IF i <= m THEN v[i] ELSE w[i - m]
  BY ConcatProperties
<1>4. a \in Seq(S) /\ Len(a) = Len(x) + n
      /\ \A i \in 1 .. Len(x) + n : a[i] = IF i <= Len(x) THEN x[i] ELSE w[i - Len(x)]
  BY ConcatProperties
<1>5. b \in Seq(S) /\ Len(b) = l + Len(y)
      /\ \A i \in 1 .. l + Len(y) : b[i] = IF i <= l THEN u[i] ELSE y[i - l]
  BY ConcatProperties
<1> HIDE DEF a, b, l, m, n
<1>6. Len(a) = Len(b) /\ Len(a) = l + m + n
  BY SMTT(20), <1>1, <1>2, <1>3, <1>4, <1>5
<1>7. ASSUME NEW i \in 1 .. Len(a) PROVE a[i] = b[i]
  <2>1. i \in 1 .. l + m + n /\ i \in Nat
    BY <1>1, <1>6
  <2>2. CASE i <= l
    <3>1. i \in 1 .. l + m /\ i <= l + m /\ i \in 1 .. (l + m) + n /\ i \in 1 .. l + (m + n)
      BY <1>1, <2>1, <2>2
    <3>2. a[i] = x[i] /\ x[i] = u[i] /\ b[i] = u[i]
      BY <1>2, <1>3, <1>4, <1>5, <2>2, <3>1
    <3>3. QED
      BY <3>2
  <2>3. CASE l < i /\ i <= l + m
    <3>1. i \in 1 .. l + m /\ i <= l + m /\ i \in 1 .. (l + m) + n /\ i \in 1 .. l + (m + n) /\ ~(i <= l)
          /\ i - l \in 1 .. m + n /\ i - l <= m
      BY <1>1, <2>1, <2>3
    <3>2. a[i] = x[i] /\ x[i] = v[i - l]
      BY Zenon, <1>2, <1>4, <3>1
    <3>3. b[i] = y[i - l] /\ y[i - l] = v[i - l]
      BY Zenon, <1>3, <1>5, <3>1
    <3>4. QED
      BY <3>2, <3>3
  <2>4. CASE l + m < i
    <3>1. ~(i <= l + m) /\ i \in 1 .. (l + m) + n /\ i \in 1 .. l + (m + n) /\ ~(i <= l)
          /\ i - l \in 1 .. m + n /\ ~(i - l <= m) /\ (i - l) - m = i - (l + m)
      BY <1>1, <2>1, <2>4
    <3>2. a[i] = w[i - (l + m)]
      BY <1>2, <1>4, <3>1
    <3>3. b[i] = y[i - l] /\ y[i - l] = w[(i - l) - m]
      BY Zenon, <1>3, <1>5, <3>1
    <3>4. QED
      BY Zenon, <3>1, <3>2, <3>3
  <2>5. QED
    BY <1>1, <2>1, <2>2, <2>3, <2>4
<1>8. a = b
  BY Zenon, <1>4, <1>5, <1>6, <1>7, SeqEqual
<1>9. QED
  BY <1>8 DEF a, b

\* Flattening distributes over concatenation.
LEMMA FlattenConcat ==
  ASSUME NEW S, NEW a \in Seq(Seq(S)), NEW b \in Seq(Seq(S))
  PROVE  FlattenSeq(a \o b) = FlattenSeq(a) \o FlattenSeq(b)
<1> DEFINE T == {n \in Nat : \A c \in Seq(Seq(S)) : Len(c) = n =>
                               FlattenSeq(a \o c) = FlattenSeq(a) \o FlattenSeq(c)}
<1>1. 0 \in T
  <2>1. SUFFICES ASSUME NEW c \in Seq(Seq(S)), Len(c) = 0
                 PROVE  FlattenSeq(a \o c) = FlattenSeq(a) \o FlattenSeq(c)
    OBVIOUS
  <2>2. c = <<>>
    BY <2>1, EmptySeq
  <2>3. a \o c = a
    BY <2>2, ConcatEmptySeq
  <2>4. FlattenSeq(a) \in Seq(S)
    BY FlattenProperties
  <2>5. FlattenSeq(a) \o <<>> = FlattenSeq(a)
    BY <2>4, ConcatEmptySeq
  <2>6. QED
    BY Zenon, <2>2, <2>3, <2>5, FlattenEmpty
<1>2. ASSUME NEW n \in Nat, n \in T PROVE n + 1 \in T
  <2>1. SUFFICES ASSUME NEW c \in Seq(Seq(S)), Len(c) = n + 1
                 PROVE  FlattenSeq(a \o c) = FlattenSeq(a) \o FlattenSeq(c)
    OBVIOUS
  <2> DEFINE d == SubSeq(c, 1, n)
  <2>2. d \in Seq(Seq(S)) /\ Len(d) = n /\ \A i \in 1 .. n : d[i] = c[i]
    <3>1. n \in 0 .. Len(c)
      BY <2>1
    <3>2. QED
      BY <3>1, SubSeqPrefix
  <2> HIDE DEF d
  <2>3. FlattenSeq(a \o d) = FlattenSeq(a) \o FlattenSeq(d)
    BY <1>2, <2>2
  <2>4. FlattenSeq(c) = FlattenSeq(d) \o c[n + 1]
    BY Zenon, <2>1, <2>2, FlattenLast
  <2> DEFINE x == a \o d
             y == a \o c
             m == Len(a)
  <2>5. /\ x \in Seq(Seq(S)) /\ Len(x) = m + n /\ m \in Nat
        /\ \A i \in 1 .. m + n : x[i] = IF i <= m THEN a[i] ELSE d[i - m]
    BY Zenon, <2>2, LenProperties, ConcatProperties
  <2>6. /\ y \in Seq(Seq(S)) /\ Len(y) = m + (n + 1)
        /\ \A i \in 1 .. m + (n + 1) : y[i] = IF i <= m THEN a[i] ELSE c[i - m]
    <3>1. /\ y \in Seq(Seq(S)) /\ Len(y) = m + Len(c)
          /\ \A i \in 1 .. m + Len(c) : y[i] = IF i <= m THEN a[i] ELSE c[i - m]
      BY ConcatProperties
    <3> HIDE DEF y, m
    <3>2. QED
      BY <2>1, <3>1
  <2> HIDE DEF x, y, m
  <2>7. \A i \in 1 .. Len(x) : y[i] = x[i]
    <3>1. TAKE i \in 1 .. Len(x)
    <3>2. i \in 1 .. m + n /\ i \in 1 .. m + (n + 1)
      BY <2>5
    <3>3. CASE i <= m
      BY Zenon, <2>5, <2>6, <3>2, <3>3
    <3>4. CASE ~(i <= m)
      <4>1. i - m \in 1 .. n
        BY SMTT(20), <2>5, <3>2, <3>4
      <4>2. QED
        BY Zenon, <2>2, <2>5, <2>6, <3>2, <3>4, <4>1
    <3>5. QED
      BY <3>3, <3>4
  <2>8. y[Len(x) + 1] = c[n + 1] /\ Len(y) = Len(x) + 1
    <3>1. Len(x) + 1 \in 1 .. m + (n + 1) /\ ~(Len(x) + 1 <= m) /\ (Len(x) + 1) - m = n + 1
      BY <2>5
    <3>2. y[Len(x) + 1] = c[(Len(x) + 1) - m]
      BY <2>6, <3>1
    <3>3. QED
      <4>1. Len(y) = Len(x) + 1
        BY <2>5, <2>6
      <4>2. QED
        BY Zenon, <3>1, <3>2, <4>1
  <2>9. FlattenSeq(y) = FlattenSeq(x) \o c[n + 1]
    BY ZenonT(40), <2>5, <2>6, <2>7, <2>8, FlattenLast
  <2>10. FlattenSeq(a) \in Seq(S) /\ FlattenSeq(d) \in Seq(S) /\ c[n + 1] \in Seq(S)
    <3>1. c[n + 1] \in Seq(S)
      BY <2>1, LenProperties
    <3>2. QED
      BY <2>2, <3>1, FlattenProperties
  <2>11. FlattenSeq(x) \o c[n + 1] = FlattenSeq(a) \o FlattenSeq(c)
    <3>1. PICK u \in Seq(S), v \in Seq(S), w \in Seq(S) :
            u = FlattenSeq(a) /\ v = FlattenSeq(d) /\ w = c[n + 1]
      BY <2>10
    <3>2. PICK p \in Seq(S), q \in Seq(S) : p = FlattenSeq(x) /\ q = FlattenSeq(c)
      BY <2>1, <2>5, FlattenProperties
    <3>3. p = u \o v
      BY <2>3, <3>1, <3>2 DEF x
    <3>4. q = v \o w
      BY <2>4, <3>1, <3>2
    <3>5. p \o w = u \o q
      BY SMTT(20), <3>3, <3>4, AppendOnce
    <3>6. QED
      BY <3>1, <3>2, <3>5
  <2>12. QED
    BY <2>9, <2>11 DEF y
<1> HIDE DEF T
<1>3. Nat \subseteq T
  BY Zenon, <1>1, <1>2, SetInduction
<1>4. Len(b) \in T
  BY <1>3, LenProperties
<1>5. QED
  BY <1>4 DEF T

\* One after the other, the pieces of the pieces.
FlattenEach(uss) == [k \in DOMAIN uss |-> FlattenSeq(uss[k])]

\* Flattening each piece and then all of them is flattening twice.
LEMMA FlattenFlatten ==
  ASSUME NEW S, NEW uss \in Seq(Seq(Seq(S)))
  PROVE  /\ FlattenEach(uss) \in Seq(Seq(S)) /\ Len(FlattenEach(uss)) = Len(uss)
         /\ FlattenSeq(uss) \in Seq(Seq(S))
         /\ FlattenSeq(FlattenEach(uss)) = FlattenSeq(FlattenSeq(uss))
<1> DEFINE T == {n \in Nat : \A c \in Seq(Seq(Seq(S))) : Len(c) = n =>
                               FlattenSeq(FlattenEach(c)) = FlattenSeq(FlattenSeq(c))}
<1>1. ASSUME NEW c \in Seq(Seq(Seq(S)))
      PROVE  /\ FlattenEach(c) \in Seq(Seq(S)) /\ Len(FlattenEach(c)) = Len(c)
             /\ \A k \in 1 .. Len(c) : FlattenEach(c)[k] = FlattenSeq(c[k])
             /\ FlattenSeq(c) \in Seq(Seq(S))
  <2>1. Len(c) \in Nat /\ DOMAIN c = 1 .. Len(c) /\ \A k \in 1 .. Len(c) : c[k] \in Seq(Seq(S))
    BY LenProperties
  <2>2. \A k \in 1 .. Len(c) : FlattenSeq(c[k]) \in Seq(S)
    <3>1. TAKE k \in 1 .. Len(c)
    <3>2. PICK d \in Seq(Seq(S)) : d = c[k]
      BY <2>1
    <3>3. FlattenSeq(d) \in Seq(S)
      BY FlattenProperties
    <3>4. QED
      BY <3>2, <3>3
  <2>3. FlattenEach(c) \in [1 .. Len(c) -> Seq(S)] /\ \A k \in 1 .. Len(c) : FlattenEach(c)[k] = FlattenSeq(c[k])
    BY <2>1, <2>2 DEF FlattenEach
  <2>4. FlattenEach(c) \in Seq(Seq(S)) /\ Len(FlattenEach(c)) = Len(c)
    BY Zenon, <2>1, <2>3, FunctionIsSeq
  <2>5. FlattenSeq(c) \in Seq(Seq(S))
    BY FlattenProperties
  <2>6. QED
    BY <2>3, <2>4, <2>5
<1>2. 0 \in T
  <2>1. SUFFICES ASSUME NEW c \in Seq(Seq(Seq(S))), Len(c) = 0
                 PROVE  FlattenSeq(FlattenEach(c)) = FlattenSeq(FlattenSeq(c))
    OBVIOUS
  <2>2. c = <<>>
    BY <2>1, EmptySeq
  <2>3. FlattenEach(c) = <<>>
    BY Zenon, <1>1, <2>1, EmptySeq
  <2>4. QED
    BY <2>2, <2>3, FlattenEmpty
<1>3. ASSUME NEW n \in Nat, n \in T PROVE n + 1 \in T
  <2>1. SUFFICES ASSUME NEW c \in Seq(Seq(Seq(S))), Len(c) = n + 1
                 PROVE  FlattenSeq(FlattenEach(c)) = FlattenSeq(FlattenSeq(c))
    OBVIOUS
  <2> DEFINE d == SubSeq(c, 1, n)
             last == c[n + 1]
  <2>2. d \in Seq(Seq(Seq(S))) /\ Len(d) = n /\ \A i \in 1 .. n : d[i] = c[i]
    <3>1. n \in 0 .. Len(c)
      BY <2>1
    <3>2. QED
      BY <3>1, SubSeqPrefix
  <2> HIDE DEF d
  <2>3. FlattenSeq(FlattenEach(d)) = FlattenSeq(FlattenSeq(d))
    BY <1>3, <2>2
  <2>4. FlattenSeq(c) = FlattenSeq(d) \o last
    BY Zenon, <2>1, <2>2, FlattenLast
  <2>5. FlattenSeq(FlattenEach(c)) = FlattenSeq(FlattenEach(d)) \o FlattenSeq(last)
    <3> DEFINE x == FlattenEach(d)
               y == FlattenEach(c)
    <3>1. x \in Seq(Seq(S)) /\ Len(x) = n /\ \A k \in 1 .. n : x[k] = FlattenSeq(d[k])
      BY Zenon, <1>1, <2>2
    <3>2. y \in Seq(Seq(S)) /\ Len(y) = n + 1 /\ \A k \in 1 .. n + 1 : y[k] = FlattenSeq(c[k])
      BY Zenon, <1>1, <2>1
    <3> HIDE DEF x, y
    <3>3. \A k \in 1 .. n : y[k] = x[k]
      <4>1. TAKE k \in 1 .. n
      <4>2. k \in 1 .. n + 1
        OBVIOUS
      <4>3. y[k] = FlattenSeq(c[k]) /\ x[k] = FlattenSeq(d[k]) /\ d[k] = c[k]
        BY Zenon, <2>2, <3>1, <3>2, <4>2
      <4>4. QED
        BY <4>3
    <3>4. FlattenSeq(y) = FlattenSeq(x) \o y[n + 1]
      BY Zenon, <3>1, <3>2, <3>3, FlattenLast
    <3>5. y[n + 1] = FlattenSeq(last)
      BY <3>2
    <3>6. QED
      BY <3>4, <3>5 DEF x, y
  <2>6. FlattenSeq(d) \in Seq(Seq(S)) /\ last \in Seq(Seq(S))
    BY <1>1, <2>1, <2>2, LenProperties
  <2> HIDE DEF last
  <2>7. FlattenSeq(FlattenSeq(d) \o last) = FlattenSeq(FlattenSeq(d)) \o FlattenSeq(last)
    BY <2>6, FlattenConcat
  <2>8. QED
    BY <2>3, <2>4, <2>5, <2>7
<1> HIDE DEF T
<1>4. Nat \subseteq T
  BY Zenon, <1>2, <1>3, SetInduction
<1>5. Len(uss) \in T
  BY <1>4, LenProperties
<1>6. FlattenSeq(FlattenEach(uss)) = FlattenSeq(FlattenSeq(uss))
  BY <1>5 DEF T
<1>7. QED
  BY <1>1, <1>6

\* The recursion in NalStarts().
NalBody(data, g, p) ==
  IF p > Len(data) THEN {p}
  ELSE {p} \cup LET next == p + NaluLengthField + NalSize(data, p)
                IN IF next \in p + 1 .. Len(data) + 1 THEN g[next] ELSE {}
NalFrom(data) == CHOOSE g : g = [p \in 1 .. Len(data) + 1 |-> NalBody(data, g, p)]

\* NalStarts() is the recursive function NalFrom at 1.
LEMMA NalStartsIsFrom == ASSUME NEW data PROVE NalStarts(data) = NalFrom(data)[1]
BY Zenon DEF NalStarts, NalFrom, NalBody

\* The recursive function behind NalStarts() is defined: it only goes forward.
LEMMA NalFromExists ==
  ASSUME NEW data, Len(data) \in Nat
  PROVE  NalFrom(data) = [p \in 1 .. Len(data) + 1 |-> NalBody(data, NalFrom(data), p)]
<1> DEFINE N == Len(data)
           T == {d \in Nat : \E g : /\ g = [p \in 1 .. N + 1 |-> g[p]]
                                    /\ \A p \in 1 .. N + 1 : p + d >= N + 1 => g[p] = NalBody(data, g, p)}
<1>1. 0 \in T
  <2> DEFINE g == [p \in 1 .. N + 1 |-> {p}]
  <2>1. g = [p \in 1 .. N + 1 |-> g[p]]
    OBVIOUS
  <2>2. ASSUME NEW p \in 1 .. N + 1, p + 0 >= N + 1 PROVE g[p] = NalBody(data, g, p)
    <3>1. p > N
      BY <2>2
    <3>2. QED
      BY <3>1 DEF NalBody
  <2> HIDE DEF g
  <2>3. QED
    BY <2>1, <2>2
<1>2. ASSUME NEW d \in Nat, d \in T PROVE d + 1 \in T
  <2>1. PICK g : /\ g = [p \in 1 .. N + 1 |-> g[p]]
                 /\ \A p \in 1 .. N + 1 : p + d >= N + 1 => g[p] = NalBody(data, g, p)
    BY <1>2
  <2> DEFINE h == [p \in 1 .. N + 1 |-> IF p + d >= N + 1 THEN g[p] ELSE NalBody(data, g, p)]
  <2>2. h = [p \in 1 .. N + 1 |-> h[p]]
    OBVIOUS
  <2>3. \A p \in 1 .. N + 1 : h[p] = IF p + d >= N + 1 THEN g[p] ELSE NalBody(data, g, p)
    OBVIOUS
  <2> HIDE DEF h
  <2>4. ASSUME NEW p \in 1 .. N + 1, p + (d + 1) >= N + 1 PROVE NalBody(data, h, p) = NalBody(data, g, p)
    <3>1. CASE p > N
      BY <3>1 DEF NalBody
    <3>2. CASE ~(p > N)
      <4> DEFINE next == p + NaluLengthField + NalSize(data, p)
      <4>1. ASSUME next \in p + 1 .. N + 1 PROVE h[next] = g[next]
        <5>1. PICK q \in p + 1 .. N + 1 : q = next
          BY <4>1
        <5>2. q \in 1 .. N + 1 /\ q + d >= N + 1
          BY <2>4
        <5>3. h[q] = g[q]
          BY <2>3, <5>2
        <5>4. QED
          BY <5>1, <5>3
      <4> HIDE DEF next
      <4>2. (IF next \in p + 1 .. N + 1 THEN h[next] ELSE {}) = (IF next \in p + 1 .. N + 1 THEN g[next] ELSE {})
        BY <4>1
      <4>3. QED
        BY <3>2, <4>2 DEF NalBody, next
    <3>3. QED
      BY <3>1, <3>2
  <2>5. ASSUME NEW p \in 1 .. N + 1, p + (d + 1) >= N + 1 PROVE h[p] = NalBody(data, h, p)
    <3>1. CASE p + d >= N + 1
      BY Zenon, <2>1, <2>3, <2>4, <2>5, <3>1
    <3>2. CASE ~(p + d >= N + 1)
      BY <2>3, <2>4, <2>5, <3>2
    <3>3. QED
      BY <3>1, <3>2
  <2>6. QED
    BY <2>2, <2>5
<1> HIDE DEF T
<1>3. N \in T
  BY <1>1, <1>2, SetInduction
<1>4. PICK g : /\ g = [p \in 1 .. N + 1 |-> g[p]]
               /\ \A p \in 1 .. N + 1 : p + N >= N + 1 => g[p] = NalBody(data, g, p)
  BY <1>3 DEF T
<1>5. \A p \in 1 .. N + 1 : g[p] = NalBody(data, g, p)
  BY <1>4
<1>6. g = [p \in 1 .. N + 1 |-> NalBody(data, g, p)]
  <2>1. [p \in 1 .. N + 1 |-> g[p]] = [p \in 1 .. N + 1 |-> NalBody(data, g, p)]
    BY <1>5
  <2>2. QED
    BY <1>4, <2>1
<1>7. \E f : f = [p \in 1 .. Len(data) + 1 |-> NalBody(data, f, p)]
  BY <1>6
<1>8. QED
  BY Zenon, <1>7 DEF NalFrom

\* A set of places of which each leads to the one behind it is the set of NAL units.
LEMMA NalStartsAre ==
  ASSUME NEW data, Len(data) \in Nat, NEW P \in SUBSET (1 .. Len(data) + 1), 1 \in P,
         \A p \in P : p <= Len(data) =>
           /\ p + NaluLengthField + NalSize(data, p) \in P
           /\ p + NaluLengthField + NalSize(data, p) > p
           /\ \A q \in P : q > p => q >= p + NaluLengthField + NalSize(data, p)
  PROVE  NalStarts(data) = P
<1> DEFINE N == Len(data)
           F == NalFrom(data)
           T == {d \in Nat : \A p \in P : p + d >= N + 1 => F[p] = {q \in P : q >= p}}
<1>1. \A p \in 1 .. N + 1 : F[p] = NalBody(data, F, p)
  BY NalFromExists
<1>2. P \subseteq 1 .. N + 1
  OBVIOUS
<1> HIDE DEF F
<1>3. ASSUME NEW p \in P, p > N PROVE F[p] = {q \in P : q >= p}
  <2>1. F[p] = {p}
    BY Zenon, <1>1, <1>2, <1>3 DEF NalBody
  <2>2. \A q \in P : q >= p <=> q = p
    BY <1>2, <1>3
  <2>3. QED
    BY Zenon, <2>1, <2>2
<1>4. 0 \in T
  <2>1. \A p \in P : p + 0 >= N + 1 => p > N
    BY <1>2
  <2>2. QED
    BY <1>3, <2>1
<1>5. ASSUME NEW d \in Nat, d \in T PROVE d + 1 \in T
  <2>1. SUFFICES ASSUME NEW p \in P, p + (d + 1) >= N + 1, ~(p > N)
                 PROVE  F[p] = {q \in P : q >= p}
    BY <1>3
  <2> DEFINE next == p + NaluLengthField + NalSize(data, p)
  <2>2. p \in 1 .. N + 1 /\ p <= N
    BY <1>2, <2>1
  <2>3. next \in P /\ next > p /\ \A q \in P : q > p => q >= next
    BY <2>2
  <2>4. next \in p + 1 .. N + 1 /\ next \in 1 .. N + 1
    <3> HIDE DEF next
    <3>1. next \in 1 .. N + 1
      BY <1>2, <2>3
    <3>2. QED
      BY <2>2, <2>3, <3>1
  <2>5. F[p] = {p} \cup F[next]
    <3>1. NalBody(data, F, p) = {p} \cup (IF next \in p + 1 .. N + 1 THEN F[next] ELSE {})
      BY <2>1 DEF NalBody
    <3> HIDE DEF next
    <3>2. QED
      BY <1>1, <2>2, <2>4, <3>1
  <2> HIDE DEF next
  <2>6. F[next] = {q \in P : q >= next}
    <3>1. next + d >= N + 1
      BY <2>1, <2>2, <2>4
    <3>2. QED
      BY <1>5, <2>3, <3>1
  <2>7. \A q \in P : q >= p <=> q = p \/ q >= next
    <3>1. TAKE q \in P
    <3>2. q \in Nat /\ next \in Nat /\ p \in Nat
      BY <1>2, <2>2, <2>4
    <3>3. QED
      BY <2>3, <3>2
  <2>8. QED
    BY Zenon, <2>5, <2>6, <2>7
<1> HIDE DEF T
<1>6. N \in T
  BY <1>4, <1>5, SetInduction
<1>7. F[1] = {q \in P : q >= 1}
  BY <1>6 DEF T
<1>8. F[1] = P
  <2>1. \A q \in P : q >= 1
    BY <1>2
  <2>2. QED
    BY Zenon, <1>7, <2>1
<1>9. QED
  BY <1>8, NalStartsIsFrom DEF F

\* A number is made of its four bytes, the first of any size.
LEMMA DigitsOf ==
  ASSUME NEW n \in Nat
  PROVE  (n \div 16777216) * 16777216 + ((n \div 65536) % 256) * 65536 + ((n \div 256) % 256) * 256 + (n % 256) = n
<1> DEFINE a == n \div 256
           b == n \div 65536
           c == n \div 16777216
<1>1. a \in Nat /\ b \in Nat /\ c \in Nat
  BY SMT
<1>2. n % 256 = n - 256 * a
  BY SMT
<1>3. a % 256 = a - 256 * b
  <2>1. a \div 256 = b
    BY SMT
  <2>2. a % 256 = a - 256 * (a \div 256)
    BY SMT, <1>1
  <2>3. QED
    BY <2>1, <2>2
<1>4. b % 256 = b - 256 * c
  <2>1. b \div 256 = c
    BY SMT
  <2>2. b % 256 = b - 256 * (b \div 256)
    BY SMT, <1>1
  <2>3. QED
    BY <2>1, <2>2
<1> DEFINE x == n % 256
           y == a % 256
           z == b % 256
<1>5. x = n - 256 * a /\ y = a - 256 * b /\ z = b - 256 * c
  BY <1>2, <1>3, <1>4
<1> HIDE DEF a, b, c, x, y, z
<1>6. c * 16777216 + z * 65536 + y * 256 + x = n
  BY SMT, <1>1, <1>5
<1>7. c * 16777216 + (b % 256) * 65536 + (a % 256) * 256 + (n % 256) = n
  BY SMT, <1>6 DEF x, y, z
<1>8. QED
  BY SMT, <1>7 DEF a, b, c

\* What a unit is in the file and after the conversion.
IsUnit(x, y) ==
  /\ x \in Seq(Int) /\ y \in Seq(Int) /\ Len(x) >= 4 /\ Len(y) = Len(x)
  /\ NalSize(x, 1) = Len(x) - 4
  /\ y[1] = 0 /\ y[2] = 0 /\ y[3] = 0 /\ y[4] = 1
  /\ \A j \in 5 .. Len(x) : y[j] = x[j]

\* A length field read back by NalSize() is the length; a start code is as long.
LEMMA UnitConverted ==
  ASSUME NEW p \in Seq(Int), NEW n \in Nat, n = Len(p)
  PROVE  IsUnit(LengthField(n) \o p, <<0, 0, 0, 1>> \o p)
<1> DEFINE h == LengthField(n)
           g == <<0, 0, 0, 1>>
           x == h \o p
           y == g \o p
<1>1. n \in Nat
  BY SMT
<1>2. g \in Seq(Int) /\ Len(g) = 4 /\ g[1] = 0 /\ g[2] = 0 /\ g[3] = 0 /\ g[4] = 1
  BY SMT
<1>3. /\ h \in Seq(Int) /\ Len(h) = 4
      /\ h[1] \in Int /\ h[2] \in Int /\ h[3] \in Int /\ h[4] \in Int
      /\ h[1] * 16777216 + h[2] * 65536 + h[3] * 256 + h[4] = n
  <2> DEFINE a == n \div 16777216
             b == (n \div 65536) % 256
             c == (n \div 256) % 256
             d == n % 256
  <2>1. h = <<a, b, c, d>>
    BY SMT DEF LengthField
  <2>2. a \in Int /\ b \in Int /\ c \in Int /\ d \in Int
    BY SMT
  <2>3. a * 16777216 + b * 65536 + c * 256 + d = n
    BY SMT, DigitsOf
  <2> HIDE DEF a, b, c, d, h
  <2>4. QED
    BY SMT, <2>1, <2>2, <2>3
<1> HIDE DEF g, h
<1>4. /\ x \in Seq(Int) /\ Len(x) = Len(h) + Len(p)
      /\ \A i \in 1 .. Len(h) + Len(p) : x[i] = IF i <= Len(h) THEN h[i] ELSE p[i - Len(h)]
  <2>1. PICK w \in Seq(Int) : w = h
    BY <1>3
  <2>2. /\ w \o p \in Seq(Int) /\ Len(w \o p) = Len(w) + Len(p)
        /\ \A i \in 1 .. Len(w) + Len(p) : (w \o p)[i] = IF i <= Len(w) THEN w[i] ELSE p[i - Len(w)]
    BY ConcatProperties
  <2>3. QED
    BY <2>1, <2>2
<1>5. /\ y \in Seq(Int) /\ Len(y) = Len(g) + Len(p)
      /\ \A i \in 1 .. Len(g) + Len(p) : y[i] = IF i <= Len(g) THEN g[i] ELSE p[i - Len(g)]
  <2>1. PICK w \in Seq(Int) : w = g
    BY <1>2
  <2>2. /\ w \o p \in Seq(Int) /\ Len(w \o p) = Len(w) + Len(p)
        /\ \A i \in 1 .. Len(w) + Len(p) : (w \o p)[i] = IF i <= Len(w) THEN w[i] ELSE p[i - Len(w)]
    BY ConcatProperties
  <2>3. QED
    BY <2>1, <2>2
<1> HIDE DEF x, y
<1>6. Len(x) = 4 + n /\ Len(y) = 4 + n
  BY SMT, <1>2, <1>3, <1>4, <1>5
<1>7. 1 \in 1 .. 4 + n /\ 2 \in 1 .. 4 + n /\ 3 \in 1 .. 4 + n /\ 4 \in 1 .. 4 + n
  BY SMT
<1>8. x[1] = h[1] /\ x[2] = h[2] /\ x[3] = h[3] /\ x[4] = h[4]
  BY SMT, <1>3, <1>4, <1>7
<1>9. y[1] = 0 /\ y[2] = 0 /\ y[3] = 0 /\ y[4] = 1
  BY SMT, <1>2, <1>5, <1>7
<1>10. ASSUME NEW j \in 5 .. Len(x) PROVE y[j] = x[j]
  <2>1. j \in 1 .. 4 + n /\ ~(j <= 4)
    BY SMT, <1>6
  <2>2. QED
    BY SMT, <1>2, <1>3, <1>4, <1>5, <2>1
<1>11. NalSize(x, 1) = Len(x) - 4
  <2>1. NalSize(x, 1) = x[1] * 16777216 + x[2] * 65536 + x[3] * 256 + x[4]
    BY SMT DEF NalSize
  <2>2. QED
    BY SMT, <1>3, <1>6, <1>8, <2>1
<1>12. QED
  BY SMTT(20), <1>4, <1>5, <1>6, <1>9, <1>10, <1>11 DEF IsUnit, x, y, g, h

\* Units of at least four bytes do not begin within four bytes of each other.
LEMMA PlacesOfUnits ==
  ASSUME NEW a \in Seq(Nat), \A u \in 1 .. Len(a) : a[u] >= 4,
         NEW u \in 1 .. Len(a), NEW j \in 1 .. a[u], NEW c \in 0 .. 3, NEW v \in 0 .. Len(a),
         Offset(a, u - 1) + (j - c) = Offset(a, v) + 1
  PROVE  j = c + 1
<1>1. Len(a) \in Nat /\ \A k \in 1 .. Len(a) : a[k] \in Nat
  BY Zenon, LenProperties
<1>2. \A k \in 0 .. Len(a) : Offset(a, k) \in Nat
  BY OffsetStep
<1>3. \A k \in 1 .. Len(a) : k - 1 \in 0 .. Len(a) /\ k \in 0 .. Len(a) /\ Offset(a, k) = Offset(a, k - 1) + a[k]
  BY <1>1, OffsetStep
<1>4. j = c + 1
  <2> DEFINE o == Offset(a, u - 1)
             w == v + 1
  <2>1. o \in Nat /\ j \in Nat /\ c \in Nat /\ Offset(a, v) \in Nat /\ a[u] \in Nat /\ j >= 1 /\ j <= a[u] /\ c <= 3
    <3>1. u \in 0 .. Len(a) /\ u - 1 \in 0 .. Len(a)
      BY <1>1
    <3>2. o \in Nat /\ Offset(a, v) \in Nat /\ a[u] \in Nat
      BY Zenon, <1>1, <1>2, <3>1
    <3> HIDE DEF o
    <3>3. QED
      BY SMTT(20), <3>2
  <2>2. v < Len(a)
    <3>1. SUFFICES ASSUME v = Len(a) PROVE FALSE
      BY <1>1
    <3>2. Offset(a, u) <= Offset(a, v)
      BY <1>1, <1>3, <3>1, OffsetMonotonic
    <3>3. Offset(a, u) = o + a[u]
      BY <1>3
    <3> HIDE DEF o
    <3>4. QED
      BY SMTT(20), <2>1, <3>2, <3>3 DEF o
  <2>3. w \in 1 .. Len(a) /\ w - 1 = v
    BY <1>1, <2>2
  <2>4. 1 \in 1 .. a[w]
    BY SMTT(20), <1>1, <2>3
  <2>5. CASE j > c
    <3> DEFINE l == j - c
    <3>1. l \in 1 .. a[u] /\ o + l = Offset(a, w - 1) + 1
      <4>1. l \in 1 .. a[u] /\ o + l = o + j - c
        BY SMTT(20), <2>1, <2>5
      <4>2. QED
        BY <2>3, <4>1
    <3> HIDE DEF l
    <3>2. l = 1
      BY SMTT(20), <2>3, <2>4, <3>1, OffsetUnique
    <3>3. QED
      BY <2>1, <3>2 DEF l
  <2>6. CASE ~(j > c)
    <3> DEFINE l == a[u - 1] + j - c
    <3>1. u - 1 >= 1
      <4>1. SUFFICES ASSUME u = 1 PROVE FALSE
        BY <1>1
      <4>2. o = 0
        BY <4>1, OffsetStep
      <4> HIDE DEF o
      <4>3. QED
        BY <2>1, <2>6, <4>2 DEF o
    <3>2. u - 1 \in 1 .. Len(a) /\ (u - 1) - 1 \in 0 .. Len(a)
      BY <1>1, <3>1
    <3>3. o = Offset(a, (u - 1) - 1) + a[u - 1] /\ a[u - 1] \in Nat /\ a[u - 1] >= 4 /\ Offset(a, (u - 1) - 1) \in Nat
      BY Zenon, <1>1, <1>2, <1>3, <3>2
    <3>4. l \in 1 .. a[u - 1] /\ l > 1
      <4> DEFINE d == a[u - 1]
      <4>1. d \in Nat /\ d >= 4
        BY <3>3
      <4> HIDE DEF d
      <4>2. d + j - c \in 1 .. d /\ d + j - c > 1
        BY SMTT(20), <2>1, <2>6, <4>1
      <4>3. QED
        BY <4>2 DEF d
    <3>5. Offset(a, (u - 1) - 1) + l = Offset(a, w - 1) + 1
      <4> DEFINE q == Offset(a, (u - 1) - 1)
                 d == a[u - 1]
      <4>1. o = q + d /\ q \in Nat /\ d \in Nat
        BY <3>3
      <4> HIDE DEF q, d, o
      <4>2. q + (d + j - c) = o + j - c
        BY <2>1, <4>1
      <4>3. QED
        BY <2>3, <4>2 DEF q, d, o
    <3> HIDE DEF l
    <3>6. l = 1
      <4>1. PICK k \in 1 .. Len(a) : k = u - 1
        BY <3>2
      <4>2. l \in 1 .. a[k] /\ Offset(a, k - 1) + l = Offset(a, w - 1) + 1
        BY <3>4, <3>5, <4>1
      <4> HIDE DEF w
      <4>3. QED
        BY ZenonT(20), <2>3, <2>4, <4>2, OffsetUnique
    <3>7. QED
      BY <3>4, <3>6
  <2>7. QED
    BY <2>5, <2>6
<1>5. QED
  BY <1>4

\* Where the units start, and the place behind the last one.
Starts(a) == {Offset(a, v) + 1 : v \in 0 .. Len(a)}

\* Following the length fields finds exactly the beginnings of the units.
LEMMA NalStartsOfUnits ==
  ASSUME NEW units \in Seq(Seq(Int)), NEW conv, \A u \in 1 .. Len(units) : IsUnit(units[u], conv[u]),
         NEW data, data = FlattenSeq(units), NEW a, a = Lens(units)
  PROVE  /\ NalStarts(data) = Starts(a)
         /\ Len(data) + 1 \in Starts(a)
         /\ a \in Seq(Nat) /\ Len(a) = Len(units) /\ \A u \in 1 .. Len(a) : a[u] >= 4
<1> DEFINE n == Len(units)
           N == Len(data)
           P == Starts(a)
<1>1. n \in Nat
  BY LenProperties
<1>2. /\ a \in Seq(Nat) /\ Len(a) = n
      /\ \A u \in 1 .. n : a[u] = Len(units[u])
      /\ data \in Seq(Int) /\ N = Sum(a)
      /\ \A u \in 1 .. n : \A j \in 1 .. Len(units[u]) : data[Offset(a, u - 1) + j] = units[u][j]
  BY SMTT(20), FlattenProperties
<1>3. \A u \in 1 .. n : Len(units[u]) \in Nat /\ Len(units[u]) >= 4
  BY LenProperties DEF IsUnit
<1>4. \A u \in 1 .. n : a[u] \in Nat /\ a[u] >= 4
  BY Zenon, <1>2, <1>3
<1>5. /\ Offset(a, 0) = 0 /\ Offset(a, n) = N /\ N \in Nat
      /\ \A v \in 0 .. n : Offset(a, v) \in Nat
      /\ \A u \in 1 .. n : Offset(a, u) = Offset(a, u - 1) + a[u]
  BY <1>1, <1>2, OffsetStep
<1> HIDE DEF n, N
<1>6. \A v \in 0 .. n : Offset(a, v) <= N
  <2>1. TAKE v \in 0 .. n
  <2>2. n \in v .. Len(a) /\ v \in 0 .. Len(a)
    BY <1>1, <1>2
  <2>3. QED
    BY Zenon, <1>2, <1>5, <2>2, OffsetMonotonic
<1>7. P \in SUBSET (1 .. N + 1) /\ 1 \in P /\ N + 1 \in P
  <2>1. \A v \in 0 .. n : Offset(a, v) + 1 \in 1 .. N + 1
    BY <1>5, <1>6
  <2>2. 0 \in 0 .. n /\ n \in 0 .. n
    BY <1>1
  <2>3. QED
    BY <1>2, <1>5, <2>1, <2>2 DEF Starts
<1>8. ASSUME NEW p \in P, p <= N
      PROVE  /\ p + NaluLengthField + NalSize(data, p) \in P
             /\ p + NaluLengthField + NalSize(data, p) > p
             /\ \A q \in P : q > p => q >= p + NaluLengthField + NalSize(data, p)
  <2>1. PICK v \in 0 .. n : p = Offset(a, v) + 1
    BY <1>2 DEF Starts
  <2> DEFINE u == v + 1
             o == Offset(a, v)
             x == units[u]
  <2>2. u \in 1 .. n /\ u - 1 = v
    <3>1. v # n
      BY <1>5, <1>8, <2>1
    <3>2. QED
      BY <1>1, <3>1
  <2>3. o \in Nat /\ Offset(a, u) = o + a[u] /\ a[u] = Len(x) /\ a[u] \in Nat /\ a[u] >= 4
    BY Zenon, <1>2, <1>4, <1>5, <2>2
  <2>4. \A j \in 1 .. a[u] : data[o + j] = x[j]
    <3>1. \A j \in 1 .. Len(units[u]) : data[Offset(a, u - 1) + j] = units[u][j]
      BY Zenon, <1>2, <2>2
    <3>2. QED
      BY Zenon, <2>2, <2>3, <3>1
  <2>5. data[p] = x[1] /\ data[p + 1] = x[2] /\ data[p + 2] = x[3] /\ data[p + 3] = x[4]
    <3>1. o + 1 = p /\ o + 2 = p + 1 /\ o + 3 = p + 2 /\ o + 4 = p + 3
      BY SMTT(20), <2>1, <2>3
    <3>2. 1 \in 1 .. a[u] /\ 2 \in 1 .. a[u] /\ 3 \in 1 .. a[u] /\ 4 \in 1 .. a[u]
      BY SMTT(20), <2>3
    <3>3. data[o + 1] = x[1] /\ data[o + 2] = x[2] /\ data[o + 3] = x[3] /\ data[o + 4] = x[4]
      BY <2>4, <3>2
    <3> HIDE DEF o, x
    <3>4. QED
      BY <3>1, <3>3
  <2>6. IsUnit(x, conv[u])
    BY <2>2 DEF n
  <2>7. NalSize(data, p) = Len(x) - 4
    <3>1. NalSize(x, 1) = Len(x) - 4
      BY <2>6 DEF IsUnit
    <3> HIDE DEF x
    <3>2. NalSize(data, p) = NalSize(x, 1)
      BY SMT, <2>5 DEF NalSize
    <3>3. QED
      BY <3>1, <3>2
  <2> DEFINE next == p + NaluLengthField + NalSize(data, p)
  <2>8. next = Offset(a, u) + 1
    <3> DEFINE m == NalSize(data, p)
               l == Len(x)
               e == Offset(a, u)
    <3>1. m = l - 4 /\ e = o + l /\ o \in Nat /\ l \in Nat /\ p = o + 1
      BY <2>1, <2>3, <2>7
    <3> HIDE DEF m, l, e, o
    <3>2. p + 4 + m = e + 1
      BY <3>1
    <3>3. QED
      BY <3>2 DEF m, e, NaluLengthField
  <2>9. u \in 0 .. n
    BY <1>1, <2>2
  <2>10. Offset(a, u) \in Nat /\ next > p
    BY SMTT(20), <1>5, <2>1, <2>3, <2>8, <2>9
  <2>11. ASSUME NEW q \in P, q > p PROVE q >= next
    <3>1. PICK w \in 0 .. n : q = Offset(a, w) + 1
      BY <1>2 DEF Starts
    <3>2. Offset(a, w) \in Nat
      BY <1>5
    <3>3. w >= u
      <4>1. SUFFICES ASSUME w <= v PROVE FALSE
        BY <1>1
      <4>2. w \in 0 .. Len(a) /\ v \in w .. Len(a)
        BY <1>1, <1>2, <4>1
      <4>3. Offset(a, w) <= Offset(a, v)
        BY <1>2, <4>2, OffsetMonotonic
      <4>4. QED
        BY <2>1, <2>3, <2>11, <3>1, <3>2, <4>3
    <3>4. Offset(a, u) <= Offset(a, w)
      <4>1. u \in 0 .. Len(a) /\ w \in u .. Len(a)
        BY <1>1, <1>2, <2>9, <3>3
      <4> HIDE DEF u
      <4>2. QED
        BY <1>2, <4>1, OffsetMonotonic
    <3> HIDE DEF next, u
    <3>5. QED
      BY <2>8, <2>10, <3>1, <3>2, <3>4
  <2>12. next \in P
    <3> HIDE DEF next, u
    <3>1. QED
      BY <1>2, <2>8, <2>9 DEF Starts
  <2>13. QED
    BY <2>10, <2>11, <2>12
<1> HIDE DEF P
<1>9. NalStarts(data) = P
  BY <1>5, <1>7, <1>8, NalStartsAre DEF N
<1>10. QED
  BY Zenon, <1>2, <1>4, <1>7, <1>9 DEF P, N, n

\* A byte up to three behind a start is one of the first four of its unit.
LEMMA StartsInside ==
  ASSUME NEW a \in Seq(Nat), \A u \in 1 .. Len(a) : a[u] >= 4,
         NEW u \in 1 .. Len(a), NEW j \in 1 .. a[u], NEW c \in 0 .. 3,
         NEW i \in Nat, i = Offset(a, u - 1) + j, i - c \in Starts(a)
  PROVE  j = c + 1
<1>1. Len(a) \in Nat /\ u - 1 \in 0 .. Len(a) /\ a[u] \in Nat
  BY SMTT(20), LenProperties
<1>2. Offset(a, u - 1) \in Nat /\ j \in Nat
  BY SMTT(20), <1>1, OffsetStep
<1>3. PICK v \in 0 .. Len(a) : i - c = Offset(a, v) + 1
  BY DEF Starts
<1>4. Offset(a, u - 1) + (j - c) = Offset(a, v) + 1
  BY <1>2, <1>3
<1>5. QED
  BY ZenonT(40), <1>4, PlacesOfUnits

\* ProcessSampleDataInPlace() reaches the end and turns every unit's length into a start code.
LEMMA AnnexBOfUnits ==
  ASSUME NEW units \in Seq(Seq(Int)), NEW conv \in Seq(Seq(Int)), Len(conv) = Len(units),
         \A u \in 1 .. Len(units) : IsUnit(units[u], conv[u])
  PROVE  /\ Len(FlattenSeq(units)) + 1 \in NalStarts(FlattenSeq(units))
         /\ AnnexB(FlattenSeq(units)) = FlattenSeq(conv)
<1> DEFINE n == Len(units)
<1>1. PICK data \in Seq(Int) : data = FlattenSeq(units)
  BY FlattenProperties
<1>2. PICK a \in Seq(Nat) : a = Lens(units)
  BY FlattenProperties
<1>3. /\ NalStarts(data) = Starts(a) /\ Len(data) + 1 \in Starts(a)
      /\ a \in Seq(Nat) /\ Len(a) = n /\ \A u \in 1 .. n : a[u] >= 4
  BY Zenon, <1>1, <1>2, NalStartsOfUnits
<1>4. n \in Nat /\ DOMAIN data = 1 .. Len(data) /\ Len(data) \in Nat
  BY LenProperties
<1>5. /\ \A u \in 1 .. n : a[u] = Len(units[u])
      /\ Len(data) = Sum(a)
      /\ \A u \in 1 .. n : \A j \in 1 .. Len(units[u]) : data[Offset(a, u - 1) + j] = units[u][j]
  BY ZenonT(20), <1>1, <1>2, FlattenProperties
<1>6. a = Lens(conv)
  <2>1. /\ Lens(conv) \in Seq(Nat) /\ Len(Lens(conv)) = n /\ \A k \in 1 .. n : Lens(conv)[k] = Len(conv[k])
    BY FlattenProperties
  <2>2. \A k \in 1 .. n : Len(conv[k]) = Len(units[k])
    BY DEF IsUnit
  <2> DEFINE b == Lens(conv)
  <2>3. b \in Seq(Nat) /\ Len(b) = Len(a) /\ \A k \in 1 .. Len(a) : b[k] = a[k]
    BY <1>3, <1>5, <2>1, <2>2
  <2> HIDE DEF b
  <2>4. b = a
    BY <1>3, <2>3, SeqEqual
  <2>5. QED
    BY <2>4 DEF b
<1> DEFINE t == AnnexB(data)
<1>7. t = [i \in 1 .. Len(data) |-> IF i - 3 \in Starts(a) THEN 1
                                   ELSE IF {i, i - 1, i - 2} \cap Starts(a) # {} THEN 0
                                   ELSE data[i]]
  BY <1>3, <1>4 DEF AnnexB
<1> HIDE DEF t, n
<1>8. t \in Seq(Int) /\ Len(t) = Len(data)
  <2>1. \A i \in 1 .. Len(data) : data[i] \in Int
    BY LenProperties
  <2>2. t \in [1 .. Len(data) -> Int]
    BY <1>7, <2>1
  <2>3. QED
    BY Zenon, <1>4, <2>2, FunctionIsSeq
<1>9. ASSUME NEW u \in 1 .. n, NEW j \in 1 .. Len(conv[u])
      PROVE  t[Offset(a, u - 1) + j] = conv[u][j]
  <2> DEFINE o == Offset(a, u - 1)
             i == o + j
  <2>1. /\ u \in 1 .. Len(a) /\ j \in 1 .. a[u] /\ a[u] \in Nat /\ a[u] = Len(units[u])
        /\ u - 1 \in 0 .. Len(a) /\ IsUnit(units[u], conv[u])
    <3>1. IsUnit(units[u], conv[u])
      BY DEF n
    <3>2. Len(conv[u]) = Len(units[u])
      BY <3>1 DEF IsUnit
    <3>3. u \in 1 .. Len(a) /\ u - 1 \in 0 .. Len(a) /\ a[u] = Len(units[u]) /\ a[u] \in Nat
      BY <1>3, <1>4, <1>5, LenProperties
    <3>4. QED
      BY <3>1, <3>2, <3>3
  <2>2. o \in Nat /\ i \in 1 .. Len(data)
    <3>1. o \in Nat /\ Offset(a, u) = o + a[u] /\ Len(data) = Offset(a, Len(a))
      BY Zenon, <1>3, <1>5, <2>1, OffsetStep
    <3>2. Offset(a, u) <= Offset(a, Len(a))
      <4>1. u \in 0 .. Len(a) /\ Len(a) \in u .. Len(a)
        BY <1>3, <1>4, <2>1
      <4>2. QED
        BY <1>3, <4>1, OffsetMonotonic
    <3> HIDE DEF o
    <3>3. QED
      BY <1>4, <2>1, <3>1, <3>2
  <2>3. data[i] = units[u][j]
    BY Zenon, <1>5, <1>9, <2>1
  <2>4. \A c \in 0 .. 3 : i - c \in Starts(a) <=> j = c + 1
    <3>0. PICK l \in 1 .. Len(a) : l = u
      BY <2>1
    <3>1. PICK m \in 1 .. a[l] : l = u /\ m = j
      BY Zenon, <2>1, <3>0
    <3>2. PICK p \in Nat : p = i
      BY <1>4, <2>2
    <3>3. p = Offset(a, l - 1) + m /\ \A k \in 1 .. Len(a) : a[k] >= 4
      BY <1>3, <3>1, <3>2
    <3>4. \A c \in 0 .. 3 : p - c \in Starts(a) => m = c + 1
      <4>1. TAKE c \in 0 .. 3
      <4>2. HAVE p - c \in Starts(a)
      <4>3. QED
        BY ZenonT(20), <3>3, <4>2, StartsInside
    <3>5. \A c \in 0 .. 3 : m = c + 1 => p - c \in Starts(a)
      <4>1. TAKE c \in 0 .. 3
      <4>2. HAVE m = c + 1
      <4>3. p - c = Offset(a, l - 1) + 1
        BY <2>2, <3>1, <3>3, <4>2
      <4>4. QED
        BY <2>1, <3>1, <4>3 DEF Starts
    <3> HIDE DEF i
    <3>6. QED
      BY Zenon, <3>1, <3>2, <3>4, <3>5
  <2> HIDE DEF i
  <2>5. /\ i - 3 \in Starts(a) <=> j = 4
        /\ i - 2 \in Starts(a) <=> j = 3
        /\ i - 1 \in Starts(a) <=> j = 2
        /\ i \in Starts(a) <=> j = 1
    <3>1. i - 0 = i
      BY <2>2
    <3>2. QED
      BY <2>4, <3>1
  <2>6. t[i] = IF j = 4 THEN 1 ELSE IF j \in {1, 2, 3} THEN 0 ELSE data[i]
    <3>1. {i, i - 1, i - 2} \cap Starts(a) # {} <=> j \in {1, 2, 3}
      BY Zenon, <2>5
    <3>2. QED
      BY Zenon, <1>7, <2>2, <2>5, <3>1
  <2>7. /\ conv[u][1] = 0 /\ conv[u][2] = 0 /\ conv[u][3] = 0 /\ conv[u][4] = 1
        /\ \A k \in 5 .. a[u] : conv[u][k] = units[u][k]
    BY Zenon, <2>1 DEF IsUnit
  <2>8. j \in {1, 2, 3, 4} \/ j \in 5 .. a[u]
    BY <2>1
  <2>9. QED
    BY Zenon, <2>3, <2>6, <2>7, <2>8 DEF i, o
<1>10. t = FlattenSeq(conv)
  <2>1. Len(t) = Sum(Lens(conv))
    BY <1>5, <1>6, <1>8
  <2>2. \A u \in 1 .. Len(conv) : \A j \in 1 .. Len(conv[u]) : t[Offset(Lens(conv), u - 1) + j] = conv[u][j]
    BY Zenon, <1>6, <1>9 DEF n
  <2>3. QED
    BY Zenon, <1>8, <2>1, <2>2, FlattenUnique
<1>11. QED
  BY <1>1, <1>3, <1>10 DEF t

\* A video subsample is a unit with a length field that ProcessSampleDataInPlace() follows.
LEMMA UnitIsUnit ==
  ASSUME NEW r \in Nat, NEW k \in Nat, NEW u \in Nat, NEW s \in Nat \X Nat, s[1] >= NaluLengthField
  PROVE  IsUnit(UnitOf("video", r, k, u, s, "mp4"), UnitOf("video", r, k, u, s, "annexb"))
<1>1. PICK c \in Nat : c = s[1] - NaluLengthField
  BY DEF NaluLengthField
<1>2. PICK d \in Nat : d = s[2]
  OBVIOUS
<1>3. PICK n \in Nat : n = c + d
  OBVIOUS
<1>4. PICK p \in Seq(Int) : p = Payload(r, k, u, c, d) /\ Len(p) = n
  <2>1. /\ Payload(r, k, u, c, d) \in Seq(Int)
        /\ Len(Payload(r, k, u, c, d)) = c + d
        /\ \A j \in 1 .. c + d : Payload(r, k, u, c, d)[j] < 0 <=> j > c
    BY Zenon, PayloadProperties
  <2>2. QED
    BY <1>3, <2>1
<1>5. UnitOf("video", r, k, u, s, "mp4") = LengthField(n) \o p
  BY <1>1, <1>2, <1>3, <1>4 DEF UnitOf
<1>6. UnitOf("video", r, k, u, s, "annexb") = <<0, 0, 0, 1>> \o p
  BY <1>1, <1>2, <1>4 DEF UnitOf
<1>7. IsUnit(LengthField(n) \o p, <<0, 0, 0, 1>> \o p)
  BY <1>4, UnitConverted
<1>8. QED
  BY Zenon, <1>5, <1>6, <1>7

UnitsOfSamples(media, r, samples, form) ==
  [k \in DOMAIN samples |-> UnitsOf(media, r, k, samples[k], form)]

\* The units of a table, frame by frame, are what its frames are made of.
LEMMA UnitsOfSamplesProperties ==
  ASSUME NEW media, NEW form, NEW r \in Nat, NEW samples \in Tables, IsTable(media, samples),
         NEW uss, uss = UnitsOfSamples(media, r, samples, form)
  PROVE  /\ uss \in Seq(Seq(Seq(Int))) /\ Len(uss) = Len(samples)
         /\ \A k \in 1 .. Len(samples) : /\ uss[k] = UnitsOf(media, r, k, samples[k], form)
                                         /\ Len(uss[k]) = Len(samples[k])
         /\ FlattenEach(uss) = SamplesOf(media, r, samples, form)
<1> DEFINE n == Len(samples)
<1>1. n \in Nat /\ DOMAIN samples = 1 .. n /\ \A k \in 1 .. n : k \in Nat /\ IsSample(media, samples[k])
  BY TableProperties
<1>2. \A k \in 1 .. n : /\ UnitsOf(media, r, k, samples[k], form) \in Seq(Seq(Int))
                        /\ Len(UnitsOf(media, r, k, samples[k], form)) = Len(samples[k])
  <2>1. TAKE k \in 1 .. n
  <2>2. PICK s : s = samples[k] /\ IsSample(media, s)
    BY <1>1
  <2>3. PICK m \in Nat : m = k
    BY <1>1
  <2>4. PICK units : units = UnitsOf(media, r, m, s, form)
    OBVIOUS
  <2>5. units \in Seq(Seq(Int)) /\ Len(units) = Len(s)
    BY <2>2, <2>4, UnitsProperties
  <2>6. QED
    BY <2>2, <2>3, <2>4, <2>5
<1>3. uss = [k \in 1 .. n |-> UnitsOf(media, r, k, samples[k], form)]
  BY <1>1 DEF UnitsOfSamples
<1> HIDE DEF n
<1>4. uss \in [1 .. n -> Seq(Seq(Int))]
  BY <1>2, <1>3
<1>5. uss \in Seq(Seq(Seq(Int))) /\ Len(uss) = n /\ DOMAIN uss = 1 .. n
  BY <1>1, <1>4, FunctionIsSeq
<1>6. \A k \in 1 .. n : uss[k] = UnitsOf(media, r, k, samples[k], form)
  BY <1>3
<1>7. FlattenEach(uss) = SamplesOf(media, r, samples, form)
  BY <1>1, <1>5, <1>6 DEF FlattenEach, SamplesOf, SampleOf
<1>8. QED
  BY <1>2, <1>5, <1>6, <1>7 DEF n

\* The video demuxer's conversion does for a whole sample what it should do for each frame.
LEMMA SamplesConverted ==
  ASSUME NEW r \in Nat, NEW samples \in Tables, IsTable("video", samples),
         NEW data, data = FlattenSeq(SamplesOf("video", r, samples, "mp4"))
  PROVE  /\ Len(data) + 1 \in NalStarts(data)
         /\ AnnexB(data) = FlattenSeq(SamplesOf("video", r, samples, "annexb"))
<1>1. PICK uss : uss = UnitsOfSamples("video", r, samples, "mp4")
  OBVIOUS
<1>2. PICK vss : vss = UnitsOfSamples("video", r, samples, "annexb")
  OBVIOUS
<1> DEFINE n == Len(samples)
<1>3. /\ uss \in Seq(Seq(Seq(Int))) /\ Len(uss) = n
      /\ \A k \in 1 .. n : /\ uss[k] = UnitsOf("video", r, k, samples[k], "mp4")
                           /\ Len(uss[k]) = Len(samples[k])
      /\ FlattenEach(uss) = SamplesOf("video", r, samples, "mp4")
  BY <1>1, UnitsOfSamplesProperties
<1>4. /\ vss \in Seq(Seq(Seq(Int))) /\ Len(vss) = n
      /\ \A k \in 1 .. n : /\ vss[k] = UnitsOf("video", r, k, samples[k], "annexb")
                           /\ Len(vss[k]) = Len(samples[k])
      /\ FlattenEach(vss) = SamplesOf("video", r, samples, "annexb")
  BY <1>2, UnitsOfSamplesProperties
<1>5. PICK units \in Seq(Seq(Int)) : units = FlattenSeq(uss) /\ data = FlattenSeq(units)
  BY <1>3, FlattenFlatten
<1>6. PICK conv \in Seq(Seq(Int)) : conv = FlattenSeq(vss) /\ FlattenSeq(SamplesOf("video", r, samples, "annexb")) = FlattenSeq(conv)
  BY <1>4, FlattenFlatten
<1>7. n \in Nat /\ DOMAIN samples = 1 .. n
      /\ \A k \in 1 .. n : k \in Nat /\ IsSample("video", samples[k])
  BY TableProperties
<1> HIDE DEF n
<1>8. PICK a \in Seq(Nat) : a = Lens(uss)
  BY <1>3, FlattenProperties
<1>9. Len(a) = n /\ (\A k \in 1 .. n : a[k] = Len(samples[k])) /\ Len(units) = Sum(a)
      /\ \A k \in 1 .. n : \A j \in 1 .. Len(uss[k]) : units[Offset(a, k - 1) + j] = uss[k][j]
  <2>1. /\ Len(Lens(uss)) = Len(uss) /\ \A k \in 1 .. Len(uss) : Lens(uss)[k] = Len(uss[k])
        /\ Len(FlattenSeq(uss)) = Sum(Lens(uss))
        /\ \A k \in 1 .. Len(uss) : \A j \in 1 .. Len(uss[k]) :
             FlattenSeq(uss)[Offset(Lens(uss), k - 1) + j] = uss[k][j]
    BY ZenonT(40), <1>3, FlattenProperties
  <2>2. QED
    BY Zenon, <1>3, <1>5, <1>8, <2>1
<1>10. PICK b \in Seq(Nat) : b = Lens(vss)
  BY <1>4, FlattenProperties
<1>11. Len(b) = n /\ (\A k \in 1 .. n : b[k] = Len(samples[k])) /\ Len(conv) = Sum(b)
      /\ \A k \in 1 .. n : \A j \in 1 .. Len(vss[k]) : conv[Offset(b, k - 1) + j] = vss[k][j]
  <2>1. /\ Len(Lens(vss)) = Len(vss) /\ \A k \in 1 .. Len(vss) : Lens(vss)[k] = Len(vss[k])
        /\ Len(FlattenSeq(vss)) = Sum(Lens(vss))
        /\ \A k \in 1 .. Len(vss) : \A j \in 1 .. Len(vss[k]) :
             FlattenSeq(vss)[Offset(Lens(vss), k - 1) + j] = vss[k][j]
    BY ZenonT(40), <1>4, FlattenProperties
  <2>2. QED
    BY Zenon, <1>4, <1>6, <1>10, <2>1
<1>12. a = b
  <2>1. \A k \in 1 .. Len(a) : a[k] = b[k]
    BY Zenon, <1>9, <1>11
  <2>2. QED
    BY <1>9, <1>11, <2>1, SeqEqual
<1>13. ASSUME NEW i \in 1 .. Len(units) PROVE IsUnit(units[i], conv[i])
  <2>1. PICK k \in 1 .. n : \E j \in 1 .. Len(uss[k]) : i = Offset(a, k - 1) + j
    BY Zenon, <1>3, <1>5, <1>8, FlattenIndex
  <2>2. PICK u \in 1 .. Len(uss[k]) : i = Offset(a, k - 1) + u
    BY Zenon, <2>1
  <2>3. PICK s : s = samples[k] /\ IsSample("video", s)
    BY <1>7
  <2>4. PICK m \in Nat : m = k
    BY <1>7
  <2>5. s \in Seq(Nat \X Nat) /\ DOMAIN s = 1 .. Len(s) /\ u \in 1 .. Len(s)
    BY Zenon, <1>3, <2>2, <2>3, LenProperties DEF IsSample
  <2>6. PICK x \in Nat \X Nat : x = s[u] /\ x[1] >= NaluLengthField
    <3>1. s[u] \in Nat \X Nat
      BY <2>5, LenProperties
    <3>2. s[u][1] >= NaluLengthField
      BY Zenon, <2>3, <2>5 DEF IsSample
    <3>3. QED
      BY Zenon, <3>1, <3>2
  <2>7. PICK v \in Nat : v = u
    BY <2>5
  <2>8. IsUnit(UnitOf("video", r, m, v, x, "mp4"), UnitOf("video", r, m, v, x, "annexb"))
    BY Zenon, <2>6, UnitIsUnit
  <2>9. units[i] = UnitOf("video", r, m, v, x, "mp4")
    <3>1. units[i] = uss[k][u] /\ uss[k] = UnitsOf("video", r, k, samples[k], "mp4")
      BY Zenon, <1>3, <1>9, <2>2
    <3>2. UnitsOf("video", r, k, samples[k], "mp4")[u] = UnitOf("video", r, m, v, x, "mp4")
      BY <2>3, <2>4, <2>5, <2>6, <2>7 DEF UnitsOf
    <3>3. QED
      BY <3>1, <3>2
  <2>10. conv[i] = UnitOf("video", r, m, v, x, "annexb")
    <3>1. u \in 1 .. Len(vss[k])
      BY Zenon, <1>3, <1>4, <2>2
    <3>2. conv[i] = vss[k][u] /\ vss[k] = UnitsOf("video", r, k, samples[k], "annexb")
      BY Zenon, <1>4, <1>11, <1>12, <2>2, <3>1
    <3>3. UnitsOf("video", r, k, samples[k], "annexb")[u] = UnitOf("video", r, m, v, x, "annexb")
      BY <2>3, <2>4, <2>5, <2>6, <2>7 DEF UnitsOf
    <3>4. QED
      BY <3>2, <3>3
  <2>11. QED
    BY <2>8, <2>9, <2>10
<1>14. Len(conv) = Len(units)
  BY <1>9, <1>11, <1>12
<1>15. Len(FlattenSeq(units)) + 1 \in NalStarts(FlattenSeq(units)) /\ AnnexB(FlattenSeq(units)) = FlattenSeq(conv)
  BY Zenon, <1>13, <1>14, AnnexBOfUnits
<1>16. QED
  BY <1>5, <1>6, <1>15

\* The bytes of an mdat, in the model's words.
LEMMA MdatIsSamples ==
  ASSUME NEW r, NEW samples
  PROVE  MdatBytes(r, samples) = FlattenSeq(SamplesOf(file.media, r, samples, "mp4"))
<1>1. "mp4" # "annexb"
  OBVIOUS
<1>2. ASSUME NEW k, NEW s PROVE SampleBytes(r, k, s, LengthField) = SampleOf(file.media, r, k, s, "mp4")
  BY Zenon, <1>1 DEF SampleBytes, SubsampleBytes, SampleOf, UnitsOf, UnitOf, Video
<1>3. QED
  BY Zenon, <1>2 DEF MdatBytes, SamplesOf

\* The recursion in AdtsFramesAreWhole.
WalkBody(data, g, p) ==
  \/ p = Len(data) + 1
  \/ /\ IsHeader(data, p)
     /\ LET next == p + FrameLength(data, p)
        IN next \in p + 1 .. Len(data) + 1 /\ g[next]
Walk(data) == CHOOSE g : g = [p \in 1 .. Len(data) + 1 |-> WalkBody(data, g, p)]

\* The walk over ADTS headers is defined because it only goes forward.
LEMMA WalkExists ==
  ASSUME NEW data, Len(data) \in Nat
  PROVE  Walk(data) = [p \in 1 .. Len(data) + 1 |-> WalkBody(data, Walk(data), p)]
<1> DEFINE N == Len(data)
           T == {d \in Nat : \E g : /\ g = [p \in 1 .. N + 1 |-> g[p]]
                                    /\ \A p \in 1 .. N + 1 : p + d >= N + 1 => g[p] = WalkBody(data, g, p)}
<1>1. 0 \in T
  <2> DEFINE g == [p \in 1 .. N + 1 |-> WalkBody(data, <<>>, p)]
  <2>1. g = [p \in 1 .. N + 1 |-> g[p]]
    OBVIOUS
  <2>2. ASSUME NEW p \in 1 .. N + 1, p + 0 >= N + 1 PROVE g[p] = WalkBody(data, g, p)
    <3>1. p = N + 1
      BY <2>2
    <3>2. WalkBody(data, g, p) = TRUE /\ WalkBody(data, <<>>, p) = TRUE
      BY <3>1 DEF WalkBody
    <3>3. g[p] = WalkBody(data, <<>>, p)
      BY Zenon
    <3>4. QED
      BY Zenon, <3>2, <3>3
  <2> HIDE DEF g
  <2>3. QED
    BY <2>1, <2>2
<1>2. ASSUME NEW d \in Nat, d \in T PROVE d + 1 \in T
  <2>1. PICK g : /\ g = [p \in 1 .. N + 1 |-> g[p]]
                 /\ \A p \in 1 .. N + 1 : p + d >= N + 1 => g[p] = WalkBody(data, g, p)
    BY <1>2
  <2> DEFINE h == [p \in 1 .. N + 1 |-> IF p + d >= N + 1 THEN g[p] ELSE WalkBody(data, g, p)]
  <2>2. h = [p \in 1 .. N + 1 |-> h[p]]
    OBVIOUS
  <2>3. \A p \in 1 .. N + 1 : h[p] = IF p + d >= N + 1 THEN g[p] ELSE WalkBody(data, g, p)
    OBVIOUS
  <2> HIDE DEF h
  <2>4. ASSUME NEW p \in 1 .. N + 1, p + (d + 1) >= N + 1 PROVE WalkBody(data, h, p) = WalkBody(data, g, p)
    <3> DEFINE next == p + FrameLength(data, p)
    <3>1. ASSUME next \in p + 1 .. N + 1 PROVE h[next] = g[next]
      <4>1. PICK q \in p + 1 .. N + 1 : q = next
        BY <3>1
      <4>2. q \in 1 .. N + 1 /\ q + d >= N + 1
        BY <2>4
      <4>3. h[q] = g[q]
        BY <2>3, <4>2
      <4>4. QED
        BY <4>1, <4>3
    <3> HIDE DEF next
    <3>2. (next \in p + 1 .. N + 1 /\ h[next]) <=> (next \in p + 1 .. N + 1 /\ g[next])
      BY <3>1
    <3>3. WalkBody(data, h, p) <=> (p = N + 1 \/ (IsHeader(data, p) /\ next \in p + 1 .. N + 1 /\ h[next]))
      <4>1. ASSUME WalkBody(data, h, p) PROVE p = N + 1 \/ (IsHeader(data, p) /\ next \in p + 1 .. N + 1 /\ h[next])
        BY Zenon, <4>1 DEF WalkBody, next
      <4>2. ASSUME p = N + 1 \/ (IsHeader(data, p) /\ next \in p + 1 .. N + 1 /\ h[next]) PROVE WalkBody(data, h, p)
        BY Zenon, <4>2 DEF WalkBody, next
      <4>3. QED
        BY Zenon, <4>1, <4>2
    <3>4. WalkBody(data, g, p) <=> (p = N + 1 \/ (IsHeader(data, p) /\ next \in p + 1 .. N + 1 /\ g[next]))
      <4>1. ASSUME WalkBody(data, g, p) PROVE p = N + 1 \/ (IsHeader(data, p) /\ next \in p + 1 .. N + 1 /\ g[next])
        BY Zenon, <4>1 DEF WalkBody, next
      <4>2. ASSUME p = N + 1 \/ (IsHeader(data, p) /\ next \in p + 1 .. N + 1 /\ g[next]) PROVE WalkBody(data, g, p)
        BY Zenon, <4>2 DEF WalkBody, next
      <4>3. QED
        BY Zenon, <4>1, <4>2
    <3>5. WalkBody(data, h, p) <=> WalkBody(data, g, p)
      BY <3>2, <3>3, <3>4
    <3>6. WalkBody(data, h, p) \in BOOLEAN /\ WalkBody(data, g, p) \in BOOLEAN
      BY Zenon DEF WalkBody
    <3>7. QED
      BY <3>5, <3>6
  <2>5. ASSUME NEW p \in 1 .. N + 1, p + (d + 1) >= N + 1 PROVE h[p] = WalkBody(data, h, p)
    <3>1. CASE p + d >= N + 1
      BY Zenon, <2>1, <2>3, <2>4, <2>5, <3>1
    <3>2. CASE ~(p + d >= N + 1)
      BY <2>3, <2>4, <2>5, <3>2
    <3>3. QED
      BY <3>1, <3>2
  <2>6. QED
    BY <2>2, <2>5
<1> HIDE DEF T
<1>3. N \in T
  BY <1>1, <1>2, SetInduction
<1>4. PICK g : /\ g = [p \in 1 .. N + 1 |-> g[p]]
               /\ \A p \in 1 .. N + 1 : p + N >= N + 1 => g[p] = WalkBody(data, g, p)
  BY <1>3 DEF T
<1>5. \A p \in 1 .. N + 1 : g[p] = WalkBody(data, g, p)
  BY <1>4
<1>6. g = [p \in 1 .. N + 1 |-> WalkBody(data, g, p)]
  <2>1. [p \in 1 .. N + 1 |-> g[p]] = [p \in 1 .. N + 1 |-> WalkBody(data, g, p)]
    BY <1>5
  <2>2. QED
    BY <1>4, <2>1
<1>7. \E f : f = [p \in 1 .. Len(data) + 1 |-> WalkBody(data, f, p)]
  BY <1>6
<1>8. QED
  BY Zenon, <1>7 DEF Walk

\* A frame with its ADTS header, and a stream of them.
IsFrame(f) == Len(f) >= 7 /\ f[1] = 255 /\ f[2] = 241 /\ FrameLength(f, 1) = Len(f)
IsAdts(data) == \E frames \in Seq(Seq(Int)) : /\ data = FlattenSeq(frames)
                                              /\ \A k \in 1 .. Len(frames) : IsFrame(frames[k])

\* Whole ADTS frames one behind the other are walked through to the end.
LEMMA AdtsIsWalked ==
  ASSUME NEW data, IsAdts(data)
  PROVE  Walk(data)[1]
<1>1. PICK frames \in Seq(Seq(Int)) : /\ data = FlattenSeq(frames)
                                      /\ \A k \in 1 .. Len(frames) : IsFrame(frames[k])
  BY DEF IsAdts
<1> DEFINE n == Len(frames)
           N == Len(data)
           g == Walk(data)
<1>2. PICK a \in Seq(Nat) : a = Lens(frames)
  BY FlattenProperties
<1>3. /\ Len(a) = n /\ (\A k \in 1 .. n : a[k] = Len(frames[k]))
      /\ data \in Seq(Int) /\ N = Sum(a)
      /\ \A k \in 1 .. n : \A j \in 1 .. Len(frames[k]) : data[Offset(a, k - 1) + j] = frames[k][j]
  BY SMTT(20), <1>1, <1>2, FlattenProperties
<1>4. n \in Nat /\ N \in Nat /\ \A k \in 1 .. n : a[k] \in Nat /\ a[k] >= 7
  BY SMTT(20), <1>1, <1>3, LenProperties DEF IsFrame
<1>5. /\ Offset(a, 0) = 0 /\ Offset(a, n) = N
      /\ \A v \in 0 .. n : Offset(a, v) \in Nat
      /\ \A u \in 1 .. n : Offset(a, u) = Offset(a, u - 1) + a[u]
  BY <1>3, <1>4, OffsetStep
<1>6. \A p \in 1 .. N + 1 : g[p] = WalkBody(data, g, p)
  BY <1>4, WalkExists
<1> HIDE DEF n, N, g
<1>7. \A v \in 0 .. n : Offset(a, v) <= N /\ Offset(a, v) + 1 \in 1 .. N + 1
  <2>1. TAKE v \in 0 .. n
  <2>2. n \in v .. Len(a) /\ v \in 0 .. Len(a)
    BY <1>3, <1>4
  <2>3. Offset(a, v) <= N
    BY <1>5, <2>2, OffsetMonotonic
  <2>4. QED
    BY <1>4, <1>5, <2>3
<1> DEFINE T == {d \in Nat : \A v \in 0 .. n : v + d >= n => g[Offset(a, v) + 1]}
<1>8. 0 \in T
  <2>1. SUFFICES ASSUME NEW v \in 0 .. n, v + 0 >= n PROVE g[Offset(a, v) + 1]
    OBVIOUS
  <2>2. v = n /\ N + 1 \in 1 .. N + 1
    BY <1>4, <2>1
  <2>3. WalkBody(data, g, N + 1)
    BY Zenon DEF WalkBody, N
  <2>4. g[N + 1]
    BY <1>6, <2>2, <2>3
  <2>5. QED
    BY <1>5, <2>2, <2>4
<1>9. ASSUME NEW d \in Nat, d \in T PROVE d + 1 \in T
  <2>1. SUFFICES ASSUME NEW v \in 0 .. n, v + (d + 1) >= n, ~(v + d >= n) PROVE g[Offset(a, v) + 1]
    BY <1>9
  <2> DEFINE u == v + 1
             o == Offset(a, v)
             p == o + 1
             f == frames[u]
  <2>2. u \in 1 .. n /\ u \in 0 .. n /\ u - 1 = v /\ u + d >= n
    BY <1>4, <2>1
  <2>3. g[Offset(a, u) + 1]
    <3> HIDE DEF u
    <3>1. QED
      BY <1>9, <2>2
  <2>4. o \in Nat /\ Offset(a, u) = o + a[u] /\ a[u] = Len(f) /\ a[u] \in Nat /\ a[u] >= 7 /\ Offset(a, u) <= N /\ IsFrame(f)
    BY Zenon, <1>1, <1>3, <1>4, <1>5, <1>7, <2>2 DEF n
  <2>5. \A j \in 1 .. a[u] : data[o + j] = f[j]
    BY SMTT(20), <1>3, <2>2, <2>4
  <2> DEFINE l == a[u]
             e == Offset(a, u)
  <2>6. l \in Nat /\ l >= 7 /\ e = o + l /\ e <= N /\ p \in 1 .. N + 1 /\ p + 6 <= N /\ e + 1 \in p + 1 .. N + 1 /\ e + 1 = p + l
    <3>1. l \in Nat /\ l >= 7 /\ e = o + l /\ e <= N /\ o \in Nat
      BY <2>4
    <3> HIDE DEF l, e, o
    <3>2. QED
      BY <1>4, <3>1
  <2>7. data[p] = f[1] /\ data[p + 1] = f[2] /\ data[p + 3] = f[4] /\ data[p + 4] = f[5] /\ data[p + 5] = f[6]
    <3>1. o + 1 = p /\ o + 2 = p + 1 /\ o + 4 = p + 3 /\ o + 5 = p + 4 /\ o + 6 = p + 5
      <4>1. o \in Nat
        BY <2>4
      <4> HIDE DEF o
      <4>2. QED
        BY <4>1
    <3>2. 1 \in 1 .. a[u] /\ 2 \in 1 .. a[u] /\ 4 \in 1 .. a[u] /\ 5 \in 1 .. a[u] /\ 6 \in 1 .. a[u]
      <4>1. ASSUME NEW n0 \in Nat, n0 >= 7
            PROVE  1 \in 1 .. n0 /\ 2 \in 1 .. n0 /\ 4 \in 1 .. n0 /\ 5 \in 1 .. n0 /\ 6 \in 1 .. n0
        BY <4>1
      <4>2. QED
        BY Zenon, <2>4, <4>1
    <3>3. data[o + 1] = f[1] /\ data[o + 2] = f[2] /\ data[o + 4] = f[4] /\ data[o + 5] = f[5] /\ data[o + 6] = f[6]
      BY <2>5, <3>2
    <3> HIDE DEF o, f
    <3>4. QED
      BY <3>1, <3>3
  <2>8. IsHeader(data, p) /\ FrameLength(data, p) = l
    <3>1. f[1] = 255 /\ f[2] = 241 /\ FrameLength(f, 1) = l
      BY <2>4 DEF IsFrame
    <3>2. FrameLength(data, p) = FrameLength(f, 1)
      <4> HIDE DEF f, p
      <4>1. QED
        BY <2>7 DEF FrameLength
    <3> HIDE DEF f, p, l
    <3>3. QED
      BY <2>6, <2>7, <3>1, <3>2 DEF IsHeader, N
  <2>9. WalkBody(data, g, p)
    <3>1. p + FrameLength(data, p) = e + 1
      BY <2>6, <2>8
    <3>2. g[e + 1]
      BY <2>3
    <3> HIDE DEF p, e
    <3>3. QED
      BY Zenon, <2>6, <2>8, <3>1, <3>2 DEF WalkBody, N
  <2>10. QED
    BY Zenon, <1>6, <2>6, <2>9
<1> HIDE DEF T
<1>10. n \in T
  BY Zenon, <1>4, <1>8, <1>9, SetInduction
<1>11. g[Offset(a, 0) + 1]
  BY <1>4, <1>10 DEF T
<1>12. QED
  BY <1>5, <1>11 DEF g

Configs == [objectType : Nat, frequencyIndex : Nat, channelConfig : Nat]

\* The header BuildAdtsHeader() puts in front of a frame, for the decoder's configuration.
HeaderOf(c, n) ==
  LET length == AdtsLength(n)
      numDataBlocks == IF n >= 1024 THEN (n \div 1024) - 1 ELSE 0
  IN <<255, 241,
       (((c.objectType - 1) * 64) % 256) + c.frequencyIndex * 4 + (c.channelConfig \div 4),
       (c.channelConfig % 4) * 64 + ((length \div 2048) % 4),
       (length \div 8) % 256,
       (length % 8) * 32 + 31,
       252 + (numDataBlocks % 4)>>

\* BuildAdtsHeader() depends on the stream's configuration alone.
LEMMA HeaderIsBuilt == ASSUME NEW n PROVE BuildAdtsHeader(n) = HeaderOf(stream.config, n)
BY Zenon DEF BuildAdtsHeader, HeaderOf

\* The 13 bits of the length come back out of the three bytes they are put into.
LEMMA LengthBits ==
  ASSUME NEW l \in Nat, l < 8192, NEW x \in Nat,
         NEW d \in Int, d = x * 64 + ((l \div 2048) % 4),
         NEW e \in Int, e = (l \div 8) % 256,
         NEW f \in Int, f = (l % 8) * 32 + 31
  PROVE  (d % 4) * 2048 + e * 8 + (f \div 32) = l
<1> DEFINE a == l \div 8
           b == l \div 2048
           y == l % 8
           z == a % 256
<1>1. a \in Nat /\ b \in Nat /\ b < 4 /\ y \in 0 .. 7 /\ z \in 0 .. 255
  OBVIOUS
<1>2. y = l - 8 * a
  OBVIOUS
<1>3. z = a - 256 * b
  <2>1. a \div 256 = b
    OBVIOUS
  <2>2. z = a - 256 * (a \div 256)
    BY <1>1
  <2>3. QED
    BY <2>1, <2>2
<1>4. b % 4 = b
  BY <1>1
<1>5. d = x * 64 + b /\ e = z /\ f = y * 32 + 31
  BY <1>4
<1> HIDE DEF a, b, y, z
<1>6. d % 4 = b
  BY <1>1, <1>5
<1>7. f \div 32 = y
  BY <1>1, <1>5
<1>8. QED
  BY <1>1, <1>2, <1>3, <1>5, <1>6, <1>7

\* BuildAdtsHeader() writes seven bytes from which the 13 bits of the length can be read.
LEMMA HeaderProperties ==
  ASSUME NEW c \in Configs, NEW n \in 1 .. 8191 - AdtsHeaderSize
  PROVE  /\ HeaderOf(c, n) \in Seq(Int) /\ Len(HeaderOf(c, n)) = 7
         /\ \A j \in 1 .. 7 : HeaderOf(c, n)[j] >= 0
         /\ HeaderOf(c, n)[1] = 255 /\ HeaderOf(c, n)[2] = 241
         /\ FrameLength(HeaderOf(c, n), 1) = n + 7
<1> DEFINE h == HeaderOf(c, n)
           l == n + 7
           x == c.channelConfig % 4
           b3 == (((c.objectType - 1) * 64) % 256) + c.frequencyIndex * 4 + (c.channelConfig \div 4)
           b4 == x * 64 + ((l \div 2048) % 4)
           b5 == (l \div 8) % 256
           b6 == (l % 8) * 32 + 31
           m == IF n >= 1024 THEN (n \div 1024) - 1 ELSE 0
           b7 == 252 + (m % 4)
<1>1. h = <<255, 241, b3, b4, b5, b6, b7>>
  BY DEF HeaderOf, AdtsLength, AdtsHeaderSize
<1>2. c.objectType \in Nat /\ c.frequencyIndex \in Nat /\ c.channelConfig \in Nat
  BY DEF Configs
<1>3. n \in Nat /\ l \in Nat /\ l < 8192 /\ x \in Nat
  BY <1>2 DEF AdtsHeaderSize
<1>4. b3 \in Nat
  <2> DEFINE o == c.objectType - 1
             q == c.channelConfig
             w == c.frequencyIndex
  <2>1. o \in Int /\ q \in Nat /\ w \in Nat
    BY <1>2
  <2> HIDE DEF o, q, w
  <2>2. (o * 64) % 256 \in Nat /\ q \div 4 \in Nat /\ w * 4 \in Nat
    BY <2>1
  <2>3. ((o * 64) % 256) + w * 4 + (q \div 4) \in Nat
    BY <2>2
  <2>4. QED
    BY <2>3 DEF o, q, w
<1>5. b4 \in Nat /\ b5 \in Nat /\ b6 \in Nat
  <2> HIDE DEF l, x
  <2>1. (l \div 2048) % 4 \in Nat /\ (l \div 8) % 256 \in Nat /\ l % 8 \in Nat /\ x * 64 \in Nat
    BY <1>3
  <2>2. QED
    BY <2>1
<1>6. b7 \in Nat
  <2>1. m \in Nat
    BY <1>3
  <2> HIDE DEF m
  <2>2. m % 4 \in Nat
    BY <2>1
  <2>3. QED
    BY <2>2
<1>7. (b4 % 4) * 2048 + b5 * 8 + (b6 \div 32) = l
  <2> HIDE DEF l, x
  <2>1. QED
    BY <1>3, <1>5, LengthBits
<1> HIDE DEF h, b3, b4, b5, b6, b7, m, l, x
<1>8. /\ h \in Seq(Int) /\ Len(h) = 7 /\ \A j \in 1 .. 7 : h[j] >= 0
      /\ h[1] = 255 /\ h[2] = 241 /\ h[4] = b4 /\ h[5] = b5 /\ h[6] = b6
  BY <1>1, <1>4, <1>5, <1>6
<1>9. FrameLength(h, 1) = l
  BY <1>7, <1>8 DEF FrameLength
<1>10. QED
  BY <1>8, <1>9 DEF h, l

\* A concatenation begins with its first part.
LEMMA ConcatHead ==
  ASSUME NEW h \in Seq(Int), NEW p \in Seq(Int), NEW f, f = h \o p
  PROVE  /\ f \in Seq(Int) /\ Len(f) = Len(h) + Len(p)
         /\ \A i \in 1 .. Len(h) : f[i] = h[i]
<1>1. Len(h) \in Nat /\ Len(p) \in Nat
  BY LenProperties
<1>2. /\ f \in Seq(Int) /\ Len(f) = Len(h) + Len(p)
      /\ \A i \in 1 .. Len(h) + Len(p) : f[i] = IF i <= Len(h) THEN h[i] ELSE p[i - Len(h)]
  BY ConcatProperties
<1>3. QED
  BY <1>1, <1>2

\* A header for n bytes of payload.
Heads(h, n) == Len(h) = 7 /\ h[1] = 255 /\ h[2] = 241 /\ FrameLength(h, 1) = n + 7

\* Bytes that begin with a header tell the length that the header tells.
LEMMA SameHeader ==
  ASSUME NEW f, NEW h, NEW n \in Nat, Len(f) = 7 + n, Heads(h, n),
         \A i \in 1 .. 7 : f[i] = h[i]
  PROVE  IsHeader(f, 1) /\ FrameLength(f, 1) = Len(f)
<1> DEFINE W(x, y, z) == (x % 4) * 2048 + y * 8 + (z \div 32)
<1>1. f[1] = h[1] /\ f[2] = h[2] /\ f[4] = h[4] /\ f[5] = h[5] /\ f[6] = h[6]
  OBVIOUS
<1>2. FrameLength(f, 1) = W(f[4], f[5], f[6])
  BY DEF FrameLength
<1>3. FrameLength(h, 1) = W(h[4], h[5], h[6])
  BY DEF FrameLength
<1> HIDE DEF W
<1>4. FrameLength(f, 1) = FrameLength(h, 1)
  BY <1>1, <1>2, <1>3
<1>5. IsHeader(f, 1)
  BY <1>1 DEF IsHeader, Heads
<1>6. QED
  BY <1>4, <1>5 DEF Heads

\* A header in front of a payload of its size makes a frame.
LEMMA HeaderMakesFrame ==
  ASSUME NEW h \in Seq(Int), NEW p \in Seq(Int), NEW n, n = Len(p), Heads(h, n), NEW f, f = h \o p
  PROVE  f \in Seq(Int) /\ Len(f) = 7 + n /\ IsFrame(f)
<1>2. /\ f \in Seq(Int) /\ Len(f) = Len(h) + Len(p)
      /\ \A i \in 1 .. Len(h) : f[i] = h[i]
  BY ConcatHead
<1>3. n \in Nat
  BY LenProperties
<1>4. Len(f) = 7 + n /\ \A i \in 1 .. 7 : f[i] = h[i]
  BY ZenonT(20), <1>2, <1>3 DEF Heads
<1>5. IsHeader(f, 1) /\ FrameLength(f, 1) = Len(f)
  BY Zenon, <1>3, <1>4, SameHeader
<1>6. IsFrame(f)
  BY <1>3, <1>4, <1>5 DEF IsFrame, IsHeader
<1>7. QED
  BY <1>2, <1>4, <1>6

\* WithAdtsHeaders() puts a header in front of each frame, which it cuts out by the sizes.
LEMMA HeadersInFront ==
  ASSUME NEW ss \in Seq(Seq(Int)), NEW sizes, sizes = Lens(ss), NEW data, data = FlattenSeq(ss)
  PROVE  WithAdtsHeaders(data, sizes) =
           FlattenSeq([k \in DOMAIN ss |-> HeaderOf(stream.config, Len(ss[k])) \o ss[k]])
<1>1. DOMAIN sizes = DOMAIN ss /\ DOMAIN ss = 1 .. Len(ss) /\ \A k \in DOMAIN ss : sizes[k] = Len(ss[k])
  BY LenProperties DEF Lens
<1>2. \A k \in DOMAIN ss : SubSeq(data, Sum(SubSeq(sizes, 1, k - 1)) + 1, Sum(SubSeq(sizes, 1, k - 1)) + sizes[k]) = ss[k]
  <2>1. TAKE k \in DOMAIN ss
  <2>2. k \in 1 .. Len(ss)
    BY <1>1
  <2>3. SubSeq(FlattenSeq(ss), Offset(Lens(ss), k - 1) + 1, Offset(Lens(ss), k - 1) + Len(ss[k])) = ss[k]
    BY <2>2, FlattenSlice
  <2>4. QED
    BY <1>1, <2>3 DEF Offset
<1>3. WithAdtsHeaders(data, sizes) = FlattenSeq([k \in DOMAIN ss |->
        BuildAdtsHeader(sizes[k])
          \o SubSeq(data, Sum(SubSeq(sizes, 1, k - 1)) + 1, Sum(SubSeq(sizes, 1, k - 1)) + sizes[k])])
  BY Zenon, <1>1 DEF WithAdtsHeaders
<1>4. \A k \in DOMAIN ss : BuildAdtsHeader(sizes[k]) = HeaderOf(stream.config, Len(ss[k]))
  BY <1>1, HeaderIsBuilt
<1>5. [k \in DOMAIN ss |-> BuildAdtsHeader(sizes[k])
          \o SubSeq(data, Sum(SubSeq(sizes, 1, k - 1)) + 1, Sum(SubSeq(sizes, 1, k - 1)) + sizes[k])]
      = [k \in DOMAIN ss |-> HeaderOf(stream.config, Len(ss[k])) \o ss[k]]
  BY Zenon, <1>2, <1>4
<1>6. QED
  BY Zenon, <1>3, <1>5

\* What the proofs use of a moof.
IsMoof(media, m) ==
  /\ m.samples \in Tables /\ IsTable(media, m.samples)
  /\ m.full => media # "video" /\ \A k \in DOMAIN m.samples : IsWhole(m.samples[k])

\* A sample's frame k as it is handed to the CDM, and all of them.
PieceOf(media, c, r, m, k) ==
  IF m.full THEN HeaderOf(c, Size(m.samples[k])) \o SampleOf(media, r, k, m.samples[k], "annexb")
            ELSE SampleOf(media, r, k, m.samples[k], "annexb")
PiecesOf(media, c, r, m) == [k \in DOMAIN m.samples |-> PieceOf(media, c, r, m, k)]

\* The sizes an ADTS header can tell.
FrameSizes == 1 .. 8191 - AdtsHeaderSize

\* A frame that is encrypted from its first byte on has one subsample.
LEMMA WholeProperties ==
  ASSUME NEW s \in Seq(Nat \X Nat), IsWhole(s)
  PROVE  /\ Len(s) = 1 /\ s[1][1] = 0 /\ s[1][2] = Size(s)
         /\ Size(s) \in FrameSizes
<1>1. Size(s) = s[1][1] + s[1][2]
  BY SizeOfOne DEF IsWhole
<1>2. s[1][2] \in Nat
  BY DEF IsWhole
<1>3. QED
  BY <1>1, <1>2 DEF IsWhole, FrameSizes

\* A piece of a sample with ADTS headers is an ADTS frame.
LEMMA PieceIsFrame ==
  ASSUME NEW c \in Configs, NEW n \in Nat, n \in FrameSizes,
         NEW p \in Seq(Int), Len(p) = n, NEW f, f = HeaderOf(c, n) \o p
  PROVE  f \in Seq(Int) /\ Len(f) = 7 + n /\ IsFrame(f)
<1>1. PICK h : h = HeaderOf(c, n)
  OBVIOUS
<1>2. h \in Seq(Int) /\ Heads(h, n)
  BY <1>1, HeaderProperties DEF Heads, FrameSizes
<1>3. f = h \o p
  BY Zenon, <1>1
<1>4. n = Len(p)
  OBVIOUS
<1>5. QED
  BY Zenon, <1>2, <1>3, <1>4, HeaderMakesFrame

\* A frame as the decrypt thread should cut it: its length, and whether it has a header.
LEMMA PieceProperties ==
  ASSUME NEW media, NEW c \in Configs, NEW r \in Nat, NEW m, IsMoof(media, m),
         NEW k \in 1 .. Len(m.samples), NEW f, f = PieceOf(media, c, r, m, k)
  PROVE  /\ f \in Seq(Int)
         /\ Len(f) = Size(m.samples[k]) + (IF m.full THEN 7 ELSE 0)
         /\ m.full => IsFrame(f)
<1>1. PICK samples \in Tables : samples = m.samples
  BY DEF IsMoof
<1>2. IsTable(media, samples)
  BY <1>1 DEF IsMoof
<1>3. Len(samples) \in Nat \ {0} /\ DOMAIN samples = 1 .. Len(samples)
      /\ \A i \in 1 .. Len(samples) : i \in Nat /\ IsSample(media, samples[i])
  BY <1>2, TableProperties
<1>4. PICK s : s = samples[k]
  OBVIOUS
<1>5. k \in Nat /\ IsSample(media, s) /\ s \in Seq(Nat \X Nat)
  BY <1>1, <1>3, <1>4 DEF IsSample
<1>6. PICK p : p = SampleOf(media, r, k, s, "annexb")
  OBVIOUS
<1>7. p \in Seq(Int) /\ Len(p) = Size(s)
  BY <1>5, <1>6, SampleProperties
<1>8. CASE m.full
  <2>1. IsWhole(s)
    BY <1>1, <1>3, <1>4, <1>8 DEF IsMoof
  <2>2. Size(s) \in FrameSizes
    BY <1>5, <2>1, WholeProperties
  <2>3. f = HeaderOf(c, Size(s)) \o p
    BY Zenon, <1>1, <1>4, <1>6, <1>8 DEF PieceOf
  <2>4. PICK n \in Nat : n = Size(s) /\ n \in FrameSizes
    BY <1>5, <2>2, SizesInType
  <2>5. f = HeaderOf(c, n) \o p /\ Len(p) = n
    BY Zenon, <1>7, <2>3, <2>4
  <2>6. f \in Seq(Int) /\ Len(f) = 7 + n /\ IsFrame(f)
    BY Zenon, <1>7, <2>4, <2>5, PieceIsFrame
  <2>7. QED
    BY <1>1, <1>4, <1>8, <2>4, <2>6
<1>9. CASE ~m.full
  <2>1. f = p
    BY Zenon, <1>1, <1>4, <1>6, <1>9 DEF PieceOf
  <2>2. Size(s) \in Nat
    BY <1>5, SizesInType
  <2>3. QED
    BY <1>1, <1>4, <1>7, <1>9, <2>1, <2>2
<1>10. QED
  BY <1>8, <1>9

ArePieces(media, c, r, m, ps) ==
  /\ Len(m.samples) \in Nat \ {0} /\ DOMAIN m.samples = 1 .. Len(m.samples)
  /\ ps \in Seq(Seq(Int)) /\ Len(ps) = Len(m.samples)
  /\ \A k \in 1 .. Len(m.samples) :
       /\ ps[k] = PieceOf(media, c, r, m, k)
       /\ Len(ps[k]) = Size(m.samples[k]) + (IF m.full THEN 7 ELSE 0)
       /\ m.full => IsFrame(ps[k])

\* The pieces of a sample are sequences of bytes of the sizes the decrypt thread cuts.
LEMMA PiecesProperties ==
  ASSUME NEW media, NEW c \in Configs, NEW r \in Nat, NEW m, IsMoof(media, m),
         NEW ps, ps = PiecesOf(media, c, r, m)
  PROVE  ArePieces(media, c, r, m, ps)
<1>1. m.samples \in Tables /\ IsTable(media, m.samples)
  BY DEF IsMoof
<1>2. Len(m.samples) \in Nat \ {0} /\ DOMAIN m.samples = 1 .. Len(m.samples)
  BY <1>1, TableProperties
<1> DEFINE n == Len(m.samples)
<1>3. \A k \in 1 .. n : /\ PieceOf(media, c, r, m, k) \in Seq(Int)
                        /\ Len(PieceOf(media, c, r, m, k)) = Size(m.samples[k]) + (IF m.full THEN 7 ELSE 0)
                        /\ m.full => IsFrame(PieceOf(media, c, r, m, k))
  BY PieceProperties
<1>4. ps = [k \in 1 .. n |-> PieceOf(media, c, r, m, k)]
  BY Zenon, <1>2 DEF PiecesOf
<1>5. ps \in [1 .. n -> Seq(Int)] /\ \A k \in 1 .. n : ps[k] = PieceOf(media, c, r, m, k)
  BY <1>3, <1>4
<1>6. ps \in Seq(Seq(Int)) /\ Len(ps) = n
  BY Zenon, <1>2, <1>5, FunctionIsSeq
<1>7. QED
  BY <1>2, <1>3, <1>5, <1>6 DEF ArePieces

\* Nothing but a video's samples has another form on its way.
LEMMA OtherForms ==
  ASSUME NEW media, media # "video", NEW r, NEW samples, NEW f, NEW g
  PROVE  SamplesOf(media, r, samples, f) = SamplesOf(media, r, samples, g)
<1>1. \A k, u, s : UnitOf(media, r, k, u, s, f) = UnitOf(media, r, k, u, s, g)
  BY Zenon DEF UnitOf
<1>2. \A k, s : UnitsOf(media, r, k, s, f) = UnitsOf(media, r, k, s, g)
  <2>1. TAKE k, s
  <2>2. \A u \in DOMAIN s : UnitOf(media, r, k, u, s[u], f) = UnitOf(media, r, k, u, s[u], g)
    BY Zenon, <1>1
  <2>3. QED
    BY Zenon, <2>2 DEF UnitsOf
<1>3. \A k, s : SampleOf(media, r, k, s, f) = SampleOf(media, r, k, s, g)
  BY Zenon, <1>2 DEF SampleOf
<1>4. \A k \in DOMAIN samples : SampleOf(media, r, k, samples[k], f) = SampleOf(media, r, k, samples[k], g)
  BY Zenon, <1>3
<1>5. QED
  BY Zenon, <1>4 DEF SamplesOf

\* The pieces of a moof without headers are its samples.
LEMMA PiecesAreSamples ==
  ASSUME NEW media, NEW c, NEW r, NEW m, ~m.full
  PROVE  PiecesOf(media, c, r, m) = SamplesOf(media, r, m.samples, "annexb")
<1>1. \A k : PieceOf(media, c, r, m, k) = SampleOf(media, r, k, m.samples[k], "annexb")
  BY Zenon DEF PieceOf
<1>2. QED
  BY Zenon, <1>1 DEF PiecesOf, SamplesOf

\* What ConvertVideo leaves in a sample's data are the pieces of the sample.
LEMMA VideoConverted ==
  ASSUME NEW c, NEW r \in Nat, NEW m, IsMoof("video", m),
         NEW data, data = FlattenSeq(SamplesOf("video", r, m.samples, "mp4"))
  PROVE  /\ Len(data) + 1 \in NalStarts(data)
         /\ AnnexB(data) = FlattenSeq(PiecesOf("video", c, r, m))
<1>1. PICK samples \in Tables : samples = m.samples
  BY DEF IsMoof
<1>2. IsTable("video", samples) /\ ~m.full
  BY <1>1 DEF IsMoof
<1>3. data = FlattenSeq(SamplesOf("video", r, samples, "mp4"))
  BY Zenon, <1>1
<1>4. /\ Len(data) + 1 \in NalStarts(data)
      /\ AnnexB(data) = FlattenSeq(SamplesOf("video", r, samples, "annexb"))
  BY Zenon, <1>2, <1>3, SamplesConverted
<1>5. PiecesOf("video", c, r, m) = SamplesOf("video", r, samples, "annexb")
  BY Zenon, <1>1, <1>2, PiecesAreSamples
<1>6. QED
  BY Zenon, <1>4, <1>5

\* What ConvertAudio leaves in a sample's data are the pieces of the sample.
LEMMA AudioConverted ==
  ASSUME NEW media, media # "video", NEW r \in Nat, NEW m, IsMoof(media, m),
         NEW data, data = FlattenSeq(SamplesOf(media, r, m.samples, "mp4"))
  PROVE  /\ ~m.full => \A c : data = FlattenSeq(PiecesOf(media, c, r, m))
         /\ m.full => WithAdtsHeaders(data, TableSizes(m.samples)) =
                        FlattenSeq(PiecesOf(media, stream.config, r, m))
<1>1. PICK samples \in Tables : samples = m.samples
  BY DEF IsMoof
<1>2. IsTable(media, samples)
  BY <1>1 DEF IsMoof
<1> PICK form : form = "annexb"
  OBVIOUS
<1>3. PICK ss : ss = SamplesOf(media, r, samples, form)
  OBVIOUS
<1>4. data = FlattenSeq(ss)
  BY Zenon, <1>1, <1>3, OtherForms
<1>41. AreSamples(media, r, samples, form, ss)
  BY <1>2, <1>3, SamplesProperties
<1>5. ASSUME ~m.full, NEW c PROVE data = FlattenSeq(PiecesOf(media, c, r, m))
  BY Zenon, <1>1, <1>3, <1>4, <1>5, PiecesAreSamples
<1>6. ASSUME m.full
      PROVE  WithAdtsHeaders(data, TableSizes(m.samples)) = FlattenSeq(PiecesOf(media, stream.config, r, m))
  <2>1. PICK sizes : sizes = TableSizes(m.samples)
    OBVIOUS
  <2>2. sizes = Lens(ss)
    BY Zenon, <1>1, <1>41, <2>1 DEF AreSamples
  <2>3. WithAdtsHeaders(data, sizes) =
          FlattenSeq([k \in DOMAIN ss |-> HeaderOf(stream.config, Len(ss[k])) \o ss[k]])
    BY Zenon, <1>4, <1>41, <2>2, HeadersInFront DEF AreSamples
  <2>4. DOMAIN ss = DOMAIN samples
    BY <1>41 DEF AreSamples
  <2>5. \A k \in DOMAIN samples : HeaderOf(stream.config, Len(ss[k])) \o ss[k] = PieceOf(media, stream.config, r, m, k)
    <3>1. TAKE k \in DOMAIN samples
    <3>2. ss[k] = SampleOf(media, r, k, samples[k], "annexb") /\ Len(ss[k]) = Size(samples[k])
      BY Zenon, <1>41 DEF AreSamples
    <3>3. QED
      BY Zenon, <1>1, <1>6, <3>2 DEF PieceOf
  <2>6. QED
    BY Zenon, <1>1, <2>1, <2>3, <2>4, <2>5 DEF PiecesOf
<1>7. QED
  BY <1>5, <1>6

\* A sequence with another first element keeps its length and the other elements.
LEMMA ExceptFirst ==
  ASSUME NEW S, NEW s \in Seq(S), Len(s) > 0, NEW e \in S, NEW t, t = [s EXCEPT ![1] = e]
  PROVE  /\ t \in Seq(S) /\ Len(t) = Len(s) /\ t[1] = e
         /\ \A u \in 1 .. Len(s) : u # 1 => t[u] = s[u]
OBVIOUS

\* A unit w of l bytes with c clear ones.
IsUnitOf(w, l, c) == w \in Seq(Int) /\ Len(w) = l /\ IsClearTo(w, c)

\* Clear bytes in front of a unit make a unit with that many more clear bytes.
LEMMA FirstUnit ==
  ASSUME NEW x \in Seq(Int), NEW n \in Nat, n = Len(x), IsClear(x),
         NEW b \in Nat, NEW a \in Nat, NEW z, IsUnitOf(z, b, a),
         NEW c \in Nat, c = a + n, NEW l \in Nat, l = n + b
  PROVE  IsUnitOf(x \o z, l, c)
<1> DEFINE w == x \o z
<1>0. z \in Seq(Int) /\ Len(z) = b /\ IsClearTo(z, a)
  BY DEF IsUnitOf
<1>1. /\ w \in Seq(Int) /\ Len(w) = n + Len(z)
      /\ \A i \in 1 .. n + Len(z) : w[i] = IF i <= n THEN x[i] ELSE z[i - n]
  BY Zenon, <1>0, ConcatProperties
<1> HIDE DEF w
<1>2. ASSUME NEW j \in 1 .. Len(w) PROVE w[j] < 0 <=> j > c
  <2>1. CASE j <= n
    <3>1. w[j] = x[j] /\ x[j] \in Int
      BY SMTT(20), <1>0, <1>1, <2>1
    <3>2. x[j] >= 0
      BY <2>1 DEF IsClear
    <3>3. QED
      BY <2>1, <3>1, <3>2
  <2>2. CASE j > n
    <3>0. j - n \in 1 .. Len(z)
      BY <1>0, <1>1, <2>2
    <3>1. PICK i \in 1 .. Len(z) : i = j - n
      BY Zenon, <3>0
    <3>2. w[j] = z[i]
      BY <1>0, <1>1, <2>2, <3>1
    <3>3. z[i] < 0 <=> i > a
      BY Zenon, <1>0 DEF IsClearTo
    <3>4. i > a <=> j > c
      BY <3>1
    <3>5. QED
      BY Zenon, <3>2, <3>3, <3>4
  <2>3. QED
    BY <1>1, <2>1, <2>2
<1>3. QED
  BY Zenon, <1>0, <1>1, <1>2 DEF IsClearTo, IsUnitOf, w

\* The entries of a frame with n more clear bytes in front.
Shifted(s, n) == [s EXCEPT ![1] = <<s[1][1] + n, s[1][2]>>]

IsShifted(t, s, d, b) ==
  /\ t \in Seq(Nat \X Nat) /\ Len(t) = Len(s)
  /\ t[1][1] = d /\ t[1][2] = b
  /\ \A u \in 1 .. Len(s) : u # 1 => t[u] = s[u]

\* The entries with more clear bytes in the first one are still a table of entries.
LEMMA ShiftedProperties ==
  ASSUME NEW s \in Seq(Nat \X Nat), Len(s) > 0, NEW n \in Nat,
         NEW a \in Nat, a = s[1][1], NEW b \in Nat, b = s[1][2], NEW d \in Nat, d = a + n,
         NEW t, t = Shifted(s, n)
  PROVE  IsShifted(t, s, d, b)
<1>1. PICK c \in Nat \X Nat : c = <<d, b>>
  BY Zenon
<1>2. c[1] = d /\ c[2] = b
  BY <1>1
<1>3. t = [s EXCEPT ![1] = c]
  BY Zenon, <1>1 DEF Shifted
<1>4. t \in Seq(Nat \X Nat) /\ Len(t) = Len(s) /\ t[1] = c
      /\ \A u \in 1 .. Len(s) : u # 1 => t[u] = s[u]
  BY <1>3, ExceptFirst
<1>5. QED
  BY Zenon, <1>2, <1>4 DEF IsShifted

\* What is in front of a frame counts as clear.
LEMMA UnitsShifted ==
  ASSUME NEW s, Len(s) > 0, NEW units, Tells(s, units),
         NEW x \in Seq(Int), NEW n \in Nat, n = Len(x), IsClear(x), NEW t, t = Shifted(s, n)
  PROVE  TellsCipher(t, x \o FlattenSeq(units))
<1>0. s \in Seq(Nat \X Nat) /\ units \in Seq(Seq(Int)) /\ Len(units) = Len(s)
  BY Zenon DEF Tells
<1>2. 1 \in 1 .. Len(s) /\ s[1] \in Nat \X Nat
  BY <1>0
<1>3. PICK a \in Nat : a = s[1][1]
  BY <1>2
<1>4. PICK b \in Nat : b = s[1][2]
  BY <1>2
<1>5. PICK d \in Nat : d = a + n
  OBVIOUS
<1>01. IsShifted(t, s, d, b)
  BY Zenon, <1>0, <1>3, <1>4, <1>5, ShiftedProperties
<1>1. /\ t \in Seq(Nat \X Nat) /\ Len(t) = Len(s)
      /\ t[1][1] = d /\ t[1][2] = b
      /\ \A u \in 1 .. Len(s) : u # 1 => t[u] = s[u]
  BY Zenon, <1>01 DEF IsShifted
<1>6. PICK z \in Seq(Int) : z = units[1]
  BY <1>0, <1>2
<1>7. Len(z) = a + b /\ IsClearTo(z, a)
  BY Zenon, <1>2, <1>3, <1>4, <1>6 DEF Tells
<1>8. PICK w : w = x \o z
  BY Zenon
<1> PICK bytes \in Nat : bytes = a + b
  OBVIOUS
<1> PICK l \in Nat : l = n + bytes
  OBVIOUS
<1>91. IsUnitOf(z, bytes, a)
  BY Zenon, <1>7 DEF IsUnitOf
<1>92. IsUnitOf(x \o z, l, d)
  BY Zenon, <1>5, <1>91, FirstUnit
<1>9. w \in Seq(Int) /\ Len(w) = l /\ IsClearTo(w, d)
  BY Zenon, <1>8, <1>92 DEF IsUnitOf
<1>10. PICK y : y = [units EXCEPT ![1] = w]
  BY Zenon
<1>11. Len(units) > 0
  BY <1>0
<1>12. y \in Seq(Seq(Int)) /\ Len(y) = Len(units) /\ y[1] = w
       /\ \A u \in 1 .. Len(units) : u # 1 => y[u] = units[u]
  BY <1>0, <1>9, <1>10, <1>11, ExceptFirst
<1>13. x \o FlattenSeq(units) = FlattenSeq(y)
  <2>1. /\ [units EXCEPT ![1] = x \o units[1]] \in Seq(Seq(Int))
        /\ x \o FlattenSeq(units) = FlattenSeq([units EXCEPT ![1] = x \o units[1]])
    BY Zenon, <1>0, <1>11, FlattenPrepend
  <2>2. QED
    BY Zenon, <1>6, <1>8, <1>10, <2>1
<1>14. t[1][1] = d /\ t[1][2] = b
  BY Zenon, <1>1, <1>3, <1>4, <1>5
<1>15. Len(w) = d + b
  BY <1>5, <1>7, <1>9
<1>16. \A u \in 1 .. Len(t) : Len(y[u]) = t[u][1] + t[u][2] /\ IsClearTo(y[u], t[u][1])
  <2>1. TAKE u \in 1 .. Len(t)
  <2>2. CASE u = 1
    BY Zenon, <1>9, <1>12, <1>14, <1>15, <2>2
  <2>3. CASE u # 1
    BY Zenon, <1>0, <1>1, <1>12, <2>3 DEF Tells
  <2>4. QED
    BY Zenon, <2>2, <2>3
<1>17. Tells(t, y)
  BY Zenon, <1>0, <1>1, <1>12, <1>16 DEF Tells
<1>18. TellsCipher(t, FlattenSeq(y))
  BY Zenon, <1>17, CipherOfUnits
<1>19. QED
  BY Zenon, <1>13, <1>18

\* The shifted entries tell where a frame with clear bytes in front of it is encrypted.
LEMMA PrependedCipher ==
  ASSUME NEW media, NEW form, NEW r \in Nat, NEW k \in Nat, NEW s, IsSample(media, s),
         NEW x \in Seq(Int), NEW n \in Nat, n = Len(x), IsClear(x), NEW t, t = Shifted(s, n)
  PROVE  TellsCipher(t, x \o SampleOf(media, r, k, s, form))
<1>1. PICK units : units = UnitsOf(media, r, k, s, form)
  OBVIOUS
<1>2. Tells(s, units)
  BY Zenon, <1>1, UnitsProperties
<1>3. s \in Seq(Nat \X Nat) /\ s # <<>>
  BY Zenon DEF IsSample
<1>4. Len(s) > 0
  BY <1>3, EmptySeq
<1>5. TellsCipher(t, x \o FlattenSeq(units))
  BY Zenon, <1>2, <1>4, UnitsShifted
<1>6. QED
  BY Zenon, <1>1, <1>5 DEF SampleOf

FrameType == [data : Seq(Int), skip : Nat, duration : Nat]

\* The frames of a range, those of the first n ranges, and the time of the first k of them.
FrameOf(f, r, m, k, d) ==
  [data |-> (IF f.media = "video" /\ k = 1 THEN f.private ELSE <<>>)
              \o SampleOf(f.media, r, k, m.samples[k], "annexb"),
   skip |-> IF ~(f.media = "video") /\ m.full THEN 7 ELSE 0,
   duration |-> d]
FramesOfMoof(f, r, m, d) == [k \in DOMAIN m.samples |-> FrameOf(f, r, m, k, d)]
FramesOf(f, r) ==
  IF HasMoof(f.ranges[r]) THEN FramesOfMoof(f, r, MoofOf(f.ranges[r]), DurationOf(f.ranges[r])) ELSE <<>>
ExpectedTo(f, n) == FlattenSeq([r \in 1 .. n |-> FramesOf(f, r)])
TimeTo(e, k) == Sum([j \in 1 .. k |-> e[j].duration])

\* SampleBytes() with start codes, without an operator as an argument.
LEMMA SampleBytesAre ==
  ASSUME NEW r, NEW k, NEW s
  PROVE  SampleBytes(r, k, s, StartCode) = SampleOf(file.media, r, k, s, "annexb")
<1>1. \A u, x : SubsampleBytes(r, k, u, x, StartCode) = UnitOf(file.media, r, k, u, x, "annexb")
  BY Zenon DEF SubsampleBytes, UnitOf, Video, StartCode
<1>2. \A u \in DOMAIN s : SubsampleBytes(r, k, u, s[u], StartCode) = UnitOf(file.media, r, k, u, s[u], "annexb")
  BY Zenon, <1>1
<1>3. [u \in DOMAIN s |-> SubsampleBytes(r, k, u, s[u], StartCode)] = UnitsOf(file.media, r, k, s, "annexb")
  BY Zenon, <1>2 DEF UnitsOf
<1>4. QED
  BY Zenon, <1>3 DEF SampleBytes, SampleOf

\* Frames() of the properties, as a function of the file.
LEMMA FramesAre ==
  ASSUME NEW r
  PROVE  Frames(r) = FramesOfMoof(file, r, MoofOf(file.ranges[r]), DurationOf(file.ranges[r]))
<1> DEFINE m == MoofOf(file.ranges[r])
<1>1. \A k : SampleBytes(r, k, m.samples[k], StartCode) = SampleOf(file.media, r, k, m.samples[k], "annexb")
  BY Zenon, SampleBytesAre
<1> HIDE DEF m
<1>2. Frames(r) = [k \in DOMAIN m.samples |->
        [data |-> (IF Video /\ k = 1 THEN file.private ELSE <<>>)
                    \o SampleBytes(r, k, m.samples[k], StartCode),
         skip |-> IF ~Video /\ m.full THEN 7 ELSE 0,
         duration |-> DurationOf(Ranges[r])]]
  BY Zenon DEF Frames, m, Ranges
<1>3. \A k \in DOMAIN m.samples :
        [data |-> (IF Video /\ k = 1 THEN file.private ELSE <<>>)
                    \o SampleBytes(r, k, m.samples[k], StartCode),
         skip |-> IF ~Video /\ m.full THEN 7 ELSE 0,
         duration |-> DurationOf(Ranges[r])] = FrameOf(file, r, m, k, DurationOf(file.ranges[r]))
  BY Zenon, <1>1 DEF FrameOf, Video, Ranges
<1>4. QED
  BY Zenon, <1>2, <1>3 DEF FramesOfMoof, m

\* Expected of the properties, as a function of the file and the reader's place.
LEMMA ExpectedIs == Expected = ExpectedTo(file, sample.range)
<1>1. \A r : (IF HasMoof(Ranges[r]) THEN Frames(r) ELSE <<>>) = FramesOf(file, r)
  BY Zenon, FramesAre DEF FramesOf, Ranges
<1>2. QED
  BY Zenon, <1>1 DEF Expected, ExpectedTo

\* The moof of a range is the first usable one.
LEMMA MoofIs ==
  ASSUME NEW range, NEW n \in Nat, DOMAIN range = 1 .. n, NEW i \in 1 .. n,
         Usable(range[i]), \A j \in 1 .. i - 1 : ~Usable(range[j])
  PROVE  /\ HasMoof(range)
         /\ MoofOf(range) = range[i]
         /\ DurationOf(range) = IF "tfhd" \in range[i].missing THEN 2560 ELSE range[i].duration
<1> DEFINE P(x) == x \in DOMAIN range /\ Usable(range[x]) /\ \A j \in 1 .. x - 1 : ~Usable(range[j])
           c == CHOOSE x \in DOMAIN range : Usable(range[x]) /\ \A j \in 1 .. x - 1 : ~Usable(range[j])
<1>1. c \in DOMAIN range /\ Usable(range[c]) /\ \A j \in 1 .. c - 1 : ~Usable(range[j])
  BY Zenon
<1>2. MoofOf(range) = range[c]
  BY Zenon DEF MoofOf
<1> HIDE DEF c
<1>3. c \in 1 .. n
  BY Zenon, <1>1
<1>4. c = i
  <2>1. ~(c < i)
    <3>1. c < i => c \in 1 .. i - 1
      BY <1>3
    <3>2. QED
      BY Zenon, <1>1, <3>1
  <2>2. ~(i < c)
    <3>1. i < c => i \in 1 .. c - 1
      BY <1>3
    <3>2. QED
      BY Zenon, <1>1, <3>1
  <2>3. QED
    BY <1>3, <2>1, <2>2
<1>5. MoofOf(range) = range[i]
  BY Zenon, <1>2, <1>4
<1>6. HasMoof(range)
  BY Zenon DEF HasMoof
<1>7. DurationOf(range) = IF "tfhd" \in range[i].missing THEN 2560 ELSE range[i].duration
  BY <1>5 DEF DurationOf
<1>8. QED
  BY <1>5, <1>6, <1>7

\* There is a first usable moof where there is one.
LEMMA FirstMoof ==
  ASSUME NEW range, NEW n \in Nat, DOMAIN range = 1 .. n, HasMoof(range)
  PROVE  \E i \in 1 .. n : Usable(range[i]) /\ \A j \in 1 .. i - 1 : ~Usable(range[j])
<1> DEFINE T == {k \in Nat : (\E i \in 1 .. n : i <= k /\ Usable(range[i])) =>
                   \E i \in 1 .. n : Usable(range[i]) /\ \A j \in 1 .. i - 1 : ~Usable(range[j])}
<1>1. 0 \in T
  OBVIOUS
<1>2. ASSUME NEW k \in Nat, k \in T PROVE k + 1 \in T
  <2>1. SUFFICES ASSUME NEW i \in 1 .. n, i <= k + 1, Usable(range[i])
                 PROVE  \E l \in 1 .. n : Usable(range[l]) /\ \A j \in 1 .. l - 1 : ~Usable(range[j])
    OBVIOUS
  <2>2. CASE \E l \in 1 .. n : l <= k /\ Usable(range[l])
    BY Zenon, <1>2, <2>2
  <2>3. CASE ~\E l \in 1 .. n : l <= k /\ Usable(range[l])
    <3>1. \A j \in 1 .. i - 1 : j \in 1 .. n /\ j <= k
      BY <2>1
    <3>2. \A j \in 1 .. i - 1 : ~Usable(range[j])
      BY Zenon, <2>3, <3>1
    <3>3. QED
      BY Zenon, <2>1, <3>2
  <2>4. QED
    BY <2>2, <2>3
<1> HIDE DEF T
<1>3. n \in T
  BY <1>1, <1>2, SetInduction
<1>4. \E i \in 1 .. n : i <= n /\ Usable(range[i])
  <2>1. \A i \in 1 .. n : i <= n
    OBVIOUS
  <2>2. QED
    BY Zenon, <2>1 DEF HasMoof
<1>5. QED
  BY Zenon, <1>3, <1>4 DEF T

\* A moof or an mdat has a table, and a moof a duration and a set of missing parts.
LEMMA AtomProperties ==
  ASSUME NEW a \in Atoms
  PROVE  /\ a.type \in {"other", "mdat", "moof"}
         /\ a.type # "other" => a.samples \in Tables
         /\ a.type = "moof" => a.full \in BOOLEAN /\ a.duration \in Nat
BY DEF Atoms

\* What the proofs use of a range of a file.
IsRange(f, r, range, n) ==
  /\ range = f.ranges[r] /\ n \in Nat /\ Len(range) = n /\ DOMAIN range = 1 .. n
  /\ \E i \in 1 .. n : range[i].type = "mdat"
  /\ \A i \in 1 .. n :
       /\ range[i] \in Atoms
       /\ range[i].type # "other" => IsTable(f.media, range[i].samples)
       /\ range[i].type = "moof" => IsMoof(f.media, range[i])
       /\ range[i].type = "mdat" => \A j \in 1 .. i - 1 : IsRead(range, j) =>
            \/ range[j].samples = range[i].samples
            \/ SizesAreChecked(f) /\ TableSize(range[j].samples) > TableSize(range[i].samples)

\* A range of a file has an mdat, and the moofs that are read describe it or are too large.
LEMMA RangeProperties ==
  ASSUME NEW f, IsFile(f), NEW r \in 1 .. Len(f.ranges)
  PROVE  IsRange(f, r, f.ranges[r], Len(f.ranges[r]))
<1>1. f.ranges \in Seq(Seq(Atoms)) /\ f.media \in {"video", "audio"}
  BY Zenon DEF IsFile
<1>2. Len(f.ranges) \in Nat /\ DOMAIN f.ranges = 1 .. Len(f.ranges)
  BY <1>1, LenProperties
<1>3. PICK range \in Seq(Atoms) : range = f.ranges[r]
  BY <1>1
<1>4. PICK n \in Nat : n = Len(range) /\ DOMAIN range = 1 .. n
  BY LenProperties
<1>5. r \in DOMAIN f.ranges
  BY Zenon, <1>2
<1>6. /\ \E i \in DOMAIN range : range[i].type = "mdat"
      /\ \A i \in DOMAIN range :
           /\ range[i].type # "other" => IsTable(f.media, range[i].samples)
           /\ range[i].type = "moof" /\ range[i].full =>
                f.media = "audio" /\ \A k \in DOMAIN range[i].samples : IsWhole(range[i].samples[k])
           /\ range[i].type = "mdat" => \A j \in 1 .. i - 1 : IsRead(range, j) =>
                \/ range[j].samples = range[i].samples
                \/ SizesAreChecked(f) /\ TableSize(range[j].samples) > TableSize(range[i].samples)
  BY Zenon, <1>3, <1>5 DEF IsFile
<1>7. \A i \in 1 .. n : range[i] \in Atoms
  BY <1>4
<1>8. ASSUME NEW i \in 1 .. n, range[i].type = "moof" PROVE IsMoof(f.media, range[i])
  <2>1. PICK a \in Atoms : a = range[i]
    BY Zenon, <1>7
  <2>2. a.type # "other" /\ a.samples \in Tables
    BY <1>8, <2>1, AtomProperties
  <2>3. IsTable(f.media, a.samples)
    BY Zenon, <1>4, <1>6, <2>1, <2>2
  <2>4. a.full => f.media = "audio" /\ \A k \in DOMAIN a.samples : IsWhole(a.samples[k])
    BY Zenon, <1>4, <1>6, <1>8, <2>1
  <2>5. "audio" # "video"
    OBVIOUS
  <2>6. QED
    BY Zenon, <2>1, <2>2, <2>3, <2>4, <2>5 DEF IsMoof
<1>9. QED
  BY Zenon, <1>3, <1>4, <1>6, <1>7, <1>8 DEF IsRange

\* The moof whose samples are taken is well-formed, and its duration a number.
LEMMA MoofProperties ==
  ASSUME NEW f, NEW r, NEW range, NEW n, IsRange(f, r, range, n), HasMoof(range)
  PROVE  /\ IsMoof(f.media, MoofOf(range))
         /\ DurationOf(range) \in Nat
<1>1. n \in Nat /\ DOMAIN range = 1 .. n
  BY Zenon DEF IsRange
<1>2. PICK i \in 1 .. n : Usable(range[i]) /\ \A j \in 1 .. i - 1 : ~Usable(range[j])
  BY <1>1, FirstMoof
<1>3. PICK a : a = range[i]
  OBVIOUS
<1>4. a \in Atoms /\ a.type = "moof" /\ IsMoof(f.media, a)
  <2>1. a.type = "moof"
    BY Zenon, <1>2, <1>3 DEF Usable
  <2>2. QED
    BY Zenon, <1>3, <2>1 DEF IsRange
<1>5. a.duration \in Nat
  BY <1>4, AtomProperties
<1>6. MoofOf(range) = a /\ DurationOf(range) = IF "tfhd" \in a.missing THEN 2560 ELSE a.duration
  BY <1>1, <1>2, <1>3, MoofIs
<1>7. DurationOf(range) \in Nat
  BY <1>5, <1>6
<1>8. QED
  BY Zenon, <1>4, <1>6, <1>7

\* A frame is a record of bytes, a number of bytes to skip and a duration.
LEMMA FrameProperties ==
  ASSUME NEW f, f.private \in Seq(Int), NEW r \in Nat, NEW m, IsMoof(f.media, m),
         NEW k \in 1 .. Len(m.samples), NEW d \in Nat
  PROVE  FrameOf(f, r, m, k, d) \in FrameType
<1>1. PICK samples \in Tables : samples = m.samples /\ IsTable(f.media, samples)
  BY Zenon DEF IsMoof
<1>2. k \in Nat /\ IsSample(f.media, samples[k])
  <2>1. /\ Len(samples) \in Nat \ {0} /\ DOMAIN samples = 1 .. Len(samples)
        /\ \A i \in 1 .. Len(samples) : i \in Nat /\ IsSample(f.media, samples[i])
    BY <1>1, TableProperties
  <2>2. QED
    BY Zenon, <1>1, <2>1
<1>3. PICK s : s = samples[k] /\ IsSample(f.media, s)
  BY Zenon, <1>2
<1> PICK form : form = "annexb"
  OBVIOUS
<1> PICK media : media = f.media
  OBVIOUS
<1>4. PICK p : p = SampleOf(media, r, k, s, form)
  OBVIOUS
<1>5. p \in Seq(Int)
  BY <1>2, <1>3, <1>4, SampleProperties
<1>6. PICK x \in Seq(Int) : x = IF f.media = "video" /\ k = 1 THEN f.private ELSE <<>>
  BY Zenon, EmptySeq
<1>7. x \o p \in Seq(Int)
  BY <1>5, ConcatProperties
<1>8. PICK y \in Nat : y = IF ~(f.media = "video") /\ m.full THEN 7 ELSE 0
  OBVIOUS
<1>9. FrameOf(f, r, m, k, d) = [data |-> x \o p, skip |-> y, duration |-> d]
  BY Zenon, <1>1, <1>3, <1>4, <1>6, <1>8 DEF FrameOf
<1>10. QED
  BY <1>7, <1>9 DEF FrameType

\* The frames of a moof are a sequence of frames, as long as its table.
LEMMA FramesOfMoofProperties ==
  ASSUME NEW f, f.private \in Seq(Int), NEW r \in Nat, NEW m, IsMoof(f.media, m), NEW d \in Nat
  PROVE  /\ FramesOfMoof(f, r, m, d) \in Seq(FrameType)
         /\ Len(FramesOfMoof(f, r, m, d)) = Len(m.samples)
         /\ \A k \in 1 .. Len(m.samples) : FramesOfMoof(f, r, m, d)[k] = FrameOf(f, r, m, k, d)
<1>1. PICK samples \in Tables : samples = m.samples /\ IsTable(f.media, samples)
  BY Zenon DEF IsMoof
<1>2. Len(samples) \in Nat \ {0} /\ DOMAIN samples = 1 .. Len(samples)
  BY <1>1, TableProperties
<1>3. PICK n \in Nat : n = Len(m.samples) /\ DOMAIN m.samples = 1 .. n
  BY <1>1, <1>2
<1>4. PICK g : g = [k \in 1 .. n |-> FrameOf(f, r, m, k, d)]
  BY Zenon
<1>5. FramesOfMoof(f, r, m, d) = g
  BY Zenon, <1>3, <1>4 DEF FramesOfMoof
<1>6. \A k \in 1 .. n : FrameOf(f, r, m, k, d) \in FrameType
  BY <1>3, FrameProperties
<1>7. g \in [1 .. n -> FrameType] /\ \A k \in 1 .. n : g[k] = FrameOf(f, r, m, k, d)
  BY <1>4, <1>6
<1>8. g \in Seq(FrameType) /\ Len(g) = n
  BY <1>7, FunctionIsSeq
<1>9. QED
  BY Zenon, <1>3, <1>5, <1>7, <1>8

\* The frames of a range are a sequence of frames.
LEMMA FramesOfType ==
  ASSUME NEW f, IsFile(f), NEW r \in 1 .. Len(f.ranges)
  PROVE  /\ FramesOf(f, r) \in Seq(FrameType)
         /\ f.private \in Seq(Int)
<1>1. f.ranges \in Seq(Seq(Atoms)) /\ f.private \in Seq(Nat)
  BY Zenon DEF IsFile
<1>2. r \in Nat /\ f.private \in Seq(Int)
  BY <1>1, LenProperties
<1>3. IsRange(f, r, f.ranges[r], Len(f.ranges[r]))
  BY Zenon, RangeProperties
<1>4. CASE HasMoof(f.ranges[r])
  <2>1. IsMoof(f.media, MoofOf(f.ranges[r])) /\ DurationOf(f.ranges[r]) \in Nat
    BY Zenon, <1>3, <1>4, MoofProperties
  <2>2. FramesOfMoof(f, r, MoofOf(f.ranges[r]), DurationOf(f.ranges[r])) \in Seq(FrameType)
    BY Zenon, <1>2, <2>1, FramesOfMoofProperties
  <2>3. QED
    BY Zenon, <1>2, <1>4, <2>2 DEF FramesOf
<1>5. CASE ~HasMoof(f.ranges[r])
  <2>1. <<>> \in Seq(FrameType)
    BY EmptySeq
  <2>2. QED
    BY Zenon, <1>2, <1>5, <2>1 DEF FramesOf
<1>6. QED
  BY <1>4, <1>5

\* g holds what e holds and, behind it, what x holds.
Extends(g, e, x) ==
  /\ e \in Seq(FrameType) /\ x \in Seq(FrameType) /\ g \in Seq(FrameType)
  /\ Len(g) = Len(e) + Len(x)
  /\ \A i \in 1 .. Len(e) : g[i] = e[i]
  /\ \A i \in 1 .. Len(x) : g[Len(e) + i] = x[i]

\* A concatenation extends what it begins with.
LEMMA ConcatExtends ==
  ASSUME NEW e \in Seq(FrameType), NEW x \in Seq(FrameType), NEW g, g = e \o x
  PROVE  Extends(g, e, x)
<1>1. Len(e) \in Nat /\ Len(x) \in Nat
  BY LenProperties
<1>2. /\ g \in Seq(FrameType) /\ Len(g) = Len(e) + Len(x)
      /\ \A i \in 1 .. Len(e) + Len(x) : g[i] = IF i <= Len(e) THEN e[i] ELSE x[i - Len(e)]
  BY ConcatProperties
<1>3. \A i \in 1 .. Len(e) : g[i] = e[i]
  BY <1>1, <1>2
<1>4. ASSUME NEW i \in 1 .. Len(x) PROVE g[Len(e) + i] = x[i]
  <2>1. Len(e) + i \in 1 .. Len(e) + Len(x) /\ ~(Len(e) + i <= Len(e)) /\ (Len(e) + i) - Len(e) = i
    BY <1>1
  <2>2. QED
    BY Zenon, <1>2, <2>1
<1>5. QED
  BY Zenon, <1>2, <1>3, <1>4 DEF Extends

\* One more range appends its frames to those expected.
LEMMA ExpectedGrows ==
  ASSUME NEW f, IsFile(f), NEW n \in 1 .. Len(f.ranges)
  PROVE  Extends(ExpectedTo(f, n), ExpectedTo(f, n - 1), FramesOf(f, n))
<1>1. f.ranges \in Seq(Seq(Atoms))
  BY Zenon DEF IsFile
<1>2. Len(f.ranges) \in Nat
  BY <1>1, LenProperties
<1>3. n \in Nat /\ n - 1 \in Nat
  BY <1>2
<1>4. \A r \in 1 .. n : r \in 1 .. Len(f.ranges)
  BY <1>2
<1>5. \A r \in 1 .. n : FramesOf(f, r) \in Seq(FrameType)
  BY Zenon, <1>4, FramesOfType
<1>6. PICK tt : tt = [r \in 1 .. n |-> FramesOf(f, r)]
  BY Zenon
<1>7. PICK ss : ss = [r \in 1 .. n - 1 |-> FramesOf(f, r)]
  BY Zenon
<1>8. tt \in Seq(Seq(FrameType)) /\ Len(tt) = n
  <2>1. tt \in [1 .. n -> Seq(FrameType)]
    BY <1>5, <1>6
  <2>2. QED
    BY <1>3, <2>1, FunctionIsSeq
<1>9. ss \in Seq(Seq(FrameType)) /\ Len(ss) = n - 1
  <2>1. ss \in [1 .. n - 1 -> Seq(FrameType)]
    BY <1>3, <1>5, <1>7
  <2>2. QED
    BY <1>3, <2>1, FunctionIsSeq
<1>10. \A k \in 1 .. Len(ss) : tt[k] = ss[k]
  BY <1>3, <1>6, <1>7, <1>9
<1>11. FlattenSeq(tt) = FlattenSeq(ss) \o tt[Len(ss) + 1]
  <2>1. Len(tt) = Len(ss) + 1
    BY <1>3, <1>8, <1>9
  <2>2. QED
    BY Zenon, <1>8, <1>9, <1>10, <2>1, FlattenLast
<1>12. tt[Len(ss) + 1] = FramesOf(f, n)
  BY <1>3, <1>6, <1>9
<1>13. FlattenSeq(ss) \in Seq(FrameType)
  BY <1>9, FlattenProperties
<1>14. FramesOf(f, n) \in Seq(FrameType)
  BY Zenon, FramesOfType
<1>15. FlattenSeq(tt) = FlattenSeq(ss) \o FramesOf(f, n)
  BY Zenon, <1>11, <1>12
<1>16. Extends(FlattenSeq(tt), FlattenSeq(ss), FramesOf(f, n))
  BY Zenon, <1>13, <1>14, <1>15, ConcatExtends
<1>17. QED
  BY Zenon, <1>6, <1>7, <1>16 DEF ExpectedTo

\* Before the first range nothing is expected.
LEMMA NothingExpected == ASSUME NEW f PROVE ExpectedTo(f, 0) = <<>>
<1>1. [r \in 1 .. 0 |-> FramesOf(f, r)] = <<>>
  OBVIOUS
<1>2. QED
  BY Zenon, <1>1, FlattenEmpty DEF ExpectedTo

\* The time of a frame is the sum of the durations of those before it.
LEMMA TimeProperties ==
  ASSUME NEW e \in Seq(FrameType)
  PROVE  /\ TimeTo(e, 0) = 0
         /\ \A k \in 1 .. Len(e) : TimeTo(e, k) = TimeTo(e, k - 1) + e[k].duration
         /\ \A k \in 0 .. Len(e) : TimeTo(e, k) \in Nat
<1> DEFINE D(k) == [j \in 1 .. k |-> e[j].duration]
<1>1. Len(e) \in Nat
  BY LenProperties
<1>2. ASSUME NEW k \in 0 .. Len(e) PROVE D(k) \in Seq(Nat) /\ Len(D(k)) = k
  <2>1. \A j \in 1 .. k : e[j].duration \in Nat
    <3>1. TAKE j \in 1 .. k
    <3>2. j \in 1 .. Len(e)
      BY <1>1
    <3>3. e[j] \in FrameType
      BY <3>2
    <3>4. QED
      BY <3>3 DEF FrameType
  <2>2. D(k) \in [1 .. k -> Nat]
    BY <2>1
  <2>3. k \in Nat
    BY <1>1
  <2>4. PICK g : g = D(k)
    BY Zenon
  <2>5. g \in Seq(Nat) /\ Len(g) = k
    BY <2>2, <2>3, <2>4, FunctionIsSeq
  <2>6. QED
    BY Zenon, <2>4, <2>5
<1>3. \A k \in 0 .. Len(e) : TimeTo(e, k) = Offset(D(k), k) /\ TimeTo(e, k) \in Nat
  <2>1. TAKE k \in 0 .. Len(e)
  <2>2. PICK g \in Seq(Nat) : g = D(k) /\ Len(g) = k
    BY Zenon, <1>2
  <2>3. Sum(g) = Offset(g, Len(g)) /\ Offset(g, Len(g)) \in Nat
    <3>1. Len(g) \in 0 .. Len(g)
      BY LenProperties
    <3>2. QED
      BY <3>1, OffsetStep
  <2>4. QED
    BY Zenon, <2>2, <2>3 DEF TimeTo
<1>4. TimeTo(e, 0) = 0
  <2>3. 0 \in 0 .. Len(e)
    BY <1>1
  <2>1. PICK g \in Seq(Nat) : g = D(0)
    BY Zenon, <1>2, <2>3
  <2>2. Offset(g, 0) = 0
    BY OffsetStep
  <2>4. QED
    BY Zenon, <1>3, <2>1, <2>2, <2>3
<1>5. ASSUME NEW k \in 1 .. Len(e) PROVE TimeTo(e, k) = TimeTo(e, k - 1) + e[k].duration
  <2>1. k \in 0 .. Len(e) /\ k - 1 \in 0 .. Len(e) /\ k \in Nat /\ k - 1 \in Nat
    BY <1>1
  <2>2. PICK g \in Seq(Nat) : g = D(k) /\ Len(g) = k
    BY Zenon, <1>2, <2>1
  <2>3. PICK h \in Seq(Nat) : h = D(k - 1) /\ Len(h) = k - 1
    BY Zenon, <1>2, <2>1
  <2>4. Offset(g, k) = Offset(g, k - 1) + g[k]
    <3>1. k \in 1 .. Len(g)
      BY <2>1, <2>2
    <3>2. \A i \in 1 .. Len(g) : Offset(g, i) = Offset(g, i - 1) + g[i]
      BY OffsetStep
    <3>3. QED
      BY Zenon, <3>1, <3>2
  <2>5. Offset(g, k - 1) = Offset(h, k - 1)
    <3>1. PICK l \in Nat : l = k - 1
      BY <2>1
    <3>2. l <= Len(g) /\ l <= Len(h) /\ \A i \in 1 .. l : g[i] = h[i]
      BY <2>1, <2>2, <2>3, <3>1
    <3>3. Offset(g, l) = Offset(h, l)
      BY <3>2, SumOfEqual
    <3>4. QED
      BY Zenon, <3>1, <3>3
  <2>6. g[k] = e[k].duration
    BY <2>1, <2>2
  <2>7. QED
    BY Zenon, <1>3, <2>1, <2>2, <2>3, <2>4, <2>5, <2>6
<1>6. QED
  BY Zenon, <1>3, <1>4, <1>5

\* The time of a frame is the same in a longer sequence of frames.
LEMMA SameTime ==
  ASSUME NEW g, NEW e, NEW x, Extends(g, e, x), NEW k \in 0 .. Len(e)
  PROVE  TimeTo(g, k) = TimeTo(e, k)
<1>1. Len(e) \in Nat /\ \A i \in 1 .. Len(e) : g[i] = e[i]
  BY LenProperties DEF Extends
<1>2. \A j \in 1 .. k : j \in 1 .. Len(e)
  BY <1>1
<1>3. \A j \in 1 .. k : g[j].duration = e[j].duration
  BY Zenon, <1>1, <1>2
<1>4. QED
  BY Zenon, <1>3 DEF TimeTo

\* Without its header a frame is its payload.
LEMMA DropHead ==
  ASSUME NEW h \in Seq(Int), NEW p \in Seq(Int), NEW l \in Nat, Len(h) = l,
         NEW n \in Nat, Len(p) = n, n > 0
  PROVE  Drop(h \o p, l) = p
<1>1. PICK y : y = h \o p
  BY Zenon
<1>2. PICK k \in Nat : k = l + n
  OBVIOUS
<1>3. Len(y) = k
  BY Zenon, <1>1, <1>2, ConcatProperties
<1>4. PICK m \in Nat : m = l + 1
  OBVIOUS
<1>5. m \in Len(h) + 1 .. Len(h) + Len(p) /\ k \in Len(h) + 1 .. Len(h) + Len(p)
  BY <1>2, <1>4
<1>6. SubSeq(y, m, k) = SubSeq(p, m - Len(h), k - Len(h))
  BY Zenon, <1>1, <1>5, SubSeqOfConcat2
<1>7. m - Len(h) = 1 /\ k - Len(h) = Len(p)
  BY <1>2, <1>4
<1>8. SubSeq(p, 1, Len(p)) = p
  BY SubSeqFull
<1>9. QED
  BY Zenon, <1>1, <1>3, <1>4, <1>6, <1>7, <1>8 DEF Drop

\* Without a header a frame is what it is.
LEMMA DropNothing == ASSUME NEW y \in Seq(Int) PROVE Drop(y, 0) = y
<1>1. SubSeq(y, 1, Len(y)) = y
  BY SubSeqFull
<1>2. 0 + 1 = 1
  OBVIOUS
<1>3. QED
  BY Zenon, <1>1, <1>2 DEF Drop

\* The input buffer of frame k: what is in front of it, its bytes, its entries.
ExtraOf(f, k) == IF f.media = "video" /\ k = 1 THEN f.private ELSE <<>>
DataOf(f, c, r, m, k) == ExtraOf(f, k) \o PieceOf(f.media, c, r, m, k)
EntriesOf(m, k) == IF m.full THEN <<<<AdtsHeaderSize, Size(m.samples[k])>>>> ELSE m.samples[k]
SubsOf(f, m, k) == Shifted(EntriesOf(m, k), Len(ExtraOf(f, k)))

\* The codec private data is clear.
LEMMA ExtraProperties ==
  ASSUME NEW f, f.private \in Seq(Nat), NEW k
  PROVE  ExtraOf(f, k) \in Seq(Int) /\ IsClear(ExtraOf(f, k))
<1>1. f.private \in Seq(Int) /\ IsClear(f.private)
  <2>1. f.private \in Seq(Int)
    OBVIOUS
  <2>2. \A i \in 1 .. Len(f.private) : f.private[i] \in Nat
    OBVIOUS
  <2>3. QED
    BY <2>1, <2>2 DEF IsClear
<1>2. <<>> \in Seq(Int) /\ IsClear(<<>>)
  BY EmptySeq DEF IsClear
<1>3. QED
  BY Zenon, <1>1, <1>2 DEF ExtraOf

\* An ADTS header is clear.
LEMMA HeaderIsClear ==
  ASSUME NEW c \in Configs, NEW n \in FrameSizes, NEW h, h = HeaderOf(c, n)
  PROVE  h \in Seq(Int) /\ Len(h) = 7 /\ IsClear(h)
<1>1. n \in 1 .. 8191 - AdtsHeaderSize
  BY DEF FrameSizes
<1>2. /\ HeaderOf(c, n) \in Seq(Int) /\ Len(HeaderOf(c, n)) = 7
      /\ \A j \in 1 .. 7 : HeaderOf(c, n)[j] >= 0
      /\ HeaderOf(c, n)[1] = 255 /\ HeaderOf(c, n)[2] = 241
      /\ FrameLength(HeaderOf(c, n), 1) = n + 7
  BY <1>1, HeaderProperties
<1>3. QED
  BY <1>2 DEF IsClear

\* The entry for a frame with a header is that of its only subsample with the header in front.
LEMMA WholeShifted ==
  ASSUME NEW s \in Seq(Nat \X Nat), IsWhole(s)
  PROVE  Shifted(<<<<AdtsHeaderSize, Size(s)>>>>, 0) = Shifted(s, 7)
<1>1. Len(s) = 1 /\ s[1][1] = 0 /\ s[1][2] = Size(s) /\ Size(s) \in Nat
  BY WholeProperties, SizesInType
<1>2. PICK n \in Nat : n = Size(s)
  BY <1>1
<1> PICK entry \in Nat \X Nat : entry = <<AdtsHeaderSize, n>> /\ entry = <<7, n>>
  BY Zenon DEF AdtsHeaderSize
<1>31. <<entry>> \in Seq(Nat \X Nat) /\ Len(<<entry>>) = 1 /\ <<entry>>[1] = entry
  OBVIOUS
<1>3. PICK z \in Seq(Nat \X Nat) : z = <<<<AdtsHeaderSize, n>>>> /\ Len(z) = 1 /\ z[1] = <<7, n>>
  BY Zenon, <1>31
<1>4. z[1][1] = 7 /\ z[1][2] = n
  BY <1>3
<1>5. Shifted(z, 0) = [z EXCEPT ![1] = <<7, n>>]
  <2>1. z[1][1] + 0 = 7
    BY <1>4
  <2>2. QED
    BY Zenon, <1>4, <2>1 DEF Shifted
<1>6. Shifted(s, 7) = [s EXCEPT ![1] = <<7, n>>]
  <2>1. s[1][1] + 7 = 7
    BY <1>1
  <2>2. QED
    BY Zenon, <1>1, <1>2, <2>1 DEF Shifted
<1>7. PICK e \in Nat \X Nat : e = <<7, n>>
  OBVIOUS
<1>8. PICK a : a = [z EXCEPT ![1] = e]
  BY Zenon
<1>9. PICK b : b = [s EXCEPT ![1] = e]
  BY Zenon
<1>10. a \in Seq(Nat \X Nat) /\ Len(a) = 1 /\ a[1] = e
  BY <1>3, <1>8
<1>11. b \in Seq(Nat \X Nat) /\ Len(b) = 1 /\ b[1] = e
  <2>1. Len(s) > 0
    BY <1>1
  <2>2. b \in Seq(Nat \X Nat) /\ Len(b) = Len(s) /\ b[1] = e /\ \A u \in 1 .. Len(s) : u # 1 => b[u] = s[u]
    BY <1>9, <2>1, ExceptFirst
  <2>3. QED
    BY Zenon, <1>1, <2>2
<1>12. a = b
  BY <1>10, <1>11
<1>13. QED
  BY Zenon, <1>2, <1>3, <1>5, <1>6, <1>7, <1>8, <1>9, <1>12

\* What the CDM is given of a frame is the frame, behind a header or not, and what it is
\* told to be encrypted is.
LEMMA InputOfFrame ==
  ASSUME NEW f, f.private \in Seq(Nat), NEW c \in Configs, NEW r \in Nat, NEW m, IsMoof(f.media, m),
         NEW k \in 1 .. Len(m.samples), NEW d
  PROVE  /\ DataOf(f, c, r, m, k) \in Seq(Int)
         /\ TellsCipher(SubsOf(f, m, k), DataOf(f, c, r, m, k))
         /\ Drop(DataOf(f, c, r, m, k), FrameOf(f, r, m, k, d).skip) = FrameOf(f, r, m, k, d).data
<1>1. PICK samples \in Tables : samples = m.samples /\ IsTable(f.media, samples)
  BY Zenon DEF IsMoof
<1>2. /\ Len(samples) \in Nat \ {0} /\ DOMAIN samples = 1 .. Len(samples)
      /\ \A i \in 1 .. Len(samples) : i \in Nat /\ IsSample(f.media, samples[i])
  BY <1>1, TableProperties
<1>3. PICK s : s = samples[k]
  OBVIOUS
<1>4. k \in Nat /\ IsSample(f.media, s) /\ s \in Seq(Nat \X Nat) /\ k \in DOMAIN samples
  BY Zenon, <1>1, <1>2, <1>3 DEF IsSample
<1> PICK media : media = f.media
  OBVIOUS
<1> PICK form : form = "annexb"
  OBVIOUS
<1>5. PICK p : p = SampleOf(media, r, k, s, form)
  OBVIOUS
<1>6. p \in Seq(Int) /\ Len(p) = Size(s)
  BY <1>4, <1>5, SampleProperties
<1>7. PICK x : x = ExtraOf(f, k)
  OBVIOUS
<1>8. x \in Seq(Int) /\ IsClear(x)
  BY Zenon, <1>7, ExtraProperties
<1> PICK frame : frame = FrameOf(f, r, m, k, d)
  OBVIOUS
<1> PICK data : data = DataOf(f, c, r, m, k)
  OBVIOUS
<1> PICK subs : subs = SubsOf(f, m, k)
  OBVIOUS
<1>9. frame = [data |-> x \o p, skip |-> IF ~(f.media = "video") /\ m.full THEN 7 ELSE 0, duration |-> d]
  BY Zenon, <1>1, <1>3, <1>5, <1>7 DEF FrameOf, ExtraOf
<1>10. frame.data = x \o p /\ frame.skip = IF ~(f.media = "video") /\ m.full THEN 7 ELSE 0
  BY <1>9
<1>11. data \in Seq(Int) /\ TellsCipher(subs, data) /\ Drop(data, frame.skip) = frame.data
  <2>1. CASE m.full
    <3>1. f.media # "video" /\ IsWhole(s)
      BY Zenon, <1>1, <1>3, <1>4, <2>1 DEF IsMoof
    <3>2. Size(s) \in FrameSizes
      BY <1>4, <3>1, WholeProperties
    <3>3. PICK h : h = HeaderOf(c, Size(s))
      OBVIOUS
    <3>4. h \in Seq(Int) /\ Len(h) = 7 /\ IsClear(h)
      BY <3>2, <3>3, HeaderIsClear
    <3>5. x = <<>>
      BY Zenon, <1>7, <3>1 DEF ExtraOf
    <3>6. <<>> \o (h \o p) = h \o p /\ <<>> \o p = p
      BY <1>6, <3>4, ConcatProperties, ConcatEmptySeq
    <3>7. data = h \o p /\ frame.data = p
      BY Zenon, <1>1, <1>3, <1>5, <1>7, <1>10, <2>1, <3>3, <3>5, <3>6 DEF DataOf, PieceOf
    <3>8. frame.skip = 7
      BY Zenon, <1>10, <2>1, <3>1
    <3>9. Drop(data, 7) = p
      <4>0. Size(s) > 0
        <5>1. \A n \in FrameSizes : n > 0
          BY DEF FrameSizes, AdtsHeaderSize
        <5>2. QED
          BY Zenon, <3>2, <5>1
      <4>1. PICK n \in Nat : n = Size(s) /\ n > 0
        BY <1>4, <4>0, SizesInType
      <4>2. PICK l \in Nat : l = 7
        OBVIOUS
      <4>3. Drop(h \o p, l) = p
        BY Zenon, <1>6, <3>4, <4>1, <4>2, DropHead
      <4>4. QED
        BY Zenon, <3>7, <4>2, <4>3
    <3>10. subs = Shifted(s, 7)
      <4>1. Len(<<>>) = 0
        BY EmptySeq
      <4>2. subs = Shifted(<<<<AdtsHeaderSize, Size(s)>>>>, 0)
        BY Zenon, <1>1, <1>3, <1>7, <2>1, <3>5, <4>1 DEF SubsOf, EntriesOf
      <4>3. QED
        BY Zenon, <1>4, <3>1, <4>2, WholeShifted
    <3>11. TellsCipher(subs, h \o p)
      <4>1. PICK n \in Nat : n = 7
        OBVIOUS
      <4>2. TellsCipher(subs, h \o SampleOf(media, r, k, s, form))
        BY Zenon, <1>4, <3>4, <3>10, <4>1, PrependedCipher
      <4>3. QED
        BY Zenon, <1>5, <4>2
    <3>12. h \o p \in Seq(Int)
      BY <1>6, <3>4, ConcatProperties
    <3>13. QED
      BY Zenon, <3>7, <3>8, <3>9, <3>11, <3>12
  <2>2. CASE ~m.full
    <3>1. data = x \o p /\ frame.skip = 0
      BY Zenon, <1>1, <1>3, <1>5, <1>7, <1>10, <2>2 DEF DataOf, PieceOf
    <3>2. data \in Seq(Int)
      BY <1>6, <1>8, <3>1, ConcatProperties
    <3>3. Drop(data, frame.skip) = frame.data
      BY Zenon, <1>10, <3>1, <3>2, DropNothing
    <3>4. PICK n \in Nat : n = Len(x)
      BY <1>8, LenProperties
    <3>5. subs = Shifted(s, n)
      BY Zenon, <1>1, <1>3, <1>7, <2>2, <3>4 DEF SubsOf, EntriesOf
    <3>6. TellsCipher(subs, x \o SampleOf(media, r, k, s, form))
      BY <1>4, <1>8, <3>4, <3>5, PrependedCipher
    <3>7. QED
      BY Zenon, <1>5, <3>1, <3>2, <3>3, <3>6
  <2>3. QED
    BY <2>1, <2>2
<1>12. QED
  BY Zenon, <1>11


-----------------------------------------------------------------------------
(* The inductive invariant                                                 *)

FoundType == [moof : BOOLEAN, subs : BOOLEAN, sizes : Seq(Nat), table : Tables,
              duration : Nat, expected : Nat]
SampleType == [range : Nat, data : Seq(Int), subs : BOOLEAN, sizes : Seq(Nat), table : Tables,
               duration : Nat]
InputType == [data : Seq(Int), timestamp : Nat, subsamples : Seq(Nat \X Nat)]

TypeOK ==
  /\ file \in Files
  /\ stream \in [protected : BOOLEAN, naluLength : Nat, config : Configs]
  /\ phase \in {"init", "rejected", "parse", "convert", "decrypt", "ended", "asserted", "waiting",
                "undefined"}
  /\ reader \in [range : Nat \ {0}, atom : Nat \ {0}]
  /\ found \in FoundType
  /\ sample \in SampleType
  /\ decrypt \in [pos : Nat \ {0}, offset : Nat, decrypted : Seq(Int)]
  /\ subsampleBuffer \in Seq(Nat \X Nat)
  /\ globalTimestamp \in Nat
  /\ inputs \in Seq(InputType)
  /\ output \in Seq(Seq(Int))
  /\ cdmFailed \in BOOLEAN

Fresh == [pos |-> 1, offset |-> 0, decrypted |-> <<>>]
Checked == file.media = "video" \/ stream.protected

\* Where the reader is; it never reads past an mdat in a range.
PlaceOK ==
  /\ reader.range \in 1 .. Len(file.ranges) + 1
  /\ sample.range \in 0 .. Len(file.ranges)
  /\ phase = "parse" /\ reader.range <= Len(file.ranges) =>
       /\ reader.atom \in 1 .. Len(file.ranges[reader.range])
       /\ \A i \in 1 .. reader.atom - 1 : file.ranges[reader.range][i].type # "mdat"
  /\ phase \in {"init", "parse", "convert", "decrypt"} => sample.range = reader.range - 1
  /\ phase \in {"init", "convert", "decrypt"} => reader.atom = 1 /\ found = NothingFound
  /\ phase \in {"init", "parse", "convert"} => decrypt = Fresh
  /\ phase = "init" => inputs = <<>> /\ output = <<>> /\ globalTimestamp = 0 /\ sample.range = 0

\* What decryption has to do with the stream.
StreamOK ==
  /\ phase \in {"parse", "convert", "decrypt"} /\ SizesAreChecked(file) => stream.protected
  /\ file.media # "video" /\ ~stream.protected => inputs = <<>> /\ output = <<>> /\ phase # "decrypt"
  /\ file.media = "video" => output = <<>>

\* What the locals of ParseMoofMdat() hold after n atoms of a range: nothing but what is
\* left of moofs it could not use, or the first one it could.
Sized(range, j) == IsRead(range, j) /\ range[j].full
NothingYet(range, n, fd) ==
  /\ ~fd.moof /\ fd.table = <<>>
  /\ \A j \in 1 .. n : ~Usable(range[j])
  /\ fd.sizes # <<>> => \E j \in 1 .. n : Sized(range, j) /\ fd.expected >= TableSize(range[j].samples)
IsFound(range, i, fd) ==
  /\ fd.moof
  /\ Usable(range[i]) /\ \A j \in 1 .. i - 1 : ~Usable(range[j])
  /\ fd.table = range[i].samples
  /\ fd.subs => ~range[i].full
  /\ ~fd.subs => range[i].full
  /\ fd.duration = IF "tfhd" \in range[i].missing THEN 2560 ELSE range[i].duration
  /\ fd.expected >= TableSize(range[i].samples)
  /\ range[i].full => fd.sizes = TableSizes(range[i].samples)
  /\ ~range[i].full /\ fd.sizes # <<>> =>
       \E j \in 1 .. i - 1 : /\ Sized(range, j)
                             /\ fd.expected >= TableSize(range[i].samples) + TableSize(range[j].samples)
FoundSo(range, n, fd, protected) ==
  \/ NothingYet(range, n, fd)
  \/ \E i \in 1 .. n : IsFound(range, i, fd)
  \/ fd.moof /\ fd.table = <<>> /\ ~protected
FoundOK ==
  phase = "parse" /\ reader.range <= Len(file.ranges) =>
    FoundSo(file.ranges[reader.range], reader.atom - 1, found, stream.protected)

\* A sample, or the locals it is made of, that the moof of a range describes.
Described(range, s) ==
  /\ HasMoof(range)
  /\ s.table = MoofOf(range).samples
  /\ s.subs => ~MoofOf(range).full
  /\ ~s.subs => MoofOf(range).full
  /\ s.duration = DurationOf(range)
  /\ s.sizes = IF MoofOf(range).full THEN TableSizes(s.table) ELSE <<>>
PiecesNow == PiecesOf(file.media, stream.config, sample.range, MoofOf(file.ranges[sample.range]))
SampleOK ==
  /\ phase \in {"convert", "decrypt"} /\ Checked /\ sample.table # <<>> =>
       Described(file.ranges[sample.range], sample)
  /\ phase = "convert" /\ Checked /\ sample.table # <<>> =>
       sample.data = FlattenSeq(SamplesOf(file.media, sample.range, sample.table, "mp4"))
  /\ phase = "convert" /\ stream.protected => sample.table # <<>>
  /\ phase \in {"convert", "decrypt"} => sample.range >= 1
  /\ phase = "decrypt" => sample.table # <<>> /\ sample.data = FlattenSeq(PiecesNow)

DecryptOK ==
  phase = "decrypt" =>
    /\ decrypt.pos \in 1 .. Len(sample.table)
    /\ decrypt.offset = Offset(Lens(PiecesNow), decrypt.pos - 1)
    /\ ~sample.subs => IsAdts(decrypt.decrypted)

\* How many frames have been handed to the CDM, and their time.
CountOK ==
  Checked =>
    /\ phase = "parse" => Len(inputs) = Len(ExpectedTo(file, sample.range))
    /\ phase \in {"convert", "decrypt"} =>
         Len(inputs) = Len(ExpectedTo(file, sample.range - 1)) + (decrypt.pos - 1)
    /\ phase \in {"parse", "convert", "decrypt"} =>
         globalTimestamp = TimeTo(ExpectedTo(file, sample.range), Len(inputs))

IsInput(x, e, n) ==
  /\ n \in 1 .. Len(e)
  /\ Drop(x.data, e[n].skip) = e[n].data
  /\ x.timestamp = TimeTo(e, n - 1)
InputsOK ==
  inputs # <<>> =>
    /\ IsInput(inputs[Len(inputs)], ExpectedTo(file, sample.range), Len(inputs))
    /\ TellsCipher(inputs[Len(inputs)].subsamples, inputs[Len(inputs)].data)
OutputOK == phase = "parse" /\ output # <<>> /\ ~sample.subs => IsAdts(output[Len(output)])

IInv == /\ TypeOK /\ PlaceOK /\ StreamOK /\ FoundOK
        /\ SampleOK /\ DecryptOK /\ CountOK /\ InputsOK /\ OutputOK

-----------------------------------------------------------------------------
(* What follows from the inductive invariant                               *)

\* The invariant of the input buffers implies InputIsTheFile.
LEMMA InputsAreTheFile == ASSUME InputsOK PROVE InputIsTheFile
<1>1. SUFFICES ASSUME inputs # <<>>
      PROVE  LET n == Len(inputs)
                 expected == Expected
             IN /\ n <= Len(expected)
                /\ Drop(inputs[n].data, expected[n].skip) = expected[n].data
                /\ inputs[n].timestamp = Sum([j \in 1 .. n - 1 |-> expected[j].duration])
  BY Zenon DEF InputIsTheFile
<1>2. PICK n : n = Len(inputs)
  BY Zenon
<1>3. PICK e : e = Expected /\ e = ExpectedTo(file, sample.range)
  BY Zenon, ExpectedIs
<1>4. IsInput(inputs[n], e, n)
  BY Zenon, <1>1, <1>2, <1>3 DEF InputsOK
<1>5. n <= Len(e)
  BY <1>4 DEF IsInput
<1>6. QED
  BY Zenon, <1>2, <1>3, <1>4, <1>5 DEF IsInput, TimeTo

\* The invariant of the input buffers implies SubsamplesMatchTheData.
LEMMA SubsamplesAreRight == ASSUME TypeOK, InputsOK PROVE SubsamplesMatchTheData
<1>1. SUFFICES ASSUME inputs # <<>>
      PROVE  /\ Size(Last(inputs).subsamples) = Len(Last(inputs).data)
             /\ \A i \in DOMAIN Last(inputs).data :
                  Last(inputs).data[i] < 0 <=> CipherAt(Last(inputs).subsamples, i)
  BY Zenon DEF SubsamplesMatchTheData
<1>2. Last(inputs) = inputs[Len(inputs)]
  BY DEF Last
<1>3. PICK x : x = inputs[Len(inputs)]
  OBVIOUS
<1>4. TellsCipher(x.subsamples, x.data)
  BY Zenon, <1>1, <1>3 DEF InputsOK
<1>5. x.data \in Seq(Int)
  <2>1. inputs \in Seq(InputType)
    BY DEF TypeOK
  <2>2. x \in InputType
    BY <1>1, <1>3, <2>1
  <2>3. QED
    BY <2>2 DEF InputType
<1>6. DOMAIN x.data = 1 .. Len(x.data)
  BY <1>5
<1>7. QED
  BY Zenon, <1>2, <1>3, <1>4, <1>6 DEF TellsCipher

\* The invariant of the output implies AdtsFramesAreWhole.
LEMMA FramesAreWhole == ASSUME TypeOK, OutputOK PROVE AdtsFramesAreWhole
<1>1. SUFFICES ASSUME phase = "parse", output # <<>>, ~sample.subs PROVE Walk(Last(output))[1]
  BY Zenon DEF AdtsFramesAreWhole, Walk, WalkBody
<1>2. Last(output) = output[Len(output)]
  BY DEF Last
<1>3. PICK data : data = output[Len(output)]
  OBVIOUS
<1>4. Walk(data)[1]
  <2>1. IsAdts(data)
    BY Zenon, <1>1, <1>3 DEF OutputOK
  <2>2. QED
    BY Zenon, <2>1, AdtsIsWalked
<1>5. QED
  BY Zenon, <1>2, <1>3, <1>4

-----------------------------------------------------------------------------
(* The first state, and the steps that stop                                *)

\* The fields of a file have their types, and its ranges are as assumed.
LEMMA FileProperties ==
  ASSUME NEW f \in Files
  PROVE  /\ IsFile(f) /\ f.media \in {"video", "audio"}
         /\ f.private \in Seq(Nat) /\ f.private \in Seq(Int)
         /\ f.ranges \in Seq(Seq(Atoms)) /\ Len(f.ranges) \in Nat
<1>1. IsFile(f)
  BY FilesAssumption
<1>2. f.media \in {"video", "audio"} /\ f.private \in Seq(Nat) /\ f.ranges \in Seq(Seq(Atoms))
  BY Zenon, <1>1 DEF IsFile
<1>3. QED
  BY <1>1, <1>2

\* The invariant holds at the beginning.
LEMMA InitIInv == Init => IInv
<1> SUFFICES ASSUME Init PROVE IInv
  OBVIOUS
<1>1. Len(file.ranges) \in Nat
  BY FileProperties DEF Init
<1>2. TypeOK
  <2>1. NoConfig \in Configs
    BY DEF NoConfig, Configs
  <2>2. NothingFound \in FoundType
    BY DEF NothingFound, FoundType, Tables
  <2>3. NoSample \in SampleType
    BY DEF NoSample, SampleType, Tables
  <2>4. file \in Files /\ stream \in [protected : BOOLEAN, naluLength : Nat, config : Configs]
    BY <2>1 DEF Init
  <2>5. found \in FoundType /\ sample \in SampleType
    BY Zenon, <2>2, <2>3 DEF Init
  <2>6. /\ reader \in [range : Nat \ {0}, atom : Nat \ {0}]
        /\ decrypt \in [pos : Nat \ {0}, offset : Nat, decrypted : Seq(Int)]
    BY DEF Init
  <2>7. subsampleBuffer \in Seq(Nat \X Nat) /\ inputs \in Seq(InputType) /\ output \in Seq(Seq(Int))
    BY DEF Init
  <2>8. QED
    BY Zenon, <2>4, <2>5, <2>6, <2>7 DEF Init, TypeOK
<1>3. PlaceOK
  BY <1>1 DEF Init, PlaceOK, Fresh, NoSample
<1>4. QED
  BY <1>2, <1>3 DEF Init, IInv, StreamOK, FoundOK, SampleOK, DecryptOK, CountOK, InputsOK,
     OutputOK

\* However it ends, what has been handed on stays as it is.
Stopped == {"rejected", "ended", "asserted", "waiting", "undefined"}

\* A step into a phase that goes nowhere keeps the invariant.
LEMMA StopIInv ==
  ASSUME IInv, phase' \in Stopped, TypeOK', reader'.range \in 1 .. Len(file.ranges) + 1,
         sample'.range = sample.range, UNCHANGED <<file, stream, decrypter>>
  PROVE  IInv'
<1> USE DEF decrypter
<1>2. PlaceOK'
  BY DEF IInv, PlaceOK, Stopped
<1>3. StreamOK'
  BY DEF IInv, StreamOK, Stopped
<1>4. FoundOK' /\ SampleOK' /\ DecryptOK'
  BY DEF FoundOK, SampleOK, DecryptOK, Stopped
<1>5. CountOK'
  BY DEF CountOK, Stopped
<1>6. InputsOK'
  BY DEF IInv, InputsOK
<1>7. OutputOK'
  BY DEF OutputOK, Stopped
<1>8. QED
  BY <1>2, <1>3, <1>4, <1>5, <1>6, <1>7 DEF IInv

\* A step into such a phase that changes nothing else keeps the invariant.
LEMMA StaysIInv ==
  ASSUME IInv, phase' \in Stopped, UNCHANGED <<file, stream, reader, found, sample, decrypter>>
  PROVE  IInv'
<1>1. TypeOK'
  BY DEF IInv, TypeOK, Stopped, decrypter
<1>2. reader'.range \in 1 .. Len(file.ranges) + 1
  BY DEF IInv, PlaceOK
<1>3. QED
  BY <1>1, <1>2, StopIInv

\* A step that changes nothing keeps the invariant.
LEMMA StutterIInv == IInv /\ UNCHANGED vars => IInv'
BY DEF IInv, vars, decrypter, TypeOK, PlaceOK, StreamOK, FoundOK, SampleOK, DecryptOK, CountOK,
       InputsOK, OutputOK, PiecesNow, Checked

-----------------------------------------------------------------------------
(* The steps of the reader                                                 *)

\* The sizes of the frames of a table are numbers, and so is their sum.
LEMMA TableSizesType ==
  ASSUME NEW samples \in Tables
  PROVE  TableSizes(samples) \in Seq(Nat) /\ TableSize(samples) \in Nat
<1>1. PICK n \in Nat : n = Len(samples) /\ DOMAIN samples = 1 .. n
  BY DEF Tables
<1>2. \A k \in 1 .. n : samples[k] \in Seq(Nat \X Nat)
  BY <1>1 DEF Tables
<1>3. \A k \in 1 .. n : Size(samples[k]) \in Nat
  BY Zenon, <1>2, SizesInType
<1>4. PICK g : g = [k \in 1 .. n |-> Size(samples[k])]
  BY Zenon
<1>5. g \in [1 .. n -> Nat]
  BY <1>3, <1>4
<1>6. g \in Seq(Nat)
  BY <1>5, FunctionIsSeq
<1>7. Sum(g) \in Nat
  <2>1. Len(g) \in 0 .. Len(g)
    BY <1>6, LenProperties
  <2>2. QED
    BY <1>6, <2>1, OffsetStep
<1>8. TableSizes(samples) = g /\ TableSize(samples) = Sum(g)
  BY Zenon, <1>1, <1>4 DEF TableSizes, TableSize
<1>9. QED
  BY Zenon, <1>6, <1>7, <1>8

\* What a moof leaves in the locals.
Parts == {"traf", "tfhd", "senc", "trun", "table"}
Known(a) == IF "tfhd" \in a.missing THEN 2560 ELSE a.duration
Reads(fd, a, sizes, total, gd) ==
  /\ "traf" \in a.missing => gd = fd
  /\ "traf" \notin a.missing => gd.duration = Known(a)
  /\ "traf" \notin a.missing /\ "senc" \in a.missing => gd.moof /\ gd.table = fd.table
  /\ "traf" \notin a.missing /\ "senc" \notin a.missing =>
       /\ a.full => ~gd.subs
       /\ ~a.full => gd.subs /\ gd.sizes = fd.sizes
       /\ "trun" \in a.missing /\ a.full =>
            gd.moof = fd.moof /\ gd.sizes = fd.sizes /\ gd.table = fd.table /\ gd.expected = fd.expected
       /\ ~("trun" \in a.missing /\ a.full) =>
            /\ a.full => gd.sizes = sizes
            /\ "table" \in a.missing =>
                 /\ gd.moof = fd.moof /\ gd.table = fd.table
                 /\ gd.expected = IF a.full THEN fd.expected + total ELSE fd.expected
            /\ "table" \notin a.missing =>
                 gd.moof /\ gd.table = a.samples /\ gd.expected = fd.expected + total

Fields(fd, m, s, z, t, d, e) ==
  /\ fd \in FoundType
  /\ fd.moof = m /\ fd.subs = s /\ fd.sizes = z /\ fd.table = t /\ fd.duration = d /\ fd.expected = e

\* ReadMoof() sets the duration and nothing else with it.
LEMMA DurationRead ==
  ASSUME NEW fd \in FoundType, NEW d \in Nat, NEW gd, gd = [fd EXCEPT !.duration = d]
  PROVE  Fields(gd, fd.moof, fd.subs, fd.sizes, fd.table, d, fd.expected)
BY DEF Fields, FoundType

\* ReadMoof() sets that there was a moof and nothing else with it.
LEMMA NoSencRead ==
  ASSUME NEW fd \in FoundType, NEW gd, gd = [fd EXCEPT !.moof = TRUE]
  PROVE  Fields(gd, TRUE, fd.subs, fd.sizes, fd.table, fd.duration, fd.expected)
BY Zenon DEF Fields, FoundType

\* ReadMoof() sets whether there are subsamples and nothing else with it.
LEMMA SubsRead ==
  ASSUME NEW fd \in FoundType, NEW full
  PROVE  Fields([fd EXCEPT !.subs = ~full], fd.moof, ~full, fd.sizes, fd.table, fd.duration, fd.expected)
<1>1. PICK gd : gd = [fd EXCEPT !.subs = ~full]
  BY Zenon
<1>2. Fields(gd, fd.moof, ~full, fd.sizes, fd.table, fd.duration, fd.expected)
  BY Zenon, <1>1 DEF Fields, FoundType
<1>3. QED
  BY Zenon, <1>1, <1>2

\* ReadMoof() sets the sizes of the frames and adds them to what it expects.
LEMMA SizesRead ==
  ASSUME NEW fd \in FoundType, NEW sizes \in Seq(Nat), NEW total \in Nat,
         NEW gd, gd = [fd EXCEPT !.sizes = sizes, !.expected = @ + total]
  PROVE  Fields(gd, fd.moof, fd.subs, sizes, fd.table, fd.duration, fd.expected + total)
<1>1. PICK e \in Nat : e = fd.expected + total
  BY DEF FoundType
<1>2. PICK hd : hd = [fd EXCEPT !.sizes = sizes]
  BY Zenon
<1>3. gd = [hd EXCEPT !.expected = e]
  BY <1>1, <1>2 DEF FoundType
<1>4. Fields(hd, fd.moof, fd.subs, sizes, fd.table, fd.duration, fd.expected)
  BY Zenon, <1>2 DEF Fields, FoundType
<1>5. Fields(gd, hd.moof, hd.subs, hd.sizes, hd.table, hd.duration, e)
  BY Zenon, <1>3, <1>4 DEF Fields, FoundType
<1>6. QED
  BY Zenon, <1>1, <1>4, <1>5 DEF Fields

\* What ReadMoof() leaves in the locals, whatever the moof lacks.
LEMMA ReadMoofReads ==
  ASSUME NEW a \in Atoms, a.type = "moof", found \in FoundType,
         NEW sizes, sizes = TableSizes(a.samples), NEW total, total = TableSize(a.samples),
         NEW gd, gd = ReadMoof(a)
  PROVE  gd \in FoundType /\ Reads(found, a, sizes, total, gd)
<1>1. /\ a.samples \in Tables /\ a.full \in BOOLEAN /\ a.duration \in Nat /\ a.missing \in SUBSET Parts
  BY DEF Atoms, Parts
<1>2. sizes \in Seq(Nat) /\ total \in Nat
  BY Zenon, <1>1, TableSizesType
<1>3. sizes = [k \in DOMAIN a.samples |-> Size(a.samples[k])] /\ total = Sum(sizes)
  BY Zenon DEF TableSizes, TableSize
<1>5. Known(a) \in Nat
  BY <1>1 DEF Known
<1> PICK timed : timed = [found EXCEPT !.duration = Known(a)]
  BY Zenon
<1> PICK asserted : asserted = [timed EXCEPT !.moof = TRUE]
  OBVIOUS
<1> PICK typed : typed = [timed EXCEPT !.subs = ~a.full]
  OBVIOUS
<1> PICK sized1 : sized1 = [typed EXCEPT !.sizes = sizes, !.expected = @ + total]
  OBVIOUS
<1> PICK sized : sized = IF a.full THEN sized1 ELSE typed
  OBVIOUS
<1> PICK tabled : tabled = [sized EXCEPT !.moof = TRUE, !.table = a.samples,
                                         !.expected = IF a.full THEN @ ELSE @ + total]
  OBVIOUS
<1>4. gd = IF "traf" \in a.missing THEN found
           ELSE IF "senc" \in a.missing THEN asserted
           ELSE IF "trun" \in a.missing /\ a.full THEN typed
           ELSE IF "table" \in a.missing THEN sized
           ELSE tabled
  BY <1>3 DEF ReadMoof, Known
<1>6. Fields(timed, found.moof, found.subs, found.sizes, found.table, Known(a), found.expected)
  BY Zenon, <1>5, DurationRead
<1>7. Fields(asserted, TRUE, found.subs, found.sizes, found.table, Known(a), found.expected)
  BY ZenonT(20), <1>6, NoSencRead DEF Fields
<1>8. Fields(typed, found.moof, ~a.full, found.sizes, found.table, Known(a), found.expected)
  <2>1. PICK full : full = a.full
    OBVIOUS
  <2>2. timed \in FoundType /\ typed = [timed EXCEPT !.subs = ~full]
    BY Zenon, <1>6, <2>1 DEF Fields
  <2>3. Fields(typed, timed.moof, ~full, timed.sizes, timed.table, timed.duration, timed.expected)
    <3>1. PICK fd \in FoundType : fd = timed
      BY Zenon, <2>2
    <3>2. Fields([fd EXCEPT !.subs = ~full], fd.moof, ~full, fd.sizes, fd.table, fd.duration, fd.expected)
      BY Zenon, SubsRead
    <3>3. QED
      BY Zenon, <2>2, <3>1, <3>2
  <2>4. QED
    BY Zenon, <1>6, <2>1, <2>3 DEF Fields
<1>9. Fields(sized1, found.moof, ~a.full, sizes, found.table, Known(a), found.expected + total)
  <2>1. typed \in FoundType
    BY Zenon, <1>8 DEF Fields
  <2>2. Fields(sized1, typed.moof, typed.subs, sizes, typed.table, typed.duration, typed.expected + total)
    BY Zenon, <1>2, <2>1, SizesRead
  <2>3. QED
    BY Zenon, <1>8, <2>2 DEF Fields
<1>10. sized \in FoundType
  BY <1>8, <1>9 DEF Fields
<1>11. Fields(tabled, TRUE, sized.subs, sized.sizes, a.samples, sized.duration,
              IF a.full THEN sized.expected ELSE sized.expected + total)
  <2>1. PICK table \in Tables : table = a.samples
    BY Zenon, <1>1
  <2>4. sized.expected \in Nat
    BY Zenon, <1>10 DEF FoundType
  <2>5. PICK e \in Nat : e = IF a.full THEN sized.expected ELSE sized.expected + total
    BY <1>2, <2>4
  <2>3. tabled = [sized EXCEPT !.moof = TRUE, !.table = table, !.expected = e]
    BY <2>1, <2>5
  <2>7. PICK fd \in FoundType : fd = sized
    BY <1>10
  <2>2. tabled = [[[fd EXCEPT !.moof = TRUE] EXCEPT !.table = table] EXCEPT !.expected = e]
    BY <2>3, <2>7 DEF FoundType
  <2>6. Fields(tabled, TRUE, sized.subs, sized.sizes, table, sized.duration, e)
    <3>1. PICK g1 : g1 = [fd EXCEPT !.moof = TRUE]
      OBVIOUS
    <3>2. Fields(g1, TRUE, fd.subs, fd.sizes, fd.table, fd.duration, fd.expected)
      BY <3>1 DEF Fields, FoundType
    <3>3. g1 \in FoundType
      BY Zenon, <3>2 DEF Fields
    <3>4. PICK g2 : g2 = [g1 EXCEPT !.table = table]
      OBVIOUS
    <3>5. Fields(g2, g1.moof, g1.subs, g1.sizes, table, g1.duration, g1.expected)
      BY <3>3, <3>4 DEF Fields, FoundType
    <3>6. g2 \in FoundType
      BY Zenon, <3>5 DEF Fields
    <3>7. PICK g3 : g3 = [g2 EXCEPT !.expected = e]
      OBVIOUS
    <3>8. Fields(g3, g2.moof, g2.subs, g2.sizes, g2.table, g2.duration, e)
      BY <3>6, <3>7 DEF Fields, FoundType
    <3>9. tabled = g3
      BY Zenon, <2>2, <3>1, <3>4, <3>7
    <3>10. /\ g1.moof = TRUE /\ g1.subs = fd.subs /\ g1.sizes = fd.sizes
           /\ g1.duration = fd.duration /\ g1.expected = fd.expected
      BY Zenon, <3>2 DEF Fields
    <3>11. Fields(g2, TRUE, fd.subs, fd.sizes, table, fd.duration, fd.expected)
      BY Zenon, <3>5, <3>10
    <3>12. /\ g2.moof = TRUE /\ g2.subs = fd.subs /\ g2.sizes = fd.sizes
           /\ g2.table = table /\ g2.duration = fd.duration
      BY Zenon, <3>11 DEF Fields
    <3>13. Fields(g3, TRUE, fd.subs, fd.sizes, table, fd.duration, e)
      BY Zenon, <3>8, <3>12
    <3>14. QED
      BY Zenon, <2>7, <3>9, <3>13
  <2>8. QED
    BY Zenon, <2>1, <2>5, <2>6
<1>12. gd \in FoundType
  BY <1>4, <1>6, <1>7, <1>8, <1>10, <1>11 DEF Fields
<1>13. Reads(found, a, sizes, total, gd)
  <2>1. CASE "traf" \in a.missing
    BY Zenon, <1>4, <2>1 DEF Reads
  <2>2. CASE "traf" \notin a.missing /\ "senc" \in a.missing
    <3>1. gd = asserted
      BY Zenon, <1>4, <2>2
    <3>2. QED
      BY Zenon, <1>7, <2>2, <3>1 DEF Reads, Fields
  <2>3. CASE "traf" \notin a.missing /\ "senc" \notin a.missing /\ "trun" \in a.missing /\ a.full
    <3>1. gd = typed
      BY Zenon, <1>4, <2>3
    <3>2. QED
      BY Zenon, <1>8, <2>3, <3>1 DEF Reads, Fields
  <2>4. CASE /\ "traf" \notin a.missing /\ "senc" \notin a.missing
             /\ ~("trun" \in a.missing /\ a.full) /\ "table" \in a.missing
    <3>1. gd = sized
      BY Zenon, <1>4, <2>4
    <3>2. QED
      BY Zenon, <1>8, <1>9, <2>4, <3>1 DEF Reads, Fields
  <2>5. CASE /\ "traf" \notin a.missing /\ "senc" \notin a.missing
             /\ ~("trun" \in a.missing /\ a.full) /\ "table" \notin a.missing
    <3>1. gd = tabled
      BY Zenon, <1>4, <2>5
    <3>2. QED
      BY ZenonT(40), <1>8, <1>9, <1>11, <2>5, <3>1 DEF Reads, Fields
  <2>6. QED
    BY <2>1, <2>2, <2>3, <2>4, <2>5
<1>14. QED
  BY <1>12, <1>13

\* What the reader has found after a moof it has read.
LEMMA MoofFound ==
  ASSUME NEW f, NEW r, NEW range, NEW n, IsRange(f, r, range, n),
         NEW i \in 1 .. n, range[i].type = "moof",
         NEW fd \in FoundType, NothingYet(range, i - 1, fd),
         NEW gd, Reads(fd, range[i], TableSizes(range[i].samples), TableSize(range[i].samples), gd),
         NEW protected, ~("traf" \notin range[i].missing /\ "senc" \in range[i].missing /\ protected)
  PROVE  FoundSo(range, i, gd, protected)
<1> DEFINE a == range[i]
<1>1. n \in Nat /\ i \in Nat /\ i - 1 \in Nat
  BY DEF IsRange
<1>2. a \in Atoms /\ a.samples \in Tables /\ a.full \in BOOLEAN /\ a.missing \in SUBSET Parts
  BY DEF IsRange, Atoms, Parts
<1>3. PICK total \in Nat : total = TableSize(a.samples)
  BY Zenon, <1>2, TableSizesType
<1>4. PICK sizes : sizes = TableSizes(a.samples)
  OBVIOUS
<1>5. Reads(fd, a, sizes, total, gd)
  BY Zenon, <1>3, <1>4
<1>6. /\ ~fd.moof /\ fd.table = <<>>
      /\ \A j \in 1 .. i - 1 : ~Usable(range[j])
      /\ fd.sizes # <<>> =>
           \E j \in 1 .. i - 1 : Sized(range, j) /\ fd.expected >= TableSize(range[j].samples)
  BY Zenon DEF NothingYet
<1>7. \A j : j \in 1 .. i <=> j \in 1 .. i - 1 \/ j = i
  BY <1>1
<1>8. Usable(a) <=> a.missing \subseteq {"tfhd"} \cup (IF a.full THEN {} ELSE {"trun"})
  BY Zenon DEF Usable
<1>9. fd.expected \in Nat
  BY DEF FoundType
<1> HIDE DEF a
<1>10. ASSUME ~Usable(a) PROVE \A j \in 1 .. i : ~Usable(range[j])
  BY Zenon, <1>6, <1>7, <1>10 DEF a
<1>11. ASSUME ~Usable(a), gd.moof = fd.moof, gd.table = fd.table, gd.sizes = fd.sizes, gd.expected = fd.expected
       PROVE  NothingYet(range, i, gd)
  BY Zenon, <1>6, <1>7, <1>10, <1>11 DEF NothingYet
<1>12. CASE "traf" \in a.missing
  <2>1. gd = fd /\ ~Usable(a)
    BY <1>5, <1>8, <1>12 DEF Reads
  <2>2. QED
    BY Zenon, <1>11, <2>1 DEF FoundSo
<1>13. CASE "traf" \notin a.missing /\ "senc" \in a.missing
  BY Zenon, <1>5, <1>6, <1>13 DEF Reads, FoundSo, a
<1>14. CASE /\ "traf" \notin a.missing /\ "senc" \notin a.missing
            /\ a.full /\ "trun" \in a.missing
  <2>1. ~Usable(a)
    BY <1>8, <1>14
  <2>2. gd.moof = fd.moof /\ gd.table = fd.table /\ gd.sizes = fd.sizes /\ gd.expected = fd.expected
    BY Zenon, <1>5, <1>14 DEF Reads
  <2>3. QED
    BY Zenon, <1>11, <2>1, <2>2 DEF FoundSo
<1>15. CASE /\ "traf" \notin a.missing /\ "senc" \notin a.missing
            /\ ~("trun" \in a.missing /\ a.full) /\ "table" \in a.missing
  <2>1. ~Usable(a)
    BY <1>8, <1>15
  <2>2. CASE ~a.full
    <3>1. gd.moof = fd.moof /\ gd.table = fd.table /\ gd.sizes = fd.sizes /\ gd.expected = fd.expected
      BY Zenon, <1>5, <1>15, <2>2 DEF Reads
    <3>2. QED
      BY Zenon, <1>11, <2>1, <3>1 DEF FoundSo
  <2>3. CASE a.full
    <3>1. gd.moof = fd.moof /\ gd.table = fd.table /\ gd.expected = fd.expected + total
      BY Zenon, <1>5, <1>15, <2>3 DEF Reads
    <3>2. gd.expected >= TableSize(a.samples)
      BY <1>3, <1>9, <3>1
    <3>3. Sized(range, i)
      BY Zenon, <1>6, <1>15, <2>3 DEF Sized, IsRead, a
    <3>4. i \in 1 .. i
      BY <1>1
    <3>5. QED
      BY Zenon, <1>6, <1>10, <2>1, <3>1, <3>2, <3>3, <3>4 DEF NothingYet, FoundSo, a
  <2>4. QED
    BY <2>2, <2>3
<1>16. CASE /\ "traf" \notin a.missing /\ "senc" \notin a.missing
            /\ ~("trun" \in a.missing /\ a.full) /\ "table" \notin a.missing
  <2>1. Usable(a)
    BY <1>2, <1>8, <1>16 DEF Parts
  <2>2. gd.moof /\ gd.table = a.samples /\ gd.expected = fd.expected + total /\ gd.duration = Known(a)
        /\ (a.full => ~gd.subs /\ gd.sizes = sizes) /\ (~a.full => gd.subs /\ gd.sizes = fd.sizes)
    BY Zenon, <1>5, <1>16 DEF Reads
  <2>3. gd.expected >= TableSize(a.samples)
    BY <1>3, <1>9, <2>2
  <2>4. ASSUME NEW j, fd.expected >= TableSize(range[j].samples), j \in 1 .. i - 1, Sized(range, j)
        PROVE  gd.expected >= TableSize(a.samples) + TableSize(range[j].samples)
    <3>1. range[j].type = "moof" /\ j \in 1 .. n
      BY <1>1, <2>4 DEF Sized, IsRead
    <3>2. range[j].samples \in Tables
      BY <3>1 DEF IsRange, Atoms
    <3>3. TableSize(range[j].samples) \in Nat
      BY Zenon, <3>2, TableSizesType
    <3>4. QED
      BY <1>3, <1>9, <2>2, <2>4, <3>3
  <2>5. ~a.full /\ gd.sizes # <<>> =>
          \E j \in 1 .. i - 1 : /\ Sized(range, j)
                                /\ gd.expected >= TableSize(a.samples) + TableSize(range[j].samples)
    BY Zenon, <1>6, <2>2, <2>4
  <2>6. IsFound(range, i, gd)
    BY Zenon, <1>4, <1>6, <2>1, <2>2, <2>3, <2>5 DEF IsFound, Known, a
  <2>7. i \in 1 .. i
    BY <1>1
  <2>8. QED
    BY Zenon, <2>6, <2>7 DEF FoundSo
<1>17. QED
  BY Zenon, <1>12, <1>13, <1>14, <1>15, <1>16

\* What has been found of a range stays true of it at the next atom.
LEMMA StillFound ==
  ASSUME NEW range, NEW i \in Nat, NEW fd, NEW protected, FoundSo(range, i - 1, fd, protected),
         fd.moof \/ range[i].type # "moof"
  PROVE  FoundSo(range, i, fd, protected)
<1>1. \A j : j \in 1 .. i - 1 => j \in 1 .. i
  OBVIOUS
<1>2. \A j \in 1 .. i : j \in 1 .. i - 1 \/ j = i
  OBVIOUS
<1>3. CASE NothingYet(range, i - 1, fd)
  <2>1. ~Usable(range[i])
    BY Zenon, <1>3 DEF NothingYet, Usable
  <2>2. \A j \in 1 .. i : ~Usable(range[j])
    BY Zenon, <1>2, <1>3, <2>1 DEF NothingYet
  <2>3. QED
    BY Zenon, <1>1, <1>3, <2>2 DEF NothingYet, FoundSo
<1>4. CASE ~NothingYet(range, i - 1, fd)
  BY Zenon, <1>1, <1>4 DEF FoundSo
<1>5. QED
  BY <1>3, <1>4

\* The first atom of a range is there to be read.
LEMMA RangeBegins ==
  ASSUME NEW f \in Files, NEW r \in 1 .. Len(f.ranges)
  PROVE  1 \in 1 .. Len(f.ranges[r])
<1>1. IsRange(f, r, f.ranges[r], Len(f.ranges[r]))
  BY Zenon, FileProperties, RangeProperties
<1>2. PICK n \in Nat : n = Len(f.ranges[r])
  BY Zenon, <1>1 DEF IsRange
<1>3. \E i \in 1 .. n : TRUE
  BY Zenon, <1>1, <1>2 DEF IsRange
<1>4. QED
  BY <1>2, <1>3

\* What is there when an atom is read.
Reading(range, n, i) ==
  /\ reader.range \in 1 .. Len(file.ranges)
  /\ IsRange(file, reader.range, range, n)
  /\ i = reader.atom /\ i \in 1 .. n /\ i \in Nat /\ n \in Nat
  /\ \A j \in 1 .. i - 1 : range[j].type # "mdat"
  /\ FoundSo(range, i - 1, found, stream.protected)
  /\ sample.range = reader.range - 1 /\ decrypt = Fresh

\* The atom a step reads is one of the current range.
LEMMA AtomIsRead ==
  ASSUME IInv, NEW type, Parses(type),
         NEW range, range = file.ranges[reader.range], NEW n, n = Len(range), NEW i, i = reader.atom
  PROVE  /\ Reading(range, n, i)
         /\ Atom = range[i] /\ range[i].type = type /\ (LastInRange <=> i = n)
<1>1. file \in Files /\ reader.range \in 1 .. Len(file.ranges) + 1 /\ reader.range <= Len(file.ranges) /\ phase = "parse"
  BY Zenon DEF IInv, TypeOK, PlaceOK, Parses, Ranges
<1>2. Len(file.ranges) \in Nat
  BY <1>1, FileProperties
<1>3. reader.range \in 1 .. Len(file.ranges)
  BY <1>1, <1>2
<1>4. IsRange(file, reader.range, range, n)
  BY Zenon, <1>1, <1>3, FileProperties, RangeProperties
<1>5. i \in 1 .. n /\ \A j \in 1 .. i - 1 : range[j].type # "mdat"
  BY Zenon, <1>1 DEF IInv, PlaceOK
<1>6. n \in Nat
  BY <1>4 DEF IsRange
<1>7. sample.range = reader.range - 1 /\ decrypt = Fresh
  BY <1>1 DEF IInv, PlaceOK
<1>8. FoundSo(range, i - 1, found, stream.protected)
  BY Zenon, <1>1 DEF IInv, FoundOK
<1>9. i \in Nat
  BY <1>5, <1>6
<1>10. Reading(range, n, i)
  BY Zenon, <1>3, <1>4, <1>5, <1>6, <1>7, <1>8, <1>9 DEF Reading
<1>11. Atom = range[i] /\ range[i].type = type /\ (LastInRange <=> i = n)
  BY Zenon DEF Atom, Ranges, Parses, LastInRange
<1>12. QED
  BY <1>10, <1>11

\* Nothing but an mdat ends a range: the reader goes on to the next atom.
LEMMA ReaderGoesOn ==
  ASSUME NEW range, NEW n, NEW i, Reading(range, n, i), range[i].type # "mdat",
         LastInRange <=> i = n, Advance, TypeOK
  PROVE  /\ i + 1 \in 1 .. n
         /\ \A j \in 1 .. i : range[j].type # "mdat"
         /\ reader' = [range |-> reader.range, atom |-> i + 1]
<1>1. i \in 1 .. n /\ i \in Nat /\ n \in Nat /\ i = reader.atom
  BY DEF Reading
<1>2. \A j \in 1 .. i : j \in 1 .. i - 1 \/ j = i
  BY <1>1
<1>3. \A j \in 1 .. i : range[j].type # "mdat"
  BY Zenon, <1>2 DEF Reading
<1>4. PICK l \in 1 .. n : range[l].type = "mdat"
  BY Zenon DEF Reading, IsRange
<1>5. l \notin 1 .. i
  BY Zenon, <1>3, <1>4
<1>6. i # n /\ i + 1 \in 1 .. n
  BY <1>1, <1>4, <1>5
<1>7. reader' = [reader EXCEPT !.atom = @ + 1]
  BY Zenon, <1>6 DEF Advance
<1>8. reader \in [range : Nat \ {0}, atom : Nat \ {0}]
  BY DEF TypeOK
<1>9. reader' = [range |-> reader.range, atom |-> i + 1]
  BY <1>1, <1>7, <1>8
<1>10. QED
  BY <1>3, <1>6, <1>9

\* A step from an atom to the next one of its range keeps the invariant.
LEMMA AtomStep ==
  ASSUME IInv, NEW range, NEW n, NEW i, Reading(range, n, i), phase = "parse", phase' = "parse",
         i + 1 \in 1 .. n, \A j \in 1 .. i : range[j].type # "mdat",
         reader' = [range |-> reader.range, atom |-> i + 1],
         found' \in FoundType, FoundSo(range, i, found', stream.protected),
         UNCHANGED <<file, stream, sample, decrypter>>
  PROVE  IInv'
<1> USE DEF decrypter
<1>1. /\ range = file.ranges[reader.range] /\ n = Len(range) /\ i \in Nat
      /\ reader.range \in 1 .. Len(file.ranges)
  BY DEF Reading, IsRange
<1>2. (i + 1) - 1 = i /\ reader'.range = reader.range /\ reader'.atom = i + 1
  BY <1>1
<1>3. TypeOK'
  <2>1. reader' \in [range : Nat \ {0}, atom : Nat \ {0}]
    BY <1>1 DEF IInv, TypeOK
  <2>2. QED
    BY <2>1 DEF IInv, TypeOK
<1>4. PlaceOK'
  <2>1. decrypt' = Fresh /\ sample' = sample /\ file' = file
    BY DEF Reading
  <2>2. sample.range = reader.range - 1
    BY DEF Reading
  <2>3. \A j \in 1 .. reader'.atom - 1 : file.ranges[reader.range][j].type # "mdat"
    BY Zenon, <1>1, <1>2
  <2>4. reader'.atom \in 1 .. Len(file.ranges[reader.range])
    BY Zenon, <1>1, <1>2
  <2>5. /\ reader.range \in 1 .. Len(file.ranges) + 1
        /\ sample.range \in 0 .. Len(file.ranges)
    BY DEF IInv, PlaceOK
  <2>6. QED
    BY Zenon, <1>2, <2>1, <2>2, <2>3, <2>4, <2>5 DEF PlaceOK
<1>5. StreamOK'
  BY DEF IInv, StreamOK
<1>6. FoundOK'
  BY Zenon, <1>1, <1>2 DEF FoundOK
<1>7. SampleOK' /\ DecryptOK'
  BY DEF SampleOK, DecryptOK
<1>8. CountOK'
  BY DEF IInv, CountOK, Checked
<1>9. InputsOK'
  BY DEF IInv, InputsOK
<1>10. OutputOK'
  BY DEF IInv, OutputOK
<1>11. QED
  BY <1>3, <1>4, <1>5, <1>6, <1>7, <1>8, <1>9, <1>10 DEF IInv

\* An atom that is skipped keeps the invariant.
LEMMA OtherAtomIInv == ASSUME IInv, OtherAtom PROVE IInv'
<1>1. PICK range : range = file.ranges[reader.range]
  OBVIOUS
<1>2. PICK n : n = Len(range)
  BY Zenon
<1>3. PICK i : i = reader.atom
  OBVIOUS
<1>4. Parses("other") /\ Advance /\ UNCHANGED <<file, stream, phase, found, sample, decrypter>> /\ phase = "parse"
  BY DEF OtherAtom, Parses
<1>5. Reading(range, n, i) /\ range[i].type = "other" /\ (LastInRange <=> i = n)
  <2>1. PICK type : type = "other"
    OBVIOUS
  <2>2. Parses(type)
    BY Zenon, <1>4, <2>1
  <2>3. Reading(range, n, i) /\ range[i].type = type /\ (LastInRange <=> i = n)
    BY <1>1, <1>2, <1>3, <2>2, AtomIsRead
  <2>4. QED
    BY Zenon, <2>1, <2>3
<1>6. range[i].type # "mdat" /\ range[i].type # "moof"
  BY <1>5
<1>7. TypeOK
  BY DEF IInv
<1>8. /\ i + 1 \in 1 .. n
      /\ \A j \in 1 .. i : range[j].type # "mdat"
      /\ reader' = [range |-> reader.range, atom |-> i + 1]
  BY Zenon, <1>4, <1>5, <1>6, <1>7, ReaderGoesOn
<1>9. i \in Nat /\ FoundSo(range, i - 1, found, stream.protected)
  BY Zenon, <1>5 DEF Reading
<1>10. FoundSo(range, i, found', stream.protected)
  <2>1. FoundSo(range, i, found, stream.protected)
    BY Zenon, <1>6, <1>9, StillFound
  <2>2. QED
    BY Zenon, <1>4, <2>1
<1>11. found' \in FoundType
  BY <1>4, <1>7 DEF TypeOK
<1>12. QED
  BY <1>4, <1>5, <1>8, <1>10, <1>11, AtomStep

\* A moof, the first usable one of its range or another, keeps the invariant.
LEMMA ParseMoofIInv == ASSUME IInv, ParseMoof PROVE IInv'
<1>1. PICK range : range = file.ranges[reader.range]
  OBVIOUS
<1>2. PICK n : n = Len(range)
  BY Zenon
<1>3. PICK i : i = reader.atom
  OBVIOUS
<1>4. Parses("moof") /\ Advance /\ UNCHANGED <<file, stream, sample, decrypter>> /\ phase = "parse"
  BY DEF ParseMoof, Parses
<1>5. Reading(range, n, i) /\ Atom = range[i] /\ range[i].type = "moof" /\ (LastInRange <=> i = n)
  <2>1. PICK type : type = "moof"
    OBVIOUS
  <2>2. Parses(type)
    BY Zenon, <1>4, <2>1
  <2>3. Reading(range, n, i) /\ Atom = range[i] /\ range[i].type = type /\ (LastInRange <=> i = n)
    BY <1>1, <1>2, <1>3, <2>2, AtomIsRead
  <2>4. QED
    BY Zenon, <2>1, <2>3
<1>6. range[i].type # "mdat"
  BY <1>5
<1>7. TypeOK
  BY DEF IInv
<1>8. /\ i + 1 \in 1 .. n
      /\ \A j \in 1 .. i : range[j].type # "mdat"
      /\ reader' = [range |-> reader.range, atom |-> i + 1]
  BY Zenon, <1>4, <1>5, <1>6, <1>7, ReaderGoesOn
<1>9. /\ i \in Nat /\ i \in 1 .. n /\ IsRange(file, reader.range, range, n)
      /\ FoundSo(range, i - 1, found, stream.protected)
  BY Zenon, <1>5 DEF Reading
<1>10. found \in FoundType
  BY <1>7 DEF TypeOK
<1>11. CASE found.moof
  <2>1. found' = found /\ phase' = "parse"
    BY <1>4, <1>11 DEF ParseMoof
  <2>2. FoundSo(range, i, found, stream.protected)
    BY Zenon, <1>9, <1>11, StillFound
  <2>3. found' \in FoundType /\ FoundSo(range, i, found', stream.protected)
    BY Zenon, <1>10, <2>1, <2>2
  <2>4. QED
    BY <1>4, <1>5, <1>8, <2>1, <2>3, AtomStep
<1>12. CASE ~found.moof
  <2>1. /\ found' = ReadMoof(range[i])
        /\ phase' = IF "traf" \notin range[i].missing /\ "senc" \in range[i].missing /\ stream.protected
                    THEN "asserted" ELSE "parse"
    BY Zenon, <1>5, <1>12 DEF ParseMoof
  <2>2. range[i] \in Atoms
    BY Zenon, <1>9 DEF IsRange
  <2>3. PICK a \in Atoms : a = range[i] /\ a.type = "moof"
    BY Zenon, <1>5, <2>2
  <2>4. PICK gd : gd = ReadMoof(a)
    OBVIOUS
  <2>5. gd \in FoundType /\ Reads(found, a, TableSizes(a.samples), TableSize(a.samples), gd)
    BY Zenon, <1>10, <2>3, <2>4, ReadMoofReads
  <2>6. CASE "traf" \notin a.missing /\ "senc" \in a.missing /\ stream.protected
    \* The thread has thrown: nothing that is left behind is looked at again.
    <3>1. phase' = "asserted"
      BY Zenon, <2>1, <2>3, <2>6
    <3>2. found' \in FoundType
      BY Zenon, <2>1, <2>3, <2>4, <2>5
    <3>3. reader'.range = reader.range /\ reader' \in [range : Nat \ {0}, atom : Nat \ {0}]
      BY <1>7, <1>8, <1>9 DEF TypeOK
    <3>4. TypeOK'
      BY <1>4, <1>7, <3>1, <3>2, <3>3 DEF TypeOK, decrypter
    <3>5. reader'.range \in 1 .. Len(file.ranges) + 1
      BY <3>3 DEF IInv, PlaceOK
    <3>6. phase' \in Stopped /\ sample'.range = sample.range
      BY <1>4, <3>1 DEF Stopped
    <3>7. QED
      BY <1>4, <3>4, <3>5, <3>6, StopIInv
  <2>7. CASE ~("traf" \notin a.missing /\ "senc" \in a.missing /\ stream.protected)
    <3>1. phase' = "parse"
      BY Zenon, <2>1, <2>3, <2>7
    <3>2. NothingYet(range, i - 1, found)
      BY Zenon, <1>9, <1>12 DEF FoundSo, IsFound
    <3>3. FoundSo(range, i, gd, stream.protected)
      <4>1. PICK protected : protected = stream.protected
        OBVIOUS
      <4>2. ~("traf" \notin range[i].missing /\ "senc" \in range[i].missing /\ protected)
        BY Zenon, <2>3, <2>7, <4>1
      <4>3. Reads(found, range[i], TableSizes(range[i].samples), TableSize(range[i].samples), gd)
        BY Zenon, <2>3, <2>5
      <4>4. FoundSo(range, i, gd, protected)
        BY Zenon, <1>5, <1>9, <1>10, <3>2, <4>2, <4>3, MoofFound
      <4>5. QED
        BY Zenon, <4>1, <4>4
    <3>4. found' \in FoundType /\ FoundSo(range, i, found', stream.protected)
      BY Zenon, <2>1, <2>3, <2>4, <2>5, <3>3
    <3>5. QED
      BY <1>4, <1>5, <1>8, <3>1, <3>4, AtomStep
  <2>8. QED
    BY Zenon, <2>6, <2>7
<1>13. QED
  BY <1>11, <1>12

\* An mdat that is not the last atom keeps the invariant.
LEMMA MdatWaitsIInv == ASSUME IInv, MdatWaits PROVE IInv'
<1>1. phase' \in Stopped
  BY DEF MdatWaits, Stopped
<1>2. QED
  BY <1>1, StaysIInv DEF MdatWaits

\* The end of the stream keeps the invariant.
LEMMA StreamEndsIInv == ASSUME IInv, StreamEnds PROVE IInv'
<1>1. phase' \in Stopped
  BY DEF StreamEnds, Stopped
<1>2. QED
  BY <1>1, StaysIInv DEF StreamEnds

\* The fields of the AudioSpecificConfig have the widths of their bits.
LEMMA DecoderConfigType ==
  ASSUME NEW info \in Seq(Nat), Len(info) >= 2
  PROVE  DecoderConfig(info) \in Configs
<1>1. info[1] \in Nat /\ info[2] \in Nat
  BY LenProperties
<1>2. PICK a \in Nat : a = info[1]
  BY <1>1
<1>3. PICK b \in Nat : b = info[2]
  BY <1>1
<1>4. a \div 8 \in Nat /\ (a % 8) * 2 + (b \div 128) \in Nat /\ (b \div 8) % 16 \in Nat
  OBVIOUS
<1>5. QED
  BY <1>2, <1>3, <1>4 DEF DecoderConfig, Configs

\* Init() of the streams keeps the invariant.
LEMMA InitStreamIInv == ASSUME IInv, InitStream PROVE IInv'
<1> USE DEF decrypter
<1>1. /\ phase = "init" /\ file \in Files /\ file.media \in {"video", "audio"} /\ IsFile(file)
      /\ UNCHANGED <<file, reader, found, sample, decrypter>>
  BY FileProperties DEF InitStream, IInv, TypeOK
<1>2. CASE phase' = "rejected" /\ UNCHANGED stream
  <2>1. phase' \in Stopped
    BY <1>2 DEF Stopped
  <2>2. QED
    BY <1>1, <1>2, <2>1, StaysIInv
<1>3. CASE /\ phase' = "parse"
           /\ IF Video THEN VideoInitSucceeds(file.moov) ELSE AudioInitSucceeds(file.moov)
           /\ stream' \in IF Video THEN VideoFields(file.moov) ELSE AudioFields(file.moov)
  <2>1. PICK moov : moov = file.moov
    OBVIOUS
  <2>2. /\ moov.protectedEntry \in BOOLEAN /\ moov.isProtected \in BOOLEAN /\ moov.naluLength \in Nat
        /\ moov.info \in Seq(Nat)
    <3>1. moov \in [format : STRING, missing : SUBSET STRING, protectedEntry : BOOLEAN,
                    isProtected : BOOLEAN, naluLength : Nat, info : Seq(Nat)]
      BY Zenon, <1>1, <2>1 DEF IsFile
    <3>2. QED
      BY <3>1
  <2>3. /\ stream' \in [protected : BOOLEAN, naluLength : Nat, config : Configs]
        /\ SizesAreChecked(file) => stream'.protected
    <3>1. NoConfig \in Configs
      BY DEF NoConfig, Configs
    <3>2. CASE file.media = "video"
      <4>1. stream' \in VideoFields(moov)
        BY Zenon, <1>3, <2>1, <3>2 DEF Video
      <4>2. stream' \in [protected : BOOLEAN, naluLength : Nat, config : Configs]
        BY <2>2, <3>1, <4>1 DEF VideoFields
      <4>3. SizesAreChecked(file) => moov.isProtected /\ moov.protectedEntry
        BY Zenon, <2>1, <3>2 DEF SizesAreChecked
      <4>4. SizesAreChecked(file) => stream'.protected
        BY <4>1, <4>3 DEF VideoFields
      <4>5. QED
        BY <4>2, <4>4
    <3>3. CASE file.media # "video"
      <4>1. stream' \in AudioFields(moov) /\ AudioInitSucceeds(moov)
        BY Zenon, <1>3, <2>1, <3>3 DEF Video
      <4>2. moov.format = "enca" => Len(moov.info) >= 2
        <5>1. moov.format = "mp4a" \/ Len(moov.info) \in 2 .. 6
          BY Zenon, <4>1 DEF AudioInitSucceeds
        <5>2. SUFFICES ASSUME moov.format = "enca" PROVE Len(moov.info) >= 2
          OBVIOUS
        <5>3. moov.format # "mp4a"
          BY <5>2
        <5>4. Len(moov.info) \in 2 .. 6
          BY Zenon, <5>1, <5>3
        <5>5. \A k \in 2 .. 6 : k >= 2
          OBVIOUS
        <5>6. QED
          BY Zenon, <5>4, <5>5
      <4>3. moov.format = "enca" => DecoderConfig(moov.info) \in Configs
        BY <2>2, <4>2, DecoderConfigType
      <4>4. stream' \in [protected : BOOLEAN, naluLength : Nat, config : Configs]
        BY <2>2, <3>1, <4>1, <4>3 DEF AudioFields
      <4>5. SizesAreChecked(file) => moov.isProtected /\ moov.format = "enca"
        BY Zenon, <2>1, <3>3 DEF SizesAreChecked
      <4>6. SizesAreChecked(file) => stream'.protected
        BY <4>1, <4>5 DEF AudioFields
      <4>7. QED
        BY <4>4, <4>6
    <3>4. QED
      BY <3>2, <3>3
  <2>4. /\ inputs = <<>> /\ output = <<>> /\ globalTimestamp = 0 /\ sample.range = 0
        /\ reader.range = 1 /\ reader.atom = 1 /\ found = NothingFound /\ decrypt = Fresh
    BY <1>1 DEF IInv, PlaceOK, TypeOK
  <2>5. TypeOK'
    BY <1>1, <1>3, <2>3 DEF IInv, TypeOK
  <2>6. PlaceOK'
    <3>1. Len(file.ranges) \in Nat
      BY <1>1, FileProperties
    <3>2. reader.range <= Len(file.ranges) => 1 \in 1 .. Len(file.ranges[reader.range])
      <4>1. ASSUME reader.range <= Len(file.ranges) PROVE reader.range \in 1 .. Len(file.ranges)
        BY <2>4, <3>1, <4>1
      <4>2. QED
        BY Zenon, <1>1, <4>1, RangeBegins
    <3>3. QED
      BY <1>1, <1>3, <2>4, <3>1, <3>2 DEF PlaceOK
  <2>7. StreamOK'
    BY <1>1, <1>3, <2>3, <2>4 DEF StreamOK
  <2>8. FoundOK'
    <3>1. NothingYet(file.ranges[reader.range], 0, NothingFound)
      BY DEF NothingYet, NothingFound
    <3>2. 1 - 1 = 0
      OBVIOUS
    <3>3. reader' = reader /\ found' = NothingFound /\ file' = file
      BY <1>1, <2>4
    <3>4. QED
      BY Zenon, <2>4, <3>1, <3>2, <3>3 DEF FoundOK, FoundSo
  <2>9. SampleOK' /\ DecryptOK'
    BY <1>3 DEF SampleOK, DecryptOK
  <2>10. CountOK'
    <3>1. ExpectedTo(file, 0) = <<>>
      BY NothingExpected
    <3>2. TimeTo(<<>>, 0) = 0 /\ Len(<<>>) = 0
      <4>1. <<>> \in Seq(FrameType)
        BY EmptySeq
      <4>2. QED
        BY Zenon, <4>1, EmptySeq, TimeProperties
    <3>3. inputs' = <<>> /\ globalTimestamp' = 0 /\ sample'.range = 0 /\ file' = file
      BY <1>1, <2>4
    <3>4. phase' \notin {"convert", "decrypt"}
      BY <1>3
    <3>5. QED
      BY Zenon, <3>1, <3>2, <3>3, <3>4 DEF CountOK
  <2>11. InputsOK' /\ OutputOK'
    BY <1>1, <2>4 DEF InputsOK, OutputOK
  <2>12. QED
    BY <2>5, <2>6, <2>7, <2>8, <2>9, <2>10, <2>11 DEF IInv
<1>4. QED
  BY <1>2, <1>3 DEF InitStream

-----------------------------------------------------------------------------
(* The step of an mdat                                                     *)

\* A table of frames that are encrypted as a whole is not empty.
LEMMA WholeTable ==
  ASSUME NEW media, NEW m, IsMoof(media, m), m.full
  PROVE  TableSize(m.samples) > 0
<1>1. PICK samples \in Tables : samples = m.samples /\ IsTable(media, samples)
  BY Zenon DEF IsMoof
<1>2. /\ Len(samples) \in Nat \ {0} /\ DOMAIN samples = 1 .. Len(samples)
      /\ \A k \in 1 .. Len(samples) : k \in Nat /\ IsSample(media, samples[k])
  BY <1>1, TableProperties
<1>3. 1 \in 1 .. Len(samples)
  BY <1>2
<1>4. PICK s : s = samples[1]
  OBVIOUS
<1>5. s \in Seq(Nat \X Nat) /\ IsWhole(s)
  BY Zenon, <1>1, <1>2, <1>3, <1>4 DEF IsMoof, IsSample
<1>6. Size(s) > 0
  <2>1. \A n \in FrameSizes : n > 0
    BY DEF FrameSizes, AdtsHeaderSize
  <2>2. QED
    BY Zenon, <1>5, <2>1, WholeProperties
<1>7. PICK g \in Seq(Nat) : g = TableSizes(samples)
  BY Zenon, TableSizesType
<1>8. Len(g) = Len(samples) /\ g[1] = Size(s)
  BY <1>2, <1>3, <1>4, <1>7 DEF TableSizes
<1>9. /\ Offset(g, 0) = 0 /\ Offset(g, 1) = Offset(g, 0) + g[1]
      /\ Sum(g) = Offset(g, Len(g))
  <2>1. 1 \in 1 .. Len(g) /\ 1 - 1 = 0
    BY <1>3, <1>8
  <2>2. /\ Offset(g, 0) = 0
        /\ \A k \in 1 .. Len(g) : Offset(g, k) = Offset(g, k - 1) + g[k]
        /\ Sum(g) = Offset(g, Len(g))
    BY OffsetStep
  <2>3. QED
    BY Zenon, <2>1, <2>2
<1>10. Offset(g, 1) <= Offset(g, Len(g))
  <2>1. PICK k \in Nat : k = 1
    BY SMTT(20)
  <2>2. PICK l \in Nat : l = Len(g)
    BY Zenon, <1>2, <1>8
  <2>3. k \in 0 .. Len(g) /\ l \in k .. Len(g)
    BY <1>2, <1>8, <2>1, <2>2
  <2>4. Offset(g, k) <= Offset(g, l)
    BY <2>3, OffsetMonotonic
  <2>5. QED
    BY ZenonT(20), <2>1, <2>2, <2>4
<1>11. Size(s) \in Nat /\ Offset(g, Len(g)) \in Nat
  <2>1. Len(g) \in 0 .. Len(g)
    BY LenProperties
  <2>2. QED
    BY <1>5, <2>1, SizesInType, OffsetStep
<1>12. Sum(g) > 0
  BY <1>6, <1>8, <1>9, <1>10, <1>11
<1>13. TableSize(samples) = Sum(g)
  BY Zenon, <1>7 DEF TableSize, TableSizes
<1>14. QED
  BY Zenon, <1>1, <1>12, <1>13

\* The moof that the reader has found in front of an mdat is that of its samples.
LEMMA MdatDescribed ==
  ASSUME NEW f, NEW r, NEW range, NEW n, IsRange(f, r, range, n),
         NEW i \in 1 .. n, range[i].type = "mdat",
         NEW fd \in FoundType, NEW j \in 1 .. i - 1, IsFound(range, j, fd),
         NEW protected, SizesAreChecked(f) => protected, f.media = "video" \/ protected,
         protected => fd.expected = TableSize(range[i].samples)
  PROVE  fd.table = range[i].samples /\ Described(range, fd) /\ IsTable(f.media, fd.table)
<1>1. n \in Nat /\ DOMAIN range = 1 .. n
  BY DEF IsRange
<1>2. \A l \in 1 .. i - 1 : l \in 1 .. n
  BY <1>1
<1>3. Usable(range[j]) /\ \A l \in 1 .. j - 1 : ~Usable(range[l])
  BY Zenon DEF IsFound
<1>4. j \in 1 .. n
  BY Zenon, <1>2
<1>5. /\ HasMoof(range) /\ MoofOf(range) = range[j]
      /\ DurationOf(range) = IF "tfhd" \in range[j].missing THEN 2560 ELSE range[j].duration
  BY SMTT(20), <1>1, <1>3, <1>4, MoofIs
<1>6. IsRead(range, j)
  <2>1. range[j].type = "moof" /\ "traf" \notin range[j].missing
    BY <1>3 DEF Usable
  <2>2. QED
    BY Zenon, <1>3, <2>1 DEF IsRead
<1>7. \A l \in 1 .. n : range[l].type # "other" => TableSize(range[l].samples) \in Nat /\ range[l].samples \in Tables
  <2>1. TAKE l \in 1 .. n
  <2>2. range[l] \in Atoms
    BY Zenon DEF IsRange
  <2>3. range[l].type # "other" => range[l].samples \in Tables
    BY <2>2, AtomProperties
  <2>4. QED
    BY Zenon, <2>3, TableSizesType
<1>8. TableSize(range[i].samples) \in Nat /\ TableSize(range[j].samples) \in Nat /\ fd.expected \in Nat
  <2>1. range[i].type # "other" /\ range[j].type # "other"
    BY <1>6 DEF IsRead
  <2>2. QED
    BY <1>4, <1>7, <2>1 DEF FoundType
<1>9. fd.expected >= TableSize(range[j].samples)
  BY Zenon DEF IsFound
<1>10. range[j].samples = range[i].samples
  <2>1. \/ range[j].samples = range[i].samples
        \/ SizesAreChecked(f) /\ TableSize(range[j].samples) > TableSize(range[i].samples)
    BY Zenon, <1>6 DEF IsRange
  <2>2. ASSUME SizesAreChecked(f) /\ TableSize(range[j].samples) > TableSize(range[i].samples)
        PROVE  FALSE
    <3>1. fd.expected = TableSize(range[i].samples)
      BY <2>2
    <3>2. QED
      BY <1>8, <1>9, <2>2, <3>1
  <2>3. QED
    BY Zenon, <2>1, <2>2
<1>11. fd.table = range[j].samples
  BY Zenon DEF IsFound
<1>12. IsTable(f.media, fd.table)
  <2>1. range[j].type # "other"
    BY <1>6 DEF IsRead
  <2>2. QED
    BY Zenon, <1>4, <1>11, <2>1 DEF IsRange
<1>13. ~range[j].full => fd.sizes = <<>>
  <2>1. SUFFICES ASSUME ~range[j].full, fd.sizes # <<>> PROVE FALSE
    OBVIOUS
  <2>2. PICK l \in 1 .. j - 1 : /\ Sized(range, l)
                                /\ fd.expected >= TableSize(range[j].samples) + TableSize(range[l].samples)
    BY Zenon, <2>1 DEF IsFound
  <2>3. l \in 1 .. n
    BY <1>1, <1>4
  <2>4. range[l].type = "moof" /\ range[l].full
    BY Zenon, <2>2 DEF Sized, IsRead
  <2>5. IsMoof(f.media, range[l])
    BY Zenon, <2>3, <2>4 DEF IsRange
  <2>6. f.media # "video"
    BY Zenon, <2>4, <2>5 DEF IsMoof
  <2>7. fd.expected = TableSize(range[j].samples)
    BY Zenon, <1>10, <2>6
  <2>8. TableSize(range[l].samples) > 0
    BY Zenon, <2>4, <2>5, WholeTable
  <2>9. TableSize(range[l].samples) \in Nat
    <3>1. range[l].type # "other"
      BY <2>4
    <3>2. QED
      BY Zenon, <1>7, <2>3, <3>1
  <2>10. QED
    BY <1>8, <2>2, <2>7, <2>8, <2>9
<1>14. Described(range, fd)
  <2>1. /\ fd.subs => ~range[j].full
        /\ ~fd.subs => range[j].full
        /\ fd.duration = IF "tfhd" \in range[j].missing THEN 2560 ELSE range[j].duration
        /\ range[j].full => fd.sizes = TableSizes(fd.table)
    BY Zenon, <1>11 DEF IsFound
  <2>2. fd.sizes = IF range[j].full THEN TableSizes(fd.table) ELSE <<>>
    BY Zenon, <1>13, <2>1
  <2>3. fd.duration = DurationOf(range)
    BY <1>5, <2>1
  <2>4. QED
    BY Zenon, <1>5, <1>11, <2>1, <2>2, <2>3 DEF Described
<1>15. QED
  BY Zenon, <1>10, <1>11, <1>12, <1>14

\* An input that is the n-th expected frame still is when more are expected.
LEMMA InputStays ==
  ASSUME NEW g, NEW e, NEW x, Extends(g, e, x), NEW y, NEW n, IsInput(y, e, n)
  PROVE  IsInput(y, g, n)
<1>1. Len(e) \in Nat /\ Len(x) \in Nat /\ Len(g) = Len(e) + Len(x) /\ \A i \in 1 .. Len(e) : g[i] = e[i]
  BY LenProperties DEF Extends
<1>2. n \in 1 .. Len(e)
  BY DEF IsInput
<1>3. g[n] = e[n] /\ n \in 1 .. Len(g)
  BY <1>1, <1>2
<1>4. PICK k \in 0 .. Len(e) : k = n - 1
  BY <1>1, <1>2
<1>5. TimeTo(g, k) = TimeTo(e, k)
  BY <1>4, SameTime
<1>6. QED
  BY Zenon, <1>3, <1>4, <1>5 DEF IsInput

\* The frames that are expected up to a range are those before it and its own.
LEMMA NextRange ==
  ASSUME NEW f \in Files, NEW r \in 1 .. Len(f.ranges), NEW p, p = r - 1,
         NEW e, e = ExpectedTo(f, p), NEW g, g = ExpectedTo(f, r)
  PROVE  /\ Extends(g, e, FramesOf(f, r))
         /\ TimeTo(g, Len(e)) = TimeTo(e, Len(e))
<1>1. Extends(g, e, FramesOf(f, r))
  BY Zenon, FileProperties, ExpectedGrows
<1>2. Len(e) \in 0 .. Len(e)
  BY <1>1, LenProperties DEF Extends
<1>3. QED
  BY ZenonT(20), <1>1, <1>2, SameTime

\* A sample that is taken out of an mdat.
Taken(range, r, data) ==
  [range |-> r, data |-> data, subs |-> found.subs, sizes |-> found.sizes, table |-> found.table,
   duration |-> found.duration]

\* A step that makes a sample of the range it has read keeps the invariant.
LEMMA SampleTaken ==
  ASSUME IInv, NEW range, NEW n, NEW i, Reading(range, n, i), phase = "parse", phase' = "convert",
         NEW r, r = reader.range, reader' = [range |-> r + 1, atom |-> 1],
         NEW data \in Seq(Int), sample' = Taken(range, r, data), found' = NothingFound,
         UNCHANGED <<file, stream, decrypter>>,
         Checked /\ found.table # <<>> =>
           /\ Described(range, found)
           /\ data = FlattenSeq(SamplesOf(file.media, r, found.table, "mp4")),
         stream.protected => found.table # <<>>
  PROVE  IInv'
<1> USE DEF decrypter
<1>1. file \in Files /\ found \in FoundType /\ TypeOK
  BY DEF IInv, TypeOK
<1>2. /\ r \in 1 .. Len(file.ranges) /\ range = file.ranges[r]
      /\ sample.range = r - 1 /\ decrypt = Fresh
  BY DEF Reading, IsRange
<1>3. Len(file.ranges) \in Nat
  BY <1>1, FileProperties
<1>4. r \in Nat /\ (r + 1) - 1 = r
  BY <1>2, <1>3
<1>5. /\ sample'.range = r /\ sample'.data = data /\ sample'.subs = found.subs /\ sample'.sizes = found.sizes
      /\ sample'.table = found.table /\ sample'.duration = found.duration
  BY DEF Taken
<1>6. reader'.range = r + 1 /\ reader'.atom = 1
  OBVIOUS
<1>7. TypeOK'
  <2>1. sample' \in SampleType
    BY <1>1, <1>4 DEF Taken, SampleType, FoundType
  <2>2. NothingFound \in FoundType
    BY DEF NothingFound, FoundType, Tables
  <2>3. reader' \in [range : Nat \ {0}, atom : Nat \ {0}]
    BY <1>4
  <2>4. QED
    BY <1>1, <2>1, <2>2, <2>3 DEF TypeOK
<1>8. PlaceOK'
  BY <1>2, <1>3, <1>4, <1>5, <1>6 DEF PlaceOK
<1>9. StreamOK'
  BY DEF IInv, StreamOK
<1>10. FoundOK' /\ DecryptOK' /\ OutputOK'
  BY DEF FoundOK, DecryptOK, OutputOK
<1>11. SampleOK'
  <2>1. sample'.range >= 1
    BY <1>2, <1>3, <1>5
  <2>2. Described(range, found) => Described(range, sample')
    BY Zenon, <1>5 DEF Described
  <2>3. file' = file /\ stream' = stream /\ phase' # "decrypt"
    OBVIOUS
  <2>4. Checked' <=> Checked
    BY Zenon, <2>3 DEF Checked
  <2>5. QED
    BY Zenon, <1>2, <1>5, <2>1, <2>2, <2>3, <2>4 DEF SampleOK
<1>12. PICK e : e = ExpectedTo(file, r - 1)
  OBVIOUS
<1>13. PICK g : g = ExpectedTo(file, r)
  OBVIOUS
<1>14. Extends(g, e, FramesOf(file, r)) /\ TimeTo(g, Len(e)) = TimeTo(e, Len(e))
  BY ZenonT(20), <1>1, <1>2, <1>12, <1>13, NextRange
<1>15. CountOK'
  <2>1. SUFFICES ASSUME Checked'
        PROVE  /\ Len(inputs') = Len(ExpectedTo(file', sample'.range - 1)) + (decrypt'.pos - 1)
               /\ globalTimestamp' = TimeTo(ExpectedTo(file', sample'.range), Len(inputs'))
    BY DEF CountOK
  <2>2. Checked
    BY <2>1 DEF Checked
  <2>3. Len(inputs) = Len(e) /\ globalTimestamp = TimeTo(e, Len(inputs))
    BY Zenon, <1>2, <1>12, <2>2 DEF IInv, CountOK
  <2>4. decrypt'.pos - 1 = 0 /\ Len(e) \in Nat
    BY <1>2, <1>14, LenProperties DEF Fresh, Extends
  <2>5. Len(e) + 0 = Len(e)
    BY <2>4
  <2>6. inputs' = inputs /\ globalTimestamp' = globalTimestamp /\ file' = file
    OBVIOUS
  <2>7. QED
    BY Zenon, <1>5, <1>12, <1>13, <1>14, <2>3, <2>4, <2>5, <2>6
<1>16. InputsOK'
  <2>1. SUFFICES ASSUME inputs # <<>>
        PROVE  /\ IsInput(inputs[Len(inputs)], g, Len(inputs))
               /\ TellsCipher(inputs[Len(inputs)].subsamples, inputs[Len(inputs)].data)
    <3>1. inputs' = inputs /\ file' = file
      OBVIOUS
    <3>2. QED
      BY Zenon, <1>5, <1>13, <3>1 DEF InputsOK
  <2>2. /\ IsInput(inputs[Len(inputs)], e, Len(inputs))
        /\ TellsCipher(inputs[Len(inputs)].subsamples, inputs[Len(inputs)].data)
    BY Zenon, <1>2, <1>12, <2>1 DEF IInv, InputsOK
  <2>3. QED
    BY Zenon, <1>14, <2>2, InputStays
<1>17. QED
  BY <1>7, <1>8, <1>9, <1>10, <1>11, <1>15, <1>16 DEF IInv

\* An mdat keeps the invariant: the comparison of the sizes keeps a sample out that the
\* locals do not describe.
LEMMA ParseMdatIInv == ASSUME IInv, ParseMdat PROVE IInv'
<1>1. PICK r : r = reader.range
  OBVIOUS
<1>2. PICK range : range = file.ranges[r]
  OBVIOUS
<1>3. PICK n : n = Len(range)
  BY Zenon
<1>4. PICK i : i = reader.atom
  OBVIOUS
<1>5. /\ Parses("mdat") /\ LastInRange /\ Advance /\ found' = NothingFound /\ phase = "parse"
      /\ UNCHANGED <<file, stream, decrypter>>
  BY DEF ParseMdat, Parses
<1>6. Reading(range, n, i) /\ Atom = range[i] /\ range[i].type = "mdat"
  <2>1. PICK type : type = "mdat"
    OBVIOUS
  <2>2. Parses(type)
    BY Zenon, <1>5, <2>1
  <2>3. Reading(range, n, i) /\ Atom = range[i] /\ range[i].type = type
    BY <1>1, <1>2, <1>3, <1>4, <2>2, AtomIsRead
  <2>4. QED
    BY Zenon, <2>1, <2>3
<1>7. /\ r \in 1 .. Len(file.ranges) /\ IsRange(file, r, range, n) /\ i \in 1 .. n /\ i \in Nat
      /\ FoundSo(range, i - 1, found, stream.protected)
  BY Zenon, <1>1, <1>6 DEF Reading
<1>8. file \in Files /\ found \in FoundType /\ TypeOK /\ Len(file.ranges) \in Nat
  BY FileProperties DEF IInv, TypeOK
<1>9. r \in Nat /\ r + 1 \in 1 .. Len(file.ranges) + 1
  BY <1>7, <1>8
<1>10. reader' = [range |-> r + 1, atom |-> 1]
  BY Zenon, <1>1, <1>5 DEF Advance
<1>11. PICK samples : samples = range[i].samples
  OBVIOUS
<1>12. samples \in Tables /\ IsTable(file.media, samples)
  <2>1. range[i].type # "other"
    BY <1>6
  <2>2. range[i] \in Atoms /\ IsTable(file.media, range[i].samples)
    BY Zenon, <1>7, <2>1 DEF IsRange
  <2>3. PICK a \in Atoms : a = range[i]
    BY Zenon, <2>2
  <2>4. a.samples \in Tables
    BY Zenon, <2>1, <2>3, AtomProperties
  <2>5. QED
    BY Zenon, <1>11, <2>2, <2>3, <2>4
<1>13. PICK data : data = MdatBytes(r, samples)
  OBVIOUS
<1>14. data = FlattenSeq(SamplesOf(file.media, r, samples, "mp4"))
  BY Zenon, <1>13, MdatIsSamples
<1>15. data \in Seq(Int) /\ Len(data) = TableSize(samples)
  <2>1. PICK form : form = "mp4"
    OBVIOUS
  <2>2. PICK media : media = file.media
    OBVIOUS
  <2>3. PICK ss : ss = SamplesOf(media, r, samples, form)
    OBVIOUS
  <2>4. AreSamples(media, r, samples, form, ss)
    BY <1>9, <1>12, <2>2, <2>3, SamplesProperties
  <2>5. QED
    BY Zenon, <1>14, <2>1, <2>2, <2>3, <2>4 DEF AreSamples
<1>16. CASE found.moof /\ (stream.protected => found.expected = Len(data))
  <2>1. phase' = "convert" /\ sample' = Taken(range, r, data)
    BY Zenon, <1>1, <1>6, <1>11, <1>13, <1>16 DEF ParseMdat, Taken
  <2>2. \/ \E j \in 1 .. i - 1 : IsFound(range, j, found)
        \/ found.table = <<>> /\ ~stream.protected
    BY Zenon, <1>7, <1>16 DEF FoundSo, NothingYet
  <2>3. ASSUME NEW j \in 1 .. i - 1, IsFound(range, j, found), Checked
        PROVE  found.table = samples /\ Described(range, found) /\ IsTable(file.media, found.table)
    <3>1. SizesAreChecked(file) => stream.protected
      BY <1>5 DEF IInv, StreamOK
    <3>2. PICK protected : protected = stream.protected
      OBVIOUS
    <3>3. /\ SizesAreChecked(file) => protected
          /\ file.media = "video" \/ protected
          /\ protected => found.expected = TableSize(range[i].samples)
      BY Zenon, <1>11, <1>15, <1>16, <2>3, <3>1, <3>2 DEF Checked
    <3>4. QED
      BY <1>6, <1>7, <1>8, <1>11, <2>3, <3>3, MdatDescribed
  <2>4. Checked /\ found.table # <<>> =>
          /\ Described(range, found)
          /\ data = FlattenSeq(SamplesOf(file.media, r, found.table, "mp4"))
    BY Zenon, <1>14, <2>2, <2>3
  <2>5. stream.protected => found.table # <<>>
    BY Zenon, <2>2, <2>3 DEF Checked, IsTable
  <2>6. QED
    BY <1>1, <1>5, <1>6, <1>10, <1>15, <2>1, <2>4, <2>5, SampleTaken
<1>17. CASE ~(found.moof /\ (stream.protected => found.expected = Len(data)))
  <2>1. phase' = "ended" /\ sample' = sample
    BY Zenon, <1>1, <1>6, <1>11, <1>13, <1>17 DEF ParseMdat
  <2>2. TypeOK'
    <3>1. NothingFound \in FoundType
      BY DEF NothingFound, FoundType, Tables
    <3>2. reader' \in [range : Nat \ {0}, atom : Nat \ {0}]
      BY <1>9, <1>10
    <3>3. QED
      BY <1>5, <1>8, <2>1, <3>1, <3>2 DEF TypeOK, decrypter
  <2>3. phase' \in Stopped
    BY <2>1 DEF Stopped
  <2>4. reader'.range \in 1 .. Len(file.ranges) + 1
    BY <1>9, <1>10
  <2>5. QED
    BY <1>5, <2>1, <2>2, <2>3, <2>4, StopIInv
<1>18. QED
  BY <1>16, <1>17

-----------------------------------------------------------------------------
(* The steps of the demux threads                                          *)

\* A sample and the moof that describes it.
SampleIs(r, m) ==
  /\ r \in 1 .. Len(file.ranges) /\ r \in Nat
  /\ r = sample.range
  /\ m = MoofOf(file.ranges[r])
  /\ HasMoof(file.ranges[r]) /\ IsMoof(file.media, m)
  /\ sample.table = m.samples
  /\ sample.subs => ~m.full
  /\ ~sample.subs => m.full
  /\ sample.sizes = IF m.full THEN TableSizes(m.samples) ELSE <<>>
  /\ sample.duration = DurationOf(file.ranges[r]) /\ sample.duration \in Nat
  /\ stream.config \in Configs
  /\ file.private \in Seq(Nat) /\ file \in Files

\* The sample on its way is described by the moof of its range.
LEMMA SampleIsDescribed ==
  ASSUME IInv, phase \in {"convert", "decrypt"}, Checked, sample.table # <<>>,
         NEW r, r = sample.range, NEW m, m = MoofOf(file.ranges[r])
  PROVE  SampleIs(r, m)
<1>1. file \in Files /\ file.private \in Seq(Nat) /\ Len(file.ranges) \in Nat
  BY FileProperties DEF IInv, TypeOK
<1>2. r >= 1 /\ r \in 0 .. Len(file.ranges)
  BY DEF IInv, SampleOK, PlaceOK
<1>3. r \in 1 .. Len(file.ranges) /\ r \in Nat
  BY <1>1, <1>2
<1>4. Described(file.ranges[r], sample)
  BY Zenon DEF IInv, SampleOK
<1>5. IsRange(file, r, file.ranges[r], Len(file.ranges[r]))
  BY Zenon, <1>1, <1>3, FileProperties, RangeProperties
<1>6. HasMoof(file.ranges[r])
  BY Zenon, <1>4 DEF Described
<1>7. IsMoof(file.media, m) /\ DurationOf(file.ranges[r]) \in Nat
  BY Zenon, <1>5, <1>6, MoofProperties
<1>8. stream.config \in Configs
  BY DEF IInv, TypeOK
<1>9. /\ sample.table = m.samples
      /\ sample.subs => ~m.full
      /\ ~sample.subs => m.full
      /\ sample.duration = DurationOf(file.ranges[r])
      /\ sample.sizes = IF m.full THEN TableSizes(sample.table) ELSE <<>>
  BY Zenon, <1>4 DEF Described
<1>10. QED
  BY Zenon, <1>1, <1>3, <1>6, <1>7, <1>8, <1>9 DEF SampleIs

\* The sample on its way to the CDM is the concatenation of its pieces.
LEMMA PiecesAre ==
  ASSUME NEW r, NEW m, SampleIs(r, m), NEW ps, ps = PiecesOf(file.media, stream.config, r, m)
  PROVE  /\ ps = PiecesNow
         /\ ps \in Seq(Seq(Int)) /\ Lens(ps) \in Seq(Nat) /\ FlattenSeq(ps) \in Seq(Int)
         /\ Len(ps) = Len(m.samples) /\ Len(ps) \in Nat \ {0} /\ Len(Lens(ps)) = Len(ps)
<1>1. ps = PiecesNow
  BY Zenon DEF SampleIs, PiecesNow
<1>2. /\ Len(m.samples) \in Nat \ {0}
      /\ ps \in Seq(Seq(Int)) /\ Len(ps) = Len(m.samples)
  <2>1. PICK media : media = file.media
    OBVIOUS
  <2>2. PICK c : c = stream.config
    OBVIOUS
  <2>3. c \in Configs /\ r \in Nat /\ IsMoof(media, m)
    BY Zenon, <2>1, <2>2 DEF SampleIs
  <2>4. ps = PiecesOf(media, c, r, m)
    BY Zenon, <2>1, <2>2
  <2>5. QED
    BY <2>3, <2>4, PiecesProperties DEF ArePieces
<1>3. Lens(ps) \in Seq(Nat) /\ FlattenSeq(ps) \in Seq(Int) /\ Len(Lens(ps)) = Len(ps)
  BY Zenon, <1>2, FlattenProperties
<1>4. QED
  BY Zenon, <1>1, <1>2, <1>3

\* A step that makes the sample's data its pieces keeps the invariant.
LEMMA ConvertedIInv ==
  ASSUME IInv, phase = "convert", phase' = "decrypt", Checked, sample.table # <<>>,
         NEW r, NEW m, SampleIs(r, m), sample' = [sample EXCEPT !.data = FlattenSeq(PiecesNow)],
         UNCHANGED <<file, stream, reader, found, decrypter>>
  PROVE  IInv'
<1> USE DEF decrypter
<1>1. PICK ps : ps = PiecesOf(file.media, stream.config, r, m)
  OBVIOUS
<1>2. /\ ps = PiecesNow
      /\ ps \in Seq(Seq(Int)) /\ Lens(ps) \in Seq(Nat) /\ FlattenSeq(ps) \in Seq(Int)
      /\ Len(ps) = Len(m.samples) /\ Len(ps) \in Nat \ {0}
  BY <1>1, PiecesAre
<1>3. sample \in SampleType
  BY DEF IInv, TypeOK
<1>4. PICK data \in Seq(Int) : data = FlattenSeq(ps)
  BY <1>2
<1>5. sample' = [sample EXCEPT !.data = data]
  BY Zenon, <1>2, <1>4
<1>6. /\ sample' \in SampleType /\ sample'.data = data
      /\ sample'.range = sample.range /\ sample'.subs = sample.subs /\ sample'.sizes = sample.sizes
      /\ sample'.table = sample.table /\ sample'.duration = sample.duration
  BY Zenon, <1>3, <1>4, <1>5 DEF SampleType
<1>7. PiecesNow' = ps
  BY Zenon, <1>2, <1>6 DEF PiecesNow
<1>8. decrypt = Fresh
  BY DEF IInv, PlaceOK
<1>9. TypeOK'
  BY <1>6 DEF IInv, TypeOK
<1>10. PlaceOK'
  BY <1>6 DEF IInv, PlaceOK
<1>11. StreamOK'
  BY DEF IInv, StreamOK, Checked
<1>12. FoundOK' /\ OutputOK'
  BY DEF FoundOK, OutputOK
<1>13. SampleOK'
  <2>1. Described(file.ranges[sample.range], sample) => Described(file.ranges[sample.range], sample')
    BY Zenon, <1>6 DEF Described
  <2>2. /\ phase' # "convert" /\ file' = file /\ phase \in {"convert", "decrypt"}
    OBVIOUS
  <2>3. sample.range >= 1 /\ Described(file.ranges[sample.range], sample)
    BY Zenon, <2>2 DEF IInv, SampleOK
  <2>4. QED
    BY Zenon, <1>4, <1>6, <1>7, <2>1, <2>2, <2>3 DEF SampleOK
<1>14. DecryptOK'
  <2>1. decrypt'.pos = 1 /\ decrypt'.offset = 0 /\ decrypt'.decrypted = <<>>
    BY <1>8 DEF Fresh
  <2>2. 1 \in 1 .. Len(sample'.table)
    <3>1. sample.table = m.samples
      BY DEF SampleIs
    <3>2. QED
      BY <1>2, <1>6, <3>1
  <2>3. 0 = Offset(Lens(ps), 1 - 1)
    <3>1. 1 - 1 = 0
      OBVIOUS
    <3>2. Offset(Lens(ps), 0) = 0
      BY Zenon, <1>2, OffsetStep
    <3>3. QED
      BY Zenon, <3>1, <3>2
  <2>4. IsAdts(<<>>)
    <3>1. PICK frames \in Seq(Seq(Int)) : frames = <<>> /\ Len(frames) = 0
      BY Zenon, EmptySeq
    <3>2. \A k \in 1 .. Len(frames) : IsFrame(frames[k])
      BY <3>1
    <3>3. <<>> = FlattenSeq(frames)
      BY Zenon, <3>1, FlattenEmpty
    <3>4. QED
      BY Zenon, <3>1, <3>2, <3>3 DEF IsAdts
  <2>5. QED
    BY Zenon, <1>7, <2>1, <2>2, <2>3, <2>4 DEF DecryptOK
<1>15. CountOK'
  <2>1. phase' \notin {"parse"} /\ phase \in {"convert", "decrypt"} /\ phase \in {"parse", "convert", "decrypt"}
        /\ file' = file /\ inputs' = inputs /\ decrypt' = decrypt /\ globalTimestamp' = globalTimestamp
    OBVIOUS
  <2>2. phase' # "parse"
    OBVIOUS
  <2>3. QED
    BY Zenon, <1>6, <2>1, <2>2 DEF IInv, CountOK
<1>16. InputsOK'
  BY <1>6 DEF IInv, InputsOK
<1>17. QED
  BY <1>9, <1>10, <1>11, <1>12, <1>13, <1>14, <1>15, <1>16 DEF IInv

\* The conversion yields bytes.
LEMMA AnnexBType == ASSUME NEW data \in Seq(Int) PROVE AnnexB(data) \in Seq(Int)
<1>1. PICK n \in Nat : n = Len(data) /\ DOMAIN data = 1 .. n
  BY LenProperties
<1>2. PICK starts : starts = NalStarts(data)
  OBVIOUS
<1>3. PICK t : t = [i \in 1 .. n |-> IF i - 3 \in starts THEN 1
                                  ELSE IF {i, i - 1, i - 2} \cap starts # {} THEN 0
                                  ELSE data[i]]
  BY Zenon
<1>4. AnnexB(data) = t
  BY Zenon, <1>1, <1>2, <1>3 DEF AnnexB
<1>5. \A i \in 1 .. n : data[i] \in Int
  BY <1>1
<1>6. t \in [1 .. n -> Int]
  BY <1>3, <1>5
<1>7. t \in Seq(Int)
  BY <1>1, <1>6, FunctionIsSeq
<1>8. QED
  BY Zenon, <1>4, <1>7

\* The video demuxer's conversion keeps the invariant.
LEMMA ConvertVideoIInv == ASSUME IInv, ConvertVideo PROVE IInv'
<1> USE DEF decrypter
<1>1. /\ phase = "convert" /\ file.media = "video" /\ Checked
      /\ UNCHANGED <<file, stream, reader, found, decrypter>>
  BY DEF ConvertVideo, Video, Checked
<1>2. CASE phase' = "asserted" /\ UNCHANGED sample
  <2>1. phase' \in Stopped
    BY <1>2 DEF Stopped
  <2>2. QED
    BY <1>1, <1>2, <2>1, StaysIInv
<1>3. CASE /\ sample' = [sample EXCEPT !.data = AnnexB(@)]
           /\ phase' = IF sample.table = <<>> THEN "undefined" ELSE "decrypt"
  <2>1. sample \in SampleType /\ sample.data \in Seq(Int)
    BY DEF IInv, TypeOK, SampleType
  <2>2. PICK data : data = sample.data
    OBVIOUS
  <2>3. sample' = [sample EXCEPT !.data = AnnexB(data)]
    BY Zenon, <1>3, <2>2
  <2>4. CASE sample.table = <<>>
    <3>1. phase' \in Stopped /\ phase' = "undefined"
      BY <1>3, <2>4 DEF Stopped
    <3>2. PICK x \in Seq(Int) : x = AnnexB(data)
      BY Zenon, <2>1, <2>2, AnnexBType
    <3>3. sample' = [sample EXCEPT !.data = x]
      BY Zenon, <2>3, <3>2
    <3>4. sample' \in SampleType /\ sample'.range = sample.range
      BY Zenon, <2>1, <3>2, <3>3 DEF SampleType
    <3>5. TypeOK'
      BY <1>1, <3>1, <3>4 DEF IInv, TypeOK
    <3>6. reader'.range \in 1 .. Len(file.ranges) + 1
      BY <1>1 DEF IInv, PlaceOK
    <3>7. QED
      BY <1>1, <3>1, <3>4, <3>5, <3>6, StopIInv
  <2>5. CASE sample.table # <<>>
    <3>1. phase' = "decrypt" /\ phase \in {"convert", "decrypt"}
      BY <1>1, <1>3, <2>5
    <3>2. PICK r : r = sample.range
      OBVIOUS
    <3>3. PICK m : m = MoofOf(file.ranges[r])
      OBVIOUS
    <3>4. SampleIs(r, m)
      BY <1>1, <2>5, <3>1, <3>2, <3>3, SampleIsDescribed
    <3>5. AnnexB(data) = FlattenSeq(PiecesNow)
      <4>1. data = FlattenSeq(SamplesOf(file.media, r, sample.table, "mp4"))
        BY Zenon, <1>1, <2>2, <2>5, <3>2 DEF IInv, SampleOK
      <4>2. data = FlattenSeq(SamplesOf("video", r, m.samples, "mp4"))
        BY Zenon, <1>1, <3>4, <4>1 DEF SampleIs
      <4>3. IsMoof("video", m) /\ r \in Nat
        BY Zenon, <1>1, <3>4 DEF SampleIs
      <4>4. PICK c : c = stream.config
        OBVIOUS
      <4>5. AnnexB(data) = FlattenSeq(PiecesOf("video", c, r, m))
        BY <4>2, <4>3, VideoConverted
      <4>6. QED
        BY Zenon, <1>1, <3>2, <3>3, <4>4, <4>5 DEF PiecesNow
    <3>6. sample' = [sample EXCEPT !.data = FlattenSeq(PiecesNow)]
      BY Zenon, <2>3, <3>5
    <3>7. QED
      BY <1>1, <2>5, <3>1, <3>4, <3>6, ConvertedIInv
  <2>6. QED
    BY <2>4, <2>5
<1>4. QED
  BY <1>2, <1>3 DEF ConvertVideo

\* The audio demuxer's conversion keeps the invariant.
LEMMA ConvertAudioIInv == ASSUME IInv, ConvertAudio PROVE IInv'
<1> USE DEF decrypter
<1>1. /\ phase = "convert" /\ file.media # "video"
      /\ UNCHANGED <<file, stream, reader, found, decrypter>>
      /\ file \in Files
  BY DEF ConvertAudio, Video, IInv, TypeOK
<1>2. CASE stream.protected
  <2>1. phase' = "decrypt" /\ Checked /\ phase \in {"convert", "decrypt"} /\ sample.table # <<>>
    BY <1>1, <1>2 DEF ConvertAudio, Checked, IInv, SampleOK
  <2>2. PICK r : r = sample.range
    OBVIOUS
  <2>3. PICK m : m = MoofOf(file.ranges[r])
    OBVIOUS
  <2>4. SampleIs(r, m)
    BY <2>1, <2>2, <2>3, SampleIsDescribed
  <2>5. PICK data : data = sample.data
    OBVIOUS
  <2>6. data = FlattenSeq(SamplesOf(file.media, r, m.samples, "mp4"))
    <3>1. data = FlattenSeq(SamplesOf(file.media, r, sample.table, "mp4"))
      BY Zenon, <1>1, <2>1, <2>2, <2>5 DEF IInv, SampleOK
    <3>2. QED
      BY Zenon, <2>4, <3>1 DEF SampleIs
  <2>7. IsMoof(file.media, m) /\ r \in Nat
    BY Zenon, <2>4 DEF SampleIs
  <2>8. /\ ~m.full => \A c : data = FlattenSeq(PiecesOf(file.media, c, r, m))
        /\ m.full => WithAdtsHeaders(data, TableSizes(m.samples)) =
                       FlattenSeq(PiecesOf(file.media, stream.config, r, m))
    <3>1. PICK media : media = file.media
      OBVIOUS
    <3>2. media # "video" /\ IsMoof(media, m) /\ data = FlattenSeq(SamplesOf(media, r, m.samples, "mp4"))
      BY Zenon, <1>1, <2>6, <2>7, <3>1
    <3>3. /\ ~m.full => \A c : data = FlattenSeq(PiecesOf(media, c, r, m))
          /\ m.full => WithAdtsHeaders(data, TableSizes(m.samples)) =
                         FlattenSeq(PiecesOf(media, stream.config, r, m))
      BY <2>7, <3>2, AudioConverted
    <3>4. QED
      BY Zenon, <3>1, <3>3
  <2>9. PiecesNow = PiecesOf(file.media, stream.config, r, m)
    BY Zenon, <2>2, <2>3 DEF PiecesNow
  <2>10. sample' = [sample EXCEPT !.data = FlattenSeq(PiecesNow)]
    <3>1. CASE ~sample.subs
      <4>1. sample' = [sample EXCEPT !.data = WithAdtsHeaders(data, sample.sizes)]
        BY Zenon, <1>2, <2>5, <3>1 DEF ConvertAudio
      <4>2. m.full /\ sample.sizes = TableSizes(m.samples)
        BY Zenon, <2>4, <3>1 DEF SampleIs
      <4>3. WithAdtsHeaders(data, sample.sizes) = FlattenSeq(PiecesNow)
        BY Zenon, <2>8, <2>9, <4>2
      <4>4. QED
        BY Zenon, <4>1, <4>3
    <3>2. CASE sample.subs
      <4>1. sample' = sample
        BY Zenon, <3>2 DEF ConvertAudio
      <4>2. ~m.full
        BY Zenon, <2>4, <3>2 DEF SampleIs
      <4>3. data = FlattenSeq(PiecesNow)
        BY Zenon, <2>8, <2>9, <4>2
      <4>4. sample = [sample EXCEPT !.data = data]
        <5>1. sample \in SampleType
          BY DEF IInv, TypeOK
        <5>2. QED
          BY <2>5, <5>1 DEF SampleType
      <4>5. QED
        BY Zenon, <4>1, <4>3, <4>4
    <3>3. QED
      BY <3>1, <3>2
  <2>11. QED
    BY <1>1, <2>1, <2>4, <2>10, ConvertedIInv
<1>3. CASE ~stream.protected
  <2>1. phase' = "parse" /\ sample' = sample
    BY <1>3 DEF ConvertAudio
  <2>2. inputs = <<>> /\ output = <<>>
    BY <1>1, <1>3 DEF IInv, StreamOK
  <2>3. ~Checked'
    BY <1>1, <1>3 DEF Checked
  <2>4. TypeOK'
    BY <1>1, <2>1 DEF IInv, TypeOK
  <2>5. reader.atom = 1 /\ found = NothingFound
    BY <1>1 DEF IInv, PlaceOK
  <2>6. PlaceOK'
    <3>1. Len(file.ranges) \in Nat
      BY <1>1, FileProperties
    <3>2. reader.range <= Len(file.ranges) => 1 \in 1 .. Len(file.ranges[reader.range])
      <4>1. ASSUME reader.range <= Len(file.ranges) PROVE reader.range \in 1 .. Len(file.ranges)
        BY <3>1, <4>1 DEF IInv, PlaceOK
      <4>2. QED
        BY Zenon, <1>1, <4>1, RangeBegins
    <3>3. QED
      BY <1>1, <2>1, <2>5, <3>1, <3>2 DEF IInv, PlaceOK
  <2>7. StreamOK'
    BY <1>1, <1>3, <2>1, <2>2 DEF IInv, StreamOK
  <2>8. FoundOK'
    <3>1. NothingYet(file.ranges[reader.range], 0, NothingFound)
      BY DEF NothingYet, NothingFound
    <3>2. 1 - 1 = 0
      OBVIOUS
    <3>3. reader' = reader /\ found' = NothingFound /\ file' = file
      BY <1>1, <2>5
    <3>4. QED
      BY Zenon, <2>5, <3>1, <3>2, <3>3 DEF FoundOK, FoundSo
  <2>9. SampleOK' /\ DecryptOK'
    BY <2>1 DEF SampleOK, DecryptOK
  <2>10. CountOK'
    BY Zenon, <2>3 DEF CountOK
  <2>11. InputsOK' /\ OutputOK'
    BY <1>1, <2>2 DEF InputsOK, OutputOK
  <2>12. QED
    BY <2>4, <2>6, <2>7, <2>8, <2>9, <2>10, <2>11 DEF IInv
<1>4. QED
  BY <1>2, <1>3

-----------------------------------------------------------------------------
(* The steps of the decrypt threads                                        *)

\* A concatenation has its first part as a prefix.
LEMMA PrefixOfConcat ==
  ASSUME NEW S, NEW a \in Seq(S), NEW b \in Seq(S)
  PROVE  a \o b \in Seq(S) /\ SubSeq(a \o b, 1, Len(a)) = a
<1>1. PICK y : y = a \o b
  BY Zenon
<1>2. /\ y \in Seq(S) /\ Len(y) = Len(a) + Len(b)
      /\ \A i \in 1 .. Len(a) + Len(b) : y[i] = IF i <= Len(a) THEN a[i] ELSE b[i - Len(a)]
  BY <1>1, ConcatProperties
<1>3. PICK n \in Nat : n = Len(a)
  BY LenProperties
<1>4. n \in 0 .. Len(y) /\ \A i \in 1 .. n : y[i] = a[i]
  BY <1>2, <1>3
<1>5. PICK z : z = SubSeq(y, 1, n)
  BY Zenon
<1>6. z \in Seq(S) /\ Len(z) = n /\ \A i \in 1 .. n : z[i] = y[i]
  BY <1>2, <1>4, <1>5, SubSeqPrefix
<1>7. \A i \in 1 .. Len(a) : z[i] = a[i]
  BY <1>3, <1>4, <1>6
<1>8. z = a
  BY <1>3, <1>6, <1>7, SeqEqual
<1>9. QED
  BY Zenon, <1>1, <1>2, <1>3, <1>5, <1>8

\* What is left of a sequence of bytes is one.
LEMMA TailOfType ==
  ASSUME NEW S, NEW b \in Seq(S), NEW n \in Nat
  PROVE  SubSeq(b, n + 1, Len(b)) \in Seq(S)
BY SubSeqProperties

\* What a frame of a sample is to the thread that cuts it out.
FrameIs(r, m, ps, k) ==
  /\ SampleIs(r, m)
  /\ ps = PiecesOf(file.media, stream.config, r, m)
  /\ k = decrypt.pos /\ k \in 1 .. Len(m.samples) /\ k \in Nat
  /\ FrameSize = Len(ps[k])
  /\ FrameData = DataOf(file, stream.config, r, m, k)
  /\ Entries = EntriesOf(m, k)
  /\ ExtraData = ExtraOf(file, k)

\* Only samples whose sizes have been compared are decrypted.
LEMMA DecryptIsChecked == ASSUME IInv, phase = "decrypt" PROVE Checked
BY DEF IInv, StreamOK, Checked

\* FrameSize, FrameData and Entries are those of the piece at the offset.
LEMMA FrameIsCut ==
  ASSUME IInv, phase = "decrypt",
         NEW r, r = sample.range, NEW m, m = MoofOf(file.ranges[r]),
         NEW ps, ps = PiecesOf(file.media, stream.config, r, m), NEW k, k = decrypt.pos
  PROVE  FrameIs(r, m, ps, k)
<1>1. Checked /\ sample.table # <<>> /\ phase \in {"convert", "decrypt"}
  BY DecryptIsChecked DEF IInv, SampleOK
<1>2. SampleIs(r, m)
  BY <1>1, SampleIsDescribed
<1>3. /\ m.samples = sample.table /\ IsMoof(file.media, m) /\ r \in Nat /\ stream.config \in Configs
      /\ sample.sizes = IF m.full THEN TableSizes(m.samples) ELSE <<>>
  BY Zenon, <1>2 DEF SampleIs
<1>4. /\ ps = PiecesNow
      /\ ps \in Seq(Seq(Int)) /\ Lens(ps) \in Seq(Nat) /\ FlattenSeq(ps) \in Seq(Int)
      /\ Len(ps) = Len(m.samples) /\ Len(ps) \in Nat \ {0}
  BY <1>2, PiecesAre
<1>5. /\ Len(m.samples) \in Nat \ {0} /\ DOMAIN m.samples = 1 .. Len(m.samples)
      /\ \A i \in 1 .. Len(m.samples) :
           /\ ps[i] = PieceOf(file.media, stream.config, r, m, i)
           /\ Len(ps[i]) = Size(m.samples[i]) + (IF m.full THEN 7 ELSE 0)
           /\ m.full => IsFrame(ps[i])
  <2>1. PICK media : media = file.media
    OBVIOUS
  <2>2. PICK c \in Configs : c = stream.config
    BY <1>3
  <2>3. IsMoof(media, m) /\ ps = PiecesOf(media, c, r, m)
    BY Zenon, <1>3, <2>1, <2>2
  <2>4. ArePieces(media, c, r, m, ps)
    BY <1>3, <2>2, <2>3, PiecesProperties
  <2>5. QED
    BY ZenonT(20), <2>1, <2>2, <2>4 DEF ArePieces
<1>6. k \in 1 .. Len(m.samples) /\ k \in Nat
  <2>1. k \in 1 .. Len(m.samples)
    BY Zenon, <1>3 DEF IInv, DecryptOK
  <2>2. QED
    BY <1>5, <2>1
<1>7. decrypt.offset = Offset(Lens(ps), k - 1) /\ sample.data = FlattenSeq(ps)
  BY Zenon, <1>4 DEF IInv, DecryptOK, SampleOK
<1>8. HasSizes <=> m.full
  <2>1. m.full => TableSizes(m.samples) # <<>>
    <3>1. PICK g : g = TableSizes(m.samples)
      OBVIOUS
    <3>2. DOMAIN g = 1 .. Len(m.samples)
      BY <1>5, <3>1 DEF TableSizes
    <3>3. 1 \in DOMAIN g
      BY <1>5, <3>2
    <3>4. g # <<>>
      BY <3>3
    <3>5. QED
      BY Zenon, <3>1, <3>4
  <2>2. QED
    BY Zenon, <1>3, <2>1 DEF HasSizes
<1>9. m.full => ~Video /\ sample.sizes[k] = Size(m.samples[k])
  <2>1. m.full => ~Video
    BY ZenonT(20), <1>3 DEF IsMoof, Video
  <2>2. TableSizes(m.samples)[k] = Size(m.samples[k])
    BY <1>5, <1>6 DEF TableSizes
  <2>3. QED
    BY Zenon, <1>3, <2>1, <2>2
<1>10. Size(m.samples[k]) \in Nat
  <2>1. PICK samples \in Tables : samples = m.samples /\ IsTable(file.media, samples)
    BY ZenonT(20), <1>3 DEF IsMoof
  <2>2. samples[k] \in Seq(Nat \X Nat)
    <3>1. samples \in Seq(Seq(Nat \X Nat))
      BY DEF Tables
    <3>2. k \in 1 .. Len(samples)
      BY Zenon, <1>6, <2>1
    <3>3. QED
      BY <3>1, <3>2
  <2>3. QED
    BY Zenon, <2>1, <2>2, SizesInType
<1>11. FrameSize = Len(ps[k])
  <2>1. Len(ps[k]) = Size(m.samples[k]) + (IF m.full THEN 7 ELSE 0)
    BY ZenonT(20), <1>5, <1>6
  <2>2. CASE m.full
    <3>1. FrameSize = AdtsHeaderSize + Size(m.samples[k])
      BY Zenon, <1>8, <1>9, <2>2 DEF FrameSize
    <3>2. QED
      BY <1>10, <2>1, <2>2, <3>1 DEF AdtsHeaderSize
  <2>3. CASE ~m.full
    <3>1. FrameSize = Size(m.samples[k])
      BY Zenon, <1>3, <1>8, <2>3 DEF FrameSize
    <3>2. QED
      BY <1>10, <2>1, <2>3, <3>1
  <2>4. QED
    BY <2>2, <2>3
<1>12. ExtraData = ExtraOf(file, k)
  BY Zenon DEF ExtraData, ExtraOf, Video
<1>13. FrameData = DataOf(file, stream.config, r, m, k)
  <2>1. SubSeq(FlattenSeq(ps), Offset(Lens(ps), k - 1) + 1, Offset(Lens(ps), k - 1) + Len(ps[k])) = ps[k]
    BY Zenon, <1>4, <1>6, FlattenSlice
  <2>2. ps[k] = PieceOf(file.media, stream.config, r, m, k)
    BY Zenon, <1>5, <1>6
  <2>3. QED
    BY Zenon, <1>7, <1>11, <1>12, <2>1, <2>2 DEF FrameData, DataOf
<1>14. Entries = EntriesOf(m, k)
  BY Zenon, <1>3, <1>8, <1>9 DEF Entries, EntriesOf
<1>15. QED
  BY Zenon, <1>2, <1>6, <1>11, <1>12, <1>13, <1>14 DEF FrameIs

\* The entries the CDM is given, out of a buffer that holds those of an earlier frame too.
LEMMA EntriesAreShifted ==
  ASSUME NEW s \in Seq(Nat \X Nat), Len(s) > 0, NEW n \in Nat, NEW b \in Seq(Nat \X Nat),
         NEW y, y = Shifted(s, n) \o SubSeq(b, Len(s) + 1, Len(b))
  PROVE  y \in Seq(Nat \X Nat) /\ SubSeq(y, 1, Len(s)) = Shifted(s, n)
<1>1. Len(s) \in Nat /\ s[1] \in Nat \X Nat
  BY LenProperties
<1>2. PICK a \in Nat : a = s[1][1]
  BY <1>1
<1>3. PICK c \in Nat : c = s[1][2]
  BY <1>1
<1>4. PICK d \in Nat : d = a + n
  OBVIOUS
<1>5. PICK t : t = Shifted(s, n)
  OBVIOUS
<1>6. t \in Seq(Nat \X Nat) /\ Len(t) = Len(s)
  <2>1. IsShifted(t, s, d, c)
    BY Zenon, <1>2, <1>3, <1>4, <1>5, ShiftedProperties
  <2>2. QED
    BY Zenon, <2>1 DEF IsShifted
<1>7. PICK z : z = SubSeq(b, Len(s) + 1, Len(b))
  BY Zenon
<1>8. z \in Seq(Nat \X Nat)
  BY Zenon, <1>1, <1>7, TailOfType
<1>9. t \o z \in Seq(Nat \X Nat) /\ SubSeq(t \o z, 1, Len(t)) = t
  BY Zenon, <1>6, <1>8, PrefixOfConcat
<1>10. QED
  BY Zenon, <1>5, <1>6, <1>7, <1>9

\* A frame has at least one subsample.
LEMMA EntriesProperties ==
  ASSUME NEW media, NEW m, IsMoof(media, m), NEW k \in 1 .. Len(m.samples), NEW s, s = EntriesOf(m, k)
  PROVE  s \in Seq(Nat \X Nat) /\ Len(s) > 0
<1>1. PICK samples \in Tables : samples = m.samples /\ IsTable(media, samples)
  BY Zenon DEF IsMoof
<1>2. /\ Len(samples) \in Nat \ {0} /\ DOMAIN samples = 1 .. Len(samples)
      /\ \A i \in 1 .. Len(samples) : i \in Nat /\ IsSample(media, samples[i])
  BY <1>1, TableProperties
<1>3. samples[k] \in Seq(Nat \X Nat) /\ samples[k] # <<>>
  BY Zenon, <1>1, <1>2 DEF IsSample
<1>4. Size(samples[k]) \in Nat
  BY Zenon, <1>3, SizesInType
<1>5. CASE m.full
  <2>1. s = <<<<AdtsHeaderSize, Size(samples[k])>>>>
    BY Zenon, <1>1, <1>5 DEF EntriesOf
  <2>2. PICK n \in Nat : n = Size(samples[k])
    BY <1>4
  <2>3. PICK e \in Nat \X Nat : e = <<AdtsHeaderSize, n>>
    BY Zenon DEF AdtsHeaderSize
  <2>4. s = <<e>>
    BY Zenon, <2>1, <2>2, <2>3
  <2>5. QED
    BY <2>3, <2>4
<1>6. CASE ~m.full
  <2>1. s = samples[k]
    BY Zenon, <1>1, <1>6 DEF EntriesOf
  <2>2. QED
    BY <1>3, <2>1
<1>7. QED
  BY <1>5, <1>6

\* What has been handed to the CDM.
IsHanded(r, m, k, x) ==
  /\ subsampleBuffer' \in Seq(Nat \X Nat)
  /\ inputs' = Append(inputs, x)
  /\ x \in InputType
  /\ x.data = DataOf(file, stream.config, r, m, k)
  /\ x.timestamp = globalTimestamp
  /\ x.subsamples = SubsOf(file, m, k)
  /\ FrameData \in Seq(Int)
  /\ TellsCipher(x.subsamples, x.data)

\* DecryptFrame hands that piece to the CDM, with entries that tell its cipher bytes.
LEMMA FrameIsHanded ==
  ASSUME TypeOK, DecryptFrame, NEW r, NEW m, NEW ps, NEW k, FrameIs(r, m, ps, k),
         NEW x, x = [data |-> FrameData, timestamp |-> globalTimestamp,
                     subsamples |-> SubSeq(subsampleBuffer', 1, Len(Entries))]
  PROVE  IsHanded(r, m, k, x)
<1>1. /\ SampleIs(r, m) /\ k \in 1 .. Len(m.samples) /\ k \in Nat
      /\ FrameData = DataOf(file, stream.config, r, m, k)
      /\ Entries = EntriesOf(m, k) /\ ExtraData = ExtraOf(file, k)
  BY Zenon DEF FrameIs
<1>2. IsMoof(file.media, m) /\ file.private \in Seq(Nat) /\ r \in Nat /\ stream.config \in Configs
  BY Zenon, <1>1 DEF SampleIs
<1>3. PICK s : s = EntriesOf(m, k)
  OBVIOUS
<1>4. s \in Seq(Nat \X Nat) /\ Len(s) > 0
  <2>1. PICK media : media = file.media
    OBVIOUS
  <2>2. QED
    BY <1>1, <1>2, <1>3, <2>1, EntriesProperties
<1>5. ExtraOf(file, k) \in Seq(Int)
  BY Zenon, <1>2, ExtraProperties
<1>6. PICK n \in Nat : n = Len(ExtraOf(file, k))
  BY <1>5, LenProperties
<1>7. subsampleBuffer \in Seq(Nat \X Nat) /\ globalTimestamp \in Nat
  BY DEF TypeOK
<1>8. PICK y : y = subsampleBuffer'
  OBVIOUS
<1>9. y = Shifted(s, n) \o SubSeq(subsampleBuffer, Len(s) + 1, Len(subsampleBuffer))
  <2>1. y = [Entries EXCEPT ![1] = <<@[1] + Len(ExtraData), @[2]>>]
              \o SubSeq(subsampleBuffer, Len(Entries) + 1, Len(subsampleBuffer))
    BY Zenon, <1>8 DEF DecryptFrame, FillCdmInBuffer
  <2>2. [s EXCEPT ![1] = <<@[1] + n, @[2]>>] = Shifted(s, n)
    BY <1>4 DEF Shifted
  <2>3. [Entries EXCEPT ![1] = <<@[1] + Len(ExtraData), @[2]>>] = [s EXCEPT ![1] = <<@[1] + n, @[2]>>]
    BY Zenon, <1>1, <1>3, <1>6
  <2>4. QED
    BY Zenon, <1>1, <1>3, <2>1, <2>2, <2>3
<1>10. y \in Seq(Nat \X Nat) /\ SubSeq(y, 1, Len(s)) = Shifted(s, n)
  BY Zenon, <1>4, <1>7, <1>9, EntriesAreShifted
<1>11. SubSeq(y, 1, Len(Entries)) = SubsOf(file, m, k)
  BY Zenon, <1>1, <1>3, <1>6, <1>10 DEF SubsOf
<1>12. x.data = FrameData /\ x.timestamp = globalTimestamp /\ x.subsamples = SubSeq(y, 1, Len(Entries))
  BY <1>8
<1>13. /\ DataOf(file, stream.config, r, m, k) \in Seq(Int)
       /\ TellsCipher(SubsOf(file, m, k), DataOf(file, stream.config, r, m, k))
  BY Zenon, <1>1, <1>2, InputOfFrame
<1>14. FrameData \in Seq(Int) /\ TellsCipher(x.subsamples, x.data) /\ x.subsamples = SubsOf(file, m, k)
  BY Zenon, <1>1, <1>11, <1>12, <1>13
<1>15. SubSeq(y, 1, Len(Entries)) \in Seq(Nat \X Nat)
  BY Zenon, <1>12, <1>14 DEF TellsCipher
<1>16. x \in InputType
  BY <1>7, <1>8, <1>14, <1>15 DEF InputType
<1>17. inputs' = Append(inputs, x)
  BY Zenon DEF DecryptFrame
<1>18. QED
  BY Zenon, <1>1, <1>8, <1>10, <1>12, <1>14, <1>16, <1>17 DEF IsHanded

\* The place of a frame among those of the file.
IsExpected(r, m, k, x, e, b, n) ==
  /\ n = Len(b) + k /\ Len(e) = Len(b) + Len(m.samples) /\ Len(b) \in Nat
  /\ IsInput(x, e, n)
  /\ globalTimestamp' = TimeTo(e, n) /\ globalTimestamp' \in Nat

\* The frame that is handed to the CDM is the next one the file has.
LEMMA FrameIsExpected ==
  ASSUME IInv, phase = "decrypt", DecryptFrame,
         NEW r, NEW m, NEW ps, NEW k, FrameIs(r, m, ps, k), NEW x, IsHanded(r, m, k, x),
         NEW e, e = ExpectedTo(file, r), NEW b, b = ExpectedTo(file, r - 1),
         NEW n, n = Len(inputs) + 1
  PROVE  IsExpected(r, m, k, x, e, b, n)
<1>1. /\ r \in 1 .. Len(file.ranges) /\ r \in Nat /\ r = sample.range /\ file \in Files
      /\ m = MoofOf(file.ranges[r]) /\ HasMoof(file.ranges[r]) /\ IsMoof(file.media, m)
      /\ sample.duration = DurationOf(file.ranges[r]) /\ sample.duration \in Nat
      /\ stream.config \in Configs /\ file.private \in Seq(Nat)
      /\ k = decrypt.pos /\ k \in 1 .. Len(m.samples) /\ k \in Nat
  BY Zenon DEF FrameIs, SampleIs
<1>2. PICK d \in Nat : d = DurationOf(file.ranges[r])
  BY Zenon, <1>1
<1>3. PICK fs : fs = FramesOfMoof(file, r, m, d)
  OBVIOUS
<1>4. fs \in Seq(FrameType) /\ Len(fs) = Len(m.samples) /\ fs[k] = FrameOf(file, r, m, k, d)
  <2>1. PICK f : f = file
    OBVIOUS
  <2>2. f.private \in Seq(Int) /\ IsMoof(f.media, m)
    BY Zenon, <1>1, <2>1, FileProperties
  <2>3. /\ FramesOfMoof(f, r, m, d) \in Seq(FrameType)
        /\ Len(FramesOfMoof(f, r, m, d)) = Len(m.samples)
        /\ \A i \in 1 .. Len(m.samples) : FramesOfMoof(f, r, m, d)[i] = FrameOf(f, r, m, i, d)
    BY SMTT(20), <1>1, <1>2, <2>2, FramesOfMoofProperties
  <2>4. QED
    BY Zenon, <1>1, <1>3, <2>1, <2>3
<1>5. FramesOf(file, r) = fs
  BY Zenon, <1>1, <1>2, <1>3 DEF FramesOf
<1>6. Extends(e, b, fs)
  BY Zenon, <1>1, <1>5, NextRange
<1>7. /\ Len(b) \in Nat /\ Len(fs) \in Nat /\ Len(e) = Len(b) + Len(fs) /\ e \in Seq(FrameType)
      /\ \A i \in 1 .. Len(fs) : e[Len(b) + i] = fs[i]
  BY LenProperties, <1>6 DEF Extends
<1>8. Len(inputs) = Len(b) + (k - 1) /\ globalTimestamp = TimeTo(e, Len(inputs))
  <2>1. Checked /\ phase \in {"convert", "decrypt"} /\ phase \in {"parse", "convert", "decrypt"}
    BY DecryptIsChecked
  <2>2. QED
    BY Zenon, <1>1, <2>1 DEF IInv, CountOK
<1>9. n = Len(b) + k /\ n - 1 = Len(inputs) /\ n \in 1 .. Len(e)
  <2>1. Len(fs) = Len(m.samples) /\ Len(inputs) = Len(b) + (k - 1)
    BY Zenon, <1>4, <1>8
  <2>2. PICK nb \in Nat : nb = Len(b)
    BY <1>7
  <2>3. PICK nm \in Nat : nm = Len(fs)
    BY <1>7
  <2>4. k \in 1 .. nm /\ Len(e) = nb + nm
    BY Zenon, <1>1, <1>7, <2>1, <2>2, <2>3
  <2>5. n = (nb + (k - 1)) + 1 /\ Len(inputs) = nb + (k - 1)
    BY Zenon, <2>1, <2>2
  <2>6. n = nb + k /\ n - 1 = Len(inputs) /\ n \in 1 .. nb + nm
    <3>1. ASSUME NEW a \in Nat, NEW c \in Nat, NEW j \in 1 .. c, NEW y, y = (a + (j - 1)) + 1
          PROVE  y = a + j /\ y - 1 = a + (j - 1) /\ y \in 1 .. a + c
      BY <3>1
    <3>2. n = nb + k /\ n - 1 = nb + (k - 1) /\ n \in 1 .. nb + nm
      BY Zenon, <2>4, <2>5, <3>1
    <3>3. QED
      BY Zenon, <2>5, <3>2
  <2>7. QED
    BY Zenon, <2>2, <2>4, <2>6
<1>10. e[n] = FrameOf(file, r, m, k, d)
  BY Zenon, <1>1, <1>4, <1>7, <1>9
<1>11. Drop(x.data, e[n].skip) = e[n].data
  <2>1. PICK f : f = file
    OBVIOUS
  <2>2. PICK c \in Configs : c = stream.config
    BY Zenon, <1>1
  <2>3. f.private \in Seq(Nat) /\ IsMoof(f.media, m)
    BY Zenon, <1>1, <2>1
  <2>4. Drop(DataOf(f, c, r, m, k), FrameOf(f, r, m, k, d).skip) = FrameOf(f, r, m, k, d).data
    BY SMTT(20), <1>1, <2>3, InputOfFrame
  <2>5. x.data = DataOf(f, c, r, m, k)
    BY Zenon, <2>1, <2>2 DEF IsHanded
  <2>6. QED
    BY Zenon, <1>10, <2>1, <2>4, <2>5
<1>12. x.timestamp = TimeTo(e, n - 1)
  BY Zenon, <1>8, <1>9 DEF IsHanded
<1>13. IsInput(x, e, n)
  BY Zenon, <1>9, <1>11, <1>12 DEF IsInput
<1>14. e[n].duration = d
  BY <1>10 DEF FrameOf
<1>15. TimeTo(e, n) = TimeTo(e, n - 1) + e[n].duration
  BY Zenon, <1>7, <1>9, TimeProperties
<1>16. globalTimestamp' = globalTimestamp + sample.duration /\ globalTimestamp \in Nat
  BY DEF DecryptFrame, IInv, TypeOK
<1>17. globalTimestamp' = TimeTo(e, n) /\ globalTimestamp' \in Nat
  <2>1. PICK g \in Nat : g = globalTimestamp
    BY <1>16
  <2>2. TimeTo(e, n) = g + d /\ globalTimestamp' = g + d
    BY Zenon, <1>1, <1>2, <1>8, <1>9, <1>14, <1>15, <1>16, <2>1
  <2>3. g + d \in Nat
    OBVIOUS
  <2>4. QED
    BY Zenon, <2>2, <2>3
<1>18. QED
  BY <1>4, <1>7, <1>9, <1>13, <1>17 DEF IsExpected

\* What has been appended to a sequence is its last element.
LEMMA AppendLast ==
  ASSUME NEW S, NEW s \in Seq(S), NEW x \in S, NEW t, t = Append(s, x)
  PROVE  t \in Seq(S) /\ Len(t) = Len(s) + 1 /\ t[Len(t)] = x /\ t # <<>>
OBVIOUS

\* One more frame, however it ends.
Handed(e, b, r, m, k) ==
  /\ inputs' \in Seq(InputType) /\ inputs' # <<>>
  /\ Len(inputs') = Len(b) + k /\ Len(e) = Len(b) + Len(m.samples) /\ Len(b) \in Nat
  /\ IsInput(inputs'[Len(inputs')], e, Len(inputs'))
  /\ TellsCipher(inputs'[Len(inputs')].subsamples, inputs'[Len(inputs')].data)
  /\ globalTimestamp' = TimeTo(e, Len(inputs')) /\ globalTimestamp' \in Nat
  /\ subsampleBuffer' \in Seq(Nat \X Nat)
  /\ FrameData \in Seq(Int)

\* The frame handed to the CDM is cut at the offset and is the next one expected.
LEMMA FrameSteps ==
  ASSUME IInv, DecryptFrame,
         NEW r, r = sample.range, NEW m, m = MoofOf(file.ranges[r]),
         NEW ps, ps = PiecesOf(file.media, stream.config, r, m), NEW k, k = decrypt.pos,
         NEW e, e = ExpectedTo(file, r), NEW b, b = ExpectedTo(file, r - 1)
  PROVE  FrameIs(r, m, ps, k) /\ Handed(e, b, r, m, k)
<1>1. phase = "decrypt" /\ TypeOK /\ inputs \in Seq(InputType)
  BY DEF DecryptFrame, IInv, TypeOK
<1>2. FrameIs(r, m, ps, k)
  BY <1>1, FrameIsCut
<1>3. PICK x : x = [data |-> FrameData, timestamp |-> globalTimestamp,
                    subsamples |-> SubSeq(subsampleBuffer', 1, Len(Entries))]
  BY Zenon
<1>4. IsHanded(r, m, k, x)
  BY <1>1, <1>2, <1>3, FrameIsHanded
<1>5. PICK n : n = Len(inputs) + 1
  OBVIOUS
<1>6. IsExpected(r, m, k, x, e, b, n)
  BY <1>1, <1>2, <1>4, <1>5, FrameIsExpected
<1>7. PICK ins : ins = inputs'
  OBVIOUS
<1>8. ins \in Seq(InputType) /\ Len(ins) = n /\ ins[Len(ins)] = x /\ ins # <<>>
  <2>1. ins = Append(inputs, x) /\ x \in InputType
    BY Zenon, <1>4, <1>7 DEF IsHanded
  <2>2. QED
    BY <1>1, <1>5, <2>1, AppendLast
<1>9. QED
  BY Zenon, <1>2, <1>4, <1>6, <1>7, <1>8 DEF IsHanded, IsExpected, Handed

\* An error of the CDM keeps the invariant.
LEMMA CdmFailsIInv == ASSUME IInv, CdmFails PROVE IInv'
<1>1. /\ DecryptFrame /\ phase = "decrypt" /\ cdmFailed' = TRUE /\ phase' \in Stopped
      /\ UNCHANGED <<file, stream, reader, found, sample, decrypt, output>>
  BY DEF CdmFails, DecryptFrame, Stopped
<1>2. PICK r : r = sample.range
  OBVIOUS
<1>3. PICK m : m = MoofOf(file.ranges[r])
  OBVIOUS
<1>4. PICK ps : ps = PiecesOf(file.media, stream.config, r, m)
  OBVIOUS
<1>5. PICK k : k = decrypt.pos
  OBVIOUS
<1>6. PICK e : e = ExpectedTo(file, r)
  OBVIOUS
<1>7. PICK b : b = ExpectedTo(file, r - 1)
  OBVIOUS
<1>8. FrameIs(r, m, ps, k) /\ Handed(e, b, r, m, k)
  BY <1>1, <1>2, <1>3, <1>4, <1>5, <1>6, <1>7, FrameSteps
<1>9. TypeOK'
  BY <1>1, <1>8 DEF IInv, TypeOK, Handed, Stopped
<1>10. PlaceOK'
  BY <1>1 DEF IInv, PlaceOK, Stopped
<1>11. StreamOK'
  <2>1. Checked
    BY <1>1, DecryptIsChecked
  <2>2. QED
    BY <1>1, <2>1 DEF IInv, StreamOK, Stopped, Checked
<1>12. FoundOK' /\ SampleOK' /\ DecryptOK' /\ CountOK' /\ OutputOK'
  BY <1>1 DEF FoundOK, SampleOK, DecryptOK, CountOK, OutputOK, Stopped
<1>13. InputsOK'
  BY Zenon, <1>1, <1>2, <1>6, <1>8 DEF InputsOK, Handed
<1>14. QED
  BY <1>9, <1>10, <1>11, <1>12, <1>13 DEF IInv

\* Nothing appended is nothing changed.
LEMMA ConcatEmpty ==
  ASSUME NEW S, NEW s \in Seq(S)
  PROVE  s \o <<>> = s /\ <<>> \o s = s
OBVIOUS

\* A whole ADTS frame behind whole ADTS frames makes whole ADTS frames.
LEMMA AdtsGrows ==
  ASSUME NEW d, IsAdts(d), NEW f \in Seq(Int), IsFrame(f)
  PROVE  IsAdts(d \o f)
<1>1. PICK frames \in Seq(Seq(Int)) : /\ d = FlattenSeq(frames)
                                      /\ \A k \in 1 .. Len(frames) : IsFrame(frames[k])
  BY DEF IsAdts
<1>2. PICK n \in Nat : n = Len(frames)
  BY LenProperties
<1>3. PICK tt : tt = Append(frames, f)
  BY Zenon
<1>4. /\ tt \in Seq(Seq(Int)) /\ Len(tt) = n + 1 /\ tt[n + 1] = f
      /\ \A k \in 1 .. n : tt[k] = frames[k]
  BY <1>2, <1>3
<1>5. FlattenSeq(tt) = FlattenSeq(frames) \o tt[Len(frames) + 1]
  BY Zenon, <1>2, <1>4, FlattenLast
<1>6. FlattenSeq(tt) = d \o f
  BY Zenon, <1>1, <1>2, <1>4, <1>5
<1>7. \A k \in 1 .. Len(tt) : IsFrame(tt[k])
  <2>1. TAKE k \in 1 .. Len(tt)
  <2>2. k \in 1 .. n \/ k = n + 1
    BY <1>4
  <2>3. QED
    BY Zenon, <1>1, <1>2, <1>4, <2>2
<1>8. QED
  BY Zenon, <1>4, <1>6, <1>7 DEF IsAdts

\* What the audio thread has collected when the CDM has taken a frame.
LEMMA CollectedIs ==
  ASSUME IInv, phase = "decrypt", NEW r, NEW m, NEW ps, NEW k, FrameIs(r, m, ps, k),
         FrameData \in Seq(Int), NEW status, NEW x,
         x = decrypt.decrypted \o IF ~Video /\ status = "kSuccess" THEN FrameData ELSE <<>>
  PROVE  x \in Seq(Int) /\ (~sample.subs => IsAdts(x))
<1>1. PICK d \in Seq(Int) : d = decrypt.decrypted
  BY DEF IInv, TypeOK
<1>2. ~sample.subs => IsAdts(d)
  BY Zenon, <1>1 DEF IInv, DecryptOK
<1>3. CASE Video \/ status # "kSuccess"
  <2>1. x = d \o <<>>
    BY Zenon, <1>1, <1>3
  <2>2. QED
    BY Zenon, <1>2, <2>1, ConcatEmpty
<1>4. CASE ~Video /\ status = "kSuccess"
  <2>1. PICK f \in Seq(Int) : f = FrameData
    OBVIOUS
  <2>2. x = d \o f
    BY Zenon, <1>1, <1>4, <2>1
  <2>3. ASSUME ~sample.subs PROVE IsFrame(f)
    <3>1. /\ SampleIs(r, m) /\ ps = PiecesOf(file.media, stream.config, r, m)
          /\ k \in 1 .. Len(m.samples)
          /\ FrameData = DataOf(file, stream.config, r, m, k)
      BY Zenon DEF FrameIs
    <3>2. m.full /\ IsMoof(file.media, m) /\ stream.config \in Configs /\ r \in Nat
      BY Zenon, <2>3, <3>1 DEF SampleIs
    <3>3. PICK media : media = file.media
      OBVIOUS
    <3>4. PICK c \in Configs : c = stream.config
      BY <3>2
    <3>5. ArePieces(media, c, r, m, ps)
      <4>1. IsMoof(media, m) /\ ps = PiecesOf(media, c, r, m)
        BY Zenon, <3>1, <3>2, <3>3, <3>4
      <4>2. QED
        BY <3>2, <4>1, PiecesProperties
    <3>6. ps[k] = PieceOf(media, c, r, m, k) /\ IsFrame(ps[k]) /\ ps \in Seq(Seq(Int)) /\ Len(ps) = Len(m.samples)
      BY Zenon, <3>1, <3>2, <3>5 DEF ArePieces
    <3>7. ps[k] \in Seq(Int)
      BY <3>1, <3>6
    <3>8. ExtraOf(file, k) = <<>>
      BY Zenon, <1>4 DEF ExtraOf, Video
    <3>9. f = <<>> \o ps[k]
      BY Zenon, <2>1, <3>1, <3>3, <3>4, <3>6, <3>8 DEF DataOf
    <3>10. QED
      BY Zenon, <3>6, <3>7, <3>9, ConcatEmpty
  <2>4. d \o f \in Seq(Int)
    OBVIOUS
  <2>5. QED
    BY Zenon, <1>2, <2>2, <2>3, <2>4, AdtsGrows
<1>5. QED
  BY <1>3, <1>4

\* The CDM has taken a frame, and x has been collected so far.
IsTaken(x) ==
  /\ DecryptFrame /\ cdmFailed' = cdmFailed
  /\ x \in Seq(Int) /\ (~sample.subs => IsAdts(x))

\* A frame that is not the last of its sample keeps the invariant.
LEMMA NextFrameIInv ==
  ASSUME IInv, NEW x, IsTaken(x), decrypt.pos < Len(sample.table),
         decrypt' = [pos |-> decrypt.pos + 1, offset |-> decrypt.offset + FrameSize, decrypted |-> x],
         UNCHANGED <<phase, output>>
  PROVE  IInv'
<1>1. /\ DecryptFrame /\ phase = "decrypt" /\ phase' = "decrypt" /\ Checked
      /\ UNCHANGED <<file, stream, reader, found, sample, output, cdmFailed>>
      /\ x \in Seq(Int)
  BY DecryptIsChecked DEF IsTaken, DecryptFrame
<1>2. PICK r : r = sample.range
  OBVIOUS
<1>3. PICK m : m = MoofOf(file.ranges[r])
  OBVIOUS
<1>4. PICK ps : ps = PiecesOf(file.media, stream.config, r, m)
  OBVIOUS
<1>5. PICK k : k = decrypt.pos
  OBVIOUS
<1>6. PICK e : e = ExpectedTo(file, r)
  OBVIOUS
<1>7. PICK b : b = ExpectedTo(file, r - 1)
  OBVIOUS
<1>8. FrameIs(r, m, ps, k) /\ Handed(e, b, r, m, k)
  BY <1>1, <1>2, <1>3, <1>4, <1>5, <1>6, <1>7, FrameSteps
<1>9. /\ SampleIs(r, m) /\ k \in 1 .. Len(m.samples) /\ k \in Nat /\ FrameSize = Len(ps[k])
      /\ sample.table = m.samples
  BY Zenon, <1>8 DEF FrameIs, SampleIs
<1>10. /\ ps = PiecesNow
       /\ ps \in Seq(Seq(Int)) /\ Lens(ps) \in Seq(Nat) /\ FlattenSeq(ps) \in Seq(Int)
       /\ Len(ps) = Len(m.samples) /\ Len(ps) \in Nat \ {0} /\ Len(Lens(ps)) = Len(ps)
  BY <1>4, <1>9, PiecesAre
<1>11. PICK o : o = decrypt.offset + FrameSize
  OBVIOUS
<1>12. o = Offset(Lens(ps), k) /\ o \in Nat
  <2>1. decrypt.offset = Offset(Lens(ps), k - 1)
    BY Zenon, <1>1, <1>5, <1>10 DEF IInv, DecryptOK
  <2>2. Lens(ps)[k] = Len(ps[k])
    BY Zenon, <1>9, <1>10, FlattenProperties
  <2>3. k \in 1 .. Len(Lens(ps)) /\ k \in 0 .. Len(Lens(ps))
    BY <1>9, <1>10
  <2>4. Offset(Lens(ps), k) = Offset(Lens(ps), k - 1) + Lens(ps)[k] /\ Offset(Lens(ps), k) \in Nat
    BY Zenon, <1>10, <2>3, OffsetStep
  <2>5. QED
    BY Zenon, <1>9, <1>11, <2>1, <2>2, <2>4
<1>13. decrypt' = [pos |-> k + 1, offset |-> o, decrypted |-> x]
  BY Zenon, <1>5, <1>11
<1>14. decrypt'.pos = k + 1 /\ decrypt'.offset = o /\ decrypt'.decrypted = x
  BY <1>13
<1>15. TypeOK'
  <2>1. decrypt' \in [pos : Nat \ {0}, offset : Nat, decrypted : Seq(Int)]
    <3>1. k + 1 \in Nat \ {0}
      BY <1>9
    <3>2. QED
      BY <1>1, <1>12, <1>13, <3>1
  <2>2. QED
    BY <1>1, <1>8, <2>1 DEF IInv, TypeOK, Handed
<1>16. PlaceOK'
  BY <1>1 DEF IInv, PlaceOK
<1>17. StreamOK'
  BY <1>1 DEF IInv, StreamOK, Checked
<1>18. FoundOK' /\ OutputOK'
  BY <1>1 DEF FoundOK, OutputOK
<1>19. PiecesNow' = PiecesNow
  BY Zenon, <1>1 DEF PiecesNow
<1>20. SampleOK'
  BY Zenon, <1>1, <1>19 DEF IInv, SampleOK, Checked
<1>21. DecryptOK'
  <2>1. k + 1 \in 1 .. Len(sample'.table)
    <3>1. PICK n \in Nat : n = Len(m.samples)
      BY <1>10
    <3>2. k < n /\ sample'.table = m.samples
      BY Zenon, <1>1, <1>5, <1>9, <3>1
    <3>3. k + 1 \in 1 .. n
      BY <1>9, <3>2
    <3>4. QED
      BY Zenon, <3>1, <3>2, <3>3
  <2>2. (k + 1) - 1 = k
    BY <1>9
  <2>3. ~sample'.subs => IsAdts(x)
    BY <1>1 DEF IsTaken
  <2>4. QED
    BY Zenon, <1>10, <1>12, <1>14, <1>19, <2>1, <2>2, <2>3 DEF DecryptOK
<1>22. CountOK'
  <2>1. (k + 1) - 1 = k /\ "decrypt" # "parse"
    BY <1>9
  <2>2. Len(inputs') = Len(b) + ((k + 1) - 1) /\ globalTimestamp' = TimeTo(e, Len(inputs'))
    BY Zenon, <1>8, <2>1 DEF Handed
  <2>3. QED
    BY Zenon, <1>1, <1>2, <1>6, <1>7, <1>14, <2>1, <2>2 DEF CountOK
<1>23. InputsOK'
  BY Zenon, <1>1, <1>2, <1>6, <1>8 DEF InputsOK, Handed
<1>24. QED
  BY <1>15, <1>16, <1>17, <1>18, <1>20, <1>21, <1>22, <1>23 DEF IInv

\* The last frame of a sample keeps the invariant.
LEMMA LastFrameIInv ==
  ASSUME IInv, NEW x, IsTaken(x), ~(decrypt.pos < Len(sample.table)), phase' = "parse",
         decrypt' = [pos |-> 1, offset |-> 0, decrypted |-> <<>>],
         output' = IF Video THEN output ELSE Append(output, x)
  PROVE  IInv'
<1>1. /\ DecryptFrame /\ phase = "decrypt" /\ phase' = "parse" /\ Checked /\ file \in Files
      /\ UNCHANGED <<file, stream, reader, found, sample, cdmFailed>>
      /\ x \in Seq(Int)
  BY DecryptIsChecked DEF IsTaken, DecryptFrame, IInv, TypeOK
<1>2. PICK r : r = sample.range
  OBVIOUS
<1>3. PICK m : m = MoofOf(file.ranges[r])
  OBVIOUS
<1>4. PICK ps : ps = PiecesOf(file.media, stream.config, r, m)
  OBVIOUS
<1>5. PICK k : k = decrypt.pos
  OBVIOUS
<1>6. PICK e : e = ExpectedTo(file, r)
  OBVIOUS
<1>7. PICK b : b = ExpectedTo(file, r - 1)
  OBVIOUS
<1>8. FrameIs(r, m, ps, k) /\ Handed(e, b, r, m, k)
  BY <1>1, <1>2, <1>3, <1>4, <1>5, <1>6, <1>7, FrameSteps
<1>9. /\ SampleIs(r, m) /\ k \in 1 .. Len(m.samples) /\ k \in Nat
      /\ sample.table = m.samples
  BY Zenon, <1>8 DEF FrameIs, SampleIs
<1>10. Len(m.samples) \in Nat \ {0} /\ Len(m.samples) = k
  <2>1. Len(ps) = Len(m.samples) /\ Len(ps) \in Nat \ {0}
    BY <1>4, <1>9, PiecesAre
  <2>2. QED
    BY <1>5, <1>9, <2>1
<1>11. Len(inputs') = Len(e)
  BY Zenon, <1>8, <1>10 DEF Handed
<1>12. output \in Seq(Seq(Int)) /\ (Video => output = <<>>)
  BY DEF IInv, TypeOK, StreamOK, Video
<1>13. output' \in Seq(Seq(Int)) /\ (output' # <<>> /\ ~sample.subs => IsAdts(output'[Len(output')]))
  <2>1. CASE Video
    <3>1. output' = output
      BY Zenon, <2>1
    <3>2. QED
      BY Zenon, <1>12, <2>1, <3>1
  <2>2. CASE ~Video
    <3>1. PICK out : out = output'
      OBVIOUS
    <3>2. out = Append(output, x)
      BY Zenon, <2>2, <3>1
    <3>3. out \in Seq(Seq(Int)) /\ out[Len(out)] = x
      BY <1>1, <1>12, <3>2, AppendLast
    <3>4. ~sample.subs => IsAdts(x)
      BY DEF IsTaken
    <3>5. QED
      BY Zenon, <3>1, <3>3, <3>4
  <2>3. QED
    BY <2>1, <2>2
<1>14. decrypt' = Fresh /\ decrypt' \in [pos : Nat \ {0}, offset : Nat, decrypted : Seq(Int)]
  BY DEF Fresh
<1>15. TypeOK'
  BY <1>1, <1>8, <1>13, <1>14 DEF IInv, TypeOK, Handed
<1>16. reader.atom = 1 /\ found = NothingFound /\ reader.range \in 1 .. Len(file.ranges) + 1
       /\ sample.range = reader.range - 1 /\ sample.range \in 0 .. Len(file.ranges)
  BY <1>1 DEF IInv, PlaceOK
<1>17. PlaceOK'
  <2>1. Len(file.ranges) \in Nat
    BY <1>1, FileProperties
  <2>2. reader.range <= Len(file.ranges) => 1 \in 1 .. Len(file.ranges[reader.range])
    <3>1. ASSUME reader.range <= Len(file.ranges) PROVE reader.range \in 1 .. Len(file.ranges)
      BY <1>16, <2>1, <3>1
    <3>2. QED
      BY Zenon, <1>1, <3>1, RangeBegins
  <2>3. QED
    BY <1>1, <1>14, <1>16, <2>1, <2>2 DEF PlaceOK
<1>18. StreamOK'
  BY <1>1, <1>12 DEF IInv, StreamOK, Checked, Video
<1>19. FoundOK'
  <2>1. NothingYet(file.ranges[reader.range], 0, NothingFound)
    BY DEF NothingYet, NothingFound
  <2>2. 1 - 1 = 0
    OBVIOUS
  <2>3. reader' = reader /\ found' = NothingFound /\ file' = file
    BY <1>1, <1>16
  <2>4. QED
    BY Zenon, <1>16, <2>1, <2>2, <2>3 DEF FoundOK, FoundSo
<1>20. SampleOK' /\ DecryptOK'
  BY <1>1 DEF SampleOK, DecryptOK
<1>21. CountOK'
  <2>1. "parse" \notin {"convert", "decrypt"}
    OBVIOUS
  <2>2. QED
    BY Zenon, <1>1, <1>2, <1>6, <1>8, <1>11, <2>1 DEF CountOK, Handed
<1>22. InputsOK'
  BY Zenon, <1>1, <1>2, <1>6, <1>8 DEF InputsOK, Handed
<1>23. OutputOK'
  BY <1>1, <1>13 DEF OutputOK
<1>24. QED
  BY <1>15, <1>17, <1>18, <1>19, <1>20, <1>21, <1>22, <1>23 DEF IInv

\* A frame that the CDM takes keeps the invariant.
LEMMA CdmTakesIInv == ASSUME IInv, CdmTakes PROVE IInv'
<1>1. DecryptFrame /\ cdmFailed' = cdmFailed /\ phase = "decrypt"
  BY DEF CdmTakes, DecryptFrame
<1>2. PICK status \in {"kSuccess", "kNeedMoreData"} :
        LET decrypted == decrypt.decrypted
                           \o IF ~Video /\ status = "kSuccess" THEN FrameData ELSE <<>>
        IN IF decrypt.pos < Len(sample.table)
           THEN /\ decrypt' = [pos |-> decrypt.pos + 1, offset |-> decrypt.offset + FrameSize, decrypted |-> decrypted]
                /\ UNCHANGED <<phase, output>>
           ELSE /\ decrypt' = [pos |-> 1, offset |-> 0, decrypted |-> <<>>]
                /\ output' = IF Video THEN output ELSE Append(output, decrypted)
                /\ phase' = "parse"
  BY Zenon DEF CdmTakes
<1>3. PICK x : x = decrypt.decrypted \o IF ~Video /\ status = "kSuccess" THEN FrameData ELSE <<>>
  BY Zenon
<1>4. IsTaken(x)
  <2>1. PICK r : r = sample.range
    OBVIOUS
  <2>2. PICK m : m = MoofOf(file.ranges[r])
    OBVIOUS
  <2>3. PICK ps : ps = PiecesOf(file.media, stream.config, r, m)
    OBVIOUS
  <2>4. PICK k : k = decrypt.pos
    OBVIOUS
  <2>5. PICK e : e = ExpectedTo(file, r)
    OBVIOUS
  <2>6. PICK b : b = ExpectedTo(file, r - 1)
    OBVIOUS
  <2>7. FrameIs(r, m, ps, k) /\ Handed(e, b, r, m, k)
    BY <1>1, <2>1, <2>2, <2>3, <2>4, <2>5, <2>6, FrameSteps
  <2>8. FrameData \in Seq(Int)
    BY Zenon, <2>7 DEF Handed
  <2>9. x \in Seq(Int) /\ (~sample.subs => IsAdts(x))
    BY Zenon, <1>1, <1>3, <2>7, <2>8, CollectedIs
  <2>10. QED
    BY Zenon, <1>1, <2>9 DEF IsTaken
<1>5. CASE decrypt.pos < Len(sample.table)
  <2>1. /\ decrypt' = [pos |-> decrypt.pos + 1, offset |-> decrypt.offset + FrameSize, decrypted |-> x]
        /\ UNCHANGED <<phase, output>>
    BY Zenon, <1>2, <1>3, <1>5
  <2>2. QED
    BY <1>4, <1>5, <2>1, NextFrameIInv
<1>6. CASE ~(decrypt.pos < Len(sample.table))
  <2>1. /\ decrypt' = [pos |-> 1, offset |-> 0, decrypted |-> <<>>] /\ phase' = "parse"
        /\ output' = IF Video THEN output ELSE Append(output, x)
    BY Zenon, <1>2, <1>3, <1>6
  <2>2. QED
    BY <1>4, <1>6, <2>1, LastFrameIInv
<1>7. QED
  BY <1>5, <1>6

\* Every step keeps the invariant.
LEMMA NextIInv == IInv /\ [Next]_vars => IInv'
<1> SUFFICES ASSUME IInv, [Next]_vars PROVE IInv'
  OBVIOUS
<1>1. CASE InitStream
  BY <1>1, InitStreamIInv
<1>2. CASE ParseMoof
  BY <1>2, ParseMoofIInv
<1>3. CASE ParseMdat
  BY <1>3, ParseMdatIInv
<1>4. CASE MdatWaits
  BY <1>4, MdatWaitsIInv
<1>5. CASE OtherAtom
  BY <1>5, OtherAtomIInv
<1>6. CASE StreamEnds
  BY <1>6, StreamEndsIInv
<1>7. CASE ConvertVideo
  BY <1>7, ConvertVideoIInv
<1>8. CASE ConvertAudio
  BY <1>8, ConvertAudioIInv
<1>9. CASE CdmTakes
  BY <1>9, CdmTakesIInv
<1>10. CASE CdmFails
  BY <1>10, CdmFailsIInv
<1>11. CASE UNCHANGED vars
  BY <1>11, StutterIInv
<1>12. QED
  BY <1>1, <1>2, <1>3, <1>4, <1>5, <1>6, <1>7, <1>8, <1>9, <1>10, <1>11 DEF Next

\* The inductive invariant holds in every state of every behaviour, for all Files.
THEOREM Inductive == Spec => []IInv
<1>1. Init => IInv
  BY InitIInv
<1>2. IInv /\ [Next]_vars => IInv'
  BY NextIInv
<1>3. QED
  BY <1>1, <1>2, PTL DEF Spec

-----------------------------------------------------------------------------
(* What the runs check, for all Files                                      *)

\* Every variable keeps its type: no step of the parsers, demuxers and decrypt threads
\* makes a sample, a table or an input buffer of anything else.
THEOREM TypeCorrect == Spec => []TypeOK
<1>1. IInv => TypeOK
  BY DEF IInv
<1>2. QED
  BY <1>1, Inductive, PTL

\* The input buffers are the frames of the file, in order, none missing or cut at the
\* wrong place, each at its time (ParseMoofMdat(), DecryptVideoThread,
\* WidevineDecryptorThread).
THEOREM InputHolds == Spec => []InputIsTheFile
<1>1. IInv => InputIsTheFile
  BY InputsAreTheFile DEF IInv
<1>2. QED
  BY <1>1, Inductive, PTL

\* The subsamples of an input buffer add up to its size and tell which of its bytes are
\* encrypted (FillCdmInBuffer(), and the update for extra data).
THEOREM SubsamplesHold == Spec => []SubsamplesMatchTheData
<1>1. IInv => SubsamplesMatchTheData
  BY SubsamplesAreRight DEF IInv
<1>2. QED
  BY <1>1, Inductive, PTL

\* A decoder that follows the lengths in the ADTS headers comes out at the end of every
\* decrypted audio sample (BuildAdtsHeader(), WidevineDecryptorThread).
THEOREM AdtsHolds == Spec => []AdtsFramesAreWhole
<1>1. IInv => AdtsFramesAreWhole
  BY FramesAreWhole DEF IInv
<1>2. QED
  BY <1>1, Inductive, PTL

==============================================================================
