------------------------- MODULE NativeEngineProofs -------------------------
(***************************************************************************)
(* Safety of NativeEngine for every number of hooks, sessions, contents,   *)
(* sections, hashes and intents, every limit and budget, and every outcome *)
(* of the strategies.                                                      *)
(*                                                                         *)
(* The inductive invariant IInv puts four arguments together.  The breaker *)
(* (BreakerOK): a circuit carries the streak of its strategy; a run of the *)
(* compressor preserves that section by section, leaves what is cooling    *)
(* down alone, and is the healthy run unless it threw or met an open       *)
(* circuit (RunCompressorOK).  The decisions (CacheSound, HooksOK): only   *)
(* healthy runs are cached or carried across the await of put.  The        *)
(* accounts (CacheOK): scans, cuts, appends and concatenations of the      *)
(* entries change their sum by what they add or drop (PickedSum, CutSum,   *)
(* AppendSum, ConcatSum).  The rows (RowsOK): a text bears the hash        *)
(* allocated to its row, which no other original holds                     *)
(* (AllocatedHashUsable, a pigeonhole argument).                           *)
(*                                                                         *)
(* What the recursive functions of the model compute is derived by         *)
(* induction on sets of naturals (Induction).                              *)
(***************************************************************************)
EXTENDS NativeEngine, FiniteSetTheorems, WellFoundedInduction, TLAPS

-----------------------------------------------------------------------------
(* A nonempty set of naturals has a least member.                          *)
LEMMA LeastNat ==
  ASSUME NEW T, T \subseteq Nat, T # {}
  PROVE  \E x \in T : \A y \in T : x <= y
<1> DEFINE R == OpToRel(<, Nat)
<1>1. PICK x \in T : \A y \in T : ~ (<<y, x>> \in R)
  BY NatLessThanWellFounded, WFMin
<1>2. \A y \in T : ~(y < x)
  <2> TAKE y \in T
  <2>1. y \in Nat /\ x \in Nat
    OBVIOUS
  <2>2. y < x => <<y, x>> \in R
    BY <2>1 DEF OpToRel
  <2> QED BY <1>1, <2>2
<1> QED BY <1>2

(* Induction, for a set of naturals: the theorem of the library takes an   *)
(* operator, which the provers cannot instantiate.                         *)
LEMMA Induction ==
  ASSUME NEW T, T \subseteq Nat, 0 \in T, \A n \in T : n + 1 \in T
  PROVE  T = Nat
<1>1. SUFFICES ASSUME Nat \ T # {} PROVE FALSE
  OBVIOUS
<1>2. PICK n \in Nat \ T : \A y \in Nat \ T : n <= y
  BY <1>1, LeastNat
<1>3. n # 0 /\ n - 1 \in Nat /\ n - 1 < n /\ n - 1 + 1 = n
  BY <1>2
<1>4. n - 1 \in T
  BY <1>2, <1>3
<1> QED BY <1>2, <1>3, <1>4

(* The size of an interval.                                                *)
LEMMA IntervalSize ==
  ASSUME NEW n \in Nat
  PROVE  IsFiniteSet(1 .. n) /\ Cardinality(1 .. n) = n
<1>1. 1 \in Int /\ n \in Int
  OBVIOUS
<1>2. IsFiniteSet(1 .. n) /\ Cardinality(1 .. n) = IF 1 > n THEN 0 ELSE n - 1 + 1
  BY <1>1, FS_Interval
<1> QED BY <1>2
-----------------------------------------------------------------------------
(* What Picked returns.  Place(i) is how many of the positions come no     *)
(* later than i: the places are the positions of the result.               *)
Place(I, i) == Cardinality({j \in I : j <= i})

(* From one position to the next the place grows by one if it is picked.   *)
LEMMA PlaceSteps ==
  ASSUME NEW n \in Nat, NEW I \in SUBSET (1 .. n)
  PROVE  /\ Place(I, 0) = 0 /\ Place(I, n) = Cardinality(I)
         /\ \A i \in Nat : Place(I, i) \in Nat
         /\ \A i \in Nat : /\ i + 1 \in I => Place(I, i + 1) = Place(I, i) + 1
                           /\ i + 1 \notin I => Place(I, i + 1) = Place(I, i)
<1>0. \A j \in I : j \in Nat /\ 1 <= j /\ j <= n
  OBVIOUS
<1>1. IsFiniteSet(I)
  BY IntervalSize, FS_Subset
<1>2. \A i \in Nat : {j \in I : j <= i} \in SUBSET I
  OBVIOUS
<1>3. \A i \in Nat : IsFiniteSet({j \in I : j <= i})
  BY <1>1, <1>2, FS_Subset
<1>4. \A i \in Nat : Place(I, i) \in Nat
  BY <1>3, FS_CardinalityType DEF Place
<1>5. {j \in I : j <= 0} = {}
  <2>1. \A j \in I : ~(j <= 0)
    BY <1>0
  <2> QED BY <2>1
<1>6. {j \in I : j <= n} = I
  BY <1>0
<1>7. ASSUME NEW i \in Nat
      PROVE  /\ i + 1 \in I => Place(I, i + 1) = Place(I, i) + 1
             /\ i + 1 \notin I => Place(I, i + 1) = Place(I, i)
  <2> DEFINE S == {j \in I : j <= i}
  <2>1. CASE i + 1 \in I
    <3>0. \A j \in I : j <= i + 1 <=> j <= i \/ j = i + 1
      BY <1>0
    <3>1. {j \in I : j <= i + 1} = S \cup {i + 1}
      BY <2>1, <3>0
    <3>2. i + 1 \notin S
      OBVIOUS
    <3>3. IsFiniteSet(S)
      BY <1>3
    <3> HIDE DEF S
    <3>4. Cardinality(S \cup {i + 1}) = Cardinality(S) + 1
      BY <3>2, <3>3, FS_AddElement
    <3> QED BY <2>1, <3>1, <3>4 DEF Place, S
  <2>2. CASE i + 1 \notin I
    <3>0. \A j \in I : j <= i + 1 <=> j <= i
      BY <1>0, <2>2
    <3>1. {j \in I : j <= i + 1} = S
      BY <3>0
    <3> QED BY <2>2, <3>1 DEF Place
  <2> QED BY <2>1, <2>2
<1> QED BY <1>4, <1>5, <1>6, <1>7, FS_EmptySet DEF Place

(* A later picked position has a later place.                              *)
LEMMA PlaceGrows ==
  ASSUME NEW n \in Nat, NEW I \in SUBSET (1 .. n), NEW i \in I, NEW j \in I, i < j
  PROVE  Place(I, i) < Place(I, j)
<1> DEFINE T == {k \in Nat : Place(I, i) <= Place(I, i + k)}
<1>1. i \in Nat /\ j \in Nat /\ j - i - 1 \in Nat
  OBVIOUS
<1>2. \A m \in Nat : Place(I, m) \in Nat
  BY PlaceSteps
<1>3. 0 \in T
  BY <1>1, <1>2
<1>4. \A k \in T : k + 1 \in T
  <2> TAKE k \in T
  <2>1. i + k \in Nat /\ i + (k + 1) = (i + k) + 1
    BY <1>1
  <2>2. Place(I, (i + k) + 1) \in {Place(I, i + k), Place(I, i + k) + 1}
    BY <2>1, PlaceSteps
  <2>3. Place(I, i + k) \in Nat /\ Place(I, i) \in Nat
    BY <1>1, <1>2, <2>1
  <2> QED BY <2>1, <2>2, <2>3
<1>5. T = Nat
  <2> HIDE DEF T
  <2>1. T \subseteq Nat
    BY DEF T
  <2> QED BY <1>3, <1>4, <2>1, Induction
<1>6. Place(I, i) <= Place(I, i + (j - i - 1))
  BY <1>1, <1>5
<1>7. i + (j - i - 1) = j - 1 /\ j - 1 \in Nat /\ (j - 1) + 1 = j
  BY <1>1
<1>8. Place(I, j) = Place(I, j - 1) + 1
  <2>1. PICK m \in Nat : m = j - 1 /\ m + 1 = j
    BY <1>7
  <2>2. m + 1 \in I => Place(I, m + 1) = Place(I, m) + 1
    BY PlaceSteps
  <2> QED BY <2>1, <2>2
<1> QED BY <1>1, <1>2, <1>6, <1>7, <1>8

(* Every position of the result is the place of one picked position, and   *)
(* every picked position is at its place.                                  *)
LEMMA PickedElements ==
  ASSUME NEW s, NEW n \in Nat, NEW I \in SUBSET (1 .. n)
  PROVE  /\ Cardinality(I) \in 0 .. n
         /\ DOMAIN Picked(s, I) = 1 .. Cardinality(I)
         /\ \A k \in 1 .. Cardinality(I) : \E i \in I : Place(I, i) = k
         /\ \A i \in I : /\ Place(I, i) \in 1 .. Cardinality(I)
                         /\ Picked(s, I)[Place(I, i)] = s[i]
<1> DEFINE N == Cardinality(I)
           place == [i \in I |-> Place(I, i)]
<1>1. IsFiniteSet(I) /\ N \in Nat /\ N <= n
  <2>1. IsFiniteSet(1 .. n) /\ Cardinality(1 .. n) = n
    BY IntervalSize
  <2>2. IsFiniteSet(I) /\ N <= n
    BY <2>1, FS_Subset
  <2> QED BY <2>2, FS_CardinalityType
<1>2. \A i \in I : Place(I, i) \in 1 .. N
  <2> TAKE i \in I
  <2> DEFINE S == {j \in I : j <= i}
  <2>1. S \in SUBSET I /\ i \in S
    OBVIOUS
  <2> HIDE DEF S
  <2>2. IsFiniteSet(S) /\ Cardinality(S) <= Cardinality(I)
    BY <1>1, <2>1, FS_Subset
  <2>3. Cardinality(S) \in Nat /\ Cardinality(S) # 0
    BY <2>1, <2>2, FS_CardinalityType, FS_EmptySet
  <2>4. Place(I, i) = Cardinality(S)
    BY DEF Place, S
  <2> QED BY <1>1, <2>2, <2>3, <2>4
<1>3. \A i, j \in I : Place(I, i) = Place(I, j) => i = j
  <2> SUFFICES ASSUME NEW i \in I, NEW j \in I, Place(I, i) = Place(I, j), i # j PROVE FALSE
    OBVIOUS
  <2>1. i \in Nat /\ j \in Nat /\ (i < j \/ j < i)
    OBVIOUS
  <2>2. Place(I, i) < Place(I, j) \/ Place(I, j) < Place(I, i)
    BY <2>1, PlaceGrows
  <2> QED BY <1>2, <2>2
<1> HIDE DEF N
<1>4. place \in Injection(I, 1 .. N)
  BY <1>2, <1>3 DEF Injection, IsInjective
<1>5. place \in Surjection(I, 1 .. N)
  BY <1>1, <1>4, IntervalSize, FS_Injection DEF N
<1>6. \A k \in 1 .. N : \E i \in I : Place(I, i) = k
  BY <1>5 DEF Surjection
<1>7. ASSUME NEW i \in I PROVE Picked(s, I)[Place(I, i)] = s[i]
  <2>1. (CHOOSE j \in I : Place(I, j) = Place(I, i)) = i
    BY <1>3
  <2>2. Picked(s, I)[Place(I, i)] = s[CHOOSE j \in I : Place(I, j) = Place(I, i)]
    BY <1>2 DEF Picked, Place, N
  <2> QED BY <2>1, <2>2
<1>8. DOMAIN Picked(s, I) = 1 .. N
  BY DEF Picked, N
<1>9. N \in 0 .. n
  BY <1>1
<1> QED BY <1>2, <1>6, <1>7, <1>8, <1>9 DEF N

(* No place is beyond the number of picked positions.                      *)
LEMMA PlaceBound ==
  ASSUME NEW n \in Nat, NEW I \in SUBSET (1 .. n), NEW i \in Nat
  PROVE  Place(I, i) \in 0 .. Cardinality(I)
<1> DEFINE S == {j \in I : j <= i}
<1>1. S \in SUBSET I
  OBVIOUS
<1>2. IsFiniteSet(I)
  BY IntervalSize, FS_Subset
<1>3. Place(I, i) = Cardinality(S)
  BY DEF Place
<1> HIDE DEF S
<1>4. IsFiniteSet(S) /\ Cardinality(S) <= Cardinality(I)
  BY <1>1, <1>2, FS_Subset
<1>5. Cardinality(S) \in Nat /\ Cardinality(I) \in Nat
  BY <1>2, <1>4, FS_CardinalityType
<1> QED BY <1>3, <1>4, <1>5

(* A scan of a sequence yields a sequence of its elements, no longer.      *)
LEMMA PickedSequence ==
  ASSUME NEW S, NEW s \in Seq(S), NEW I \in SUBSET DOMAIN s
  PROVE  /\ Picked(s, I) \in Seq(S)
         /\ Len(Picked(s, I)) = Cardinality(I) /\ Len(Picked(s, I)) <= Len(s)
         /\ Range(Picked(s, I)) = {s[i] : i \in I}
<1> DEFINE P == Picked(s, I)
           N == Cardinality(I)
<1>1. Len(s) \in Nat /\ I \in SUBSET (1 .. Len(s)) /\ \A i \in I : s[i] \in S
  OBVIOUS
<1>2. /\ N \in 0 .. Len(s) /\ DOMAIN P = 1 .. N
      /\ \A k \in 1 .. N : \E i \in I : Place(I, i) = k
      /\ \A i \in I : Place(I, i) \in 1 .. N /\ P[Place(I, i)] = s[i]
  BY <1>1, PickedElements
<1>3. \A k \in 1 .. N : \E i \in I : P[k] = s[i]
  BY <1>2
<1>4. P = [k \in 1 .. N |-> P[k]]
  BY <1>2 DEF Picked
<1> HIDE DEF P, N
<1>5. P \in Seq(S) /\ Len(P) = N
  <2>1. \A k \in 1 .. N : P[k] \in S
    BY <1>1, <1>3
  <2> QED BY <1>2, <1>4, <2>1
<1>6. Range(P) = {s[i] : i \in I}
  BY <1>2, <1>3 DEF Range
<1> QED BY <1>2, <1>5, <1>6 DEF P, N

(* The newest n elements of a sequence.                                    *)
LEMMA LastOfSequence ==
  ASSUME NEW S, NEW s \in Seq(S), NEW n \in Nat \ {0}
  PROVE  /\ LastOf(s, n) \in Seq(S) /\ Len(LastOf(s, n)) <= n
         /\ Range(LastOf(s, n)) \subseteq Range(s)
         /\ s # <<>> => LastOf(s, n) # <<>>
<1>1. CASE Len(s) > n
  <2> DEFINE m == Len(s) - n + 1
             P == SubSeq(s, m, Len(s))
  <2>1. m \in 1 .. Len(s) /\ Len(s) \in Nat
    BY <1>1
  <2>2. P \in Seq(S) /\ Len(P) = n /\ \A k \in 1 .. n : P[k] = s[m + k - 1] /\ m + k - 1 \in 1 .. Len(s)
    BY <1>1, <2>1
  <2>3. LastOf(s, n) = P
    BY <1>1 DEF LastOf
  <2> HIDE DEF m, P
  <2>4. Range(P) \subseteq Range(s)
    <3>1. DOMAIN P = 1 .. n /\ DOMAIN s = 1 .. Len(s)
      BY <2>2
    <3> QED BY <2>2, <3>1 DEF Range
  <2>5. P # <<>>
    BY <2>2
  <2> QED BY <2>2, <2>3, <2>4, <2>5
<1>2. CASE ~(Len(s) > n)
  BY <1>2 DEF LastOf
<1> QED BY <1>1, <1>2

(* An appended sequence has one more element.                              *)
LEMMA AppendSequence ==
  ASSUME NEW S, NEW s \in Seq(S), NEW e \in S
  PROVE  /\ Append(s, e) \in Seq(S) /\ Len(Append(s, e)) = Len(s) + 1
         /\ Range(Append(s, e)) = Range(s) \cup {e}
<1>1. /\ DOMAIN Append(s, e) = 1 .. Len(s) + 1 /\ Append(s, e)[Len(s) + 1] = e
      /\ \A k \in 1 .. Len(s) : Append(s, e)[k] = s[k]
  OBVIOUS
<1>2. DOMAIN s = 1 .. Len(s) /\ Len(s) \in Nat
  OBVIOUS
<1>3. \A k \in 1 .. Len(s) + 1 : k \in 1 .. Len(s) \/ k = Len(s) + 1
  BY <1>2
<1>4. 1 .. Len(s) \subseteq 1 .. Len(s) + 1 /\ Len(s) + 1 \in 1 .. Len(s) + 1
  BY <1>2
<1>5. Range(Append(s, e)) = Range(s) \cup {e}
  BY <1>1, <1>2, <1>3, <1>4 DEF Range
<1> QED BY <1>5
-----------------------------------------------------------------------------
(* The result text of a sequence of decisions: SumOf(E)[n] is what the     *)
(* first n retain.                                                         *)
SumOf(E) ==
  LET sum[n \in 0 .. Len(E)] == IF n = 0 THEN 0 ELSE sum[n - 1] + E[n].chars
  IN  sum

(* The sums exist: they are built one element at a time.                   *)
LEMMA SumsExist ==
  ASSUME NEW E \in Seq(Decision), NEW N \in Nat
  PROVE  \E f : f = [n \in 0 .. N |-> IF n = 0 THEN 0 ELSE f[n - 1] + E[n].chars]
<1> DEFINE IsSum(f, m) ==
             f = [n \in 0 .. m |-> IF n = 0 THEN 0 ELSE f[n - 1] + E[n].chars]
           T == {m \in Nat : \E f : IsSum(f, m)}
<1>1. 0 \in T
  <2>1. IsSum([n \in 0 .. 0 |-> 0], 0)
    OBVIOUS
  <2> QED BY <2>1
<1>2. \A m \in T : m + 1 \in T
  <2> TAKE m \in T
  <2>1. PICK f : IsSum(f, m)
    OBVIOUS
  <2> DEFINE g == [n \in 0 .. m + 1 |-> IF n <= m THEN f[n] ELSE f[m] + E[m + 1].chars]
  <2>2. DOMAIN f = 0 .. m /\ m \in Nat
    BY <2>1
  <2>3. ASSUME NEW n \in 0 .. m + 1
        PROVE  g[n] = IF n = 0 THEN 0 ELSE g[n - 1] + E[n].chars
    <3>1. CASE n = 0
      BY <2>1, <2>2, <3>1
    <3>2. CASE n \in 1 .. m
      <4>1. n <= m /\ n - 1 \in 0 .. m /\ n - 1 <= m /\ n # 0 /\ n - 1 \in 0 .. m + 1 /\ n \in 0 .. m
        BY <2>2, <3>2
      <4>2. f[n] = f[n - 1] + E[n].chars
        BY <2>1, <4>1
      <4> QED BY <4>1, <4>2
    <3>3. CASE n = m + 1
      <4>1. ~(n <= m) /\ n - 1 = m /\ m <= m /\ n # 0 /\ m \in 0 .. m + 1
        BY <2>2, <3>3
      <4> QED BY <3>3, <4>1
    <3> QED BY <2>2, <3>1, <3>2, <3>3
  <2>4. DOMAIN g = 0 .. m + 1 /\ g = [n \in 0 .. m + 1 |-> g[n]]
    OBVIOUS
  <2>5. \E h : IsSum(h, m + 1)
    <3> HIDE DEF g
    <3>1. g = [n \in 0 .. m + 1 |-> IF n = 0 THEN 0 ELSE g[n - 1] + E[n].chars]
      BY <2>3, <2>4
    <3> QED BY <3>1
  <2> QED BY <2>2, <2>5
<1>3. T = Nat
  <2> HIDE DEF T
  <2>1. T \subseteq Nat
    BY DEF T
  <2> QED BY <1>1, <1>2, <2>1, Induction
<1> QED BY <1>3

(* Every decision retains a natural number of characters.                  *)
LEMMA CharsNat ==
  ASSUME NEW E \in Seq(Decision)
  PROVE  \A n \in 1 .. Len(E) : E[n].chars \in Nat
<1> TAKE n \in 1 .. Len(E)
<1>1. E[n] \in Decision
  OBVIOUS
<1> QED BY <1>1 DEF Decision

(* What the recursive definition of the sums computes.                     *)
LEMMA Sums ==
  ASSUME NEW E \in Seq(Decision)
  PROVE  /\ SumOf(E)[0] = 0
         /\ \A n \in 1 .. Len(E) : SumOf(E)[n] = SumOf(E)[n - 1] + E[n].chars
         /\ \A n \in 0 .. Len(E) : SumOf(E)[n] \in Nat
         /\ CharsOf(E) = SumOf(E)[Len(E)]
<1> DEFINE f == SumOf(E)
           T == {m \in Nat : m <= Len(E) => f[m] \in Nat}
<1>1. Len(E) \in Nat /\ \A n \in 1 .. Len(E) : E[n].chars \in Nat
  BY CharsNat
<1>2. f = [n \in 0 .. Len(E) |-> IF n = 0 THEN 0 ELSE f[n - 1] + E[n].chars]
  <2>1. \E g : g = [n \in 0 .. Len(E) |-> IF n = 0 THEN 0 ELSE g[n - 1] + E[n].chars]
    BY <1>1, SumsExist
  <2> QED BY <2>1, Zenon DEF SumOf
<1>3. CharsOf(E) = f[Len(E)]
  BY Zenon DEF CharsOf, SumOf
<1> HIDE DEF f
<1>4. f[0] = 0 /\ \A n \in 1 .. Len(E) : f[n] = f[n - 1] + E[n].chars
  <2>1. 0 \in 0 .. Len(E) /\ \A n \in 1 .. Len(E) : n \in 0 .. Len(E) /\ n # 0
    BY <1>1
  <2> QED BY <1>2, <2>1
<1>5. 0 \in T
  BY <1>4
<1>6. \A m \in T : m + 1 \in T
  <2> SUFFICES ASSUME NEW m \in T, m + 1 <= Len(E) PROVE f[m + 1] \in Nat
    OBVIOUS
  <2>1. m \in Nat /\ m + 1 \in 1 .. Len(E) /\ (m + 1) - 1 = m /\ m <= Len(E)
    BY <1>1
  <2>2. f[m] \in Nat /\ f[m + 1] = f[(m + 1) - 1] + E[m + 1].chars
    BY <1>4, <2>1
  <2> QED BY <1>1, <2>1, <2>2
<1>7. \A m \in Nat : m \in T
  <2> HIDE DEF T
  <2>1. T \subseteq Nat
    BY DEF T
  <2> QED BY <1>5, <1>6, <2>1, Induction
<1>8. \A n \in 0 .. Len(E) : f[n] \in Nat
  BY <1>1, <1>7
<1> QED BY <1>3, <1>4, <1>8 DEF f

(* A stretch of a sequence retains the difference of two sums.             *)
LEMMA StretchSum ==
  ASSUME NEW E \in Seq(Decision), NEW F \in Seq(Decision), NEW d \in Nat,
         d + Len(E) <= Len(F), \A k \in 1 .. Len(E) : E[k] = F[d + k]
  PROVE  SumOf(F)[d + Len(E)] = SumOf(F)[d] + CharsOf(E)
<1> DEFINE f == SumOf(F)
           e == SumOf(E)
           T == {m \in Nat : m <= Len(E) => f[d + m] = f[d] + e[m]}
<1>1. Len(E) \in Nat /\ Len(F) \in Nat
  OBVIOUS
<1>2. /\ e[0] = 0 /\ \A n \in 1 .. Len(E) : e[n] = e[n - 1] + E[n].chars
      /\ \A n \in 0 .. Len(E) : e[n] \in Nat
      /\ CharsOf(E) = e[Len(E)]
  BY Sums
<1>3. /\ f[0] = 0 /\ \A n \in 1 .. Len(F) : f[n] = f[n - 1] + F[n].chars
      /\ \A n \in 0 .. Len(F) : f[n] \in Nat
  BY Sums
<1>4. \A n \in 1 .. Len(E) : E[n].chars \in Nat
  BY CharsNat
<1> HIDE DEF e, f
<1>5. d + 0 = d /\ d \in 0 .. Len(F)
  BY <1>1
<1>6. 0 \in T
  BY <1>2, <1>3, <1>5
<1>7. \A m \in T : m + 1 \in T
  <2> SUFFICES ASSUME NEW m \in T, m + 1 <= Len(E) PROVE f[d + (m + 1)] = f[d] + e[m + 1]
    OBVIOUS
  <2>1. /\ m \in Nat /\ m + 1 \in 1 .. Len(E) /\ (m + 1) - 1 = m /\ m <= Len(E) /\ m \in 0 .. Len(E)
        /\ d + (m + 1) \in 1 .. Len(F) /\ d + (m + 1) - 1 = d + m /\ d + m \in 0 .. Len(F)
    BY <1>1
  <2>2. f[d + m] = f[d] + e[m]
    BY <2>1
  <2>3. e[m + 1] = e[m] + E[m + 1].chars
    BY <1>2, <2>1
  <2>4. f[d + (m + 1)] = f[d + m] + E[m + 1].chars
    <3>1. E[m + 1] = F[d + (m + 1)]
      BY <2>1
    <3>2. f[d + (m + 1)] = f[d + (m + 1) - 1] + F[d + (m + 1)].chars
      <4> DEFINE k == d + (m + 1)
      <4>1. k \in 1 .. Len(F)
        BY <2>1
      <4> HIDE DEF k
      <4>2. f[k] = f[k - 1] + F[k].chars
        BY <1>3, <4>1
      <4> QED BY <4>2 DEF k
    <3> QED BY <2>1, <3>1, <3>2
  <2>5. f[d] \in Nat /\ e[m] \in Nat /\ E[m + 1].chars \in Nat
    BY <1>2, <1>3, <1>4, <1>5, <2>1
  <2> QED BY <2>2, <2>3, <2>4, <2>5
<1>8. \A m \in Nat : m \in T
  <2> HIDE DEF T
  <2>1. T \subseteq Nat
    BY DEF T
  <2> QED BY <1>6, <1>7, <2>1, Induction
<1>9. f[d + Len(E)] = f[d] + e[Len(E)]
  BY <1>1, <1>8
<1> QED BY <1>2, <1>9 DEF f

(* A sum is a natural number, that of nothing zero.                        *)
LEMMA CharsOfNat ==
  ASSUME NEW E \in Seq(Decision)
  PROVE  CharsOf(E) \in Nat /\ CharsOf(<<>>) = 0
<1>1. Len(E) \in 0 .. Len(E)
  OBVIOUS
<1>2. CharsOf(E) \in Nat
  BY <1>1, Sums
<1>3. <<>> \in Seq(Decision) /\ Len(<<>>) = 0
  OBVIOUS
<1>4. CharsOf(<<>>) = 0
  BY <1>3, Sums
<1> QED BY <1>2, <1>4

(* A new decision adds its characters to the sum.                          *)
LEMMA AppendSum ==
  ASSUME NEW E \in Seq(Decision), NEW e \in Decision
  PROVE  CharsOf(Append(E, e)) = CharsOf(E) + e.chars
<1> DEFINE F == Append(E, e)
<1>1. /\ F \in Seq(Decision) /\ Len(F) = Len(E) + 1 /\ F[Len(F)] = e
      /\ \A k \in 1 .. Len(E) : E[k] = F[0 + k]
      /\ Len(E) \in Nat /\ 0 + Len(E) = Len(E) /\ Len(E) <= Len(F)
      /\ Len(F) \in 1 .. Len(F) /\ Len(F) - 1 = Len(E)
  OBVIOUS
<1> HIDE DEF F
<1>2. SumOf(F)[0 + Len(E)] = SumOf(F)[0] + CharsOf(E)
  BY <1>1, StretchSum
<1>3. SumOf(F)[0] = 0 /\ CharsOf(F) = SumOf(F)[Len(F)]
  BY <1>1, Sums
<1>4. SumOf(F)[Len(F)] = SumOf(F)[Len(F) - 1] + F[Len(F)].chars
  BY <1>1, Sums
<1>5. CharsOf(E) \in Nat
  BY CharsOfNat
<1>6. SumOf(F)[Len(E)] = CharsOf(E)
  BY <1>1, <1>2, <1>3, <1>5
<1> QED BY <1>1, <1>3, <1>4, <1>6 DEF F

(* The sum of a concatenation is the sum of the sums.                      *)
LEMMA ConcatSum ==
  ASSUME NEW E \in Seq(Decision), NEW F \in Seq(Decision)
  PROVE  CharsOf(E \o F) = CharsOf(E) + CharsOf(F)
<1> DEFINE G == E \o F
<1>1. /\ G \in Seq(Decision) /\ Len(G) = Len(E) + Len(F)
      /\ \A k \in 1 .. Len(E) : E[k] = G[0 + k]
      /\ \A k \in 1 .. Len(F) : F[k] = G[Len(E) + k]
      /\ Len(E) \in Nat /\ Len(F) \in Nat /\ 0 + Len(E) = Len(E)
      /\ 0 + Len(E) <= Len(G) /\ Len(E) + Len(F) <= Len(G)
  OBVIOUS
<1> HIDE DEF G
<1>2. SumOf(G)[0 + Len(E)] = SumOf(G)[0] + CharsOf(E)
  BY <1>1, StretchSum
<1>3. SumOf(G)[Len(E) + Len(F)] = SumOf(G)[Len(E)] + CharsOf(F)
  BY <1>1, StretchSum
<1>4. SumOf(G)[0] = 0 /\ CharsOf(G) = SumOf(G)[Len(G)]
  BY <1>1, Sums
<1>5. CharsOf(E) \in Nat /\ CharsOf(F) \in Nat
  BY CharsOfNat
<1>6. SumOf(G)[Len(E)] = CharsOf(E)
  BY <1>1, <1>2, <1>4, <1>5
<1> QED BY <1>1, <1>3, <1>4, <1>6 DEF G

(* Cutting a sequence in two cuts its sum in two.                          *)
LEMMA CutSum ==
  ASSUME NEW E \in Seq(Decision), NEW n \in 0 .. Len(E)
  PROVE  /\ SubSeq(E, 1, n) \in Seq(Decision) /\ SubSeq(E, n + 1, Len(E)) \in Seq(Decision)
         /\ CharsOf(SubSeq(E, n + 1, Len(E))) = CharsOf(E) - CharsOf(SubSeq(E, 1, n))
         /\ Len(SubSeq(E, n + 1, Len(E))) = Len(E) - n
         /\ \A k \in 1 .. Len(E) - n : SubSeq(E, n + 1, Len(E))[k] = E[n + k] /\ n + k \in DOMAIN E
<1> DEFINE A == SubSeq(E, 1, n)
           B == SubSeq(E, n + 1, Len(E))
<1>1. /\ A \in Seq(Decision) /\ B \in Seq(Decision)
      /\ Len(A) = n /\ Len(B) = Len(E) - n /\ Len(E) \in Nat /\ n \in Nat
      /\ \A k \in 1 .. Len(A) : A[k] = E[0 + k]
      /\ \A k \in 1 .. Len(B) : B[k] = E[n + k]
      /\ 0 + Len(A) = n /\ n <= Len(E) /\ n + Len(B) = Len(E) /\ Len(E) <= Len(E)
  OBVIOUS
<1> HIDE DEF A, B
<1>2. SumOf(E)[0 + Len(A)] = SumOf(E)[0] + CharsOf(A)
  BY <1>1, StretchSum
<1>3. SumOf(E)[n + Len(B)] = SumOf(E)[n] + CharsOf(B)
  BY <1>1, StretchSum
<1>4. SumOf(E)[0] = 0 /\ CharsOf(E) = SumOf(E)[Len(E)]
  BY Sums
<1>5. CharsOf(A) \in Nat /\ CharsOf(B) \in Nat
  BY <1>1, CharsOfNat
<1>6. CharsOf(B) = CharsOf(E) - CharsOf(A)
  BY <1>1, <1>2, <1>3, <1>4, <1>5
<1>7. \A k \in 1 .. Len(E) - n : n + k \in DOMAIN E
  BY <1>1
<1> QED BY <1>1, <1>6, <1>7 DEF A, B

(* What a scan keeps and what it leaves out retain what the sequence does. *)
LEMMA PickedSum ==
  ASSUME NEW E \in Seq(Decision), NEW I \in SUBSET DOMAIN E
  PROVE  CharsOf(Picked(E, DOMAIN E \ I)) = CharsOf(E) - CharsOf(Picked(E, I))
<1> DEFINE J == DOMAIN E \ I
           N == Len(E)
           P == Picked(E, I)
           Q == Picked(E, J)
           e == SumOf(E)
           p == SumOf(P)
           q == SumOf(Q)
           T == {m \in Nat : m <= N => e[m] = p[Place(I, m)] + q[Place(J, m)]}
<1>1. N \in Nat /\ I \in SUBSET (1 .. N) /\ J \in SUBSET (1 .. N) /\ DOMAIN E = 1 .. N
      /\ J \in SUBSET DOMAIN E /\ \A i \in 1 .. N : i \in I <=> i \notin J
  OBVIOUS
<1>2. /\ P \in Seq(Decision) /\ Q \in Seq(Decision)
      /\ Len(P) = Cardinality(I) /\ Len(Q) = Cardinality(J)
  BY <1>1, PickedSequence
<1>3. /\ \A i \in I : Place(I, i) \in 1 .. Cardinality(I) /\ P[Place(I, i)] = E[i]
      /\ \A i \in J : Place(J, i) \in 1 .. Cardinality(J) /\ Q[Place(J, i)] = E[i]
  <2> HIDE DEF N, J, P, Q, e, p, q, T
  <2>1. ASSUME NEW K \in SUBSET (1 .. N)
        PROVE  \A i \in K : /\ Place(K, i) \in 1 .. Cardinality(K)
                             /\ Picked(E, K)[Place(K, i)] = E[i]
    <3>1. N \in Nat
      BY <1>1
    <3> QED BY Zenon, <3>1, PickedElements
  <2> QED BY <1>1, <2>1 DEF P, Q
<1>4. /\ Place(I, 0) = 0 /\ Place(I, N) = Cardinality(I)
      /\ Place(J, 0) = 0 /\ Place(J, N) = Cardinality(J)
  BY <1>1, PlaceSteps
<1>5. \A i \in Nat : Place(I, i) \in 0 .. Len(P) /\ Place(J, i) \in 0 .. Len(Q)
  BY <1>1, <1>2, PlaceBound
<1> HIDE DEF P, Q, J
<1>6. /\ e[0] = 0 /\ \A n \in 1 .. N : e[n] = e[n - 1] + E[n].chars
      /\ \A n \in 1 .. N : E[n].chars \in Nat
      /\ CharsOf(E) = e[N]
  BY Sums, CharsNat
<1>7. /\ p[0] = 0 /\ \A n \in 1 .. Len(P) : p[n] = p[n - 1] + P[n].chars
      /\ \A n \in 0 .. Len(P) : p[n] \in Nat
      /\ CharsOf(P) = p[Len(P)]
  BY <1>2, Sums
<1>8. /\ q[0] = 0 /\ \A n \in 1 .. Len(Q) : q[n] = q[n - 1] + Q[n].chars
      /\ \A n \in 0 .. Len(Q) : q[n] \in Nat
      /\ CharsOf(Q) = q[Len(Q)]
  BY <1>2, Sums
<1> HIDE DEF e, p, q, N
<1>9. 0 \in T
  BY <1>4, <1>6, <1>7, <1>8
<1>10. \A m \in T : m + 1 \in T
  <2> SUFFICES ASSUME NEW m \in T, m + 1 <= N
               PROVE  e[m + 1] = p[Place(I, m + 1)] + q[Place(J, m + 1)]
    OBVIOUS
  <2>1. m \in Nat /\ m + 1 \in 1 .. N /\ (m + 1) - 1 = m /\ m <= N
    BY <1>1
  <2>2. e[m] = p[Place(I, m)] + q[Place(J, m)]
    BY <2>1
  <2>3. e[m + 1] = e[m] + E[m + 1].chars /\ E[m + 1].chars \in Nat
    BY <1>6, <2>1
  <2>4. p[Place(I, m)] \in Nat /\ q[Place(J, m)] \in Nat /\ Place(I, m) \in Nat /\ Place(J, m) \in Nat
    <3>1. Place(I, m) \in 0 .. Len(P) /\ Place(J, m) \in 0 .. Len(Q)
      BY <1>5, <2>1
    <3>2. p[Place(I, m)] \in Nat /\ q[Place(J, m)] \in Nat
      BY <1>7, <1>8, <3>1
    <3> QED BY <3>1, <3>2
  <2>5. CASE m + 1 \in I
    <3>1. m + 1 \notin J
      BY <1>1, <2>1, <2>5
    <3>2. Place(I, m + 1) = Place(I, m) + 1 /\ Place(J, m + 1) = Place(J, m)
      BY <1>1, <2>1, <2>5, <3>1, PlaceSteps
    <3>3. p[Place(I, m + 1)] = p[Place(I, m + 1) - 1] + P[Place(I, m + 1)].chars
      BY <1>2, <1>3, <1>7, <2>5
    <3>4. P[Place(I, m + 1)] = E[m + 1] /\ Place(I, m + 1) - 1 = Place(I, m)
      BY <1>3, <2>4, <2>5, <3>2
    <3> QED BY <2>2, <2>3, <2>4, <3>2, <3>3, <3>4
  <2>6. CASE m + 1 \notin I
    <3>1. m + 1 \in J
      BY <1>1, <2>1, <2>6
    <3>2. Place(J, m + 1) = Place(J, m) + 1 /\ Place(I, m + 1) = Place(I, m)
      BY <1>1, <2>1, <2>6, <3>1, PlaceSteps
    <3>3. q[Place(J, m + 1)] = q[Place(J, m + 1) - 1] + Q[Place(J, m + 1)].chars
      BY <1>2, <1>3, <1>8, <3>1
    <3>4. Q[Place(J, m + 1)] = E[m + 1] /\ Place(J, m + 1) - 1 = Place(J, m)
      BY <1>3, <2>4, <3>1, <3>2
    <3> QED BY <2>2, <2>3, <2>4, <3>2, <3>3, <3>4
  <2> QED BY <2>5, <2>6
<1>11. \A m \in Nat : m \in T
  <2> HIDE DEF T
  <2>1. T \subseteq Nat
    BY DEF T
  <2> QED BY <1>9, <1>10, <2>1, Induction
<1>12. e[N] = p[Len(P)] + q[Len(Q)]
  <2>1. e[N] = p[Place(I, N)] + q[Place(J, N)]
    BY <1>1, <1>11
  <2> QED BY <1>2, <1>4, <2>1
<1>13. p[Len(P)] \in Nat /\ q[Len(Q)] \in Nat
  <2>1. Len(P) \in 0 .. Len(P) /\ Len(Q) \in 0 .. Len(Q)
    BY <1>2
  <2> QED BY <1>7, <1>8, <2>1
<1>14. CharsOf(Q) = CharsOf(E) - CharsOf(P)
  BY <1>6, <1>7, <1>8, <1>12, <1>13
<1> QED BY <1>14 DEF P, Q, J
-----------------------------------------------------------------------------
(* Scanning a whole sequence yields it.                                    *)
LEMMA PickedAll ==
  ASSUME NEW S, NEW s \in Seq(S)
  PROVE  Picked(s, DOMAIN s) = s
<1> DEFINE n == Len(s)
           D == 1 .. n
           P == Picked(s, D)
           T == {m \in Nat : m <= n => Place(D, m) = m}
<1>1. n \in Nat /\ DOMAIN s = D /\ D \in SUBSET (1 .. n) /\ D \in SUBSET DOMAIN s
  OBVIOUS
<1>2. Cardinality(D) = n
  BY <1>1, IntervalSize
<1>3. P \in Seq(S) /\ Len(P) = n
  BY <1>1, <1>2, PickedSequence
<1>4. \A i \in D : P[Place(D, i)] = s[i]
  BY <1>1, PickedElements
<1> HIDE DEF P
<1>5. 0 \in T
  BY <1>1, PlaceSteps
<1>6. \A m \in T : m + 1 \in T
  <2> SUFFICES ASSUME NEW m \in T, m + 1 <= n PROVE Place(D, m + 1) = m + 1
    OBVIOUS
  <2>1. m \in Nat /\ m + 1 \in D /\ m <= n
    BY <1>1
  <2>2. Place(D, m) = m
    BY <2>1
  <2>3. Place(D, m + 1) = Place(D, m) + 1
    BY <1>1, <2>1, PlaceSteps
  <2> QED BY <2>2, <2>3
<1>7. \A m \in Nat : m \in T
  <2> HIDE DEF T
  <2>1. T \subseteq Nat
    BY DEF T
  <2> QED BY <1>5, <1>6, <2>1, Induction
<1>8. \A i \in D : P[i] = s[i]
  <2> TAKE i \in D
  <2>1. Place(D, i) = i
    BY <1>1, <1>7
  <2> QED BY <1>4, <2>1
<1>9. P = s
  <2>1. DOMAIN P = D
    BY <1>3
  <2>2. P = [i \in D |-> P[i]] /\ s = [i \in D |-> s[i]]
    BY <1>1, <1>3, <2>1
  <2> QED BY <1>8, <2>2
<1> QED BY <1>1, <1>9 DEF P

(* Scanning for nothing yields nothing.                                    *)
LEMMA PickedNone ==
  ASSUME NEW S, NEW s \in Seq(S)
  PROVE  Picked(s, {}) = <<>>
<1>1. {} \in SUBSET DOMAIN s /\ Cardinality({}) = 0
  BY FS_EmptySet
<1>2. Picked(s, {}) \in Seq(S) /\ Len(Picked(s, {})) = 0
  BY <1>1, PickedSequence
<1> QED BY <1>2

(* What a scan keeps and what it leaves out are together as many.          *)
LEMMA PickedLengths ==
  ASSUME NEW S, NEW s \in Seq(S), NEW I \in SUBSET DOMAIN s
  PROVE  Len(Picked(s, DOMAIN s \ I)) + Len(Picked(s, I)) = Len(s)
<1> DEFINE D == 1 .. Len(s)
<1>1. Len(s) \in Nat /\ D = DOMAIN s
  OBVIOUS
<1>2. IsFiniteSet(D) /\ Cardinality(D) = Len(s)
  BY <1>1, IntervalSize
<1>3. Len(Picked(s, D \ I)) = Cardinality(D \ I) /\ Len(Picked(s, I)) = Cardinality(I)
  BY <1>1, PickedSequence, D \ I \in SUBSET DOMAIN s
<1>4. IsFiniteSet(I) /\ Cardinality(I) \in Nat
  BY <1>1, <1>2, FS_Subset, FS_CardinalityType
<1>5. D \cap I = I
  BY <1>1
<1> HIDE DEF D
<1>6. Cardinality(D \ I) = Cardinality(D) - Cardinality(D \cap I)
  BY <1>2, FS_Difference
<1>7. Cardinality(D \ I) = Len(s) - Cardinality(I)
  BY <1>2, <1>5, <1>6
<1>8. DOMAIN s \ I = D \ I
  BY <1>1
<1>9. Len(Picked(s, DOMAIN s \ I)) = Len(s) - Cardinality(I)
  BY <1>3, <1>7, <1>8
<1> QED BY <1>1, <1>3, <1>4, <1>9
-----------------------------------------------------------------------------
(* The decision cache between two operations; Counted is the part of it    *)
(* that also holds before enforceBounds.                                   *)
KeysOnce(E) == \A i, j \in DOMAIN E : E[i].key = E[j].key => i = j

Counted(cc) ==
  /\ cc \in [entries : Seq(Decision), resultChars : Int]
  /\ cc.resultChars = CharsOf(cc.entries)
  /\ KeysOnce(cc.entries)

CacheOK(cc) ==
  /\ Counted(cc)
  /\ cc.resultChars <= MaxResultChars
  /\ Len(cc.entries) <= MaxEntries

(* A scan of decisions with different keys has different keys.             *)
LEMMA PickedOnce ==
  ASSUME NEW E \in Seq(Decision), KeysOnce(E), NEW I \in SUBSET DOMAIN E
  PROVE  KeysOnce(Picked(E, I))
<1> DEFINE P == Picked(E, I)
           N == Cardinality(I)
<1>1. Len(E) \in Nat /\ I \in SUBSET (1 .. Len(E))
  OBVIOUS
<1>2. /\ DOMAIN P = 1 .. N
      /\ \A k \in 1 .. N : \E i \in I : Place(I, i) = k
      /\ \A i \in I : P[Place(I, i)] = E[i]
  BY <1>1, PickedElements
<1> HIDE DEF P, N
<1>3. ASSUME NEW k \in 1 .. N, NEW l \in 1 .. N, P[k].key = P[l].key PROVE k = l
  <2>1. PICK i \in I : Place(I, i) = k
    BY <1>2
  <2>2. PICK j \in I : Place(I, j) = l
    BY <1>2
  <2>3. E[i].key = E[j].key
    BY <1>2, <1>3, <2>1, <2>2
  <2>4. i = j
    BY <2>3 DEF KeysOnce
  <2> QED BY <2>1, <2>2, <2>4
<1> QED BY <1>2, <1>3 DEF KeysOnce, P

(* deleteEntry keeps the accounts, whatever keys are dropped.              *)
LEMMA WithoutCounted ==
  ASSUME NEW cc, Counted(cc), NEW keys
  PROVE  /\ Counted(Without(cc, keys))
         /\ Without(cc, keys).resultChars <= cc.resultChars
         /\ Len(Without(cc, keys).entries) <= Len(cc.entries)
         /\ Range(Without(cc, keys).entries)
              = {e \in Range(cc.entries) : e.key \notin keys}
<1> DEFINE E == cc.entries
           gone == {i \in DOMAIN E : E[i].key \in keys}
           K == Picked(E, DOMAIN E \ gone)
<1>1. E \in Seq(Decision) /\ cc.resultChars = CharsOf(E) /\ KeysOnce(E)
  BY DEF Counted
<1>2. gone \in SUBSET DOMAIN E /\ DOMAIN E \ gone \in SUBSET DOMAIN E
  OBVIOUS
<1>3. Without(cc, keys) = [entries |-> K, resultChars |-> CharsOf(E) - CharsOf(Picked(E, gone))]
  BY <1>1, Zenon DEF Without
<1>4. /\ K \in Seq(Decision) /\ Len(K) <= Len(E)
      /\ Range(K) = {E[i] : i \in DOMAIN E \ gone}
      /\ Picked(E, gone) \in Seq(Decision)
  BY <1>1, <1>2, PickedSequence
<1>5. CharsOf(K) = CharsOf(E) - CharsOf(Picked(E, gone))
  BY <1>1, <1>2, PickedSum
<1>6. KeysOnce(K)
  BY <1>1, <1>2, PickedOnce
<1>7. {E[i] : i \in DOMAIN E \ gone} = {e \in Range(E) : e.key \notin keys}
  BY DEF Range
<1>8. CharsOf(K) \in Nat /\ CharsOf(E) \in Nat /\ CharsOf(Picked(E, gone)) \in Nat
  BY <1>1, <1>4, CharsOfNat
<1> HIDE DEF K, gone
<1>9. Counted(Without(cc, keys))
  BY <1>3, <1>4, <1>5, <1>6, <1>8 DEF Counted
<1> QED BY <1>1, <1>3, <1>4, <1>5, <1>7, <1>8, <1>9

(* enforceBounds: what remains is within both budgets.                     *)
LEMMA BoundedOK ==
  ASSUME NEW cc, Counted(cc)
  PROVE  CacheOK(Bounded(cc)) /\ Range(Bounded(cc).entries) \subseteq Range(cc.entries)
<1> DEFINE E == cc.entries
           Fits(n) == \/ n = Len(E)
                      \/ /\ Len(E) - n <= MaxEntries
                         /\ cc.resultChars - CharsOf(SubSeq(E, 1, n)) <= MaxResultChars
           T == {m \in 0 .. Len(E) : Fits(m)}
           Least(m) == Fits(m) /\ \A k \in 0 .. m - 1 : ~Fits(k)
           n == CHOOSE m \in 0 .. Len(E) : Least(m)
           K == SubSeq(E, n + 1, Len(E))
<1>1. /\ E \in Seq(Decision) /\ cc.resultChars = CharsOf(E) /\ KeysOnce(E)
      /\ Len(E) \in Nat /\ DOMAIN E = 1 .. Len(E)
  BY DEF Counted
<1>2. Bounded(cc) = [entries |-> K, resultChars |-> CharsOf(E) - CharsOf(SubSeq(E, 1, n))]
  BY <1>1, Zenon DEF Bounded
<1>3. n \in 0 .. Len(E) /\ Fits(n)
  <2>1. Len(E) \in T /\ T \subseteq Nat
    BY <1>1
  <2>2. PICK m \in T : \A y \in T : m <= y
    BY <2>1, LeastNat
  <2>3. \A k \in 0 .. m - 1 : ~Fits(k)
    <3> SUFFICES ASSUME NEW k \in 0 .. m - 1, Fits(k) PROVE FALSE
      OBVIOUS
    <3>1. k \in 0 .. Len(E) /\ k < m
      BY <1>1
    <3> HIDE DEF Fits
    <3>2. k \in T /\ m \in Nat /\ k \in Nat
      BY <3>1
    <3> QED BY <2>2, <3>1, <3>2
  <2>4. m \in 0 .. Len(E) /\ Least(m)
    BY <2>3
  <2> HIDE DEF Least
  <2>5. n \in 0 .. Len(E) /\ Least(n)
    BY <2>4
  <2> QED BY <2>5 DEF Least
<1> HIDE DEF n
<1>4. /\ SubSeq(E, 1, n) \in Seq(Decision) /\ K \in Seq(Decision)
      /\ CharsOf(K) = CharsOf(E) - CharsOf(SubSeq(E, 1, n))
      /\ Len(K) = Len(E) - n
      /\ \A k \in 1 .. Len(E) - n : K[k] = E[n + k] /\ n + k \in DOMAIN E
  BY <1>1, <1>3, CutSum
<1> HIDE DEF K
<1>5. DOMAIN K = 1 .. Len(E) - n
  BY <1>4
<1>6. Range(K) \subseteq Range(E)
  BY <1>4, <1>5 DEF Range
<1>7. KeysOnce(K)
  <2> SUFFICES ASSUME NEW i \in 1 .. Len(E) - n, NEW j \in 1 .. Len(E) - n, K[i].key = K[j].key
               PROVE  i = j
    BY <1>5 DEF KeysOnce
  <2>1. E[n + i].key = E[n + j].key /\ n + i \in DOMAIN E /\ n + j \in DOMAIN E
    BY <1>4
  <2>2. n + i = n + j
    BY <1>1, <2>1 DEF KeysOnce
  <2> QED BY <1>1, <1>3, <2>2
<1>8. MaxEntries \in Nat /\ MaxResultChars \in Nat
  BY EngineAssumption
<1>9. CharsOf(K) \in Nat
  BY <1>4, CharsOfNat
<1>10. Len(K) <= MaxEntries /\ CharsOf(K) <= MaxResultChars
  <2>1. CASE n = Len(E)
    <3>1. K = <<>>
      BY <1>1, <1>4, <2>1
    <3>2. CharsOf(<<>>) = 0 /\ Len(<<>>) = 0
      BY <1>1, CharsOfNat
    <3>3. CharsOf(K) = 0 /\ Len(K) = 0
      BY <3>1, <3>2
    <3> QED BY <1>8, <3>3
  <2>2. CASE n # Len(E)
    BY <1>1, <1>3, <1>4, <2>2
  <2> QED BY <2>1, <2>2
<1>11. CacheOK(Bounded(cc))
  BY <1>2, <1>4, <1>7, <1>9, <1>10 DEF CacheOK, Counted
<1> QED BY <1>2, <1>6, <1>11

(* Dropping no key drops nothing.                                          *)
LEMMA WithoutNone ==
  ASSUME NEW cc, Counted(cc)
  PROVE  Without(cc, {}) = cc
<1> DEFINE E == cc.entries
<1>1. E \in Seq(Decision) /\ cc = [entries |-> E, resultChars |-> cc.resultChars] /\ cc.resultChars \in Int
  BY DEF Counted
<1>2. {i \in DOMAIN E : E[i].key \in {}} = {} /\ DOMAIN E \ {} = DOMAIN E
  OBVIOUS
<1>3. Without(cc, {}) = [entries |-> Picked(E, DOMAIN E),
                         resultChars |-> cc.resultChars - CharsOf(Picked(E, {}))]
  BY <1>2, Zenon DEF Without
<1>4. Picked(E, DOMAIN E) = E /\ Picked(E, {}) = <<>>
  BY <1>1, PickedAll, PickedNone
<1>5. CharsOf(<<>>) = 0
  BY <1>1, CharsOfNat
<1>6. cc.resultChars - CharsOf(Picked(E, {})) = cc.resultChars
  BY <1>1, <1>4, <1>5
<1> QED BY <1>1, <1>3, <1>4, <1>6

(* get: the decisions stay, but for an expired one that was asked for.     *)
LEMMA AfterGetOK ==
  ASSUME CacheOK(cache), now \in Nat, NEW key
  PROVE  CacheOK(AfterGet(key)) /\ Range(AfterGet(key).entries) \subseteq Range(cache.entries)
<1> DEFINE E == cache.entries
           own == {i \in DOMAIN E : E[i].key = key}
           P == Picked(E, own)
           live == {k \in DOMAIN P : P[k].expiresAt > now}
           F == Found(key)
           others == Without(cache, {key} \cap ExpiredKeys(cache))
           rest == Without(others, {key})
           G == rest.entries \o F
<1>1. /\ E \in Seq(Decision) /\ KeysOnce(E) /\ cache.resultChars = CharsOf(E)
      /\ Counted(cache) /\ cache.resultChars <= MaxResultChars /\ Len(E) <= MaxEntries
  BY DEF CacheOK, Counted
<1>2. own \in SUBSET DOMAIN E
  OBVIOUS
<1>3. /\ P \in Seq(Decision) /\ KeysOnce(P)
      /\ Range(P) = {E[i] : i \in own}
  BY <1>1, <1>2, PickedSequence, PickedOnce
<1>4. F = Picked(P, live)
  BY Zenon DEF Found, Unexpired
<1>5. live \in SUBSET DOMAIN P
  OBVIOUS
<1>6. /\ F \in Seq(Decision) /\ KeysOnce(F) /\ Range(F) = {P[k] : k \in live}
  <2> HIDE DEF P, live, F
  <2> QED BY <1>3, <1>4, <1>5, PickedSequence, PickedOnce
<1>7. /\ Counted(others) /\ others.resultChars <= cache.resultChars
      /\ Len(others.entries) <= Len(E)
      /\ Range(others.entries) \subseteq Range(E)
      /\ Counted(rest)
      /\ Range(rest.entries) = {e \in Range(others.entries) : e.key # key}
  <2> HIDE DEF others
  <2>1. /\ Counted(others) /\ others.resultChars <= cache.resultChars
        /\ Len(others.entries) <= Len(E)
        /\ Range(others.entries) \subseteq Range(E)
    BY <1>1, WithoutCounted DEF others
  <2>2. /\ Counted(rest)
        /\ Range(rest.entries) = {e \in Range(others.entries) : e.key \notin {key}}
    BY <2>1, WithoutCounted
  <2> QED BY <2>1, <2>2
<1>8. AfterGet(key) = [entries |-> G, resultChars |-> others.resultChars]
  <2>1. AfterGet(key) = [others EXCEPT !.entries = G]
    BY Zenon DEF AfterGet
  <2>2. others = [entries |-> others.entries, resultChars |-> others.resultChars]
    <3> HIDE DEF others
    <3> QED BY <1>7 DEF Counted
  <2> HIDE DEF others, G
  <2> QED BY <2>1, <2>2
<1>9. \A e \in Range(F) : e.key = key /\ e \in Range(E)
  <2>1. Range(F) \subseteq Range(P)
    BY <1>6 DEF Range
  <2> HIDE DEF P, F
  <2> QED BY <1>3, <2>1 DEF Range
<1>10. /\ rest.entries \in Seq(Decision) /\ KeysOnce(rest.entries)
       /\ rest.resultChars = CharsOf(rest.entries) /\ others.entries \in Seq(Decision)
       /\ others.resultChars = CharsOf(others.entries)
  <2> HIDE DEF rest, others
  <2> QED BY <1>7 DEF Counted
<1>11. G \in Seq(Decision) /\ KeysOnce(G) /\ Range(G) = Range(rest.entries) \cup Range(F)
  <2> DEFINE R == rest.entries
  <2>1. R \in Seq(Decision) /\ KeysOnce(R) /\ \A e \in Range(R) : e.key # key
    BY <1>7, <1>10
  <2> HIDE DEF R, F
  <2> DEFINE H == R \o F
  <2>2. /\ H \in Seq(Decision) /\ DOMAIN H = 1 .. Len(R) + Len(F)
        /\ Len(R) \in Nat /\ Len(F) \in Nat /\ DOMAIN R = 1 .. Len(R) /\ DOMAIN F = 1 .. Len(F)
        /\ \A k \in 1 .. Len(R) : H[k] = R[k]
        /\ \A k \in 1 .. Len(F) : H[Len(R) + k] = F[k]
    BY <1>6, <2>1
  <2> HIDE DEF H
  <2>3. \A k \in DOMAIN H : \/ k \in DOMAIN R /\ H[k] = R[k]
                            \/ k - Len(R) \in DOMAIN F /\ H[k] = F[k - Len(R)]
    <3> TAKE k \in DOMAIN H
    <3>1. CASE k <= Len(R)
      BY <2>2, <3>1
    <3>2. CASE k > Len(R)
      <4>1. k - Len(R) \in 1 .. Len(F) /\ Len(R) + (k - Len(R)) = k
        BY <2>2, <3>2
      <4> QED BY <2>2, <4>1
    <3> QED BY <2>2, <3>1, <3>2
  <2>4. Range(H) = Range(R) \cup Range(F)
    <3>1. Range(H) \subseteq Range(R) \cup Range(F)
      BY <2>3 DEF Range
    <3>2. Range(R) \subseteq Range(H)
      <4>1. \A k \in DOMAIN R : k \in DOMAIN H /\ H[k] = R[k]
        BY <2>2
      <4> QED BY <4>1 DEF Range
    <3>3. Range(F) \subseteq Range(H)
      <4>1. \A k \in DOMAIN F : Len(R) + k \in DOMAIN H /\ H[Len(R) + k] = F[k]
        BY <2>2
      <4> QED BY <4>1 DEF Range
    <3> QED BY <3>1, <3>2, <3>3
  <2>5. ASSUME NEW i \in DOMAIN H, NEW j \in DOMAIN H, H[i].key = H[j].key PROVE i = j
    <3>1. /\ \A k \in DOMAIN R : R[k].key # key
          /\ \A k \in DOMAIN F : F[k].key = key
      BY <1>9, <2>1 DEF Range
    <3>2. \/ /\ i \in DOMAIN R /\ H[i] = R[i]
             /\ j \in DOMAIN R /\ H[j] = R[j]
          \/ /\ i - Len(R) \in DOMAIN F /\ H[i] = F[i - Len(R)]
             /\ j - Len(R) \in DOMAIN F /\ H[j] = F[j - Len(R)]
      BY <2>3, <2>5, <3>1
    <3>3. \/ i = j
          \/ i - Len(R) = j - Len(R)
      BY <1>6, <2>1, <2>5, <3>2 DEF KeysOnce
    <3> QED BY <2>2, <3>3
  <2>6. KeysOnce(H)
    BY <2>5 DEF KeysOnce
  <2> QED BY <2>2, <2>4, <2>6 DEF H, R
<1>12. CharsOf(G) = others.resultChars /\ Len(G) <= MaxEntries
  <2>1. CharsOf(G) = CharsOf(rest.entries) + CharsOf(F) /\ Len(G) = Len(rest.entries) + Len(F)
    <3> HIDE DEF rest, F
    <3> QED BY <1>6, <1>10, ConcatSum
  <2>2. CASE key \in ExpiredKeys(cache)
    <3>1. PICK x \in Range(E) : x.key = key /\ x.expiresAt <= now
      BY <2>2 DEF ExpiredKeys
    <3>2. \A y \in Range(E) : y.key = key => y = x
      BY <1>1, <3>1 DEF KeysOnce, Range
    <3>3. \A k \in DOMAIN P : P[k] = x
      <4>1. \A k \in DOMAIN P : P[k] \in Range(P)
        BY DEF Range
      <4>2. \A y \in Range(P) : y.key = key /\ y \in Range(E)
        BY <1>3 DEF Range
      <4> QED BY <3>2, <4>1, <4>2
    <3>4. x.expiresAt \in Nat
      <4>1. x \in Decision
        BY <1>1, <3>1 DEF Range
      <4> QED BY <4>1 DEF Decision
    <3>5. live = {}
      <4>1. \A k \in DOMAIN P : ~(P[k].expiresAt > now)
        <5> HIDE DEF P
        <5> QED BY <3>1, <3>3, <3>4
      <4> QED BY <4>1
    <3>6. F = <<>>
      BY <1>3, <1>4, <3>5, PickedNone
    <3>7. {key} \cap ExpiredKeys(cache) = {key}
      BY <2>2
    <3>8. others = Without(cache, {key})
      BY <3>7
    <3>9. \A e \in Range(others.entries) : e.key # key
      <4>1. Range(others.entries) = {e \in Range(E) : e.key \notin {key}}
        BY <1>1, <3>8, WithoutCounted
      <4> QED BY <4>1
    <3>10. rest = others
      <4> DEFINE O == others.entries
      <4>1. O \in Seq(Decision) /\ others = [entries |-> O, resultChars |-> others.resultChars]
            /\ others.resultChars \in Int
        <5> HIDE DEF others
        <5> QED BY <1>7 DEF Counted
      <4>2. {i \in DOMAIN O : O[i].key \in {key}} = {}
        <5>1. \A i \in DOMAIN O : O[i] \in Range(O)
          BY DEF Range
        <5> QED BY <3>9, <5>1
      <4>3. {i \in DOMAIN O : O[i].key \in {key}} = {i \in DOMAIN O : O[i].key \in {}}
        BY <4>2
      <4>4. Without(others, {key}) = Without(others, {})
        <5> HIDE DEF others
        <5> QED BY <4>3, Zenon DEF Without
      <4> QED BY <1>7, <4>4, WithoutNone
    <3>11. CharsOf(<<>>) = 0 /\ Len(<<>>) = 0
      BY <1>1, CharsOfNat
    <3>12. Len(others.entries) \in Nat /\ Len(E) \in Nat /\ MaxEntries \in Nat
      BY <1>1, <1>10, EngineAssumption
    <3> HIDE DEF G, rest, others, F
    <3>13. CharsOf(rest.entries) \in Nat
      BY <1>10, CharsOfNat
    <3> QED BY <1>1, <1>7, <1>10, <2>1, <3>6, <3>10, <3>11, <3>12, <3>13
  <2>3. CASE key \notin ExpiredKeys(cache)
    <3>1. others = cache
      <4>1. {key} \cap ExpiredKeys(cache) = {}
        BY <2>3
      <4>2. others = Without(cache, {})
        BY <4>1
      <4> QED BY <1>1, <4>2, WithoutNone
    <3>2. live = DOMAIN P
      <4>1. \A k \in DOMAIN P : P[k] \in Range(P)
        BY DEF Range
      <4>2. \A y \in Range(P) : y.key = key /\ y \in Range(E) /\ y \in Decision
        <5>1. \A y \in Range(P) : y.key = key /\ y \in Range(E)
          BY <1>3 DEF Range
        <5>2. \A y \in Range(E) : y \in Decision
          BY <1>1 DEF Range
        <5> QED BY <5>1, <5>2
      <4>3. \A y \in Range(E) : y.key = key => ~(y.expiresAt <= now)
        BY <2>3 DEF ExpiredKeys
      <4>4. \A y \in Decision : y.expiresAt \in Nat
        BY DEF Decision
      <4> HIDE DEF P
      <4>5. \A k \in DOMAIN P : P[k].expiresAt > now
        BY <4>1, <4>2, <4>3, <4>4
      <4> QED BY <4>5
    <3>3. F = P
      BY <1>3, <1>4, <3>2, PickedAll
    <3>4. {i \in DOMAIN E : E[i].key \in {key}} = own
      OBVIOUS
    <3>5. rest.entries = Picked(E, DOMAIN E \ own)
      <4>1. rest = Without(cache, {key})
        BY <3>1
      <4>2. Without(cache, {key}).entries = Picked(E, DOMAIN E \ {i \in DOMAIN E : E[i].key \in {key}})
        BY DEF Without
      <4> HIDE DEF rest
      <4> QED BY <3>4, <4>1, <4>2
    <3>6. CharsOf(rest.entries) = CharsOf(E) - CharsOf(P)
      BY <1>1, <1>2, <3>5, PickedSum
    <3>7. Len(rest.entries) + Len(P) = Len(E)
      BY <1>1, <1>2, <3>5, PickedLengths
    <3>8. CharsOf(E) \in Nat /\ CharsOf(P) \in Nat
      BY <1>1, <1>3, CharsOfNat
    <3> HIDE DEF G, rest, others, F, P
    <3> QED BY <1>1, <2>1, <3>1, <3>3, <3>6, <3>7, <3>8
  <2> QED BY <2>2, <2>3
<1>13. Range(G) \subseteq Range(E)
  BY <1>7, <1>9, <1>11
<1>14. others.resultChars \in Int /\ others.resultChars <= MaxResultChars
  <2> HIDE DEF others
  <2>1. others.resultChars \in Int /\ cache.resultChars \in Int /\ MaxResultChars \in Int
    BY <1>1, <1>7, EngineAssumption DEF Counted
  <2> QED BY <1>1, <1>7, <2>1
<1> HIDE DEF G, others, E
<1>15. CacheOK(AfterGet(key))
  BY <1>8, <1>11, <1>12, <1>14 DEF CacheOK, Counted
<1> QED BY <1>8, <1>13, <1>15 DEF E

(* putResult and putSkip: at most the new decision is added.               *)
LEMMA AfterPutOK ==
  ASSUME NEW cc, CacheOK(cc), now \in Nat,
         NEW key \in Contents \X (Intents \cup {NoIntent}), NEW kind \in {"result", "skip"},
         NEW text \in Text \cup {None}, NEW chars \in Nat
  PROVE  /\ CacheOK(AfterPut(cc, key, kind, text, chars))
         /\ \A e \in Range(AfterPut(cc, key, kind, text, chars).entries) :
              \/ e \in Range(cc.entries)
              \/ e.key = key /\ e.kind = kind /\ e.text = text
<1> DEFINE others == Replaced(cc, key)
           e == [key |-> key, kind |-> kind, text |-> text, chars |-> chars,
                 expiresAt |-> now + CacheTtl]
           filled == [entries |-> Append(others.entries, e),
                      resultChars |-> others.resultChars + chars]
<1>1. /\ Counted(others) /\ others.resultChars <= cc.resultChars
      /\ Len(others.entries) <= Len(cc.entries)
      /\ Range(others.entries) \subseteq Range(cc.entries)
      /\ \A x \in Range(others.entries) : x.key # key
  <2> DEFINE keys == {key} \cup ExpiredKeys(cc)
  <2>1. Counted(cc) /\ key \in keys
    BY DEF CacheOK
  <2>2. others = Without(cc, keys)
    BY Zenon DEF Replaced
  <2> HIDE DEF others, keys
  <2> QED BY <2>1, <2>2, WithoutCounted
<1>2. CASE chars > MaxSingleResultChars
  <2>1. AfterPut(cc, key, kind, text, chars) = others
    BY <1>2, Zenon DEF AfterPut
  <2> HIDE DEF others
  <2>2. /\ others.resultChars \in Int /\ cc.resultChars \in Int /\ MaxResultChars \in Int
        /\ MaxEntries \in Int /\ Len(others.entries) \in Nat /\ Len(cc.entries) \in Nat
    BY <1>1, EngineAssumption DEF CacheOK, Counted
  <2>3. CacheOK(others)
    BY <1>1, <2>2 DEF CacheOK
  <2>4. \A x \in Range(others.entries) : x \in Range(cc.entries)
    BY <1>1
  <2> HIDE DEF e, filled
  <2> QED BY <2>1, <2>3, <2>4
<1>3. CASE ~(chars > MaxSingleResultChars)
  <2> DEFINE new == AfterPut(cc, key, kind, text, chars)
  <2>1. new = Bounded(filled)
    BY <1>3, Zenon DEF AfterPut
  <2>2. e \in Decision
    <3>1. now + CacheTtl \in Nat
      BY EngineAssumption
    <3> QED BY <3>1 DEF Decision
  <2> HIDE DEF others
  <2>3. others.entries \in Seq(Decision) /\ KeysOnce(others.entries)
        /\ others.resultChars = CharsOf(others.entries) /\ others.resultChars \in Int
    BY <1>1 DEF Counted
  <2> DEFINE O == others.entries
             A == Append(O, e)
  <2>4. A \in Seq(Decision) /\ Range(A) = Range(O) \cup {e} /\ CharsOf(A) = CharsOf(O) + e.chars
    BY <2>2, <2>3, AppendSequence, AppendSum
  <2>5. KeysOnce(A)
    <3> SUFFICES ASSUME NEW i \in DOMAIN A, NEW j \in DOMAIN A, A[i].key = A[j].key PROVE i = j
      BY DEF KeysOnce
    <3> HIDE DEF e
    <3>1. /\ DOMAIN A = 1 .. Len(O) + 1 /\ Len(O) \in Nat /\ A[Len(O) + 1] = e
          /\ DOMAIN O = 1 .. Len(O) /\ \A k \in 1 .. Len(O) : A[k] = O[k]
      BY <2>2, <2>3
    <3>2. e.key = key /\ \A k \in DOMAIN O : O[k].key # key
      BY <1>1 DEF e, Range
    <3> HIDE DEF A, O
    <3>3. \A k \in DOMAIN A : \/ k \in DOMAIN O /\ A[k] = O[k]
                              \/ k = Len(O) + 1 /\ A[k] = e
      <4>1. \A k \in 1 .. Len(O) + 1 : k \in 1 .. Len(O) \/ k = Len(O) + 1
        BY <3>1
      <4> QED BY <3>1, <4>1
    <3>4. \/ i = j
          \/ i \in DOMAIN O /\ A[i] = O[i] /\ j \in DOMAIN O /\ A[j] = O[j]
      BY <3>2, <3>3
    <3> QED BY <2>3, <3>4 DEF KeysOnce, O
  <2>6. e.chars = chars
    OBVIOUS
  <2> HIDE DEF A, O, e
  <2>7. Counted(filled)
    BY <2>3, <2>4, <2>5, <2>6 DEF Counted, A, O
  <2>8. CacheOK(new) /\ Range(new.entries) \subseteq Range(A)
    <3>1. CacheOK(Bounded(filled)) /\ Range(Bounded(filled).entries) \subseteq Range(filled.entries)
      BY <2>7, BoundedOK
    <3>2. filled.entries = A
      BY DEF A, O
    <3> HIDE DEF filled, new
    <3> QED BY <2>1, <3>1, <3>2
  <2>9. e.key = key /\ e.kind = kind /\ e.text = text
    BY DEF e
  <2>10. \A x \in Range(new.entries) : x \in Range(O) \/ x = e
    <3> HIDE DEF new
    <3> QED BY <2>4, <2>8
  <2>11. Range(O) \subseteq Range(cc.entries)
    BY <1>1 DEF O
  <2>12. \A x \in Range(new.entries) :
          \/ x \in Range(cc.entries)
          \/ x.key = key /\ x.kind = kind /\ x.text = text
    <3> HIDE DEF new
    <3> QED BY <2>9, <2>10, <2>11
  <2> HIDE DEF filled
  <2> QED BY <2>8, <2>12
<1> QED BY <1>2, <1>3
-----------------------------------------------------------------------------
(* The circuit breaker.  A circuit carries the streak of its strategy, and *)
(* is open exactly when the streak has reached the threshold; a threshold  *)
(* of 0 turns the breaker off.                                             *)
CircuitSound(c, streak) ==
  /\ streak \in 0 .. FailureThreshold
  /\ c.failures = streak
  /\ c.openedAt # None <=> FailureThreshold > 0 /\ streak = FailureThreshold
  /\ ~c.halfOpen

BreakerOK(C, K) ==
  /\ C \in [Kinds -> Circuit]
  /\ K \in [Kinds -> Nat]
  /\ \A k \in Kinds : CircuitSound(C[k], K[k])

(* What a run of the compressor has made of the first n sections of r, the *)
(* breaker having been C: what was cooling down is as it was, and a run    *)
(* that neither threw nor met an open circuit is the healthy one.          *)
Runs == [circuits : [Kinds -> Circuit], streaks : [Kinds -> Nat], sections : SUBSET Nat,
         cacheable : BOOLEAN, threw : BOOLEAN]

SavedAmong(r, n) == {i \in 1 .. n : Sections[r][i].outcome = "saves"}

RunOK(run, C, r, n) ==
  /\ run \in Runs
  /\ BreakerOK(run.circuits, run.streaks)
  /\ \A k \in Kinds : CoolingDown(C[k]) => run.circuits[k] = C[k]
  /\ ~run.threw /\ run.cacheable =>
       /\ \A i \in 1 .. n : Sections[r][i].outcome # "throws"
       /\ run.sections = SavedAmong(r, n)

(* A failure under a circuit that is not open keeps it in step with the    *)
(* streak, also when it is the trial after the cooldown.                   *)
LEMMA FailedSound ==
  ASSUME NEW c \in Circuit, NEW streak \in Nat, CircuitSound(c, streak), ~IsOpen(c), now \in Nat
  PROVE  LET next == IF streak < FailureThreshold THEN streak + 1 ELSE streak
         IN  Failed(Probed(c)) \in Circuit /\ CircuitSound(Failed(Probed(c)), next)
<1> DEFINE next == IF streak < FailureThreshold THEN streak + 1 ELSE streak
<1>1. /\ FailureThreshold \in Nat /\ None \notin Nat /\ now # None
      /\ c.failures \in Nat /\ c.openedAt \in Nat \cup {None} /\ c.halfOpen = FALSE
      /\ c = [failures |-> c.failures, openedAt |-> c.openedAt, halfOpen |-> FALSE]
  BY EngineAssumption DEF Circuit, CircuitSound
<1>2. CASE FailureThreshold = 0
  <2>1. c.openedAt = None /\ streak = 0 /\ next = 0
    BY <1>1, <1>2 DEF CircuitSound
  <2>2. Probed(c) = c
    BY <2>1 DEF Probed
  <2>3. Failed(c) = c
    BY <1>2 DEF Failed
  <2> QED BY <2>1, <2>2, <2>3
<1>3. CASE FailureThreshold > 0 /\ c.openedAt # None
  <2>1. streak = FailureThreshold /\ next = FailureThreshold
    BY <1>1, <1>3 DEF CircuitSound
  <2>2. Probed(c) = [failures |-> c.failures, openedAt |-> None, halfOpen |-> TRUE]
    BY <1>1, <1>3 DEF Probed
  <2>3. ~CoolingDown(Probed(c)) /\ Probed(c).halfOpen
    BY <2>2 DEF CoolingDown
  <2>4. Failed(Probed(c)) = [failures |-> FailureThreshold, openedAt |-> now, halfOpen |-> FALSE]
    <3> DEFINE p == Probed(c)
    <3> HIDE DEF p
    <3>1. ~CoolingDown(p) /\ p.halfOpen /\ FailureThreshold # 0 /\ p.openedAt = None
      BY <1>1, <1>3, <2>2, <2>3 DEF p
    <3>2. Failed(p) = [failures |-> FailureThreshold, openedAt |-> now, halfOpen |-> FALSE]
      <4>1. Probed(p) = p
        BY <3>1 DEF Probed
      <4> QED BY <3>1, <4>1 DEF Failed
    <3> QED BY <3>2 DEF p
  <2> QED BY <1>1, <1>3, <2>1, <2>4 DEF Circuit, CircuitSound
<1>4. CASE FailureThreshold > 0 /\ c.openedAt = None
  <2>1. streak < FailureThreshold /\ next = streak + 1 /\ c.failures = streak
    BY <1>1, <1>4 DEF CircuitSound
  <2>2. Probed(c) = c /\ ~CoolingDown(c) /\ ~c.halfOpen
    BY <1>1, <1>4 DEF Probed, CoolingDown
  <2>3. Failed(c) = [failures |-> streak + 1,
                     openedAt |-> IF streak + 1 >= FailureThreshold THEN now ELSE None,
                     halfOpen |-> FALSE]
    <3>1. Failed(c) = [c EXCEPT !.failures = @ + 1,
                                !.openedAt = IF c.failures + 1 >= FailureThreshold
                                               THEN now ELSE @]
      BY <1>1, <1>4, <2>2 DEF Failed
    <3> QED BY <1>1, <1>4, <2>1, <3>1
  <2>4. Failed(c) \in Circuit
    BY <1>1, <2>1, <2>3 DEF Circuit
  <2>5. CircuitSound(Failed(c), streak + 1)
    <3>1. streak + 1 \in 0 .. FailureThreshold
      BY <1>1, <2>1
    <3>2. streak + 1 >= FailureThreshold <=> streak + 1 = FailureThreshold
      BY <1>1, <2>1
    <3> QED BY <1>1, <1>4, <2>3, <3>1, <3>2 DEF CircuitSound
  <2> QED BY <2>1, <2>2, <2>4, <2>5
<1> QED BY <1>1, <1>2, <1>3, <1>4

(* One more section keeps what a run has kept so far.                      *)
LEMMA SectionKeepsRun ==
  ASSUME NEW C \in [Kinds -> Circuit], NEW r, NEW n \in Nat, NEW run, RunOK(run, C, r, n),
         Sections[r][n + 1] \in [kind : Kinds, outcome : Outcomes], now \in Nat
  PROVE  RunOK(RunSection(run, n + 1, Sections[r][n + 1]), C, r, n + 1)
<1> DEFINE section == Sections[r][n + 1]
           k == section.kind
           new == RunSection(run, n + 1, section)
<1>1. /\ k \in Kinds /\ section.outcome \in Outcomes /\ FailureThreshold \in Nat
      /\ run \in Runs /\ BreakerOK(run.circuits, run.streaks)
      /\ \A l \in Kinds : CoolingDown(C[l]) => run.circuits[l] = C[l]
  BY EngineAssumption DEF RunOK
<1>2. CASE run.threw
  <2>1. new = run
    BY <1>2 DEF RunSection
  <2> HIDE DEF new
  <2> QED BY <1>1, <1>2, <2>1 DEF RunOK, new
<1>3. CASE ~run.threw /\ IsOpen(run.circuits[k])
  <2>1. new = [run EXCEPT !.cacheable = FALSE]
    BY <1>3 DEF RunSection, LeftAlone
  <2>2. /\ new \in Runs /\ new.circuits = run.circuits /\ new.streaks = run.streaks
        /\ new.cacheable = FALSE
    BY <1>1, <2>1 DEF Runs
  <2> HIDE DEF new
  <2> QED BY <1>1, <2>2 DEF RunOK, new
<1>4. CASE ~run.threw /\ ~IsOpen(run.circuits[k])
  <2> DEFINE c == run.circuits[k]
  <2>1. c \in Circuit /\ CircuitSound(c, run.streaks[k]) /\ run.streaks[k] \in Nat
    BY <1>1 DEF BreakerOK
  <2>2. ~CoolingDown(C[k])
    <3> SUFFICES ASSUME CoolingDown(C[k]) PROVE FALSE
      OBVIOUS
    <3>1. CoolingDown(c) /\ c.openedAt # None
      BY <1>1 DEF CoolingDown
    <3>2. FailureThreshold > 0
      BY <2>1, <3>1 DEF CircuitSound
    <3> QED BY <1>4, <3>1, <3>2 DEF IsOpen
  <2>3. CASE section.outcome = "throws"
    <3> DEFINE d == Failed(Probed(c))
               next == IF run.streaks[k] < FailureThreshold THEN run.streaks[k] + 1
                       ELSE run.streaks[k]
    <3>1. d \in Circuit /\ CircuitSound(d, next)
      BY <1>4, <2>1, FailedSound
    <3>2. new = Threw(run, k)
      BY <1>4, <2>3 DEF RunSection
    <3>3. new = [run EXCEPT !.circuits[k] = d, !.streaks[k] = next, !.threw = TRUE]
      <4> HIDE DEF new
      <4> QED BY <3>2, Zenon DEF Threw
    <3>4. next \in Nat
      BY <3>1 DEF CircuitSound
    <3> HIDE DEF d, next, new
    <3>5. /\ new \in Runs /\ new.threw = TRUE
          /\ new.circuits = [run.circuits EXCEPT ![k] = d]
          /\ new.streaks = [run.streaks EXCEPT ![k] = next]
      BY <1>1, <3>1, <3>3, <3>4 DEF Runs
    <3>6. BreakerOK(new.circuits, new.streaks)
      BY <1>1, <3>1, <3>4, <3>5 DEF BreakerOK
    <3>7. \A l \in Kinds : CoolingDown(C[l]) => new.circuits[l] = C[l]
      BY <1>1, <2>2, <3>5 DEF BreakerOK
    <3> QED BY <3>5, <3>6, <3>7 DEF RunOK, new
  <2>4. CASE section.outcome # "throws"
    <3> DEFINE saved == IF section.outcome = "saves" THEN {n + 1} ELSE {}
    <3>1. new = Succeeded(run, k, n + 1, section.outcome)
      BY <1>4, <2>4 DEF RunSection
    <3>2. new = [run EXCEPT !.circuits[k] = NoFailures, !.streaks[k] = 0,
                            !.sections = @ \cup saved]
      <4> HIDE DEF new
      <4> QED BY <3>1, Zenon DEF Succeeded, Closed
    <3>3. NoFailures \in Circuit /\ CircuitSound(NoFailures, 0)
      BY <1>1 DEF NoFailures, Circuit, CircuitSound
    <3>4. saved \in SUBSET Nat
      OBVIOUS
    <3> HIDE DEF saved, new
    <3>5. /\ new \in Runs /\ new.threw = run.threw /\ new.cacheable = run.cacheable
          /\ new.circuits = [run.circuits EXCEPT ![k] = NoFailures]
          /\ new.streaks = [run.streaks EXCEPT ![k] = 0]
          /\ new.sections = run.sections \cup saved
      BY <1>1, <3>2, <3>3, <3>4 DEF Runs
    <3>6. BreakerOK(new.circuits, new.streaks)
      BY <1>1, <3>3, <3>5 DEF BreakerOK
    <3>7. \A l \in Kinds : CoolingDown(C[l]) => new.circuits[l] = C[l]
      BY <1>1, <2>2, <3>5 DEF BreakerOK
    <3>8. ASSUME ~new.threw, new.cacheable
          PROVE  /\ \A i \in 1 .. n + 1 : Sections[r][i].outcome # "throws"
                 /\ new.sections = SavedAmong(r, n + 1)
      <4>1. /\ \A i \in 1 .. n : Sections[r][i].outcome # "throws"
            /\ run.sections = SavedAmong(r, n)
        BY <3>5, <3>8 DEF RunOK
      <4>2. \A i : i \in 1 .. n + 1 <=> i \in 1 .. n \/ i = n + 1
        OBVIOUS
      <4>3. SavedAmong(r, n + 1) = SavedAmong(r, n) \cup saved
        BY <4>2 DEF SavedAmong, saved
      <4> QED BY <2>4, <3>5, <4>1, <4>2, <4>3
    <3> QED BY <3>5, <3>6, <3>7, <3>8 DEF RunOK, new
  <2> QED BY <2>3, <2>4
<1> QED BY <1>2, <1>3, <1>4

(* The runs over longer and longer prefixes of the sections.               *)
RunsOf(C, K, r) ==
  LET run[n \in 0 .. Len(Sections[r])] ==
        IF n = 0 THEN [circuits |-> C, streaks |-> K, sections |-> {},
                       cacheable |-> TRUE, threw |-> FALSE]
        ELSE RunSection(run[n - 1], n, Sections[r][n])
  IN  run

AreRuns(f, base, r, N) ==
  f = [n \in 0 .. N |-> IF n = 0 THEN base ELSE RunSection(f[n - 1], n, Sections[r][n])]

LEMMA RunsExist ==
  ASSUME NEW base, NEW r, NEW N \in Nat
  PROVE  \E f : AreRuns(f, base, r, N)
<1> DEFINE IsRun(f, m) ==
             f = [n \in 0 .. m |->
                    IF n = 0 THEN base ELSE RunSection(f[n - 1], n, Sections[r][n])]
           T == {m \in Nat : \E f : IsRun(f, m)}
<1>1. 0 \in T
  <2>1. IsRun([n \in 0 .. 0 |-> base], 0)
    OBVIOUS
  <2> QED BY <2>1
<1>2. \A m \in T : m + 1 \in T
  <2> TAKE m \in T
  <2>1. PICK f : IsRun(f, m)
    OBVIOUS
  <2> DEFINE g == [n \in 0 .. m + 1 |->
                     IF n <= m THEN f[n] ELSE RunSection(f[m], m + 1, Sections[r][m + 1])]
  <2>2. DOMAIN f = 0 .. m /\ m \in Nat
    BY <2>1
  <2>3. ASSUME NEW n \in 0 .. m + 1
        PROVE  g[n] = IF n = 0 THEN base ELSE RunSection(g[n - 1], n, Sections[r][n])
    <3>1. CASE n = 0
      BY <2>1, <2>2, <3>1
    <3>2. CASE n \in 1 .. m
      <4>1. n <= m /\ n - 1 \in 0 .. m /\ n - 1 <= m /\ n # 0 /\ n - 1 \in 0 .. m + 1 /\ n \in 0 .. m
        BY <2>2, <3>2
      <4>2. f[n] = RunSection(f[n - 1], n, Sections[r][n])
        BY <2>1, <4>1
      <4>3. g[n] = f[n] /\ g[n - 1] = f[n - 1]
        BY <4>1
      <4> HIDE DEF g
      <4> QED BY <4>1, <4>2, <4>3
    <3>3. CASE n = m + 1
      <4>1. ~(n <= m) /\ n - 1 = m /\ m <= m /\ n # 0 /\ m \in 0 .. m + 1
        BY <2>2, <3>3
      <4>2. g[n] = RunSection(f[m], m + 1, Sections[r][m + 1]) /\ g[n - 1] = f[m]
        BY <4>1
      <4> HIDE DEF g
      <4> QED BY <3>3, <4>1, <4>2
    <3> QED BY <2>2, <3>1, <3>2, <3>3
  <2>4. DOMAIN g = 0 .. m + 1 /\ g = [n \in 0 .. m + 1 |-> g[n]]
    OBVIOUS
  <2>5. \E h : IsRun(h, m + 1)
    <3> HIDE DEF g
    <3>1. g = [n \in 0 .. m + 1 |->
                 IF n = 0 THEN base ELSE RunSection(g[n - 1], n, Sections[r][n])]
      BY <2>3, <2>4
    <3> QED BY <3>1
  <2> QED BY <2>2, <2>5
<1>3. \A m \in Nat : m \in T
  <2> HIDE DEF T
  <2>1. T \subseteq Nat
    BY DEF T
  <2> QED BY <1>1, <1>2, <2>1, Induction
<1> HIDE DEF T
<1>4. \E f : IsRun(f, N)
  BY <1>3 DEF T
<1> QED BY <1>4, Zenon DEF AreRuns

(* A whole run of the compressor.                                          *)
Healthy(r, sections) ==
  /\ \A i \in DOMAIN Sections[r] : Sections[r][i].outcome # "throws"
  /\ sections = {i \in DOMAIN Sections[r] : Sections[r][i].outcome = "saves"}

(* By induction on the sections: what a run returns.                       *)
LEMMA RunCompressorOK ==
  ASSUME NEW C, NEW K, BreakerOK(C, K), NEW r \in Requests, now \in Nat
  PROVE  /\ RunCompressor(C, K, r) \in Runs
         /\ BreakerOK(RunCompressor(C, K, r).circuits, RunCompressor(C, K, r).streaks)
         /\ \A k \in Kinds : CoolingDown(C[k]) => RunCompressor(C, K, r).circuits[k] = C[k]
         /\ ~RunCompressor(C, K, r).threw /\ RunCompressor(C, K, r).cacheable =>
              Healthy(r, RunCompressor(C, K, r).sections)
<1> DEFINE N == Len(Sections[r])
           base == [circuits |-> C, streaks |-> K, sections |-> {},
                    cacheable |-> TRUE, threw |-> FALSE]
           f == RunsOf(C, K, r)
           T == {m \in Nat : m <= N => RunOK(f[m], C, r, m)}
<1>1. /\ Sections[r] \in Seq([kind : Kinds, outcome : Outcomes]) /\ N \in Nat
      /\ DOMAIN Sections[r] = 1 .. N
      /\ \A n \in 1 .. N : Sections[r][n] \in [kind : Kinds, outcome : Outcomes]
  <2> DEFINE Section == [kind : Kinds, outcome : Outcomes]
  <2>1. Sections[r] \in Seq(Section)
    <3> HIDE DEF Section
    <3>1. Sections \in [Requests -> Seq(Section) \ {<<>>}]
      BY EngineAssumption DEF Section
    <3> QED BY <3>1
  <2> HIDE DEF Section
  <2>2. /\ N \in Nat /\ DOMAIN Sections[r] = 1 .. N
        /\ \A n \in 1 .. N : Sections[r][n] \in Section
    BY <2>1
  <2> QED BY <2>1, <2>2 DEF Section
<1>2. f = [n \in 0 .. N |-> IF n = 0 THEN base ELSE RunSection(f[n - 1], n, Sections[r][n])]
  <2>1. \E g : AreRuns(g, base, r, N)
    <3> HIDE DEF base, N
    <3> QED BY <1>1, RunsExist
  <2>2. \E g : g = [n \in 0 .. N |-> IF n = 0 THEN base ELSE RunSection(g[n - 1], n, Sections[r][n])]
    BY <2>1, Zenon DEF AreRuns
  <2> QED BY <2>2, Zenon DEF RunsOf
<1>3. RunCompressor(C, K, r) = f[N]
  BY Zenon DEF RunCompressor, RunsOf
<1> HIDE DEF f, N
<1>4. f[0] = base /\ \A n \in 1 .. N : f[n] = RunSection(f[n - 1], n, Sections[r][n])
  <2>1. 0 \in 0 .. N /\ \A n \in 1 .. N : n \in 0 .. N /\ n # 0
    BY <1>1
  <2> HIDE DEF base
  <2> QED BY <1>2, <2>1
<1>5. C \in [Kinds -> Circuit] /\ K \in [Kinds -> Nat]
  BY DEF BreakerOK
<1>6. 0 \in T
  <2>1. base \in Runs
    BY <1>5 DEF Runs
  <2>2. SavedAmong(r, 0) = {}
    BY DEF SavedAmong
  <2>3. RunOK(base, C, r, 0)
    BY <2>1, <2>2 DEF RunOK
  <2> QED BY <1>4, <2>3
<1>7. \A m \in T : m + 1 \in T
  <2> SUFFICES ASSUME NEW m \in T, m + 1 <= N PROVE RunOK(f[m + 1], C, r, m + 1)
    OBVIOUS
  <2>1. m \in Nat /\ m + 1 \in 1 .. N /\ (m + 1) - 1 = m /\ m <= N
    BY <1>1
  <2>2. RunOK(f[m], C, r, m)
    BY <2>1
  <2>3. f[m + 1] = RunSection(f[m], m + 1, Sections[r][m + 1])
    BY <1>4, <2>1
  <2>4. Sections[r][m + 1] \in [kind : Kinds, outcome : Outcomes]
    BY <1>1, <2>1
  <2>5. RunOK(RunSection(f[m], m + 1, Sections[r][m + 1]), C, r, m + 1)
    BY <1>5, <2>1, <2>2, <2>4, SectionKeepsRun
  <2> QED BY <2>3, <2>5
<1>8. \A m \in Nat : m \in T
  <2> HIDE DEF T
  <2>1. T \subseteq Nat
    BY DEF T
  <2> QED BY <1>6, <1>7, <2>1, Induction
<1>9. RunOK(f[N], C, r, N)
  BY <1>1, <1>8
<1>10. SavedAmong(r, N) = {i \in DOMAIN Sections[r] : Sections[r][i].outcome = "saves"}
  BY <1>1 DEF SavedAmong
<1> QED BY <1>1, <1>3, <1>9, <1>10 DEF RunOK, Healthy
-----------------------------------------------------------------------------
(* The rows of the store: every text bears the hash of its row, no other   *)
(* original is under that hash.                                            *)
RowsOK(R) ==
  /\ R \in Seq(Row)
  /\ Len(R) <= MaxRows
  /\ \A x \in Range(R) :
       /\ x.text.hash = x.hash
       /\ x.text.request.content = x.content
       /\ \A y \in Range(R) : y.hash = x.hash => y.content = x.content

(* The elements of a sequence have its type.                               *)
LEMMA RangeTyped ==
  ASSUME NEW S, NEW s \in Seq(S)
  PROVE  \A x \in Range(s) : x \in S
BY DEF Range

(* Dropping rows endangers none of the others.                             *)
LEMMA FewerRowsOK ==
  ASSUME NEW R, RowsOK(R), NEW I \in SUBSET DOMAIN R
  PROVE  RowsOK(Picked(R, I))
<1>1. R \in Seq(Row) /\ Len(R) <= MaxRows /\ MaxRows \in Nat /\ Len(R) \in Nat
  BY EngineAssumption DEF RowsOK
<1>2. /\ Picked(R, I) \in Seq(Row) /\ Len(Picked(R, I)) <= Len(R)
      /\ Range(Picked(R, I)) = {R[i] : i \in I}
  BY <1>1, PickedSequence
<1>3. Range(Picked(R, I)) \subseteq Range(R)
  BY <1>2 DEF Range
<1>4. Len(Picked(R, I)) <= MaxRows
  <2>1. Len(Picked(R, I)) \in Nat
    BY <1>2
  <2> QED BY <1>1, <1>2, <2>1
<1> QED BY <1>2, <1>3, <1>4 DEF RowsOK

(* One content has more candidate hashes than the store has rows, so that  *)
(* one of them is free or its own: a pigeonhole argument.                  *)
LEMMA AllocatedHashUsable ==
  ASSUME NEW R, RowsOK(R), NEW c \in Contents
  PROVE  /\ AllocatedHash(R, c) \in Hashes
         /\ \A x \in Range(R) : x.hash = AllocatedHash(R, c) => x.content = c
<1> DEFINE A == DOMAIN CandidateHash[c]
           hash(n) == CandidateHash[c][n]
           Usable(n) == \A x \in Range(R) : x.hash = hash(n) => x.content = c
           First(n) == Usable(n) /\ \A m \in 1 .. n - 1 : ~Usable(m)
           T == {n \in A : Usable(n)}
           k == CHOOSE n \in A : First(n)
<1>1. /\ R \in Seq(Row) /\ Len(R) <= MaxRows /\ Len(R) \in Nat /\ MaxRows \in Nat
      /\ DOMAIN R = 1 .. Len(R)
  BY EngineAssumption DEF RowsOK
<1>2. /\ CandidateHash[c] \in Seq(Hashes) /\ A = 1 .. Len(CandidateHash[c])
      /\ Len(CandidateHash[c]) \in Nat /\ Len(CandidateHash[c]) > MaxRows
      /\ \A n \in A : hash(n) \in Hashes
      /\ \A m, n \in A : hash(m) = hash(n) => m = n
  <2>1. CandidateHash[c] \in Seq(Hashes)
    BY EngineAssumption
  <2>2. Len(CandidateHash[c]) > MaxRows /\ IsInjective(CandidateHash[c])
    BY EnoughAttempts
  <2> QED BY <2>1, <2>2 DEF IsInjective
<1>3. \E n \in A : Usable(n)
  <2> SUFFICES ASSUME \A n \in A : ~Usable(n) PROVE FALSE
    OBVIOUS
  <2> DEFINE holder == [n \in A |-> CHOOSE i \in DOMAIN R : R[i].hash = hash(n)]
  <2>1. \A n \in A : \E i \in DOMAIN R : R[i].hash = hash(n)
    BY DEF Range
  <2>2. \A n \in A : holder[n] \in 1 .. Len(R) /\ R[holder[n]].hash = hash(n)
    BY <1>1, <2>1
  <2>3. holder \in [A -> 1 .. Len(R)]
    BY <2>2
  <2>4. IsFiniteSet(A) /\ Cardinality(A) = Len(CandidateHash[c])
    BY <1>2, IntervalSize
  <2>5. IsFiniteSet(1 .. Len(R)) /\ Cardinality(1 .. Len(R)) = Len(R)
    BY <1>1, IntervalSize
  <2>6. Cardinality(1 .. Len(R)) < Cardinality(A)
    BY <1>1, <1>2, <2>4, <2>5
  <2> HIDE DEF holder, A
  <2>7. PICK m, n \in A : m # n /\ holder[m] = holder[n]
    BY <2>3, <2>4, <2>5, <2>6, FS_PigeonHole
  <2> QED BY <1>2, <2>2, <2>7
<1>4. \E n \in A : First(n)
  <2>1. T # {} /\ T \subseteq Nat
    BY <1>2, <1>3
  <2>2. PICK n \in T : \A y \in T : n <= y
    BY <2>1, LeastNat
  <2>3. \A m \in 1 .. n - 1 : ~Usable(m)
    <3> SUFFICES ASSUME NEW m \in 1 .. n - 1, Usable(m) PROVE FALSE
      OBVIOUS
    <3>1. m \in A /\ m < n /\ n \in Nat /\ m \in Nat
      BY <1>2
    <3> HIDE DEF Usable
    <3>2. m \in T
      BY <3>1
    <3> QED BY <2>2, <3>1, <3>2
  <2> QED BY <2>2, <2>3
<1>5. k \in A /\ Usable(k)
  <2> HIDE DEF Usable
  <2> QED BY <1>4
<1>6. AllocatedHash(R, c) = hash(k)
  BY Zenon DEF AllocatedHash
<1> HIDE DEF k
<1> QED BY <1>2, <1>5, <1>6

(* put rewrites the store's rows for a text that bears an allocated hash.  *)
LEMMA RowAdded ==
  ASSUME NEW R, RowsOK(R), NEW row \in Row,
         row.hash = AllocatedHash(R, row.content), row.text.hash = row.hash,
         row.text.request.content = row.content
  PROVE  RowsOK(LastOf(Append(R, row), MaxRows))
<1> DEFINE A == Append(R, row)
<1>1. R \in Seq(Row) /\ MaxRows \in Nat \ {0} /\ row.content \in Contents
  BY EngineAssumption DEF RowsOK, Row
<1>2. A \in Seq(Row) /\ Range(A) = Range(R) \cup {row}
  BY <1>1, AppendSequence
<1>3. \A x \in Range(R) : x.hash = row.hash => x.content = row.content
  BY <1>1, AllocatedHashUsable
<1> HIDE DEF A
<1>4. /\ LastOf(A, MaxRows) \in Seq(Row) /\ Len(LastOf(A, MaxRows)) <= MaxRows
      /\ Range(LastOf(A, MaxRows)) \subseteq Range(A)
  BY <1>1, <1>2, LastOfSequence
<1>5. \A x \in Range(A) :
        /\ x.text.hash = x.hash
        /\ x.text.request.content = x.content
        /\ \A y \in Range(A) : y.hash = x.hash => y.content = x.content
  BY <1>2, <1>3 DEF RowsOK
<1> QED BY <1>4, <1>5 DEF RowsOK, A
-----------------------------------------------------------------------------
(* The latest intents and the repetition fingerprints.                     *)
IntentsOK(R) == R \in Seq(Intent) /\ Len(R) <= MaxIntents

RepetitionOK(R) ==
  /\ R \in Seq(Fingerprints)
  /\ Len(R) <= MaxSessions
  /\ \A x \in Range(R) : Len(x.entries) <= MaxEntriesPerSession

(* A call has a request for the content it works on.                       *)
LEMMA RequestTyped ==
  ASSUME IntentsOK(intents), NEW call \in Calls, hooks[call].content \in Contents
  PROVE  RequestOf(call) \in Requests /\ RequestOf(call).content = hooks[call].content
<1> DEFINE s == hooks[call].session
           own == {x.text : x \in {y \in Range(intents) : y.session = s}}
<1>1. \A x \in Range(intents) : x \in Intent
  BY RangeTyped DEF IntentsOK
<1>2. own \subseteq Intents
  BY <1>1 DEF Intent
<1>3. IntentOf(s) = IF own = {} THEN NoIntent ELSE CHOOSE text \in own : TRUE
  BY Zenon DEF IntentOf
<1> HIDE DEF own
<1>4. IntentOf(s) \in Intents \cup {NoIntent}
  BY <1>2, <1>3
<1> QED BY <1>4 DEF RequestOf, Requests

(* The live fingerprints of a session; one that has any is in the store.   *)
LEMMA EntriesTyped ==
  ASSUME RepetitionOK(repetition), NEW s
  PROVE  /\ EntriesOf(s) \in Seq(Fingerprint)
         /\ Len(EntriesOf(s)) <= MaxEntriesPerSession
         /\ EntriesOf(s) # <<>> => \E i \in DOMAIN repetition : repetition[i].session = s
<1> DEFINE own == {x.entries : x \in {y \in Range(repetition) : y.session = s}}
           E == CHOOSE F \in own : TRUE
<1>1. \A x \in Range(repetition) : x \in Fingerprints /\ Len(x.entries) <= MaxEntriesPerSession
  BY RangeTyped DEF RepetitionOK
<1>2. EntriesOf(s) = IF own = {} THEN <<>> ELSE Unexpired(E)
  BY Zenon DEF EntriesOf
<1>3. MaxEntriesPerSession \in Nat
  BY EngineAssumption
<1>4. CASE own = {}
  BY <1>2, <1>3, <1>4
<1>5. CASE own # {}
  <2>1. E \in own
    BY <1>5
  <2>2. PICK x \in Range(repetition) : x.session = s /\ x.entries = E
    BY <2>1
  <2> HIDE DEF E
  <2>3. E \in Seq(Fingerprint) /\ Len(E) <= MaxEntriesPerSession /\ Len(E) \in Nat
    BY <1>1, <2>2 DEF Fingerprints
  <2> DEFINE I == {i \in DOMAIN E : E[i].expiresAt > now}
  <2>4. Unexpired(E) = Picked(E, I) /\ I \in SUBSET DOMAIN E
    BY Zenon DEF Unexpired
  <2> HIDE DEF I
  <2>5. Picked(E, I) \in Seq(Fingerprint) /\ Len(Picked(E, I)) <= Len(E)
    BY <2>3, <2>4, PickedSequence
  <2>6. Len(Picked(E, I)) \in Nat
    BY <2>5
  <2>7. \E i \in DOMAIN repetition : repetition[i].session = s
    BY <2>2 DEF Range
  <2> HIDE DEF own
  <2> QED BY <1>2, <1>3, <1>5, <2>3, <2>4, <2>5, <2>6, <2>7
<1> QED BY <1>4, <1>5

(* Dropping a session that is there leaves fewer.                          *)
LEMMA OthersTyped ==
  ASSUME NEW S, NEW R \in Seq(S), NEW s
  PROVE  /\ OfOthers(R, s) \in Seq(S) /\ Len(OfOthers(R, s)) <= Len(R)
         /\ Range(OfOthers(R, s)) \subseteq Range(R)
         /\ (\E i \in DOMAIN R : R[i].session = s) => Len(OfOthers(R, s)) < Len(R)
<1> DEFINE I == {i \in DOMAIN R : R[i].session # s}
<1>1. I \in SUBSET DOMAIN R /\ DOMAIN R \ I \in SUBSET DOMAIN R /\ OfOthers(R, s) = Picked(R, I)
  BY Zenon DEF OfOthers
<1>2. \A i \in DOMAIN R : R[i].session = s => i \in DOMAIN R \ I
  OBVIOUS
<1> HIDE DEF I
<1>3. /\ Picked(R, I) \in Seq(S) /\ Len(Picked(R, I)) <= Len(R)
      /\ Range(Picked(R, I)) = {R[i] : i \in I}
  BY <1>1, PickedSequence
<1>4. Range(Picked(R, I)) \subseteq Range(R)
  BY <1>1, <1>3 DEF Range
<1>5. ASSUME \E i \in DOMAIN R : R[i].session = s
      PROVE  Len(Picked(R, I)) < Len(R)
  <2>1. PICK i \in DOMAIN R \ I : TRUE
    BY <1>2, <1>5
  <2> DEFINE Q == Picked(R, DOMAIN R \ I)
  <2>2. Q \in Seq(S) /\ Range(Q) = {R[j] : j \in DOMAIN R \ I}
    BY <1>1, PickedSequence
  <2>3. Len(Q) + Len(Picked(R, I)) = Len(R)
    BY <1>1, PickedLengths
  <2> HIDE DEF Q
  <2>4. Q # <<>>
    <3>1. R[i] \in Range(Q)
      BY <2>1, <2>2
    <3> QED BY <3>1 DEF Range
  <2>5. Len(Q) > 0
    BY <2>2, <2>4
  <2>6. Len(Q) \in Nat /\ Len(Picked(R, I)) \in Nat /\ Len(R) \in Nat
    BY <1>3, <2>2
  <2> QED BY <2>3, <2>5, <2>6
<1> QED BY <1>1, <1>3, <1>4, <1>5

(* chat.message keeps the latest intents within their limit.               *)
LEMMA IntentAdded ==
  ASSUME IntentsOK(intents), NEW s \in Sessions, NEW text \in Intents
  PROVE  IntentsOK(LastOf(Append(OfOthers(intents, s), [session |-> s, text |-> text]),
                          MaxIntents))
<1> DEFINE O == OfOthers(intents, s)
           x == [session |-> s, text |-> text]
<1>1. O \in Seq(Intent) /\ x \in Intent /\ MaxIntents \in Nat \ {0}
  BY OthersTyped, EngineAssumption DEF IntentsOK, Intent
<1> HIDE DEF O, x
<1>2. Append(O, x) \in Seq(Intent)
  BY <1>1
<1>3. IntentsOK(LastOf(Append(O, x), MaxIntents))
  BY <1>1, <1>2, LastOfSequence DEF IntentsOK
<1> QED BY <1>3 DEF O, x

(* Deleting the intent of a session keeps the others.                      *)
LEMMA IntentDropped ==
  ASSUME IntentsOK(intents), NEW s
  PROVE  IntentsOK(OfOthers(intents, s))
<1>1. /\ intents \in Seq(Intent) /\ Len(intents) <= MaxIntents /\ MaxIntents \in Nat
      /\ Len(intents) \in Nat
  BY EngineAssumption DEF IntentsOK
<1>2. OfOthers(intents, s) \in Seq(Intent) /\ Len(OfOthers(intents, s)) <= Len(intents)
  BY <1>1, OthersTyped
<1>3. Len(OfOthers(intents, s)) \in Nat
  BY <1>2
<1> QED BY <1>1, <1>2, <1>3 DEF IntentsOK

(* Making a session the most recent: it has room, because it was there.    *)
LEMMA TouchedTyped ==
  ASSUME RepetitionOK(repetition), NEW s \in Sessions, NEW E \in Seq(Fingerprint),
         Len(E) <= MaxEntriesPerSession
  PROVE  /\ Touched(s, E) \in Seq(Fingerprints)
         /\ \A x \in Range(Touched(s, E)) : Len(x.entries) <= MaxEntriesPerSession
         /\ E # <<>> => Touched(s, E) # <<>>
         /\ E = <<>> \/ (\E i \in DOMAIN repetition : repetition[i].session = s)
              => Len(Touched(s, E)) <= MaxSessions
<1> DEFINE O == OfOthers(repetition, s)
           x == [session |-> s, entries |-> E]
<1>1. /\ repetition \in Seq(Fingerprints) /\ Len(repetition) <= MaxSessions
      /\ MaxSessions \in Nat /\ Len(repetition) \in Nat
  BY EngineAssumption DEF RepetitionOK
<1>2. /\ O \in Seq(Fingerprints) /\ Len(O) <= Len(repetition)
      /\ Range(O) \subseteq Range(repetition)
      /\ (\E i \in DOMAIN repetition : repetition[i].session = s) => Len(O) < Len(repetition)
  BY <1>1, OthersTyped
<1>3. Touched(s, E) = IF E = <<>> THEN O ELSE Append(O, x)
  BY Zenon DEF Touched
<1> HIDE DEF O
<1>4. Len(O) \in Nat
  BY <1>2
<1>5. \A y \in Range(O) : Len(y.entries) <= MaxEntriesPerSession
  BY <1>2 DEF RepetitionOK
<1>6. CASE E = <<>>
  BY <1>1, <1>2, <1>3, <1>4, <1>5, <1>6
<1>7. CASE E # <<>>
  <2>1. x \in Fingerprints /\ x.entries = E
    BY <1>7 DEF Fingerprints
  <2> HIDE DEF x
  <2>2. /\ Append(O, x) \in Seq(Fingerprints) /\ Len(Append(O, x)) = Len(O) + 1
        /\ Range(Append(O, x)) = Range(O) \cup {x}
    BY <1>2, <2>1, AppendSequence
  <2>3. Append(O, x) # <<>>
    BY <1>4, <2>2
  <2> QED BY <1>1, <1>2, <1>3, <1>4, <1>5, <1>7, <2>1, <2>2, <2>3
<1> QED BY <1>6, <1>7

(* match and deleteSession keep the fingerprints within their limits.      *)
LEMMA RepetitionRefreshed ==
  ASSUME RepetitionOK(repetition), NEW s \in Sessions
  PROVE  RepetitionOK(Touched(s, EntriesOf(s))) /\ RepetitionOK(Touched(s, <<>>))
<1>1. /\ EntriesOf(s) \in Seq(Fingerprint) /\ Len(EntriesOf(s)) <= MaxEntriesPerSession
      /\ EntriesOf(s) # <<>> => \E i \in DOMAIN repetition : repetition[i].session = s
  BY EntriesTyped
<1>2. <<>> \in Seq(Fingerprint) /\ Len(<<>>) <= MaxEntriesPerSession
  BY EngineAssumption
<1>3. RepetitionOK(Touched(s, EntriesOf(s)))
  BY <1>1, TouchedTyped DEF RepetitionOK
<1> QED BY <1>2, <1>3, TouchedTyped DEF RepetitionOK

(* record keeps the fingerprints within their limits.                      *)
LEMMA RepetitionRecorded ==
  ASSUME RepetitionOK(repetition), NEW s \in Sessions, NEW c \in Contents, NEW t \in Nat
  PROVE  RepetitionOK(Recorded(s, c, t))
<1> DEFINE e == [signature |-> BaseHash(c), content |-> c, expiresAt |-> t]
           A == Append(EntriesOf(s), e)
           L == LastOf(A, MaxEntriesPerSession)
           R == Touched(s, L)
<1>1. BaseHash(c) \in Hashes
  <2>1. CandidateHash[c] \in Seq(Hashes) /\ CandidateHash[c] # <<>>
    BY EngineAssumption
  <2> QED BY <2>1 DEF BaseHash
<1>2. e \in Fingerprint
  BY <1>1 DEF Fingerprint
<1>3. Recorded(s, c, t) = LastOf(R, MaxSessions)
  BY Zenon DEF Recorded
<1> HIDE DEF e
<1>4. A \in Seq(Fingerprint)
  BY <1>2, EntriesTyped
<1>5. MaxEntriesPerSession \in Nat \ {0} /\ MaxSessions \in Nat \ {0}
  BY EngineAssumption
<1> HIDE DEF A
<1>6. L \in Seq(Fingerprint) /\ Len(L) <= MaxEntriesPerSession
  BY <1>4, <1>5, LastOfSequence
<1> HIDE DEF L
<1>7. /\ R \in Seq(Fingerprints)
      /\ \A x \in Range(R) : Len(x.entries) <= MaxEntriesPerSession
  BY <1>6, TouchedTyped
<1> HIDE DEF R
<1>8. /\ LastOf(R, MaxSessions) \in Seq(Fingerprints) /\ Len(LastOf(R, MaxSessions)) <= MaxSessions
      /\ Range(LastOf(R, MaxSessions)) \subseteq Range(R)
  BY <1>5, <1>7, LastOfSequence
<1> QED BY <1>3, <1>7, <1>8 DEF RepetitionOK
-----------------------------------------------------------------------------
(* The inductive invariant.  A decision that may be cached, in the cache   *)
(* or carried by a hook across its await, is that of a healthy run.        *)
DecisionSound(e) ==
  \E r \in Requests :
    /\ e.key = DecisionKey(r)
    /\ IF e.kind = "skip" THEN Healthy(r, {})
       ELSE /\ e.text \in Text /\ e.text.request = r
            /\ Healthy(r, e.text.sections) /\ e.text.sections # {}

CacheSound(cc) == CacheOK(cc) /\ \A e \in Range(cc.entries) : DecisionSound(e)

Remembers(text) == Healthy(text.request, text.sections) /\ text.sections # {}

HooksOK(H) ==
  /\ H \in [Calls -> Hook]
  /\ \A call \in Calls : H[call].pc = "stored" /\ H[call].remember => Remembers(H[call].text)

CountersOK ==
  /\ deletion \in [Sessions -> {"alive", "rows", "deleted"}]
  /\ disposed \in BOOLEAN /\ events \in 0 .. MaxEvents /\ now \in 0 .. MaxTime

IInv ==
  /\ RowsOK(rows)
  /\ IntentsOK(intents)
  /\ RepetitionOK(repetition)
  /\ CacheSound(cache)
  /\ BreakerOK(circuits, streaks)
  /\ HooksOK(hooks)
  /\ CountersOK

(* A circuit that is cooling down is as it was.                            *)
Shielded(C, D) == \A k \in Kinds : CoolingDown(C[k]) => D[k] = C[k]
-----------------------------------------------------------------------------
(* A rendering bears the hash it was asked for, and is either the text as  *)
(* it was or that of a healthy run.                                        *)
LEMMA RenderedOK ==
  ASSUME NEW C, NEW K, BreakerOK(C, K), NEW text \in Text, NEW h \in Hashes, now \in Nat
  PROVE  /\ BreakerOK(RenderedFor(C, K, text, h).circuits, RenderedFor(C, K, text, h).streaks)
         /\ Shielded(C, RenderedFor(C, K, text, h).circuits)
         /\ ~RenderedFor(C, K, text, h).failed =>
              /\ RenderedFor(C, K, text, h).text \in Text
              /\ RenderedFor(C, K, text, h).text.hash = h
              /\ RenderedFor(C, K, text, h).text.request = text.request
              /\ \/ RenderedFor(C, K, text, h).text.sections = text.sections
                 \/ Remembers(RenderedFor(C, K, text, h).text)
<1> DEFINE R == RenderedFor(C, K, text, h)
           run == RunCompressor(C, K, text.request)
<1>1. text.request \in Requests
  BY DEF Text
<1>2. CASE h = text.hash
  <2>1. R = Result(C, K, text, FALSE)
    BY <1>2, Zenon DEF RenderedFor
  <2> HIDE DEF R
  <2>2. R.circuits = C /\ R.streaks = K /\ R.text = text
    BY <2>1 DEF Result
  <2> QED BY <1>2, <2>2 DEF Shielded, R
<1>3. CASE h # text.hash
  <2>1. R = Result(run.circuits, run.streaks, [text EXCEPT !.sections = run.sections, !.hash = h],
                   run.threw \/ ~run.cacheable \/ run.sections = {})
    BY <1>3, Zenon DEF RenderedFor
  <2>2. /\ run \in Runs /\ BreakerOK(run.circuits, run.streaks)
        /\ \A k \in Kinds : CoolingDown(C[k]) => run.circuits[k] = C[k]
        /\ ~run.threw /\ run.cacheable => Healthy(text.request, run.sections)
    BY <1>1, RunCompressorOK
  <2> HIDE DEF R, run
  <2>3. /\ R.circuits = run.circuits /\ R.streaks = run.streaks
        /\ R.text = [text EXCEPT !.sections = run.sections, !.hash = h]
        /\ R.failed = (run.threw \/ ~run.cacheable \/ run.sections = {})
    BY <2>1 DEF Result
  <2>4. run.sections \in SUBSET Nat
    BY <2>2 DEF Runs
  <2>5. /\ R.text \in Text /\ R.text.hash = h /\ R.text.request = text.request
        /\ R.text.sections = run.sections
    BY <2>3, <2>4 DEF Text
  <2>6. ~R.failed => ~run.threw /\ run.cacheable /\ run.sections # {}
    BY <2>3
  <2>7. ~R.failed => Remembers(R.text)
    BY <2>2, <2>5, <2>6 DEF Remembers
  <2> QED BY <2>2, <2>3, <2>5, <2>7 DEF Shielded, R
<1> QED BY <1>2, <1>3

(* What a hook works on before its commit.                                 *)
LEMMA SourceHook ==
  ASSUME HooksOK(hooks), NEW call \in Calls, hooks[call].pc = "source"
  PROVE  hooks[call].session \in Sessions /\ hooks[call].content \in Contents
BY DEF HooksOK, Hook

(* What a hook works on after its commit.                                  *)
LEMMA StoredHook ==
  ASSUME HooksOK(hooks), NEW call \in Calls, hooks[call].pc = "stored"
  PROVE  /\ hooks[call].session \in Sessions /\ hooks[call].content \in Contents
         /\ hooks[call].text \in Text /\ hooks[call].expiresAt \in Nat
         /\ hooks[call].remember \in BOOLEAN
         /\ hooks[call].remember => Remembers(hooks[call].text)
<1>1. hooks[call] \in Hook
  BY DEF HooksOK
<1>2. hooks[call] \in [pc : {"stored"}, session : Sessions, content : Contents, text : Text,
                       expiresAt : Nat, remember : BOOLEAN]
  BY <1>1 DEF Hook
<1> QED BY <1>2 DEF HooksOK

(* A hook may proceed to any state that carries no wrong decision.         *)
LEMMA HookReplaced ==
  ASSUME HooksOK(hooks), NEW call \in Calls, NEW h \in Hook,
         h.pc = "stored" /\ h.remember => Remembers(h.text)
  PROVE  HooksOK([hooks EXCEPT ![call] = h])
BY DEF HooksOK

(* A hook may return at any time.                                          *)
LEMMA ReturnKeeps ==
  ASSUME HooksOK(hooks), NEW call \in Calls
  PROVE  Return(call) => HooksOK(hooks')
<1>1. Idle \in Hook /\ Idle.pc # "stored"
  BY DEF Idle, Hook
<1> QED BY <1>1, HookReplaced DEF Return

(* store.put, whatever is committed.                                       *)
LEMMA CommitKeeps ==
  ASSUME IInv, NEW call \in Calls, hooks[call].pc = "source",
         NEW C, NEW K, BreakerOK(C, K), NEW text \in Text, NEW remember \in BOOLEAN,
         text.request.content = hooks[call].content,
         remember => Remembers(text),
         Commit(call, C, K, text, remember)
  PROVE  /\ RowsOK(rows') /\ HooksOK(hooks')
         /\ BreakerOK(circuits', streaks') /\ Shielded(C, circuits')
<1> DEFINE hook == hooks[call]
           live == Unexpired(rows)
           h == AllocatedHash(live, hook.content)
           rendered == RenderedFor(C, K, text, h)
<1>1. now \in Nat /\ hook.session \in Sessions /\ hook.content \in Contents /\ HooksOK(hooks)
  BY SourceHook, EngineAssumption DEF IInv, CountersOK
<1>2. RowsOK(live)
  <2> DEFINE I == {i \in DOMAIN rows : rows[i].expiresAt > now}
  <2>1. live = Picked(rows, I) /\ I \in SUBSET DOMAIN rows
    BY Zenon DEF Unexpired
  <2> HIDE DEF I, live
  <2> QED BY <2>1, FewerRowsOK DEF IInv
<1> HIDE DEF live
<1>3. h \in Hashes
  BY <1>1, <1>2, AllocatedHashUsable
<1>4. /\ circuits' = rendered.circuits /\ streaks' = rendered.streaks
      /\ \/ ~rendered.failed /\ Insert(call, rendered.text, h, remember)
         \/ rendered.failed /\ rows' = live /\ Return(call)
  BY Zenon DEF Commit, live
<1>5. /\ BreakerOK(rendered.circuits, rendered.streaks) /\ Shielded(C, rendered.circuits)
      /\ ~rendered.failed =>
           /\ rendered.text \in Text /\ rendered.text.hash = h
           /\ rendered.text.request = text.request
           /\ \/ rendered.text.sections = text.sections
              \/ Remembers(rendered.text)
  <2> HIDE DEF h
  <2> QED BY <1>1, <1>3, RenderedOK
<1> HIDE DEF rendered
<1>6. CASE ~rendered.failed /\ Insert(call, rendered.text, h, remember)
  <2> DEFINE row == [session |-> hook.session, content |-> hook.content,
                     hash |-> h, text |-> rendered.text, expiresAt |-> now + RowTtl]
             new == [pc |-> "stored", session |-> hook.session, content |-> hook.content,
                     text |-> rendered.text, expiresAt |-> row.expiresAt, remember |-> remember]
  <2>1. /\ rows' = LastOf(Append(live, row), MaxRows)
        /\ hooks' = [hooks EXCEPT ![call] = new]
    BY <1>6, Zenon DEF Insert, live
  <2>2. now + RowTtl \in Nat
    BY <1>1, EngineAssumption
  <2>3. row \in Row
    BY <1>1, <1>3, <1>5, <1>6, <2>2 DEF Row
  <2>4. row.hash = h /\ row.content = hook.content /\ row.text = rendered.text /\ row.expiresAt = now + RowTtl
    OBVIOUS
  <2>5. new \in Hook
    <3> HIDE DEF row
    <3> QED BY <1>1, <1>5, <1>6, <2>2, <2>4 DEF Hook
  <2>6. /\ new.text = rendered.text /\ new.remember = remember
    OBVIOUS
  <2>7. remember => Remembers(rendered.text)
    BY <1>5, <1>6 DEF Remembers
  <2> HIDE DEF row, new
  <2>8. HooksOK(hooks')
    BY <1>1, <2>1, <2>5, <2>6, <2>7, HookReplaced
  <2>9. RowsOK(rows')
    BY <1>2, <1>5, <1>6, <2>1, <2>3, <2>4, RowAdded
  <2> QED BY <1>4, <1>5, <2>8, <2>9
<1>7. CASE rendered.failed /\ rows' = live /\ Return(call)
  BY <1>1, <1>2, <1>4, <1>5, <1>7, ReturnKeeps
<1> QED BY <1>4, <1>6, <1>7
-----------------------------------------------------------------------------
(* What enters the decision cache.                                         *)
LEMMA FewerDecisionsSound ==
  ASSUME NEW cc, CacheSound(cc), NEW dd, CacheOK(dd), Range(dd.entries) \subseteq Range(cc.entries)
  PROVE  CacheSound(dd)
BY DEF CacheSound

(* A decision that get returns is in the cache, under the key.             *)
LEMMA FoundIsCached ==
  ASSUME CacheSound(cache), NEW key, NEW e \in Range(Found(key))
  PROVE  e \in Range(cache.entries) /\ e.key = key
<1> DEFINE E == cache.entries
           own == {i \in DOMAIN E : E[i].key = key}
           P == Picked(E, own)
           live == {k \in DOMAIN P : P[k].expiresAt > now}
<1>1. E \in Seq(Decision) /\ own \in SUBSET DOMAIN E
  BY DEF CacheSound, CacheOK, Counted
<1>2. P \in Seq(Decision) /\ Range(P) = {E[i] : i \in own}
  BY <1>1, PickedSequence
<1>3. Found(key) = Picked(P, live) /\ live \in SUBSET DOMAIN P
  BY Zenon DEF Found, Unexpired
<1>4. Range(Found(key)) = {P[k] : k \in live}
  <2> HIDE DEF P, live
  <2> QED BY <1>2, <1>3, PickedSequence
<1>5. e \in Range(P)
  BY <1>4 DEF Range
<1> QED BY <1>2, <1>5 DEF Range

(* putSkip files the skip of a healthy run without savings.                *)
LEMMA SkipCached ==
  ASSUME NEW cc, CacheSound(cc), now \in Nat, NEW r \in Requests, Healthy(r, {})
  PROVE  CacheSound(AfterPutSkip(cc, r))
<1> DEFINE new == AfterPut(cc, DecisionKey(r), "skip", None, 0)
<1>1. DecisionKey(r) \in Contents \X (Intents \cup {NoIntent})
  BY DEF DecisionKey, Requests
<1>2. /\ CacheOK(new)
      /\ \A e \in Range(new.entries) :
           \/ e \in Range(cc.entries)
           \/ e.key = DecisionKey(r) /\ e.kind = "skip" /\ e.text = None
  <2>1. /\ CacheOK(cc) /\ "skip" \in {"result", "skip"} /\ None \in Text \cup {None}
        /\ 0 \in Nat
    BY DEF CacheSound
  <2> QED BY <1>1, <2>1, AfterPutOK
<1>3. AfterPutSkip(cc, r) = new
  BY DEF AfterPutSkip
<1> HIDE DEF new
<1>4. \A e : e.key = DecisionKey(r) /\ e.kind = "skip" => DecisionSound(e)
  BY Zenon DEF DecisionSound
<1> QED BY <1>2, <1>3, <1>4 DEF CacheSound

(* putResult files the result of a healthy run.                            *)
LEMMA ResultCached ==
  ASSUME CacheSound(cache), now \in Nat, NEW text \in Text, Remembers(text)
  PROVE  CacheSound(AfterPutResult(text))
<1> DEFINE r == text.request
           new == AfterPut(cache, DecisionKey(r), "result", text, Chars[r])
<1>1. r \in Requests /\ Chars[r] \in Nat
  BY EngineAssumption DEF Text
<1>2. DecisionKey(r) \in Contents \X (Intents \cup {NoIntent})
  BY <1>1 DEF DecisionKey, Requests
<1>3. /\ CacheOK(new)
      /\ \A e \in Range(new.entries) :
           \/ e \in Range(cache.entries)
           \/ e.key = DecisionKey(r) /\ e.kind = "result" /\ e.text = text
  <2>1. CacheOK(cache) /\ "result" \in {"result", "skip"} /\ text \in Text \cup {None}
    BY DEF CacheSound
  <2> DEFINE key == DecisionKey(r)
             chars == Chars[r]
  <2>2. key \in Contents \X (Intents \cup {NoIntent}) /\ chars \in Nat
    BY <1>1, <1>2
  <2> HIDE DEF key, chars
  <2>3. /\ CacheOK(AfterPut(cache, key, "result", text, chars))
        /\ \A e \in Range(AfterPut(cache, key, "result", text, chars).entries) :
             \/ e \in Range(cache.entries)
             \/ e.key = key /\ e.kind = "result" /\ e.text = text
    BY <2>1, <2>2, AfterPutOK
  <2> QED BY <2>3 DEF key, chars
<1>4. AfterPutResult(text) = new
  BY DEF AfterPutResult
<1> HIDE DEF new
<1>5. ASSUME NEW e, e.key = DecisionKey(r), e.kind = "result", e.text = text
      PROVE  DecisionSound(e)
  BY <1>1, <1>5 DEF DecisionSound, Remembers
<1> QED BY <1>3, <1>4, <1>5 DEF CacheSound
-----------------------------------------------------------------------------
(* One lemma for each kind of step.                                        *)
Shields ==
  \A k \in Kinds :
    CoolingDown(circuits[k]) /\ circuits'[k] # circuits[k] => disposed' # disposed

(* The clock is a natural number.                                          *)
LEMMA ClockIsNat == IInv => now \in Nat
BY EngineAssumption DEF IInv, CountersOK

(* Pruning keeps the rows reversible.                                      *)
LEMMA RowsLive ==
  ASSUME RowsOK(rows)
  PROVE  RowsOK(Unexpired(rows))
<1> DEFINE I == {i \in DOMAIN rows : rows[i].expiresAt > now}
<1>1. Unexpired(rows) = Picked(rows, I) /\ I \in SUBSET DOMAIN rows
  BY Zenon DEF Unexpired
<1> HIDE DEF I
<1> QED BY <1>1, FewerRowsOK

(* What a call does on entering the engine.                                *)
LEMMA EnterStep ==
  ASSUME IInv, NEW call \in Calls, NEW pointer \in BOOLEAN, hooks[call].pc = "source",
         Enters(call, pointer)
  PROVE  /\ RepetitionOK(repetition') /\ IntentsOK(intents') /\ CountersOK'
         /\ RequestOf(call) \in Requests
         /\ RequestOf(call).content = hooks[call].content
<1>1. hooks[call].session \in Sessions /\ hooks[call].content \in Contents
  BY SourceHook DEF IInv
<1>2. /\ repetition' = Touched(hooks[call].session, EntriesOf(hooks[call].session))
      /\ UNCHANGED <<intents, deletion, disposed, events, now>>
  BY Zenon DEF Enters
<1>3. RepetitionOK(repetition')
  BY <1>1, <1>2, RepetitionRefreshed DEF IInv
<1>4. IntentsOK(intents') /\ CountersOK'
  BY <1>2 DEF IInv, CountersOK
<1>5. RequestOf(call) \in Requests /\ RequestOf(call).content = hooks[call].content
  BY <1>1, RequestTyped DEF IInv
<1> QED BY <1>3, <1>4, <1>5

(* A hook starts.                                                          *)
LEMMA ToolExecuteAfterStep ==
  ASSUME IInv, NEW call \in Calls, NEW s \in Sessions, NEW c \in Contents,
         ToolExecuteAfter(call, s, c)
  PROVE  IInv' /\ Shields
<1> DEFINE new == [pc |-> "source", session |-> s, content |-> c]
<1>1. /\ hooks' = [hooks EXCEPT ![call] = new]
      /\ UNCHANGED <<rows, intents, repetition, cache, circuits, streaks, deletion, disposed, now>>
      /\ events < MaxEvents /\ events' = events + 1
  BY DEF ToolExecuteAfter
<1>2. new \in Hook /\ new.pc # "stored"
  BY DEF Hook
<1> HIDE DEF new
<1>3. HooksOK(hooks')
  BY <1>1, <1>2, HookReplaced DEF IInv
<1>4. CountersOK'
  BY <1>1, EngineAssumption DEF IInv, CountersOK
<1> QED BY <1>1, <1>3, <1>4 DEF IInv, Shields

(* A hook leaves its output alone.                                         *)
LEMMA PassThroughStep ==
  ASSUME IInv, NEW call \in Calls, PassThrough(call)
  PROVE  IInv' /\ Shields
<1>1. /\ Return(call)
      /\ UNCHANGED <<rows, intents, repetition, cache, circuits, streaks, deletion, disposed, events, now>>
  BY DEF PassThrough
<1>2. HooksOK(hooks')
  BY <1>1, ReturnKeeps DEF IInv
<1>3. CountersOK'
  BY <1>1 DEF IInv, CountersOK
<1> QED BY <1>1, <1>2, <1>3 DEF IInv, Shields

(* A repeated output is replaced by a pointer: no text of the compressor   *)
(* is involved, and nothing is remembered.                                 *)
LEMMA CommitRepetitionStep ==
  ASSUME IInv, NEW call \in Calls, CommitRepetition(call)
  PROVE  IInv' /\ Shields
<1> DEFINE h == AllocatedHash(Unexpired(rows), hooks[call].content)
           text == Pointer(RequestOf(call), h)
<1>1. /\ hooks[call].pc = "source" /\ Enters(call, TRUE)
      /\ Commit(call, circuits, streaks, text, FALSE)
      /\ cache' = cache
  BY Zenon DEF CommitRepetition
<1>2. /\ RepetitionOK(repetition') /\ IntentsOK(intents') /\ CountersOK'
      /\ RequestOf(call) \in Requests
      /\ RequestOf(call).content = hooks[call].content
  BY <1>1, EnterStep
<1>3. h \in Hashes
  <2>1. hooks[call].content \in Contents
    BY <1>1, SourceHook DEF IInv
  <2> QED BY <2>1, RowsLive, AllocatedHashUsable DEF IInv
<1> HIDE DEF h
<1>4. text \in Text /\ text.request = RequestOf(call)
  BY <1>2, <1>3 DEF Pointer, Text
<1> HIDE DEF text
<1>5. /\ RowsOK(rows') /\ HooksOK(hooks')
      /\ BreakerOK(circuits', streaks') /\ Shielded(circuits, circuits')
  <2>1. BreakerOK(circuits, streaks)
    BY DEF IInv
  <2>2. text.request.content = hooks[call].content
    BY <1>2, <1>4
  <2> QED BY <1>1, <1>4, <2>1, <2>2, CommitKeeps
<1> QED BY <1>1, <1>2, <1>5 DEF IInv, Shields, Shielded

(* A cached skip only moves its entry.                                     *)
LEMMA ReuseSkipStep ==
  ASSUME IInv, NEW call \in Calls, ReuseSkip(call)
  PROVE  IInv' /\ Shields
<1>1. /\ hooks[call].pc = "source" /\ Enters(call, FALSE)
      /\ cache' = AfterGet(DecisionKey(RequestOf(call)))
      /\ Return(call)
      /\ UNCHANGED <<rows, circuits, streaks>>
  BY Zenon DEF ReuseSkip
<1>2. RepetitionOK(repetition') /\ IntentsOK(intents') /\ CountersOK'
  BY <1>1, EnterStep
<1>3. HooksOK(hooks')
  BY <1>1, ReturnKeeps DEF IInv
<1>4. CacheSound(cache')
  BY <1>1, ClockIsNat, AfterGetOK, FewerDecisionsSound DEF IInv, CacheSound
<1> QED BY <1>1, <1>2, <1>3, <1>4 DEF IInv, Shields

(* A cached result is committed for the content it was made of, since the  *)
(* key it was found under holds the content.                               *)
LEMMA CommitCachedResultStep ==
  ASSUME IInv, NEW call \in Calls, CommitCachedResult(call)
  PROVE  IInv' /\ Shields
<1> DEFINE key == DecisionKey(RequestOf(call))
<1>1. /\ hooks[call].pc = "source" /\ Enters(call, FALSE)
      /\ cache' = AfterGet(key)
      /\ \E e \in Range(Found(key)) :
           e.kind = "result" /\ Commit(call, circuits, streaks, e.text, TRUE)
  BY Zenon DEF CommitCachedResult
<1>2. /\ RepetitionOK(repetition') /\ IntentsOK(intents') /\ CountersOK'
      /\ RequestOf(call) \in Requests
      /\ RequestOf(call).content = hooks[call].content
  BY <1>1, EnterStep
<1>3. CacheSound(cache')
  BY <1>1, ClockIsNat, AfterGetOK, FewerDecisionsSound DEF IInv, CacheSound
<1>4. PICK e \in Range(Found(key)) :
        e.kind = "result" /\ Commit(call, circuits, streaks, e.text, TRUE)
  BY <1>1
<1>5. e \in Range(cache.entries) /\ e.key = key
  BY FoundIsCached DEF IInv
<1>6. PICK r \in Requests :
        /\ e.key = DecisionKey(r)
        /\ e.text \in Text /\ e.text.request = r
        /\ Healthy(r, e.text.sections) /\ e.text.sections # {}
  BY <1>4, <1>5 DEF IInv, CacheSound, DecisionSound
<1>7. e.text.request.content = hooks[call].content
  BY <1>2, <1>5, <1>6 DEF DecisionKey
<1>8. Remembers(e.text)
  BY <1>6 DEF Remembers
<1>9. /\ RowsOK(rows') /\ HooksOK(hooks')
      /\ BreakerOK(circuits', streaks') /\ Shielded(circuits, circuits')
  <2>1. BreakerOK(circuits, streaks)
    BY DEF IInv
  <2> QED BY <1>1, <1>4, <1>6, <1>7, <1>8, <2>1, CommitKeeps
<1> QED BY <1>2, <1>3, <1>9 DEF IInv, Shields, Shielded

(* The compressor runs: what may be cached later, or is cached at once, is *)
(* that of a healthy run.                                                  *)
LEMMA CompressStep ==
  ASSUME IInv, NEW call \in Calls, Compress(call)
  PROVE  IInv' /\ Shields
<1> DEFINE r == RequestOf(call)
           found == AfterGet(DecisionKey(r))
           run == RunCompressor(circuits, streaks, r)
           text == [request |-> r, sections |-> run.sections, hash |-> BaseHash(r.content)]
<1>1. /\ hooks[call].pc = "source" /\ Enters(call, FALSE)
      /\ \/ /\ ~run.threw /\ run.sections # {}
            /\ Commit(call, run.circuits, run.streaks, text, run.cacheable)
            /\ cache' = found
         \/ /\ ~run.threw /\ run.sections = {}
            /\ circuits' = run.circuits /\ streaks' = run.streaks
            /\ cache' = IF run.cacheable THEN AfterPutSkip(found, r) ELSE found
            /\ Return(call)
            /\ rows' = rows
         \/ /\ run.threw
            /\ circuits' = run.circuits /\ streaks' = run.streaks
            /\ cache' = found
            /\ Return(call)
            /\ rows' = rows
  BY Zenon DEF Compress
<1>2. /\ RepetitionOK(repetition') /\ IntentsOK(intents') /\ CountersOK'
      /\ r \in Requests /\ r.content = hooks[call].content /\ r.content \in Contents
  BY <1>1, EnterStep, SourceHook DEF IInv
<1>3. CacheSound(found)
  BY ClockIsNat, AfterGetOK, FewerDecisionsSound DEF IInv, CacheSound
<1> HIDE DEF r, found
<1>4. /\ run \in Runs /\ BreakerOK(run.circuits, run.streaks)
      /\ Shielded(circuits, run.circuits)
      /\ ~run.threw /\ run.cacheable => Healthy(r, run.sections)
  BY <1>2, ClockIsNat, RunCompressorOK DEF IInv, Shielded
<1> HIDE DEF run
<1>5. BaseHash(r.content) \in Hashes
  <2>1. CandidateHash[r.content] \in Seq(Hashes) /\ CandidateHash[r.content] # <<>>
    BY <1>2, EngineAssumption
  <2> QED BY <2>1 DEF BaseHash
<1>6. text \in Text /\ text.request = r /\ text.sections = run.sections
  BY <1>2, <1>4, <1>5 DEF Text, Runs
<1> HIDE DEF text
<1>7. CASE /\ ~run.threw /\ run.sections # {}
           /\ Commit(call, run.circuits, run.streaks, text, run.cacheable)
           /\ cache' = found
  <2>1. run.cacheable \in BOOLEAN
    BY <1>4 DEF Runs
  <2>2. run.cacheable => Remembers(text)
    BY <1>4, <1>6, <1>7 DEF Remembers
  <2>3. text.request.content = hooks[call].content
    BY <1>2, <1>6
  <2>4. /\ RowsOK(rows') /\ HooksOK(hooks')
        /\ BreakerOK(circuits', streaks') /\ Shielded(run.circuits, circuits')
    BY <1>1, <1>4, <1>6, <1>7, <2>1, <2>2, <2>3, CommitKeeps
  <2>5. Shielded(circuits, circuits')
    BY <1>4, <2>4 DEF Shielded
  <2> QED BY <1>2, <1>3, <1>7, <2>4, <2>5 DEF IInv, Shields, Shielded
<1>8. CASE /\ ~run.threw /\ run.sections = {}
           /\ circuits' = run.circuits /\ streaks' = run.streaks
           /\ cache' = IF run.cacheable THEN AfterPutSkip(found, r) ELSE found
           /\ Return(call)
           /\ rows' = rows
  <2>1. CacheSound(cache')
    <3>1. CASE run.cacheable
      <4>1. Healthy(r, {})
        BY <1>4, <1>8, <3>1
      <4>2. CacheSound(AfterPutSkip(found, r))
        BY <1>2, <1>3, <4>1, ClockIsNat, SkipCached
      <4> QED BY <1>8, <3>1, <4>2
    <3>2. CASE ~run.cacheable
      BY <1>3, <1>8, <3>2
    <3> QED BY <3>1, <3>2
  <2>2. HooksOK(hooks')
    BY <1>8, ReturnKeeps DEF IInv
  <2> QED BY <1>2, <1>4, <1>8, <2>1, <2>2 DEF IInv, Shields, Shielded
<1>9. CASE /\ run.threw
           /\ circuits' = run.circuits /\ streaks' = run.streaks
           /\ cache' = found
           /\ Return(call)
           /\ rows' = rows
  <2>1. HooksOK(hooks')
    BY <1>9, ReturnKeeps DEF IInv
  <2> QED BY <1>2, <1>3, <1>4, <1>9, <2>1 DEF IInv, Shields, Shielded
<1> QED BY <1>1, <1>7, <1>8, <1>9

(* The decision carried across the await is filed after it.                *)
LEMMA FinishStep ==
  ASSUME IInv, NEW call \in Calls, Finish(call)
  PROVE  IInv' /\ Shields
<1> DEFINE hook == hooks[call]
<1>1. /\ hook.pc = "stored"
      /\ repetition' = Recorded(hook.session, hook.content, hook.expiresAt)
      /\ cache' = IF hook.remember THEN AfterPutResult(hook.text) ELSE cache
      /\ Return(call)
      /\ UNCHANGED <<rows, intents, circuits, streaks, deletion, disposed, events, now>>
  BY Zenon DEF Finish
<1>2. /\ hook.session \in Sessions /\ hook.content \in Contents
      /\ hook.text \in Text /\ hook.expiresAt \in Nat
      /\ hook.remember \in BOOLEAN
      /\ hook.remember => Remembers(hook.text)
  BY <1>1, StoredHook DEF IInv
<1> HIDE DEF hook
<1>3. RepetitionOK(repetition')
  BY <1>1, <1>2, RepetitionRecorded DEF IInv
<1>4. CacheSound(cache')
  <2>1. CASE hook.remember
    BY <1>1, <1>2, <2>1, ClockIsNat, ResultCached DEF IInv
  <2>2. CASE ~hook.remember
    BY <1>1, <2>2 DEF IInv
  <2> QED BY <2>1, <2>2
<1>5. HooksOK(hooks')
  BY <1>1, ReturnKeeps DEF IInv
<1>6. CountersOK'
  BY <1>1 DEF IInv, CountersOK
<1> QED BY <1>1, <1>3, <1>4, <1>5, <1>6 DEF IInv, Shields

(* A user message.                                                         *)
LEMMA ChatMessageStep ==
  ASSUME IInv, NEW s \in Sessions, NEW text \in Intents, ChatMessage(s, text)
  PROVE  IInv' /\ Shields
<1>1. /\ intents' = LastOf(Append(OfOthers(intents, s), [session |-> s, text |-> text]),
                           MaxIntents)
      /\ events < MaxEvents /\ events' = events + 1
      /\ UNCHANGED <<rows, repetition, cache, circuits, streaks, hooks, deletion, disposed, now>>
  BY Zenon DEF ChatMessage
<1>2. IntentsOK(intents')
  BY <1>1, IntentAdded DEF IInv
<1>3. CountersOK'
  BY <1>1, EngineAssumption DEF IInv, CountersOK
<1> QED BY <1>1, <1>2, <1>3 DEF IInv, Shields

(* The deletion of a session: the rows first,                              *)
LEMMA DeleteRowsStep ==
  ASSUME IInv, NEW s \in Sessions, DeleteRows(s)
  PROVE  IInv' /\ Shields
<1> DEFINE live == Unexpired(rows)
           I == {i \in DOMAIN live : live[i].session # s}
<1>1. /\ rows' = OfOthers(live, s)
      /\ deletion' = [deletion EXCEPT ![s] = "rows"]
      /\ UNCHANGED <<intents, repetition, cache, circuits, streaks, hooks, disposed, events, now>>
  BY Zenon DEF DeleteRows
<1>2. RowsOK(live)
  BY RowsLive DEF IInv
<1>3. OfOthers(live, s) = Picked(live, I) /\ I \in SUBSET DOMAIN live
  BY Zenon DEF OfOthers
<1> HIDE DEF live, I
<1>4. RowsOK(rows')
  BY <1>1, <1>2, <1>3, FewerRowsOK
<1>5. CountersOK'
  BY <1>1 DEF IInv, CountersOK
<1> QED BY <1>1, <1>4, <1>5 DEF IInv, Shields

(* then its fingerprints and its intent.                                   *)
LEMMA DeleteSessionStateStep ==
  ASSUME IInv, NEW s \in Sessions, DeleteSessionState(s)
  PROVE  IInv' /\ Shields
<1>1. /\ repetition' = Touched(s, <<>>)
      /\ intents' = OfOthers(intents, s)
      /\ deletion' = [deletion EXCEPT ![s] = "deleted"]
      /\ UNCHANGED <<rows, cache, circuits, streaks, hooks, disposed, events, now>>
  BY Zenon DEF DeleteSessionState
<1>2. RepetitionOK(repetition') /\ IntentsOK(intents')
  BY <1>1, RepetitionRefreshed, IntentDropped DEF IInv
<1>3. CountersOK'
  BY <1>1 DEF IInv, CountersOK
<1> QED BY <1>1, <1>2, <1>3 DEF IInv, Shields

(* The engine after clearSessionState, and at the start.                   *)
LEMMA Cleared ==
  /\ RepetitionOK(<<>>) /\ IntentsOK(<<>>)
  /\ CacheSound([entries |-> <<>>, resultChars |-> 0])
  /\ BreakerOK([k \in Kinds |-> NoFailures], [k \in Kinds |-> 0])
<1>1. MaxSessions \in Nat /\ MaxIntents \in Nat /\ MaxEntries \in Nat /\ MaxResultChars \in Nat
      /\ FailureThreshold \in Nat
  BY EngineAssumption
<1>2. Range(<<>>) = {}
  BY DEF Range
<1>3. RepetitionOK(<<>>) /\ IntentsOK(<<>>)
  BY <1>1, <1>2 DEF RepetitionOK, IntentsOK
<1>4. CharsOf(<<>>) = 0
  <2>1. <<>> \in Seq(Decision)
    OBVIOUS
  <2> QED BY <2>1, CharsOfNat
<1>5. CacheSound([entries |-> <<>>, resultChars |-> 0])
  BY <1>1, <1>2, <1>4 DEF CacheSound, CacheOK, Counted, KeysOnce
<1>6. NoFailures \in Circuit /\ CircuitSound(NoFailures, 0)
  BY <1>1 DEF NoFailures, Circuit, CircuitSound
<1>7. BreakerOK([k \in Kinds |-> NoFailures], [k \in Kinds |-> 0])
  BY <1>6 DEF BreakerOK
<1> QED BY <1>3, <1>5, <1>7

(* Disposal clears the engine under hooks in flight.                       *)
LEMMA DisposeStep ==
  ASSUME IInv, Dispose
  PROVE  IInv' /\ Shields
<1>1. /\ intents' = <<>> /\ repetition' = <<>>
      /\ cache' = [entries |-> <<>>, resultChars |-> 0]
      /\ circuits' = [k \in Kinds |-> NoFailures]
      /\ streaks' = [k \in Kinds |-> 0]
      /\ ~disposed /\ disposed' = TRUE
      /\ UNCHANGED <<rows, hooks, deletion, events, now>>
  BY DEF Dispose
<1>2. /\ RepetitionOK(repetition') /\ IntentsOK(intents')
      /\ CacheSound(cache') /\ BreakerOK(circuits', streaks')
  BY <1>1, Cleared
<1>3. CountersOK'
  BY <1>1 DEF IInv, CountersOK
<1>4. Shields
  BY <1>1 DEF IInv, CountersOK, Shields
<1> QED BY <1>1, <1>2, <1>3, <1>4 DEF IInv

(* Time passes.                                                            *)
LEMMA TickStep ==
  ASSUME IInv, Tick
  PROVE  IInv' /\ Shields
<1>1. /\ now < MaxTime /\ now' = now + 1
      /\ UNCHANGED <<rows, intents, repetition, cache, circuits, streaks, hooks, deletion, disposed, events>>
  BY DEF Tick
<1>2. CountersOK'
  BY <1>1, EngineAssumption DEF IInv, CountersOK
<1> QED BY <1>1, <1>2 DEF IInv, Shields

(* Every step keeps the invariant and shields the open circuits.           *)
LEMMA NextIInv == IInv /\ [Next]_vars => IInv' /\ Shields
<1> SUFFICES ASSUME IInv, [Next]_vars PROVE IInv' /\ Shields
  OBVIOUS
<1>1. ASSUME NEW call \in Calls, \E s \in Sessions, c \in Contents : ToolExecuteAfter(call, s, c)
      PROVE  IInv' /\ Shields
  BY <1>1, ToolExecuteAfterStep
<1>2. ASSUME NEW s \in Sessions, \E text \in Intents : ChatMessage(s, text)
      PROVE  IInv' /\ Shields
  BY <1>2, ChatMessageStep
<1>3. CASE UNCHANGED vars
  BY <1>3 DEF vars, IInv, CountersOK, Shields
<1>4. CASE Next
  BY <1>1, <1>2, <1>4, PassThroughStep, CommitRepetitionStep, ReuseSkipStep,
     CommitCachedResultStep, CompressStep, FinishStep, DeleteRowsStep,
     DeleteSessionStateStep, DisposeStep, TickStep, Zenon DEF Next
<1> QED BY <1>3, <1>4

(* The invariant holds at the start.                                       *)
LEMMA InitIInv == Init => IInv
<1> SUFFICES ASSUME Init PROVE IInv
  OBVIOUS
<1>1. /\ MaxRows \in Nat /\ MaxEvents \in Nat /\ MaxTime \in Nat
      /\ 0 \in 0 .. MaxEvents /\ 0 \in 0 .. MaxTime
  BY EngineAssumption
<1>2. RowsOK(rows)
  BY <1>1 DEF Init, RowsOK, Range
<1>3. HooksOK(hooks)
  BY DEF Init, HooksOK, Idle, Hook
<1>4. CountersOK
  <2>1. deletion = [s \in Sessions |-> "alive"] /\ disposed = FALSE /\ events = 0 /\ now = 0
    BY DEF Init
  <2> QED BY <1>1, <2>1 DEF CountersOK
<1> QED BY <1>2, <1>3, <1>4, Cleared DEF Init, IInv
-----------------------------------------------------------------------------
(* The invariant holds in every reachable state.                           *)
THEOREM Inductive == Spec => []IInv
<1> QED BY InitIInv, NextIInv, PTL DEF Spec

(* Every variable keeps its type: the latest intents, the fingerprints and *)
(* the rows within the limits of their stores, whatever is in flight.      *)
THEOREM TypeCorrect == Spec => []TypeOK
<1>1. IInv => TypeOK
  <2> SUFFICES ASSUME IInv PROVE TypeOK
    OBVIOUS
  <2>1. /\ rows \in Seq(Row) /\ Len(rows) <= MaxRows
        /\ intents \in Seq(Intent) /\ Len(intents) <= MaxIntents
        /\ repetition \in Seq(Fingerprints) /\ Len(repetition) <= MaxSessions
        /\ \A x \in Range(repetition) : Len(x.entries) <= MaxEntriesPerSession
    BY DEF IInv, RowsOK, IntentsOK, RepetitionOK
  <2>2. cache \in [entries : Seq(Decision), resultChars : Int]
    BY DEF IInv, CacheSound, CacheOK, Counted
  <2>3. circuits \in [Kinds -> Circuit] /\ streaks \in [Kinds -> Nat] /\ hooks \in [Calls -> Hook]
    BY DEF IInv, BreakerOK, HooksOK
  <2>4. CountersOK
    BY DEF IInv
  <2> QED BY <2>1, <2>2, <2>3, <2>4, Zenon DEF TypeOK, CountersOK
<1> QED BY <1>1, Inductive, PTL

(* The types, and the accounts of the decision cache: one decision a key,  *)
(* retainedResultChars the exact sum over the entries, both budgets kept,  *)
(* after every get, overwrite, expiry, refusal, eviction and disposal.     *)
THEOREM ConsistencyKept == Spec => []EngineConsistent
<1>1. IInv => CacheAccounted
  BY DEF IInv, CacheSound, CacheOK, Counted, KeysOnce, CacheAccounted
<1> QED BY <1>1, Inductive, TypeCorrect, PTL DEF EngineConsistent

(* A cached decision is that of a healthy run for the content and the      *)
(* query it is filed under, however many hooks overlap.                    *)
THEOREM DecisionsTransparent == Spec => []CacheTransparent
<1>1. IInv => CacheTransparent
  <2> SUFFICES ASSUME IInv, NEW e \in Range(cache.entries)
               PROVE  \E r \in Requests :
                        /\ e.key = DecisionKey(r)
                        /\ \A i \in DOMAIN Sections[r] : Sections[r][i].outcome # "throws"
                        /\ LET saved == {i \in DOMAIN Sections[r] :
                                           Sections[r][i].outcome = "saves"}
                           IN  IF e.kind = "skip" THEN saved = {}
                               ELSE e.text.request = r /\ e.text.sections = saved /\ saved # {}
    BY Zenon DEF CacheTransparent
  <2>1. DecisionSound(e)
    BY DEF IInv, CacheSound
  <2>2. PICK r \in Requests :
          /\ e.key = DecisionKey(r)
          /\ IF e.kind = "skip" THEN Healthy(r, {})
             ELSE /\ e.text \in Text /\ e.text.request = r
                  /\ Healthy(r, e.text.sections) /\ e.text.sections # {}
    BY <2>1 DEF DecisionSound
  <2> WITNESS r \in Requests
  <2> QED BY <2>2 DEF Healthy
<1> QED BY <1>1, Inductive, PTL

(* The marker in every emitted text leads to the one original it replaced. *)
THEOREM TextsReversible == Spec => []RowsReversible
<1>1. IInv => RowsReversible
  BY DEF IInv, RowsOK, RowsReversible, Range
<1> QED BY <1>1, Inductive, PTL

(* A circuit is open exactly after FailureThreshold exceptions in a row of *)
(* its own strategy.                                                       *)
THEOREM StreakOpensCircuit == Spec => []CircuitOpensOnStreak
<1>1. IInv => CircuitOpensOnStreak
  <2> SUFFICES ASSUME IInv, FailureThreshold > 0, NEW k \in Kinds
               PROVE  /\ circuits[k].openedAt # None <=> streaks[k] >= FailureThreshold
                      /\ circuits[k].failures = streaks[k]
                      /\ ~circuits[k].halfOpen
    BY DEF CircuitOpensOnStreak
  <2>1. CircuitSound(circuits[k], streaks[k]) /\ FailureThreshold \in Nat
    BY EngineAssumption DEF IInv, BreakerOK
  <2>2. streaks[k] >= FailureThreshold <=> streaks[k] = FailureThreshold
    BY <2>1 DEF CircuitSound
  <2> QED BY <2>1, <2>2 DEF CircuitSound
<1> QED BY <1>1, Inductive, PTL

(* During the cooldown nothing touches an open circuit but disposal.       *)
THEOREM CooldownRespected == Spec => OpenCircuitShields
<1>1. IInv /\ [Next]_vars =>
        [\A k \in Kinds :
           CoolingDown(circuits[k]) /\ circuits'[k] # circuits[k] => disposed' # disposed]_vars
  BY NextIInv DEF Shields
<1> QED BY <1>1, Inductive, PTL DEF Spec, OpenCircuitShields
=============================================================================
