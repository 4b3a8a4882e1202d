----------------------- MODULE ContextLifecycleProofs -----------------------
(***************************************************************************)
(* Safety of ContextLifecycle for every number of sessions, parts and      *)
(* windows, every request, form and limit.                                 *)
(*                                                                         *)
(* RecordsConsistent is not inductive: the counters of an object are exact *)
(* after commit only if none of the window's new parts was recorded as     *)
(* changed before, and openWindows after a close only if no other session  *)
(* uses the object.  IInv adds what makes them so: a session object has    *)
(* one owner (OneOwner), nobody refers to a fresh one (UnreferencedFresh), *)
(* and a part that a window may still change is recorded raw in the        *)
(* window's object and may be changed by no other window of that object    *)
(* (LiveRecordedRaw).  begin is followed session by session (Observing).   *)
(***************************************************************************)
EXTENDS ContextLifecycle, FiniteSetTheorems, WellFoundedInduction, TLAPS

-----------------------------------------------------------------------------
(* A nonempty set of naturals has a least member.                          *)
LEMMA LeastNat ==
  ASSUME NEW T, T \subseteq Nat, T # {}
  PROVE  \E x \in T : \A y \in T : x <= y
<1> DEFINE R == OpToRel(<, Nat)
<1>1. PICK x \in T : \A y \in T : ~ (<<y, x>> \in R)
  BY NatLessThanWellFounded, WFMin
<1>2. \A y \in T : ~(y < x)
  <2> TAKE y \in T
  <2>1. y \in Nat /\ x \in Nat
    OBVIOUS
  <2>2. y < x => <<y, x>> \in R
    BY <2>1 DEF OpToRel
  <2> QED BY <1>1, <2>2
<1> QED BY <1>2

(* Induction, for a set of naturals.                                       *)
LEMMA Induction ==
  ASSUME NEW T, T \subseteq Nat, 0 \in T, \A n \in T : n + 1 \in T
  PROVE  T = Nat
<1>1. SUFFICES ASSUME Nat \ T # {} PROVE FALSE
  OBVIOUS
<1>2. PICK n \in Nat \ T : \A y \in Nat \ T : n <= y
  BY <1>1, LeastNat
<1>3. n # 0 /\ n - 1 \in Nat /\ n - 1 < n /\ n - 1 + 1 = n
  BY <1>2
<1>4. n - 1 \in T
  BY <1>2, <1>3
<1> QED BY <1>2, <1>3, <1>4

(* A finite set in order has an oldest member, and it is the one found.    *)
LEMMA OldestIsMember ==
  ASSUME NEW R, NEW S, IsFiniteSet(S), S # {}, InOrder(R, S)
  PROVE  Oldest(R, S) \in S
<1> DEFINE Before(x) == {y \in S : y # x /\ <<y, x>> \in R}
           T == {Cardinality(Before(x)) : x \in S}
<1>1. \A x \in S : IsFiniteSet(Before(x)) /\ Cardinality(Before(x)) \in Nat
  <2> TAKE x \in S
  <2>1. Before(x) \in SUBSET S
    OBVIOUS
  <2> QED BY <2>1, FS_Subset, FS_CardinalityType
<1>2. T \subseteq Nat /\ T # {}
  BY <1>1
<1>3. PICK n \in T : \A m \in T : n <= m
  BY <1>2, LeastNat
<1>4. PICK x \in S : Cardinality(Before(x)) = n
  OBVIOUS
<1>5. ASSUME NEW y \in S \ {x}, <<x, y>> \notin R
      PROVE  FALSE
  <2>1. <<y, x>> \in R
    BY <1>5 DEF InOrder
  <2>2. Before(y) \in SUBSET Before(x)
    BY <1>5, <2>1 DEF InOrder
  <2>3. y \in Before(x) /\ y \notin Before(y)
    BY <2>1
  <2>4. Before(y) # Before(x)
    BY <2>3
  <2> HIDE DEF Before
  <2>5. Cardinality(Before(y)) <= Cardinality(Before(x))
          /\ Cardinality(Before(y)) # Cardinality(Before(x))
    BY <1>1, <2>2, <2>4, FS_Subset
  <2>6. Cardinality(Before(x)) <= Cardinality(Before(y))
    BY <1>3, <1>4
  <2> QED BY <1>1, <2>5, <2>6
<1>6. \A y \in S \ {x} : <<x, y>> \in R
  BY <1>5
<1> QED BY <1>6 DEF Oldest

(* The parts are the first naturals, as many as there are.                 *)
Size == Cardinality(Parts)

(* The parts are numbered from 1, so that Total adds them up.              *)
LEMMA PartsNumbered == Size \in Nat /\ Parts = 1 .. Size /\ IsFiniteSet(Parts)
BY LifecycleAssumption, FS_CardinalityType DEF Size
-----------------------------------------------------------------------------
(* Sums over the parts: the sums of f after each part.                     *)
IsSum(F, f) ==
  /\ F \in [0 .. Size -> Nat]
  /\ F[0] = 0
  /\ \A n \in 1 .. Size : F[n] = F[n - 1] + f[n]

(* The recursive definition of Total has a solution ...                    *)
LEMMA SumExists ==
  ASSUME NEW f
  PROVE  \E F : F = [n \in 0 .. Size |-> IF n = 0 THEN 0 ELSE F[n - 1] + f[n]]
<1> DEFINE Sums(F, m) == F = [n \in 0 .. m |-> IF n = 0 THEN 0 ELSE F[n - 1] + f[n]]
           T == {m \in Nat : \E F : Sums(F, m)}
<1>1. 0 \in T
  <2>1. Sums([n \in 0 .. 0 |-> 0], 0)
    OBVIOUS
  <2> QED BY <2>1
<1>2. \A m \in T : m + 1 \in T
  <2> TAKE m \in T
  <2>1. PICK F : Sums(F, m)
    OBVIOUS
  <2> DEFINE G == [n \in 0 .. m + 1 |-> IF n <= m THEN F[n] ELSE F[m] + f[m + 1]]
  <2>2. DOMAIN F = 0 .. m /\ m \in Nat
    BY <2>1
  <2>3. ASSUME NEW n \in 0 .. m + 1
        PROVE  G[n] = IF n = 0 THEN 0 ELSE G[n - 1] + f[n]
    <3>1. CASE n = 0
      BY <2>1, <2>2, <3>1
    <3>2. CASE n \in 1 .. m
      <4>1. n <= m /\ n - 1 \in 0 .. m /\ n - 1 <= m /\ n # 0 /\ n - 1 \in 0 .. m + 1 /\ n \in 0 .. m
        BY <2>2, <3>2
      <4>2. F[n] = F[n - 1] + f[n]
        BY <2>1, <4>1
      <4> QED BY <4>1, <4>2
    <3>3. CASE n = m + 1
      <4>1. ~(n <= m) /\ n - 1 = m /\ m <= m /\ n # 0 /\ m \in 0 .. m + 1
        BY <2>2, <3>3
      <4> QED BY <3>3, <4>1
    <3> QED BY <2>2, <3>1, <3>2, <3>3
  <2>4. DOMAIN G = 0 .. m + 1 /\ G = [n \in 0 .. m + 1 |-> G[n]]
    OBVIOUS
  <2>5. \E H : Sums(H, m + 1)
    <3> HIDE DEF G
    <3>1. G = [n \in 0 .. m + 1 |-> IF n = 0 THEN 0 ELSE G[n - 1] + f[n]]
      BY <2>3, <2>4
    <3> QED BY <3>1
  <2> QED BY <2>2, <2>5
<1>3. T = Nat
  <2> HIDE DEF T
  <2>1. T \subseteq Nat
    BY DEF T
  <2> QED BY <1>1, <1>2, <2>1, Induction
<1> QED BY <1>3, PartsNumbered

(* ... whose last value it is.                                             *)
LEMMA TotalIs ==
  ASSUME NEW f \in [Parts -> Nat]
  PROVE  \E F : IsSum(F, f) /\ Total(f) = F[Size]
<1> DEFINE Solves(F) == F = [n \in 0 .. Size |-> IF n = 0 THEN 0 ELSE F[n - 1] + f[n]]
           F == CHOOSE G : Solves(G)
<1>1. Solves(F)
  <2>1. \E G : Solves(G)
    BY SumExists
  <2> HIDE DEF Solves
  <2> QED BY <2>1
<1>2. Total(f) = F[Size]
  BY Zenon DEF Total, Size
<1> HIDE DEF F
<1>3. /\ F[0] = 0
      /\ \A n \in 1 .. Size : F[n] = F[n - 1] + f[n]
  <2>1. 0 \in 0 .. Size /\ \A n \in 1 .. Size : n \in 0 .. Size /\ n # 0
    BY PartsNumbered
  <2> QED BY <1>1, <2>1
<1>4. \A n \in 1 .. Size : f[n] \in Nat
  BY PartsNumbered
<1>5. \A n \in 0 .. Size : F[n] \in Nat
  <2> DEFINE T == {n \in Nat : n <= Size => F[n] \in Nat}
  <2>1. 0 \in T
    BY <1>3
  <2>2. \A n \in T : n + 1 \in T
    <3> TAKE n \in T
    <3>1. ASSUME n + 1 <= Size PROVE F[n + 1] \in Nat
      <4>1. n \in Nat /\ n <= Size /\ n + 1 \in 1 .. Size /\ n + 1 - 1 = n
        BY <3>1, PartsNumbered
      <4>2. F[n + 1] = F[n] + f[n + 1]
        BY <1>3, <4>1
      <4>3. F[n] \in Nat /\ f[n + 1] \in Nat
        BY <1>4, <4>1
      <4> QED BY <4>2, <4>3
    <3> QED BY <3>1
  <2>3. T = Nat
    <3> HIDE DEF T
    <3>1. T \subseteq Nat
      BY DEF T
    <3> QED BY <2>1, <2>2, <3>1, Induction
  <2> QED BY <2>3, PartsNumbered
<1>6. F = [n \in 0 .. Size |-> F[n]]
  BY <1>1
<1>7. F \in [0 .. Size -> Nat]
  BY <1>5, <1>6
<1> QED BY <1>2, <1>3, <1>7 DEF IsSum

(* Totals add up.                                                          *)
LEMMA TotalAdds ==
  ASSUME NEW f \in [Parts -> Nat], NEW g \in [Parts -> Nat], NEW h \in [Parts -> Nat],
         \A p \in Parts : h[p] = f[p] + g[p]
  PROVE  /\ Total(h) = Total(f) + Total(g)
         /\ Total(f) \in Nat /\ Total(g) \in Nat /\ Total(h) \in Nat
<1>1. PICK F : IsSum(F, f) /\ Total(f) = F[Size]
  BY TotalIs
<1>2. PICK G : IsSum(G, g) /\ Total(g) = G[Size]
  BY TotalIs
<1>3. PICK H : IsSum(H, h) /\ Total(h) = H[Size]
  BY TotalIs
<1> DEFINE T == {n \in Nat : n <= Size => H[n] = F[n] + G[n]}
<1>4. 0 \in T
  BY <1>1, <1>2, <1>3, PartsNumbered DEF IsSum
<1>5. \A n \in T : n + 1 \in T
  <2> TAKE n \in T
  <2>1. ASSUME n + 1 <= Size PROVE H[n + 1] = F[n + 1] + G[n + 1]
    <3>1. n \in Nat /\ n <= Size /\ n + 1 \in 1 .. Size /\ n + 1 - 1 = n /\ n + 1 \in Parts
          /\ n \in 0 .. Size
      BY <2>1, PartsNumbered
    <3>2. H[n + 1] = H[n] + h[n + 1] /\ F[n + 1] = F[n] + f[n + 1] /\ G[n + 1] = G[n] + g[n + 1]
      BY <1>1, <1>2, <1>3, <3>1 DEF IsSum
    <3>3. H[n] = F[n] + G[n] /\ h[n + 1] = f[n + 1] + g[n + 1]
      BY <3>1
    <3>4. F[n] \in Nat /\ G[n] \in Nat /\ f[n + 1] \in Nat /\ g[n + 1] \in Nat
      BY <1>1, <1>2, <3>1 DEF IsSum
    <3> QED BY <3>2, <3>3, <3>4
  <2> QED BY <2>1
<1>6. T = Nat
  <2> HIDE DEF T
  <2>1. T \subseteq Nat
    BY DEF T
  <2> QED BY <1>4, <1>5, <2>1, Induction
<1>7. H[Size] = F[Size] + G[Size]
  <2>1. Size \in Nat /\ Size <= Size
    BY PartsNumbered
  <2> QED BY <1>6, <2>1
<1>8. Size \in 0 .. Size
  BY PartsNumbered
<1>9. F[Size] \in Nat /\ G[Size] \in Nat /\ H[Size] \in Nat
  BY <1>1, <1>2, <1>3, <1>8 DEF IsSum
<1> QED BY <1>1, <1>2, <1>3, <1>7, <1>9

(* The total of one part is its number.                                    *)
LEMMA TotalOfOne ==
  ASSUME NEW f \in [Parts -> Nat], NEW p \in Parts, \A i \in Parts \ {p} : f[i] = 0
  PROVE  Total(f) = f[p]
<1>1. PICK F : IsSum(F, f) /\ Total(f) = F[Size]
  BY TotalIs
<1>2. p \in Nat /\ 1 <= p /\ p <= Size /\ f[p] \in Nat
  BY PartsNumbered
<1> DEFINE T == {n \in Nat : n <= Size => F[n] = IF n < p THEN 0 ELSE f[p]}
<1>3. 0 \in T
  BY <1>1, <1>2 DEF IsSum
<1>4. \A n \in T : n + 1 \in T
  <2> TAKE n \in T
  <2>1. ASSUME n + 1 <= Size PROVE F[n + 1] = IF n + 1 < p THEN 0 ELSE f[p]
    <3>1. n \in Nat /\ n <= Size /\ n + 1 \in 1 .. Size /\ n + 1 - 1 = n /\ n + 1 \in Parts
      BY <2>1, PartsNumbered
    <3>2. F[n + 1] = F[n] + f[n + 1]
      BY <1>1, <3>1 DEF IsSum
    <3>3. F[n] = IF n < p THEN 0 ELSE f[p]
      BY <3>1
    <3>4. CASE n + 1 = p
      <4>1. F[n] = 0 /\ f[n + 1] = f[p]
        BY <1>2, <3>1, <3>3, <3>4
      <4> QED BY <1>2, <3>1, <3>2, <3>4, <4>1
    <3>5. CASE n + 1 # p
      <4>1. f[n + 1] = 0
        BY <3>1, <3>5
      <4>2. n < p <=> n + 1 < p
        BY <1>2, <3>1, <3>5
      <4> QED BY <1>2, <3>1, <3>2, <3>3, <4>1, <4>2
    <3> QED BY <3>4, <3>5
  <2> QED BY <2>1
<1>5. T = Nat
  <2> HIDE DEF T
  <2>1. T \subseteq Nat
    BY DEF T
  <2> QED BY <1>3, <1>4, <2>1, Induction
<1>6. ~(Size < p) /\ Size \in Nat
  BY <1>2, PartsNumbered
<1> QED BY <1>1, <1>5, <1>6
-----------------------------------------------------------------------------
(* The counters of a session object.                                       *)
Accounted(S) ==
  /\ S.count = Cardinality(ChangedOf(S, Parts))
  /\ S.chars = CharsOf(S, Parts)
  /\ S.chars <= MaxChars
WeightOf(S, P) ==
  [p \in Parts |-> IF p \in ChangedOf(S, P) THEN Chars[S.parts[p].form] ELSE 0]

(* What CharsOf totals, and the parts it is about.                         *)
LEMMA Weights ==
  ASSUME NEW S, NEW P \in SUBSET Parts
  PROVE  /\ WeightOf(S, P) \in [Parts -> Nat]
         /\ CharsOf(S, P) = Total(WeightOf(S, P))
         /\ IsFiniteSet(ChangedOf(S, P))
         /\ Cardinality(ChangedOf(S, P)) \in Nat
<1>1. \A p \in ChangedOf(S, P) : Chars[S.parts[p].form] \in Nat
  BY LifecycleAssumption DEF ChangedOf, Changed
<1>2. WeightOf(S, P) \in [Parts -> Nat]
  BY <1>1 DEF WeightOf
<1>3. ChangedOf(S, P) \in SUBSET Parts
  BY DEF ChangedOf
<1>4. IsFiniteSet(ChangedOf(S, P))
  BY <1>3, PartsNumbered, FS_Subset
<1> QED BY <1>2, <1>4, FS_CardinalityType, Zenon DEF CharsOf, WeightOf

(* Giving up the representations of P, and charging for them, leaves the   *)
(* counters exact.                                                         *)
LEMMA ForgottenAccounted ==
  ASSUME NEW S, Accounted(S), NEW P \in SUBSET Parts, NEW R,
         R.count = NonNegative(S.count - Cardinality(ChangedOf(S, P))),
         R.chars = NonNegative(S.chars - CharsOf(S, P)),
         \A p \in P : ~Changed(R.parts[p]),
         \A p \in Parts \ P : /\ Changed(R.parts[p]) <=> Changed(S.parts[p])
                              /\ Changed(S.parts[p]) => R.parts[p].form = S.parts[p].form
  PROVE  Accounted(R) /\ R.count \in Nat /\ R.chars \in Nat
<1> DEFINE A == ChangedOf(S, Parts)
           B == ChangedOf(S, P)
           C == ChangedOf(R, Parts)
<1>1. C = A \ B /\ A \cap B = B
  BY DEF ChangedOf
<1>2. /\ IsFiniteSet(A) /\ Cardinality(A) \in Nat
      /\ IsFiniteSet(B) /\ Cardinality(B) \in Nat
      /\ IsFiniteSet(C) /\ Cardinality(C) \in Nat
  BY Weights
<1>3. S.count = Cardinality(A) /\ R.count = NonNegative(S.count - Cardinality(B))
  BY DEF Accounted
<1>4. \A p \in Parts : WeightOf(S, Parts)[p] = WeightOf(S, P)[p] + WeightOf(R, Parts)[p]
  <2> TAKE p \in Parts
  <2>1. CASE p \in B
    <3>1. p \in A /\ p \notin C
      BY <2>1, <1>1
    <3>2. Chars[S.parts[p].form] \in Nat
      BY <3>1, LifecycleAssumption DEF ChangedOf, Changed
    <3> QED BY <2>1, <3>1, <3>2 DEF WeightOf
  <2>2. CASE p \in A \ B
    <3>1. p \notin P /\ p \in C
      BY <2>2, <1>1 DEF ChangedOf
    <3>2. R.parts[p].form = S.parts[p].form
      BY <2>2, <3>1 DEF ChangedOf
    <3>3. Chars[S.parts[p].form] \in Nat
      BY <2>2, LifecycleAssumption DEF ChangedOf, Changed
    <3> QED BY <2>2, <3>1, <3>2, <3>3 DEF WeightOf
  <2>3. CASE p \notin A
    <3>1. p \notin B /\ p \notin C
      BY <2>3, <1>1
    <3> QED BY <2>3, <3>1 DEF WeightOf
  <2> QED BY <2>1, <2>2, <2>3
<1> HIDE DEF A, B, C
<1>5. Cardinality(A \ B) = Cardinality(A) - Cardinality(B)
  <2>1. Cardinality(A \ B) = Cardinality(A) - Cardinality(A \cap B)
    BY <1>2, FS_Difference
  <2> QED BY <1>1, <2>1
<1>6. R.count = Cardinality(C) /\ R.count \in Nat
  BY <1>1, <1>2, <1>3, <1>5 DEF NonNegative
<1>7. /\ CharsOf(S, Parts) = CharsOf(S, P) + CharsOf(R, Parts)
      /\ CharsOf(S, P) \in Nat /\ CharsOf(R, Parts) \in Nat
  <2>1. /\ WeightOf(S, Parts) \in [Parts -> Nat] /\ WeightOf(S, P) \in [Parts -> Nat]
        /\ WeightOf(R, Parts) \in [Parts -> Nat]
        /\ CharsOf(S, Parts) = Total(WeightOf(S, Parts))
        /\ CharsOf(S, P) = Total(WeightOf(S, P))
        /\ CharsOf(R, Parts) = Total(WeightOf(R, Parts))
    BY Weights
  <2> QED BY <1>4, <2>1, TotalAdds
<1>8. S.chars = CharsOf(S, Parts) /\ S.chars <= MaxChars /\ MaxChars \in Nat
  BY LifecycleAssumption DEF Accounted
<1>9. R.chars = CharsOf(R, Parts) /\ R.chars <= MaxChars /\ R.chars \in Nat
  BY <1>7, <1>8 DEF NonNegative
<1> QED BY <1>6, <1>9 DEF Accounted, C

(* Retaining one more, within the limit, leaves them exact.                *)
LEMMA RetainedAccounted ==
  ASSUME NEW S, Accounted(S), NEW p \in Parts, NEW f \in Forms, NEW R,
         ~Changed(S.parts[p]), R.parts[p].form = f,
         \A i \in Parts \ {p} : R.parts[i] = S.parts[i],
         R.count = S.count + 1, R.chars = S.chars + Chars[f], R.chars <= MaxChars
  PROVE  Accounted(R)
<1> DEFINE A == ChangedOf(S, Parts)
           C == ChangedOf(R, Parts)
           u == [i \in Parts |-> IF i = p THEN Chars[f] ELSE 0]
<1>1. p \notin A /\ C = A \cup {p}
  BY DEF ChangedOf, Changed
<1>2. IsFiniteSet(A) /\ S.count = Cardinality(A)
  BY Weights DEF Accounted
<1>3. u \in [Parts -> Nat] /\ u[p] = Chars[f] /\ \A i \in Parts \ {p} : u[i] = 0
  BY LifecycleAssumption
<1>4. \A i \in Parts : WeightOf(R, Parts)[i] = WeightOf(S, Parts)[i] + u[i]
  <2> TAKE i \in Parts
  <2>1. Chars[f] \in Nat /\ (i \in A => Chars[S.parts[i].form] \in Nat)
    BY LifecycleAssumption DEF ChangedOf, Changed
  <2>2. CASE i = p
    BY <1>1, <2>1, <2>2 DEF WeightOf
  <2>3. CASE i # p
    <3>1. i \in C <=> i \in A
      BY <1>1, <2>3
    <3>2. R.parts[i] = S.parts[i]
      BY <2>3
    <3> QED BY <2>1, <2>3, <3>1, <3>2 DEF WeightOf
  <2> QED BY <2>2, <2>3
<1> HIDE DEF A, C, u
<1>5. Cardinality(C) = Cardinality(A) + 1
  BY <1>1, <1>2, FS_AddElement
<1>6. CharsOf(R, Parts) = CharsOf(S, Parts) + Chars[f]
  <2>1. /\ WeightOf(S, Parts) \in [Parts -> Nat] /\ WeightOf(R, Parts) \in [Parts -> Nat]
        /\ CharsOf(S, Parts) = Total(WeightOf(S, Parts))
        /\ CharsOf(R, Parts) = Total(WeightOf(R, Parts))
    BY Weights
  <2>2. Total(u) = Chars[f]
    BY <1>3, TotalOfOne
  <2> DEFINE v == WeightOf(S, Parts)
             x == WeightOf(R, Parts)
  <2>3. v \in [Parts -> Nat] /\ x \in [Parts -> Nat] /\ \A i \in Parts : x[i] = v[i] + u[i]
    BY <1>4, <2>1
  <2> HIDE DEF v, x
  <2>4. Total(x) = Total(v) + Total(u)
    BY <1>3, <2>3, TotalAdds
  <2> QED BY <2>1, <2>2, <2>4 DEF v, x
<1>7. R.count = Cardinality(C)
  BY <1>2, <1>5
<1>8. S.chars = CharsOf(S, Parts)
  BY DEF Accounted
<1>9. R.chars = CharsOf(R, Parts)
  BY <1>6, <1>8
<1> QED BY <1>7, <1>9 DEF Accounted, C

(* So does any change that keeps what is retained.                         *)
LEMMA SameAccounted ==
  ASSUME NEW S, Accounted(S), NEW R, R.count = S.count, R.chars = S.chars,
         \A p \in Parts : /\ Changed(R.parts[p]) <=> Changed(S.parts[p])
                          /\ Changed(S.parts[p]) => R.parts[p].form = S.parts[p].form
  PROVE  Accounted(R)
<1>1. ChangedOf(R, Parts) = ChangedOf(S, Parts)
  BY DEF ChangedOf
<1>2. WeightOf(R, Parts) = WeightOf(S, Parts)
  <2>1. \A p \in Parts : p \in ChangedOf(S, Parts) => R.parts[p].form = S.parts[p].form
    BY DEF ChangedOf
  <2> QED BY <1>1, <2>1 DEF WeightOf
<1>3. CharsOf(R, Parts) = CharsOf(S, Parts)
  BY <1>2, Weights
<1> QED BY <1>1, <1>3 DEF Accounted

(* A new object retains nothing.                                           *)
LEMMA FreshAccounted == Fresh \in SessionState /\ Accounted(Fresh)
<1>1. Fresh \in SessionState
  BY DEF Fresh, SessionState
<1>2. \A p \in Parts : ~Changed(Fresh.parts[p])
  BY LifecycleAssumption DEF Fresh, Unknown, Changed
<1>3. ChangedOf(Fresh, Parts) = {}
  BY <1>2 DEF ChangedOf
<1>4. \A p \in Parts : WeightOf(Fresh, Parts)[p] = 0
  BY <1>3 DEF WeightOf
<1>5. CharsOf(Fresh, Parts) = 0
  <2> DEFINE f == WeightOf(Fresh, Parts)
  <2>1. f \in [Parts -> Nat] /\ CharsOf(Fresh, Parts) = Total(f)
    BY Weights
  <2>2. \A p \in Parts : f[p] = f[p] + f[p]
    BY <1>4
  <2> HIDE DEF f
  <2>3. Total(f) = Total(f) + Total(f) /\ Total(f) \in Nat
    <3>1. f \in [Parts -> Nat]
      BY <2>1
    <3> QED BY <2>2, <3>1, TotalAdds
  <2>4. \A n \in Nat : n = n + n => n = 0
    OBVIOUS
  <2>5. Total(f) = 0
    BY <2>3, <2>4
  <2> QED BY <2>1, <2>5
<1>6. Fresh.count = 0 /\ Fresh.chars = 0
  BY DEF Fresh
<1>7. 0 <= MaxChars
  <2>1. MaxChars \in Nat
    BY LifecycleAssumption
  <2> QED BY <2>1
<1>8. Cardinality(ChangedOf(Fresh, Parts)) = 0
  BY <1>3, FS_EmptySet
<1> HIDE DEF Fresh
<1> QED BY <1>1, <1>5, <1>6, <1>7, <1>8 DEF Accounted
-----------------------------------------------------------------------------
(* Moving a key to the end, and dropping others, keeps the Map in order.   *)
LEMMA AtEndInOrder ==
  ASSUME NEW order, NEW K, InOrder(order, K), NEW O, O \subseteq K, NEW s, s \notin O
  PROVE  /\ InOrder(AtEnd(order, O, s), O \cup {s})
         /\ AtEnd(order, O, s) \subseteq (O \cup {s}) \X (O \cup {s})
<1> DEFINE N == AtEnd(order, O, s)
<1>1. \A i, j \in O : <<i, j>> \in N <=> <<i, j>> \in order
  BY DEF AtEnd
<1>2. \A i \in O : <<i, s>> \in N
  BY DEF AtEnd
<1>3. \A j \in O \cup {s} : <<s, j>> \notin N
  BY DEF AtEnd
<1>4. N \subseteq (O \cup {s}) \X (O \cup {s})
  BY DEF AtEnd
<1> HIDE DEF N
<1>5. \A i, j \in O \cup {s} : i # j => (<<i, j>> \in N <=> <<j, i>> \notin N)
  BY <1>1, <1>2, <1>3 DEF InOrder
<1>6. \A i, j, k \in O \cup {s} : <<i, j>> \in N /\ <<j, k>> \in N => <<i, k>> \in N
  BY <1>1, <1>2, <1>3 DEF InOrder
<1> QED BY <1>4, <1>5, <1>6 DEF InOrder, N

(* Fewer keys are in order too.                                            *)
LEMMA FewerInOrder ==
  ASSUME NEW order, NEW K, InOrder(order, K), NEW O, O \subseteq K
  PROVE  InOrder(order \cap (O \X O), O)
BY DEF InOrder

(* There are more objects than the map and the windows can refer to, as    *)
(* long as one session has none.                                           *)
LEMMA FreeObject ==
  ASSUME NEW gen \in [SessionIDs -> Generations \cup {0}], NEW s \in SessionIDs, gen[s] = 0,
         NEW win \in [Windows -> Window]
  PROVE  LET g == Min(Generations \ Referenced(gen, win))
         IN  g \in Generations /\ g \notin Referenced(gen, win)
<1> DEFINE I == SessionIDs \ {s}
           WS == Windows \X SessionIDs
           f == [i \in I |-> gen[i]]
           h == [x \in WS |-> win[x[1]].joined[x[2]].generation]
           A == {f[i] : i \in I}
           B == {h[x] : x \in WS}
           nS == Cardinality(SessionIDs)
           nW == Cardinality(Windows)
<1>1. /\ IsFiniteSet(SessionIDs) /\ IsFiniteSet(Windows) /\ nS \in Nat /\ nW \in Nat
  BY LifecycleAssumption, FS_CardinalityType
<1>2. IsFiniteSet(I) /\ Cardinality(I) = nS - 1
  BY <1>1, FS_RemoveElement
<1>3. IsFiniteSet(WS) /\ Cardinality(WS) = nW * nS
  BY <1>1, FS_Product
<1>4. f \in Surjection(I, A) /\ h \in Surjection(WS, B)
  BY Zenon DEF Surjection
<1>5. Generations \subseteq A \cup B \cup (Generations \ Referenced(gen, win))
  <2> SUFFICES ASSUME NEW g \in Generations, g \in Referenced(gen, win)
               PROVE  g \in A \cup B
    OBVIOUS
  <2>0. g # 0
    BY <1>1 DEF Generations
  <2>1. CASE \E i \in SessionIDs : g = gen[i]
    BY <2>0, <2>1
  <2>2. CASE \E w \in Windows, i \in SessionIDs : g = win[w].joined[i].generation
    <3>1. PICK w \in Windows, i \in SessionIDs : g = win[w].joined[i].generation
      BY <2>2
    <3>2. <<w, i>> \in WS /\ h[<<w, i>>] = g
      BY <3>1
    <3> QED BY <3>2
  <2> QED BY <2>1, <2>2 DEF Referenced
<1> HIDE DEF I, WS, f, h, A, B, nS, nW
<1>6. IsFiniteSet(A) /\ Cardinality(A) <= nS - 1 /\ Cardinality(A) \in Nat
  BY <1>2, <1>4, FS_Surjection, FS_CardinalityType
<1>7. IsFiniteSet(B) /\ Cardinality(B) <= nW * nS /\ Cardinality(B) \in Nat
  BY <1>3, <1>4, FS_Surjection, FS_CardinalityType
<1>8. /\ IsFiniteSet(A \cup B) /\ IsFiniteSet(A \cap B)
      /\ Cardinality(A \cup B) = Cardinality(A) + Cardinality(B) - Cardinality(A \cap B)
      /\ Cardinality(A \cap B) \in Nat
  BY <1>6, <1>7, FS_Union, FS_Intersection, FS_CardinalityType
<1>9. nS * (1 + nW) \in Nat /\ nS * (1 + nW) = nS + nW * nS /\ nW * nS \in Nat
  BY <1>1
<1>10. Cardinality(Generations) = nS * (1 + nW) /\ IsFiniteSet(Generations)
  <2> DEFINE k == nS * (1 + nW)
  <2>1. Generations = 1 .. k
    BY DEF Generations, nS, nW
  <2>2. k \in Nat
    BY <1>9
  <2> HIDE DEF k
  <2>3. IsFiniteSet(1 .. k) /\ Cardinality(1 .. k) = k
    <3>1. 1 \in Int /\ k \in Int
      BY <2>2
    <3>2. IsFiniteSet(1 .. k) /\ Cardinality(1 .. k) = IF 1 > k THEN 0 ELSE k - 1 + 1
      BY <3>1, FS_Interval
    <3> QED BY <2>2, <3>2
  <2> QED BY <2>1, <2>3 DEF k
<1>11. Generations \ Referenced(gen, win) # {}
  <2>1. SUFFICES ASSUME Generations \subseteq A \cup B PROVE FALSE
    BY <1>5
  <2>2. Generations \in SUBSET (A \cup B)
    BY <2>1
  <2>3. Cardinality(Generations) <= Cardinality(A \cup B)
    BY <1>8, <2>2, FS_Subset
  <2>4. nS \in Nat
    BY <1>1
  <2> QED BY <1>6, <1>7, <1>8, <1>9, <1>10, <2>3, <2>4
<1>12. Generations \subseteq Nat
  BY <1>1, <1>9 DEF Generations
<1> DEFINE F == Generations \ Referenced(gen, win)
<1>13. F \subseteq Nat /\ F # {}
  BY <1>11, <1>12
<1> HIDE DEF F
<1>14. Min(F) \in F
  BY <1>13, LeastNat DEF Min
<1> QED BY <1>14 DEF F
-----------------------------------------------------------------------------
(* The passes of begin over the parts P of a session keep its object       *)
(* exact.  A part recorded raw stays so, and the unseen ones are recorded  *)
(* raw unless there are too many.                                          *)
LEMMA ReplayKeeps ==
  ASSUME NEW S \in SessionState, Accounted(S), NEW P \in SUBSET Parts,
         NEW at \in [Parts -> Nat]
  PROVE  LET T == AfterReplay(S, P, at)
         IN  /\ T \in SessionState /\ Accounted(T)
             /\ T.openWindows = S.openWindows /\ T.conflictVersion = S.conflictVersion
             /\ T.saturated = S.saturated
             /\ \A p \in Parts : /\ Known(T, p) <=> Known(S, p)
                                 /\ S.parts[p].form = Raw => T.parts[p].form = Raw
<1> DEFINE E == Edited(S, P, at)
           F == Forget(S, E)
           T == AfterReplay(S, P, at)
<1>0. E \in SUBSET Parts /\ \A p \in E : Known(S, p)
  BY DEF Edited
<1>1. /\ DOMAIN S = {"parts", "chars", "count", "saturated", "openWindows", "conflictVersion"}
      /\ S.parts \in [Parts -> Record \cup {Unknown}] /\ S.chars \in Nat /\ S.count \in Nat
      /\ S.saturated \in BOOLEAN /\ S.openWindows \in Nat /\ S.conflictVersion \in Nat
  BY DEF SessionState
<1>2. /\ F = [S EXCEPT !.chars = NonNegative(@ - CharsOf(S, E)),
                       !.count = NonNegative(@ - Cardinality(ChangedOf(S, E)))]
  BY Zenon DEF Forget
<1>3. T = [F EXCEPT !.parts = [p \in Parts |-> IF p \in E THEN RawRecord(at[p]) ELSE @[p]]]
  BY Zenon DEF AfterReplay
<1> HIDE DEF E, F, T
<1>4. /\ F.parts = S.parts /\ F.saturated = S.saturated /\ F.openWindows = S.openWindows
      /\ F.conflictVersion = S.conflictVersion
      /\ F.chars = NonNegative(S.chars - CharsOf(S, E))
      /\ F.count = NonNegative(S.count - Cardinality(ChangedOf(S, E)))
      /\ DOMAIN F = DOMAIN S
  BY <1>1, <1>2
<1>5. /\ T.parts = [p \in Parts |-> IF p \in E THEN RawRecord(at[p]) ELSE S.parts[p]]
      /\ T.saturated = S.saturated /\ T.openWindows = S.openWindows
      /\ T.conflictVersion = S.conflictVersion /\ T.chars = F.chars /\ T.count = F.count
      /\ DOMAIN T = DOMAIN S
  BY <1>1, <1>3, <1>4
<1>6. \A p \in Parts : T.parts[p] = IF p \in E THEN RawRecord(at[p]) ELSE S.parts[p]
  BY <1>5
<1>7. \A p \in E : RawRecord(at[p]) \in Record /\ RawRecord(at[p]).form = Raw
  <2> TAKE p \in E
  <2>1. at[p] \in Nat
    BY <1>0
  <2> QED BY <2>1 DEF RawRecord, Record
<1>8. \A p \in E : ~Changed(T.parts[p])
  BY <1>0, <1>6, <1>7, LifecycleAssumption DEF Changed
<1>9. Accounted(T) /\ T.count \in Nat /\ T.chars \in Nat
  <2>1. \A p \in Parts \ E : T.parts[p] = S.parts[p]
    BY <1>6
  <2>2. \A p \in Parts \ E : /\ Changed(T.parts[p]) <=> Changed(S.parts[p])
                             /\ Changed(S.parts[p]) => T.parts[p].form = S.parts[p].form
    BY <2>1
  <2>3. /\ T.count = NonNegative(S.count - Cardinality(ChangedOf(S, E)))
        /\ T.chars = NonNegative(S.chars - CharsOf(S, E))
    BY <1>4, <1>5
  <2> QED BY <1>0, <1>8, <2>2, <2>3, ForgottenAccounted
<1>10. T.parts \in [Parts -> Record \cup {Unknown}]
  BY <1>1, <1>5, <1>7
<1>11. T \in SessionState
  <2>1. T = [parts |-> T.parts, chars |-> T.chars, count |-> T.count,
             saturated |-> T.saturated, openWindows |-> T.openWindows,
             conflictVersion |-> T.conflictVersion]
    BY <1>1, <1>3, <1>5, <1>2
  <2> QED BY <1>1, <1>5, <1>9, <1>10, <2>1 DEF SessionState
<1>12. ASSUME NEW p \in Parts
       PROVE  /\ Known(T, p) <=> Known(S, p)
              /\ S.parts[p].form = Raw => T.parts[p].form = Raw
  <2>1. CASE p \in E
    <3>1. T.parts[p].form = Raw /\ Known(S, p)
      BY <1>0, <1>6, <1>7, <2>1
    <3>2. Raw # "unknown"
      BY LifecycleAssumption
    <3>3. T.parts[p] # Unknown
      BY <3>1, <3>2 DEF Unknown
    <3> QED BY <3>1, <3>3 DEF Known
  <2>2. CASE p \notin E
    BY <1>6, <2>2 DEF Known
  <2> QED BY <2>1, <2>2
<1> QED BY <1>5, <1>9, <1>11, <1>12 DEF T

(* begin's recording pass: the new parts are recorded raw.                 *)
LEMMA RecordingKeeps ==
  ASSUME NEW S \in SessionState, Accounted(S), NEW P \in SUBSET Parts,
         NEW at \in [Parts -> Nat]
  PROVE  LET T == AfterRecording(S, P, at)
         IN  /\ T \in SessionState /\ Accounted(T)
             /\ T.openWindows = S.openWindows /\ T.conflictVersion = S.conflictVersion
             /\ \A p \in Parts : /\ Known(S, p) => T.parts[p] = S.parts[p]
                                 /\ ~Overfull(S, P) /\ p \in Unseen(S, P)
                                      => T.parts[p] = RawRecord(at[p])
<1> DEFINE U == Unseen(S, P)
           T == AfterRecording(S, P, at)
<1>1. /\ DOMAIN S = {"parts", "chars", "count", "saturated", "openWindows", "conflictVersion"}
      /\ S.parts \in [Parts -> Record \cup {Unknown}] /\ S.chars \in Nat /\ S.count \in Nat
      /\ S.saturated \in BOOLEAN /\ S.openWindows \in Nat /\ S.conflictVersion \in Nat
  BY DEF SessionState
<1>2. U \in SUBSET Parts /\ \A p \in U : ~Known(S, p)
  BY DEF Unseen
<1>3. CASE Overfull(S, P)
  <2>1. T = [S EXCEPT !.saturated = TRUE]
    BY <1>3, Zenon DEF AfterRecording
  <2> HIDE DEF T
  <2>2. /\ T.parts = S.parts /\ T.chars = S.chars /\ T.count = S.count
        /\ T.openWindows = S.openWindows /\ T.conflictVersion = S.conflictVersion
    BY <1>1, <2>1
  <2>3. T \in SessionState
    BY <1>1, <2>1 DEF SessionState
  <2>4. Accounted(T)
    BY <2>2, SameAccounted
  <2> QED BY <1>3, <2>2, <2>3, <2>4 DEF T
<1>4. CASE ~Overfull(S, P)
  <2>1. T = [S EXCEPT !.parts = [p \in Parts |-> IF p \in U THEN RawRecord(at[p]) ELSE @[p]]]
    BY <1>4, Zenon DEF AfterRecording
  <2> HIDE DEF T, U
  <2>2. /\ T.parts = [p \in Parts |-> IF p \in U THEN RawRecord(at[p]) ELSE S.parts[p]]
        /\ T.chars = S.chars /\ T.count = S.count
        /\ T.openWindows = S.openWindows /\ T.conflictVersion = S.conflictVersion
    BY <1>1, <2>1
  <2>3. \A p \in Parts : T.parts[p] = IF p \in U THEN RawRecord(at[p]) ELSE S.parts[p]
    BY <2>2
  <2>4. \A p \in U : RawRecord(at[p]) \in Record /\ RawRecord(at[p]).form = Raw
    <3> TAKE p \in U
    <3>1. at[p] \in Nat
      BY <1>2
    <3> QED BY <3>1 DEF RawRecord, Record
  <2>5. T.parts \in [Parts -> Record \cup {Unknown}]
    BY <1>1, <2>2, <2>4
  <2>6. T \in SessionState
    BY <1>1, <2>1, <2>5, <2>2 DEF SessionState
  <2>7. \A p \in Parts : /\ Changed(T.parts[p]) <=> Changed(S.parts[p])
                         /\ Changed(S.parts[p]) => T.parts[p].form = S.parts[p].form
    <3> TAKE p \in Parts
    <3>1. CASE p \in U
      <4>1. S.parts[p].form = "unknown" /\ T.parts[p].form = Raw
        BY <1>2, <2>3, <2>4, <3>1 DEF Known, Unknown
      <4> QED BY <4>1, LifecycleAssumption DEF Changed
    <3>2. CASE p \notin U
      BY <2>3, <3>2
    <3> QED BY <3>1, <3>2
  <2>8. Accounted(T)
    BY <2>2, <2>7, SameAccounted
  <2>9. \A p \in Parts : /\ Known(S, p) => T.parts[p] = S.parts[p]
                         /\ p \in U => T.parts[p] = RawRecord(at[p])
    BY <1>2, <2>3
  <2> QED BY <1>4, <2>2, <2>6, <2>8, <2>9 DEF T, U
<1> QED BY <1>3, <1>4

(* Both passes of begin.                                                   *)
Passed(S, P, at) == AfterRecording(AfterReplay(S, P, at), P, at)

(* Both passes of begin, one after the other.                              *)
LEMMA PassesKeep ==
  ASSUME NEW S \in SessionState, Accounted(S), NEW P \in SUBSET Parts,
         NEW at \in [Parts -> Nat]
  PROVE  /\ Passed(S, P, at) \in SessionState /\ Accounted(Passed(S, P, at))
         /\ Passed(S, P, at).openWindows = S.openWindows
         /\ Passed(S, P, at).conflictVersion = S.conflictVersion
         /\ \A p \in Parts :
              /\ S.parts[p].form = Raw => Passed(S, P, at).parts[p].form = Raw
              /\ ~Overfull(S, P) /\ p \in Unseen(S, P) => Passed(S, P, at).parts[p].form = Raw
<1> DEFINE T == AfterReplay(S, P, at)
           R == AfterRecording(T, P, at)
<1>1. /\ T \in SessionState /\ Accounted(T)
      /\ T.openWindows = S.openWindows /\ T.conflictVersion = S.conflictVersion
      /\ T.saturated = S.saturated
      /\ \A p \in Parts : /\ Known(T, p) <=> Known(S, p)
                          /\ S.parts[p].form = Raw => T.parts[p].form = Raw
  BY ReplayKeeps
<1> HIDE DEF T
<1>2. /\ R \in SessionState /\ Accounted(R)
      /\ R.openWindows = T.openWindows /\ R.conflictVersion = T.conflictVersion
      /\ \A p \in Parts : /\ Known(T, p) => R.parts[p] = T.parts[p]
                          /\ ~Overfull(T, P) /\ p \in Unseen(T, P)
                               => R.parts[p] = RawRecord(at[p])
  BY <1>1, RecordingKeeps
<1> HIDE DEF R
<1>3. Unseen(T, P) = Unseen(S, P)
  BY <1>1 DEF Unseen
<1>4. Overfull(T, P) <=> Overfull(S, P)
  <2>1. {p \in Parts : Known(T, p)} = {p \in Parts : Known(S, p)}
    BY <1>1
  <2> QED BY <1>1, <2>1 DEF Overfull
<1>5. \A p \in Parts : S.parts[p].form = Raw => Known(S, p)
  <2>1. Raw # "unknown" /\ Unknown.form = "unknown"
    BY LifecycleAssumption DEF Unknown
  <2> QED BY <2>1 DEF Known
<1>6. \A p \in Parts : RawRecord(at[p]).form = Raw
  BY DEF RawRecord
<1>7. Passed(S, P, at) = R
  BY DEF Passed, R, T
<1> QED BY <1>1, <1>2, <1>3, <1>4, <1>5, <1>6, <1>7

(* What the passes of begin do to the record of a part.                    *)
LEMMA PassedShows ==
  ASSUME NEW S \in SessionState, NEW P \in SUBSET Parts, NEW at \in [Parts -> Nat]
  PROVE  /\ Overfull(S, P) => Passed(S, P, at).saturated
         /\ S.saturated => Overfull(S, P)
         /\ \A p \in Parts :
              Passed(S, P, at).parts[p] =
                IF p \in P /\ (IF Known(S, p) THEN S.parts[p].version # at[p]
                               ELSE ~Overfull(S, P))
                THEN RawRecord(at[p]) ELSE S.parts[p]
<1> DEFINE E == Edited(S, P, at)
           F == Forget(S, E)
           tparts == [p \in Parts |-> IF p \in E THEN RawRecord(at[p]) ELSE S.parts[p]]
           T == AfterReplay(S, P, at)
           U == Unseen(T, P)
           rparts == [p \in Parts |-> IF p \in U THEN RawRecord(at[p]) ELSE tparts[p]]
           R == AfterRecording(T, P, at)
<1>1. /\ DOMAIN S = {"parts", "chars", "count", "saturated", "openWindows", "conflictVersion"}
      /\ S.parts \in [Parts -> Record \cup {Unknown}]
  BY DEF SessionState
<1>2. /\ F.parts = S.parts /\ F.saturated = S.saturated /\ DOMAIN F = DOMAIN S
  BY <1>1 DEF Forget
<1>3. /\ T.parts = tparts /\ T.saturated = S.saturated /\ DOMAIN T = DOMAIN S
  <2>1. T = [F EXCEPT !.parts = [p \in Parts |-> IF p \in E THEN RawRecord(at[p]) ELSE @[p]]]
    BY Zenon DEF AfterReplay
  <2> HIDE DEF T, F, E
  <2> QED BY <1>1, <1>2, <2>1
<1>4. \A p \in Parts : tparts[p] = IF p \in E THEN RawRecord(at[p]) ELSE S.parts[p]
  BY Zenon
<1>5. \A p \in E : p \in P /\ Known(S, p) /\ S.parts[p].version # at[p]
  BY DEF Edited
<1>6. \A p \in Parts : RawRecord(at[p]) # Unknown
  <2>1. Raw # "unknown"
    BY LifecycleAssumption
  <2> QED BY <2>1 DEF RawRecord, Unknown
<1> HIDE DEF T, tparts
<1>7. \A p \in Parts : Known(T, p) <=> Known(S, p)
  BY <1>3, <1>4, <1>5, <1>6 DEF Known
<1>8. U = Unseen(S, P) /\ (Overfull(T, P) <=> Overfull(S, P))
  <2>1. {p \in Parts : Known(T, p)} = {p \in Parts : Known(S, p)}
    BY <1>7
  <2> QED BY <1>3, <1>7, <2>1 DEF Overfull, Unseen
<1>9. /\ Overfull(S, P) => R.parts = tparts /\ R.saturated = TRUE
      /\ ~Overfull(S, P) => R.parts = rparts
  <2>1. Overfull(S, P) => R = [T EXCEPT !.saturated = TRUE]
    BY <1>8, Zenon DEF AfterRecording
  <2>2. ~Overfull(S, P) =>
          R = [T EXCEPT !.parts = [p \in Parts |-> IF p \in U THEN RawRecord(at[p]) ELSE @[p]]]
    BY <1>8, Zenon DEF AfterRecording
  <2> HIDE DEF R, U
  <2> QED BY <1>1, <1>3, <2>1, <2>2
<1>10. \A p \in Parts : rparts[p] = IF p \in U THEN RawRecord(at[p]) ELSE tparts[p]
  BY Zenon
<1> HIDE DEF R, rparts, U
<1>11. \A p \in Parts : p \in E <=> p \in P /\ Known(S, p) /\ S.parts[p].version # at[p]
  BY DEF Edited
<1>12. \A p \in Parts : p \in U <=> p \in P /\ ~Known(S, p)
  BY <1>8 DEF Unseen
<1>13. Passed(S, P, at) = R
  BY DEF Passed, R, T
<1>14. S.saturated => Overfull(S, P)
  BY DEF Overfull
<1> HIDE DEF E
<1> QED BY <1>4, <1>9, <1>10, <1>11, <1>12, <1>13, <1>14
-----------------------------------------------------------------------------
(* The inductive invariant.  A session refers to an object by its entry in *)
(* the map or by a window that joined it.                                  *)
RefersIn(gen, s, g) == gen[s] = g \/ \E w \in Windows : window[w].joined[s].generation = g
OneOwnerIn(gen) ==
  \A g \in Generations : \A s, i \in SessionIDs :
    RefersIn(gen, s, g) /\ RefersIn(gen, i, g) => s = i
OneOwner == OneOwnerIn(generation)
UnreferencedFresh ==
  \A g \in Generations : g \notin Referenced(generation, window) => state[g] = Fresh
TrackedAccounted == \A s \in Tracked : Accounted(state[generation[s]])
Joiners(g) == {w \in Windows : \E s \in SessionIDs : window[w].joined[s].generation = g}

(* A closed window is reset; an open one has seen no later conflict of an  *)
(* object than the object has, and can replay only what it joined.         *)
WindowsInShape ==
  \A w \in Windows :
    /\ ~window[w].open => window[w] = Closed
    /\ \A s \in SessionIDs :
         LET j == window[w].joined[s]
         IN  /\ j.generation = 0 => j = NotJoined
             /\ j.generation # 0 => j.conflictVersion <= state[j.generation].conflictVersion
    /\ \A p \in window[w].replayed : Joined(w, p).generation # 0
LiveRecordedRaw ==
  \A w \in Windows : \A p \in window[w].live :
    /\ Joined(w, p).generation # 0
    /\ state[Joined(w, p).generation].parts[p].form = Raw
    /\ \A v \in Windows \ {w} :
         p \in window[v].live => Joined(v, p).generation # Joined(w, p).generation

(* Another window on the object makes a window with new parts of it stale. *)
OverlapIsStale ==
  \A w \in Windows : \A p \in window[w].live :
    SessionOf[p] \in window[w].overlapped
      => Joined(w, p).conflictVersion < state[Joined(w, p).generation].conflictVersion
IInv ==
  /\ TypeOK /\ OneOwner /\ UnreferencedFresh /\ TrackedAccounted /\ OpenWindowsAccounted
  /\ WindowsInShape /\ LiveRecordedRaw /\ OverlapIsStale

(* What begin has made of the manager after n of the sessions of a request *)
(* (m as in Begin).                                                        *)
InUse(s) ==
  \/ Retained(generation[s]) # {}
  \/ \E w \in Windows : window[w].joined[s].generation = generation[s]
JoinedRecord == [generation : Generations \cup {0}, conflictVersion : Nat]
Observation ==
  [mapOrder : SUBSET (SessionIDs \X SessionIDs), generation : [SessionIDs -> Generations \cup {0}],
   state : [Generations -> SessionState], joined : [SessionIDs -> JoinedRecord],
   firstObserved : SUBSET SessionIDs, overlapping : SUBSET SessionIDs]
OpenIn(m, g) ==
  m.state[g].openWindows =
    Cardinality(Joiners(g)) + IF \E s \in SessionIDs : m.joined[s].generation = g THEN 1 ELSE 0
JoinedIn(m, s) ==
  IF m.joined[s].generation = 0 THEN m.joined[s] = NotJoined
  ELSE /\ m.generation[s] = m.joined[s].generation
       /\ m.state[m.generation[s]].conflictVersion = m.joined[s].conflictVersion
KeptIn(m, v, s) ==
  LET g == window[v].joined[s].generation
  IN  g # 0 => /\ m.state[g].parts = state[g].parts
               /\ state[g].conflictVersion <= m.state[g].conflictVersion
OverlapsIn(m, s) ==
  /\ m.joined[s].generation # 0
  /\ state[m.joined[s].generation].conflictVersion
       < m.state[m.joined[s].generation].conflictVersion
UsedIn(m, s) ==
  /\ m.generation[s] = generation[s]
  /\ m.state[generation[s]].parts = state[generation[s]].parts
MapIn(m) ==
  /\ m.mapOrder \subseteq KeysOf(m.generation) \X KeysOf(m.generation)
  /\ InOrder(m.mapOrder, KeysOf(m.generation))
Observing(ids, n, m) ==
  /\ m \in Observation
  /\ MapIn(m)
  /\ OneOwnerIn(m.generation)
  /\ \A s \in KeysOf(m.generation) : Accounted(m.state[m.generation[s]])
  /\ \A g \in Generations : OpenIn(m, g)
  /\ \A s \in SessionIDs : JoinedIn(m, s)
  /\ \A s \in SessionIDs : (\A k \in 1 .. n : ids[k] # s) => m.joined[s] = NotJoined
  /\ \A v \in Windows, s \in SessionIDs : KeptIn(m, v, s)
  /\ \A s \in m.overlapping : OverlapsIn(m, s)
  /\ \A s \in Tracked : InUse(s) => UsedIn(m, s)

(* The keys of the map by then: none but the old ones and those of the     *)
(* request, each of which is joined if it has an object, and not too many. *)
Admitting(ids, n, m) ==
  /\ \A s \in KeysOf(m.generation) : s \in Tracked \/ \E k \in 1 .. n : s = ids[k]
  /\ \A k \in 1 .. n : m.joined[ids[k]].generation = 0 => m.generation[ids[k]] = 0
  /\ Cardinality(Tracked) <= MaxSessions => Cardinality(KeysOf(m.generation)) <= MaxSessions

(* The window type as the invariants use it, and what is finite.           *)
LEMMA Finite ==
  /\ IsFiniteSet(SessionIDs) /\ IsFiniteSet(Windows)
  /\ 0 \notin Generations /\ Generations \subseteq Nat
  /\ \A g : IsFiniteSet(Joiners(g)) /\ Cardinality(Joiners(g)) \in Nat
  /\ \A gen : IsFiniteSet(KeysOf(gen)) /\ Cardinality(KeysOf(gen)) \in Nat
<1>1. IsFiniteSet(SessionIDs) /\ IsFiniteSet(Windows)
  BY LifecycleAssumption
<1>2. /\ Cardinality(SessionIDs) \in Nat /\ Cardinality(Windows) \in Nat
  BY <1>1, FS_CardinalityType
<1>3. Cardinality(SessionIDs) * (1 + Cardinality(Windows)) \in Nat
  BY <1>2
<1>4. 0 \notin Generations /\ Generations \subseteq Nat
  BY <1>3 DEF Generations
<1>5. \A g : Joiners(g) \in SUBSET Windows
  BY DEF Joiners
<1>6. \A gen : KeysOf(gen) \in SUBSET SessionIDs
  BY DEF KeysOf
<1> QED BY <1>1, <1>4, <1>5, <1>6, FS_Subset, FS_CardinalityType

(* A window that joined an object keeps it from being idle.                *)
LEMMA JoinedIsBusy ==
  ASSUME NEW m \in Observation, NEW g \in Generations, OpenIn(m, g),
         \/ \E v \in Windows, s \in SessionIDs : window[v].joined[s].generation = g
         \/ \E s \in SessionIDs : m.joined[s].generation = g
  PROVE  m.state[g].openWindows > 0
<1>1. Cardinality(Joiners(g)) \in Nat /\ IsFiniteSet(Joiners(g))
  BY Finite
<1>2. CASE \E s \in SessionIDs : m.joined[s].generation = g
  BY <1>1, <1>2 DEF OpenIn
<1>3. CASE \E v \in Windows, s \in SessionIDs : window[v].joined[s].generation = g
  <2>1. Joiners(g) # {}
    BY <1>3 DEF Joiners
  <2>2. Cardinality(Joiners(g)) # 0
    BY <1>1, <2>1, FS_EmptySet
  <2> QED BY <1>1, <2>2 DEF OpenIn
<1> QED BY <1>2, <1>3
-----------------------------------------------------------------------------
(* Touching a session.                                                     *)
LEMMA TouchKeeps ==
  ASSUME NEW ids, NEW n \in Nat, NEW m, Observing(ids, n, m),
         NEW s \in SessionIDs, m.generation[s] # 0
  PROVE  LET m2 == [m EXCEPT !.mapOrder = AtEnd(@, KeysOf(m.generation) \ {s}, s)]
         IN  /\ Observing(ids, n, m2)
             /\ m2.generation = m.generation /\ m2.joined = m.joined
<1> DEFINE K == KeysOf(m.generation)
           o == AtEnd(m.mapOrder, K \ {s}, s)
           m2 == [m EXCEPT !.mapOrder = o]
<1>1. s \in K /\ (K \ {s}) \cup {s} = K /\ K \subseteq SessionIDs
  BY DEF KeysOf
<1>2. InOrder(m.mapOrder, K)
  BY DEF Observing, MapIn
<1>3. InOrder(o, K) /\ o \subseteq K \X K
  <2> DEFINE O == K \ {s}
  <2>1. O \subseteq K /\ s \notin O /\ O \cup {s} = K
    BY <1>1
  <2> HIDE DEF O, K
  <2>2. InOrder(AtEnd(m.mapOrder, O, s), O \cup {s})
        /\ AtEnd(m.mapOrder, O, s) \subseteq (O \cup {s}) \X (O \cup {s})
    BY <1>2, <2>1, AtEndInOrder
  <2> QED BY <2>1, <2>2 DEF O
<1>4. /\ m2.mapOrder = o /\ m2.generation = m.generation /\ m2.state = m.state
      /\ m2.joined = m.joined /\ m2.overlapping = m.overlapping
      /\ m2 \in Observation
  <2>1. o \subseteq SessionIDs \X SessionIDs
    BY <1>1, <1>3
  <2>2. m \in Observation
    BY DEF Observing
  <2> HIDE DEF o
  <2> QED BY <2>1, <2>2 DEF Observation
<1> HIDE DEF o
<1>5. MapIn(m2)
  BY <1>3, <1>4 DEF MapIn
<1> HIDE DEF m2
<1>6. /\ OneOwnerIn(m2.generation)
      /\ \A i \in KeysOf(m2.generation) : Accounted(m2.state[m2.generation[i]])
      /\ \A i \in SessionIDs : (\A k \in 1 .. n : ids[k] # i) => m2.joined[i] = NotJoined
  BY <1>4 DEF Observing
<1>7. \A g \in Generations : OpenIn(m2, g)
  BY <1>4 DEF Observing, OpenIn
<1>8. \A i \in SessionIDs : JoinedIn(m2, i)
  BY <1>4 DEF Observing, JoinedIn
<1>9. \A v \in Windows, i \in SessionIDs : KeptIn(m2, v, i)
  BY <1>4 DEF Observing, KeptIn
<1>10. /\ \A i \in m2.overlapping : OverlapsIn(m2, i)
       /\ \A i \in Tracked : InUse(i) => UsedIn(m2, i)
  BY <1>4 DEF Observing, OverlapsIn, UsedIn
<1>11. Observing(ids, n, m2)
  BY <1>4, <1>5, <1>6, <1>7, <1>8, <1>9, <1>10 DEF Observing
<1> QED BY <1>4, <1>11 DEF m2, o
-----------------------------------------------------------------------------
(* Adding a session, for whose object the oldest idle one may go.          *)
LEMMA CreateKeeps ==
  ASSUME TypeOK, NEW ids, NEW n \in Nat, NEW m, Observing(ids, n, m),
         NEW s \in SessionIDs, m.generation[s] = 0, m.joined[s] = NotJoined
  PROVE  Observing(ids, n, Create(m, s)) /\ Create(m, s).joined = m.joined
<1> DEFINE K == KeysOf(m.generation)
           gone == IF Full(m) THEN {Oldest(m.mapOrder, Idle(m))} ELSE {}
           g == Min(Generations \ Referenced(m.generation, window))
           gen2 == [i \in SessionIDs |-> IF i = s THEN g
                                         ELSE IF i \in gone THEN 0 ELSE m.generation[i]]
           m2 == [m EXCEPT !.mapOrder = AtEnd(@, K \ gone, s),
                           !.generation = [i \in SessionIDs |->
                              IF i = s THEN g ELSE IF i \in gone THEN 0 ELSE @[i]],
                           !.state[g] = Fresh,
                           !.firstObserved = @ \cup {s}]
<1>1. CASE Full(m) /\ Idle(m) = {}
  <2>1. Create(m, s) = m
    BY <1>1, Zenon DEF Create
  <2> QED BY <2>1
<1>2. CASE ~(Full(m) /\ Idle(m) = {})
  <2>1. Create(m, s) = m2
    BY <1>2, Zenon DEF Create
  <2>2. m \in Observation /\ InOrder(m.mapOrder, K)
    BY DEF Observing, MapIn
  <2>3. K \subseteq SessionIDs /\ s \notin K /\ IsFiniteSet(K)
    BY Finite DEF KeysOf
  <2>4. \A i \in gone : i \in Idle(m)
    <3>1. CASE Full(m)
      <4>1. Idle(m) # {} /\ Idle(m) \in SUBSET K
        BY <1>2, <3>1 DEF Idle
      <4>2. IsFiniteSet(Idle(m)) /\ InOrder(m.mapOrder, Idle(m))
        BY <2>2, <2>3, <4>1, FS_Subset DEF InOrder
      <4>3. Oldest(m.mapOrder, Idle(m)) \in Idle(m)
        BY <4>1, <4>2, OldestIsMember
      <4> QED BY <3>1, <4>3
    <3>2. CASE ~Full(m)
      BY <3>2
    <3> QED BY <3>1, <3>2
  <2>5. \A i \in gone : /\ i \in K /\ m.state[m.generation[i]].count = 0
                        /\ m.state[m.generation[i]].openWindows = 0
    BY <2>4 DEF Idle
  <2>6. g \in Generations /\ g \notin Referenced(m.generation, window)
    <3>1. m.generation \in [SessionIDs -> Generations \cup {0}]
      BY <2>2 DEF Observation
    <3>2. window \in [Windows -> Window]
      BY DEF TypeOK
    <3> QED BY <3>1, <3>2, FreeObject
  <2> HIDE DEF gone, g
  <2>7. /\ \A i \in SessionIDs : m.generation[i] # g
        /\ \A v \in Windows, i \in SessionIDs : window[v].joined[i].generation # g
    BY <2>6 DEF Referenced
  <2>8. /\ m2.mapOrder = AtEnd(m.mapOrder, K \ gone, s)
        /\ m2.generation = gen2
        /\ m2.state = [m.state EXCEPT ![g] = Fresh]
        /\ m2.joined = m.joined /\ m2.overlapping = m.overlapping
        /\ m2.firstObserved = m.firstObserved \cup {s}
        /\ DOMAIN m2 = DOMAIN m
    BY <2>2 DEF Observation
  <2>9. /\ m2.state[g] = Fresh
        /\ \A h \in Generations : h # g => m2.state[h] = m.state[h]
        /\ \A i \in SessionIDs : gen2[i] = IF i = s THEN g ELSE IF i \in gone THEN 0
                                           ELSE m.generation[i]
    BY <2>2, <2>6, <2>8 DEF Observation
  <2>10. KeysOf(gen2) = (K \ gone) \cup {s}
    <3>1. \A i \in SessionIDs : i \in KeysOf(gen2) <=> i \in (K \ gone) \cup {s}
      <4> TAKE i \in SessionIDs
      <4>1. g # 0
        BY <2>6, Finite
      <4> QED BY <2>9, <4>1 DEF KeysOf
    <3>2. KeysOf(gen2) \subseteq SessionIDs
      BY DEF KeysOf
    <3> QED BY <2>3, <3>1, <3>2
  <2>11. MapIn(m2)
    <3> DEFINE O == K \ gone
    <3>1. O \subseteq K /\ s \notin O
      BY <2>3
    <3> HIDE DEF O, K
    <3>2. InOrder(AtEnd(m.mapOrder, O, s), O \cup {s})
          /\ AtEnd(m.mapOrder, O, s) \subseteq (O \cup {s}) \X (O \cup {s})
      BY <2>2, <3>1, AtEndInOrder
    <3>3. KeysOf(m2.generation) = O \cup {s} /\ m2.mapOrder = AtEnd(m.mapOrder, O, s)
      BY <2>8, <2>10 DEF O
    <3> HIDE DEF m2
    <3> QED BY <3>2, <3>3 DEF MapIn
  <2>12. gen2 \in [SessionIDs -> Generations \cup {0}]
    BY <2>2, <2>6 DEF Observation
  <2>13. m2 \in Observation
    <3>1. m2.state \in [Generations -> SessionState]
      BY <2>2, <2>8, FreshAccounted DEF Observation
    <3>2. m2.mapOrder \subseteq SessionIDs \X SessionIDs
      <4>1. KeysOf(m2.generation) \subseteq SessionIDs
        BY DEF KeysOf
      <4>2. m2.mapOrder \subseteq KeysOf(m2.generation) \X KeysOf(m2.generation)
        BY <2>11 DEF MapIn
      <4> QED BY <4>1, <4>2
    <3>3. m2 = [m EXCEPT !.mapOrder = m2.mapOrder, !.generation = m2.generation,
                         !.state = m2.state, !.firstObserved = m2.firstObserved]
      <4> DEFINE o == AtEnd(m.mapOrder, K \ gone, s)
                 st == [m.state EXCEPT ![g] = Fresh]
                 ob == m.firstObserved \cup {s}
      <4>1. m2 = [m EXCEPT !.mapOrder = o, !.generation = gen2, !.state = st,
                           !.firstObserved = ob]
        BY <2>2 DEF Observation
      <4> HIDE DEF o, st, ob, gen2, m2
      <4>2. m2.mapOrder = o /\ m2.generation = gen2 /\ m2.state = st /\ m2.firstObserved = ob
        BY <2>2, <4>1 DEF Observation
      <4> QED BY <4>1, <4>2
    <3>4. m.joined \in [SessionIDs -> JoinedRecord] /\ m.firstObserved \cup {s} \subseteq SessionIDs
          /\ m.overlapping \subseteq SessionIDs
      BY <2>2 DEF Observation
    <3> HIDE DEF m2, gen2
    <3>5. m2.generation \in [SessionIDs -> Generations \cup {0}]
          /\ m2.firstObserved \subseteq SessionIDs
      BY <2>8, <2>12, <3>4
    <3> DEFINE o == m2.mapOrder
               ge == m2.generation
               st == m2.state
               ob == m2.firstObserved
    <3>6. m2 = [m EXCEPT !.mapOrder = o, !.generation = ge, !.state = st, !.firstObserved = ob]
      BY <3>3
    <3>7. /\ o \in SUBSET (SessionIDs \X SessionIDs) /\ ge \in [SessionIDs -> Generations \cup {0}]
          /\ st \in [Generations -> SessionState] /\ ob \in SUBSET SessionIDs
      BY <3>1, <3>2, <3>5
    <3> HIDE DEF o, ge, st, ob
    <3> QED BY <2>2, <3>6, <3>7 DEF Observation
  <2>14. OneOwnerIn(m2.generation)
    <3> SUFFICES ASSUME NEW h \in Generations, NEW i \in SessionIDs, NEW j \in SessionIDs,
                        RefersIn(gen2, i, h), RefersIn(gen2, j, h)
                 PROVE  i = j
      BY <2>8 DEF OneOwnerIn
    <3>1. h # 0
      BY Finite
    <3>2. CASE h = g
      <4>1. \A x \in SessionIDs : gen2[x] = g => x = s
        BY <2>7, <2>9, <3>1, <3>2
      <4> QED BY <2>7, <3>2, <4>1 DEF RefersIn
    <3>3. CASE h # g
      <4>1. \A x \in SessionIDs : gen2[x] = h => m.generation[x] = h
        BY <2>9, <3>1, <3>3
      <4>2. RefersIn(m.generation, i, h) /\ RefersIn(m.generation, j, h)
        BY <4>1 DEF RefersIn
      <4>3. OneOwnerIn(m.generation)
        BY DEF Observing
      <4> QED BY <4>2, <4>3 DEF OneOwnerIn
    <3> QED BY <3>2, <3>3
  <2>15. ASSUME NEW i \in SessionIDs, m.joined[i].generation # 0
         PROVE  i # s /\ i \notin gone /\ m.generation[i] = m.joined[i].generation
                /\ m.generation[i] \in Generations /\ m.generation[i] # g
    <3>1. i # s
      BY <2>15 DEF NotJoined
    <3>2. JoinedIn(m, i)
      BY DEF Observing
    <3>3. m.generation[i] = m.joined[i].generation
      BY <2>15, <3>2 DEF JoinedIn
    <3>4. m.generation[i] \in Generations
      BY <2>2, <2>15, <3>3 DEF Observation
    <3>5. OpenIn(m, m.generation[i])
      BY <3>4 DEF Observing
    <3>6. m.state[m.generation[i]].openWindows > 0
      BY <2>2, <3>3, <3>4, <3>5, JoinedIsBusy
    <3>7. i \notin gone
      BY <2>5, <3>6
    <3> QED BY <2>7, <3>1, <3>3, <3>4, <3>7
  <2>16. ASSUME NEW i \in KeysOf(m2.generation)
         PROVE  Accounted(m2.state[m2.generation[i]])
    <3>1. CASE i = s
      <4>1. m2.state[m2.generation[i]] = Fresh
        BY <2>8, <2>9, <3>1
      <4> QED BY <4>1, FreshAccounted
    <3>2. CASE i # s
      <4>1. i \in K /\ i \notin gone /\ i \in SessionIDs
        BY <2>3, <2>8, <2>10, <2>16, <3>2
      <4>2. m2.generation[i] = m.generation[i]
        BY <2>8, <2>9, <3>2, <4>1
      <4>3. m.generation[i] \in Generations /\ m.generation[i] # g
        BY <2>2, <2>7, <4>1 DEF Observation, KeysOf
      <4>4. Accounted(m.state[m.generation[i]])
        BY <4>1 DEF Observing
      <4> QED BY <2>9, <4>2, <4>3, <4>4
    <3> QED BY <3>1, <3>2
  <2>17. ASSUME NEW h \in Generations PROVE OpenIn(m2, h)
    <3>1. OpenIn(m, h)
      BY DEF Observing
    <3>2. CASE h # g
      BY <2>8, <2>9, <3>1, <3>2 DEF OpenIn
    <3>3. CASE h = g
      <4>1. Joiners(h) = {}
        BY <2>7, <3>3 DEF Joiners
      <4>2. ~\E i \in SessionIDs : m.joined[i].generation = h
        <5> SUFFICES ASSUME NEW i \in SessionIDs, m.joined[i].generation = h PROVE FALSE
          OBVIOUS
        <5>1. m.joined[i].generation # 0
          BY Finite
        <5> QED BY <2>15, <3>3, <5>1
      <4>3. m2.state[h].openWindows = 0
        BY <2>9, <3>3 DEF Fresh
      <4> QED BY <2>8, <4>1, <4>2, <4>3, FS_EmptySet DEF OpenIn
    <3> QED BY <3>2, <3>3
  <2>18. ASSUME NEW i \in SessionIDs PROVE JoinedIn(m2, i)
    <3>1. JoinedIn(m, i)
      BY DEF Observing
    <3>2. CASE m.joined[i].generation = 0
      BY <2>8, <3>1, <3>2 DEF JoinedIn
    <3>3. CASE m.joined[i].generation # 0
      <4>1. m2.generation[i] = m.generation[i]
        BY <2>8, <2>9, <2>15, <3>3
      <4>2. m2.state[m.generation[i]] = m.state[m.generation[i]]
        BY <2>9, <2>15, <3>3
      <4> QED BY <2>8, <3>1, <3>3, <4>1, <4>2 DEF JoinedIn
    <3> QED BY <3>2, <3>3
  <2>19. ASSUME NEW v \in Windows, NEW i \in SessionIDs PROVE KeptIn(m2, v, i)
    <3> DEFINE h == window[v].joined[i].generation
    <3>1. CASE h = 0
      BY <3>1 DEF KeptIn
    <3>2. CASE h # 0
      <4>1. h \in Generations
        BY <3>2 DEF TypeOK, Window
      <4>2. h # g
        BY <2>7
      <4>3. KeptIn(m, v, i)
        BY DEF Observing
      <4> QED BY <2>9, <4>1, <4>2, <4>3 DEF KeptIn
    <3> QED BY <3>1, <3>2
  <2>20. ASSUME NEW i \in m2.overlapping PROVE OverlapsIn(m2, i)
    <3>1. OverlapsIn(m, i) /\ i \in SessionIDs
      BY <2>2, <2>8, <2>20 DEF Observing, Observation
    <3>2. m.joined[i].generation # 0
      BY <3>1 DEF OverlapsIn
    <3>3. m.joined[i].generation \in Generations /\ m.joined[i].generation # g
      BY <2>15, <3>1, <3>2
    <3> QED BY <2>8, <2>9, <3>1, <3>3 DEF OverlapsIn
  <2>21. ASSUME NEW i \in Tracked, InUse(i) PROVE UsedIn(m2, i)
    <3>1. UsedIn(m, i)
      BY <2>21 DEF Observing
    <3>2. i \in SessionIDs /\ generation[i] # 0 /\ generation[i] \in Generations
      BY DEF Tracked, KeysOf, TypeOK
    <3>3. i # s /\ generation[i] # g
      BY <2>7, <3>1, <3>2 DEF UsedIn
    <3>4. i \notin gone
      <4>1. CASE Retained(generation[i]) # {}
        <5> DEFINE S == m.state[m.generation[i]]
        <5>1. S.parts = state[generation[i]].parts
          BY <3>1 DEF UsedIn
        <5>2. ChangedOf(S, Parts) = Retained(generation[i])
          BY <5>1 DEF Retained, ChangedOf
        <5>3. Accounted(S)
          <6>1. i \in K
            BY <3>1, <3>2 DEF UsedIn, KeysOf
          <6> QED BY <6>1 DEF Observing
        <5> HIDE DEF S
        <5>4. IsFiniteSet(ChangedOf(S, Parts)) /\ S.count = Cardinality(ChangedOf(S, Parts))
          BY <5>3, Weights DEF Accounted
        <5>5. S.count # 0
          BY <4>1, <5>2, <5>4, FS_EmptySet
        <5> QED BY <2>5, <5>5 DEF S
      <4>2. CASE \E v \in Windows : window[v].joined[i].generation = generation[i]
        <5>1. OpenIn(m, generation[i])
          BY <3>2 DEF Observing
        <5>2. m.state[generation[i]].openWindows > 0
          BY <2>2, <3>2, <4>2, <5>1, JoinedIsBusy
        <5>3. m.generation[i] = generation[i]
          BY <3>1 DEF UsedIn
        <5> QED BY <2>5, <5>2, <5>3
      <4> QED BY <2>21, <4>1, <4>2 DEF InUse
    <3>5. m2.generation[i] = m.generation[i]
      BY <2>8, <2>9, <3>2, <3>3, <3>4
    <3>6. m2.state[generation[i]] = m.state[generation[i]]
      BY <2>9, <3>2, <3>3
    <3> QED BY <3>1, <3>5, <3>6 DEF UsedIn
  <2>22. \A i \in SessionIDs : (\A k \in 1 .. n : ids[k] # i) => m2.joined[i] = NotJoined
    BY <2>8 DEF Observing
  <2>23. m2.joined = m.joined
    BY <2>8
  <2> HIDE DEF m2
  <2>24. Observing(ids, n, m2)
    BY <2>11, <2>13, <2>14, <2>16, <2>17, <2>18, <2>19, <2>20, <2>21, <2>22 DEF Observing
  <2> QED BY <2>1, <2>23, <2>24
<1> QED BY <1>1, <1>2
-----------------------------------------------------------------------------
(* Joining the object of a session.                                        *)
JoinedWith(m, s) ==
  LET g    == m.generation[s]
      busy == m.state[g].openWindows > 0
      v    == m.state[g].conflictVersion + (IF busy THEN 1 ELSE 0)
  IN  [m EXCEPT !.state[g] = [m.state[g] EXCEPT !.openWindows = @ + 1,
                                                !.conflictVersion = v],
                !.joined[s] = [generation |-> g, conflictVersion |-> v],
                !.overlapping = IF busy THEN @ \cup {s} ELSE @]

(* The window joins an object.                                             *)
LEMMA JoinKeeps ==
  ASSUME TypeOK, NEW ids, NEW n \in Nat, NEW m, Observing(ids, n, m),
         NEW s \in SessionIDs, m.generation[s] # 0, m.joined[s] = NotJoined, ids[n + 1] = s
  PROVE  Observing(ids, n + 1, JoinedWith(m, s))
<1> DEFINE g == m.generation[s]
           busy == m.state[g].openWindows > 0
           v == m.state[g].conflictVersion + (IF busy THEN 1 ELSE 0)
           j == [generation |-> g, conflictVersion |-> v]
           T == [m.state[g] EXCEPT !.openWindows = @ + 1, !.conflictVersion = v]
           m2 == JoinedWith(m, s)
<1>1. m \in Observation
  BY DEF Observing
<1>2. g \in Generations /\ m.state[g] \in SessionState /\ g # 0
  BY <1>1 DEF Observation
<1>3. v \in Nat /\ m.state[g].openWindows \in Nat /\ m.state[g].conflictVersion \in Nat
      /\ m.state[g].conflictVersion <= v
  BY <1>2 DEF SessionState
<1>4. /\ T \in SessionState /\ T.openWindows = m.state[g].openWindows + 1
      /\ T.conflictVersion = v /\ T.parts = m.state[g].parts
      /\ T.chars = m.state[g].chars /\ T.count = m.state[g].count
  <2> DEFINE S == m.state[g]
  <2>1. S \in SessionState /\ v \in Nat
    BY <1>2, <1>3
  <2>2. T = [S EXCEPT !.openWindows = S.openWindows + 1, !.conflictVersion = v]
    OBVIOUS
  <2> DEFINE o == S.openWindows + 1
  <2> HIDE DEF S, T, v
  <2>4. o \in Nat /\ T = [S EXCEPT !.openWindows = o, !.conflictVersion = v]
    BY <2>1, <2>2 DEF SessionState
  <2> HIDE DEF o
  <2>5. T \in SessionState /\ T.openWindows = o
    BY <2>1, <2>4 DEF SessionState
  <2>6. T.conflictVersion = v /\ T.parts = S.parts /\ T.chars = S.chars /\ T.count = S.count
    BY <2>1, <2>4 DEF SessionState
  <2>3. /\ T \in SessionState /\ T.openWindows = S.openWindows + 1
        /\ T.conflictVersion = v /\ T.parts = S.parts /\ T.chars = S.chars /\ T.count = S.count
    BY <2>5, <2>6 DEF o
  <2> QED BY <2>3 DEF S
<1>5. m2 = [m EXCEPT !.state = [m.state EXCEPT ![g] = T], !.joined = [m.joined EXCEPT ![s] = j],
                     !.overlapping = IF busy THEN m.overlapping \cup {s} ELSE m.overlapping]
  BY ZenonT(60) DEF JoinedWith
<1>6. j \in JoinedRecord /\ j.generation = g /\ j.conflictVersion = v /\ j # NotJoined
  BY <1>2, <1>3 DEF JoinedRecord, NotJoined
<1> HIDE DEF g, busy, v, j, T, m2
<1>7. /\ m2.state = [m.state EXCEPT ![g] = T] /\ m2.joined = [m.joined EXCEPT ![s] = j]
      /\ m2.overlapping = IF busy THEN m.overlapping \cup {s} ELSE m.overlapping
      /\ m2.generation = m.generation /\ m2.mapOrder = m.mapOrder
  BY <1>1, <1>5 DEF Observation
<1>8. m2 \in Observation
  <2> DEFINE st == [m.state EXCEPT ![g] = T]
             jo == [m.joined EXCEPT ![s] = j]
             ov == IF busy THEN m.overlapping \cup {s} ELSE m.overlapping
  <2>1. st \in [Generations -> SessionState]
    BY <1>1, <1>4 DEF Observation
  <2>2. jo \in [SessionIDs -> JoinedRecord]
    BY <1>1, <1>6 DEF Observation
  <2>3. ov \in SUBSET SessionIDs
    BY <1>1 DEF Observation
  <2>4. m2 = [m EXCEPT !.state = st, !.joined = jo, !.overlapping = ov]
    BY <1>5
  <2> HIDE DEF st, jo, ov
  <2> QED BY <1>1, <2>1, <2>2, <2>3, <2>4 DEF Observation
<1>9. /\ m2.state[g] = T /\ \A h \in Generations : h # g => m2.state[h] = m.state[h]
      /\ m2.joined[s] = j /\ \A i \in SessionIDs : i # s => m2.joined[i] = m.joined[i]
  BY <1>1, <1>2, <1>7 DEF Observation
<1>10. \A i \in SessionIDs : m.generation[i] = g => i = s
  BY <1>2 DEF Observing, OneOwnerIn, RefersIn, g
<1>11. \A i \in SessionIDs : m.joined[i].generation # g
  <2> SUFFICES ASSUME NEW i \in SessionIDs, m.joined[i].generation = g PROVE FALSE
    OBVIOUS
  <2>1. JoinedIn(m, i)
    BY DEF Observing
  <2>2. m.generation[i] = g
    BY <1>2, <2>1 DEF JoinedIn
  <2>3. m.joined[i] = NotJoined
    BY <1>10, <2>2
  <2> QED BY <1>2, <2>3 DEF NotJoined
<1>12. \A h \in Generations : m2.state[h].parts = m.state[h].parts
  BY <1>4, <1>9
<1>13. MapIn(m2) /\ OneOwnerIn(m2.generation)
  BY <1>7 DEF Observing, MapIn
<1>14. ASSUME NEW i \in KeysOf(m2.generation) PROVE Accounted(m2.state[m2.generation[i]])
  <2>1. i \in KeysOf(m.generation) /\ m.generation[i] \in Generations
    BY <1>1, <1>7 DEF KeysOf, Observation
  <2>2. Accounted(m.state[m.generation[i]])
    BY <2>1 DEF Observing
  <2>3. CASE m.generation[i] = g
    <3>1. Accounted(m.state[g])
      BY <2>2, <2>3
    <3>2. Accounted(T)
      BY <1>4, <3>1, SameAccounted
    <3> QED BY <1>7, <1>9, <2>3, <3>2
  <2>4. CASE m.generation[i] # g
    BY <1>7, <1>9, <2>1, <2>2, <2>4
  <2> QED BY <2>3, <2>4
<1>15. ASSUME NEW h \in Generations PROVE OpenIn(m2, h)
  <2>1. OpenIn(m, h) /\ Cardinality(Joiners(h)) \in Nat
    BY Finite DEF Observing
  <2>2. CASE h = g
    <3>1. m.state[g].openWindows = Cardinality(Joiners(g)) + 0
      BY <1>11, <2>1, <2>2 DEF OpenIn
    <3>2. m2.state[h].openWindows = Cardinality(Joiners(h)) + 1
      BY <1>4, <1>9, <2>1, <2>2, <3>1
    <3>3. \E i \in SessionIDs : m2.joined[i].generation = h
      BY <1>6, <1>9, <2>2
    <3> QED BY <3>2, <3>3 DEF OpenIn
  <2>3. CASE h # g
    <3>1. (\E i \in SessionIDs : m2.joined[i].generation = h)
            <=> (\E i \in SessionIDs : m.joined[i].generation = h)
      <4>1. m.joined[s].generation # h
        <5>1. h # 0
          BY Finite
        <5> QED BY <5>1 DEF NotJoined
      <4> QED BY <1>6, <1>9, <2>3, <4>1
    <3> QED BY <1>9, <2>1, <2>3, <3>1 DEF OpenIn
  <2> QED BY <2>2, <2>3
<1>16. ASSUME NEW i \in SessionIDs PROVE JoinedIn(m2, i)
  <2>1. CASE i = s
    BY <1>2, <1>4, <1>6, <1>7, <1>9, <2>1 DEF JoinedIn, g
  <2>2. CASE i # s
    <3>1. JoinedIn(m, i) /\ m2.joined[i] = m.joined[i]
      BY <1>9, <2>2 DEF Observing
    <3>2. CASE m.joined[i].generation = 0
      BY <3>1, <3>2 DEF JoinedIn
    <3>3. CASE m.joined[i].generation # 0
      <4>1. m.generation[i] = m.joined[i].generation
        BY <3>1, <3>3 DEF JoinedIn
      <4>2. m.generation[i] \in Generations /\ m.generation[i] # g
        BY <1>1, <1>10, <2>2, <3>3, <4>1 DEF Observation
      <4>3. m2.state[m.generation[i]] = m.state[m.generation[i]]
        BY <1>9, <4>2
      <4> QED BY <1>7, <3>1, <3>3, <4>3 DEF JoinedIn
    <3> QED BY <3>2, <3>3
  <2> QED BY <2>1, <2>2
<1>17. ASSUME NEW i \in SessionIDs, \A k \in 1 .. (n + 1) : ids[k] # i
       PROVE  m2.joined[i] = NotJoined
  <2>1. n + 1 \in 1 .. (n + 1) /\ \A k \in 1 .. n : k \in 1 .. (n + 1)
    OBVIOUS
  <2>2. i # s /\ \A k \in 1 .. n : ids[k] # i
    BY <1>17, <2>1
  <2> QED BY <1>9, <2>2 DEF Observing
<1>18. ASSUME NEW h \in Generations, NEW c \in Nat, c <= m.state[h].conflictVersion
       PROVE  c <= m2.state[h].conflictVersion
  BY <1>3, <1>4, <1>9, <1>18
<1>19. ASSUME NEW w \in Windows, NEW i \in SessionIDs PROVE KeptIn(m2, w, i)
  <2> DEFINE h == window[w].joined[i].generation
  <2>1. CASE h = 0
    BY <2>1 DEF KeptIn
  <2>2. CASE h # 0
    <3>1. h \in Generations
      BY <2>2 DEF TypeOK, Window
    <3>2. KeptIn(m, w, i)
      BY DEF Observing
    <3>3. state[h].conflictVersion \in Nat
      BY <3>1 DEF TypeOK, SessionState
    <3>4. m.state[h].parts = state[h].parts
          /\ state[h].conflictVersion <= m.state[h].conflictVersion
      BY <2>2, <3>2 DEF KeptIn
    <3>5. m2.state[h].parts = state[h].parts
          /\ state[h].conflictVersion <= m2.state[h].conflictVersion
      <4> HIDE DEF h
      <4> QED BY <1>12, <1>18, <3>1, <3>3, <3>4
    <3> QED BY <3>5 DEF KeptIn
  <2> QED BY <2>1, <2>2
<1>20. ASSUME NEW i \in m2.overlapping PROVE OverlapsIn(m2, i)
  <2>1. i \in SessionIDs
    BY <1>8 DEF Observation
  <2>2. CASE i = s
    <3>1. s \notin m.overlapping
      BY DEF Observing, OverlapsIn, NotJoined
    <3>2. busy
      BY <1>7, <1>20, <2>2, <3>1
    <3>3. v = m.state[g].conflictVersion + 1
      BY <3>2 DEF v
    <3>4. Joiners(g) # {}
      <4>1. m.state[g].openWindows = Cardinality(Joiners(g)) + 0
        BY <1>2, <1>11 DEF Observing, OpenIn
      <4>2. Cardinality(Joiners(g)) # 0
        BY <3>2, <4>1 DEF busy
      <4> QED BY <4>2, FS_EmptySet
    <3>5. PICK w \in Windows, x \in SessionIDs : window[w].joined[x].generation = g
      BY <3>4 DEF Joiners
    <3>6. KeptIn(m, w, x)
      BY DEF Observing
    <3>7. state[g].conflictVersion <= m.state[g].conflictVersion
      BY <1>2, <3>5, <3>6 DEF KeptIn
    <3>8. state[g].conflictVersion \in Nat
      BY <1>2 DEF TypeOK, SessionState
    <3>9. state[g].conflictVersion < m2.state[g].conflictVersion
      BY <1>3, <1>4, <1>9, <3>3, <3>7, <3>8
    <3> QED BY <1>2, <1>6, <1>9, <2>2, <3>9 DEF OverlapsIn
  <2>3. CASE i # s
    <3>1. i \in m.overlapping
      BY <1>7, <1>20, <2>3
    <3>2. OverlapsIn(m, i)
      BY <3>1 DEF Observing
    <3>3. m2.joined[i] = m.joined[i]
      BY <1>9, <2>1, <2>3
    <3>4. m.joined[i].generation \in Generations /\ m.joined[i].generation # g
      BY <1>1, <1>11, <2>1, <3>2 DEF OverlapsIn, Observation, JoinedRecord
    <3> QED BY <1>9, <3>2, <3>3, <3>4 DEF OverlapsIn
  <2> QED BY <2>2, <2>3
<1>21. ASSUME NEW i \in Tracked, InUse(i) PROVE UsedIn(m2, i)
  <2>1. UsedIn(m, i)
    BY <1>21 DEF Observing
  <2>2. generation[i] \in Generations
    BY DEF Tracked, KeysOf, TypeOK
  <2> QED BY <1>7, <1>12, <2>1, <2>2 DEF UsedIn
<1> QED
  BY <1>8, <1>13, <1>14, <1>15, <1>16, <1>17, <1>19, <1>20, <1>21 DEF Observing, m2

-----------------------------------------------------------------------------
(* begin meets one session ...                                             *)
LEMMA ObserveKeeps ==
  ASSUME TypeOK, NEW ids, NEW n \in Nat, NEW m, Observing(ids, n, m),
         ids[n + 1] \in SessionIDs, \A k \in 1 .. n : ids[k] # ids[n + 1]
  PROVE  Observing(ids, n + 1, Observe(m, ids[n + 1]))
<1> DEFINE s == ids[n + 1]
           t == [m EXCEPT !.mapOrder = AtEnd(@, KeysOf(m.generation) \ {s}, s)]
           c == Touched(m, s)
<1>1. m.joined[s] = NotJoined
  BY DEF Observing
<1>2. Observing(ids, n, c) /\ c.joined = m.joined
  <2>1. CASE m.generation[s] # 0
    <3>1. Observing(ids, n, t) /\ t.joined = m.joined
      BY <2>1, TouchKeeps
    <3>2. c = t
      BY <2>1, Zenon DEF Touched
    <3> QED BY <3>1, <3>2
  <2>2. CASE m.generation[s] = 0
    <3>1. Observing(ids, n, Create(m, s)) /\ Create(m, s).joined = m.joined
      BY <1>1, <2>2, CreateKeeps
    <3>2. c = Create(m, s)
      BY <2>2, Zenon DEF Touched
    <3> QED BY <3>1, <3>2
  <2> QED BY <2>1, <2>2
<1>3. Observe(m, s) = IF c.generation[s] = 0 THEN c ELSE JoinedWith(c, s)
  BY Zenon DEF Observe, Join, JoinedWith
<1> HIDE DEF c
<1>4. CASE c.generation[s] = 0
  <2>1. \A k \in 1 .. n : k \in 1 .. (n + 1)
    OBVIOUS
  <2>2. Observing(ids, n + 1, c)
    BY <1>2, <2>1 DEF Observing
  <2> QED BY <1>3, <1>4, <2>2
<1>5. CASE c.generation[s] # 0
  <2>1. c.joined[s] = NotJoined
    BY <1>1, <1>2
  <2>2. Observing(ids, n + 1, JoinedWith(c, s))
    BY <1>2, <1>5, <2>1, JoinKeeps
  <2> QED BY <1>3, <1>5, <2>2
<1> QED BY <1>4, <1>5

(* createSession adds one key, in place of another when the map is full.   *)
LEMMA CreateAdmits ==
  ASSUME TypeOK, NEW ids, NEW n \in Nat, NEW m, Observing(ids, n, m),
         NEW s \in SessionIDs, m.generation[s] = 0
  PROVE  /\ \A i \in SessionIDs : i # s => Create(m, s).generation[i] \in {0, m.generation[i]}
         /\ Cardinality(KeysOf(m.generation)) <= MaxSessions
              => Cardinality(KeysOf(Create(m, s).generation)) <= MaxSessions
<1> DEFINE K == KeysOf(m.generation)
           gone == IF Full(m) THEN {Oldest(m.mapOrder, Idle(m))} ELSE {}
           g == Min(Generations \ Referenced(m.generation, window))
           gen2 == [i \in SessionIDs |-> IF i = s THEN g
                                         ELSE IF i \in gone THEN 0 ELSE m.generation[i]]
<1>1. CASE Full(m) /\ Idle(m) = {}
  <2>1. Create(m, s) = m
    BY <1>1, Zenon DEF Create
  <2> QED BY <2>1
<1>2. CASE ~(Full(m) /\ Idle(m) = {})
  <2>1. m \in Observation /\ InOrder(m.mapOrder, K)
    BY DEF Observing, MapIn
  <2>2. Create(m, s).generation = gen2
    <3> DEFINE m2 == [m EXCEPT !.mapOrder = AtEnd(@, K \ gone, s),
                               !.generation = [i \in SessionIDs |->
                                  IF i = s THEN g ELSE IF i \in gone THEN 0 ELSE @[i]],
                               !.state[g] = Fresh,
                               !.firstObserved = @ \cup {s}]
    <3>1. Create(m, s) = m2
      BY <1>2, Zenon DEF Create
    <3> HIDE DEF gone, g, K
    <3>2. m2.generation = gen2
      BY <2>1 DEF Observation
    <3> QED BY <3>1, <3>2
  <2>3. K \subseteq SessionIDs /\ s \notin K /\ IsFiniteSet(K) /\ Cardinality(K) \in Nat
    BY Finite DEF KeysOf
  <2>4. Full(m) => \E i \in K : gone = {i}
    <3> SUFFICES ASSUME Full(m) PROVE \E i \in K : gone = {i}
      OBVIOUS
    <3>1. Idle(m) # {} /\ Idle(m) \in SUBSET K
      BY <1>2 DEF Idle
    <3>2. IsFiniteSet(Idle(m)) /\ InOrder(m.mapOrder, Idle(m))
      BY <2>1, <2>3, <3>1, FS_Subset DEF InOrder
    <3>3. Oldest(m.mapOrder, Idle(m)) \in Idle(m)
      BY <3>1, <3>2, OldestIsMember
    <3> QED BY <3>1, <3>3
  <2>5. ~Full(m) => gone = {}
    OBVIOUS
  <2>6. Full(m) <=> Cardinality(K) >= MaxSessions
    BY Zenon DEF Full
  <2> HIDE DEF K, gone, g
  <2>7. \A i \in SessionIDs : gen2[i] = IF i = s THEN g ELSE IF i \in gone THEN 0
                                        ELSE m.generation[i]
    OBVIOUS
  <2>8. KeysOf(gen2) \in SUBSET ((K \ gone) \cup {s})
    BY <2>7 DEF KeysOf, K
  <2> HIDE DEF gen2
  <2>9. ASSUME Cardinality(K) <= MaxSessions PROVE Cardinality(KeysOf(gen2)) <= MaxSessions
    <3>1. MaxSessions \in Nat
      BY LifecycleAssumption
    <3>2. IsFiniteSet(K \ gone) /\ Cardinality(K \ gone) \in Nat /\ s \notin K \ gone
      BY <2>3, FS_Difference, FS_CardinalityType
    <3>3. Cardinality(K \ gone) + 1 <= MaxSessions
      <4>1. CASE Full(m)
        <5>1. PICK i \in K : gone = {i}
          BY <2>4, <4>1
        <5>2. Cardinality(K \ gone) = Cardinality(K) - 1
          BY <2>3, <5>1, FS_RemoveElement
        <5> QED BY <2>3, <2>9, <3>1, <5>2
      <4>2. CASE ~Full(m)
        <5>1. K \ gone = K
          BY <2>5, <4>2
        <5> QED BY <2>3, <2>6, <3>1, <4>2, <5>1
      <4> QED BY <4>1, <4>2
    <3> DEFINE U == (K \ gone) \cup {s}
    <3>4. IsFiniteSet(U) /\ Cardinality(U) = Cardinality(K \ gone) + 1
      BY <3>2, FS_AddElement
    <3> HIDE DEF U
    <3>5. Cardinality(KeysOf(gen2)) <= Cardinality(U) /\ Cardinality(KeysOf(gen2)) \in Nat
      BY <2>8, <3>4, FS_Subset, FS_CardinalityType DEF U
    <3> QED BY <3>1, <3>2, <3>3, <3>4, <3>5
  <2> QED BY <2>2, <2>7, <2>9 DEF K
<1> QED BY <1>1, <1>2

(* observe tracks at most the session it is called for and evicts no       *)
(* session in use.                                                         *)
LEMMA ObserveAdmits ==
  ASSUME TypeOK, NEW ids, NEW n \in Nat, NEW m, Observing(ids, n, m), Admitting(ids, n, m),
         \A k \in 1 .. n + 1 : ids[k] \in SessionIDs,
         \A k \in 1 .. n : ids[k] # ids[n + 1]
  PROVE  Admitting(ids, n + 1, Observe(m, ids[n + 1]))
<1> DEFINE s == ids[n + 1]
           c == Touched(m, s)
           o == Observe(m, s)
<1>1. s \in SessionIDs /\ m.joined[s] = NotJoined /\ n + 1 \in 1 .. n + 1
  BY DEF Observing
<1>2. /\ Observing(ids, n, c) /\ c.joined = m.joined
      /\ \A i \in SessionIDs : i # s => c.generation[i] \in {0, m.generation[i]}
      /\ Cardinality(KeysOf(m.generation)) <= MaxSessions
           => Cardinality(KeysOf(c.generation)) <= MaxSessions
  <2>1. CASE m.generation[s] # 0
    <3> DEFINE t == [m EXCEPT !.mapOrder = AtEnd(@, KeysOf(m.generation) \ {s}, s)]
    <3>1. Observing(ids, n, t) /\ t.joined = m.joined /\ t.generation = m.generation
      BY ZenonT(60), <1>1, <2>1, TouchKeeps
    <3>2. c = t
      BY <2>1, Zenon DEF Touched
    <3> QED BY <3>1, <3>2
  <2>2. CASE m.generation[s] = 0
    <3>1. Observing(ids, n, Create(m, s)) /\ Create(m, s).joined = m.joined
      BY <1>1, <2>2, CreateKeeps
    <3>2. c = Create(m, s)
      BY <2>2, Zenon DEF Touched
    <3> HIDE DEF c
    <3> QED BY <1>1, <2>2, <3>1, <3>2, CreateAdmits
  <2> QED BY <2>1, <2>2
<1>3. o = IF c.generation[s] = 0 THEN c ELSE JoinedWith(c, s)
  BY Zenon DEF Observe, Join, JoinedWith
<1> HIDE DEF c
<1>4. /\ o.generation = c.generation
      /\ \A i \in SessionIDs : i # s => o.joined[i] = m.joined[i]
      /\ o.joined[s].generation = 0 => c.generation[s] = 0
  <2>1. CASE c.generation[s] = 0
    <3>1. o = c
      BY <1>3, <2>1
    <3> HIDE DEF o
    <3> QED BY <1>2, <2>1, <3>1
  <2>2. CASE c.generation[s] # 0
    <3>1. o = JoinedWith(c, s)
      BY <1>3, <2>2
    <3>2. c \in Observation
      BY <1>2 DEF Observing
    <3> DEFINE j == [generation |-> c.generation[s],
                     conflictVersion |-> c.state[c.generation[s]].conflictVersion
                       + (IF c.state[c.generation[s]].openWindows > 0 THEN 1 ELSE 0)]
    <3>3. o.generation = c.generation /\ o.joined = [c.joined EXCEPT ![s] = j]
      BY <3>1, <3>2 DEF JoinedWith, Observation
    <3>4. c.joined \in [SessionIDs -> JoinedRecord] /\ j.generation = c.generation[s]
      BY <3>2 DEF Observation
    <3> HIDE DEF o, j
    <3> QED BY <1>1, <1>2, <2>2, <3>3, <3>4
  <2> QED BY <2>1, <2>2
<1> HIDE DEF o, s
<1>5. \A i \in KeysOf(o.generation) : i \in Tracked \/ \E k \in 1 .. n + 1 : i = ids[k]
  <2> SUFFICES ASSUME NEW i \in SessionIDs, c.generation[i] # 0
               PROVE  i \in Tracked \/ \E k \in 1 .. n + 1 : i = ids[k]
    BY <1>4 DEF KeysOf
  <2>1. CASE i = s
    BY <1>1, <2>1 DEF s
  <2>2. CASE i # s
    <3>1. i \in KeysOf(m.generation)
      BY <1>2, <2>2 DEF KeysOf
    <3>2. i \in Tracked \/ \E k \in 1 .. n : i = ids[k]
      BY <3>1 DEF Admitting
    <3> QED BY <3>2
  <2> QED BY <2>1, <2>2
<1>6. ASSUME NEW k \in 1 .. n + 1, o.joined[ids[k]].generation = 0
      PROVE  o.generation[ids[k]] = 0
  <2>1. CASE k = n + 1
    BY <1>4, <1>6, <2>1 DEF s
  <2>2. CASE k # n + 1
    <3>1. k \in 1 .. n
      BY <2>2
    <3>2. ids[k] # s /\ ids[k] \in SessionIDs
      BY <3>1 DEF s
    <3>3. m.generation[ids[k]] = 0
      BY <1>4, <1>6, <3>1, <3>2 DEF Admitting
    <3> QED BY <1>2, <1>4, <3>2, <3>3
  <2> QED BY <2>1, <2>2
<1>7. Cardinality(Tracked) <= MaxSessions => Cardinality(KeysOf(o.generation)) <= MaxSessions
  BY <1>2, <1>4 DEF Admitting
<1>8. Admitting(ids, n + 1, o)
  BY <1>5, <1>6, <1>7 DEF Admitting
<1> QED BY <1>8 DEF o, s

(* Of the sessions it meets begin has kept the records, or made objects    *)
(* without any.                                                            *)
ShownIn(m, i) ==
  LET S == m.state[m.generation[i]]
  IN  m.generation[i] # 0 =>
        IF i \in m.firstObserved THEN S.parts = Fresh.parts /\ ~S.saturated
        ELSE /\ m.generation[i] = generation[i]
             /\ S.parts = state[generation[i]].parts
             /\ S.saturated = state[generation[i]].saturated
Showing(ids, n, m) ==
  /\ \A i \in m.firstObserved : \E k \in 1 .. n : i = ids[k]
  /\ \A i \in SessionIDs : ShownIn(m, i)

(* A session made anew has recorded nothing; the others' records stay.     *)
LEMMA CreateShows ==
  ASSUME TypeOK, NEW ids, NEW n \in Nat, NEW m, Observing(ids, n, m),
         NEW s \in SessionIDs, m.generation[s] = 0,
         \A i \in SessionIDs : ShownIn(m, i)
  PROVE  /\ \A i \in SessionIDs : ShownIn(Create(m, s), i)
         /\ Create(m, s).firstObserved \subseteq m.firstObserved \cup {s}
<1> DEFINE K == KeysOf(m.generation)
           gone == IF Full(m) THEN {Oldest(m.mapOrder, Idle(m))} ELSE {}
           g == Min(Generations \ Referenced(m.generation, window))
           gen2 == [i \in SessionIDs |-> IF i = s THEN g
                                         ELSE IF i \in gone THEN 0 ELSE m.generation[i]]
           m2 == [m EXCEPT !.mapOrder = AtEnd(@, K \ gone, s),
                           !.generation = [i \in SessionIDs |->
                              IF i = s THEN g ELSE IF i \in gone THEN 0 ELSE @[i]],
                           !.state[g] = Fresh,
                           !.firstObserved = @ \cup {s}]
<1>1. CASE Full(m) /\ Idle(m) = {}
  <2>1. Create(m, s) = m
    BY <1>1, Zenon DEF Create
  <2> QED BY <2>1
<1>2. CASE ~(Full(m) /\ Idle(m) = {})
  <2>1. Create(m, s) = m2
    BY <1>2, Zenon DEF Create
  <2>2. m \in Observation
    BY DEF Observing
  <2>3. g \in Generations /\ g \notin Referenced(m.generation, window)
    <3>1. m.generation \in [SessionIDs -> Generations \cup {0}]
      BY <2>2 DEF Observation
    <3>2. window \in [Windows -> Window]
      BY DEF TypeOK
    <3> QED BY <3>1, <3>2, FreeObject
  <2> HIDE DEF gone, g, K
  <2>4. \A i \in SessionIDs : m.generation[i] # g
    BY <2>3 DEF Referenced
  <2>5. /\ m2.generation = gen2
        /\ m2.state = [m.state EXCEPT ![g] = Fresh]
        /\ m2.firstObserved = m.firstObserved \cup {s}
    BY <2>2 DEF Observation
  <2> HIDE DEF m2
  <2>6. /\ m2.state[g] = Fresh
        /\ \A h \in Generations : h # g => m2.state[h] = m.state[h]
        /\ \A i \in SessionIDs : m2.generation[i] = IF i = s THEN g ELSE IF i \in gone THEN 0
                                                    ELSE m.generation[i]
    BY <2>2, <2>3, <2>5 DEF Observation
  <2> HIDE DEF gen2
  <2>7. ASSUME NEW i \in SessionIDs PROVE ShownIn(m2, i)
    <3>1. CASE i = s
      <4>1. Fresh.parts = Fresh.parts /\ ~Fresh.saturated
        BY DEF Fresh
      <4> QED BY <2>5, <2>6, <3>1, <4>1 DEF ShownIn
    <3>2. CASE i # s
      <4>1. SUFFICES ASSUME m2.generation[i] # 0 PROVE ShownIn(m2, i)
        BY DEF ShownIn
      <4>2. m2.generation[i] = m.generation[i] /\ m.generation[i] # 0
        BY <2>6, <3>2, <4>1
      <4>3. m.generation[i] \in Generations
        BY <2>2, <4>2 DEF Observation
      <4>4. m2.state[m.generation[i]] = m.state[m.generation[i]]
        BY <2>4, <2>6, <4>3
      <4>5. i \in m2.firstObserved <=> i \in m.firstObserved
        BY <2>5, <3>2
      <4> QED BY <4>2, <4>4, <4>5 DEF ShownIn
    <3> QED BY <3>1, <3>2
  <2> QED BY <2>1, <2>5, <2>7
<1> QED BY <1>1, <1>2

(* observe, of what has been recorded.                                     *)
LEMMA ObserveShows ==
  ASSUME TypeOK, NEW ids, NEW n \in Nat, NEW m, Observing(ids, n, m), Showing(ids, n, m),
         ids[n + 1] \in SessionIDs, \A k \in 1 .. n : ids[k] # ids[n + 1]
  PROVE  Showing(ids, n + 1, Observe(m, ids[n + 1]))
<1> DEFINE s == ids[n + 1]
           c == Touched(m, s)
           o == Observe(m, s)
<1>1. s \in SessionIDs /\ m.joined[s] = NotJoined /\ m \in Observation
  BY DEF Observing
<1>2. /\ Observing(ids, n, c)
      /\ \A i \in SessionIDs : ShownIn(c, i)
      /\ c.firstObserved \subseteq m.firstObserved \cup {s}
  <2>1. CASE m.generation[s] # 0
    <3> DEFINE t == [m EXCEPT !.mapOrder = AtEnd(@, KeysOf(m.generation) \ {s}, s)]
    <3>1. Observing(ids, n, t)
      BY <1>1, <2>1, TouchKeeps
    <3>2. t.state = m.state /\ t.generation = m.generation /\ t.firstObserved = m.firstObserved
      BY <1>1 DEF Observation
    <3>3. c = t
      BY <2>1, Zenon DEF Touched
    <3> HIDE DEF t, c
    <3> QED BY <3>1, <3>2, <3>3 DEF Showing, ShownIn
  <2>2. CASE m.generation[s] = 0
    <3>1. Observing(ids, n, Create(m, s))
      BY <1>1, <2>2, CreateKeeps
    <3>2. c = Create(m, s)
      BY <2>2, Zenon DEF Touched
    <3>3. \A i \in SessionIDs : ShownIn(m, i)
      BY DEF Showing
    <3> HIDE DEF c, s
    <3>4. /\ \A i \in SessionIDs : ShownIn(Create(m, s), i)
          /\ Create(m, s).firstObserved \subseteq m.firstObserved \cup {s}
      BY <1>1, <2>2, <3>3, CreateShows
    <3> QED BY <3>1, <3>2, <3>4
  <2> QED BY <2>1, <2>2
<1>3. o = IF c.generation[s] = 0 THEN c ELSE JoinedWith(c, s)
  BY Zenon DEF Observe, Join, JoinedWith
<1> HIDE DEF c
<1>4. /\ o.generation = c.generation /\ o.firstObserved = c.firstObserved
      /\ \A g \in Generations : /\ o.state[g].parts = c.state[g].parts
                                /\ o.state[g].saturated = c.state[g].saturated
  <2>1. CASE c.generation[s] = 0
    <3>1. o = c
      BY <1>3, <2>1
    <3> HIDE DEF o
    <3> QED BY <3>1
  <2>2. CASE c.generation[s] # 0
    <3> DEFINE g == c.generation[s]
               v == c.state[g].conflictVersion + (IF c.state[g].openWindows > 0 THEN 1 ELSE 0)
               T == [c.state[g] EXCEPT !.openWindows = @ + 1, !.conflictVersion = v]
    <3>1. o = JoinedWith(c, s)
      BY <1>3, <2>2
    <3>2. c \in Observation
      BY <1>2 DEF Observing
    <3>3. o.generation = c.generation /\ o.firstObserved = c.firstObserved
          /\ o.state = [c.state EXCEPT ![g] = T]
      BY <3>1, <3>2 DEF JoinedWith, Observation
    <3>4. T.parts = c.state[g].parts /\ T.saturated = c.state[g].saturated
      <4>1. g \in Generations /\ c.state[g] \in SessionState
        BY <1>1, <2>2, <3>2 DEF Observation
      <4> HIDE DEF g, v
      <4> QED BY <4>1 DEF SessionState
    <3>5. c.state \in [Generations -> SessionState]
      BY <3>2 DEF Observation
    <3> HIDE DEF o, T, g
    <3> QED BY <3>3, <3>4, <3>5
  <2> QED BY <2>1, <2>2
<1> HIDE DEF o
<1>5. ASSUME NEW i \in SessionIDs PROVE ShownIn(o, i)
  <2>1. SUFFICES ASSUME c.generation[i] # 0 PROVE ShownIn(o, i)
    BY <1>4 DEF ShownIn
  <2>2. c.generation[i] \in Generations
    BY <1>2, <2>1 DEF Observing, Observation
  <2> QED BY <1>2, <1>4, <2>2 DEF ShownIn
<1>6. \A i \in o.firstObserved : \E k \in 1 .. n + 1 : i = ids[k]
  <2> TAKE i \in o.firstObserved
  <2>1. CASE i \in m.firstObserved
    <3>1. PICK k \in 1 .. n : i = ids[k]
      BY <2>1 DEF Showing
    <3>2. k \in 1 .. n + 1
      OBVIOUS
    <3> QED BY <3>1, <3>2
  <2>2. CASE i = s
    <3>1. n + 1 \in 1 .. n + 1
      OBVIOUS
    <3> QED BY <2>2, <3>1
  <2> QED BY <1>2, <1>4, <2>1, <2>2
<1>7. Showing(ids, n + 1, o)
  BY <1>5, <1>6 DEF Showing
<1> QED BY <1>7 DEF o
-----------------------------------------------------------------------------
(* ... and so all the sessions of a request.  The recursive definition of  *)
(* Observed has a solution.                                                *)
Observes(start, ids, N, F) ==
  F = [n \in 0 .. N |-> IF n = 0 THEN start ELSE Observe(F[n - 1], ids[n])]

(* begin's loop over the sessions of a request is defined.                 *)
LEMMA ObservedExists ==
  ASSUME NEW start, NEW ids, NEW N \in Nat
  PROVE  \E F : Observes(start, ids, N, F)
<1> DEFINE Runs(F, m) ==
             F = [n \in 0 .. m |-> IF n = 0 THEN start ELSE Observe(F[n - 1], ids[n])]
           T == {m \in Nat : \E F : Runs(F, m)}
<1>1. 0 \in T
  <2>1. Runs([n \in 0 .. 0 |-> start], 0)
    OBVIOUS
  <2> QED BY <2>1
<1>2. \A m \in T : m + 1 \in T
  <2> TAKE m \in T
  <2>1. PICK F : Runs(F, m)
    OBVIOUS
  <2> DEFINE G == [n \in 0 .. m + 1 |-> IF n <= m THEN F[n] ELSE Observe(F[m], ids[m + 1])]
  <2>2. DOMAIN F = 0 .. m /\ m \in Nat
    BY <2>1
  <2>3. ASSUME NEW n \in 0 .. m + 1
        PROVE  G[n] = IF n = 0 THEN start ELSE Observe(G[n - 1], ids[n])
    <3>1. CASE n = 0
      BY <2>1, <2>2, <3>1
    <3>2. CASE n \in 1 .. m
      <4>1. n <= m /\ n - 1 \in 0 .. m /\ n - 1 <= m /\ n # 0 /\ n - 1 \in 0 .. m + 1 /\ n \in 0 .. m
        BY <2>2, <3>2
      <4>2. F[n] = Observe(F[n - 1], ids[n])
        BY <2>1, <4>1
      <4>3. G[n] = F[n] /\ G[n - 1] = F[n - 1]
        BY <4>1
      <4> HIDE DEF G
      <4> QED BY <4>1, <4>2, <4>3
    <3>3. CASE n = m + 1
      <4>1. ~(n <= m) /\ n - 1 = m /\ m <= m /\ n # 0 /\ m \in 0 .. m + 1
        BY <2>2, <3>3
      <4>2. G[n] = Observe(F[m], ids[m + 1]) /\ G[m] = F[m]
        BY <4>1
      <4> HIDE DEF G
      <4> QED BY <3>3, <4>1, <4>2
    <3> QED BY <2>2, <3>1, <3>2, <3>3
  <2>4. DOMAIN G = 0 .. m + 1 /\ G = [n \in 0 .. m + 1 |-> G[n]]
    OBVIOUS
  <2>5. \E H : Runs(H, m + 1)
    <3> HIDE DEF G
    <3>1. G = [n \in 0 .. m + 1 |-> IF n = 0 THEN start ELSE Observe(G[n - 1], ids[n])]
      BY <2>3, <2>4
    <3> QED BY <3>1
  <2> QED BY <2>2, <2>5
<1>3. T = Nat
  <2> HIDE DEF T
  <2>1. T \subseteq Nat
    BY DEF T
  <2> QED BY <1>1, <1>2, <2>1, Induction
<1>4. \E F : Runs(F, N)
  BY <1>3
<1> QED BY <1>4 DEF Observes

(* After any number of sessions the loop is where it should be.            *)
LEMMA ObservedKeeps ==
  ASSUME TypeOK, NEW ids \in Seq(SessionIDs), IsInjective(ids), NEW start,
         Observing(ids, 0, start), Admitting(ids, 0, start), Showing(ids, 0, start)
  PROVE  /\ Observing(ids, Len(ids), Observed(start, ids))
         /\ Admitting(ids, Len(ids), Observed(start, ids))
         /\ Showing(ids, Len(ids), Observed(start, ids))
<1> DEFINE N == Len(ids)
           F == CHOOSE G : G = [n \in 0 .. N |-> IF n = 0 THEN start
                                                ELSE Observe(G[n - 1], ids[n])]
<1>1. N \in Nat /\ \A k \in 1 .. N : ids[k] \in SessionIDs
  OBVIOUS
<1>2. Observes(start, ids, N, F)
  <2> HIDE DEF N
  <2>1. \E G : Observes(start, ids, N, G)
    BY <1>1, ObservedExists
  <2>2. F = CHOOSE G : Observes(start, ids, N, G)
    BY Zenon DEF Observes
  <2> HIDE DEF F
  <2> QED BY <2>1, <2>2
<1>3. Observed(start, ids) = F[N]
  BY Zenon DEF Observed
<1> HIDE DEF F
<1>4. F[0] = start /\ \A n \in 1 .. N : F[n] = Observe(F[n - 1], ids[n])
  <2>1. 0 \in 0 .. N /\ \A n \in 1 .. N : n \in 0 .. N /\ n # 0
    BY <1>1
  <2> HIDE DEF N
  <2> QED BY <1>2, <2>1 DEF Observes
<1>5. \A k, n \in 1 .. N : ids[k] = ids[n] => k = n
  BY <1>1 DEF IsInjective
<1> DEFINE Both(n) == /\ Observing(ids, n, F[n]) /\ Admitting(ids, n, F[n])
                      /\ Showing(ids, n, F[n])
           T == {n \in Nat : n <= N => Both(n)}
<1>6. 0 \in T
  BY <1>4
<1>7. \A n \in T : n + 1 \in T
  <2> TAKE n \in T
  <2>1. ASSUME n + 1 <= N
        PROVE  Both(n + 1)
    <3> HIDE DEF N
    <3>1. n \in Nat /\ n <= N /\ n + 1 \in 1 .. N /\ n + 1 - 1 = n
          /\ \A k \in 1 .. n : k \in 1 .. N /\ k # n + 1
      BY <1>1, <2>1
    <3>2. Observing(ids, n, F[n]) /\ Admitting(ids, n, F[n]) /\ Showing(ids, n, F[n])
      BY <3>1
    <3>3. /\ \A k \in 1 .. n + 1 : ids[k] \in SessionIDs
          /\ ids[n + 1] \in SessionIDs /\ \A k \in 1 .. n : ids[k] # ids[n + 1]
      BY <1>1, <1>5, <3>1
    <3>4. /\ Observing(ids, n + 1, Observe(F[n], ids[n + 1]))
          /\ Admitting(ids, n + 1, Observe(F[n], ids[n + 1]))
          /\ Showing(ids, n + 1, Observe(F[n], ids[n + 1]))
      BY <3>1, <3>2, <3>3, ObserveKeeps, ObserveAdmits, ObserveShows
    <3>5. F[n + 1] = Observe(F[n], ids[n + 1])
      <4> DEFINE x == n + 1
      <4>1. x \in 1 .. N /\ x - 1 = n
        BY <3>1
      <4> HIDE DEF x
      <4>2. F[x] = Observe(F[n], ids[x])
        BY <1>4, <4>1
      <4> QED BY <4>2 DEF x
    <3> QED BY <3>4, <3>5
  <2> QED BY <2>1
<1>8. T = Nat
  <2> HIDE DEF T
  <2>1. T \subseteq Nat
    BY DEF T
  <2> QED BY <1>6, <1>7, <2>1, Induction
<1>9. N <= N
  BY <1>1
<1>10. Both(N)
  <2> HIDE DEF N
  <2> QED BY <1>1, <1>8, <1>9
<1> QED BY <1>3, <1>10
-----------------------------------------------------------------------------
(* What begin starts from.                                                 *)
LEMMA StartObserving ==
  ASSUME IInv, NEW ids
  PROVE  /\ Observing(ids, 0, Start) /\ Admitting(ids, 0, Start)
         /\ Showing(ids, 0, Start)
<1>1. /\ Start.mapOrder = mapOrder /\ Start.generation = generation /\ Start.state = state
      /\ Start.joined = [s \in SessionIDs |-> NotJoined] /\ Start.overlapping = {}
      /\ Start.firstObserved = {}
  BY DEF Start, Closed
<1>2. Start \in Observation
  <2>1. [s \in SessionIDs |-> NotJoined] \in [SessionIDs -> JoinedRecord]
    BY DEF NotJoined, JoinedRecord
  <2>2. mapOrder \subseteq SessionIDs \X SessionIDs
    BY DEF IInv, TypeOK, Tracked, KeysOf
  <2>3. generation \in [SessionIDs -> Generations \cup {0}] /\ state \in [Generations -> SessionState]
    BY DEF IInv, TypeOK
  <2> DEFINE jo == [s \in SessionIDs |-> NotJoined]
  <2>4. Start = [mapOrder |-> mapOrder, generation |-> generation, state |-> state,
                 joined |-> jo, firstObserved |-> {}, overlapping |-> {}]
    BY DEF Start, Closed
  <2> HIDE DEF jo
  <2>5. jo \in [SessionIDs -> JoinedRecord]
    BY <2>1 DEF jo
  <2> QED BY <2>2, <2>3, <2>4, <2>5 DEF Observation
<1> HIDE DEF Start
<1>3. MapIn(Start)
  BY <1>1 DEF MapIn, IInv, TypeOK, Tracked
<1>4. OneOwnerIn(Start.generation)
  BY <1>1 DEF IInv, OneOwner
<1>5. \A s \in KeysOf(Start.generation) : Accounted(Start.state[Start.generation[s]])
  BY <1>1 DEF IInv, TrackedAccounted, Tracked
<1>6. \A s \in SessionIDs : Start.joined[s] = NotJoined /\ NotJoined.generation = 0
  BY <1>1 DEF NotJoined
<1>7. ASSUME NEW g \in Generations PROVE OpenIn(Start, g)
  <2>1. ~\E s \in SessionIDs : Start.joined[s].generation = g
    BY <1>6, Finite
  <2>2. state[g].openWindows = Cardinality(Joiners(g))
    BY DEF IInv, OpenWindowsAccounted, Joiners
  <2>3. Cardinality(Joiners(g)) \in Nat
    BY Finite
  <2> QED BY <1>1, <2>1, <2>2, <2>3 DEF OpenIn
<1>8. \A s \in SessionIDs : JoinedIn(Start, s)
  BY <1>6 DEF JoinedIn
<1>9. ASSUME NEW v \in Windows, NEW s \in SessionIDs PROVE KeptIn(Start, v, s)
  <2> DEFINE g == window[v].joined[s].generation
  <2>1. CASE g = 0
    BY <2>1 DEF KeptIn
  <2>2. CASE g # 0
    <3>1. g \in Generations
      BY <2>2 DEF IInv, TypeOK, Window
    <3>2. state[g].conflictVersion \in Nat
      BY <3>1 DEF IInv, TypeOK, SessionState
    <3> HIDE DEF g
    <3>3. state[g].conflictVersion <= state[g].conflictVersion
      BY <3>2
    <3> QED BY <1>1, <3>3 DEF KeptIn, g
  <2> QED BY <2>1, <2>2
<1>10. \A s \in Tracked : UsedIn(Start, s)
  BY <1>1 DEF UsedIn
<1>11. Observing(ids, 0, Start)
  BY <1>1, <1>2, <1>3, <1>4, <1>5, <1>6, <1>7, <1>8, <1>9, <1>10 DEF Observing
<1>12. Admitting(ids, 0, Start)
  BY <1>1 DEF Admitting, Tracked
<1>13. Showing(ids, 0, Start)
  BY <1>1 DEF Showing, ShownIn
<1> QED BY <1>11, <1>12, <1>13
-----------------------------------------------------------------------------
(* An object that a window has joined counts an open window.               *)
LEMMA JoinedIsCounted ==
  ASSUME IInv, NEW v \in Windows, NEW s \in SessionIDs,
         window[v].joined[s].generation \in Generations
  PROVE  state[window[v].joined[s].generation].openWindows # 0
<1> DEFINE g == window[v].joined[s].generation
<1>1. Cardinality(Joiners(g)) \in Nat /\ IsFiniteSet(Joiners(g))
  BY Finite
<1>2. Joiners(g) # {}
  BY DEF Joiners
<1>3. state[g].openWindows = Cardinality(Joiners(g))
  BY DEF IInv, OpenWindowsAccounted, Joiners
<1> QED BY <1>1, <1>2, <1>3, FS_EmptySet
-----------------------------------------------------------------------------
(* Two windows with the same new part read two objects of its session.     *)
LEMMA LiveApart ==
  ASSUME IInv, NEW u \in Windows, NEW x \in Windows, x # u,
         NEW p \in window[u].live, p \in window[x].live
  PROVE  window[u].joined[SessionOf[p]].generation # window[x].joined[SessionOf[p]].generation
<1>1. Joined(x, p).generation # Joined(u, p).generation
  BY DEF IInv, LiveRecordedRaw
<1> QED BY <1>1 DEF Joined
-----------------------------------------------------------------------------
(* begin, the replay and recording passes included.                        *)
LEMMA BeginKeeps ==
  ASSUME IInv, NEW w \in Windows,
         NEW q, q.ids \in Seq(SessionIDs), IsInjective(q.ids), q.parts \in SUBSET Parts,
         NEW at \in [Parts -> Nat], Begin(w, q, at)
  PROVE  IInv' /\ \A s \in Tracked : InUse(s) => generation'[s] = generation[s]
<1> DEFINE m == Observed(Start, q.ids)
           mine(s) == {p \in q.parts : SessionOf[p] = s}
           ids == {s \in SessionIDs : m.joined[s] # NotJoined}
           old(s) == m.state[m.joined[s].generation]
           replayed == UNION {Replayed(old(s), mine(s), at) : s \in ids}
           live == UNION {Unseen(old(s), mine(s)) \ q.pinned :
                            s \in {i \in ids : LiveSession(m, q, i)
                                                 /\ ~Overfull(old(i), mine(i))}}
           owner(g) == {s \in ids : m.joined[s].generation = g}
           state2 == [g \in Generations |->
                        IF owner(g) = {} THEN m.state[g]
                        ELSE LET s == CHOOSE i \in owner(g) : TRUE
                             IN  AfterRecording(AfterReplay(old(s), mine(s), at), mine(s), at)]
           version == [p \in Parts |-> IF p \in q.parts THEN at[p] ELSE 0]
           form == [p \in Parts |-> IF p \in replayed
                                    THEN old(SessionOf[p]).parts[p].form ELSE Raw]
           opened == [open |-> TRUE, joined |-> m.joined, contents |-> q.parts,
                      live |-> live, checked |-> {}, replayed |-> replayed,
                      version |-> version, form |-> form,
                      overlapped |-> m.overlapping]
           shares(v, s) == window[v].open /\ s \in m.overlapping
                             /\ window[v].joined[s].generation = m.joined[s].generation
           window2 == [v \in Windows |->
                         IF v = w THEN opened
                         ELSE [window[v] EXCEPT
                                 !.overlapped = @ \cup {s \in SessionIDs : shares(v, s)}]]
           J(s) == m.joined[s].generation
<1>1. /\ ~window[w].open
      /\ mapOrder' = m.mapOrder /\ generation' = m.generation
      /\ window' = window2 /\ state' = Collected(m.generation, window2, state2)
      /\ hostVersion' = hostVersion /\ firstSent' = firstSent /\ lastSent' = lastSent
  BY Zenon DEF Begin, BeginWith
<1>2. q.ids \in Seq(SessionIDs) /\ IsInjective(q.ids) /\ q.parts \in SUBSET Parts
  OBVIOUS
<1>3. TypeOK
  BY DEF IInv
<1>4. Observing(q.ids, Len(q.ids), m)
  BY <1>2, <1>3, StartObserving, ObservedKeeps
<1> HIDE DEF m
<1>5. /\ m \in Observation /\ m.mapOrder \subseteq SessionIDs \X SessionIDs
      /\ m.generation \in [SessionIDs -> Generations \cup {0}]
      /\ m.state \in [Generations -> SessionState] /\ m.joined \in [SessionIDs -> JoinedRecord]
      /\ m.overlapping \subseteq SessionIDs
  BY <1>4 DEF Observing, Observation
<1>6. \A s \in SessionIDs : /\ s \in ids <=> J(s) # 0
                            /\ J(s) \in Generations \cup {0}
                            /\ J(s) = 0 => m.joined[s] = NotJoined
                            /\ J(s) # 0 => /\ m.generation[s] = J(s)
                                           /\ m.joined[s].conflictVersion = m.state[J(s)].conflictVersion
  <2> TAKE s \in SessionIDs
  <2>1. JoinedIn(m, s)
    BY <1>4 DEF Observing
  <2>2. m.joined[s] \in JoinedRecord
    BY <1>5
  <2> QED BY <2>1, <2>2 DEF JoinedIn, JoinedRecord, NotJoined
<1>7. \A s, i \in SessionIDs : J(s) # 0 /\ J(s) = J(i) => s = i
  <2> SUFFICES ASSUME NEW s \in SessionIDs, NEW i \in SessionIDs, J(s) # 0, J(s) = J(i)
               PROVE  s = i
    OBVIOUS
  <2>1. m.generation[s] = J(s) /\ m.generation[i] = J(s) /\ J(s) \in Generations
    BY <1>6
  <2> QED BY <1>4, <2>1 DEF Observing, OneOwnerIn, RefersIn
<1>8. \A s \in ids : s \in SessionIDs /\ J(s) \in Generations /\ owner(J(s)) = {s}
  BY <1>6, <1>7
<1>9. \A s \in SessionIDs : mine(s) \in SUBSET Parts
  BY <1>2
<1>10. at \in [Parts -> Nat]
  OBVIOUS
<1>11. \A g \in Generations : state2[g] = IF owner(g) = {} THEN m.state[g]
         ELSE LET s == CHOOSE i \in owner(g) : TRUE
              IN  AfterRecording(AfterReplay(old(s), mine(s), at), mine(s), at)
  BY Zenon
<1>12. \A g \in Generations : owner(g) = {} => state2[g] = m.state[g]
  <2> HIDE DEF owner, state2, ids, mine
  <2> QED BY <1>11
<1>13. ASSUME NEW s \in ids PROVE state2[J(s)] = Passed(m.state[J(s)], mine(s), at)
  <2>1. (CHOOSE i \in owner(J(s)) : TRUE) = s /\ owner(J(s)) # {}
    BY <1>8
  <2>2. J(s) \in Generations
    BY <1>8
  <2>3. state2[J(s)] = LET i == CHOOSE i \in owner(J(s)) : TRUE
                       IN  AfterRecording(AfterReplay(old(i), mine(i), at), mine(i), at)
    <3> DEFINE g == J(s)
    <3> HIDE DEF state2, owner, ids, mine, g
    <3>1. g \in Generations /\ owner(g) # {}
      BY <2>1, <2>2 DEF g
    <3>2. state2[g] = LET i == CHOOSE i \in owner(g) : TRUE
                      IN  AfterRecording(AfterReplay(old(i), mine(i), at), mine(i), at)
      BY <1>11, <3>1, Zenon
    <3> QED BY <3>2 DEF g
  <2> HIDE DEF state2, ids, mine, owner
  <2> QED BY Zenon, <2>1, <2>3 DEF Passed
<1>14. ASSUME NEW s \in ids
       PROVE  /\ m.state[J(s)] \in SessionState /\ Accounted(m.state[J(s)])
              /\ mine(s) \in SUBSET Parts
  <2>1. s \in SessionIDs /\ J(s) \in Generations /\ m.generation[s] = J(s)
    BY <1>6, <1>8
  <2>2. s \in KeysOf(m.generation)
    BY <2>1, Finite DEF KeysOf
  <2> QED BY <1>4, <1>5, <1>9, <2>1, <2>2 DEF Observing
<1>15. ASSUME NEW g \in Generations
       PROVE  /\ state2[g] \in SessionState
              /\ state2[g].openWindows = m.state[g].openWindows
              /\ state2[g].conflictVersion = m.state[g].conflictVersion
              /\ \A p \in Parts : m.state[g].parts[p].form = Raw => state2[g].parts[p].form = Raw
              /\ Accounted(m.state[g]) => Accounted(state2[g])
  <2>1. CASE owner(g) = {}
    <3>1. state2[g] = m.state[g] /\ m.state[g] \in SessionState
      BY <1>5, <1>12, <2>1
    <3> HIDE DEF state2
    <3> QED BY <3>1
  <2>2. CASE owner(g) # {}
    <3>1. PICK s \in ids : J(s) = g
      BY <2>2
    <3> DEFINE S == m.state[g]
               P == mine(s)
    <3>2. S \in SessionState /\ Accounted(S) /\ P \in SUBSET Parts
      BY <1>14, <3>1
    <3>3. state2[g] = Passed(S, P, at)
      <4> HIDE DEF state2, ids, mine
      <4> QED BY <1>13, <3>1
    <3> HIDE DEF state2, S, P
    <3>4. /\ Passed(S, P, at) \in SessionState /\ Accounted(Passed(S, P, at))
          /\ Passed(S, P, at).openWindows = S.openWindows
          /\ Passed(S, P, at).conflictVersion = S.conflictVersion
          /\ \A p \in Parts : S.parts[p].form = Raw => Passed(S, P, at).parts[p].form = Raw
      BY Zenon, <1>10, <3>2, PassesKeep
    <3> QED BY <3>3, <3>4 DEF S
  <2> QED BY Zenon, <2>1, <2>2
<1>16. ASSUME NEW p \in live
       PROVE  /\ SessionOf[p] \in ids /\ p \in q.parts /\ p \in Parts
              /\ SessionOf[p] \notin m.overlapping
              /\ m.state[J(SessionOf[p])].parts[p] = Unknown
              /\ state2[J(SessionOf[p])].parts[p].form = Raw
  <2>1. PICK s \in ids : /\ LiveSession(m, q, s) /\ ~Overfull(old(s), mine(s))
                         /\ p \in Unseen(old(s), mine(s))
    OBVIOUS
  <2>2. p \in mine(s) /\ m.state[J(s)].parts[p] = Unknown
    BY <2>1 DEF Unseen, Known
  <2>3. SessionOf[p] = s /\ p \in q.parts /\ p \in Parts
    BY <1>2, <2>2
  <2>4. s \notin m.overlapping
    BY <2>1 DEF LiveSession
  <2>5. state2[J(s)].parts[p].form = Raw
    <3> DEFINE S == m.state[J(s)]
               P == mine(s)
    <3>1. S \in SessionState /\ Accounted(S) /\ P \in SUBSET Parts
      BY <1>14
    <3>2. state2[J(s)] = Passed(S, P, at)
      BY Zenon, <1>13
    <3>3. ~Overfull(S, P) /\ p \in Unseen(S, P)
      BY <2>1
    <3> HIDE DEF state2, S, P
    <3>4. Passed(S, P, at).parts[p].form = Raw
      BY <1>10, <2>3, <3>1, <3>3, PassesKeep
    <3> QED BY <3>2, <3>4
  <2> QED BY Zenon, <2>1, <2>2, <2>3, <2>4, <2>5
<1>17. ASSUME NEW p \in replayed
       PROVE  /\ SessionOf[p] \in ids /\ p \in q.parts /\ p \in Parts
              /\ m.state[J(SessionOf[p])].parts[p].form \in Forms
  <2>1. PICK s \in ids : p \in Replayed(old(s), mine(s), at)
    BY ZenonT(60)
  <2>2. p \in mine(s) /\ m.state[J(s)].parts[p].form \in Forms
    BY Zenon, <2>1 DEF Replayed, Changed
  <2> QED BY <1>2, <2>1, <2>2
<1>18. window[w] = Closed
  BY Zenon, <1>1 DEF IInv, WindowsInShape
<1>19. /\ window2[w] = opened /\ window2[w].joined = m.joined /\ window2[w].live = live
       /\ window2[w].replayed = replayed /\ window2[w].open = TRUE
       /\ window2[w].overlapped = m.overlapping
       /\ window2[w].checked = {} /\ window2[w].contents = q.parts
  <2>1. window2[w] = opened
    BY Zenon
  <2> HIDE DEF window2, live, replayed, version, form
  <2> QED BY <2>1
<1>20. \A v \in Windows : window[v] \in Window
  BY <1>3 DEF TypeOK
<1>21. ASSUME NEW v \in Windows, v # w
       PROVE  /\ window2[v] = [window[v] EXCEPT
                                 !.overlapped = @ \cup {s \in SessionIDs : shares(v, s)}]
              /\ window2[v] \in Window
              /\ window2[v].open = window[v].open /\ window2[v].joined = window[v].joined
              /\ window2[v].contents = window[v].contents
              /\ window2[v].live = window[v].live /\ window2[v].checked = window[v].checked
              /\ window2[v].replayed = window[v].replayed
              /\ window2[v].overlapped
                   = window[v].overlapped \cup {s \in SessionIDs : shares(v, s)}
  <2> DEFINE X == {s \in SessionIDs : shares(v, s)}
             W == window[v]
  <2>1. W \in Window /\ X \in SUBSET SessionIDs
    BY <1>20
  <2>2. window2[v] = [W EXCEPT !.overlapped = @ \cup X]
    BY <1>21, Zenon
  <2> HIDE DEF W, X, window2
  <2>3. /\ [W EXCEPT !.overlapped = @ \cup X] \in Window
        /\ window2[v].open = W.open /\ window2[v].joined = W.joined
        /\ window2[v].live = W.live /\ window2[v].checked = W.checked
        /\ window2[v].contents = W.contents
        /\ window2[v].replayed = W.replayed /\ window2[v].overlapped = W.overlapped \cup X
    <3> DEFINE ov == W.overlapped \cup X
    <3>1. ov \in SUBSET SessionIDs /\ window2[v] = [W EXCEPT !.overlapped = ov]
      BY <2>1, <2>2 DEF Window
    <3> HIDE DEF ov
    <3>2. [W EXCEPT !.overlapped = ov] \in Window
      BY Zenon, <2>1, <3>1 DEF Window
    <3>3. /\ window2[v].open = W.open /\ window2[v].joined = W.joined
          /\ window2[v].live = W.live /\ window2[v].checked = W.checked
          /\ window2[v].contents = W.contents
          /\ window2[v].replayed = W.replayed /\ window2[v].overlapped = ov
      BY <2>1, <3>1 DEF Window
    <3> QED BY <2>2, <3>1, <3>2, <3>3 DEF ov
  <2> QED BY <2>2, <2>3 DEF W, X
<1>22. live \in SUBSET q.parts /\ replayed \in SUBSET q.parts /\ live \cap replayed = {}
  <2>1. live \subseteq q.parts /\ replayed \subseteq q.parts
    <3> HIDE DEF live, replayed
    <3> QED BY Zenon, <1>16, <1>17
  <2>2. ASSUME NEW p \in live, p \in replayed PROVE FALSE
    <3> HIDE DEF live, replayed
    <3>1. m.state[J(SessionOf[p])].parts[p] = Unknown
      BY ZenonT(60), <1>16, <2>2
    <3>2. m.state[J(SessionOf[p])].parts[p].form \in Forms
      BY <1>17, <2>2
    <3>3. Unknown.form \notin Forms
      BY LifecycleAssumption DEF Unknown
    <3> QED BY <3>1, <3>2, <3>3
  <2> HIDE DEF live, replayed
  <2> QED BY <2>1, <2>2
<1>23. opened \in Window
  <2>1. version \in [Parts -> Nat]
    BY <1>10
  <2>2. form \in [Parts -> Forms \cup {Raw}]
    <3> HIDE DEF replayed
    <3> QED BY <1>17
  <2>3. m.joined \in [SessionIDs -> [generation : Generations \cup {0}, conflictVersion : Nat]]
    BY <1>5 DEF JoinedRecord
  <2>4. /\ q.parts \in SUBSET Parts /\ live \in SUBSET Parts /\ replayed \in SUBSET Parts
        /\ m.overlapping \in SUBSET SessionIDs
    <3> HIDE DEF live, replayed
    <3> QED BY <1>2, <1>5, <1>22
  <2> HIDE DEF version, form, live, replayed
  <2> QED BY <2>1, <2>2, <2>3, <2>4 DEF Window
<1> HIDE DEF live, replayed, version, form, opened, state2, owner, ids
<1>24. window2 \in [Windows -> Window]
  <2>1. \A v \in Windows : window2[v] \in Window
    BY <1>19, <1>21, <1>23
  <2>2. window2 = [v \in Windows |-> window2[v]]
    BY Zenon
  <2> HIDE DEF window2
  <2> QED BY <2>1, <2>2
<1>25. \A g \in Generations :
         state'[g] = IF g \in Referenced(m.generation, window2) THEN state2[g] ELSE Fresh
  <2> HIDE DEF window2
  <2> QED BY <1>1 DEF Collected
<1>26. state' \in [Generations -> SessionState]
  <2>1. state' = [g \in Generations |->
                    IF g \in Referenced(m.generation, window2) THEN state2[g] ELSE Fresh]
    BY <1>1, Zenon DEF Collected
  <2> HIDE DEF window2
  <2> QED BY <1>15, <2>1, FreshAccounted
<1> HIDE DEF window2
<1>27. /\ \A s \in SessionIDs : m.generation[s] \in Referenced(m.generation, window2)
       /\ \A v \in Windows, s \in SessionIDs :
            window2[v].joined[s].generation \in Referenced(m.generation, window2)
  BY DEF Referenced
<1>28. \A v \in Windows, s \in SessionIDs :
         window2[v].joined[s] = IF v = w THEN m.joined[s] ELSE window[v].joined[s]
  BY <1>19, <1>21
<1>29. \A v \in Windows, s \in SessionIDs :
         LET g == window[v].joined[s].generation
         IN  g # 0 => /\ g \in Generations
                      /\ m.state[g].parts = state[g].parts
                      /\ state[g].conflictVersion \in Nat /\ m.state[g].conflictVersion \in Nat
                      /\ window[v].joined[s].conflictVersion \in Nat
                      /\ window[v].joined[s].conflictVersion <= state[g].conflictVersion
                      /\ state[g].conflictVersion <= m.state[g].conflictVersion
  <2> TAKE v \in Windows, s \in SessionIDs
  <2> DEFINE j == window[v].joined[s]
             g == j.generation
  <2>1. SUFFICES ASSUME g # 0
                 PROVE  /\ g \in Generations
                        /\ m.state[g].parts = state[g].parts
                        /\ state[g].conflictVersion \in Nat /\ m.state[g].conflictVersion \in Nat
                        /\ j.conflictVersion \in Nat
                        /\ j.conflictVersion <= state[g].conflictVersion
                        /\ state[g].conflictVersion <= m.state[g].conflictVersion
    OBVIOUS
  <2>2. g \in Generations /\ j.conflictVersion \in Nat
    BY <1>20, <2>1 DEF Window
  <2>3. j.conflictVersion <= state[g].conflictVersion
    BY <2>1 DEF IInv, WindowsInShape
  <2>4. KeptIn(m, v, s)
    BY <1>4 DEF Observing
  <2>5. m.state[g].parts = state[g].parts /\ state[g].conflictVersion <= m.state[g].conflictVersion
    BY <2>1, <2>4 DEF KeptIn
  <2>6. state[g] \in SessionState /\ m.state[g] \in SessionState
    BY <1>3, <1>5, <2>2 DEF TypeOK
  <2>7. state[g].conflictVersion \in Nat /\ m.state[g].conflictVersion \in Nat
    BY <2>6 DEF SessionState
  <2> HIDE DEF j, g
  <2> QED BY <2>2, <2>3, <2>5, <2>7
<1>30. TypeOK'
  <2>1. mapOrder' \subseteq (Tracked \X Tracked)' /\ InOrder(mapOrder, Tracked)'
    BY <1>1, <1>4 DEF Observing, MapIn, Tracked, KeysOf, InOrder
  <2>2. (generation \in [SessionIDs -> Generations \cup {0}])'
    BY <1>1, <1>5
  <2>3. (\A s, i \in Tracked : s # i => generation[s] # generation[i])'
    <3> SUFFICES ASSUME NEW s \in SessionIDs, NEW i \in SessionIDs, m.generation[s] # 0,
                        m.generation[s] = m.generation[i]
                 PROVE  s = i
      BY <1>1 DEF Tracked, KeysOf
    <3>1. m.generation[s] \in Generations
      BY <1>5
    <3> QED BY <1>4, <3>1 DEF Observing, OneOwnerIn, RefersIn
  <2>4. (window \in [Windows -> Window])'
    BY <1>1, <1>24
  <2>5. (\A v \in Windows :
           /\ window[v].live \cap window[v].replayed = {}
           /\ window[v].live \cup window[v].replayed \subseteq window[v].contents
           /\ window[v].checked \subseteq window[v].live)'
    <3>1. ASSUME NEW v \in Windows
          PROVE  /\ window2[v].live \cap window2[v].replayed = {}
                 /\ window2[v].live \cup window2[v].replayed \subseteq window2[v].contents
                 /\ window2[v].checked \subseteq window2[v].live
      <4>1. CASE v = w
        BY <1>19, <1>22, <4>1
      <4>2. CASE v # w
        <5>1. /\ window[v].live \cap window[v].replayed = {}
              /\ window[v].live \cup window[v].replayed \subseteq window[v].contents
              /\ window[v].checked \subseteq window[v].live
          BY <1>3 DEF TypeOK
        <5> QED BY <1>21, <4>2, <5>1
      <4> QED BY <4>1, <4>2
    <3> QED BY <1>1, <3>1
  <2>6. (hostVersion \in [Parts -> Nat]
          /\ {firstSent, lastSent} \subseteq [Parts -> Forms \cup {Raw, NotSent}])'
    BY <1>1, <1>3 DEF TypeOK
  <2> QED BY <1>26, <2>1, <2>2, <2>3, <2>4, <2>5, <2>6 DEF TypeOK
<1>31. ASSUME NEW v \in Windows, NEW s \in SessionIDs, window2[v].joined[s].generation # 0
       PROVE  LET g == window2[v].joined[s].generation
              IN  /\ g \in Generations /\ state'[g] = state2[g]
                  /\ window2[v].joined[s].conflictVersion <= state'[g].conflictVersion
  <2> DEFINE j == window2[v].joined[s]
             g == j.generation
  <2>1. g \in Generations
    BY <1>24, <1>31 DEF Window
  <2>2. state'[g] = state2[g]
    BY <1>25, <1>27, <2>1
  <2>3. state'[g].conflictVersion = m.state[g].conflictVersion
    BY <1>15, <2>1, <2>2
  <2>4. m.state[g].conflictVersion \in Nat
    BY <1>5, <2>1 DEF SessionState
  <2>5. j.conflictVersion <= m.state[g].conflictVersion
    <3>1. CASE v = w
      <4>1. j = m.joined[s]
        BY <1>28, <3>1
      <4>2. j.conflictVersion = m.state[g].conflictVersion
        BY <1>6, <1>31, <4>1
      <4> HIDE DEF j, g
      <4> QED BY <2>4, <4>2
    <3>2. CASE v # w
      <4>1. j = window[v].joined[s]
        BY <1>28, <3>2
      <4>2. /\ state[g].conflictVersion \in Nat /\ m.state[g].conflictVersion \in Nat
            /\ j.conflictVersion \in Nat
            /\ j.conflictVersion <= state[g].conflictVersion
            /\ state[g].conflictVersion <= m.state[g].conflictVersion
        BY <1>29, <1>31, <4>1
      <4> HIDE DEF j, g
      <4> QED BY <4>2
    <3> QED BY <3>1, <3>2
  <2> HIDE DEF j, g
  <2>6. j.conflictVersion <= state'[g].conflictVersion
    BY <2>3, <2>5
  <2> QED BY <2>1, <2>2, <2>6 DEF j, g
<1>32. OneOwner'
  <2> SUFFICES ASSUME NEW g \in Generations, NEW s \in SessionIDs, NEW i \in SessionIDs,
                      RefersIn(generation, s, g)', RefersIn(generation, i, g)'
               PROVE  s = i
    BY DEF OneOwner, OneOwnerIn
  <2>1. g # 0
    BY Finite
  <2>2. ASSUME NEW x \in SessionIDs, RefersIn(generation, x, g)'
        PROVE  RefersIn(m.generation, x, g)
    <3>1. CASE generation'[x] = g
      BY <1>1, <3>1 DEF RefersIn
    <3>2. CASE \E v \in Windows : window'[v].joined[x].generation = g
      <4>1. PICK v \in Windows : window2[v].joined[x].generation = g
        BY <1>1, <3>2
      <4>2. CASE v = w
        <5>1. m.joined[x].generation = g
          BY <1>28, <4>1, <4>2
        <5> QED BY <1>6, <2>1, <5>1 DEF RefersIn
      <4>3. CASE v # w
        BY <1>28, <4>1, <4>3 DEF RefersIn
      <4> QED BY <4>2, <4>3
    <3> QED BY <2>2, <3>1, <3>2 DEF RefersIn
  <2> QED BY <1>4, <2>2 DEF Observing, OneOwnerIn
<1>33. UnreferencedFresh'
  BY <1>1, <1>25 DEF UnreferencedFresh
<1>34. TrackedAccounted'
  <2> SUFFICES ASSUME NEW s \in KeysOf(m.generation)
               PROVE  Accounted(state'[m.generation[s]])
    BY <1>1 DEF TrackedAccounted, Tracked, KeysOf
  <2>1. s \in SessionIDs /\ m.generation[s] \in Generations
    BY <1>5 DEF KeysOf
  <2>2. state'[m.generation[s]] = state2[m.generation[s]]
    BY <1>25, <1>27, <2>1
  <2>3. Accounted(m.state[m.generation[s]])
    BY <1>4 DEF Observing
  <2> QED BY <1>15, <2>1, <2>2, <2>3
<1>35. OpenWindowsAccounted'
  <2> DEFINE After(g) == {v \in Windows : \E s \in SessionIDs :
                             window2[v].joined[s].generation = g}
  <2> SUFFICES ASSUME NEW g \in Generations
               PROVE  state'[g].openWindows = Cardinality(After(g))
    BY <1>1 DEF OpenWindowsAccounted
  <2>1. CASE g \in Referenced(m.generation, window2)
    <3>1. state'[g].openWindows = m.state[g].openWindows /\ OpenIn(m, g)
      BY <1>4, <1>15, <1>25, <2>1 DEF Observing
    <3>2. w \notin Joiners(g)
      BY <1>18, Finite DEF Joiners, Closed, NotJoined
    <3>3. IsFiniteSet(Joiners(g)) /\ Cardinality(Joiners(g)) \in Nat
      BY Finite
    <3>4. CASE \E s \in SessionIDs : m.joined[s].generation = g
      <4>1. After(g) = Joiners(g) \cup {w}
        BY <1>28, <3>2, <3>4 DEF Joiners
      <4>2. Cardinality(Joiners(g) \cup {w}) = Cardinality(Joiners(g)) + 1
        BY <3>2, <3>3, FS_AddElement
      <4> QED BY <3>1, <3>4, <4>1, <4>2 DEF OpenIn
    <3>5. CASE ~\E s \in SessionIDs : m.joined[s].generation = g
      <4>1. After(g) = Joiners(g)
        BY <1>28, <3>2, <3>5 DEF Joiners
      <4>2. m.state[g].openWindows = Cardinality(Joiners(g)) + 0
        <5> HIDE DEF After
        <5> QED BY <3>1, <3>5, Zenon DEF OpenIn
      <4>3. Cardinality(Joiners(g)) + 0 = Cardinality(Joiners(g))
        BY <3>3
      <4> HIDE DEF After
      <4> QED BY <3>1, <4>1, <4>2, <4>3
    <3> QED BY <3>4, <3>5
  <2>2. CASE g \notin Referenced(m.generation, window2)
    <3>1. state'[g].openWindows = 0
      BY <1>25, <2>2 DEF Fresh
    <3>2. After(g) = {}
      BY <1>27, <2>2
    <3> QED BY <3>1, <3>2, FS_EmptySet
  <2> QED BY <2>1, <2>2
<1>36. WindowsInShape'
  <2> SUFFICES ASSUME NEW v \in Windows
               PROVE  /\ ~window2[v].open => window2[v] = Closed
                      /\ \A s \in SessionIDs :
                           LET j == window2[v].joined[s]
                           IN  /\ j.generation = 0 => j = NotJoined
                               /\ j.generation # 0
                                    => j.conflictVersion <= state'[j.generation].conflictVersion
                      /\ \A p \in window2[v].replayed :
                           window2[v].joined[SessionOf[p]].generation # 0
    BY <1>1 DEF WindowsInShape, Joined
  <2>1. ~window2[v].open => window2[v] = Closed
    <3>1. CASE v = w
      BY <1>19, <3>1
    <3>2. CASE v # w
      <4>1. SUFFICES ASSUME ~window2[v].open PROVE window2[v] = Closed
        OBVIOUS
      <4>2. window[v] = Closed /\ ~window[v].open
        BY <1>21, <3>2, <4>1 DEF IInv, WindowsInShape
      <4>3. {s \in SessionIDs : shares(v, s)} = {}
        BY <4>2
      <4>4. window2[v] = [Closed EXCEPT !.overlapped = {}]
        <5>1. Closed.overlapped = {}
          BY DEF Closed
        <5> QED BY <1>21, <3>2, <4>2, <4>3, <5>1
      <4> QED BY <4>4 DEF Closed
    <3> QED BY <3>1, <3>2
  <2>2. ASSUME NEW s \in SessionIDs, window2[v].joined[s].generation = 0
        PROVE  window2[v].joined[s] = NotJoined
    <3>1. CASE v = w
      BY <1>6, <1>28, <2>2, <3>1
    <3>2. CASE v # w
      BY <1>28, <2>2, <3>2 DEF IInv, WindowsInShape
    <3> QED BY <3>1, <3>2
  <2>3. ASSUME NEW s \in SessionIDs, window2[v].joined[s].generation # 0
        PROVE  window2[v].joined[s].conflictVersion
                 <= state'[window2[v].joined[s].generation].conflictVersion
    BY <1>31, <2>3
  <2>4. ASSUME NEW p \in window2[v].replayed
        PROVE  window2[v].joined[SessionOf[p]].generation # 0
    <3>1. CASE v = w
      <4>1. SessionOf[p] \in ids
        BY <1>17, <1>19, <2>4, <3>1
      <4>2. SessionOf[p] \in SessionIDs /\ J(SessionOf[p]) # 0
        BY <1>6, <1>8, <4>1
      <4> QED BY <1>28, <3>1, <4>2
    <3>2. CASE v # w
      <4>1. p \in window[v].replayed
        BY <1>21, <2>4, <3>2
      <4>2. window[v].joined[SessionOf[p]].generation # 0
        BY <4>1 DEF IInv, WindowsInShape, Joined
      <4> QED BY <1>21, <3>2, <4>2
    <3> QED BY <3>1, <3>2
  <2> QED BY <2>1, <2>2, <2>3, <2>4
<1>37. ASSUME NEW v \in Windows, v # w, NEW p \in window[v].live
       PROVE  LET g == window[v].joined[SessionOf[p]].generation
              IN  /\ p \in Parts /\ SessionOf[p] \in SessionIDs /\ g # 0 /\ g \in Generations
                  /\ m.state[g].parts[p].form = Raw
                  /\ state'[g].parts[p].form = Raw
  <2> DEFINE s == SessionOf[p]
             g == window[v].joined[s].generation
  <2>1. p \in Parts
    BY <1>20, <1>37 DEF Window
  <2>2. s \in SessionIDs
    BY ZenonT(60), <2>1, LifecycleAssumption
  <2>3. g # 0 /\ state[g].parts[p].form = Raw
    BY <1>37 DEF IInv, LiveRecordedRaw, Joined
  <2>4. g \in Generations /\ m.state[g].parts = state[g].parts
    BY <1>29, <2>2, <2>3
  <2>5. window2[v].joined[s].generation = g
    BY <1>28, <1>37, <2>2
  <2>6. state'[g] = state2[g]
    BY <1>31, <2>2, <2>3, <2>5
  <2> HIDE DEF s, g
  <2>7. m.state[g].parts[p].form = Raw
    BY <2>3, <2>4
  <2>8. state'[g].parts[p].form = Raw
    BY <1>15, <2>1, <2>4, <2>6, <2>7
  <2> QED BY Zenon, <2>1, <2>2, <2>3, <2>4, <2>7, <2>8 DEF s, g
<1>38. ASSUME NEW p \in live
       PROVE  LET g == m.joined[SessionOf[p]].generation
              IN  /\ p \in Parts /\ SessionOf[p] \in SessionIDs /\ g # 0
                  /\ m.state[g].parts[p].form # Raw
                  /\ state'[g].parts[p].form = Raw
  <2> DEFINE s == SessionOf[p]
             g == m.joined[s].generation
  <2>1. s \in ids /\ p \in Parts /\ m.state[g].parts[p] = Unknown
        /\ state2[g].parts[p].form = Raw
    BY <1>16
  <2>2. s \in SessionIDs /\ g # 0
    BY <1>6, <1>8, <2>1
  <2>3. window2[w].joined[s].generation = g
    BY <1>28, <2>2
  <2>4. state'[g] = state2[g]
    BY <1>31, <2>2, <2>3
  <2>5. Unknown.form # Raw
    BY LifecycleAssumption DEF Unknown
  <2> HIDE DEF s, g
  <2> QED BY <2>1, <2>2, <2>4, <2>5 DEF s, g
<1>39. LiveRecordedRaw'
  <2> SUFFICES ASSUME NEW v \in Windows, NEW p \in window2[v].live
               PROVE  LET g == window2[v].joined[SessionOf[p]].generation
                      IN  /\ g # 0
                          /\ state'[g].parts[p].form = Raw
                          /\ \A u \in Windows \ {v} :
                               p \in window2[u].live
                                 => window2[u].joined[SessionOf[p]].generation # g
    BY <1>1 DEF LiveRecordedRaw, Joined
  <2> DEFINE s == SessionOf[p]
             G(u) == window2[u].joined[s].generation
  <2>1. ASSUME NEW u \in Windows, p \in window2[u].live
        PROVE  G(u) # 0 /\ state'[G(u)].parts[p].form = Raw
    <3>1. CASE u = w
      <4>1. p \in live
        BY <1>19, <2>1, <3>1
      <4>2. s \in SessionIDs
        BY <1>38, <4>1
      <4>3. G(u) = m.joined[s].generation
        BY <1>28, <3>1, <4>2
      <4> QED BY <1>38, <4>1, <4>3
    <3>2. CASE u # w
      <4>1. p \in window[u].live
        BY <1>21, <2>1, <3>2
      <4>2. G(u) = window[u].joined[s].generation
        BY <1>21, <3>2
      <4> QED BY Zenon, <1>37, <3>2, <4>1, <4>2
    <3> QED BY <3>1, <3>2
  <2>2. ASSUME NEW u \in Windows, NEW x \in Windows, u # w, x # u,
               p \in window2[u].live, p \in window2[x].live
        PROVE  G(u) # G(x)
    <3>1. p \in window[u].live /\ G(u) = window[u].joined[s].generation
      BY Zenon, <1>21, <2>2
    <3>2. CASE x = w
      <4>1. p \in live
        BY <1>19, <2>2, <3>2
      <4>2. s \in SessionIDs
        BY <1>38, <4>1
      <4>3. G(x) = m.joined[s].generation
        BY <1>28, <3>2, <4>2
      <4>4. m.state[G(x)].parts[p].form # Raw
        BY ZenonT(60), <1>38, <4>1, <4>3
      <4>5. m.state[G(u)].parts[p].form = Raw
        BY Zenon, <1>37, <2>2, <3>1
      <4> QED BY Zenon, <4>4, <4>5
    <3>3. CASE x # w
      <4>1. p \in window[x].live /\ G(x) = window[x].joined[s].generation
        BY <1>21, <2>2, <3>3
      <4>2. window[u].joined[s].generation # window[x].joined[s].generation
        BY <2>2, <3>1, <4>1, LiveApart
      <4> QED BY <3>1, <4>1, <4>2
    <3> QED BY <3>2, <3>3
  <2>3. ASSUME NEW u \in Windows \ {v}, p \in window2[u].live PROVE G(u) # G(v)
    <3>1. CASE u # w
      BY <2>2, <2>3, <3>1
    <3>2. CASE u = w
      <4>1. v # w /\ v # u
        BY <2>3, <3>2
      <4>2. G(v) # G(u)
        BY <2>2, <2>3, <4>1
      <4> QED BY <4>2
    <3> QED BY <3>1, <3>2
  <2>4. G(v) # 0 /\ state'[G(v)].parts[p].form = Raw
    BY <2>1
  <2> QED BY <2>3, <2>4
<1>40. OverlapIsStale'
  <2> SUFFICES ASSUME NEW v \in Windows, NEW p \in window2[v].live,
                      SessionOf[p] \in window2[v].overlapped
               PROVE  window2[v].joined[SessionOf[p]].conflictVersion
                        < state'[window2[v].joined[SessionOf[p]].generation].conflictVersion
    BY <1>1 DEF OverlapIsStale, Joined
  <2> DEFINE s == SessionOf[p]
             j == window2[v].joined[s]
             g == j.generation
  <2>1. v # w
    <3> SUFFICES ASSUME v = w PROVE FALSE
      OBVIOUS
    <3>1. p \in live /\ s \in m.overlapping
      BY <1>19
    <3> QED BY <1>16, <3>1
  <2>2. p \in window[v].live /\ j = window[v].joined[s]
    BY Zenon, <1>21, <2>1
  <2>3. s \in SessionIDs /\ g # 0
    BY ZenonT(60), <1>37, <2>1, <2>2
  <2>4. /\ g \in Generations /\ state[g].conflictVersion \in Nat
        /\ m.state[g].conflictVersion \in Nat /\ j.conflictVersion \in Nat
        /\ j.conflictVersion <= state[g].conflictVersion
        /\ state[g].conflictVersion <= m.state[g].conflictVersion
    BY <1>29, <2>2, <2>3
  <2>5. state'[g].conflictVersion = m.state[g].conflictVersion
    BY ZenonT(60), <1>15, <1>31, <2>3, <2>4
  <2>6. CASE s \in window[v].overlapped
    <3>1. j.conflictVersion < state[g].conflictVersion
      BY <2>2, <2>6 DEF IInv, OverlapIsStale, Joined
    <3> HIDE DEF j, g, s
    <3>2. j.conflictVersion < m.state[g].conflictVersion
      BY <2>4, <3>1
    <3> QED BY Zenon, <2>5, <3>2 DEF j, g, s
  <2>7. CASE shares(v, s)
    <3>1. OverlapsIn(m, s) /\ g = m.joined[s].generation
      BY <1>4, <2>2, <2>7 DEF Observing
    <3>2. state[g].conflictVersion < m.state[g].conflictVersion
      BY <3>1 DEF OverlapsIn
    <3>3. j.conflictVersion < m.state[g].conflictVersion
      <4> HIDE DEF j, g
      <4> QED BY <2>4, <3>2
    <3> QED BY <2>5, <3>3
  <2> QED BY ZenonT(60), <1>21, <2>1, <2>6, <2>7
<1>41. \A s \in Tracked : InUse(s) => generation'[s] = generation[s]
  BY <1>1, <1>4 DEF Observing, UsedIn
<1> QED
  BY <1>30, <1>32, <1>33, <1>34, <1>35, <1>36, <1>39, <1>40, <1>41 DEF IInv

(* ... and what it does to the keys of the map and to the windows.         *)
LEMMA BeginAdmits ==
  ASSUME IInv, NEW w \in Windows,
         NEW q, q.ids \in Seq(SessionIDs), IsInjective(q.ids), NEW at, Begin(w, q, at)
  PROVE  /\ Tracked' \subseteq Tracked \cup {q.ids[k] : k \in 1 .. Len(q.ids)}
         /\ Cardinality(Tracked) <= MaxSessions => Cardinality(Tracked') <= MaxSessions
         /\ ~window[w].open /\ window'[w].open
         /\ \A k \in 1 .. Len(q.ids) :
              window'[w].joined[q.ids[k]].generation = generation'[q.ids[k]]
         /\ \A v \in Windows \ {w} : /\ window'[v].open = window[v].open
                                     /\ window'[v].joined = window[v].joined
<1> DEFINE m == Observed(Start, q.ids)
<1>1. ~window[w].open /\ generation' = m.generation
  BY ZenonT(60) DEF Begin, BeginWith
<1>2. window'[w].open = TRUE /\ window'[w].joined = m.joined
  BY ZenonT(60) DEF Begin, BeginWith
<1>3. ASSUME NEW v \in Windows \ {w}
      PROVE  window'[v].open = window[v].open /\ window'[v].joined = window[v].joined
  <2>1. window[v] \in Window
    BY DEF IInv, TypeOK
  <2> QED BY Zenon, <2>1 DEF Begin, BeginWith, Window
<1>4. TypeOK
  BY DEF IInv
<1>5. Observing(q.ids, Len(q.ids), m) /\ Admitting(q.ids, Len(q.ids), m)
  BY <1>4, StartObserving, ObservedKeeps
<1> HIDE DEF m
<1>6. Tracked' = KeysOf(m.generation)
  BY <1>1 DEF Tracked, KeysOf
<1>7. ASSUME NEW k \in 1 .. Len(q.ids)
      PROVE  m.joined[q.ids[k]].generation = m.generation[q.ids[k]]
  <2>1. q.ids[k] \in SessionIDs
    OBVIOUS
  <2>2. JoinedIn(m, q.ids[k])
    BY <1>5, <2>1 DEF Observing
  <2>3. m.joined[q.ids[k]].generation = 0 => m.generation[q.ids[k]] = 0
    BY <1>5 DEF Admitting
  <2> QED BY <2>2, <2>3 DEF JoinedIn
<1>8. Cardinality(Tracked) <= MaxSessions => Cardinality(KeysOf(m.generation)) <= MaxSessions
  BY <1>5 DEF Admitting
<1>9. KeysOf(m.generation) \subseteq Tracked \cup {q.ids[k] : k \in 1 .. Len(q.ids)}
  BY <1>5 DEF Admitting
<1> QED BY <1>1, <1>2, <1>3, <1>6, <1>7, <1>8, <1>9

(* What the request of a window finds of a session that it has joined: the *)
(* object S, as it was or new, and whether it is full.  Only a part that   *)
(* an object which was there does not know may be changed.                 *)
Found(i, S) ==
  /\ generation'[i] = generation[i]
  /\ S.parts = state[generation[i]].parts /\ S.saturated = state[generation[i]].saturated
Opened(w, q, at, i) ==
  \E S \in SessionState, full \in BOOLEAN :
    /\ Found(i, S) \/ S.parts = Fresh.parts
    /\ S.saturated => full
    /\ full => state'[generation'[i]].saturated
    /\ \A p \in Parts :
         state'[generation'[i]].parts[p] =
           IF p \in q.parts /\ SessionOf[p] = i
                /\ (IF Known(S, p) THEN S.parts[p].version # at[p] ELSE ~full)
           THEN RawRecord(at[p]) ELSE S.parts[p]
    /\ \A p \in q.parts : SessionOf[p] = i =>
         /\ p \in window'[w].live => ~Known(S, p) /\ ~full /\ Found(i, S)
         /\ window'[w].form[p] =
              IF Changed(S.parts[p]) /\ S.parts[p].version = at[p] THEN S.parts[p].form ELSE Raw

(* begin, of what has been recorded and what the window will show.         *)
LEMMA BeginShows ==
  ASSUME IInv, NEW w \in Windows,
         NEW q, q.ids \in Seq(SessionIDs), IsInjective(q.ids), q.parts \in SUBSET Parts,
         \A p \in q.parts : \E k \in 1 .. Len(q.ids) : q.ids[k] = SessionOf[p],
         NEW at \in [Parts -> Nat], Begin(w, q, at)
  PROVE  /\ UNCHANGED <<hostVersion, firstSent, lastSent>>
         /\ \A v \in Windows \ {w} :
              /\ window'[v].contents = window[v].contents /\ window'[v].live = window[v].live
              /\ window'[v].version = window[v].version /\ window'[v].form = window[v].form
         /\ window'[w].contents = q.parts
         /\ \A p \in q.parts :
              /\ window'[w].version[p] = at[p]
              /\ generation'[SessionOf[p]] = 0
                   => p \notin window'[w].live /\ window'[w].form[p] = Raw
         /\ \A i \in SessionIDs :
              (\A k \in 1 .. Len(q.ids) : q.ids[k] # i) /\ generation'[i] # 0
                => /\ generation'[i] = generation[i]
                   /\ state'[generation[i]].parts = state[generation[i]].parts
                   /\ state'[generation[i]].saturated = state[generation[i]].saturated
         /\ \A k \in 1 .. Len(q.ids) :
              generation'[q.ids[k]] # 0 => Opened(w, q, at, q.ids[k])
<1> DEFINE m == Observed(Start, q.ids)
           mine(s) == {p \in q.parts : SessionOf[p] = s}
           ids == {s \in SessionIDs : m.joined[s] # NotJoined}
           old(s) == m.state[m.joined[s].generation]
           replayed == UNION {Replayed(old(s), mine(s), at) : s \in ids}
           live == UNION {Unseen(old(s), mine(s)) \ q.pinned :
                            s \in {i \in ids : LiveSession(m, q, i)
                                                 /\ ~Overfull(old(i), mine(i))}}
           owner(g) == {s \in ids : m.joined[s].generation = g}
           state2 == [g \in Generations |->
                        IF owner(g) = {} THEN m.state[g]
                        ELSE LET s == CHOOSE i \in owner(g) : TRUE
                             IN  AfterRecording(AfterReplay(old(s), mine(s), at), mine(s), at)]
           version == [p \in Parts |-> IF p \in q.parts THEN at[p] ELSE 0]
           form == [p \in Parts |-> IF p \in replayed
                                    THEN old(SessionOf[p]).parts[p].form ELSE Raw]
           opened == [open |-> TRUE, joined |-> m.joined, contents |-> q.parts,
                      live |-> live, checked |-> {}, replayed |-> replayed,
                      version |-> version, form |-> form,
                      overlapped |-> m.overlapping]
           shares(v, s) == window[v].open /\ s \in m.overlapping
                             /\ window[v].joined[s].generation = m.joined[s].generation
           window2 == [v \in Windows |->
                         IF v = w THEN opened
                         ELSE [window[v] EXCEPT
                                 !.overlapped = @ \cup {s \in SessionIDs : shares(v, s)}]]
           J(s) == m.joined[s].generation
           N == Len(q.ids)
<1>1. /\ generation' = m.generation
      /\ window' = window2 /\ state' = Collected(m.generation, window2, state2)
      /\ hostVersion' = hostVersion /\ firstSent' = firstSent /\ lastSent' = lastSent
  BY Zenon DEF Begin, BeginWith
<1>2. TypeOK
  BY DEF IInv
<1>3. Observing(q.ids, N, m) /\ Admitting(q.ids, N, m) /\ Showing(q.ids, N, m)
  BY <1>2, StartObserving, ObservedKeeps
<1> HIDE DEF m
<1>4. /\ m.generation \in [SessionIDs -> Generations \cup {0}]
      /\ m.state \in [Generations -> SessionState] /\ m.joined \in [SessionIDs -> JoinedRecord]
  BY <1>3 DEF Observing, Observation
<1>5. N \in Nat /\ \A k \in 1 .. N : q.ids[k] \in SessionIDs
  OBVIOUS
<1>6. \A s \in SessionIDs : /\ s \in ids <=> J(s) # 0
                            /\ J(s) # 0 => m.generation[s] = J(s)
                            /\ J(s) = 0 => m.joined[s] = NotJoined
  <2> TAKE s \in SessionIDs
  <2>1. JoinedIn(m, s)
    BY <1>3 DEF Observing
  <2> QED BY <2>1 DEF JoinedIn, NotJoined
<1>7. \A k \in 1 .. N : J(q.ids[k]) = m.generation[q.ids[k]]
  <2> TAKE k \in 1 .. N
  <2>1. J(q.ids[k]) = 0 => m.generation[q.ids[k]] = 0
    BY <1>3 DEF Admitting
  <2> QED BY <1>5, <1>6, <2>1
<1>8. \A s, i \in SessionIDs : m.generation[s] # 0 /\ m.generation[s] = m.generation[i] => s = i
  <2> SUFFICES ASSUME NEW s \in SessionIDs, NEW i \in SessionIDs, m.generation[s] # 0,
                      m.generation[s] = m.generation[i]
               PROVE  s = i
    OBVIOUS
  <2>1. m.generation[s] \in Generations
    BY <1>4
  <2> QED BY <1>3, <2>1 DEF Observing, OneOwnerIn, RefersIn
<1>9. \A i \in SessionIDs : m.generation[i] # 0 =>
        /\ m.generation[i] \in Generations
        /\ state'[m.generation[i]] = state2[m.generation[i]]
  <2> SUFFICES ASSUME NEW i \in SessionIDs, m.generation[i] # 0
               PROVE  /\ m.generation[i] \in Generations
                      /\ state'[m.generation[i]] = state2[m.generation[i]]
    BY Zenon
  <2> DEFINE g == m.generation[i]
  <2>1. g \in Generations
    BY <1>4
  <2>3. g \in Referenced(m.generation, window2)
    <3> HIDE DEF window2
    <3> QED BY DEF Referenced
  <2> HIDE DEF window2, state2, g
  <2>2. state'[g] = state2[g]
    BY <1>1, <2>1, <2>3 DEF Collected
  <2> QED BY <2>1, <2>2 DEF g
<1>10. \A g \in Generations : state2[g] = IF owner(g) = {} THEN m.state[g]
         ELSE LET s == CHOOSE i \in owner(g) : TRUE
              IN  AfterRecording(AfterReplay(old(s), mine(s), at), mine(s), at)
  BY Zenon
<1>11. \A v \in Windows : window2[v] =
         IF v = w THEN opened
         ELSE [window[v] EXCEPT !.overlapped = @ \cup {s \in SessionIDs : shares(v, s)}]
  BY Zenon
<1>12. /\ opened.contents = q.parts /\ opened.live = live
       /\ opened.version = version /\ opened.form = form
  BY Zenon
<1>13. /\ \A p \in Parts : version[p] = IF p \in q.parts THEN at[p] ELSE 0
       /\ \A p \in Parts : form[p] = IF p \in replayed
                                     THEN old(SessionOf[p]).parts[p].form ELSE Raw
  BY Zenon
<1>14. \A p \in live : \E s \in ids : /\ LiveSession(m, q, s) /\ ~Overfull(old(s), mine(s))
                                      /\ p \in Unseen(old(s), mine(s))
  OBVIOUS
<1>15. \A p : p \in replayed <=> \E s \in ids : p \in Replayed(old(s), mine(s), at)
  BY ZenonT(60)
<1> HIDE DEF state2, window2, opened, version, form, live, replayed
<1>16. /\ window'[w].contents = q.parts /\ window'[w].live = live
       /\ window'[w].version = version /\ window'[w].form = form
  BY <1>1, <1>11, <1>12
<1>17. ASSUME NEW v \in Windows \ {w}
       PROVE  /\ window'[v].contents = window[v].contents /\ window'[v].live = window[v].live
              /\ window'[v].version = window[v].version /\ window'[v].form = window[v].form
  <2> DEFINE X == window[v].overlapped \cup {s \in SessionIDs : shares(v, s)}
  <2>1. window[v] \in Window
    BY <1>2 DEF TypeOK
  <2>2. window'[v] = [window[v] EXCEPT !.overlapped = X]
    BY <1>1, <1>11
  <2> HIDE DEF X
  <2> QED BY <2>1, <2>2 DEF Window
<1>18. \A s \in SessionIDs : \A p \in mine(s) : p \in Parts /\ p \in q.parts /\ SessionOf[p] = s
  OBVIOUS
<1>19. ASSUME NEW p \in q.parts
       PROVE  /\ window'[w].version[p] = at[p]
              /\ p \in Parts /\ SessionOf[p] \in SessionIDs
              /\ generation'[SessionOf[p]] = 0
                   => p \notin window'[w].live /\ window'[w].form[p] = Raw
  <2>1. p \in Parts /\ SessionOf[p] \in SessionIDs
    BY LifecycleAssumption
  <2>2. PICK k \in 1 .. N : q.ids[k] = SessionOf[p]
    OBVIOUS
  <2>3. window'[w].version[p] = at[p]
    BY <1>13, <1>16, <2>1
  <2>4. ASSUME generation'[SessionOf[p]] = 0
        PROVE  p \notin live /\ p \notin replayed
    <3>1. SessionOf[p] \notin ids
      BY <1>1, <1>6, <1>7, <2>1, <2>2, <2>4
    <3>2. \A s \in ids : p \notin mine(s)
      BY <3>1
    <3> HIDE DEF mine, ids
    <3> QED BY <1>14, <1>15, <3>2 DEF Unseen, Replayed
  <2> QED BY <1>13, <1>16, <2>1, <2>3, <2>4
<1>20. ASSUME NEW i \in SessionIDs, \A k \in 1 .. N : q.ids[k] # i, generation'[i] # 0
       PROVE  /\ generation'[i] = generation[i]
              /\ state'[generation[i]].parts = state[generation[i]].parts
              /\ state'[generation[i]].saturated = state[generation[i]].saturated
  <2> DEFINE g == m.generation[i]
  <2>1. g # 0 /\ g \in Generations /\ state'[g] = state2[g]
    BY <1>1, <1>9, <1>20
  <2>2. owner(g) = {}
    <3> SUFFICES ASSUME NEW s \in SessionIDs, s \in ids, J(s) = g PROVE FALSE
      OBVIOUS
    <3>1. s = i
      BY <1>6, <1>8, <2>1
    <3>2. m.joined[i] = NotJoined
      BY <1>3, <1>20 DEF Observing
    <3> QED BY <3>1, <3>2
  <2>3. state2[g] = m.state[g]
    <3> HIDE DEF owner, ids, mine, g
    <3> QED BY <1>10, <2>1, <2>2
  <2>4. i \notin m.firstObserved /\ ShownIn(m, i)
    BY <1>3, <1>20 DEF Showing
  <2> QED BY <1>1, <2>1, <2>3, <2>4 DEF ShownIn
<1>21. ASSUME NEW k \in 1 .. N, generation'[q.ids[k]] # 0
       PROVE  Opened(w, q, at, q.ids[k])
  <2> DEFINE i == q.ids[k]
             g == m.generation[i]
             S == m.state[g]
             P == mine(i)
             full == Overfull(S, P)
  <2>1. /\ i \in SessionIDs /\ g # 0 /\ g \in Generations /\ state'[g] = state2[g]
        /\ J(i) = g /\ generation'[i] = g /\ i \in ids /\ old(i) = S
    BY <1>1, <1>5, <1>6, <1>7, <1>9, <1>21
  <2>2. S \in SessionState /\ P \in SUBSET Parts
    BY <1>4, <2>1
  <2>3. state2[g] = Passed(S, P, at)
    <3>1. owner(g) = {i}
      BY <1>6, <1>8, <2>1
    <3>2. (CHOOSE x \in owner(g) : TRUE) = i /\ owner(g) # {}
      BY <3>1
    <3> HIDE DEF owner, ids, mine, i, g
    <3>3. state2[g] = AfterRecording(AfterReplay(old(i), mine(i), at), mine(i), at)
      BY <1>10, <2>1, <3>2
    <3> QED BY <2>1, <3>3 DEF Passed
  <2>4. ShownIn(m, i)
    BY <1>3, <2>1 DEF Showing
  <2>5. Found(i, S) \/ S.parts = Fresh.parts
    BY <1>1, <2>1, <2>4 DEF ShownIn, Found
  <2>6. i \notin m.firstObserved => Found(i, S)
    BY <1>1, <2>1, <2>4 DEF ShownIn, Found
  <2> HIDE DEF S, P, i, g, full
  <2>7. /\ S.saturated => full
        /\ full => state'[generation'[i]].saturated
        /\ \A p \in Parts :
             state'[generation'[i]].parts[p] =
               IF p \in P /\ (IF Known(S, p) THEN S.parts[p].version # at[p] ELSE ~full)
               THEN RawRecord(at[p]) ELSE S.parts[p]
    BY <2>1, <2>2, <2>3, PassedShows DEF full
  <2>8. \A p : p \in P <=> p \in q.parts /\ SessionOf[p] = i
    BY DEF P
  <2>9. ASSUME NEW p \in q.parts, SessionOf[p] = i
        PROVE  /\ p \in window'[w].live => ~Known(S, p) /\ ~full /\ Found(i, S)
               /\ window'[w].form[p] =
                    IF Changed(S.parts[p]) /\ S.parts[p].version = at[p]
                    THEN S.parts[p].form ELSE Raw
    <3>1. \A s \in ids : p \in mine(s) => s = i
      BY <2>9
    <3>2. p \in P /\ P = mine(i)
      BY <2>8, <2>9 DEF P
    <3> HIDE DEF mine, ids
    <3>3. ASSUME p \in live PROVE ~Known(S, p) /\ ~full /\ Found(i, S)
      <4>1. PICK s \in ids : /\ LiveSession(m, q, s) /\ ~Overfull(old(s), mine(s))
                             /\ p \in Unseen(old(s), mine(s))
        BY <1>14, <3>3
      <4>2. p \in mine(s) /\ ~Known(old(s), p)
        BY <4>1 DEF Unseen
      <4>3. s = i
        BY <3>1, <4>2
      <4>4. ~Known(S, p) /\ ~Overfull(S, P) /\ i \notin m.firstObserved
        BY <2>1, <3>2, <4>1, <4>2, <4>3 DEF LiveSession
      <4> QED BY <2>6, <4>4 DEF full
    <3>4. p \in replayed <=> Changed(S.parts[p]) /\ S.parts[p].version = at[p]
      <4>1. p \in Replayed(S, P, at) <=> Changed(S.parts[p]) /\ S.parts[p].version = at[p]
        BY <3>2 DEF Replayed
      <4>2. p \in replayed <=> p \in Replayed(S, P, at)
        <5>1. ASSUME NEW s \in ids, p \in Replayed(old(s), mine(s), at)
              PROVE  p \in Replayed(S, P, at)
          <6>1. p \in mine(s)
            BY <5>1 DEF Replayed
          <6>2. s = i
            BY <3>1, <6>1
          <6> QED BY <2>1, <3>2, <5>1, <6>2
        <5>2. p \in Replayed(S, P, at) => \E s \in ids : p \in Replayed(old(s), mine(s), at)
          BY <2>1, <3>2
        <5> QED BY <1>15, <5>1, <5>2
      <4> QED BY <4>1, <4>2
    <3>5. form[p] = IF p \in replayed THEN S.parts[p].form ELSE Raw
      BY <1>13, <1>19, <2>1, <2>9
    <3> QED BY <1>16, <3>3, <3>4, <3>5
  <2>10. full \in BOOLEAN
    BY DEF full, Overfull
  <2> DEFINE record(p) == state'[generation'[i]].parts[p]
  <2>11. \A p \in Parts :
           record(p) = IF p \in q.parts /\ SessionOf[p] = i
                            /\ (IF Known(S, p) THEN S.parts[p].version # at[p] ELSE ~full)
                       THEN RawRecord(at[p]) ELSE S.parts[p]
    BY <2>7, <2>8
  <2>12. Opened(w, q, at, i)
    BY <2>2, <2>5, <2>7, <2>9, <2>10, <2>11 DEF Opened
  <2> QED BY <2>12 DEF i
<1> QED BY <1>1, <1>16, <1>17, <1>19, <1>20, <1>21
-----------------------------------------------------------------------------
(* A step that leaves alone which objects the sessions and windows use,    *)
(* and what windows may still change.                                      *)
LEMMA QuietStep ==
  ASSUME IInv, generation' = generation,
         \A v \in Windows : /\ window'[v].joined = window[v].joined
                            /\ window'[v].live = window[v].live
                            /\ window'[v].overlapped = window[v].overlapped,
         \A g \in Generations : /\ state'[g].openWindows = state[g].openWindows
                                /\ state'[g].conflictVersion = state[g].conflictVersion,
         \A g \in Generations \ Referenced(generation, window) : state'[g] = state[g],
         \A g \in Generations, p \in Parts :
           state[g].parts[p].form = Raw => state'[g].parts[p].form = Raw
  PROVE  OneOwner' /\ UnreferencedFresh' /\ OpenWindowsAccounted' /\ LiveRecordedRaw'
         /\ OverlapIsStale'
<1>1. OneOwner'
  BY DEF IInv, OneOwner, OneOwnerIn, RefersIn
<1>2. Referenced(generation, window)' = Referenced(generation, window)
  BY DEF Referenced
<1>3. UnreferencedFresh'
  BY <1>2 DEF IInv, UnreferencedFresh
<1>4. OpenWindowsAccounted'
  <2> SUFFICES ASSUME NEW g \in Generations
               PROVE  state'[g].openWindows =
                        Cardinality({v \in Windows : \E s \in SessionIDs :
                                       window'[v].joined[s].generation = g})
    BY DEF OpenWindowsAccounted
  <2>1. {v \in Windows : \E s \in SessionIDs : window'[v].joined[s].generation = g}
          = {v \in Windows : \E s \in SessionIDs : window[v].joined[s].generation = g}
    OBVIOUS
  <2> QED BY <2>1 DEF IInv, OpenWindowsAccounted
<1>5. ASSUME NEW v \in Windows, NEW p \in window[v].live
      PROVE  /\ p \in Parts /\ Joined(v, p).generation \in Generations
             /\ Joined(v, p)' = Joined(v, p)
  <2>1. p \in Parts /\ SessionOf[p] \in SessionIDs
    BY LifecycleAssumption DEF IInv, TypeOK, Window
  <2>2. Joined(v, p).generation # 0
    BY DEF IInv, LiveRecordedRaw
  <2>3. Joined(v, p).generation \in Generations
    BY <2>1, <2>2 DEF IInv, TypeOK, Window, Joined
  <2> QED BY <2>1, <2>3 DEF Joined
<1>6. LiveRecordedRaw'
  <2> SUFFICES ASSUME NEW v \in Windows, NEW p \in window[v].live
               PROVE  /\ Joined(v, p)'.generation # 0
                      /\ state'[Joined(v, p)'.generation].parts[p].form = Raw
                      /\ \A u \in Windows \ {v} :
                           p \in window[u].live
                             => Joined(u, p)'.generation # Joined(v, p)'.generation
    BY DEF LiveRecordedRaw
  <2>1. /\ Joined(v, p).generation # 0
        /\ state[Joined(v, p).generation].parts[p].form = Raw
        /\ \A u \in Windows \ {v} :
             p \in window[u].live => Joined(u, p).generation # Joined(v, p).generation
    BY DEF IInv, LiveRecordedRaw
  <2>2. \A u \in Windows : Joined(u, p)' = Joined(u, p)
    BY DEF Joined
  <2> QED BY <1>5, <2>1, <2>2
<1>7. OverlapIsStale'
  <2> SUFFICES ASSUME NEW v \in Windows, NEW p \in window[v].live,
                      SessionOf[p] \in window[v].overlapped
               PROVE  Joined(v, p)'.conflictVersion
                        < state'[Joined(v, p)'.generation].conflictVersion
    BY DEF OverlapIsStale
  <2>1. Joined(v, p).conflictVersion < state[Joined(v, p).generation].conflictVersion
    BY DEF IInv, OverlapIsStale
  <2> QED BY <1>5, <2>1
<1> QED BY <1>1, <1>3, <1>4, <1>6, <1>7

(* canMutateToolPart and the write that follows it, and an edit by the     *)
(* host: none of them touches the objects.                                 *)
LEMMA WindowStep ==
  ASSUME IInv, UNCHANGED <<mapOrder, generation, state>>,
         hostVersion' \in [Parts -> Nat],
         {firstSent', lastSent'} \subseteq [Parts -> Forms \cup {Raw, NotSent}],
         window' \in [Windows -> Window],
         \A v \in Windows : /\ window'[v].joined = window[v].joined
                            /\ window'[v].live = window[v].live
                            /\ window'[v].replayed = window[v].replayed
                            /\ window'[v].contents = window[v].contents
                            /\ window'[v].overlapped = window[v].overlapped
                            /\ window'[v].open = window[v].open
                            /\ window'[v].checked \subseteq window[v].live
                            /\ ~window[v].open => window'[v] = window[v]
  PROVE  IInv'
<1>1. OneOwner' /\ UnreferencedFresh' /\ OpenWindowsAccounted' /\ LiveRecordedRaw'
      /\ OverlapIsStale'
  BY QuietStep
<1>2. TypeOK'
  BY DEF IInv, TypeOK, Tracked, KeysOf, InOrder
<1>3. TrackedAccounted'
  BY DEF IInv, TrackedAccounted, Tracked, KeysOf
<1>4. WindowsInShape'
  BY DEF IInv, WindowsInShape, Joined
<1> QED BY <1>1, <1>2, <1>3, <1>4 DEF IInv

(* A window's check of a part.                                             *)
LEMMA CheckKeeps ==
  ASSUME IInv, NEW w \in Windows, NEW p \in Parts, Check(w, p)
  PROVE  IInv'
<1>1. window[w] \in Window /\ \A v \in Windows : window[v].checked \subseteq window[v].live
  BY DEF IInv, TypeOK
<1> DEFINE c == window[w].checked \cup {p}
           W == [window[w] EXCEPT !.checked = c]
<1>2. c \in SUBSET Parts /\ c \subseteq window[w].live
  BY <1>1 DEF Check, Window
<1>3. /\ window' = [window EXCEPT ![w] = W] /\ window[w].open
      /\ UNCHANGED <<mapOrder, generation, state, hostVersion, firstSent, lastSent>>
  BY DEF Check, manager
<1> HIDE DEF c
<1>4. /\ W \in Window /\ W.joined = window[w].joined /\ W.live = window[w].live
      /\ W.replayed = window[w].replayed /\ W.contents = window[w].contents
      /\ W.overlapped = window[w].overlapped /\ W.open = window[w].open /\ W.checked = c
  BY <1>1, <1>2 DEF Window
<1> HIDE DEF W
<1>5. /\ window' \in [Windows -> Window] /\ window'[w] = W
      /\ \A v \in Windows : v # w => window'[v] = window[v]
  BY <1>3, <1>4 DEF IInv, TypeOK
<1>6. /\ hostVersion' \in [Parts -> Nat]
      /\ {firstSent', lastSent'} \subseteq [Parts -> Forms \cup {Raw, NotSent}]
  BY <1>3 DEF IInv, TypeOK
<1> QED BY <1>1, <1>2, <1>3, <1>4, <1>5, <1>6, WindowStep

(* A window's write of a part.                                             *)
LEMMA WriteKeeps ==
  ASSUME IInv, NEW w \in Windows, NEW p \in Parts, NEW f \in Forms \cup {Raw}, Write(w, p, f)
  PROVE  IInv'
<1>1. window[w] \in Window /\ \A v \in Windows : window[v].checked \subseteq window[v].live
  BY DEF IInv, TypeOK
<1> DEFINE c == [window[w].form EXCEPT ![p] = f]
           W == [window[w] EXCEPT !.form = c]
<1>2. c \in [Parts -> Forms \cup {Raw}]
  BY <1>1 DEF Window
<1>3. /\ window' = [window EXCEPT ![w] = W] /\ window[w].open
      /\ UNCHANGED <<mapOrder, generation, state, hostVersion, firstSent, lastSent>>
  BY DEF Write, manager
<1> HIDE DEF c
<1>4. /\ W \in Window /\ W.joined = window[w].joined /\ W.live = window[w].live
      /\ W.replayed = window[w].replayed /\ W.contents = window[w].contents
      /\ W.overlapped = window[w].overlapped /\ W.open = window[w].open
      /\ W.checked = window[w].checked
  BY <1>1, <1>2 DEF Window
<1> HIDE DEF W
<1>5. /\ window' \in [Windows -> Window] /\ window'[w] = W
      /\ \A v \in Windows : v # w => window'[v] = window[v]
  BY <1>3, <1>4 DEF IInv, TypeOK
<1>6. /\ hostVersion' \in [Parts -> Nat]
      /\ {firstSent', lastSent'} \subseteq [Parts -> Forms \cup {Raw, NotSent}]
  BY <1>3 DEF IInv, TypeOK
<1> QED BY <1>1, <1>3, <1>4, <1>5, <1>6, WindowStep

(* The host's edit of a part.                                              *)
LEMMA HostEditKeeps ==
  ASSUME IInv, NEW p \in Parts, HostEdit(p)
  PROVE  IInv'
<1>1. /\ UNCHANGED <<mapOrder, generation, state>> /\ window' = window
      /\ hostVersion' = [hostVersion EXCEPT ![p] = @ + 1]
      /\ firstSent' = [firstSent EXCEPT ![p] = NotSent]
      /\ lastSent' = [lastSent EXCEPT ![p] = NotSent]
  BY DEF HostEdit, manager
<1>2. /\ hostVersion \in [Parts -> Nat]
      /\ firstSent \in [Parts -> Forms \cup {Raw, NotSent}]
      /\ lastSent \in [Parts -> Forms \cup {Raw, NotSent}]
      /\ window \in [Windows -> Window]
      /\ \A v \in Windows : window[v].checked \subseteq window[v].live
  BY DEF IInv, TypeOK
<1>3. hostVersion' \in [Parts -> Nat]
  <2>1. hostVersion[p] + 1 \in Nat
    BY <1>2
  <2> QED BY <1>1, <1>2, <2>1
<1>4. {firstSent', lastSent'} \subseteq [Parts -> Forms \cup {Raw, NotSent}]
  BY <1>1, <1>2
<1> QED BY <1>1, <1>2, <1>3, <1>4, WindowStep

(* A request that is sent without a window.                                *)
LEMMA SendKeeps ==
  ASSUME IInv, NEW P, NEW version, NEW form \in [Parts -> Forms \cup {Raw}],
         Send(P, version, form), UNCHANGED <<manager, window, hostVersion>>
  PROVE  IInv'
<1>1. /\ UNCHANGED <<mapOrder, generation, state>> /\ window' = window
      /\ hostVersion' = hostVersion
  BY DEF manager
<1>2. /\ hostVersion \in [Parts -> Nat]
      /\ firstSent \in [Parts -> Forms \cup {Raw, NotSent}]
      /\ lastSent \in [Parts -> Forms \cup {Raw, NotSent}]
      /\ window \in [Windows -> Window]
      /\ \A v \in Windows : window[v].checked \subseteq window[v].live
  BY DEF IInv, TypeOK
<1>3. {firstSent', lastSent'} \subseteq [Parts -> Forms \cup {Raw, NotSent}]
  BY <1>2 DEF Send
<1> QED BY <1>1, <1>2, <1>3, WindowStep
-----------------------------------------------------------------------------
(* invalidateReplayForToolPart.                                            *)
LEMMA InvalidateKeeps ==
  ASSUME IInv, NEW w \in Windows, NEW p \in Parts, Invalidate(w, p)
  PROVE  IInv'
<1> DEFINE s == SessionOf[p]
           g == Joined(w, p).generation
           F == Forget(state[g], {p})
           S == IF Current(w, p) THEN F ELSE state[g]
           r == RawRecord(window[w].version[p])
           ps == [S.parts EXCEPT ![p] = r]
           T == [S EXCEPT !.parts = ps]
           re == window[w].replayed \ {p}
           fo == [window[w].form EXCEPT ![p] = Raw]
           W == [window[w] EXCEPT !.replayed = re, !.form = fo]
<1>1. /\ window[w].open /\ p \in window[w].replayed
      /\ UNCHANGED <<mapOrder, generation, hostVersion, firstSent, lastSent>>
  BY DEF Invalidate
<1>2. window' = [window EXCEPT ![w] = W] /\ state' = [state EXCEPT ![g] = T]
  <2>1. window' = [window EXCEPT ![w].replayed = @ \ {p}, ![w].form[p] = Raw]
    BY DEF Invalidate
  <2>2. state' = [state EXCEPT ![g] = [S EXCEPT !.parts[p] = RawRecord(window[w].version[p])]]
    BY Zenon DEF Invalidate
  <2>3. window \in [Windows -> Window]
    BY DEF IInv, TypeOK
  <2>4. window' = [window EXCEPT ![w] = W]
    BY <2>1, <2>3 DEF Window
  <2>5. state' = [state EXCEPT ![g] = T]
    BY <2>2
  <2> QED BY <2>4, <2>5
<1>3. s \in SessionIDs /\ window[w] \in Window
  BY LifecycleAssumption DEF IInv, TypeOK
<1>4. g # 0
  BY <1>1 DEF IInv, WindowsInShape
<1>5. g \in Generations /\ state[g] \in SessionState
  BY <1>3, <1>4 DEF IInv, TypeOK, Window, Joined
<1>6. r \in Record /\ r.form = Raw
  BY <1>3 DEF RawRecord, Record, Window
<1>7. /\ W \in Window /\ W.joined = window[w].joined /\ W.live = window[w].live
      /\ W.replayed = re /\ W.contents = window[w].contents
      /\ W.overlapped = window[w].overlapped /\ W.open = window[w].open
      /\ W.checked = window[w].checked
  <2>1. re \in SUBSET Parts /\ fo \in [Parts -> Forms \cup {Raw}]
    BY <1>3 DEF Window
  <2> HIDE DEF re, fo
  <2> QED BY <1>3, <2>1 DEF Window
<1>8. F \in SessionState /\ F.parts = state[g].parts
      /\ F.count = NonNegative(state[g].count - Cardinality(ChangedOf(state[g], {p})))
      /\ F.chars = NonNegative(state[g].chars - CharsOf(state[g], {p}))
      /\ F.openWindows = state[g].openWindows
      /\ F.conflictVersion = state[g].conflictVersion
  <2> DEFINE R == state[g]
             ct == NonNegative(R.count - Cardinality(ChangedOf(R, {p})))
             ch == NonNegative(R.chars - CharsOf(R, {p}))
  <2>1. F = [R EXCEPT !.chars = ch, !.count = ct]
    BY <1>5 DEF Forget, SessionState
  <2>2. ct \in Nat /\ ch \in Nat
    <3>1. Cardinality(ChangedOf(R, {p})) \in Nat /\ CharsOf(R, {p}) \in Nat
      <4> DEFINE f == WeightOf(R, {p})
      <4>1. f \in [Parts -> Nat] /\ CharsOf(R, {p}) = Total(f)
            /\ Cardinality(ChangedOf(R, {p})) \in Nat
        BY Weights
      <4> HIDE DEF f
      <4>2. Total(f) \in Nat
        <5> DEFINE z == [i \in Parts |-> f[i] + f[i]]
        <5>1. z \in [Parts -> Nat] /\ \A i \in Parts : z[i] = f[i] + f[i]
          BY <4>1
        <5> HIDE DEF z
        <5> QED BY <4>1, <5>1, TotalAdds
      <4> QED BY <4>1, <4>2
    <3>2. R.count \in Nat /\ R.chars \in Nat
      BY <1>5 DEF SessionState
    <3> HIDE DEF R
    <3>3. ct \in Nat
      BY <3>1, <3>2 DEF NonNegative
    <3>4. ch \in Nat
      BY <3>1, <3>2 DEF NonNegative
    <3> QED BY <3>3, <3>4
  <2>3. R \in SessionState
    BY <1>5
  <2> HIDE DEF F, R, ct, ch
  <2>4. F \in SessionState
    BY <2>1, <2>2, <2>3 DEF SessionState
  <2>5. /\ F.parts = R.parts /\ F.count = ct /\ F.chars = ch
        /\ F.openWindows = R.openWindows /\ F.conflictVersion = R.conflictVersion
    BY <2>1, <2>3 DEF SessionState
  <2> QED BY <2>4, <2>5 DEF R, ct, ch
<1> HIDE DEF F
<1>9. /\ S \in SessionState /\ S.parts = state[g].parts
      /\ S.openWindows = state[g].openWindows /\ S.conflictVersion = state[g].conflictVersion
      /\ Current(w, p) => S = F
  BY <1>5, <1>8
<1> HIDE DEF S, r
<1>10. /\ T \in SessionState /\ T.parts = ps /\ T.openWindows = S.openWindows
       /\ T.conflictVersion = S.conflictVersion /\ T.count = S.count /\ T.chars = S.chars
  <2>1. ps \in [Parts -> Record \cup {Unknown}]
    BY <1>6, <1>9 DEF SessionState
  <2> HIDE DEF ps
  <2> QED BY <1>9, <2>1 DEF SessionState
<1>11. ps[p] = r /\ \A i \in Parts : i # p => ps[i] = state[g].parts[i]
  BY <1>9 DEF SessionState
<1> HIDE DEF T, ps, W, re, fo
<1>12. /\ window' \in [Windows -> Window] /\ window'[w] = W
       /\ \A v \in Windows : v # w => window'[v] = window[v]
  BY <1>2, <1>7 DEF IInv, TypeOK
<1>13. /\ state' \in [Generations -> SessionState] /\ state'[g] = T
       /\ \A h \in Generations : h # g => state'[h] = state[h]
  <2>1. state \in [Generations -> SessionState]
    BY DEF IInv, TypeOK
  <2> HIDE DEF g
  <2> QED BY <1>2, <1>5, <1>10, <2>1
<1>14. \A v \in Windows : /\ window'[v].joined = window[v].joined
                          /\ window'[v].live = window[v].live
                          /\ window'[v].overlapped = window[v].overlapped
                          /\ window'[v].open = window[v].open
                          /\ window'[v].contents = window[v].contents
                          /\ window'[v].checked = window[v].checked
                          /\ window'[v].replayed \subseteq window[v].replayed
                          /\ ~window[v].open => window'[v] = window[v]
  BY <1>1, <1>7, <1>12 DEF re
<1>15. g \in Referenced(generation, window)
  BY <1>3 DEF Referenced, Joined
<1>16. \A h \in Generations, i \in Parts :
         state[h].parts[i].form = Raw => state'[h].parts[i].form = Raw
  BY <1>6, <1>10, <1>11, <1>13
<1>17. \A h \in Generations : /\ state'[h].openWindows = state[h].openWindows
                              /\ state'[h].conflictVersion = state[h].conflictVersion
  BY <1>9, <1>10, <1>13
<1>18. OneOwner' /\ UnreferencedFresh' /\ OpenWindowsAccounted' /\ LiveRecordedRaw'
       /\ OverlapIsStale'
  BY <1>1, <1>13, <1>14, <1>15, <1>16, <1>17, QuietStep
<1>19. TypeOK'
  <2>1. (\A v \in Windows :
           /\ window[v].live \cap window[v].replayed = {}
           /\ window[v].live \cup window[v].replayed \subseteq window[v].contents
           /\ window[v].checked \subseteq window[v].live)'
    BY <1>14 DEF IInv, TypeOK
  <2> QED BY <1>1, <1>12, <1>13, <2>1 DEF IInv, TypeOK, Tracked, KeysOf, InOrder
<1>20. TrackedAccounted'
  <2> SUFFICES ASSUME NEW i \in Tracked PROVE Accounted(state'[generation[i]])
    BY <1>1 DEF TrackedAccounted, Tracked, KeysOf
  <2>1. i \in SessionIDs /\ generation[i] \in Generations /\ Accounted(state[generation[i]])
    BY DEF IInv, TypeOK, TrackedAccounted, Tracked, KeysOf
  <2>2. CASE generation[i] # g
    BY <1>13, <2>1, <2>2
  <2>3. CASE generation[i] = g
    <3>1. i = s
      BY <1>3, <1>5, <2>1, <2>3 DEF IInv, OneOwner, OneOwnerIn, RefersIn, Joined
    <3>2. Current(w, p)
      BY <1>4, <2>3, <3>1 DEF Current
    <3>3. T.count = NonNegative(state[g].count - Cardinality(ChangedOf(state[g], {p})))
          /\ T.chars = NonNegative(state[g].chars - CharsOf(state[g], {p}))
      BY <1>8, <1>9, <1>10, <3>2
    <3>4. \A x \in {p} : ~Changed(T.parts[x])
      BY <1>6, <1>10, <1>11, LifecycleAssumption DEF Changed
    <3>5. \A x \in Parts \ {p} : /\ Changed(T.parts[x]) <=> Changed(state[g].parts[x])
                                 /\ Changed(state[g].parts[x])
                                      => T.parts[x].form = state[g].parts[x].form
      BY <1>10, <1>11 DEF Changed
    <3> DEFINE R == state[g]
               P == {p}
    <3>6. Accounted(R) /\ P \in SUBSET Parts
      BY <2>1, <2>3
    <3>7. Accounted(T)
      <4>1. /\ T.count = NonNegative(R.count - Cardinality(ChangedOf(R, P)))
            /\ T.chars = NonNegative(R.chars - CharsOf(R, P))
            /\ \A x \in P : ~Changed(T.parts[x])
            /\ \A x \in Parts \ P : /\ Changed(T.parts[x]) <=> Changed(R.parts[x])
                                    /\ Changed(R.parts[x])
                                         => T.parts[x].form = R.parts[x].form
        BY <3>3, <3>4, <3>5
      <4> HIDE DEF R, P
      <4> QED BY <3>6, <4>1, ForgottenAccounted
    <3> QED BY <1>13, <2>3, <3>7
  <2> QED BY <2>2, <2>3
<1>21. WindowsInShape'
  <2> SUFFICES ASSUME NEW v \in Windows
               PROVE  /\ ~window'[v].open => window'[v] = Closed
                      /\ \A i \in SessionIDs :
                           LET j == window'[v].joined[i]
                           IN  /\ j.generation = 0 => j = NotJoined
                               /\ j.generation # 0
                                    => j.conflictVersion <= state'[j.generation].conflictVersion
                      /\ \A x \in window'[v].replayed : Joined(v, x)'.generation # 0
    BY DEF WindowsInShape
  <2>1. ~window'[v].open => window'[v] = Closed
    BY <1>14 DEF IInv, WindowsInShape
  <2>2. ASSUME NEW i \in SessionIDs
        PROVE  LET j == window'[v].joined[i]
               IN  /\ j.generation = 0 => j = NotJoined
                   /\ j.generation # 0
                        => j.conflictVersion <= state'[j.generation].conflictVersion
    <3> DEFINE j == window[v].joined[i]
    <3>1. /\ j.generation = 0 => j = NotJoined
          /\ j.generation # 0 => j.conflictVersion <= state[j.generation].conflictVersion
          /\ j.generation \in Generations \cup {0}
      BY DEF IInv, TypeOK, Window, WindowsInShape
    <3>2. window'[v].joined[i] = j
      BY <1>14
    <3> HIDE DEF j
    <3> QED BY <1>17, <3>1, <3>2
  <2>3. ASSUME NEW x \in window'[v].replayed PROVE Joined(v, x)'.generation # 0
    BY <1>14, <2>3 DEF IInv, WindowsInShape, Joined
  <2> QED BY <2>1, <2>2, <2>3
<1> QED BY <1>18, <1>19, <1>20, <1>21 DEF IInv
-----------------------------------------------------------------------------
(* Closing a window, once its outputs and the objects are settled.         *)
LEMMA CloseKeeps ==
  ASSUME IInv, NEW w \in Windows, NEW st \in [Generations -> SessionState],
         NEW form \in [Parts -> Forms \cup {Raw}], Close(w, st, form),
         \A g \in Generations : /\ st[g].openWindows = state[g].openWindows
                                /\ st[g].conflictVersion = state[g].conflictVersion,
         \A s \in Tracked : Accounted(st[generation[s]]),
         \A v \in Windows \ {w} : \A p \in window[v].live :
           st[Joined(v, p).generation].parts[p].form = Raw
  PROVE  /\ IInv'
         /\ \A g \in Generations, p \in Parts :
              st[g].parts[p].form = Raw => ~Changed(state'[g].parts[p])
         /\ generation' = generation
<1> DEFINE window2 == [window EXCEPT ![w] = Closed]
           left == [g \in Generations |->
                      IF g \in JoinedObjects(w)
                      THEN [st[g] EXCEPT !.openWindows = NonNegative(@ - 1)] ELSE st[g]]
<1>1. /\ window' = window2 /\ state' = Collected(generation, window2, left)
      /\ Send(window[w].contents, window[w].version, form)
      /\ mapOrder' = mapOrder /\ generation' = generation /\ hostVersion' = hostVersion
  BY Zenon DEF Close
<1>2. Closed \in Window
  <2>1. NotJoined \in [generation : Generations \cup {0}, conflictVersion : Nat]
    BY DEF NotJoined
  <2>2. [s \in SessionIDs |-> NotJoined]
          \in [SessionIDs -> [generation : Generations \cup {0}, conflictVersion : Nat]]
    BY <2>1
  <2>3. /\ [p \in Parts |-> 0] \in [Parts -> Nat]
        /\ [p \in Parts |-> Raw] \in [Parts -> Forms \cup {Raw}]
    OBVIOUS
  <2> DEFINE jo == [s \in SessionIDs |-> NotJoined]
             ve == [p \in Parts |-> 0]
             fo == [p \in Parts |-> Raw]
  <2>4. Closed = [open |-> FALSE, joined |-> jo, contents |-> {}, live |-> {}, checked |-> {},
                  replayed |-> {}, version |-> ve, form |-> fo, overlapped |-> {}]
    BY DEF Closed
  <2>5. /\ jo \in [SessionIDs -> [generation : Generations \cup {0}, conflictVersion : Nat]]
        /\ ve \in [Parts -> Nat] /\ fo \in [Parts -> Forms \cup {Raw}]
    BY <2>2, <2>3
  <2> HIDE DEF jo, ve, fo
  <2> QED BY <2>4, <2>5 DEF Window
<1>3. /\ window \in [Windows -> Window] /\ generation \in [SessionIDs -> Generations \cup {0}]
      /\ state \in [Generations -> SessionState]
  BY DEF IInv, TypeOK
<1>4. /\ window' \in [Windows -> Window] /\ window'[w] = Closed
      /\ \A v \in Windows : v # w => window'[v] = window[v]
  BY <1>1, <1>2, <1>3
<1>5. /\ \A s \in SessionIDs : Closed.joined[s] = NotJoined
      /\ NotJoined.generation = 0 /\ Closed.live = {} /\ Closed.replayed = {}
      /\ Closed.checked = {} /\ Closed.contents = {} /\ Closed.overlapped = {}
      /\ Closed.open = FALSE
  BY DEF Closed, NotJoined
<1>6. ASSUME NEW g \in Generations
      PROVE  /\ left[g] \in SessionState /\ left[g].parts = st[g].parts
             /\ left[g].count = st[g].count /\ left[g].chars = st[g].chars
             /\ left[g].conflictVersion = state[g].conflictVersion
             /\ left[g].openWindows = IF g \in JoinedObjects(w)
                                      THEN NonNegative(state[g].openWindows - 1)
                                      ELSE state[g].openWindows
  <2> DEFINE S == st[g]
             o == NonNegative(S.openWindows - 1)
  <2>1. S \in SessionState
    OBVIOUS
  <2>2. o \in Nat
    BY <2>1 DEF SessionState, NonNegative
  <2>3. left[g] = IF g \in JoinedObjects(w) THEN [S EXCEPT !.openWindows = o] ELSE S
    OBVIOUS
  <2>4. S.conflictVersion = state[g].conflictVersion /\ S.openWindows = state[g].openWindows
    OBVIOUS
  <2>5. o = NonNegative(state[g].openWindows - 1)
    BY <2>4
  <2> HIDE DEF S, o, left
  <2>6. CASE g \in JoinedObjects(w)
    <3>1. left[g] = [S EXCEPT !.openWindows = o]
      BY <2>3, <2>6
    <3>2. left[g] \in SessionState
      BY <2>1, <2>2, <3>1 DEF SessionState
    <3>3. /\ left[g].parts = S.parts /\ left[g].count = S.count /\ left[g].chars = S.chars
          /\ left[g].conflictVersion = S.conflictVersion /\ left[g].openWindows = o
      BY <2>1, <3>1 DEF SessionState
    <3> QED BY <2>4, <2>5, <2>6, <3>2, <3>3 DEF S
  <2>7. CASE g \notin JoinedObjects(w)
    BY <2>1, <2>3, <2>4, <2>7 DEF S
  <2> QED BY <2>6, <2>7
<1> HIDE DEF left
<1>7. \A g \in Generations :
        state'[g] = IF g \in Referenced(generation, window2) THEN left[g] ELSE Fresh
  <2> HIDE DEF window2
  <2> QED BY <1>1 DEF Collected
<1>8. state' \in [Generations -> SessionState]
  <2> HIDE DEF window2
  <2>1. state' = [g \in Generations |->
                    IF g \in Referenced(generation, window2) THEN left[g] ELSE Fresh]
    BY <1>1 DEF Collected
  <2> QED BY <1>6, <2>1, FreshAccounted
<1>9. /\ \A s \in SessionIDs : generation[s] \in Referenced(generation, window2)
      /\ \A v \in Windows, s \in SessionIDs :
           window'[v].joined[s].generation \in Referenced(generation, window2)
  BY <1>1 DEF Referenced
<1> HIDE DEF window2
<1>10. ASSUME NEW g \in Generations, NEW p \in Parts, st[g].parts[p].form = Raw
       PROVE  ~Changed(state'[g].parts[p])
  <2>1. ~Changed(Fresh.parts[p])
    BY LifecycleAssumption DEF Fresh, Unknown, Changed
  <2>2. ~Changed(left[g].parts[p])
    BY <1>6, <1>10, LifecycleAssumption DEF Changed
  <2> QED BY <1>7, <2>1, <2>2
<1>11. TypeOK'
  <2>1. (\A v \in Windows :
           /\ window[v].live \cap window[v].replayed = {}
           /\ window[v].live \cup window[v].replayed \subseteq window[v].contents
           /\ window[v].checked \subseteq window[v].live)'
    BY <1>4, <1>5 DEF IInv, TypeOK
  <2>2. {firstSent, lastSent}' \subseteq [Parts -> Forms \cup {Raw, NotSent}]
    <3> DEFINE now == {p \in window[w].contents : window[w].version[p] = hostVersion[p]}
    <3>1. /\ firstSent' = [p \in Parts |-> IF p \in now /\ firstSent[p] = NotSent
                                           THEN form[p] ELSE firstSent[p]]
          /\ lastSent' = [p \in Parts |-> IF p \in now THEN form[p] ELSE lastSent[p]]
      BY <1>1, Zenon DEF Send
    <3>2. /\ firstSent \in [Parts -> Forms \cup {Raw, NotSent}]
          /\ lastSent \in [Parts -> Forms \cup {Raw, NotSent}]
      BY DEF IInv, TypeOK
    <3> HIDE DEF now
    <3>3. firstSent' \in [Parts -> Forms \cup {Raw, NotSent}]
      BY <3>1, <3>2
    <3>4. lastSent' \in [Parts -> Forms \cup {Raw, NotSent}]
      BY <3>1, <3>2
    <3> QED BY <3>3, <3>4
  <2> QED BY <1>1, <1>4, <1>8, <2>1, <2>2 DEF IInv, TypeOK, Tracked, KeysOf, InOrder
<1>12. OneOwner'
  <2> SUFFICES ASSUME NEW g \in Generations, NEW s \in SessionIDs, NEW i \in SessionIDs,
                      RefersIn(generation, s, g)', RefersIn(generation, i, g)'
               PROVE  s = i
    BY DEF OneOwner, OneOwnerIn
  <2>1. g # 0
    BY Finite
  <2>2. \A x \in SessionIDs : RefersIn(generation, x, g)' => RefersIn(generation, x, g)
    BY <1>1, <1>4, <1>5, <2>1 DEF RefersIn
  <2> QED BY <2>2 DEF IInv, OneOwner, OneOwnerIn
<1>13. UnreferencedFresh'
  <2>1. Referenced(generation, window)' = Referenced(generation, window2)
    BY <1>1
  <2> QED BY <1>7, <2>1 DEF UnreferencedFresh
<1>14. TrackedAccounted'
  <2> SUFFICES ASSUME NEW s \in Tracked PROVE Accounted(state'[generation[s]])
    BY <1>1 DEF TrackedAccounted, Tracked, KeysOf
  <2> DEFINE g == generation[s]
  <2>1. s \in SessionIDs /\ g \in Generations
    BY <1>3 DEF Tracked, KeysOf
  <2>2. state'[g] = left[g]
    BY <1>7, <1>9, <2>1
  <2>3. Accounted(st[g])
    OBVIOUS
  <2> HIDE DEF g
  <2>4. Accounted(left[g])
    BY <1>6, <2>1, <2>3, SameAccounted
  <2> QED BY <2>2, <2>4 DEF g
<1>15. OpenWindowsAccounted'
  <2> DEFINE After(g) == {v \in Windows : \E s \in SessionIDs :
                             window'[v].joined[s].generation = g}
  <2> SUFFICES ASSUME NEW g \in Generations
               PROVE  state'[g].openWindows = Cardinality(After(g))
    BY DEF OpenWindowsAccounted
  <2>1. g # 0 /\ IsFiniteSet(Joiners(g)) /\ Cardinality(Joiners(g)) \in Nat
    BY Finite
  <2>2. state[g].openWindows = Cardinality(Joiners(g))
    BY DEF IInv, OpenWindowsAccounted, Joiners
  <2>3. After(g) = Joiners(g) \ {w}
    BY <1>4, <1>5, <2>1 DEF Joiners
  <2>4. g \in JoinedObjects(w) <=> w \in Joiners(g)
    BY <2>1 DEF JoinedObjects, Joiners
  <2> HIDE DEF After
  <2>5. CASE g \notin Referenced(generation, window2)
    <3>1. After(g) = {}
      BY <1>9, <2>5 DEF After
    <3>2. state'[g].openWindows = 0
      BY <1>7, <2>5 DEF Fresh
    <3> QED BY <3>1, <3>2, FS_EmptySet
  <2>6. CASE g \in Referenced(generation, window2)
    <3>1. state'[g].openWindows = left[g].openWindows
      BY <1>7, <2>6
    <3>2. CASE w \in Joiners(g)
      <4>1. Cardinality(Joiners(g) \ {w}) = Cardinality(Joiners(g)) - 1
            /\ Cardinality(Joiners(g)) # 0
        BY <2>1, <3>2, FS_RemoveElement, FS_EmptySet
      <4>2. left[g].openWindows = NonNegative(state[g].openWindows - 1)
        BY <1>6, <2>4, <3>2
      <4>3. NonNegative(Cardinality(Joiners(g)) - 1) = Cardinality(Joiners(g)) - 1
        BY <2>1, <4>1 DEF NonNegative
      <4> QED BY <2>2, <2>3, <3>1, <4>1, <4>2, <4>3
    <3>3. CASE w \notin Joiners(g)
      <4>1. Joiners(g) \ {w} = Joiners(g)
        BY <3>3
      <4> QED BY <1>6, <2>2, <2>3, <2>4, <3>1, <3>3, <4>1
    <3> QED BY <3>2, <3>3
  <2> QED BY <2>5, <2>6
<1>16. ASSUME NEW v \in Windows, v # w, NEW i \in SessionIDs, window[v].joined[i].generation # 0
       PROVE  LET g == window[v].joined[i].generation
              IN  /\ g \in Generations /\ state'[g] = left[g]
                  /\ state'[g].conflictVersion = state[g].conflictVersion
  <2>1. window[v].joined[i].generation \in Generations
    BY <1>3, <1>16 DEF Window
  <2>2. window[v].joined[i].generation \in Referenced(generation, window2)
    BY <1>4, <1>9, <1>16
  <2> QED BY <1>6, <1>7, <2>1, <2>2
<1>17. WindowsInShape'
  <2> SUFFICES ASSUME NEW v \in Windows
               PROVE  /\ ~window'[v].open => window'[v] = Closed
                      /\ \A i \in SessionIDs :
                           LET j == window'[v].joined[i]
                           IN  /\ j.generation = 0 => j = NotJoined
                               /\ j.generation # 0
                                    => j.conflictVersion <= state'[j.generation].conflictVersion
                      /\ \A x \in window'[v].replayed :
                           window'[v].joined[SessionOf[x]].generation # 0
    BY DEF WindowsInShape, Joined
  <2>1. CASE v = w
    BY <1>4, <1>5, <2>1
  <2>2. CASE v # w
    <3>1. ~window[v].open => window[v] = Closed
      BY DEF IInv, WindowsInShape
    <3>2. ASSUME NEW i \in SessionIDs
          PROVE  LET j == window[v].joined[i]
                 IN  /\ j.generation = 0 => j = NotJoined
                     /\ j.generation # 0
                          => j.conflictVersion <= state'[j.generation].conflictVersion
      <4> DEFINE j == window[v].joined[i]
      <4>1. /\ j.generation = 0 => j = NotJoined
            /\ j.generation # 0 => j.conflictVersion <= state[j.generation].conflictVersion
        BY DEF IInv, WindowsInShape
      <4>2. j.generation # 0
              => state'[j.generation].conflictVersion = state[j.generation].conflictVersion
        BY <1>16, <2>2
      <4> HIDE DEF j
      <4>3. /\ j.generation = 0 => j = NotJoined
            /\ j.generation # 0 => j.conflictVersion <= state'[j.generation].conflictVersion
        BY <4>1, <4>2
      <4> QED BY <4>3 DEF j
    <3>3. \A x \in window[v].replayed : window[v].joined[SessionOf[x]].generation # 0
      BY DEF IInv, WindowsInShape, Joined
    <3>4. window'[v] = window[v]
      BY <1>4, <2>2
    <3> QED BY <3>1, <3>2, <3>3, <3>4
  <2> QED BY <2>1, <2>2
<1>18. ASSUME NEW v \in Windows, v # w, NEW p \in window[v].live
       PROVE  LET g == window[v].joined[SessionOf[p]].generation
              IN  /\ g # 0 /\ state'[g].conflictVersion = state[g].conflictVersion
                  /\ state'[g].parts[p].form = Raw
  <2>1. p \in Parts /\ SessionOf[p] \in SessionIDs
    BY <1>3, LifecycleAssumption DEF Window
  <2>2. window[v].joined[SessionOf[p]].generation # 0
    BY DEF IInv, LiveRecordedRaw, Joined
  <2> DEFINE g == window[v].joined[SessionOf[p]].generation
  <2>3. st[g].parts[p].form = Raw
    BY <1>18 DEF Joined
  <2>4. /\ g \in Generations /\ state'[g] = left[g]
        /\ state'[g].conflictVersion = state[g].conflictVersion
    BY <1>16, <1>18, <2>1, <2>2
  <2> HIDE DEF g
  <2>5. state'[g].parts[p].form = Raw
    BY <1>6, <2>3, <2>4
  <2> QED BY <2>2, <2>4, <2>5 DEF g
<1>19. LiveRecordedRaw'
  <2> SUFFICES ASSUME NEW v \in Windows, NEW p \in window'[v].live
               PROVE  LET g == window'[v].joined[SessionOf[p]].generation
                      IN  /\ g # 0
                          /\ state'[g].parts[p].form = Raw
                          /\ \A u \in Windows \ {v} :
                               p \in window'[u].live
                                 => window'[u].joined[SessionOf[p]].generation # g
    BY DEF LiveRecordedRaw, Joined
  <2>1. \A u \in Windows : p \in window'[u].live => u # w /\ window'[u] = window[u]
    BY <1>4, <1>5
  <2>2. \A u \in Windows \ {v} : p \in window[u].live /\ p \in window[v].live
          => window[u].joined[SessionOf[p]].generation # window[v].joined[SessionOf[p]].generation
    BY LiveApart
  <2> QED BY <1>18, <2>1, <2>2
<1>20. OverlapIsStale'
  <2> SUFFICES ASSUME NEW v \in Windows, NEW p \in window'[v].live,
                      SessionOf[p] \in window'[v].overlapped
               PROVE  window'[v].joined[SessionOf[p]].conflictVersion
                        < state'[window'[v].joined[SessionOf[p]].generation].conflictVersion
    BY DEF OverlapIsStale, Joined
  <2>1. v # w /\ window'[v] = window[v]
    BY <1>4, <1>5
  <2>2. window[v].joined[SessionOf[p]].conflictVersion
          < state[window[v].joined[SessionOf[p]].generation].conflictVersion
    BY <2>1 DEF IInv, OverlapIsStale, Joined
  <2> QED BY Zenon, <1>18, <2>1, <2>2
<1> QED
  BY <1>1, <1>10, <1>11, <1>12, <1>13, <1>14, <1>15, <1>17, <1>19, <1>20 DEF IInv
-----------------------------------------------------------------------------
(* The outputs c.form and the objects c.state after commit has settled the *)
(* first n parts of the window: what it records of a part is what it sends *)
(* (RecordsSent), which is raw when the window is stale.                   *)
RecordsSent(w, n, c) ==
  /\ \A g \in Generations : c.state[g].saturated = state[g].saturated
  /\ \A p \in Parts \ window[w].live : c.form[p] = window[w].form[p]
  /\ \A p \in window[w].live :
       p <= n => c.state[Joined(w, p).generation].parts[p]
                   = [version |-> window[w].version[p], form |-> c.form[p]]
Settled(w, n, c) ==
  /\ c.state \in [Generations -> SessionState]
  /\ c.form \in [Parts -> Forms \cup {Raw}]
  /\ \A g \in Generations : /\ c.state[g].openWindows = state[g].openWindows
                            /\ c.state[g].conflictVersion = state[g].conflictVersion
  /\ \A s \in Tracked : Accounted(c.state[generation[s]])
  /\ \A g \in Generations, p \in Parts :
       (p > n \/ p \notin window[w].live \/ Joined(w, p).generation # g)
         => c.state[g].parts[p] = state[g].parts[p]
  /\ \A p \in window[w].live :
       p <= n /\ ~LiveIsCurrent(w, p) => c.state[Joined(w, p).generation].parts[p].form = Raw
  /\ RecordsSent(w, n, c)

(* commit settles one part.                                                *)
LEMMA RetainKeeps ==
  ASSUME IInv, NEW w \in Windows, NEW n \in Nat, NEW c, Settled(w, n, c),
         n + 1 \in window[w].live
  PROVE  Settled(w, n + 1, Retain(w, c, n + 1))
<1> DEFINE p == n + 1
           g == Joined(w, p).generation
           f == window[w].form[p]
           S == c.state[g]
           fit == LiveIsCurrent(w, p) /\ Fits(S, f)
           sent == IF fit THEN f ELSE Raw
           r == [version |-> window[w].version[p], form |-> sent]
           ps == [S.parts EXCEPT ![p] = r]
           ch == S.chars + Length(sent)
           ct == IF sent = Raw THEN S.count ELSE S.count + 1
           T == [S EXCEPT !.parts = ps, !.chars = ch, !.count = ct]
           d == Retain(w, c, p)
<1>1. /\ window[w] \in Window /\ p \in Parts /\ p \in Nat /\ p > n
      /\ SessionOf[p] \in SessionIDs /\ p \in window[w].live
  <2>1. window[w] \in Window
    BY DEF IInv, TypeOK
  <2>2. p \in Parts
    BY <2>1 DEF Window
  <2>3. p \in Nat /\ p > n
    OBVIOUS
  <2>4. SessionOf[p] \in SessionIDs
    BY <2>2, LifecycleAssumption
  <2>5. p \in window[w].live
    OBVIOUS
  <2> QED BY <2>1, <2>2, <2>3, <2>4, <2>5
<1>2. g \in Generations /\ state[g].parts[p].form = Raw
  <2>1. g # 0 /\ state[g].parts[p].form = Raw
    BY <1>1 DEF IInv, LiveRecordedRaw
  <2> QED BY <1>1, <2>1 DEF Joined, Window
<1>3. S \in SessionState /\ S.parts[p].form = Raw
  <2>1. S.parts[p] = state[g].parts[p]
    BY <1>1, <1>2 DEF Settled
  <2> QED BY <1>2, <2>1 DEF Settled
<1>4. f \in Forms \cup {Raw} /\ sent \in Forms \cup {Raw}
  BY <1>1 DEF Window
<1>5. d = [form |-> [c.form EXCEPT ![p] = sent], state |-> [c.state EXCEPT ![g] = T]]
  BY Zenon DEF Retain
<1>6. sent # Raw => sent \in Forms /\ Length(sent) = Chars[sent] /\ ch <= MaxChars
                    /\ LiveIsCurrent(w, p)
  <2> SUFFICES ASSUME sent # Raw
               PROVE  sent \in Forms /\ Length(sent) = Chars[sent] /\ ch <= MaxChars
                      /\ LiveIsCurrent(w, p)
    OBVIOUS
  <2>1. fit /\ sent = f
    OBVIOUS
  <2>2. LiveIsCurrent(w, p) /\ S.chars + Length(f) <= MaxChars
    BY <2>1, Zenon DEF Fits
  <2> HIDE DEF f, S, fit
  <2>3. Length(sent) = Chars[sent]
    BY Zenon DEF Length
  <2>4. sent \in Forms
    <3> HIDE DEF sent
    <3> QED BY <1>4
  <2>5. ch <= MaxChars
    <3> HIDE DEF sent
    <3> QED BY <2>1, <2>2
  <2> QED BY <2>2, <2>3, <2>4, <2>5
<1>7. sent = Raw => Length(sent) = 0
  BY DEF Length
<1> HIDE DEF sent
<1>8. Length(sent) \in Nat
  <2>1. CASE sent = Raw
    BY <1>7, <2>1
  <2>2. CASE sent # Raw
    <3>1. sent \in Forms /\ Length(sent) = Chars[sent]
      BY <1>6, <2>2
    <3>2. Chars \in [Forms -> Nat]
      BY LifecycleAssumption
    <3>3. Chars[sent] \in Nat
      BY <3>1, <3>2
    <3> QED BY <3>1, <3>3
  <2> QED BY <2>1, <2>2
<1>9. /\ T \in SessionState /\ T.parts = ps /\ T.chars = ch /\ T.count = ct
      /\ T.openWindows = S.openWindows /\ T.conflictVersion = S.conflictVersion
      /\ T.saturated = S.saturated
  <2>1. S.chars \in Nat /\ S.count \in Nat /\ S.parts \in [Parts -> Record \cup {Unknown}]
    BY <1>3 DEF SessionState
  <2>2. r \in Record
    BY <1>1, <1>4 DEF Record, Window
  <2> HIDE DEF r, S
  <2>3. ps \in [Parts -> Record \cup {Unknown}]
    BY <1>1, <2>1, <2>2
  <2>4. ch \in Nat /\ ct \in Nat
    BY <1>8, <2>1
  <2> HIDE DEF ps, ch, ct
  <2> QED BY <1>3, <2>3, <2>4 DEF SessionState
<1>10. /\ ps[p].form = sent /\ \A i \in Parts : i # p => ps[i] = S.parts[i]
       /\ ps[p] = [version |-> window[w].version[p], form |-> sent]
  <2>1. S.parts \in [Parts -> Record \cup {Unknown}]
    BY <1>3 DEF SessionState
  <2> HIDE DEF S
  <2> QED BY <1>1, <2>1
<1>11. Accounted(S) => Accounted(T)
  <2> SUFFICES ASSUME Accounted(S) PROVE Accounted(T)
    OBVIOUS
  <2>1. ~Changed(S.parts[p])
    BY <1>3, LifecycleAssumption DEF Changed
  <2>2. \A i \in Parts \ {p} : T.parts[i] = S.parts[i]
    BY <1>9, <1>10
  <2>3. T.parts[p].form = sent
    BY <1>9, <1>10
  <2>4. T.chars = S.chars + Length(sent)
        /\ T.count = IF sent = Raw THEN S.count ELSE S.count + 1
    BY <1>9
  <2>5. S.chars \in Nat
    BY <1>3 DEF SessionState
  <2> DEFINE x == p
  <2>6. x \in Parts /\ x = p
    BY <1>1
  <2>7. CASE sent = Raw
    <3>1. T.chars = S.chars /\ T.count = S.count
      BY <1>7, <2>4, <2>5, <2>7
    <3>2. ~Changed(T.parts[p])
      BY <2>3, <2>7, LifecycleAssumption DEF Changed
    <3>3. \A i \in Parts : /\ Changed(T.parts[i]) <=> Changed(S.parts[i])
                           /\ Changed(S.parts[i]) => T.parts[i].form = S.parts[i].form
      BY <2>1, <2>2, <3>2
    <3> HIDE DEF T, S
    <3> QED BY <3>1, <3>3, SameAccounted
  <2>8. CASE sent # Raw
    <3>1. sent \in Forms /\ T.chars = S.chars + Chars[sent] /\ T.count = S.count + 1
          /\ T.chars <= MaxChars
      BY <1>6, <1>9, <2>4, <2>8
    <3> HIDE DEF T, S, p
    <3> QED BY <2>1, <2>2, <2>3, <2>6, <3>1, RetainedAccounted
  <2> QED BY <2>7, <2>8
<1> HIDE DEF T, ps, ch, ct, r
<1>12. /\ d.form \in [Parts -> Forms \cup {Raw}] /\ d.state \in [Generations -> SessionState]
       /\ d.state[g] = T /\ \A h \in Generations : h # g => d.state[h] = c.state[h]
       /\ d.form[p] = sent /\ \A i \in Parts : i # p => d.form[i] = c.form[i]
  <2>1. c.form \in [Parts -> Forms \cup {Raw}] /\ c.state \in [Generations -> SessionState]
    BY DEF Settled
  <2>2. d.form = [c.form EXCEPT ![p] = sent] /\ d.state = [c.state EXCEPT ![g] = T]
    BY <1>5
  <2> HIDE DEF d, g, p
  <2> QED BY <1>1, <1>2, <1>4, <1>9, <2>1, <2>2
<1>13. \A h \in Generations : /\ d.state[h].openWindows = state[h].openWindows
                              /\ d.state[h].conflictVersion = state[h].conflictVersion
  BY <1>2, <1>9, <1>12 DEF Settled
<1>14. ASSUME NEW s \in Tracked PROVE Accounted(d.state[generation[s]])
  <2>1. generation[s] \in Generations
    BY DEF IInv, TypeOK, Tracked, KeysOf
  <2>2. Accounted(c.state[generation[s]])
    BY DEF Settled
  <2>3. CASE generation[s] = g
    BY <1>11, <1>12, <2>2, <2>3
  <2>4. CASE generation[s] # g
    BY <1>12, <2>1, <2>2, <2>4
  <2> QED BY <2>3, <2>4
<1>15. ASSUME NEW h \in Generations, NEW i \in Parts,
              i > n + 1 \/ i \notin window[w].live \/ Joined(w, i).generation # h
       PROVE  d.state[h].parts[i] = state[h].parts[i]
  <2>1. i \in Nat
    BY PartsNumbered
  <2>2. i > n \/ i \notin window[w].live \/ Joined(w, i).generation # h
    BY <1>15, <2>1
  <2>3. c.state[h].parts[i] = state[h].parts[i]
    BY <2>2 DEF Settled
  <2>4. CASE h # g
    BY <1>12, <2>3, <2>4
  <2>5. CASE h = g
    <3>1. i # p
      <4>1. ~(p > n + 1)
        BY <1>1
      <4> QED BY <1>1, <1>15, <2>5, <4>1
    <3> QED BY <1>9, <1>10, <1>12, <2>3, <2>5, <3>1
  <2> QED BY <2>4, <2>5
<1>16. ASSUME NEW i \in window[w].live, i <= n + 1, ~LiveIsCurrent(w, i)
       PROVE  d.state[Joined(w, i).generation].parts[i].form = Raw
  <2>1. i \in Parts /\ i \in Nat
    BY <1>1, PartsNumbered DEF Window
  <2>2. CASE i = p
    <3>1. sent = Raw
      BY <1>6, <1>16, <2>2
    <3> QED BY <1>9, <1>10, <1>12, <2>2, <3>1
  <2>3. CASE i # p
    <3>1. i <= n
      BY <1>16, <2>1, <2>3
    <3>2. c.state[Joined(w, i).generation].parts[i].form = Raw
      BY <1>16, <3>1 DEF Settled
    <3>3. Joined(w, i).generation \in Generations
      <4>1. Joined(w, i).generation # 0
        BY DEF IInv, LiveRecordedRaw
      <4> QED BY <1>1, <2>1, <4>1, LifecycleAssumption DEF Joined, Window
    <3> QED BY <1>9, <1>10, <1>12, <2>1, <2>3, <3>2, <3>3
  <2> QED BY <2>2, <2>3
<1>17. \A h \in Generations : d.state[h].saturated = state[h].saturated
  <2>1. \A h \in Generations : c.state[h].saturated = state[h].saturated
    BY DEF Settled, RecordsSent
  <2> QED BY <1>2, <1>9, <1>12, <2>1
<1>18. ASSUME NEW i \in Parts \ window[w].live PROVE d.form[i] = window[w].form[i]
  <2>1. i # p /\ c.form[i] = window[w].form[i]
    BY <1>1 DEF Settled, RecordsSent
  <2> QED BY <1>12, <2>1
<1>19. ASSUME NEW i \in window[w].live, i <= n + 1
       PROVE  d.state[Joined(w, i).generation].parts[i]
                = [version |-> window[w].version[i], form |-> d.form[i]]
  <2>1. i \in Parts /\ i \in Nat
    BY <1>1, PartsNumbered DEF Window
  <2>2. CASE i = p
    BY <1>9, <1>10, <1>12, <2>2
  <2>3. CASE i # p
    <3>1. i <= n
      BY <1>19, <2>1, <2>3
    <3>2. c.state[Joined(w, i).generation].parts[i]
            = [version |-> window[w].version[i], form |-> c.form[i]]
      BY <3>1 DEF Settled, RecordsSent
    <3>3. Joined(w, i).generation \in Generations
      <4>1. Joined(w, i).generation # 0
        BY DEF IInv, LiveRecordedRaw
      <4> QED BY <1>1, <2>1, <4>1, LifecycleAssumption DEF Joined, Window
    <3> QED BY <1>9, <1>10, <1>12, <2>1, <2>3, <3>2, <3>3
  <2> QED BY <2>2, <2>3
<1> HIDE DEF d
<1>20. RecordsSent(w, n + 1, d)
  BY <1>17, <1>18, <1>19 DEF RecordsSent
<1> QED BY <1>12, <1>13, <1>14, <1>15, <1>16, <1>20 DEF Settled, d
-----------------------------------------------------------------------------
(* The recursive definition of Committed has a solution ...                *)
Commits(w, N, F) ==
  F = [n \in 0 .. N |->
         IF n = 0 THEN [form |-> window[w].form, state |-> state]
         ELSE IF n \in window[w].live THEN Retain(w, F[n - 1], n) ELSE F[n - 1]]

(* commit's loop over the parts of a window is defined.                    *)
LEMMA CommittedExists ==
  ASSUME NEW w, NEW N \in Nat
  PROVE  \E F : Commits(w, N, F)
<1> DEFINE start == [form |-> window[w].form, state |-> state]
           L == window[w].live
           Runs(F, m) ==
             F = [n \in 0 .. m |-> IF n = 0 THEN start
                                   ELSE IF n \in L THEN Retain(w, F[n - 1], n) ELSE F[n - 1]]
           T == {m \in Nat : \E F : Runs(F, m)}
<1> HIDE DEF start, L
<1>1. 0 \in T
  <2>1. Runs([n \in 0 .. 0 |-> start], 0)
    OBVIOUS
  <2> QED BY <2>1
<1>2. \A m \in T : m + 1 \in T
  <2> TAKE m \in T
  <2>1. PICK F : Runs(F, m)
    OBVIOUS
  <2> DEFINE last == IF m + 1 \in L THEN Retain(w, F[m], m + 1) ELSE F[m]
             G == [n \in 0 .. m + 1 |-> IF n <= m THEN F[n] ELSE last]
  <2>2. DOMAIN F = 0 .. m /\ m \in Nat
    BY <2>1
  <2>3. ASSUME NEW n \in 0 .. m + 1
        PROVE  G[n] = IF n = 0 THEN start
                      ELSE IF n \in L THEN Retain(w, G[n - 1], n) ELSE G[n - 1]
    <3>1. CASE n = 0
      BY <2>1, <2>2, <3>1
    <3>2. CASE n \in 1 .. m
      <4>1. n <= m /\ n - 1 \in 0 .. m /\ n - 1 <= m /\ n # 0 /\ n - 1 \in 0 .. m + 1 /\ n \in 0 .. m
        BY <2>2, <3>2
      <4>2. F[n] = IF n \in L THEN Retain(w, F[n - 1], n) ELSE F[n - 1]
        BY <2>1, <4>1
      <4>3. G[n] = F[n] /\ G[n - 1] = F[n - 1]
        BY <4>1
      <4> HIDE DEF G
      <4> QED BY <4>1, <4>2, <4>3
    <3>3. CASE n = m + 1
      <4>1. ~(n <= m) /\ n - 1 = m /\ m <= m /\ n # 0 /\ m \in 0 .. m + 1
        BY <2>2, <3>3
      <4>2. G[n] = last /\ G[m] = F[m]
        <5> HIDE DEF last
        <5> QED BY <4>1
      <4> HIDE DEF G
      <4> QED BY <3>3, <4>1, <4>2
    <3> QED BY <2>2, <3>1, <3>2, <3>3
  <2>4. DOMAIN G = 0 .. m + 1 /\ G = [n \in 0 .. m + 1 |-> G[n]]
    OBVIOUS
  <2>5. \E H : Runs(H, m + 1)
    <3> HIDE DEF G
    <3>1. G = [n \in 0 .. m + 1 |-> IF n = 0 THEN start
                 ELSE IF n \in L THEN Retain(w, G[n - 1], n) ELSE G[n - 1]]
      BY <2>3, <2>4
    <3> QED BY <3>1
  <2> QED BY <2>2, <2>5
<1>3. T = Nat
  <2> HIDE DEF T
  <2>1. T \subseteq Nat
    BY DEF T
  <2> QED BY <1>1, <1>2, <2>1, Induction
<1>4. \E F : Runs(F, N)
  BY <1>3
<1> QED BY <1>4 DEF Commits, start, L

(* ... and settles every part of the window.                               *)
LEMMA CommittedSettled ==
  ASSUME IInv, NEW w \in Windows
  PROVE  Settled(w, Size, Committed(w))
<1> DEFINE F == CHOOSE G : G = [n \in 0 .. Size |->
                  IF n = 0 THEN [form |-> window[w].form, state |-> state]
                  ELSE IF n \in window[w].live THEN Retain(w, G[n - 1], n) ELSE G[n - 1]]
<1>1. Committed(w) = F[Size]
  BY Zenon DEF Committed, Size
<1>2. Commits(w, Size, F)
  <2>1. \E G : Commits(w, Size, G)
    BY PartsNumbered, CommittedExists
  <2>2. F = CHOOSE G : Commits(w, Size, G)
    BY Zenon DEF Commits
  <2> HIDE DEF F
  <2> QED BY <2>1, <2>2
<1> HIDE DEF F
<1>3. /\ F[0] = [form |-> window[w].form, state |-> state]
      /\ \A n \in 1 .. Size : F[n] = IF n \in window[w].live THEN Retain(w, F[n - 1], n)
                                     ELSE F[n - 1]
  <2>1. 0 \in 0 .. Size /\ \A n \in 1 .. Size : n \in 0 .. Size /\ n # 0
    BY PartsNumbered
  <2> QED BY <1>2, <2>1 DEF Commits
<1>4. window[w] \in Window /\ \A p \in window[w].live : p \in Nat /\ ~(p <= 0)
  <2>1. window[w] \in Window
    BY DEF IInv, TypeOK
  <2>2. window[w].live \subseteq Parts
    BY <2>1 DEF Window
  <2> QED BY <2>1, <2>2, PartsNumbered
<1> DEFINE T == {n \in Nat : n <= Size => Settled(w, n, F[n])}
<1>5. 0 \in T
  <2>1. F[0].form = window[w].form /\ F[0].state = state
    BY <1>3
  <2>2. F[0].form \in [Parts -> Forms \cup {Raw}] /\ F[0].state \in [Generations -> SessionState]
    BY <1>4, <2>1 DEF IInv, TypeOK, Window
  <2>3. \A s \in Tracked : Accounted(state[generation[s]])
    BY DEF IInv, TrackedAccounted
  <2>4. Settled(w, 0, F[0])
    BY <1>4, <2>1, <2>2, <2>3 DEF Settled, RecordsSent
  <2> QED BY <2>4
<1>6. \A n \in T : n + 1 \in T
  <2> TAKE n \in T
  <2>1. ASSUME n + 1 <= Size PROVE Settled(w, n + 1, F[n + 1])
    <3>1. n \in Nat /\ n <= Size /\ n + 1 \in 1 .. Size /\ n + 1 - 1 = n
      BY <2>1, PartsNumbered
    <3>2. Settled(w, n, F[n])
      BY <3>1
    <3>3. F[n + 1] = IF n + 1 \in window[w].live THEN Retain(w, F[n], n + 1) ELSE F[n]
      <4> DEFINE x == n + 1
      <4>1. x \in 1 .. Size /\ x - 1 = n
        BY <3>1
      <4> HIDE DEF x
      <4>2. F[x] = IF x \in window[w].live THEN Retain(w, F[n], x) ELSE F[n]
        BY <1>3, <4>1
      <4> QED BY <4>2 DEF x
    <3>4. CASE n + 1 \in window[w].live
      BY <3>1, <3>2, <3>3, <3>4, RetainKeeps
    <3>5. CASE n + 1 \notin window[w].live
      <4>1. F[n + 1] = F[n]
        BY <3>3, <3>5
      <4>2. \A p \in Parts : p > n + 1 => p > n
        BY <3>1, PartsNumbered
      <4>3. \A p \in window[w].live : p <= n + 1 => p <= n
        BY <1>4, <3>1, <3>5
      <4>4. Settled(w, n + 1, F[n])
        BY <3>2, <4>2, <4>3 DEF Settled, RecordsSent
      <4> QED BY <4>1, <4>4
    <3> QED BY <3>4, <3>5
  <2> QED BY <2>1
<1>7. T = Nat
  <2> HIDE DEF T
  <2>1. T \subseteq Nat
    BY DEF T
  <2> QED BY <1>5, <1>6, <2>1, Induction
<1>8. Size \in Nat /\ Size <= Size
  BY PartsNumbered
<1>9. Settled(w, Size, F[Size])
  BY <1>7, <1>8
<1> QED BY <1>1, <1>9

(* What a closing step must leave of the new parts of an overlapped window. *)
RolledBack(w) ==
  \A p \in window[w].live :
    SessionOf[p] \in window[w].overlapped => ~Changed(state'[Joined(w, p).generation].parts[p])

(* The object of a new part is one its window has joined.                  *)
LEMMA LiveObjects ==
  ASSUME IInv, NEW v \in Windows, NEW p \in window[v].live
  PROVE  p \in Parts /\ SessionOf[p] \in SessionIDs /\ Joined(v, p).generation \in Generations
<1>1. window[v] \in Window
  BY DEF IInv, TypeOK
<1>2. p \in Parts
  BY <1>1 DEF Window
<1>3. SessionOf[p] \in SessionIDs
  BY <1>2, LifecycleAssumption
<1>4. Joined(v, p).generation # 0
  BY DEF IInv, LiveRecordedRaw
<1> QED BY <1>1, <1>2, <1>3, <1>4 DEF Joined, Window

(* The end of a window: commit.                                            *)
LEMMA CommitKeeps ==
  ASSUME IInv, NEW w \in Windows, Commit(w)
  PROVE  IInv' /\ generation' = generation /\ RolledBack(w)
<1> DEFINE c == Committed(w)
           st == c.state
           form == c.form
<1>1. Close(w, st, form)
  BY Zenon DEF Commit
<1>2. Settled(w, Size, c)
  BY CommittedSettled
<1> HIDE DEF c
<1>3. \A p \in Parts : p \in Nat /\ p <= Size /\ ~(p > Size)
  BY PartsNumbered
<1>4. ASSUME NEW v \in Windows \ {w}, NEW p \in window[v].live
      PROVE  st[Joined(v, p).generation].parts[p].form = Raw
  <2>1. p \in Parts /\ Joined(v, p).generation \in Generations
    BY LiveObjects
  <2>2. /\ state[Joined(v, p).generation].parts[p].form = Raw
        /\ p \in window[w].live => Joined(w, p).generation # Joined(v, p).generation
    BY DEF IInv, LiveRecordedRaw
  <2>3. st[Joined(v, p).generation].parts[p] = state[Joined(v, p).generation].parts[p]
    BY <1>2, <2>1, <2>2 DEF Settled
  <2> QED BY <2>2, <2>3
<1>5. /\ st \in [Generations -> SessionState] /\ form \in [Parts -> Forms \cup {Raw}]
      /\ \A g \in Generations : /\ st[g].openWindows = state[g].openWindows
                                /\ st[g].conflictVersion = state[g].conflictVersion
      /\ \A s \in Tracked : Accounted(st[generation[s]])
  BY <1>2 DEF Settled
<1> HIDE DEF st, form
<1>6. /\ IInv' /\ generation' = generation
      /\ \A g \in Generations, p \in Parts :
           st[g].parts[p].form = Raw => ~Changed(state'[g].parts[p])
  BY <1>1, <1>4, <1>5, CloseKeeps
<1>7. ASSUME NEW p \in window[w].live, SessionOf[p] \in window[w].overlapped
      PROVE  ~Changed(state'[Joined(w, p).generation].parts[p])
  <2>1. p \in Parts /\ Joined(w, p).generation \in Generations
    BY LiveObjects
  <2>2. Joined(w, p).conflictVersion < state[Joined(w, p).generation].conflictVersion
    BY <1>7 DEF IInv, OverlapIsStale
  <2>3. ~LiveIsCurrent(w, p)
    <3>1. Joined(w, p).conflictVersion \in Nat
          /\ state[Joined(w, p).generation].conflictVersion \in Nat
      <4>1. window[w] \in Window /\ SessionOf[p] \in SessionIDs
        BY LiveObjects DEF IInv, TypeOK
      <4>2. state[Joined(w, p).generation] \in SessionState
        BY <2>1 DEF IInv, TypeOK
      <4> QED BY <4>1, <4>2 DEF Joined, Window, SessionState
    <3> QED BY <2>2, <3>1 DEF LiveIsCurrent
  <2>4. st[Joined(w, p).generation].parts[p].form = Raw
    BY <1>2, <1>3, <2>1, <2>3 DEF Settled, st
  <2> QED BY <1>6, <2>1, <2>4
<1> QED BY <1>6, <1>7 DEF RolledBack

(* The end of a window: abort.                                             *)
LEMMA AbortKeeps ==
  ASSUME IInv, NEW w \in Windows, Abort(w)
  PROVE  IInv' /\ generation' = generation /\ RolledBack(w)
<1> DEFINE live == window[w].live
           mine(g, p) == p \in live /\ Joined(w, p).generation = g
           parts(g) == [p \in Parts |-> IF mine(g, p) THEN RawRecord(window[w].version[p])
                                        ELSE state[g].parts[p]]
           st == [g \in Generations |-> [state[g] EXCEPT !.parts = parts(g)]]
           form == [p \in Parts |-> IF p \in live THEN Raw ELSE window[w].form[p]]
<1>1. Close(w, st, form)
  <2>1. Close(w,
              [g \in Generations |->
                 [state[g] EXCEPT !.parts =
                    [p \in Parts |-> IF p \in live /\ Joined(w, p).generation = g
                                     THEN RawRecord(window[w].version[p]) ELSE @[p]]]],
              [p \in Parts |-> IF p \in live THEN Raw ELSE window[w].form[p]])
    BY Zenon DEF Abort
  <2> QED BY <2>1, Zenon
<1>2. window[w] \in Window /\ state \in [Generations -> SessionState]
  BY DEF IInv, TypeOK
<1>3. form \in [Parts -> Forms \cup {Raw}]
  BY <1>2 DEF Window
<1>4. ASSUME NEW g \in Generations
      PROVE  /\ st[g] \in SessionState /\ st[g].openWindows = state[g].openWindows
             /\ st[g].conflictVersion = state[g].conflictVersion
             /\ st[g].count = state[g].count /\ st[g].chars = state[g].chars
             /\ \A p \in Parts : st[g].parts[p] = IF mine(g, p)
                                                  THEN RawRecord(window[w].version[p])
                                                  ELSE state[g].parts[p]
  <2> DEFINE S == state[g]
             ps == parts(g)
  <2>1. S \in SessionState
    BY <1>2
  <2>2. ps \in [Parts -> Record \cup {Unknown}]
    <3>1. \A p \in Parts : RawRecord(window[w].version[p]) \in Record
      BY <1>2 DEF RawRecord, Record, Window
    <3>2. S.parts \in [Parts -> Record \cup {Unknown}]
      BY <2>1 DEF SessionState
    <3> QED BY <3>1, <3>2
  <2>3. \A p \in Parts : ps[p] = IF mine(g, p) THEN RawRecord(window[w].version[p])
                                 ELSE state[g].parts[p]
    OBVIOUS
  <2>4. st[g] = [S EXCEPT !.parts = ps]
    OBVIOUS
  <2> HIDE DEF st, S, ps, mine
  <2>5. /\ st[g] \in SessionState /\ st[g].openWindows = S.openWindows
        /\ st[g].conflictVersion = S.conflictVersion
        /\ st[g].count = S.count /\ st[g].chars = S.chars /\ st[g].parts = ps
    BY <2>1, <2>2, <2>4 DEF SessionState
  <2> QED BY <2>3, <2>5 DEF S
<1>5. st \in [Generations -> SessionState]
  <2>1. st = [g \in Generations |-> st[g]]
    OBVIOUS
  <2> HIDE DEF st
  <2> QED BY <1>4, <2>1
<1> HIDE DEF st, form
<1>6. \A g \in Generations, p \in Parts : mine(g, p) => state[g].parts[p].form = Raw
  BY DEF IInv, LiveRecordedRaw
<1>7. \A v : RawRecord(v).form = Raw
  BY DEF RawRecord
<1>8. ASSUME NEW s \in Tracked PROVE Accounted(st[generation[s]])
  <2> DEFINE g == generation[s]
             S == state[g]
             R == st[g]
  <2>1. g \in Generations
    BY DEF IInv, TypeOK, Tracked, KeysOf
  <2>2. Accounted(S)
    BY DEF IInv, TrackedAccounted
  <2>3. R.count = S.count /\ R.chars = S.chars
    BY <1>4, <2>1
  <2>4. \A p \in Parts : /\ Changed(R.parts[p]) <=> Changed(S.parts[p])
                         /\ Changed(S.parts[p]) => R.parts[p].form = S.parts[p].form
    <3> TAKE p \in Parts
    <3>1. CASE mine(g, p)
      <4>1. R.parts[p].form = Raw /\ S.parts[p].form = Raw
        BY <1>4, <1>6, <1>7, <2>1, <3>1
      <4> QED BY <4>1 DEF Changed
    <3>2. CASE ~mine(g, p)
      <4>1. R.parts[p] = S.parts[p]
        BY <1>4, <2>1, <3>2
      <4> QED BY <4>1
    <3> QED BY <3>1, <3>2
  <2> HIDE DEF R, S
  <2>5. Accounted(R)
    BY <2>2, <2>3, <2>4, SameAccounted
  <2> QED BY <2>5 DEF R
<1>9. ASSUME NEW v \in Windows, NEW p \in window[v].live
      PROVE  st[Joined(v, p).generation].parts[p].form = Raw
  <2>1. p \in Parts /\ Joined(v, p).generation \in Generations
    BY LiveObjects
  <2>2. state[Joined(v, p).generation].parts[p].form = Raw
    BY DEF IInv, LiveRecordedRaw
  <2> QED BY <1>4, <1>7, <2>1, <2>2
<1>10. /\ IInv' /\ generation' = generation
       /\ \A g \in Generations, p \in Parts :
            st[g].parts[p].form = Raw => ~Changed(state'[g].parts[p])
  <2>1. \A g \in Generations : /\ st[g].openWindows = state[g].openWindows
                               /\ st[g].conflictVersion = state[g].conflictVersion
    BY <1>4
  <2> QED BY <1>1, <1>3, <1>5, <1>8, <1>9, <2>1, CloseKeeps
<1>11. \A p \in window[w].live : p \in Parts /\ Joined(w, p).generation \in Generations
  BY LiveObjects
<1> QED BY <1>9, <1>10, <1>11 DEF RolledBack
-----------------------------------------------------------------------------
(* deleteSession and clear: sessions leave the map, their objects stay for *)
(* the windows that joined them.                                           *)
LEMMA DropKeeps ==
  ASSUME IInv, NEW gen \in [SessionIDs -> Generations \cup {0}],
         \A s \in SessionIDs : gen[s] \in {0, generation[s]},
         mapOrder' = mapOrder \cap (KeysOf(gen) \X KeysOf(gen)), generation' = gen,
         state' = Collected(gen, window, state),
         UNCHANGED <<window, hostVersion, firstSent, lastSent>>
  PROVE  IInv'
<1>1. /\ window \in [Windows -> Window] /\ state \in [Generations -> SessionState]
      /\ generation \in [SessionIDs -> Generations \cup {0}]
  BY DEF IInv, TypeOK
<1>2. \A g \in Generations :
        state'[g] = IF g \in Referenced(gen, window) THEN state[g] ELSE Fresh
  BY DEF Collected
<1>3. state' \in [Generations -> SessionState]
  <2>1. state' = [g \in Generations |-> IF g \in Referenced(gen, window) THEN state[g] ELSE Fresh]
    BY DEF Collected
  <2> QED BY <1>1, <2>1, FreshAccounted
<1>4. /\ \A s \in SessionIDs : gen[s] \in Referenced(gen, window)
      /\ \A v \in Windows, s \in SessionIDs :
           window[v].joined[s].generation \in Referenced(gen, window)
  BY DEF Referenced
<1>5. \A s \in KeysOf(gen) : s \in Tracked /\ gen[s] = generation[s] /\ gen[s] \in Generations
  BY <1>1 DEF KeysOf, Tracked
<1>6. TypeOK'
  <2>1. mapOrder' \subseteq Tracked' \X Tracked' /\ InOrder(mapOrder', Tracked')
    <3> DEFINE K == KeysOf(gen)
    <3>1. Tracked' = K /\ K \subseteq Tracked
      BY <1>5 DEF Tracked
    <3>2. InOrder(mapOrder, Tracked)
      BY DEF IInv, TypeOK
    <3> HIDE DEF K
    <3>3. InOrder(mapOrder \cap (K \X K), K)
      BY <3>1, <3>2, FewerInOrder
    <3> QED BY <3>1, <3>3 DEF K
  <2>2. (\A s, i \in Tracked : s # i => generation[s] # generation[i])'
    <3>1. \A s, i \in KeysOf(gen) : s # i => gen[s] # gen[i]
      BY <1>5 DEF IInv, TypeOK
    <3> QED BY <3>1 DEF Tracked
  <2> QED BY <1>1, <1>3, <2>1, <2>2 DEF IInv, TypeOK
<1>7. OneOwner'
  <2> SUFFICES ASSUME NEW g \in Generations, NEW s \in SessionIDs, NEW i \in SessionIDs,
                      RefersIn(gen, s, g), RefersIn(gen, i, g)
               PROVE  s = i
    BY DEF OneOwner, OneOwnerIn, RefersIn
  <2>1. g # 0
    BY Finite
  <2>2. RefersIn(generation, s, g) /\ RefersIn(generation, i, g)
    BY <2>1 DEF RefersIn
  <2> QED BY <2>2 DEF IInv, OneOwner, OneOwnerIn
<1>8. UnreferencedFresh'
  BY <1>2 DEF UnreferencedFresh
<1>9. TrackedAccounted'
  <2> SUFFICES ASSUME NEW s \in KeysOf(gen) PROVE Accounted(state'[gen[s]])
    BY DEF TrackedAccounted, Tracked, KeysOf
  <2>1. s \in SessionIDs /\ s \in Tracked /\ gen[s] = generation[s] /\ gen[s] \in Generations
    BY <1>5 DEF KeysOf
  <2>2. state'[gen[s]] = state[generation[s]]
    BY <1>2, <1>4, <2>1
  <2> QED BY <2>1, <2>2 DEF IInv, TrackedAccounted
<1>10. OpenWindowsAccounted'
  <2> SUFFICES ASSUME NEW g \in Generations
               PROVE  state'[g].openWindows = Cardinality(Joiners(g))
    BY DEF OpenWindowsAccounted, Joiners
  <2>1. CASE g \in Referenced(gen, window)
    BY <1>2, <2>1 DEF IInv, OpenWindowsAccounted, Joiners
  <2>2. CASE g \notin Referenced(gen, window)
    <3>1. state'[g].openWindows = 0
      BY <1>2, <2>2 DEF Fresh
    <3>2. Joiners(g) = {}
      BY <1>4, <2>2 DEF Joiners
    <3> QED BY <3>1, <3>2, FS_EmptySet
  <2> QED BY <2>1, <2>2
<1>11. ASSUME NEW v \in Windows, NEW s \in SessionIDs, window[v].joined[s].generation # 0
       PROVE  state'[window[v].joined[s].generation] = state[window[v].joined[s].generation]
  <2>1. window[v].joined[s].generation \in Generations
    BY <1>1, <1>11 DEF Window
  <2> QED BY <1>2, <1>4, <2>1
<1>12. WindowsInShape'
  <2> SUFFICES ASSUME NEW v \in Windows
               PROVE  /\ ~window[v].open => window[v] = Closed
                      /\ \A i \in SessionIDs :
                           LET j == window[v].joined[i]
                           IN  /\ j.generation = 0 => j = NotJoined
                               /\ j.generation # 0
                                    => j.conflictVersion <= state'[j.generation].conflictVersion
                      /\ \A x \in window[v].replayed :
                           window[v].joined[SessionOf[x]].generation # 0
    BY DEF WindowsInShape, Joined
  <2> QED BY <1>11 DEF IInv, WindowsInShape, Joined
<1>13. \A v \in Windows : \A p \in window[v].live :
         state'[Joined(v, p).generation] = state[Joined(v, p).generation]
  <2> TAKE v \in Windows
  <2> TAKE p \in window[v].live
  <2>1. SessionOf[p] \in SessionIDs /\ Joined(v, p).generation # 0
    BY LiveObjects, Finite
  <2> QED BY <1>11, <2>1 DEF Joined
<1>14. LiveRecordedRaw'
  <2> SUFFICES ASSUME NEW v \in Windows, NEW p \in window[v].live
               PROVE  /\ Joined(v, p).generation # 0
                      /\ state'[Joined(v, p).generation].parts[p].form = Raw
                      /\ \A u \in Windows \ {v} :
                           p \in window[u].live
                             => Joined(u, p).generation # Joined(v, p).generation
    BY ZenonT(60) DEF LiveRecordedRaw, Joined
  <2>1. /\ Joined(v, p).generation # 0
        /\ state[Joined(v, p).generation].parts[p].form = Raw
        /\ \A u \in Windows \ {v} :
             p \in window[u].live => Joined(u, p).generation # Joined(v, p).generation
    BY DEF IInv, LiveRecordedRaw
  <2>2. state'[Joined(v, p).generation] = state[Joined(v, p).generation]
    BY <1>13
  <2> QED BY <2>1, <2>2
<1>15. OverlapIsStale'
  <2> SUFFICES ASSUME NEW v \in Windows, NEW p \in window[v].live,
                      SessionOf[p] \in window[v].overlapped
               PROVE  Joined(v, p).conflictVersion
                        < state'[Joined(v, p).generation].conflictVersion
    BY DEF OverlapIsStale, Joined
  <2>1. Joined(v, p).conflictVersion < state[Joined(v, p).generation].conflictVersion
    BY DEF IInv, OverlapIsStale
  <2>2. state'[Joined(v, p).generation] = state[Joined(v, p).generation]
    BY <1>13
  <2> QED BY <2>1, <2>2
<1> QED BY <1>6, <1>7, <1>8, <1>9, <1>10, <1>12, <1>14, <1>15 DEF IInv

(* The deletion of a session.                                              *)
LEMMA DeleteSessionKeeps ==
  ASSUME IInv, NEW s \in SessionIDs, DeleteSession(s)
  PROVE  IInv'
<1> DEFINE gen == [generation EXCEPT ![s] = 0]
<1>1. generation \in [SessionIDs -> Generations \cup {0}]
  BY DEF IInv, TypeOK
<1>2. gen \in [SessionIDs -> Generations \cup {0}]
      /\ \A i \in SessionIDs : gen[i] \in {0, generation[i]}
  BY <1>1
<1>3. /\ mapOrder' = mapOrder \cap (KeysOf(gen) \X KeysOf(gen)) /\ generation' = gen
      /\ state' = Collected(gen, window, state)
      /\ UNCHANGED <<window, hostVersion, firstSent, lastSent>>
  BY Zenon DEF DeleteSession
<1> HIDE DEF gen
<1> QED BY <1>2, <1>3, DropKeeps

(* The removal of all sessions on dispose.                                 *)
LEMMA ClearKeeps ==
  ASSUME IInv, Clear
  PROVE  IInv'
<1> DEFINE gen == [s \in SessionIDs |-> 0]
<1>1. gen \in [SessionIDs -> Generations \cup {0}]
      /\ \A i \in SessionIDs : gen[i] \in {0, generation[i]}
  OBVIOUS
<1>2. /\ mapOrder' = {} /\ generation' = gen
      /\ state' = Collected(gen, window, state)
      /\ UNCHANGED <<window, hostVersion, firstSent, lastSent>>
  BY Zenon DEF Clear
<1>3. KeysOf(gen) = {}
  BY DEF KeysOf
<1>4. mapOrder' = mapOrder \cap (KeysOf(gen) \X KeysOf(gen))
  BY <1>2, <1>3
<1> HIDE DEF gen
<1> QED BY <1>1, <1>2, <1>4, DropKeeps
-----------------------------------------------------------------------------
(* What the steps do to the records of the sessions that keep their        *)
(* objects.  The end of a window records of the parts it could change what *)
(* it sends of them.                                                       *)
LEMMA CloseShows ==
  ASSUME IInv, NEW w \in Windows, NEW st \in [Generations -> SessionState], NEW form,
         Close(w, st, form), NEW i \in Tracked
  PROVE  /\ generation[i] \in Generations
         /\ state'[generation[i]].parts = st[generation[i]].parts
         /\ state'[generation[i]].saturated = st[generation[i]].saturated
<1> DEFINE window2 == [window EXCEPT ![w] = Closed]
           left == [g \in Generations |->
                      IF g \in JoinedObjects(w)
                      THEN [st[g] EXCEPT !.openWindows = NonNegative(@ - 1)] ELSE st[g]]
           g == generation[i]
<1>1. g \in Generations /\ st[g] \in SessionState /\ i \in SessionIDs
  BY DEF IInv, TypeOK, Tracked, KeysOf
<1>2. state' = Collected(generation, window2, left)
  BY Zenon DEF Close
<1>3. g \in Referenced(generation, window2)
  BY <1>1 DEF Referenced
<1>4. state'[g] = left[g]
  <2> HIDE DEF left, window2, g
  <2> QED BY <1>1, <1>2, <1>3 DEF Collected
<1>5. left[g].parts = st[g].parts /\ left[g].saturated = st[g].saturated
  <2> HIDE DEF g
  <2> QED BY <1>1 DEF SessionState
<1> QED BY <1>1, <1>4, <1>5

EndsWith(w, form) ==
  /\ Send(window[w].contents, window[w].version, form)
  /\ \A p \in Parts \ window[w].live : form[p] = window[w].form[p]
  /\ \A i \in Tracked :
       /\ state'[generation[i]].saturated = state[generation[i]].saturated
       /\ \A p \in Parts :
            state'[generation[i]].parts[p] =
              IF p \in window[w].live /\ Joined(w, p).generation = generation[i]
              THEN [version |-> window[w].version[p], form |-> form[p]]
              ELSE state[generation[i]].parts[p]

(* The end of a window, of what it records and sends.                      *)
LEMMA EndShows ==
  ASSUME IInv, NEW w \in Windows, Commit(w) \/ Abort(w)
  PROVE  /\ window' = [window EXCEPT ![w] = Closed]
         /\ UNCHANGED <<generation, hostVersion>>
         /\ \E form \in [Parts -> Forms \cup {Raw}] : EndsWith(w, form)
<1>1. ASSUME NEW st \in [Generations -> SessionState], NEW form, Close(w, st, form)
      PROVE  /\ window' = [window EXCEPT ![w] = Closed]
             /\ UNCHANGED <<generation, hostVersion>>
             /\ Send(window[w].contents, window[w].version, form)
  BY <1>1 DEF Close
<1>2. /\ window[w] \in Window /\ state \in [Generations -> SessionState]
      /\ \A i \in Tracked : generation[i] \in Generations
  BY DEF IInv, TypeOK, Tracked, KeysOf
<1>3. CASE Commit(w)
  <2> DEFINE c == Committed(w)
             st == c.state
             form == c.form
  <2>1. Close(w, st, form)
    BY <1>3, Zenon DEF Commit
  <2>2. Settled(w, Size, c)
    BY CommittedSettled
  <2> HIDE DEF c
  <2>3. \A p \in Parts : p \in Nat /\ p <= Size /\ ~(p > Size)
    BY PartsNumbered
  <2>4. /\ st \in [Generations -> SessionState] /\ form \in [Parts -> Forms \cup {Raw}]
        /\ \A p \in Parts \ window[w].live : form[p] = window[w].form[p]
        /\ \A g \in Generations : st[g].saturated = state[g].saturated
    BY <2>2 DEF Settled, RecordsSent
  <2>5. ASSUME NEW i \in Tracked, NEW p \in Parts
        PROVE  st[generation[i]].parts[p] =
                 IF p \in window[w].live /\ Joined(w, p).generation = generation[i]
                 THEN [version |-> window[w].version[p], form |-> form[p]]
                 ELSE state[generation[i]].parts[p]
    BY <1>2, <2>2, <2>3 DEF Settled, RecordsSent
  <2> HIDE DEF st, form
  <2>6. \A i \in Tracked : /\ generation[i] \in Generations
                           /\ state'[generation[i]].parts = st[generation[i]].parts
                           /\ state'[generation[i]].saturated = st[generation[i]].saturated
    BY <2>1, <2>4, CloseShows
  <2>7. EndsWith(w, form)
    BY <1>1, <2>1, <2>4, <2>5, <2>6 DEF EndsWith
  <2> QED BY <1>1, <2>1, <2>4, <2>7
<1>4. CASE Abort(w)
  <2> DEFINE live == window[w].live
             mine(g, p) == p \in live /\ Joined(w, p).generation = g
             parts(g) == [p \in Parts |-> IF mine(g, p) THEN RawRecord(window[w].version[p])
                                          ELSE state[g].parts[p]]
             st == [g \in Generations |-> [state[g] EXCEPT !.parts = parts(g)]]
             form == [p \in Parts |-> IF p \in live THEN Raw ELSE window[w].form[p]]
  <2>1. Close(w, st, form)
    <3>1. Close(w,
                [g \in Generations |->
                   [state[g] EXCEPT !.parts =
                      [p \in Parts |-> IF p \in live /\ Joined(w, p).generation = g
                                       THEN RawRecord(window[w].version[p]) ELSE @[p]]]],
                [p \in Parts |-> IF p \in live THEN Raw ELSE window[w].form[p]])
      BY <1>4, Zenon DEF Abort
    <3>2. \A g \in Generations :
            [state[g] EXCEPT !.parts =
               [p \in Parts |-> IF p \in live /\ Joined(w, p).generation = g
                                THEN RawRecord(window[w].version[p]) ELSE @[p]]]
              = [state[g] EXCEPT !.parts = parts(g)]
      OBVIOUS
    <3> QED BY <3>1, <3>2, Zenon
  <2>2. form \in [Parts -> Forms \cup {Raw}]
    BY <1>2 DEF Window
  <2>3. ASSUME NEW g \in Generations
        PROVE  /\ [state[g] EXCEPT !.parts = parts(g)] \in SessionState
               /\ [state[g] EXCEPT !.parts = parts(g)].parts = parts(g)
               /\ [state[g] EXCEPT !.parts = parts(g)].saturated = state[g].saturated
    <3>1. parts(g) \in [Parts -> Record \cup {Unknown}]
      <4>1. state[g].parts \in [Parts -> Record \cup {Unknown}]
        BY <1>2 DEF SessionState
      <4>2. \A p \in Parts : RawRecord(window[w].version[p]) \in Record
        BY <1>2 DEF Window, RawRecord, Record
      <4> QED BY <4>1, <4>2
    <3> HIDE DEF parts
    <3>2. state[g] \in SessionState
      BY <1>2
    <3> QED BY <3>1, <3>2 DEF SessionState
  <2>4. /\ st \in [Generations -> SessionState]
        /\ \A g \in Generations : /\ st[g].parts = parts(g)
                                  /\ st[g].saturated = state[g].saturated
    <3> HIDE DEF parts
    <3> QED BY <2>3
  <2> HIDE DEF st
  <2>5. ASSUME NEW i \in Tracked, NEW p \in Parts
        PROVE  st[generation[i]].parts[p] =
                 IF p \in window[w].live /\ Joined(w, p).generation = generation[i]
                 THEN [version |-> window[w].version[p], form |-> form[p]]
                 ELSE state[generation[i]].parts[p]
    <3>1. st[generation[i]].parts = parts(generation[i])
      BY <1>2, <2>4
    <3>2. parts(generation[i])[p] = IF mine(generation[i], p) THEN RawRecord(window[w].version[p])
                                    ELSE state[generation[i]].parts[p]
      OBVIOUS
    <3>3. p \in live => form[p] = Raw
      OBVIOUS
    <3> HIDE DEF parts, form
    <3> QED BY <3>1, <3>2, <3>3 DEF RawRecord
  <2>6. \A p \in Parts \ window[w].live : form[p] = window[w].form[p]
    OBVIOUS
  <2>7. \A i \in Tracked : /\ generation[i] \in Generations
                           /\ state'[generation[i]].parts = st[generation[i]].parts
                           /\ state'[generation[i]].saturated = st[generation[i]].saturated
    BY <2>1, <2>4, CloseShows
  <2> HIDE DEF form, parts
  <2>8. EndsWith(w, form)
    <3>1. Send(window[w].contents, window[w].version, form)
      BY <1>1, <2>1, <2>4
    <3>2. \A i \in Tracked : state'[generation[i]].saturated = state[generation[i]].saturated
      BY <2>4, <2>7
    <3>3. \A i \in Tracked : \A p \in Parts :
            state'[generation[i]].parts[p] =
              IF p \in window[w].live /\ Joined(w, p).generation = generation[i]
              THEN [version |-> window[w].version[p], form |-> form[p]]
              ELSE state[generation[i]].parts[p]
      <4> SUFFICES ASSUME NEW i \in Tracked, NEW p \in Parts
                   PROVE  state'[generation[i]].parts[p] =
                            IF p \in window[w].live /\ Joined(w, p).generation = generation[i]
                            THEN [version |-> window[w].version[p], form |-> form[p]]
                            ELSE state[generation[i]].parts[p]
        OBVIOUS
      <4>1. state'[generation[i]].parts[p] = st[generation[i]].parts[p]
        BY <2>7
      <4> QED BY <2>5, <4>1
    <3> QED BY <2>6, <3>1, <3>2, <3>3 DEF EndsWith
  <2> QED BY <1>1, <2>1, <2>2, <2>4, <2>8
<1> QED BY <1>3, <1>4

(* Invalidation records the part raw.                                      *)
Invalidated(w, p, i) ==
  /\ state'[generation[i]].saturated = state[generation[i]].saturated
  /\ \A q \in Parts :
       state'[generation[i]].parts[q] =
         IF q = p /\ Joined(w, p).generation = generation[i]
         THEN RawRecord(window[w].version[p]) ELSE state[generation[i]].parts[q]

(* invalidate, of what it records.                                         *)
LEMMA InvalidateShows ==
  ASSUME IInv, NEW w \in Windows, NEW p \in Parts, Invalidate(w, p), NEW i \in Tracked
  PROVE  Invalidated(w, p, i)
<1> DEFINE g == Joined(w, p).generation
           S == IF Current(w, p) THEN Forget(state[g], {p}) ELSE state[g]
           T == [S EXCEPT !.parts[p] = RawRecord(window[w].version[p])]
<1>1. generation[i] \in Generations /\ state \in [Generations -> SessionState]
  BY DEF IInv, TypeOK, Tracked, KeysOf
<1>2. state' = [state EXCEPT ![g] = T]
  BY Zenon DEF Invalidate
<1>3. CASE g = generation[i]
  <2>1. state[g] \in SessionState
    BY <1>1, <1>3
  <2>2. /\ S.parts = state[g].parts /\ S.saturated = state[g].saturated
        /\ T.saturated = S.saturated /\ T.parts = [S.parts EXCEPT ![p] = RawRecord(window[w].version[p])]
    <3> HIDE DEF g
    <3> QED BY <2>1 DEF Forget, SessionState
  <2>3. state'[g] = T
    <3> HIDE DEF T, g
    <3> QED BY <1>1, <1>2, <1>3
  <2>4. S.parts \in [Parts -> Record \cup {Unknown}]
    <3> HIDE DEF S, g
    <3> QED BY <2>1, <2>2 DEF SessionState
  <2> HIDE DEF S, T, g
  <2> QED BY <1>3, <2>2, <2>3, <2>4 DEF g, Invalidated
<1>4. CASE g # generation[i]
  <2> HIDE DEF T
  <2> QED BY <1>1, <1>2, <1>4 DEF Invalidated
<1> QED BY <1>3, <1>4

(* A deletion and clear leave the other objects as they are.               *)
LEMMA DropShows ==
  ASSUME IInv, (\E s \in SessionIDs : DeleteSession(s)) \/ Clear, NEW i \in SessionIDs,
         generation'[i] # 0
  PROVE  generation'[i] = generation[i] /\ state'[generation[i]] = state[generation[i]]
<1>1. generation \in [SessionIDs -> Generations \cup {0}]
  BY DEF IInv, TypeOK
<1>2. ASSUME NEW s \in SessionIDs, DeleteSession(s)
      PROVE  generation'[i] = generation[i] /\ state'[generation[i]] = state[generation[i]]
  BY <1>1, <1>2 DEF DeleteSession, Collected, Referenced
<1>3. CASE Clear
  BY <1>3 DEF Clear
<1> QED BY <1>2, <1>3
-----------------------------------------------------------------------------
(* The initial states.                                                     *)
LEMMA InitIsConsistent == Init => IInv
<1> SUFFICES ASSUME Init PROVE IInv
  OBVIOUS
<1>1. /\ mapOrder = {} /\ generation = [s \in SessionIDs |-> 0]
      /\ state = [g \in Generations |-> Fresh] /\ window = [w \in Windows |-> Closed]
      /\ hostVersion = [p \in Parts |-> 0] /\ firstSent = [p \in Parts |-> NotSent]
      /\ lastSent = [p \in Parts |-> NotSent]
  BY DEF Init
<1>2. Tracked = {}
  BY <1>1 DEF Tracked, KeysOf
<1>3. Closed \in Window
  <2>1. NotJoined \in [generation : Generations \cup {0}, conflictVersion : Nat]
    BY DEF NotJoined
  <2> DEFINE jo == [s \in SessionIDs |-> NotJoined]
             ve == [p \in Parts |-> 0]
             fo == [p \in Parts |-> Raw]
  <2>2. Closed = [open |-> FALSE, joined |-> jo, contents |-> {}, live |-> {}, checked |-> {},
                  replayed |-> {}, version |-> ve, form |-> fo, overlapped |-> {}]
    BY DEF Closed
  <2>3. /\ jo \in [SessionIDs -> [generation : Generations \cup {0}, conflictVersion : Nat]]
        /\ ve \in [Parts -> Nat] /\ fo \in [Parts -> Forms \cup {Raw}]
    BY <2>1
  <2> HIDE DEF jo, ve, fo
  <2> QED BY <2>2, <2>3 DEF Window
<1>4. /\ \A s \in SessionIDs : Closed.joined[s] = NotJoined
      /\ NotJoined.generation = 0 /\ Closed.live = {} /\ Closed.replayed = {}
      /\ Closed.checked = {} /\ Closed.contents = {} /\ Closed.open = FALSE
  BY DEF Closed, NotJoined
<1>5. TypeOK
  BY <1>1, <1>2, <1>3, <1>4, FreshAccounted DEF TypeOK, InOrder
<1>6. \A g \in Generations : g # 0
  BY Finite
<1>7. OneOwner
  BY <1>1, <1>4, <1>6 DEF OneOwner, OneOwnerIn, RefersIn
<1>8. UnreferencedFresh /\ TrackedAccounted
  BY <1>1, <1>2 DEF UnreferencedFresh, TrackedAccounted
<1>9. OpenWindowsAccounted
  <2> SUFFICES ASSUME NEW g \in Generations
               PROVE  state[g].openWindows = Cardinality(Joiners(g))
    BY DEF OpenWindowsAccounted, Joiners
  <2>1. Joiners(g) = {}
    BY <1>1, <1>4, <1>6 DEF Joiners
  <2>2. state[g].openWindows = 0
    BY <1>1 DEF Fresh
  <2> QED BY <2>1, <2>2, FS_EmptySet
<1>10. WindowsInShape
  BY <1>1, <1>4 DEF WindowsInShape, Joined
<1>11. LiveRecordedRaw /\ OverlapIsStale
  BY <1>1, <1>4 DEF LiveRecordedRaw, OverlapIsStale
<1> QED BY <1>5, <1>7, <1>8, <1>9, <1>10, <1>11 DEF IInv
-----------------------------------------------------------------------------
(* What every step does to the sessions that are in use, and to the new    *)
(* parts of windows that another window overlapped.                        *)
EvictsIdle ==
  \A s \in Tracked :
    InUse(s) => generation'[s] = generation[s] \/ DeleteSession(s) \/ Clear
OverlapsRollBack == \A w \in Windows : ~window'[w].open => RolledBack(w)

(* A window that is not open has no parts.                                 *)
LEMMA ClosedHasNothing ==
  ASSUME IInv, NEW w \in Windows, ~window[w].open
  PROVE  RolledBack(w)
<1>1. window[w] = Closed
  BY DEF IInv, WindowsInShape
<1> QED BY <1>1 DEF RolledBack, Closed

(* Every step keeps the invariant.                                         *)
LEMMA NextKeeps ==
  ASSUME IInv, [Next]_vars
  PROVE  IInv' /\ EvictsIdle /\ (UNCHANGED vars \/ OverlapsRollBack)
<1>0. window \in [Windows -> Window]
  BY DEF IInv, TypeOK
<1>1. ASSUME NEW w \in Windows, NEW q \in Requests, Begin(w, q, hostVersion)
      PROVE  IInv' /\ EvictsIdle /\ OverlapsRollBack
  <2>0. /\ q.ids \in Seq(SessionIDs) /\ IsInjective(q.ids) /\ q.parts \in SUBSET Parts
        /\ hostVersion \in [Parts -> Nat]
    BY LifecycleAssumption DEF IInv, TypeOK
  <2>1. IInv' /\ EvictsIdle
    BY <1>1, <2>0, BeginKeeps DEF EvictsIdle
  <2>2. window'[w].open = TRUE
    BY ZenonT(60), <1>0, <1>1 DEF Begin, BeginWith
  <2>3. \A v \in Windows : v # w => window'[v].open = window[v].open
    BY Zenon, <1>0, <1>1 DEF Begin, BeginWith, Window
  <2>4. OverlapsRollBack
    BY <2>2, <2>3, ClosedHasNothing DEF OverlapsRollBack
  <2> QED BY <2>1, <2>4
<1>2. ASSUME IInv', generation' = generation, \A v \in Windows : window'[v].open = window[v].open
      PROVE  IInv' /\ EvictsIdle /\ OverlapsRollBack
  BY <1>2, ClosedHasNothing DEF EvictsIdle, OverlapsRollBack
<1>3. ASSUME NEW w \in Windows, NEW p \in Parts, Check(w, p)
      PROVE  IInv' /\ EvictsIdle /\ OverlapsRollBack
  <2>1. generation' = generation /\ window' = [window EXCEPT ![w].checked = @ \cup {p}]
    BY <1>3 DEF Check, manager
  <2>2. \A v \in Windows : window'[v].open = window[v].open
    BY <1>0, <2>1 DEF Window
  <2> QED BY <1>2, <1>3, <2>1, <2>2, CheckKeeps
<1>4. ASSUME NEW w \in Windows, NEW p \in Parts, Invalidate(w, p)
      PROVE  IInv' /\ EvictsIdle /\ OverlapsRollBack
  <2>1. /\ generation' = generation
        /\ window' = [window EXCEPT ![w].replayed = @ \ {p}, ![w].form[p] = Raw]
    BY <1>4 DEF Invalidate
  <2>2. \A v \in Windows : window'[v].open = window[v].open
    BY <1>0, <2>1 DEF Window
  <2> QED BY <1>2, <1>4, <2>1, <2>2, InvalidateKeeps
<1>5. ASSUME NEW w \in Windows, NEW p \in Parts, NEW f \in Forms \cup {Raw}, Write(w, p, f)
      PROVE  IInv' /\ EvictsIdle /\ OverlapsRollBack
  <2>1. generation' = generation /\ window' = [window EXCEPT ![w].form[p] = f]
    BY <1>5 DEF Write, manager
  <2>2. \A v \in Windows : window'[v].open = window[v].open
    BY <1>0, <2>1 DEF Window
  <2> QED BY <1>2, <1>5, <2>1, <2>2, WriteKeeps
<1>6. ASSUME NEW w \in Windows, Commit(w) \/ Abort(w)
      PROVE  IInv' /\ EvictsIdle /\ OverlapsRollBack
  <2>1. IInv' /\ generation' = generation /\ RolledBack(w)
    BY <1>6, CommitKeeps, AbortKeeps
  <2>2. window' = [window EXCEPT ![w] = Closed]
    BY <1>6, Zenon DEF Commit, Abort, Close
  <2>3. \A v \in Windows : v # w => window'[v] = window[v]
    BY <1>0, <2>2
  <2> QED BY <2>1, <2>3, ClosedHasNothing DEF EvictsIdle, OverlapsRollBack
<1>7. ASSUME NEW s \in SessionIDs, DeleteSession(s)
      PROVE  IInv' /\ EvictsIdle /\ OverlapsRollBack
  <2>1. /\ window' = window /\ \A i \in SessionIDs : i # s => generation'[i] = generation[i]
    <3>1. window' = window /\ generation' = [generation EXCEPT ![s] = 0]
      BY <1>7, Zenon DEF DeleteSession
    <3> QED BY <3>1 DEF IInv, TypeOK
  <2>2. EvictsIdle
    BY <1>7, <2>1 DEF EvictsIdle, Tracked, KeysOf
  <2> QED BY <1>7, <2>1, <2>2, DeleteSessionKeeps, ClosedHasNothing DEF OverlapsRollBack
<1>8. ASSUME Clear
      PROVE  IInv' /\ EvictsIdle /\ OverlapsRollBack
  <2>1. window' = window
    BY <1>8, Zenon DEF Clear
  <2> QED BY <1>8, <2>1, ClearKeeps, ClosedHasNothing DEF EvictsIdle, OverlapsRollBack
<1>9. ASSUME NEW p \in Parts, HostEdit(p)
      PROVE  IInv' /\ EvictsIdle /\ OverlapsRollBack
  <2>1. generation' = generation /\ window' = window
    BY <1>9 DEF HostEdit, manager
  <2> QED BY <1>2, <1>9, <2>1, HostEditKeeps
<1>10. CASE UNCHANGED vars
  <2>1. IInv'
    <3>1. /\ UNCHANGED <<mapOrder, generation, state>> /\ window' = window
          /\ hostVersion' = hostVersion /\ firstSent' = firstSent /\ lastSent' = lastSent
      BY <1>10 DEF vars
    <3>2. /\ hostVersion \in [Parts -> Nat]
          /\ {firstSent, lastSent} \subseteq [Parts -> Forms \cup {Raw, NotSent}]
          /\ \A v \in Windows : window[v].checked \subseteq window[v].live
      BY DEF IInv, TypeOK
    <3> QED BY <1>0, <3>1, <3>2, WindowStep
  <2> QED BY <1>10, <2>1 DEF EvictsIdle, vars
<1> QED
  BY <1>1, <1>3, <1>4, <1>5, <1>6, <1>7, <1>8, <1>9, <1>10 DEF Next
-----------------------------------------------------------------------------
(* In every reachable state the invariant above holds: every object has    *)
(* one owner, and what a window may still change is recorded raw.          *)
THEOREM Inductive == Spec => []IInv
<1>1. IInv /\ [Next]_vars => IInv'
  BY NextKeeps
<1> QED BY InitIsConsistent, <1>1, PTL DEF Spec

(* The manager's bookkeeping is exact in every reachable state: the        *)
(* counters of a tracked session are the characters and the number of the  *)
(* representations it can replay, and openWindows the windows that joined  *)
(* its object, through every mix of begin, commit, abort, invalidation,    *)
(* deletion and eviction.                                                  *)
THEOREM RecordsKept == Spec => []RecordsConsistent
<1>1. IInv => RecordsConsistent
  <2> SUFFICES ASSUME IInv PROVE RecordsConsistent
    OBVIOUS
  <2>1. RetentionAccounted
    <3> SUFFICES ASSUME NEW s \in Tracked
                 PROVE  LET g == generation[s]
                        IN  /\ state[g].count = Cardinality(Retained(g))
                            /\ state[g].chars = CharsOf(state[g], Parts)
                            /\ state[g].chars <= MaxChars
      BY DEF RetentionAccounted
    <3>1. Accounted(state[generation[s]])
      BY DEF IInv, TrackedAccounted
    <3> QED BY <3>1 DEF Accounted, Retained
  <2> QED BY <2>1 DEF IInv, RecordsConsistent
<1> QED BY <1>1, Inductive, PTL

(* The session that createSession evicts to make room is never one that    *)
(* has a representation to replay or an open window: only deleteSession    *)
(* and clear end those.                                                    *)
THEOREM InUseStays == Spec => InUseNeverEvicted
<1>1. IInv /\ [Next]_vars
        => [\A s \in Tracked :
              (Retained(generation[s]) # {}
                 \/ \E w \in Windows : window[w].joined[s].generation = generation[s])
                => generation'[s] = generation[s] \/ DeleteSession(s) \/ Clear]_vars
  BY NextKeeps DEF EvictsIdle, InUse
<1> QED BY <1>1, Inductive, PTL DEF Spec, InUseNeverEvicted

(* Two windows that were open on one session object at the same time both  *)
(* end with their new parts raw, whichever of commit and abort ends them   *)
(* and in whatever order.                                                  *)
THEOREM OverlapsEndRaw == Spec => OverlapRollsBack
<1>1. IInv /\ [Next]_vars
        => [\A w \in Windows : \A p \in window[w].live :
              (SessionOf[p] \in window[w].overlapped /\ ~window'[w].open)
                => LET g == Joined(w, p).generation IN ~Changed(state'[g].parts[p])]_vars
  BY NextKeeps DEF OverlapsRollBack, RolledBack
<1> QED BY <1>1, Inductive, PTL DEF Spec, OverlapRollsBack
=============================================================================
