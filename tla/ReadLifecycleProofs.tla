-------------------------- MODULE ReadLifecycleProofs --------------------------
(***************************************************************************)
(* Safety of ReadLifecycle for every set of operations, contents, calls    *)
(* and hashes and every limit.                                             *)
(*                                                                         *)
(* SentMarkersResolve speaks of the moment a request leaves; the invariant *)
(* says what holds on the way there: the replayed markers before `at' are  *)
(* confirmed while the preflight runs, and from then on all are            *)
(* (MarkersConfirmed), a part that is about to be replaced is still due    *)
(* (Whereabouts), and a row lost is remembered in `lost'.  A put does not  *)
(* take the hash of another original (AllocatedUsable, a pigeonhole        *)
(* argument over the candidates).                                          *)
(*                                                                         *)
(* HiddenIsObsolete is about what classifyReads computes: its states are   *)
(* derived from its backward loop by induction (FutureIs), and when the    *)
(* read that covers another is replaced in turn, the last unreplaced one   *)
(* that covers both takes its place (MarkingKeepsObsolete).                *)
(***************************************************************************)
EXTENDS ReadLifecycle, FiniteSetTheorems, SequenceTheorems, WellFoundedInduction, TLAPS

-----------------------------------------------------------------------------
(* A nonempty set of naturals has a least member.                          *)
LEMMA LeastNat ==
  ASSUME NEW T, T \subseteq Nat, T # {}
  PROVE  \E x \in T : \A y \in T : x <= y
<1> DEFINE R == OpToRel(<, Nat)
<1>1. PICK x \in T : \A y \in T : ~ (<<y, x>> \in R)
  BY NatLessThanWellFounded, WFMin
<1>2. \A y \in T : ~(y < x)
  <2> TAKE y \in T
  <2>1. y \in Nat /\ x \in Nat
    OBVIOUS
  <2>2. y < x => <<y, x>> \in R
    BY <2>1 DEF OpToRel
  <2> QED BY <1>1, <2>2
<1> QED BY <1>2

(* Induction, for a set of naturals.                                       *)
LEMMA Induction ==
  ASSUME NEW T, T \subseteq Nat, 0 \in T, \A n \in T : n + 1 \in T
  PROVE  T = Nat
<1>1. SUFFICES ASSUME Nat \ T # {} PROVE FALSE
  OBVIOUS
<1>2. PICK n \in Nat \ T : \A y \in Nat \ T : n <= y
  BY <1>1, LeastNat
<1>3. n # 0 /\ n - 1 \in Nat /\ n - 1 < n /\ n - 1 + 1 = n
  BY <1>2
<1>4. n - 1 \in T
  BY <1>2, <1>3
<1> QED BY <1>2, <1>3, <1>4

(* The rows, markers and replacements that the operations give rise to.    *)
Hashes == UNION {Range(CandidateHash[c]) : c \in Contents}
States == {"write", "stale", "superseded", "fresh"}
Markers == [path : Paths, state : States, hash : Hashes]
Rows == [hash : Hashes, content : Contents, compressed : Markers]
Calls == {o.call : o \in Operations}
Replacements == [call : Calls, hash : Hashes, content : Contents]

(* The shape of every variable.                                            *)
Shapes ==
  /\ history \in Seq(Operations) /\ Len(history) <= MaxHistory
  /\ seen \in 0 .. Len(history) /\ observed \in BOOLEAN
  /\ sent \in [Positions -> Markers \cup {Raw}]
  /\ output \in [Positions -> Markers \cup {Raw}]
  /\ rows \in Seq(Rows)
  /\ replacements \in Seq(Replacements)
  /\ pc \in {"idle", "validating", "replacing", "putting"}
  /\ at \in Nat

OnlyReadsMarked ==
  \A i \in Positions : output[i] # Raw => i <= Len(history) /\ history[i].kind = "read"

(* this.replacements has one entry a key, and no more than its limit.      *)
IsMap(R) ==
  /\ R \in Seq(Replacements) /\ Len(R) <= MaxReplacements
  /\ \A i, j \in DOMAIN R : R[i].call = R[j].call => i = j

(* While markers are validated the request shows what was sent; the part   *)
(* apply() is at has a marker, and later on is one that may be replaced.   *)
Whereabouts ==
  /\ pc \in {"idle", "validating"} => output = sent
  /\ pc # "idle" => at \in 1 .. Len(history) + 1
  /\ pc = "validating" /\ at <= Len(history) => Marked(at)
  /\ pc \in {"replacing", "putting"} /\ at <= Len(history) => Due(at)
  /\ pc = "putting" => at <= Len(history)

(* The marker of a part leads to its output, or lost its row just now.     *)
Resolves(i) ==
  \/ output[i].hash \in lost
  \/ \E r \in Peek(output[i].hash) : r.content = history[i].content
MarkersConfirmed ==
  \A i \in DOMAIN history :
    Marked(i) /\ ((pc = "validating" /\ i < at) \/ pc \in {"replacing", "putting"})
      => Resolves(i)

IInv ==
  /\ Shapes /\ OnlyReadsMarked /\ IsMap(replacements)
  /\ Whereabouts /\ MarkersConfirmed /\ HiddenIsObsolete
-----------------------------------------------------------------------------
(* The next position of S from i on, or the end of the history.            *)
LEMMA NextOfIs ==
  ASSUME history \in Seq(Operations), NEW S, S \subseteq DOMAIN history,
         NEW i \in 1 .. Len(history) + 1
  PROVE  /\ NextOf(S, i) \in i .. Len(history) + 1
         /\ NextOf(S, i) <= Len(history) => NextOf(S, i) \in S
         /\ \A j \in S : i <= j => NextOf(S, i) <= j
<1> DEFINE T == {j \in S : i <= j} \cup {Len(history) + 1}
<1>1. /\ Len(history) \in Nat /\ DOMAIN history = 1 .. Len(history)
      /\ T \subseteq Nat /\ T # {} /\ \A j \in T : i <= j /\ j <= Len(history) + 1
  OBVIOUS
<1>2. \E x \in T : \A y \in T : x <= y
  <2> HIDE DEF T
  <2> QED BY <1>1, LeastNat
<1>3. NextOf(S, i) \in T /\ \A y \in T : NextOf(S, i) <= y
  <2> HIDE DEF T
  <2>1. NextOf(S, i) = CHOOSE x \in T : \A y \in T : x <= y
    BY DEF NextOf, Min, T
  <2> QED BY <1>2, <2>1
<1> QED BY <1>1, <1>3

(* The row a peek finds in the rows R: the newest of the hash.             *)
Positioned(R, h) == {n \in DOMAIN R : R[n].hash = h}
NewestOf(R, h) ==
  {R[n] : n \in {k \in Positioned(R, h) : \A i \in Positioned(R, h) : i <= k}}

(* Confirmation, now and after a step, in terms of the rows.               *)
LEMMA ResolvesIs ==
  /\ \A h : Peek(h) = NewestOf(rows, h)
  /\ \A i : Resolves(i)
       <=> \/ output[i].hash \in lost
           \/ \E r \in NewestOf(rows, output[i].hash) : r.content = history[i].content
  /\ \A i : Resolves(i)'
       <=> \/ output'[i].hash \in lost'
           \/ \E r \in NewestOf(rows', output'[i].hash) : r.content = history'[i].content
BY DEF Resolves, Peek, WithHash, NewestOf, Positioned

(* A row that is lost takes only markers of its own hash with it.          *)
LEMMA PeekAfterLoss ==
  ASSUME NEW R \in Seq(Rows), R # <<>>,
         NEW h, h # Head(R).hash, NEW r \in NewestOf(R, h)
  PROVE  r \in NewestOf(Tail(R), h)
<1> DEFINE T == Tail(R)
<1>1. PICK k \in Positioned(R, h) : r = R[k] /\ \A i \in Positioned(R, h) : i <= k
  BY DEF NewestOf
<1>2. /\ Len(R) \in Nat /\ Len(R) > 0 /\ DOMAIN R = 1 .. Len(R)
      /\ DOMAIN T = 1 .. Len(R) - 1
      /\ \A n \in 1 .. Len(R) - 1 : T[n] = R[n + 1]
      /\ Head(R) = R[1]
  OBVIOUS
<1> HIDE DEF T
<1>3. k \in 1 .. Len(R) /\ R[k].hash = h /\ k # 1
  BY <1>1, <1>2 DEF Positioned
<1>4. k - 1 \in Positioned(T, h) /\ T[k - 1] = r
  <2>1. k - 1 \in 1 .. Len(R) - 1 /\ k - 1 + 1 = k
    BY <1>2, <1>3
  <2> QED BY <1>1, <1>2, <1>3, <2>1 DEF Positioned
<1>5. ASSUME NEW i \in Positioned(T, h) PROVE i <= k - 1
  <2>1. i \in 1 .. Len(R) - 1 /\ T[i].hash = h
    BY <1>2 DEF Positioned
  <2>2. i + 1 \in 1 .. Len(R) /\ R[i + 1].hash = h
    BY <1>2, <2>1
  <2>3. i + 1 <= k
    BY <1>1, <1>2, <2>2 DEF Positioned
  <2> QED BY <1>3, <2>1, <2>3
<1>6. r \in NewestOf(T, h)
  BY <1>4, <1>5 DEF NewestOf
<1> QED BY <1>6 DEF T

(* A put makes its row the one found, and hides rows of its hash only.     *)
LEMMA PeekAfterPut ==
  ASSUME NEW R \in Seq(Rows), NEW new \in Rows, NEW h
  PROVE  /\ h = new.hash => new \in NewestOf(Append(R, new), h)
         /\ h # new.hash => NewestOf(R, h) \subseteq NewestOf(Append(R, new), h)
<1> DEFINE A == Append(R, new)
<1>1. /\ Len(R) \in Nat /\ DOMAIN R = 1 .. Len(R)
      /\ DOMAIN A = 1 .. Len(R) + 1
      /\ \A n \in 1 .. Len(R) : A[n] = R[n]
      /\ A[Len(R) + 1] = new
  OBVIOUS
<1> HIDE DEF A
<1>2. Positioned(A, h) = {n \in 1 .. Len(R) + 1 : A[n].hash = h}
  BY <1>1 DEF Positioned
<1>4. CASE h = new.hash
  <2>1. Len(R) + 1 \in Positioned(A, h) /\ \A i \in Positioned(A, h) : i <= Len(R) + 1
    BY <1>1, <1>2, <1>4
  <2> QED BY <1>1, <1>4, <2>1 DEF NewestOf, A
<1>5. CASE h # new.hash
  <2>1. Positioned(A, h) = Positioned(R, h)
    BY <1>1, <1>2, <1>5 DEF Positioned
  <2>2. ASSUME NEW r \in NewestOf(R, h) PROVE r \in NewestOf(A, h)
    <3>1. PICK k \in Positioned(R, h) : r = R[k] /\ \A i \in Positioned(R, h) : i <= k
      BY DEF NewestOf
    <3>2. A[k] = R[k]
      BY <1>1 DEF Positioned
    <3> QED BY <2>1, <3>1, <3>2 DEF NewestOf
  <2> QED BY <1>5, <2>2 DEF A
<1> QED BY <1>4, <1>5

(* allocateHash ends, with a hash that no other original has in the store. *)
LEMMA AllocatedUsable ==
  ASSUME rows \in Seq(Rows), Len(rows) < MaxRows, NEW c \in Contents
  PROVE  /\ Allocated(c) \in Hashes
         /\ \A n \in WithHash(Allocated(c)) : rows[n].content = c
<1> DEFINE C == CandidateHash[c]
           N == Len(C)
           Usable(h) == \A n \in WithHash(h) : rows[n].content = c
           T == {n \in 1 .. N : Usable(C[n])}
<1>1. /\ N \in Nat /\ DOMAIN C = 1 .. N /\ N >= MaxRows /\ MaxRows \in Nat
      /\ \A n, k \in 1 .. N : C[n] = C[k] => n = k
  <2>1. C \in Seq(Range(C)) /\ N >= MaxRows /\ IsInjective(C) /\ MaxRows \in Nat
    BY ReadLifecycleAssumption
  <2>2. N \in Nat /\ DOMAIN C = 1 .. N
    BY <2>1
  <2> QED BY <2>1, <2>2 DEF IsInjective
<1>2. Len(rows) \in Nat /\ DOMAIN rows = 1 .. Len(rows)
  OBVIOUS
<1>3. T # {}
  <2> SUFFICES ASSUME T = {} PROVE FALSE
    OBVIOUS
  <2> DEFINE f == [n \in 1 .. N |-> CHOOSE k \in 1 .. Len(rows) : rows[k].hash = C[n]]
  <2>1. ASSUME NEW n \in 1 .. N PROVE f[n] \in 1 .. Len(rows) /\ rows[f[n]].hash = C[n]
    <3>1. ~ Usable(C[n])
      OBVIOUS
    <3>2. \E k \in 1 .. Len(rows) : rows[k].hash = C[n]
      BY <1>2, <3>1 DEF WithHash
    <3> QED BY <3>2
  <2>2. DOMAIN f = 1 .. N
    OBVIOUS
  <2>3. f \in [1 .. N -> 1 .. Len(rows)]
    BY <2>1
  <2> HIDE DEF f
  <2>4. \A n, k \in 1 .. N : f[n] = f[k] => n = k
    BY <1>1, <2>1
  <2>5. f \in Injection(1 .. N, 1 .. Len(rows))
    BY <2>3, <2>4 DEF Injection, IsInjective
  <2>6. /\ IsFiniteSet(1 .. Len(rows)) /\ Cardinality(1 .. Len(rows)) = Len(rows)
        /\ Cardinality(1 .. N) = N
    <3>1. /\ 1 \in Int /\ N \in Int /\ Len(rows) \in Int
          /\ (IF 1 > N THEN 0 ELSE N - 1 + 1) = N
          /\ (IF 1 > Len(rows) THEN 0 ELSE Len(rows) - 1 + 1) = Len(rows)
      BY <1>1, <1>2
    <3> QED BY <3>1, FS_Interval
  <2>7. N <= Len(rows)
    BY <2>5, <2>6, FS_Injection
  <2> QED BY <1>1, <1>2, <2>7
<1>4. T \subseteq Nat
  BY <1>1
<1>5. PICK m \in T : \A k \in T : m <= k
  <2> HIDE DEF T
  <2> QED BY <1>3, <1>4, LeastNat
<1> DEFINE First(n) == Usable(C[n]) /\ \A k \in 1 .. n - 1 : ~Usable(C[k])
<1>6. m \in DOMAIN C /\ First(m)
  BY <1>1, <1>5
<1> DEFINE x == CHOOSE n \in DOMAIN C : First(n)
<1>7. x \in DOMAIN C /\ First(x)
  <2> HIDE DEF First
  <2> QED BY <1>6
<1>8. Allocated(c) = C[x]
  BY DEF Allocated
<1>9. C[x] \in Hashes
  <2> HIDE DEF x
  <2>1. C[x] \in Range(C)
    BY <1>7 DEF Range
  <2> QED BY <2>1 DEF Hashes
<1> QED BY <1>7, <1>8, <1>9
-----------------------------------------------------------------------------
(* Deleting a key and setting one keep this.replacements a map.            *)
LEMMA WithoutKeeps ==
  ASSUME IsMap(replacements), NEW call
  PROVE  /\ IsMap(Without(call))
         /\ \A i \in DOMAIN Without(call) : Without(call)[i].call # call
<1>1. /\ replacements \in Seq(Replacements) /\ Len(replacements) <= MaxReplacements
      /\ \A i, j \in DOMAIN replacements :
           replacements[i].call = replacements[j].call => i = j
      /\ MaxReplacements \in Nat
  BY ReadLifecycleAssumption DEF IsMap
<1>2. CASE Cached(call) = {}
  <2>1. Without(call) = replacements
    BY <1>2 DEF Without
  <2> QED BY <1>2, <2>1 DEF Cached
<1>3. CASE Cached(call) # {}
  <2> DEFINE n == CHOOSE k \in Cached(call) : TRUE
             R == replacements
             L == Len(R)
             W == Without(call)
  <2>1. n \in Cached(call)
    BY <1>3
  <2> HIDE DEF n
  <2>2. L \in Nat /\ n \in 1 .. L /\ R[n].call = call /\ DOMAIN R = 1 .. L
    BY <1>1, <2>1 DEF Cached
  <2>3. W = SubSeq(R, 1, n - 1) \o SubSeq(R, n + 1, L)
    BY <1>3 DEF Without, RemoveAt, n
  <2>4. /\ SubSeq(R, 1, n - 1) \in Seq(Replacements) /\ Len(SubSeq(R, 1, n - 1)) = n - 1
        /\ \A i \in 1 .. n - 1 : SubSeq(R, 1, n - 1)[i] = R[i]
    BY <1>1, <2>2
  <2>5. /\ SubSeq(R, n + 1, L) \in Seq(Replacements) /\ Len(SubSeq(R, n + 1, L)) = L - n
        /\ \A i \in 1 .. L - n : SubSeq(R, n + 1, L)[i] = R[i + n]
    <3>1. R \in Seq(Replacements)
      BY <1>1
    <3> HIDE DEF R, L
    <3>2. /\ n + 1 \in Nat /\ L - (n + 1) + 1 = L - n /\ L - n \in Nat
          /\ n + 1 <= L => \A i \in n + 1 .. L : i \in 1 .. L
      BY <2>2
    <3>3. \A i \in n + 1 .. L : R[i] \in Replacements
      BY <2>2, <3>1, <3>2
    <3>4. /\ SubSeq(R, n + 1, L) \in Seq(Replacements)
          /\ Len(SubSeq(R, n + 1, L)) = IF n + 1 <= L THEN L - (n + 1) + 1 ELSE 0
          /\ \A i \in 1 .. L - (n + 1) + 1 : SubSeq(R, n + 1, L)[i] = R[n + 1 + i - 1]
      <4>1. n + 1 \in Int /\ L \in Int
        BY <2>2
      <4> QED BY <3>3, <4>1, SubSeqProperties
    <3>5. /\ (IF n + 1 <= L THEN L - (n + 1) + 1 ELSE 0) = L - n
          /\ \A i \in 1 .. L - n : n + 1 + i - 1 = i + n
      BY <2>2
    <3> QED BY <3>2, <3>4, <3>5
  <2> DEFINE P == SubSeq(R, 1, n - 1)
             Q == SubSeq(R, n + 1, L)
  <2> HIDE DEF P, Q
  <2>6. /\ P \in Seq(Replacements) /\ Len(P) = n - 1 /\ \A i \in 1 .. n - 1 : P[i] = R[i]
        /\ Q \in Seq(Replacements) /\ Len(Q) = L - n
        /\ \A i \in 1 .. L - n : Q[i] = R[i + n]
        /\ W = P \o Q
    BY <2>3, <2>4, <2>5 DEF P, Q
  <2> HIDE DEF W, R, L
  <2>7. W \in Seq(Replacements) /\ Len(W) = L - 1 /\ DOMAIN W = 1 .. L - 1
    <3>1. W \in Seq(Replacements) /\ Len(W) = Len(P) + Len(Q)
      <4>1. P \in Seq(Replacements) /\ Q \in Seq(Replacements) /\ W = P \o Q
        BY <2>6
      <4> QED BY <4>1
    <3>2. Len(W) = L - 1
      BY <2>2, <2>6, <3>1
    <3> QED BY <3>1, <3>2
  <2>8. \A i \in 1 .. L - 1 : W[i] = R[IF i < n THEN i ELSE i + 1]
    <3> TAKE i \in 1 .. L - 1
    <3>1. CASE i < n
      BY <2>2, <2>6, <3>1
    <3>2. CASE ~(i < n)
      <4>1. i - (n - 1) \in 1 .. L - n /\ i - (n - 1) + n = i + 1 /\ i > n - 1 /\ i \in Nat
        BY <2>2, <3>2
      <4>2. W[i] = Q[i - (n - 1)]
        BY <2>2, <2>6, <4>1
      <4> QED BY <2>6, <3>2, <4>1, <4>2
    <3> QED BY <3>1, <3>2
  <2>9. \A i \in 1 .. L - 1 : /\ (IF i < n THEN i ELSE i + 1) \in 1 .. L
                              /\ (IF i < n THEN i ELSE i + 1) # n
    BY <2>2
  <2>10. \A i, j \in 1 .. L - 1 :
           (IF i < n THEN i ELSE i + 1) = (IF j < n THEN j ELSE j + 1) => i = j
    BY <2>2
  <2>11. \A i, j \in 1 .. L : R[i].call = R[j].call => i = j
    BY <1>1, <2>2 DEF R
  <2>12. \A i \in DOMAIN W : W[i].call # call
    BY <2>2, <2>7, <2>8, <2>9, <2>11
  <2>13. \A i, j \in DOMAIN W : W[i].call = W[j].call => i = j
    BY <2>7, <2>8, <2>9, <2>10, <2>11
  <2>14. Len(W) <= MaxReplacements
    BY <1>1, <2>2, <2>7 DEF L, R
  <2> QED BY <2>7, <2>12, <2>13, <2>14 DEF IsMap, W
<1> QED BY <1>2, <1>3

LEMMA RememberKeeps ==
  ASSUME IsMap(replacements), NEW call \in Calls, NEW h \in Hashes, NEW c \in Contents
  PROVE  IsMap(Remember(call, h, c))
<1> DEFINE W == Without(call)
           new == [call |-> call, hash |-> h, content |-> c]
           G == Append(W, new)
<1>1. IsMap(W) /\ \A i \in DOMAIN W : W[i].call # call
  BY WithoutKeeps
<1>2. Remember(call, h, c) = IF Len(G) > MaxReplacements THEN Tail(G) ELSE G
  BY DEF Remember
<1>3. MaxReplacements \in Nat \ {0}
  BY ReadLifecycleAssumption
<1>4. new \in Replacements /\ new.call = call
  BY DEF Replacements
<1> HIDE DEF W, new
<1>5. /\ W \in Seq(Replacements) /\ Len(W) \in Nat /\ DOMAIN W = 1 .. Len(W)
      /\ Len(W) <= MaxReplacements
      /\ \A i, j \in 1 .. Len(W) : W[i].call = W[j].call => i = j
  BY <1>1 DEF IsMap
<1>6. /\ G \in Seq(Replacements) /\ Len(G) = Len(W) + 1 /\ DOMAIN G = 1 .. Len(W) + 1
      /\ \A i \in 1 .. Len(W) : G[i] = W[i]
      /\ G[Len(W) + 1] = new
  BY <1>4, <1>5
<1> HIDE DEF G
<1>7. \A i, j \in 1 .. Len(W) + 1 : G[i].call = G[j].call => i = j
  <2>1. \A i \in 1 .. Len(W) + 1 : i \in 1 .. Len(W) \/ i = Len(W) + 1
    BY <1>5
  <2>2. \A i \in 1 .. Len(W) : G[i].call # call
    BY <1>1, <1>5, <1>6
  <2> QED BY <1>4, <1>5, <1>6, <2>1, <2>2
<1>8. CASE Len(G) > MaxReplacements
  <2> DEFINE U == Tail(G)
  <2>1. /\ U \in Seq(Replacements) /\ Len(U) = Len(W)
        /\ DOMAIN U = 1 .. Len(W) /\ \A i \in 1 .. Len(W) : U[i] = G[i + 1]
    BY <1>5, <1>6
  <2>2. Remember(call, h, c) = U
    BY <1>2, <1>8
  <2> HIDE DEF U
  <2>3. ASSUME NEW i \in 1 .. Len(W), NEW j \in 1 .. Len(W), U[i].call = U[j].call
        PROVE  i = j
    <3>1. i + 1 \in 1 .. Len(W) + 1 /\ j + 1 \in 1 .. Len(W) + 1 /\ i \in Nat /\ j \in Nat
      BY <1>5
    <3>2. U[i] = G[i + 1] /\ U[j] = G[j + 1]
      BY <2>1
    <3>3. i + 1 = j + 1
      BY <1>7, <2>3, <3>1, <3>2
    <3> QED BY <3>1, <3>3
  <2> QED BY <1>5, <2>1, <2>2, <2>3 DEF IsMap
<1>9. CASE ~(Len(G) > MaxReplacements)
  BY <1>2, <1>3, <1>5, <1>6, <1>7, <1>9 DEF IsMap
<1> QED BY <1>8, <1>9
-----------------------------------------------------------------------------
(* What the last n operations tell the ones before them: which paths they  *)
(* write, and the ranges they read.                                        *)
Later(ops, n, p) == {j \in DOMAIN ops : j > Len(ops) - n /\ ops[j].path = p}
Written(ops, n) == {p \in Paths : \E j \in Later(ops, n, p) : ops[j].kind = "write"}
RangesRead(ops, n, p) ==
  {ReadRange(ops[j]) : j \in {k \in Later(ops, n, p) : ops[k].kind # "write"}}
Ahead(ops, n) ==
  [written |-> Written(ops, n), readRanges |-> [p \in Paths |-> RangesRead(ops, n, p)]]
Advanced(F, o) ==
  IF o.kind = "write" THEN [F EXCEPT !.written = @ \cup {o.path}]
  ELSE [F EXCEPT !.readRanges[o.path] = @ \cup {ReadRange(o)}]
NothingAhead == [written |-> {}, readRanges |-> [p \in Paths |-> {}]]

(* What an operation does to futureByPath.                                 *)
LEMMA EntryUpdates ==
  ASSUME NEW A, NEW W, NEW R, NEW V, NEW Q, A = [written |-> W, readRanges |-> R]
  PROVE  /\ A.written = W /\ A.readRanges = R
         /\ [A EXCEPT !.written = V] = [written |-> V, readRanges |-> R]
         /\ [A EXCEPT !.readRanges = Q] = [written |-> W, readRanges |-> Q]
OBVIOUS

(* One more operation of the backward loop.                                *)
LEMMA AheadSteps ==
  ASSUME NEW ops \in Seq(Operations)
  PROVE  /\ Ahead(ops, 0) = NothingAhead
         /\ \A n \in 1 .. Len(ops) :
              Ahead(ops, n) = Advanced(Ahead(ops, n - 1), ops[Len(ops) + 1 - n])
<1>0. Len(ops) \in Nat /\ DOMAIN ops = 1 .. Len(ops) /\ \A j \in DOMAIN ops : ops[j] \in Operations
  OBVIOUS
<1>1. Ahead(ops, 0) = NothingAhead
  <2>1. \A p \in Paths : Later(ops, 0, p) = {}
    BY <1>0 DEF Later
  <2>2. Written(ops, 0) = {} /\ \A p \in Paths : RangesRead(ops, 0, p) = {}
    BY <2>1 DEF Written, RangesRead
  <2> QED BY <2>2 DEF Ahead, NothingAhead
<1>2. ASSUME NEW n \in 1 .. Len(ops)
      PROVE  Ahead(ops, n) = Advanced(Ahead(ops, n - 1), ops[Len(ops) + 1 - n])
  <2> DEFINE m == Len(ops) + 1 - n
             o == ops[m]
             W == Written(ops, n - 1)
             R == [p \in Paths |-> RangesRead(ops, n - 1, p)]
             A == [written |-> W, readRanges |-> R]
  <2>0. Ahead(ops, n - 1) = A
    BY DEF Ahead
  <2>1. /\ m \in DOMAIN ops /\ o \in Operations /\ o.path \in Paths
        /\ \A j \in DOMAIN ops : j > Len(ops) - n <=> (j > Len(ops) - (n - 1) \/ j = m)
    BY <1>0 DEF Paths
  <2>2. \A p \in Paths : Later(ops, n, p) = Later(ops, n - 1, p)
                                              \cup (IF p = o.path THEN {m} ELSE {})
    <3> HIDE DEF m
    <3> QED BY <2>1 DEF Later
  <2> HIDE DEF m
  <2>3. CASE o.kind = "write"
    <3>1. Written(ops, n) = W \cup {o.path}
      BY <2>1, <2>2, <2>3 DEF Written
    <3>2. \A p \in Paths : RangesRead(ops, n, p) = RangesRead(ops, n - 1, p)
      <4>1. \A p \in Paths : {k \in Later(ops, n, p) : ops[k].kind # "write"}
                                = {k \in Later(ops, n - 1, p) : ops[k].kind # "write"}
        BY <2>1, <2>2, <2>3
      <4> QED BY <4>1 DEF RangesRead
    <3>3. Ahead(ops, n) = [written |-> W \cup {o.path}, readRanges |-> R]
      BY <3>1, <3>2 DEF Ahead
    <3> HIDE DEF W, R, o
    <3>4. [A EXCEPT !.written = @ \cup {o.path}] = [written |-> W \cup {o.path}, readRanges |-> R]
      <4> DEFINE V == W \cup {o.path}
      <4>1. A.written = W /\ [A EXCEPT !.written = V] = [written |-> V, readRanges |-> R]
        <5> HIDE DEF V
        <5> QED BY EntryUpdates
      <4>2. [A EXCEPT !.written = @ \cup {o.path}] = [A EXCEPT !.written = V]
        BY <4>1
      <4> QED BY <4>1, <4>2
    <3>5. Advanced(A, o) = [A EXCEPT !.written = @ \cup {o.path}]
      BY <2>3 DEF Advanced
    <3> QED BY <2>0, <3>3, <3>4, <3>5 DEF o, m
  <2>4. CASE o.kind # "write"
    <3>1. Written(ops, n) = W
      BY <2>1, <2>2, <2>4 DEF Written
    <3>2. \A p \in Paths : RangesRead(ops, n, p) = IF p = o.path THEN R[p] \cup {ReadRange(o)}
                                                    ELSE R[p]
      <4>1. \A p \in Paths : {k \in Later(ops, n, p) : ops[k].kind # "write"}
                                = {k \in Later(ops, n - 1, p) : ops[k].kind # "write"}
                                    \cup (IF p = o.path THEN {m} ELSE {})
        BY <2>1, <2>2, <2>4
      <4> QED BY <4>1 DEF RangesRead
    <3>3. Ahead(ops, n) = [written |-> W, readRanges |->
                             [p \in Paths |-> IF p = o.path THEN R[p] \cup {ReadRange(o)} ELSE R[p]]]
      <4> HIDE DEF W, R, o
      <4> QED BY <3>1, <3>2 DEF Ahead
    <3>4. DOMAIN R = Paths
      OBVIOUS
    <3> HIDE DEF W, R, o
    <3>5. [R EXCEPT ![o.path] = @ \cup {ReadRange(o)}]
            = [p \in Paths |-> IF p = o.path THEN R[p] \cup {ReadRange(o)} ELSE R[p]]
      BY <3>4
    <3>6. [A EXCEPT !.readRanges[o.path] = @ \cup {ReadRange(o)}]
            = [written |-> W, readRanges |-> [R EXCEPT ![o.path] = @ \cup {ReadRange(o)}]]
      <4> DEFINE Q == [R EXCEPT ![o.path] = @ \cup {ReadRange(o)}]
      <4>1. A.readRanges = R /\ [A EXCEPT !.readRanges = Q] = [written |-> W, readRanges |-> Q]
        <5> HIDE DEF Q
        <5> QED BY EntryUpdates
      <4>2. [A EXCEPT !.readRanges[o.path] = @ \cup {ReadRange(o)}] = [A EXCEPT !.readRanges = Q]
        BY <4>1
      <4> QED BY <4>1, <4>2
    <3>7. Advanced(A, o) = [A EXCEPT !.readRanges[o.path] = @ \cup {ReadRange(o)}]
      BY <2>4 DEF Advanced
    <3> QED BY <2>0, <3>3, <3>5, <3>6, <3>7 DEF o, m
  <2> QED BY <2>3, <2>4
<1> QED BY <1>1, <1>2

(* futureByPath, after the last n operations, is what they tell.           *)
LEMMA FutureIs ==
  ASSUME NEW ops \in Seq(Operations), NEW n \in 0 .. Len(ops)
  PROVE  FutureByPath(ops)[n] = Ahead(ops, n)
<1> DEFINE L == Len(ops)
           Solves(F) == F = [k \in 0 .. L |->
                               IF k = 0 THEN NothingAhead
                               ELSE Advanced(F[k - 1], ops[L + 1 - k])]
           G == [k \in 0 .. L |-> Ahead(ops, k)]
           F == CHOOSE H : Solves(H)
<1>0. L \in Nat
  OBVIOUS
<1>1. /\ Ahead(ops, 0) = NothingAhead
      /\ \A k \in 1 .. L : Ahead(ops, k) = Advanced(Ahead(ops, k - 1), ops[L + 1 - k])
  BY AheadSteps
<1>2. FutureByPath(ops) = F
  BY Zenon DEF FutureByPath, Advanced, NothingAhead
<1> HIDE DEF L
<1>3. Solves(G)
  <2>1. ASSUME NEW k \in 0 .. L
        PROVE  Ahead(ops, k) = IF k = 0 THEN NothingAhead
                               ELSE Advanced(G[k - 1], ops[L + 1 - k])
    <3>1. k # 0 => k \in 1 .. L /\ k - 1 \in 0 .. L
      BY <1>0
    <3> QED BY <1>1, <3>1
  <2> HIDE DEF G
  <2>2. G = [k \in 0 .. L |-> Ahead(ops, k)]
    BY DEF G
  <2> QED BY <2>1, <2>2
<1>4. Solves(F)
  <2> HIDE DEF Solves, G
  <2> QED BY <1>3
<1> HIDE DEF F, G
<1> DEFINE T == {k \in Nat : k <= L => F[k] = Ahead(ops, k)}
<1>5. 0 \in T
  <2>1. 0 \in 0 .. L
    BY <1>0
  <2> QED BY <1>1, <1>4, <2>1
<1>6. \A k \in T : k + 1 \in T
  <2> TAKE k \in T
  <2>1. ASSUME k + 1 <= L PROVE F[k + 1] = Ahead(ops, k + 1)
    <3>1. k \in Nat /\ k <= L /\ k + 1 \in 0 .. L /\ k + 1 \in 1 .. L /\ k + 1 # 0 /\ k + 1 - 1 = k
      BY <1>0, <2>1
    <3>2. F[k + 1] = Advanced(F[k + 1 - 1], ops[L + 1 - (k + 1)])
      BY <1>4, <3>1
    <3>3. Ahead(ops, k + 1) = Advanced(Ahead(ops, k + 1 - 1), ops[L + 1 - (k + 1)])
      BY <1>1, <3>1
    <3>4. F[k] = Ahead(ops, k)
      BY <3>1
    <3> QED BY <3>1, <3>2, <3>3, <3>4
  <2> QED BY <2>1
<1>7. T = Nat
  <2> HIDE DEF T
  <2>1. T \subseteq Nat
    BY DEF T
  <2> QED BY <1>5, <1>6, <2>1, Induction
<1> QED BY <1>0, <1>2, <1>7 DEF L

(* classifyReads: a read is stale if a later operation writes its path,    *)
(* and superseded only if a later read of its path covers it.              *)
LEMMA ClassifyIs ==
  ASSUME NEW ops \in Seq(Operations), NEW i \in DOMAIN ops
  PROVE  /\ ClassifyReads(ops)[i] \in States
         /\ ClassifyReads(ops)[i] = "stale"
              => \E j \in i + 1 .. Len(ops) :
                   ops[j].path = ops[i].path /\ ops[j].kind = "write"
         /\ ClassifyReads(ops)[i] = "superseded"
              => \E j \in i + 1 .. Len(ops) :
                   /\ ops[j].path = ops[i].path /\ ops[j].kind # "write"
                   /\ RangeCovers(ReadRange(ops[j]), ReadRange(ops[i]))
<1> DEFINE n == Len(ops) - i
           p == ops[i].path
           ahead == FutureByPath(ops)[n]
<1>1. /\ Len(ops) \in Nat /\ DOMAIN ops = 1 .. Len(ops) /\ i \in 1 .. Len(ops)
      /\ n \in 0 .. Len(ops) /\ ops[i] \in Operations /\ p \in Paths
  BY DEF Paths
<1>2. FutureByPath(ops)[n] = Ahead(ops, n)
  <2> HIDE DEF n
  <2> QED BY <1>1, FutureIs
<1>3. ahead.written = Written(ops, n) /\ ahead.readRanges[p] = RangesRead(ops, n, p)
  BY <1>1, <1>2 DEF Ahead
<1>4. ClassifyReads(ops)[i] =
        IF ops[i].kind = "write" THEN "write"
        ELSE IF p \in ahead.written THEN "stale"
        ELSE IF \E r \in ahead.readRanges[p] : RangeCovers(r, ReadRange(ops[i]))
        THEN "superseded" ELSE "fresh"
  BY DEF ClassifyReads
<1>5. \A j \in Later(ops, n, p) : j \in i + 1 .. Len(ops) /\ ops[j].path = p
  BY <1>1 DEF Later
<1> HIDE DEF ahead, n, p
<1>6. ClassifyReads(ops)[i] \in States
  BY <1>4 DEF States
<1>7. ASSUME ClassifyReads(ops)[i] = "stale"
      PROVE  \E j \in i + 1 .. Len(ops) : ops[j].path = p /\ ops[j].kind = "write"
  <2>1. p \in Written(ops, n)
    BY <1>3, <1>4, <1>7
  <2> QED BY <1>5, <2>1 DEF Written
<1>8. ASSUME ClassifyReads(ops)[i] = "superseded"
      PROVE  \E j \in i + 1 .. Len(ops) :
               /\ ops[j].path = p /\ ops[j].kind # "write"
               /\ RangeCovers(ReadRange(ops[j]), ReadRange(ops[i]))
  <2>1. \E r \in RangesRead(ops, n, p) : RangeCovers(r, ReadRange(ops[i]))
    BY <1>3, <1>4, <1>8
  <2> QED BY <1>5, <2>1 DEF RangesRead
<1> QED BY <1>6, <1>7, <1>8 DEF p
-----------------------------------------------------------------------------
(* A range of a read is a stretch of natural numbers, or there is none.    *)
LEMMA RangesAre ==
  ASSUME NEW o
  PROVE  \/ ReadRange(o) = Nothing
         \/ /\ ReadRange(o) # Nothing
            /\ ReadRange(o).start \in Nat /\ ReadRange(o).end \in Nat
            /\ ReadRange(o).full => ReadRange(o).start = 0 /\ ReadRange(o).end = Infinity
<1> DEFINE offset == IF o.offset = Unset THEN 0 ELSE o.offset
<1>0. Infinity \in Nat /\ Unset \notin Nat
  BY ReadLifecycleAssumption
<1>1. CASE o.offset = Unset /\ o.limit = Unset
  <2>1. ReadRange(o) = [full |-> TRUE, start |-> 0, end |-> Infinity]
    <3> DEFINE whole == [full |-> TRUE, start |-> 0, end |-> Infinity]
    <3>1. 0 \in Nat
      OBVIOUS
    <3> HIDE DEF whole
    <3>2. ReadRange(o) = whole
      BY <1>0, <1>1, <3>1 DEF ReadRange, whole
    <3> QED BY <3>2 DEF whole
  <2>2. ReadRange(o).start = 0 /\ ReadRange(o).end = Infinity
    BY <2>1
  <2>3. Nothing.end = -1 /\ Infinity # -1
    BY <1>0 DEF Nothing
  <2>4. ReadRange(o) # Nothing
    BY <2>2, <2>3
  <2> QED BY <1>0, <2>2, <2>4
<1>2. CASE ~(o.offset = Unset /\ o.limit = Unset) /\ offset \notin Nat
  BY <1>2 DEF ReadRange
<1>3. CASE ~(o.offset = Unset /\ o.limit = Unset) /\ offset \in Nat /\ o.limit = Unset
  <2>1. ReadRange(o) = [full |-> FALSE, start |-> offset, end |-> Infinity]
    BY <1>3 DEF ReadRange
  <2> QED BY <1>0, <1>3, <2>1 DEF Nothing
<1>4. CASE /\ ~(o.offset = Unset /\ o.limit = Unset) /\ offset \in Nat
           /\ o.limit # Unset
  <2>1. ReadRange(o) = IF o.limit \in Nat \ {0}
                       THEN [full |-> FALSE, start |-> offset, end |-> offset + o.limit]
                       ELSE Nothing
    BY <1>4 DEF ReadRange
  <2>2. CASE o.limit \in Nat \ {0}
    <3>1. ReadRange(o) = [full |-> FALSE, start |-> offset, end |-> offset + o.limit]
      BY <2>1, <2>2
    <3>2. offset + o.limit \in Nat
      BY <1>4, <2>2
    <3> HIDE DEF offset
    <3> QED BY <1>4, <3>1, <3>2 DEF Nothing
  <2> QED BY <2>1, <2>2
<1> QED BY <1>1, <1>2, <1>3, <1>4

(* A read that covers another one shows all that one may show, and shows   *)
(* nothing that it may not show.                                           *)
LEMMA CoveringShows ==
  ASSUME NEW o, NEW q
  PROVE  /\ Shown(o) \subseteq MayShow(o)
         /\ RangeCovers(ReadRange(q), ReadRange(o)) => MayShow(o) \subseteq Shown(q)
<1> DEFINE r == ReadRange(o)
           c == ReadRange(q)
<1>0. LastLine \in Nat /\ Infinity \in Nat /\ Infinity > LastLine
  BY ReadLifecycleAssumption
<1>1. /\ r = Nothing \/ (r # Nothing /\ r.start \in Nat /\ r.end \in Nat
                          /\ (r.full => r.start = 0 /\ r.end = Infinity))
      /\ c = Nothing \/ (c # Nothing /\ c.start \in Nat /\ c.end \in Nat
                          /\ (c.full => c.start = 0 /\ c.end = Infinity))
  BY RangesAre
<1>2. /\ Shown(o) = {n \in 0 .. LastLine : r.start <= n /\ n < r.end}
      /\ Shown(q) = {n \in 0 .. LastLine : c.start <= n /\ n < c.end}
      /\ MayShow(o) = IF r = Nothing THEN 0 .. LastLine ELSE Shown(o)
  BY DEF Shown, MayShow
<1>3. Nothing.full = FALSE
  BY DEF Nothing
<1>4. RangeCovers(c, r) <=> \/ c.full
                            \/ /\ c # Nothing /\ r # Nothing /\ ~r.full
                               /\ c.start <= r.start /\ c.end >= r.end
  BY DEF RangeCovers
<1> HIDE DEF r, c
<1>5. Shown(o) \subseteq MayShow(o)
  BY <1>2
<1>6. ASSUME RangeCovers(c, r) PROVE MayShow(o) \subseteq Shown(q)
  <2>1. MayShow(o) \subseteq 0 .. LastLine
    BY <1>2
  <2>2. CASE c.full
    <3>1. c # Nothing /\ c.start = 0 /\ c.end = Infinity
      BY <1>1, <1>3, <2>2
    <3>2. \A n \in 0 .. LastLine : c.start <= n /\ n < c.end
      BY <1>0, <3>1
    <3> QED BY <1>2, <2>1, <3>2
  <2>3. CASE ~c.full
    <3>1. c # Nothing /\ r # Nothing /\ c.start <= r.start /\ c.end >= r.end
      BY <1>4, <1>6, <2>3
    <3>2. MayShow(o) = {n \in 0 .. LastLine : r.start <= n /\ n < r.end}
      BY <1>2, <3>1
    <3>3. \A n \in 0 .. LastLine : r.start <= n /\ n < r.end => c.start <= n /\ n < c.end
      BY <1>0, <1>1, <3>1
    <3> QED BY <1>2, <3>2, <3>3
  <2> QED BY <2>2, <2>3
<1> QED BY <1>5, <1>6 DEF r, c

(* A part that may be replaced is a read after which its path is written,  *)
(* or read by one that shows all it shows.                                 *)
LEMMA DueIsObsolete ==
  ASSUME history \in Seq(Operations), NEW x \in DOMAIN history, Due(x)
  PROVE  /\ history[x].kind = "read" /\ history[x].call \in Calls
         /\ history[x].content \in Contents
         /\ ClassifyReads(history)[x] \in States
         /\ \E j \in x + 1 .. Len(history) :
              /\ history[j].path = history[x].path
              /\ \/ history[j].kind = "write"
                 \/ MayShow(history[x]) \subseteq Shown(history[j])
<1> DEFINE s == ClassifyReads(history)[x]
<1>1. /\ s \in States
      /\ s = "stale" => \E j \in x + 1 .. Len(history) :
                          history[j].path = history[x].path /\ history[j].kind = "write"
      /\ s = "superseded"
           => \E j \in x + 1 .. Len(history) :
                /\ history[j].path = history[x].path
                /\ RangeCovers(ReadRange(history[j]), ReadRange(history[x]))
  BY ClassifyIs
<1>2. s \in {"stale", "superseded"} /\ history[x].kind = "read"
  BY DEF Due, Policy
<1>3. history[x] \in Operations /\ history[x].content \in Contents /\ history[x].call \in Calls
  BY ReadLifecycleAssumption DEF Calls
<1> HIDE DEF s
<1>4. \E j \in x + 1 .. Len(history) :
        /\ history[j].path = history[x].path
        /\ \/ history[j].kind = "write"
           \/ MayShow(history[x]) \subseteq Shown(history[j])
  BY <1>1, <1>2, CoveringShows
<1> QED BY <1>1, <1>2, <1>3, <1>4 DEF s

(* Taking markers back keeps what the others hide obsolete.                *)
LEMMA UnmarkingKeepsObsolete ==
  ASSUME HiddenIsObsolete, history' = history,
         \A i \in DOMAIN history : output'[i] \in {output[i], Raw}
  PROVE  HiddenIsObsolete'
<1> SUFFICES ASSUME NEW i \in DOMAIN history, output'[i] # Raw
             PROVE  \E j \in i + 1 .. Len(history) :
                      /\ history[j].path = history[i].path
                      /\ \/ history[j].kind = "write"
                         \/ output'[j] = Raw /\ MayShow(history[i]) \subseteq Shown(history[j])
  BY DEF HiddenIsObsolete, Marked
<1>1. Marked(i)
  BY DEF Marked
<1>2. PICK j \in i + 1 .. Len(history) :
        /\ history[j].path = history[i].path
        /\ \/ history[j].kind = "write"
           \/ ~Marked(j) /\ MayShow(history[i]) \subseteq Shown(history[j])
  BY <1>1 DEF HiddenIsObsolete
<1>3. CASE history[j].kind = "write"
  BY <1>2, <1>3
<1>4. CASE ~Marked(j) /\ MayShow(history[i]) \subseteq Shown(history[j])
  <2>1. j \in DOMAIN history \/ output'[j] = Raw
    BY <1>4
  <2>2. output'[j] = Raw
    BY <1>4 DEF Marked
  <2> QED BY <1>2, <1>4, <2>2
<1> QED BY <1>2, <1>3, <1>4

(* Replacing one more read does: if it is the one that showed what another *)
(* hides, the last unreplaced read that covers it shows that as well.      *)
LEMMA MarkingKeepsObsolete ==
  ASSUME history \in Seq(Operations), NEW x \in DOMAIN history, Due(x),
         HiddenIsObsolete, history' = history,
         \A i \in DOMAIN history : i # x => output'[i] = output[i]
  PROVE  HiddenIsObsolete'
<1> DEFINE n == Len(history)
           Path(i, j) == history[j].path = history[i].path
           Covers(i, j) == MayShow(history[i]) \subseteq Shown(history[j])
           T == {j \in x + 1 .. n : Path(x, j) /\ Covers(x, j)}
           Bare(j) == output[j] = Raw
<1>0. n \in Nat /\ DOMAIN history = 1 .. n /\ x \in 1 .. n
  OBVIOUS
<1>1. \A i, j, k \in 1 .. n : Covers(i, j) /\ Covers(j, k) => Covers(i, k)
  BY CoveringShows
<1>2. \A i \in 1 .. n : output[i] # Raw =>
        \E j \in i + 1 .. n : Path(i, j) /\ (history[j].kind = "write" \/ (Bare(j) /\ Covers(i, j)))
  BY <1>0 DEF HiddenIsObsolete, Marked
<1>3. \E j \in x + 1 .. n : Path(x, j) /\ (history[j].kind = "write" \/ Covers(x, j))
  BY DueIsObsolete
<1> HIDE DEF Covers, n
<1>4. \E j \in x + 1 .. n : Path(x, j) /\ (history[j].kind = "write" \/ (Bare(j) /\ Covers(x, j)))
  <2>1. CASE T = {}
    BY <1>3, <2>1
  <2>2. CASE T # {}
    <3> DEFINE D == {n - j : j \in T}
    <3>1. D \subseteq Nat /\ D # {}
      BY <1>0, <2>2
    <3>2. PICK d \in D : \A e \in D : d <= e
      <4> HIDE DEF D
      <4> QED BY <3>1, LeastNat
    <3>3. PICK k \in T : d = n - k
      OBVIOUS
    <3>4. \A j \in T : j <= k
      <4> TAKE j \in T
      <4>1. n - k <= n - j
        BY <3>2, <3>3
      <4>2. j \in Nat /\ k \in Nat
        BY <1>0
      <4> QED BY <1>0, <4>1, <4>2
    <3>5. k \in 1 .. n /\ k \in x + 1 .. n /\ Path(x, k) /\ Covers(x, k)
      BY <1>0
    <3>6. CASE output[k] = Raw
      BY <3>5, <3>6
    <3>7. CASE output[k] # Raw
      <4>1. PICK m \in k + 1 .. n : Path(k, m) /\ (history[m].kind = "write" \/ (Bare(m) /\ Covers(k, m)))
        BY <1>2, <3>5, <3>7
      <4>2. m \in 1 .. n /\ m \in x + 1 .. n /\ m > k /\ Path(x, m)
        BY <1>0, <3>5, <4>1
      <4>3. CASE history[m].kind = "write"
        BY <4>2, <4>3
      <4>4. CASE Bare(m) /\ Covers(k, m)
        BY <1>0, <1>1, <3>5, <4>2, <4>4
      <4> QED BY <4>1, <4>3, <4>4
    <3> QED BY <3>6, <3>7
  <2> QED BY <2>1, <2>2
<1>5. ASSUME NEW i \in 1 .. n, output'[i] # Raw
      PROVE  \E j \in i + 1 .. n :
               Path(i, j) /\ (history[j].kind = "write" \/ (output'[j] = Raw /\ Covers(i, j)))
  <2>1. \A j \in x + 1 .. n : output'[j] = output[j]
    BY <1>0
  <2>2. CASE i = x
    BY <1>4, <2>1, <2>2
  <2>3. CASE i # x
    <3>1. PICK j \in i + 1 .. n : Path(i, j) /\ (history[j].kind = "write" \/ (Bare(j) /\ Covers(i, j)))
      BY <1>0, <1>2, <1>5, <2>3
    <3>2. j \in 1 .. n
      BY <1>0
    <3>3. CASE history[j].kind = "write"
      BY <3>1, <3>3
    <3>4. CASE Bare(j) /\ Covers(i, j) /\ j # x
      BY <1>0, <3>1, <3>2, <3>4
    <3>5. CASE Bare(j) /\ Covers(i, j) /\ j = x
      <4>1. PICK k \in x + 1 .. n : Path(x, k) /\ (history[k].kind = "write" \/ (Bare(k) /\ Covers(x, k)))
        BY <1>4
      <4>2. k \in i + 1 .. n /\ k \in 1 .. n /\ Path(i, k) /\ output'[k] = output[k]
        BY <1>0, <2>1, <3>1, <3>5, <4>1
      <4>3. CASE history[k].kind = "write"
        BY <4>2, <4>3
      <4>4. CASE Bare(k) /\ Covers(x, k)
        <5>1. Covers(i, k)
          BY <1>0, <1>1, <3>5, <4>2, <4>4
        <5> QED BY <4>2, <4>4, <5>1
      <4> QED BY <4>1, <4>3, <4>4
    <3> QED BY <3>1, <3>3, <3>4, <3>5
  <2> QED BY <2>2, <2>3
<1> QED BY <1>0, <1>5 DEF HiddenIsObsolete, Marked, Covers, n
-----------------------------------------------------------------------------
(* Positions in the history are positions of the outputs.                  *)
LEMMA Numbers ==
  ASSUME Shapes
  PROVE  /\ Len(history) \in Nat /\ DOMAIN history = 1 .. Len(history)
         /\ DOMAIN history \subseteq Positions
         /\ MaxHistory \in Nat
<1>1. MaxHistory \in Nat
  BY ReadLifecycleAssumption
<1>2. Len(history) \in Nat /\ DOMAIN history = 1 .. Len(history) /\ Len(history) <= MaxHistory
  BY DEF Shapes
<1> QED BY <1>1, <1>2 DEF Positions

(* What may be replaced is settled when a request begins.                  *)
LEMMA DueStays ==
  ASSUME history' = history, seen' = seen, observed' = observed
  PROVE  /\ \A i : Due(i)' <=> Due(i)
         /\ \A i : NextDue(i)' = NextDue(i)
<1>1. \A i : Due(i)' <=> Due(i)
  BY DEF Due, Live, Overflowed
<1>2. {j \in DOMAIN history' : Due(j)'} = {j \in DOMAIN history : Due(j)}
  BY <1>1
<1>3. \A i : NextDue(i) = NextOf({j \in DOMAIN history : Due(j)}, i)
  BY DEF NextDue
<1>4. \A i : NextDue(i)' = NextDue(i)
  BY <1>2 DEF NextDue, NextOf
<1> QED BY <1>1, <1>4

(* The next part that may be replaced.                                     *)
LEMMA NextDueIs ==
  ASSUME Shapes, NEW i \in 1 .. Len(history) + 1
  PROVE  /\ NextDue(i) \in i .. Len(history) + 1
         /\ NextDue(i) <= Len(history) => Due(NextDue(i))
<1> DEFINE S == {j \in DOMAIN history : Due(j)}
<1>1. history \in Seq(Operations)
  BY DEF Shapes
<1>2. S \subseteq DOMAIN history
  OBVIOUS
<1> HIDE DEF S
<1>3. /\ NextOf(S, i) \in i .. Len(history) + 1
      /\ NextOf(S, i) <= Len(history) => NextOf(S, i) \in S
  BY <1>1, <1>2, NextOfIs
<1> QED BY <1>3 DEF NextDue, S

(* The next part that was sent with a marker.                              *)
LEMMA NextMarkedIs ==
  ASSUME Shapes, NEW i \in 1 .. Len(history) + 1
  PROVE  /\ NextMarked(i) \in i .. Len(history) + 1
         /\ NextMarked(i) <= Len(history) => sent[NextMarked(i)] # Raw
         /\ \A j \in DOMAIN history : i <= j /\ j < NextMarked(i) => sent[j] = Raw
<1> DEFINE S == {j \in DOMAIN history : sent[j] # Raw}
<1>1. history \in Seq(Operations)
  BY DEF Shapes
<1>2. S \subseteq DOMAIN history
  OBVIOUS
<1> HIDE DEF S
<1>3. /\ NextOf(S, i) \in i .. Len(history) + 1
      /\ NextOf(S, i) <= Len(history) => NextOf(S, i) \in S
      /\ \A j \in S : i <= j => NextOf(S, i) <= j
  BY <1>1, <1>2, NextOfIs
<1>4. NextMarked(i) = NextOf(S, i)
  BY DEF NextMarked, S
<1>5. ASSUME NEW j \in DOMAIN history, i <= j, j < NextMarked(i) PROVE sent[j] = Raw
  <2>1. /\ NextOf(S, i) \in Nat /\ j \in Nat
    BY <1>3, Numbers
  <2>2. j \notin S
    BY <1>3, <1>4, <1>5, <2>1
  <2> QED BY <2>2 DEF S
<1> QED BY <1>3, <1>4, <1>5 DEF S
-----------------------------------------------------------------------------
LEMMA InitHolds == Init => IInv
<1> SUFFICES ASSUME Init PROVE IInv
  OBVIOUS
<1>0. MaxReplacements \in Nat /\ MaxHistory \in Nat
  BY ReadLifecycleAssumption
<1>1. /\ history = <<>> /\ seen = 0 /\ observed = FALSE /\ sent = AllRaw /\ output = AllRaw
      /\ rows = <<>> /\ replacements = <<>> /\ pc = "idle" /\ at = 0
  BY DEF Init
<1>2. Len(history) = 0 /\ DOMAIN history = {}
  BY <1>1
<1>3. AllRaw \in [Positions -> Markers \cup {Raw}] /\ \A i \in Positions : AllRaw[i] = Raw
  BY DEF AllRaw
<1>4. Shapes
  <2>1. history \in Seq(Operations) /\ rows \in Seq(Rows) /\ replacements \in Seq(Replacements)
    BY <1>1
  <2>2. seen \in 0 .. Len(history) /\ Len(history) <= MaxHistory /\ at \in Nat
    BY <1>0, <1>1, <1>2
  <2> QED BY <1>1, <1>3, <2>1, <2>2 DEF Shapes
<1>5. OnlyReadsMarked
  BY <1>1, <1>3 DEF OnlyReadsMarked
<1>6. IsMap(replacements)
  BY <1>0, <1>1 DEF IsMap
<1>7. Whereabouts
  BY <1>1 DEF Whereabouts
<1>8. MarkersConfirmed /\ HiddenIsObsolete
  BY <1>2 DEF MarkersConfirmed, HiddenIsObsolete
<1> QED BY <1>4, <1>5, <1>6, <1>7, <1>8 DEF IInv

LEMMA GrowKeeps ==
  ASSUME IInv, NEW o \in Operations, Grow(o)
  PROVE  IInv'
<1> DEFINE n == Len(history)
<1>0. Shapes /\ OnlyReadsMarked /\ IsMap(replacements) /\ Whereabouts /\ HiddenIsObsolete
  BY DEF IInv
<1>1. /\ pc = "idle" /\ n < MaxHistory /\ history' = Append(history, o)
      /\ seen' = seen /\ observed' = observed /\ sent' = sent /\ rows' = rows
      /\ replacements' = replacements /\ pc' = pc /\ at' = at /\ output' = output /\ lost' = lost
  BY DEF Grow
<1>2. /\ n \in Nat /\ DOMAIN history = 1 .. n /\ MaxHistory \in Nat
      /\ history \in Seq(Operations)
  BY <1>0, Numbers DEF Shapes
<1>3. /\ history' \in Seq(Operations) /\ Len(history') = n + 1 /\ DOMAIN history' = 1 .. n + 1
      /\ \A i \in 1 .. n : history'[i] = history[i]
  BY <1>1, <1>2
<1>4. Shapes'
  <2>1. seen \in 0 .. n
    BY <1>0 DEF Shapes
  <2>2. seen' \in 0 .. Len(history') /\ Len(history') <= MaxHistory
    BY <1>1, <1>2, <1>3, <2>1
  <2> QED BY <1>0, <1>1, <1>3, <2>2 DEF Shapes
<1>5. \A i \in Positions : output[i] # Raw => i \in 1 .. n /\ history[i].kind = "read"
  BY <1>0, <1>2 DEF OnlyReadsMarked, Positions
<1> HIDE DEF n
<1>6. OnlyReadsMarked'
  <2>1. \A i \in 1 .. n : i <= n + 1
    BY <1>2
  <2> QED BY <1>1, <1>3, <1>5, <2>1 DEF OnlyReadsMarked, Positions
<1>7. Whereabouts' /\ MarkersConfirmed' /\ IsMap(replacements)'
  BY <1>0, <1>1 DEF Whereabouts, MarkersConfirmed
<1>8. HiddenIsObsolete'
  <2> SUFFICES ASSUME NEW i \in DOMAIN history', output'[i] # Raw
               PROVE  \E j \in i + 1 .. Len(history') :
                        /\ history'[j].path = history'[i].path
                        /\ \/ history'[j].kind = "write"
                           \/ output'[j] = Raw /\ MayShow(history'[i]) \subseteq Shown(history'[j])
    BY DEF HiddenIsObsolete, Marked
  <2>1. i \in 1 .. n /\ output[i] # Raw
    <3>1. i \in Positions
      BY <1>1, <1>2, <1>3 DEF Positions, n
    <3> QED BY <1>1, <1>5, <3>1
  <2>2. PICK j \in i + 1 .. n :
          /\ history[j].path = history[i].path
          /\ \/ history[j].kind = "write"
             \/ output[j] = Raw /\ MayShow(history[i]) \subseteq Shown(history[j])
    BY <1>0, <1>2, <2>1 DEF HiddenIsObsolete, Marked, n
  <2>3. j \in 1 .. n /\ j \in i + 1 .. n + 1
    BY <1>2, <2>1
  <2>4. history'[j] = history[j] /\ history'[i] = history[i]
    BY <1>3, <2>1, <2>3
  <2> QED BY <1>1, <1>3, <2>2, <2>3, <2>4
<1> QED BY <1>4, <1>6, <1>7, <1>8 DEF IInv

LEMMA BeginKeeps ==
  ASSUME IInv, Begin
  PROVE  IInv'
<1>0. Shapes /\ OnlyReadsMarked /\ IsMap(replacements) /\ Whereabouts /\ HiddenIsObsolete
  BY DEF IInv
<1>1. /\ pc = "idle" /\ pc' = "validating" /\ at' = NextMarked(1) /\ output' = sent
      /\ history' = history /\ seen' = seen /\ observed' = observed /\ sent' = sent
      /\ rows' = rows /\ replacements' = replacements /\ lost' = lost
  BY DEF Begin
<1>2. output' = output
  BY <1>0, <1>1 DEF Whereabouts
<1>3. /\ Len(history) \in Nat /\ DOMAIN history = 1 .. Len(history)
      /\ 1 \in 1 .. Len(history) + 1
  BY <1>0, Numbers
<1>4. /\ at' \in 1 .. Len(history) + 1
      /\ at' <= Len(history) => sent[at'] # Raw
      /\ \A j \in DOMAIN history : 1 <= j /\ j < at' => sent[j] = Raw
  BY <1>0, <1>1, <1>3, NextMarkedIs
<1>5. Shapes'
  <2>1. at' \in Nat
    BY <1>3, <1>4
  <2> QED BY <1>0, <1>1, <1>2, <2>1 DEF Shapes
<1>6. OnlyReadsMarked' /\ IsMap(replacements)'
  BY <1>0, <1>1, <1>2 DEF OnlyReadsMarked
<1>7. Whereabouts'
  BY <1>1, <1>4 DEF Whereabouts, Marked
<1>8. MarkersConfirmed'
  BY <1>1, <1>3, <1>4 DEF MarkersConfirmed, Marked
<1>9. HiddenIsObsolete'
  BY <1>0, <1>1, <1>2, UnmarkingKeepsObsolete
<1> QED BY <1>5, <1>6, <1>7, <1>8, <1>9 DEF IInv

(* The preflight of one replayed marker: it is confirmed, or taken back.   *)
LEMMA ValidateStep ==
  ASSUME IInv, pc = "validating", at <= Len(history), at' = NextMarked(at + 1),
         pc' = pc, UNCHANGED <<history, seen, observed, rows, lost>>,
         sent' = output', IsMap(replacements'),
         \/ output' = output /\ Resolves(at)
         \/ output' = [output EXCEPT ![at] = Raw]
  PROVE  IInv'
<1>0. /\ Shapes /\ OnlyReadsMarked /\ Whereabouts /\ MarkersConfirmed /\ HiddenIsObsolete
  BY DEF IInv
<1>1. /\ Len(history) \in Nat /\ DOMAIN history = 1 .. Len(history)
      /\ DOMAIN history \subseteq Positions
  BY <1>0, Numbers
<1>2. at \in 1 .. Len(history) /\ output = sent /\ at + 1 \in 1 .. Len(history) + 1
  BY <1>0, <1>1 DEF Whereabouts
<1>3. /\ at' \in at + 1 .. Len(history) + 1
      /\ at' <= Len(history) => output[at'] # Raw
      /\ \A j \in DOMAIN history : at + 1 <= j /\ j < at' => output[j] = Raw
  BY <1>0, <1>2, NextMarkedIs
<1>4. output \in [Positions -> Markers \cup {Raw}] /\ at \in Positions
  BY <1>0, <1>1, <1>2 DEF Shapes
<1>5. /\ output' \in [Positions -> Markers \cup {Raw}]
      /\ \A i \in Positions : output'[i] = IF i = at THEN output'[at] ELSE output[i]
      /\ output'[at] = Raw \/ (output'[at] = output[at] /\ Resolves(at))
  BY <1>4
<1>6. Shapes'
  <2>1. at' \in Nat
    BY <1>2, <1>3
  <2> QED BY <1>0, <1>5, <2>1 DEF Shapes, IsMap
<1>7. OnlyReadsMarked'
  BY <1>0, <1>4, <1>5 DEF OnlyReadsMarked
<1>8. Whereabouts'
  <2>1. at' \in 1 .. Len(history) + 1
    BY <1>2, <1>3
  <2>2. at' <= Len(history) => output'[at'] # Raw
    <3>1. ASSUME at' <= Len(history) PROVE at' \in Positions /\ at' # at
      BY <1>1, <1>2, <1>3, <3>1
    <3> QED BY <1>3, <1>5, <3>1
  <2> QED BY <2>1, <2>2 DEF Whereabouts, Marked
<1>9. MarkersConfirmed'
  <2> SUFFICES ASSUME NEW i \in DOMAIN history, output'[i] # Raw, i < at'
               PROVE  Resolves(i)'
    BY DEF MarkersConfirmed, Marked
  <2>1. i \in Positions /\ i \in Nat
    BY <1>1
  <2>2. output'[i] = output[i]
    BY <1>5, <2>1
  <2>3. Resolves(i)
    <3>1. CASE i = at
      BY <1>5, <3>1
    <3>2. CASE i # at
      <4>1. i < at
        BY <1>1, <1>2, <1>3, <2>1, <2>2, <3>2
      <4> QED BY <1>0, <2>2, <4>1 DEF MarkersConfirmed, Marked
    <3> QED BY <3>1, <3>2
  <2>4. Peek(output[i].hash)' = Peek(output'[i].hash)
    BY <2>2 DEF Peek, WithHash
  <2> QED BY <2>2, <2>3 DEF Resolves, Peek, WithHash
<1>10. HiddenIsObsolete'
  <2>1. \A i \in DOMAIN history : output'[i] \in {output[i], Raw}
    BY <1>1, <1>5
  <2> QED BY <1>0, <2>1, UnmarkingKeepsObsolete
<1> QED BY <1>6, <1>7, <1>8, <1>9, <1>10 DEF IInv

LEMMA ValidateKeeps ==
  ASSUME IInv, Validate \/ PeekFails
  PROVE  IInv'
<1>0. Shapes /\ IsMap(replacements) /\ Whereabouts
  BY DEF IInv
<1>1. /\ pc = "validating" /\ at <= Len(history) /\ at' = NextMarked(at + 1)
      /\ pc' = pc /\ UNCHANGED <<history, seen, observed, rows, lost>>
      /\ \/ Invalidate
         \/ Backed(at) /\ UNCHANGED <<sent, output, replacements>>
  BY DEF Validate, PeekFails
<1>2. output = sent
  BY <1>0, <1>1 DEF Whereabouts
<1>3. CASE Invalidate
  <2>1. sent' = output' /\ output' = [output EXCEPT ![at] = Raw]
    BY <1>2, <1>3 DEF Invalidate
  <2>2. IsMap(replacements')
    <3>1. replacements' = replacements \/ replacements' = Without(history[at].call)
      BY <1>3 DEF Invalidate
    <3> QED BY <1>0, <3>1, WithoutKeeps
  <2> QED BY <1>1, <2>1, <2>2, ValidateStep
<1>4. CASE Backed(at) /\ UNCHANGED <<sent, output, replacements>>
  <2>1. Resolves(at)
    BY <1>4 DEF Backed, Resolves
  <2> QED BY <1>0, <1>1, <1>2, <1>4, <2>1, ValidateStep
<1> QED BY <1>1, <1>3, <1>4

LEMMA StartReplacingKeeps ==
  ASSUME IInv, StartReplacing
  PROVE  IInv'
<1>0. /\ Shapes /\ OnlyReadsMarked /\ IsMap(replacements)
      /\ Whereabouts /\ MarkersConfirmed /\ HiddenIsObsolete
  BY DEF IInv
<1>1. /\ pc = "validating" /\ at = Len(history) + 1 /\ pc' = "replacing" /\ at' = NextDue(1)
      /\ history' = history /\ seen' = seen /\ observed' = observed /\ sent' = sent
      /\ rows' = rows /\ replacements' = replacements /\ output' = output /\ lost' = lost
  BY DEF StartReplacing
<1>2. /\ Len(history) \in Nat /\ DOMAIN history = 1 .. Len(history)
      /\ 1 \in 1 .. Len(history) + 1
  BY <1>0, Numbers
<1>3. at' \in 1 .. Len(history) + 1 /\ (at' <= Len(history) => Due(at'))
  BY <1>0, <1>1, <1>2, NextDueIs
<1>4. Shapes'
  <2>1. at' \in Nat
    BY <1>2, <1>3
  <2> QED BY <1>0, <1>1, <2>1 DEF Shapes
<1>5. OnlyReadsMarked' /\ IsMap(replacements)'
  BY <1>0, <1>1 DEF OnlyReadsMarked
<1>6. Whereabouts'
  <2>1. Due(at') => Due(at)'
    BY <1>1, DueStays DEF Due, Live, Overflowed
  <2> QED BY <1>1, <1>3, <2>1 DEF Whereabouts
<1>7. MarkersConfirmed'
  <2> SUFFICES ASSUME NEW i \in DOMAIN history, output[i] # Raw
               PROVE  Resolves(i)'
    BY <1>1 DEF MarkersConfirmed, Marked
  <2>1. i < at
    BY <1>1, <1>2
  <2>2. Resolves(i)
    BY <1>0, <1>1, <2>1 DEF MarkersConfirmed, Marked
  <2> QED BY <1>1, <2>2 DEF Resolves, Peek, WithHash
<1>8. HiddenIsObsolete'
  BY <1>0, <1>1, UnmarkingKeepsObsolete
<1> QED BY <1>4, <1>5, <1>6, <1>7, <1>8 DEF IInv
-----------------------------------------------------------------------------
(* One due read has been dealt with, replaced or not.                      *)
LEMMA ReplacingStep ==
  ASSUME IInv, pc \in {"replacing", "putting"}, at <= Len(history),
         pc' = "replacing", at' = NextDue(at + 1),
         UNCHANGED <<history, seen, observed, sent>>,
         rows' \in Seq(Rows), IsMap(replacements'),
         output' \in [Positions -> Markers \cup {Raw}],
         \A i \in Positions : i # at => output'[i] = output[i],
         \A i \in DOMAIN history : output'[i] # Raw => Resolves(i)'
  PROVE  IInv'
<1>0. Shapes /\ OnlyReadsMarked /\ Whereabouts /\ HiddenIsObsolete
  BY DEF IInv
<1>1. /\ Len(history) \in Nat /\ DOMAIN history = 1 .. Len(history)
      /\ DOMAIN history \subseteq Positions /\ history \in Seq(Operations)
  BY <1>0, Numbers DEF Shapes
<1>2. at \in DOMAIN history /\ Due(at) /\ at + 1 \in 1 .. Len(history) + 1
  BY <1>0, <1>1 DEF Whereabouts
<1>3. at' \in at + 1 .. Len(history) + 1 /\ (at' <= Len(history) => Due(at'))
  BY <1>0, <1>2, NextDueIs
<1>4. history[at].kind = "read"
  BY <1>1, <1>2, DueIsObsolete
<1>5. Shapes'
  <2>1. at' \in Nat
    BY <1>1, <1>2, <1>3
  <2>2. replacements' \in Seq(Replacements)
    BY DEF IsMap
  <2> QED BY <1>0, <2>1, <2>2 DEF Shapes
<1>6. OnlyReadsMarked'
  BY <1>0, <1>1, <1>2, <1>4 DEF OnlyReadsMarked
<1>7. Whereabouts'
  <2>1. Due(at') => Due(at)'
    BY DueStays DEF Due, Live, Overflowed
  <2>2. at' \in 1 .. Len(history) + 1
    BY <1>1, <1>2, <1>3
  <2> QED BY <1>3, <2>1, <2>2 DEF Whereabouts
<1>8. MarkersConfirmed'
  BY DEF MarkersConfirmed, Marked
<1>9. HiddenIsObsolete'
  <2>1. \A i \in DOMAIN history : i # at => output'[i] = output[i]
    BY <1>1
  <2> QED BY <1>0, <1>1, <1>2, <2>1, MarkingKeepsObsolete
<1> QED BY <1>5, <1>6, <1>7, <1>8, <1>9 DEF IInv

(* What has been confirmed stays so while the rows stay.                   *)
LEMMA AllResolve ==
  ASSUME IInv, pc \in {"replacing", "putting"}
  PROVE  \A i \in DOMAIN history : output[i] # Raw => Resolves(i)
BY DEF IInv, MarkersConfirmed, Marked

LEMMA LeaveKeeps ==
  ASSUME IInv, Skip \/ StoreFails
  PROVE  IInv'
<1>0. Shapes /\ IsMap(replacements) /\ Whereabouts
  BY DEF IInv
<1>1. /\ pc \in {"replacing", "putting"} /\ at <= Len(history)
      /\ pc' = "replacing" /\ at' = NextDue(at + 1)
      /\ UNCHANGED <<history, seen, observed, sent, rows, replacements, output, lost>>
  BY <1>0 DEF Skip, StoreFails, Whereabouts
<1>2. \A i \in DOMAIN history : output'[i] # Raw => Resolves(i)'
  <2>1. \A i : Resolves(i)' <=> Resolves(i)
    BY <1>1 DEF Resolves, Peek, WithHash
  <2> QED BY <1>1, <2>1, AllResolve
<1> QED BY <1>0, <1>1, <1>2, ReplacingStep DEF Shapes

LEMMA UseCachedKeeps ==
  ASSUME IInv, UseCached
  PROVE  IInv'
<1>0. /\ Shapes /\ OnlyReadsMarked /\ IsMap(replacements)
      /\ Whereabouts /\ MarkersConfirmed /\ HiddenIsObsolete
  BY DEF IInv
<1>1. /\ pc = "replacing" /\ at <= Len(history)
      /\ UNCHANGED <<history, seen, observed, sent, rows, lost>>
  BY DEF UseCached
<1>2. /\ at \in DOMAIN history /\ at \in Positions /\ Due(at) /\ history \in Seq(Operations)
  BY <1>0, <1>1, Numbers DEF Whereabouts, Shapes
<1>3. CASE Reusable(at) # {}
  <2> DEFINE r == CHOOSE x \in Reusable(at) : TRUE
             m == Marker(history[at], ClassifyReads(history)[at], r.hash)
  <2>1. r \in Reusable(at)
    BY <1>3
  <2>2. /\ replacements' = Remember(r.call, r.hash, r.content)
        /\ output' = [output EXCEPT ![at] = m]
        /\ at' = NextDue(at + 1) /\ pc' = pc
    BY <1>3 DEF UseCached
  <2> HIDE DEF r
  <2>3. r \in Replacements /\ \E row \in Peek(r.hash) : row.content = history[at].content
    <3>1. r \in Remembered(at) /\ \E row \in Peek(r.hash) : row.content = history[at].content
      BY <2>1 DEF Reusable
    <3>2. PICK n \in DOMAIN replacements : r = replacements[n]
      BY <3>1 DEF Remembered, Cached
    <3> QED BY <1>0, <3>1, <3>2 DEF IsMap
  <2>4. r.call \in Calls /\ r.hash \in Hashes /\ r.content \in Contents
    BY <2>3 DEF Replacements
  <2>5. IsMap(replacements')
    BY <1>0, <2>2, <2>4, RememberKeeps
  <2>6. m \in Markers /\ m.hash = r.hash
    <3>1. history[at].path \in Paths /\ ClassifyReads(history)[at] \in States
      BY <1>2, DueIsObsolete DEF Paths
    <3> QED BY <2>4, <3>1 DEF Markers, Marker
  <2> HIDE DEF m
  <2>7. /\ output' \in [Positions -> Markers \cup {Raw}]
        /\ \A i \in Positions : i # at => output'[i] = output[i]
        /\ output'[at] = m
    BY <1>0, <1>2, <2>2, <2>6 DEF Shapes
  <2>8. ASSUME NEW i \in DOMAIN history, output'[i] # Raw
        PROVE  Resolves(i)'
    <3>1. CASE i = at
      <4>1. \E row \in Peek(output'[i].hash) : row.content = history[i].content
        BY <2>3, <2>6, <2>7, <3>1
      <4> QED BY <1>1, <4>1 DEF Resolves, Peek, WithHash
    <3>2. CASE i # at
      <4>1. output'[i] = output[i]
        BY <1>0, <2>7, <3>2, Numbers
      <4>2. Resolves(i)
        BY <1>1, <2>8, <4>1, AllResolve
      <4> QED BY <1>1, <4>1, <4>2 DEF Resolves, Peek, WithHash
    <3> QED BY <3>1, <3>2
  <2>9. rows' \in Seq(Rows)
    BY <1>0, <1>1 DEF Shapes
  <2> QED BY <1>1, <2>2, <2>5, <2>7, <2>8, <2>9, ReplacingStep
<1>4. CASE Reusable(at) = {}
  <2>1. /\ replacements' = replacements \/ replacements' = Without(history[at].call)
        /\ pc' = "putting" /\ output' = output /\ at' = at
    BY <1>4 DEF UseCached
  <2>2. IsMap(replacements')
    BY <1>0, <2>1, WithoutKeeps
  <2>3. Shapes'
    BY <1>0, <1>1, <2>1, <2>2 DEF Shapes, IsMap
  <2>4. OnlyReadsMarked' /\ HiddenIsObsolete'
    BY <1>0, <1>1, <2>1, UnmarkingKeepsObsolete DEF OnlyReadsMarked
  <2>5. Whereabouts'
    <3>1. Due(at)'
      BY <1>1, <1>2, <2>1, DueStays DEF Due, Live, Overflowed
    <3> QED BY <1>0, <1>1, <2>1, <3>1 DEF Whereabouts
  <2>6. MarkersConfirmed'
    <3>1. \A i \in DOMAIN history : output[i] # Raw => Resolves(i)
      BY <1>1, AllResolve
    <3>2. \A i : Resolves(i)' <=> Resolves(i)
      BY <1>1, <2>1 DEF Resolves, Peek, WithHash
    <3> QED BY <1>1, <2>1, <3>1, <3>2 DEF MarkersConfirmed, Marked
  <2> QED BY <2>2, <2>3, <2>4, <2>5, <2>6 DEF IInv
<1> QED BY <1>3, <1>4

LEMMA PutKeeps ==
  ASSUME IInv, Put
  PROVE  IInv'
<1> DEFINE o == history[at]
           h == Allocated(o.content)
           m == Marker(o, ClassifyReads(history)[at], h)
           new == [hash |-> h, content |-> o.content, compressed |-> m]
<1>0. Shapes /\ IsMap(replacements) /\ Whereabouts
  BY DEF IInv
<1>1. /\ pc = "putting" /\ Len(rows) < MaxRows
      /\ rows' = Append(rows, new)
      /\ replacements' = Remember(o.call, h, o.content)
      /\ output' = [output EXCEPT ![at] = m]
      /\ pc' = "replacing" /\ at' = NextDue(at + 1)
      /\ UNCHANGED <<history, seen, observed, sent, lost>>
  BY DEF Put
<1>2. /\ at <= Len(history) /\ at \in DOMAIN history /\ at \in Positions
      /\ Due(at) /\ history \in Seq(Operations) /\ rows \in Seq(Rows)
  BY <1>0, <1>1, Numbers DEF Whereabouts, Shapes
<1>3. /\ o.call \in Calls /\ o.content \in Contents /\ o.path \in Paths
      /\ ClassifyReads(history)[at] \in States
  BY <1>2, DueIsObsolete DEF Paths
<1>4. h \in Hashes /\ \A n \in WithHash(h) : rows[n].content = o.content
  BY <1>1, <1>2, <1>3, AllocatedUsable
<1> HIDE DEF h
<1>5. m \in Markers /\ m.hash = h
  BY <1>3, <1>4 DEF Markers, Marker
<1> HIDE DEF m
<1>6. new \in Rows /\ new.hash = h /\ new.content = o.content
  BY <1>3, <1>4, <1>5 DEF Rows
<1> HIDE DEF new
<1>7. rows' \in Seq(Rows) /\ IsMap(replacements')
  BY <1>0, <1>1, <1>2, <1>3, <1>4, <1>6, RememberKeeps
<1>8. /\ output' \in [Positions -> Markers \cup {Raw}]
      /\ \A i \in Positions : i # at => output'[i] = output[i]
      /\ output'[at] = m
  BY <1>0, <1>1, <1>2, <1>5 DEF Shapes
<1>9. /\ new \in NewestOf(rows', h)
      /\ \A g : g # h => NewestOf(rows, g) \subseteq NewestOf(rows', g)
  BY <1>1, <1>2, <1>6, PeekAfterPut
<1>10. ASSUME NEW i \in DOMAIN history, output'[i] # Raw
       PROVE  Resolves(i)'
  <2>1. i \in Positions
    BY <1>0, Numbers
  <2> DEFINE g == output'[i].hash
  <2>2. SUFFICES g \in lost \/ \E r \in NewestOf(rows', g) : r.content = history[i].content
    BY <1>1, ResolvesIs
  <2>3. CASE i = at
    BY <1>5, <1>6, <1>8, <1>9, <2>3
  <2>4. CASE i # at
    <3>1. output'[i] = output[i]
      BY <1>8, <2>1, <2>4
    <3>2. g \in lost \/ \E r \in NewestOf(rows, g) : r.content = history[i].content
      <4>1. Resolves(i)
        BY <1>1, <1>10, <3>1, AllResolve
      <4> QED BY <3>1, <4>1, ResolvesIs
    <3> HIDE DEF g
    <3>3. CASE g # h
      BY <1>9, <3>2, <3>3
    <3>4. CASE g = h
      <4>1. \A r \in NewestOf(rows, h) : r.content = o.content
        BY <1>4 DEF NewestOf, Positioned, WithHash
      <4> QED BY <1>6, <1>9, <3>2, <3>4, <4>1
    <3> QED BY <3>3, <3>4
  <2> QED BY <2>3, <2>4
<1> QED BY <1>1, <1>2, <1>7, <1>8, <1>10, ReplacingStep
-----------------------------------------------------------------------------
LEMMA CloseKeeps ==
  ASSUME IInv, NEW rolledBack, Close(rolledBack)
  PROVE  IInv'
<1>0. Shapes /\ OnlyReadsMarked /\ IsMap(replacements) /\ HiddenIsObsolete
  BY DEF IInv
<1>1. /\ sent' = [i \in Positions |-> IF i \in rolledBack THEN Raw ELSE output[i]]
      /\ seen' = Len(history) /\ observed' = TRUE /\ pc' = "idle" /\ at' = 0
      /\ output' = sent'
      /\ history' = history /\ rows' = rows /\ replacements' = replacements
  BY DEF Close
<1>2. /\ Len(history) \in Nat /\ DOMAIN history \subseteq Positions
  BY <1>0, Numbers
<1>3. \A i \in Positions : output'[i] \in {output[i], Raw}
  BY <1>1
<1>4. sent' \in [Positions -> Markers \cup {Raw}]
  BY <1>0, <1>1 DEF Shapes
<1>5. Shapes'
  <2>1. seen' \in 0 .. Len(history) /\ at' \in Nat /\ observed' \in BOOLEAN
    BY <1>1, <1>2
  <2> QED BY <1>0, <1>1, <1>4, <2>1 DEF Shapes
<1>6. OnlyReadsMarked'
  BY <1>0, <1>1, <1>3 DEF OnlyReadsMarked
<1>7. Whereabouts' /\ MarkersConfirmed' /\ IsMap(replacements)'
  BY <1>0, <1>1 DEF Whereabouts, MarkersConfirmed
<1>8. HiddenIsObsolete'
  BY <1>0, <1>1, <1>2, <1>3, UnmarkingKeepsObsolete
<1> QED BY <1>5, <1>6, <1>7, <1>8 DEF IInv

LEMMA EvictKeeps ==
  ASSUME IInv, Evict
  PROVE  IInv'
<1>0. Shapes /\ OnlyReadsMarked /\ IsMap(replacements) /\ Whereabouts /\ HiddenIsObsolete
  BY DEF IInv
<1>1. /\ pc = "idle" /\ seen' = 0 /\ observed' = FALSE
      /\ history' = history /\ sent' = sent /\ rows' = rows /\ replacements' = replacements
      /\ pc' = pc /\ at' = at /\ output' = output
  BY DEF Evict
<1>2. Shapes'
  <2>1. seen' \in 0 .. Len(history)
    BY <1>0, <1>1, Numbers
  <2>2. observed' \in BOOLEAN
    BY <1>1
  <2> QED BY <1>0, <1>1, <2>1, <2>2 DEF Shapes
<1>3. Whereabouts' /\ MarkersConfirmed' /\ IsMap(replacements)' /\ OnlyReadsMarked'
  BY <1>0, <1>1 DEF Whereabouts, MarkersConfirmed, OnlyReadsMarked
<1>4. HiddenIsObsolete'
  BY <1>0, <1>1, UnmarkingKeepsObsolete
<1> QED BY <1>2, <1>3, <1>4 DEF IInv

LEMMA RowLostKeeps ==
  ASSUME IInv, RowLost
  PROVE  IInv'
<1>0. /\ Shapes /\ OnlyReadsMarked /\ IsMap(replacements)
      /\ Whereabouts /\ MarkersConfirmed /\ HiddenIsObsolete
  BY DEF IInv
<1>1. /\ rows # <<>> /\ rows' = Tail(rows)
      /\ lost' = (IF pc = "idle" THEN lost ELSE lost \cup {Head(rows).hash})
      /\ history' = history /\ seen' = seen /\ observed' = observed /\ sent' = sent
      /\ replacements' = replacements /\ pc' = pc /\ at' = at /\ output' = output
  BY DEF RowLost
<1>2. rows \in Seq(Rows) /\ rows' \in Seq(Rows)
  BY <1>0, <1>1 DEF Shapes
<1>3. Shapes' /\ OnlyReadsMarked' /\ IsMap(replacements)'
  BY <1>0, <1>1, <1>2 DEF Shapes, OnlyReadsMarked
<1>4. Whereabouts'
  <2>1. Due(at) => Due(at)'
    BY <1>1, DueStays DEF Due, Live, Overflowed
  <2> QED BY <1>0, <1>1, <2>1 DEF Whereabouts, Marked
<1>5. ASSUME NEW i, pc # "idle", Resolves(i)
      PROVE  Resolves(i)'
  <2>1. lost' = lost \cup {Head(rows).hash}
    BY <1>1, <1>5
  <2>2. CASE output[i].hash \in lost \cup {Head(rows).hash}
    BY <1>1, <2>1, <2>2 DEF Resolves
  <2>3. CASE output[i].hash \notin lost \cup {Head(rows).hash}
    <3>1. PICK r \in NewestOf(rows, output[i].hash) : r.content = history[i].content
      BY <1>5, <2>3, ResolvesIs
    <3>2. r \in NewestOf(Tail(rows), output[i].hash)
      BY <1>1, <1>2, <2>3, <3>1, PeekAfterLoss
    <3> QED BY <1>1, <3>1, <3>2, ResolvesIs
  <2> QED BY <2>2, <2>3
<1>6. MarkersConfirmed'
  BY <1>0, <1>1, <1>5 DEF MarkersConfirmed, Marked
<1>7. HiddenIsObsolete'
  BY <1>0, <1>1, UnmarkingKeepsObsolete
<1> QED BY <1>3, <1>4, <1>6, <1>7 DEF IInv

LEMMA DeleteSessionKeeps ==
  ASSUME IInv, DeleteSession
  PROVE  IInv'
<1>0. Shapes /\ HiddenIsObsolete
  BY DEF IInv
<1>1. /\ pc = "idle" /\ rows' = <<>> /\ replacements' = <<>> /\ seen' = 0 /\ observed' = FALSE
      /\ sent' = AllRaw /\ output' = AllRaw
      /\ history' = history /\ pc' = pc /\ at' = at
  BY DEF DeleteSession
<1>2. AllRaw \in [Positions -> Markers \cup {Raw}] /\ \A i \in Positions : AllRaw[i] = Raw
  BY DEF AllRaw
<1>3. /\ Len(history) \in Nat /\ DOMAIN history \subseteq Positions /\ MaxReplacements \in Nat
  BY <1>0, Numbers, ReadLifecycleAssumption
<1>4. Shapes'
  <2>1. seen' \in 0 .. Len(history)
    BY <1>1, <1>3
  <2>2. observed' \in BOOLEAN
    BY <1>1
  <2>3. rows' \in Seq(Rows) /\ replacements' \in Seq(Replacements)
    BY <1>1
  <2> QED BY <1>0, <1>1, <1>2, <2>1, <2>2, <2>3 DEF Shapes
<1>5. OnlyReadsMarked' /\ Whereabouts' /\ MarkersConfirmed'
  BY <1>1, <1>2 DEF OnlyReadsMarked, Whereabouts, MarkersConfirmed
<1>6. IsMap(replacements)'
  <2>1. IsMap(<<>>)
    BY <1>3 DEF IsMap
  <2> QED BY <1>1, <2>1
<1>7. HiddenIsObsolete'
  <2>1. \A i \in DOMAIN history : output'[i] \in {output[i], Raw}
    BY <1>1, <1>2, <1>3
  <2> QED BY <1>0, <1>1, <2>1, UnmarkingKeepsObsolete
<1> QED BY <1>4, <1>5, <1>6, <1>7 DEF IInv

LEMMA NextKeeps == IInv /\ [Next]_vars => IInv'
<1> SUFFICES ASSUME IInv, [Next]_vars PROVE IInv'
  OBVIOUS
<1>1. CASE \E o \in Operations : Grow(o)
  BY <1>1, GrowKeeps
<1>2. CASE Begin
  BY <1>2, BeginKeeps
<1>3. CASE Validate \/ PeekFails
  BY <1>3, ValidateKeeps
<1>4. CASE StartReplacing
  BY <1>4, StartReplacingKeeps
<1>5. CASE Skip \/ StoreFails
  BY <1>5, LeaveKeeps
<1>6. CASE UseCached
  BY <1>6, UseCachedKeeps
<1>7. CASE Put
  BY <1>7, PutKeeps
<1>8. CASE Commit \/ Abort
  BY <1>8, CloseKeeps DEF Commit, Abort
<1>9. CASE Evict
  BY <1>9, EvictKeeps
<1>10. CASE RowLost
  BY <1>10, RowLostKeeps
<1>11. CASE DeleteSession
  BY <1>11, DeleteSessionKeeps
<1>12. CASE UNCHANGED vars
  <2>1. /\ history' = history /\ seen' = seen /\ observed' = observed /\ sent' = sent
        /\ rows' = rows /\ replacements' = replacements /\ pc' = pc /\ at' = at
        /\ output' = output /\ lost' = lost
    BY <1>12 DEF vars
  <2>2. Shapes' /\ OnlyReadsMarked' /\ IsMap(replacements)'
    BY <2>1 DEF IInv, Shapes, OnlyReadsMarked
  <2>3. Whereabouts'
    <3>1. Due(at)' <=> Due(at)
      BY <2>1, DueStays DEF Due, Live, Overflowed
    <3> QED BY <2>1, <3>1 DEF IInv, Whereabouts, Marked
  <2>4. MarkersConfirmed'
    <3>1. \A i : Resolves(i)' <=> Resolves(i)
      BY <2>1 DEF Resolves, Peek, WithHash
    <3> QED BY <2>1, <3>1 DEF IInv, MarkersConfirmed, Marked
  <2>5. HiddenIsObsolete'
    BY <2>1, UnmarkingKeepsObsolete DEF IInv
  <2> QED BY <2>2, <2>3, <2>4, <2>5 DEF IInv
<1> QED
  BY <1>1, <1>2, <1>3, <1>4, <1>5, <1>6, <1>7, <1>8, <1>9, <1>10, <1>11, <1>12 DEF Next
-----------------------------------------------------------------------------
(* In every reachable state the invariant above holds.                     *)
THEOREM Inductive == Spec => []IInv
<1>1. IInv /\ [Next]_vars => IInv'
  BY NextKeeps
<1> QED BY InitHolds, <1>1, PTL DEF Spec

(* Every marker a request leaves with leads to exactly the output of the   *)
(* read it replaces, unless its row was lost while apply() ran, and the    *)
(* replacement cache has one entry a call, within its limit: for every     *)
(* history, every collision of hashes, and every order of expiry, failing  *)
(* stores, roll-backs and deletions between the awaits of apply().         *)
THEOREM MarkersResolve == Spec => []MarkersConsistent
<1>1. IInv => MarkersConsistent
  <2> SUFFICES ASSUME IInv PROVE MarkersConsistent
    OBVIOUS
  <2>1. TypeOK
    <3>1. Shapes /\ OnlyReadsMarked /\ IsMap(replacements)
      BY DEF IInv
    <3>2. ToSet(history) \subseteq Operations
      BY <3>1 DEF Shapes, ToSet
    <3> QED BY <3>1, <3>2 DEF TypeOK, Shapes, OnlyReadsMarked, IsMap
  <2>2. SentMarkersResolve
    <3> SUFFICES ASSUME pc = "replacing", NEW i \in DOMAIN history, Marked(i),
                        output[i].hash \notin lost
                 PROVE  \E r \in Peek(output[i].hash) : r.content = history[i].content
      BY DEF SentMarkersResolve
    <3>1. Resolves(i)
      BY DEF IInv, MarkersConfirmed
    <3> QED BY <3>1 DEF Resolves
  <2> QED BY <2>1, <2>2 DEF MarkersConsistent
<1> QED BY <1>1, Inductive, PTL

(* What a marker hides is out of date, or a later read of the same path    *)
(* that is raw in the same request shows every line of it, however many    *)
(* operations supersede each other in turn and whatever is rolled back.    *)
THEOREM OnlyObsoleteHidden == Spec => []HiddenIsObsolete
<1>1. IInv => HiddenIsObsolete
  BY DEF IInv
<1> QED BY <1>1, Inductive, PTL
=============================================================================
