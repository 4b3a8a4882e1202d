------------------------ MODULE MemoryCCRStoreProofs ------------------------
(***************************************************************************)
(* Safety of MemoryCCRStore for every number of sessions, contents, hashes *)
(* and entries, and for every way the candidate hashes of different        *)
(* contents collide.                                                       *)
(*                                                                         *)
(* The inductive invariant IInv says that the three structures describe    *)
(* one set of rows.  Every operation is a removal of a set of rows         *)
(* (RemovalAgrees), followed in put by one insertion under a usable hash   *)
(* (InsertionAgrees); a usable hash exists because at most MaxEntries      *)
(* hashes are in use and one content has one more candidate than that      *)
(* (SomeAttemptUsable, a pigeonhole argument).                             *)
(***************************************************************************)
EXTENDS MemoryCCRStore, FiniteSetTheorems, WellFoundedInduction, TLAPS

(* E, H and O describe one set of rows, within the capacity.               *)
Typed(E, H, O) ==
  /\ E \in [Hashes -> SUBSET Entry]
  /\ H \in [Hashes -> SUBSET Contents]
  /\ O \in SUBSET Entry
  /\ IsFiniteSet(O)

OneRowSet(E, H, O) ==
  /\ \A h \in Hashes : E[h] = {e \in O : e.hash = h}
  /\ \A h \in Hashes : H[h] = {e.originalContent : e \in E[h]}
  /\ \A h \in Hashes : \A d, e \in E[h] : d.originalContent = e.originalContent
  /\ \A d, e \in O : d.id = e.id => d = e

Agree(E, H, O) ==
  /\ Typed(E, H, O)
  /\ OneRowSet(E, H, O)
  /\ Cardinality(O) <= MaxEntries

IInv ==
  /\ TypeOK
  /\ \A e \in insertionOrder : e.id < nextId
  /\ Agree(entries, hashHistory, insertionOrder)
-----------------------------------------------------------------------------
(* A nonempty set of naturals has a least member.                          *)
LEMMA LeastNat ==
  ASSUME NEW T, T \subseteq Nat, T # {}
  PROVE  \E x \in T : \A y \in T : x <= y
<1> DEFINE R == OpToRel(<, Nat)
<1>1. PICK x \in T : \A y \in T : ~ (<<y, x>> \in R)
  BY NatLessThanWellFounded, WFMin
<1>2. \A y \in T : ~(y < x)
  <2> TAKE y \in T
  <2>1. y \in Nat /\ x \in Nat
    OBVIOUS
  <2>2. y < x => <<y, x>> \in R
    BY <2>1 DEF OpToRel
  <2> QED BY <1>1, <2>2
<1>3. \A y \in T : x <= y
  BY <1>2
<1> QED BY <1>3

(* Removing any set of rows from all three structures keeps them agreed:   *)
(* a hash keeps its history exactly as long as it keeps a row.             *)
LEMMA RemovalAgrees ==
  ASSUME NEW E, NEW H, NEW O, NEW D, Agree(E, H, O)
  PROVE  Agree(Without(E, D), ReleasedHistory(E, H, D), O \ D)
<1> USE DEF Agree, Typed, OneRowSet
<1>1. Without(E, D) \in [Hashes -> SUBSET Entry]
  BY DEF Without
<1>2. ReleasedHistory(E, H, D) \in [Hashes -> SUBSET Contents]
  BY DEF ReleasedHistory
<1>3. O \ D \in SUBSET O
  OBVIOUS
<1>4. IsFiniteSet(O \ D) /\ Cardinality(O \ D) <= Cardinality(O)
  BY <1>3, FS_Subset
<1>5. Cardinality(O \ D) \in Nat /\ Cardinality(O) \in Nat
  BY <1>4, FS_CardinalityType
<1>6. Cardinality(O \ D) <= MaxEntries
  BY <1>4, <1>5, StoreAssumption
<1>7. ASSUME NEW h \in Hashes
      PROVE  Without(E, D)[h] = {e \in O \ D : e.hash = h}
  BY DEF Without
<1>8. ASSUME NEW h \in Hashes
      PROVE  ReleasedHistory(E, H, D)[h]
               = {e.originalContent : e \in Without(E, D)[h]}
  <2>1. CASE E[h] \subseteq D
    BY <2>1 DEF Without, ReleasedHistory
  <2>2. CASE ~(E[h] \subseteq D)
    <3>1. PICK e \in E[h] : e \notin D
      BY <2>2
    <3>2. ReleasedHistory(E, H, D)[h] = H[h] /\ Without(E, D)[h] = E[h] \ D
      BY <2>2 DEF Without, ReleasedHistory
    <3>3. H[h] = {d.originalContent : d \in E[h]}
      OBVIOUS
    <3>4. \A d \in E[h] : d.originalContent = e.originalContent
      BY <3>1
    <3>5. {d.originalContent : d \in E[h]} = {d.originalContent : d \in E[h] \ D}
      BY <3>1, <3>4
    <3> QED BY <3>2, <3>3, <3>5
  <2> QED BY <2>1, <2>2
<1>9. ASSUME NEW h \in Hashes
      PROVE  \A d, e \in Without(E, D)[h] : d.originalContent = e.originalContent
  BY DEF Without
<1> QED BY <1>1, <1>2, <1>4, <1>6, <1>7, <1>8, <1>9

(* Filing one fresh row under a hash that is unused or already names its   *)
(* content keeps the structures agreed.                                    *)
LEMMA InsertionAgrees ==
  ASSUME NEW E, NEW H, NEW O, Agree(E, H, O), Cardinality(O) < MaxEntries,
         NEW e \in Entry,
         \A d \in O : d.id # e.id,
         H[e.hash] = {} \/ e.originalContent \in H[e.hash]
  PROVE  Agree([E EXCEPT ![e.hash] = @ \cup {e}],
               [H EXCEPT ![e.hash] = @ \cup {e.originalContent}],
               O \cup {e})
<1> DEFINE h  == e.hash
           E2 == [E EXCEPT ![h] = @ \cup {e}]
           H2 == [H EXCEPT ![h] = @ \cup {e.originalContent}]
           O2 == O \cup {e}
<1> USE DEF Agree, Typed, OneRowSet
<1>0. h \in Hashes /\ e.originalContent \in Contents
  BY DEF Entry
<1>1. E2 \in [Hashes -> SUBSET Entry] /\ H2 \in [Hashes -> SUBSET Contents]
        /\ O2 \in SUBSET Entry
  BY <1>0
<1>2. IsFiniteSet(O2) /\ Cardinality(O2) <= MaxEntries
  <2>1. IsFiniteSet(O2) /\ Cardinality(O2) <= Cardinality(O) + 1
    <3>1. IsFiniteSet(O) /\ Cardinality(O) \in Nat
      BY FS_CardinalityType
    <3>2. IsFiniteSet(O2) /\ Cardinality(O2) \in {Cardinality(O), Cardinality(O) + 1}
      BY <3>1, FS_AddElement
    <3> HIDE DEF O2
    <3> QED BY <3>1, <3>2
  <2>2. Cardinality(O) \in Nat /\ Cardinality(O2) \in Nat
    BY <2>1, FS_CardinalityType
  <2> QED BY <2>1, <2>2, StoreAssumption
<1>3. \A g \in Hashes : E2[g] = {d \in O2 : d.hash = g}
  BY <1>0
<1>4. \A d \in E[h] : d.originalContent = e.originalContent
  <2>1. H[h] = {d.originalContent : d \in E[h]}
    BY <1>0
  <2>2. \A d1, d2 \in E[h] : d1.originalContent = d2.originalContent
    BY <1>0
  <2> QED BY <2>1, <2>2
<1>5. \A g \in Hashes : \A d1, d2 \in E2[g] : d1.originalContent = d2.originalContent
  BY <1>0, <1>4
<1>6. \A g \in Hashes : H2[g] = {d.originalContent : d \in E2[g]}
  <2> TAKE g \in Hashes
  <2>1. CASE g = h
    <3>1. E2[g] = E[g] \cup {e} /\ H2[g] = H[g] \cup {e.originalContent}
      BY <1>0, <2>1
    <3>2. H[g] = {d.originalContent : d \in E[g]}
      OBVIOUS
    <3> HIDE DEF E2, H2
    <3> QED BY <3>1, <3>2
  <2>2. CASE g # h
    BY <2>2
  <2> QED BY <2>1, <2>2
<1>7. \A d1, d2 \in O2 : d1.id = d2.id => d1 = d2
  OBVIOUS
<1> QED BY <1>1, <1>2, <1>3, <1>5, <1>6, <1>7
-----------------------------------------------------------------------------
(* allocateHash always finds a usable attempt: the hashes it must refuse   *)
(* each hold a row of their own, and there are at most MaxEntries rows for *)
(* MaxEntries + 1 different candidates.                                    *)
LEMMA SomeAttemptUsable ==
  ASSUME NEW E, NEW H, NEW O, Agree(E, H, O), NEW c \in Contents
  PROVE  \E n \in Attempts : Usable(H, c, n)
<1> USE DEF Agree, Typed, OneRowSet
<1>1. SUFFICES ASSUME \A n \in Attempts : ~Usable(H, c, n)
               PROVE  FALSE
  OBVIOUS
<1> DEFINE hash(n) == CandidateHash[c][n]
           holder == [n \in Attempts |-> CHOOSE e \in O : e.hash = hash(n)]
<1>2. \A n \in Attempts : hash(n) \in Hashes
  BY StoreAssumption
<1>3. \A n \in Attempts : \E e \in O : e.hash = hash(n)
  <2> TAKE n \in Attempts
  <2>1. H[hash(n)] # {}
    BY <1>1 DEF Usable
  <2>2. E[hash(n)] # {}
    BY <2>1, <1>2
  <2> QED BY <2>2, <1>2
<1>4. \A n \in Attempts : holder[n] \in O /\ holder[n].hash = hash(n)
  BY <1>3
<1>5. holder \in [Attempts -> O]
  BY <1>4
<1>6. IsFiniteSet(Attempts) /\ Cardinality(Attempts) = MaxEntries + 1
  BY FS_Interval, StoreAssumption DEF Attempts
<1>7. Cardinality(O) < Cardinality(Attempts)
  BY <1>6, FS_CardinalityType, StoreAssumption
<1> HIDE DEF holder
<1>8. PICK m, n \in Attempts : m # n /\ holder[m] = holder[n]
  <2>1. IsFiniteSet(O)
    OBVIOUS
  <2> QED BY <1>5, <1>6, <1>7, <2>1, FS_PigeonHole
<1>9. hash(m) = hash(n)
  BY <1>4, <1>8
<1> QED BY <1>8, <1>9, DistinctAttempts

(* The hash put files its entry under is unused or names the same content. *)
LEMMA AllocatedHashUsable ==
  ASSUME NEW E, NEW H, NEW O, Agree(E, H, O), NEW c \in Contents
  PROVE  LET h == AllocatedHash(H, c)
         IN  h \in Hashes /\ (H[h] = {} \/ c \in H[h])
<1> DEFINE T == {n \in Attempts : Usable(H, c, n)}
           first(n) == Usable(H, c, n) /\ \A m \in 0 .. n - 1 : ~Usable(H, c, m)
<1>0. Attempts \subseteq Nat /\ \A n \in Attempts : 0 .. n - 1 \subseteq Attempts
  BY StoreAssumption DEF Attempts
<1>1. T # {} /\ T \subseteq Nat
  BY <1>0, SomeAttemptUsable
<1>2. PICK n \in T : \A y \in T : n <= y
  BY <1>1, LeastNat
<1>3. \A m \in 0 .. n - 1 : ~Usable(H, c, m)
  <2> TAKE m \in 0 .. n - 1
  <2>1. n \in Nat /\ m \in Attempts /\ m < n
    BY <1>0, <1>1
  <2> QED BY <1>2, <2>1
<1>4. \E k \in Attempts : first(k)
  BY <1>2, <1>3
<1> DEFINE k == CHOOSE j \in Attempts : first(j)
<1>5. k \in Attempts /\ Usable(H, c, k)
  BY <1>4
<1>6. AllocatedHash(H, c) = CandidateHash[c][k]
  BY DEF AllocatedHash
<1> HIDE DEF k
<1>7. CandidateHash[c][k] \in Hashes
  BY <1>5, StoreAssumption
<1> QED BY <1>5, <1>6, <1>7 DEF Usable

(* The capacity eviction of put leaves room for one more row.              *)
LEMMA EvictionMakesRoom ==
  ASSUME NEW E, NEW H, NEW O, Agree(E, H, O)
  PROVE  Cardinality(O \ Oldest(O, EntriesToEvict(O))) < MaxEntries
<1> DEFINE D == Oldest(O, EntriesToEvict(O))
<1> USE DEF Agree, Typed, OneRowSet
<1>1. Cardinality(O) \in Nat /\ Cardinality(O) <= MaxEntries /\ MaxEntries \in Nat \ {0}
  BY FS_CardinalityType, StoreAssumption
<1>2. IsFiniteSet(O \ D) /\ Cardinality(O \ D) <= Cardinality(O)
  BY FS_Subset, O \ D \in SUBSET O
<1>3. Cardinality(O \ D) \in Nat
  BY <1>2, FS_CardinalityType
<1>4. CASE Cardinality(O) < MaxEntries
  BY <1>1, <1>2, <1>3, <1>4
<1>5. CASE Cardinality(O) = MaxEntries
  <2>1. EntriesToEvict(O) = 1
    BY <1>1, <1>5 DEF EntriesToEvict
  <2>2. O # {}
    BY <1>1, <1>5, FS_EmptySet
  <2> DEFINE I == {e.id : e \in O}
  <2>3. I \subseteq Nat /\ I # {}
    BY <2>2, StoreAssumption DEF Entry, Ids
  <2>4. PICK i \in I : \A j \in I : i <= j
    BY <2>3, LeastNat
  <2>5. PICK e \in O : e.id = i
    OBVIOUS
  <2>6. {q \in O : q.id < e.id} = {}
    <3>1. \A q \in O : q.id \in Nat /\ e.id <= q.id
      BY <2>3, <2>4, <2>5
    <3>2. e.id \in Nat
      BY <2>3, <2>5
    <3> QED BY <3>1, <3>2
  <2>7. e \in D
    <3>1. Cardinality({q \in O : q.id < e.id}) = 0
      BY <2>6, FS_EmptySet
    <3>2. Cardinality({q \in O : q.id < e.id}) < EntriesToEvict(O)
      BY <2>1, <3>1
    <3> QED BY <2>5, <3>2 DEF Oldest
  <2>8. O \ D # O
    BY <2>7, <2>5
  <2>9. Cardinality(O \ D) # Cardinality(O)
    BY <2>8, FS_Subset, O \ D \in SUBSET O
  <2> QED BY <1>1, <1>2, <1>3, <1>5, <2>9
<1> QED BY <1>1, <1>4, <1>5
-----------------------------------------------------------------------------
(* The rows pruneExpiredEntries finds in the map are those it filters out  *)
(* of the eviction list, so a prune is a removal.                          *)
LEMMA PruneIsRemoval ==
  ASSUME IInv
  PROVE  /\ PrunedOrder = insertionOrder \ Expired
         /\ Agree(PrunedEntries, PrunedHistory, PrunedOrder)
<1> USE DEF IInv
<1>1. UNION {entries[h] : h \in Hashes} = insertionOrder
  <2>1. \A e \in insertionOrder : e.hash \in Hashes
    BY DEF TypeOK, Entry
  <2>2. \A h \in Hashes : entries[h] = {e \in insertionOrder : e.hash = h}
    BY DEF Agree, OneRowSet
  <2> QED BY <2>1, <2>2
<1>2. Expired = {e \in insertionOrder : e.expiresAt <= now}
  BY <1>1 DEF Expired
<1>3. \A e \in insertionOrder : e.expiresAt > now <=> ~(e.expiresAt <= now)
  BY DEF TypeOK, Entry
<1>4. PrunedOrder = insertionOrder \ Expired
  BY <1>2, <1>3 DEF PrunedOrder, Unexpired
<1>5. Agree(Without(entries, Expired),
            ReleasedHistory(entries, hashHistory, Expired),
            insertionOrder \ Expired)
  BY RemovalAgrees
<1> QED BY <1>4, <1>5 DEF PrunedEntries, PrunedHistory

(* A step that removes rows and inserts none preserves the invariant.      *)
LEMMA RemovalStep ==
  ASSUME IInv, NEW D,
         entries' = Without(entries, D),
         hashHistory' = ReleasedHistory(entries, hashHistory, D),
         insertionOrder' = insertionOrder \ D,
         retrievals' \in [Ids -> Nat], nextId' = nextId, now' \in 0 .. MaxTime
  PROVE  IInv'
<1>1. Agree(entries', hashHistory', insertionOrder')
  BY RemovalAgrees DEF IInv
<1>2. TypeOK'
  BY <1>1 DEF IInv, TypeOK, Agree, Typed
<1>3. \A e \in insertionOrder' : e.id < nextId'
  BY DEF IInv
<1> QED BY <1>1, <1>2, <1>3 DEF IInv, Agree, Typed, OneRowSet

(* put, all of it: prune, allocation, eviction and insertion.              *)
LEMMA PutPreserves ==
  ASSUME IInv, NEW s \in Sessions, NEW c \in Contents, NEW ttl \in Ttls,
         Put(s, c, ttl)
  PROVE  IInv'
<1> DEFINE h       == AllocatedHash(PrunedHistory, c)
           e       == NewEntry(h, s, c, ttl)
           evicted == Oldest(PrunedOrder, EntriesToEvict(PrunedOrder))
           kept    == Without(PrunedEntries, evicted)
           history == ReleasedHistory(PrunedEntries, PrunedHistory, evicted)
           rest    == PrunedOrder \ evicted
<1>1. /\ nextId <= MaxPuts
      /\ entries' = [kept EXCEPT ![h] = @ \cup {e}]
      /\ insertionOrder' = rest \cup {e}
      /\ hashHistory' = [history EXCEPT ![h] = @ \cup {c}]
      /\ nextId' = nextId + 1
      /\ UNCHANGED <<retrievals, now>>
  BY DEF Put
<1>2. Agree(PrunedEntries, PrunedHistory, PrunedOrder)
  BY PruneIsRemoval
<1>3. h \in Hashes /\ (PrunedHistory[h] = {} \/ c \in PrunedHistory[h])
  BY <1>2, AllocatedHashUsable
<1>4. Agree(kept, history, rest) /\ Cardinality(rest) < MaxEntries
  BY <1>2, RemovalAgrees, EvictionMakesRoom
<1>5. history[h] = {} \/ c \in history[h]
  BY <1>3 DEF ReleasedHistory
<1>6. /\ e \in Entry
      /\ e.hash = h /\ e.originalContent = c /\ e.id = nextId
  <2>1. now \in Nat /\ ttl \in Nat /\ nextId \in 1 .. MaxPuts
    BY <1>1, StoreAssumption DEF IInv, TypeOK
  <2> HIDE DEF h
  <2> QED BY <1>3, <2>1 DEF NewEntry, Entry, Ids
<1>7. rest \subseteq insertionOrder
  BY PruneIsRemoval
<1>8. \A d \in rest : d.id # nextId /\ d.id < nextId + 1
  <2>1. \A d \in rest : d.id < nextId /\ d.id \in Nat /\ nextId \in Nat
    BY <1>7 DEF IInv, TypeOK, Entry, Ids
  <2> QED BY <2>1
<1> HIDE DEF h, e, evicted, kept, history, rest
<1>9. Agree([kept EXCEPT ![e.hash] = @ \cup {e}],
            [history EXCEPT ![e.hash] = @ \cup {e.originalContent}],
            rest \cup {e})
  BY <1>4, <1>5, <1>6, <1>8, InsertionAgrees
<1>10. Agree(entries', hashHistory', insertionOrder')
  BY <1>1, <1>6, <1>9
<1>11. TypeOK'
  <2>1. nextId' \in 1 .. MaxPuts + 1
    <3>1. nextId \in 1 .. MaxPuts + 1 /\ MaxPuts \in Nat
      BY StoreAssumption DEF IInv, TypeOK
    <3> QED BY <1>1, <3>1
  <2>2. retrievals' \in [Ids -> Nat] /\ now' \in 0 .. MaxTime
    BY <1>1 DEF IInv, TypeOK
  <2> QED BY <1>10, <2>1, <2>2 DEF TypeOK, Agree, Typed
<1>12. \A d \in insertionOrder' : d.id < nextId'
  <2>1. nextId \in Nat
    BY DEF IInv, TypeOK
  <2> QED BY <1>1, <1>6, <1>8, <2>1
<1> QED BY <1>10, <1>11, <1>12 DEF IInv, Agree, Typed, OneRowSet

(* A lookup's prune of one hash is a removal too: it leaves the rows of    *)
(* every other hash alone in all three structures.                         *)
LEMMA LookupPrunePreserves ==
  ASSUME IInv, NEW h \in Hashes, LookupPrune(h),
         retrievals' \in [Ids -> Nat], nextId' = nextId, now' = now
  PROVE  IInv'
<1> DEFINE active == Unexpired(entries[h])
           D      == entries[h] \ active
<1>0. entries \in [Hashes -> SUBSET Entry] /\ hashHistory \in [Hashes -> SUBSET Contents]
  BY DEF IInv, TypeOK
<1>1. /\ \A g \in Hashes : entries[g] = {e \in insertionOrder : e.hash = g}
      /\ \A g \in Hashes : hashHistory[g] = {e.originalContent : e \in entries[g]}
  BY DEF IInv, Agree, OneRowSet
<1>2. active \subseteq entries[h]
  BY DEF Unexpired
<1>3. now' \in 0 .. MaxTime
  BY DEF IInv, TypeOK
<1> HIDE DEF active
<1>4. CASE active = entries[h] /\ UNCHANGED <<entries, hashHistory, insertionOrder>>
  <2>1. entries' = Without(entries, {})
    BY <1>0, <1>4 DEF Without
  <2>2. hashHistory' = ReleasedHistory(entries, hashHistory, {})
    BY <1>0, <1>4 DEF ReleasedHistory
  <2>3. insertionOrder' = insertionOrder \ {}
    BY <1>4
  <2> QED BY <1>3, <2>1, <2>2, <2>3, RemovalStep
<1>5. CASE /\ active # entries[h]
           /\ entries' = [entries EXCEPT ![h] = active]
           /\ hashHistory' = [hashHistory EXCEPT ![h] = IF active = {} THEN {} ELSE @]
           /\ insertionOrder' = {e \in insertionOrder : e.hash # h \/ e \in active}
  <2>1. entries' = Without(entries, D)
    <3>1. \A g \in Hashes : g # h => entries[g] \ D = entries[g]
      BY <1>1
    <3>2. entries[h] \ D = active
      BY <1>2
    <3> HIDE DEF D
    <3> QED BY <1>0, <1>5, <3>1, <3>2 DEF Without
  <2>2. hashHistory' = ReleasedHistory(entries, hashHistory, D)
    <3>1. \A g \in Hashes : g # h /\ entries[g] # {} => ~(entries[g] \subseteq D)
      BY <1>1
    <3>2. entries[h] # {} /\ (entries[h] \subseteq D <=> active = {})
      BY <1>2, <1>5
    <3> HIDE DEF D
    <3> QED BY <1>0, <1>5, <3>1, <3>2 DEF ReleasedHistory
  <2>3. insertionOrder' = insertionOrder \ D
    <3>1. D = {e \in insertionOrder : e.hash = h /\ e \notin active}
      BY <1>1
    <3> HIDE DEF D
    <3> QED BY <1>5, <3>1
  <2> QED BY <1>3, <2>1, <2>2, <2>3, RemovalStep
<1> QED BY <1>4, <1>5 DEF LookupPrune, active

(* Dropping every expired row (pruneExpired, stats, the start of a put)    *)
(* keeps the inductive invariant.                                          *)
LEMMA PrunePreserves ==
  ASSUME IInv, PruneExpired
  PROVE  IInv'
<1>1. /\ entries' = Without(entries, Expired)
      /\ hashHistory' = ReleasedHistory(entries, hashHistory, Expired)
      /\ insertionOrder' = insertionOrder \ Expired
  BY PruneIsRemoval DEF PruneExpired, PrunedEntries, PrunedHistory
<1>2. retrievals' \in [Ids -> Nat] /\ nextId' = nextId /\ now' \in 0 .. MaxTime
  BY DEF IInv, TypeOK, PruneExpired
<1> QED BY <1>1, <1>2, RemovalStep

(* deleteSession is a prune followed by the removal of the session's rows. *)
LEMMA DeleteSessionPreserves ==
  ASSUME IInv, NEW s \in Sessions, DeleteSession(s)
  PROVE  IInv'
<1> DEFINE own == {e \in UNION {PrunedEntries[h] : h \in Hashes} : e.sessionID = s}
<1>1. Agree(PrunedEntries, PrunedHistory, PrunedOrder)
        /\ PrunedOrder = insertionOrder \ Expired
  BY PruneIsRemoval
<1>2. UNION {PrunedEntries[h] : h \in Hashes} = PrunedOrder
  <2>1. \A e \in PrunedOrder : e.hash \in Hashes
    BY <1>1 DEF Agree, Typed, Entry
  <2>2. \A h \in Hashes : PrunedEntries[h] = {e \in PrunedOrder : e.hash = h}
    BY <1>1 DEF Agree, OneRowSet
  <2> QED BY <2>1, <2>2
<1>3. insertionOrder' = PrunedOrder \ own
  BY <1>2 DEF DeleteSession
<1>4. Agree(entries', hashHistory', insertionOrder')
  BY <1>1, <1>3, RemovalAgrees DEF DeleteSession
<1>5. UNCHANGED <<retrievals, nextId, now>>
  BY DEF DeleteSession
<1>6. TypeOK'
  BY <1>4, <1>5 DEF IInv, TypeOK, Agree, Typed
<1>7. \A e \in insertionOrder' : e.id < nextId'
  BY <1>1, <1>3, <1>5 DEF IInv
<1> QED BY <1>4, <1>6, <1>7 DEF IInv, Agree, Typed, OneRowSet
-----------------------------------------------------------------------------
(* IInv is inductive, and implies the invariants the runs check.           *)
LEMMA InitIInv == Init => IInv
<1> SUFFICES ASSUME Init PROVE IInv
  OBVIOUS
<1>1. TypeOK
  BY StoreAssumption DEF Init, TypeOK
<1>2. Agree(entries, hashHistory, insertionOrder)
  BY FS_EmptySet, StoreAssumption DEF Init, Agree, Typed, OneRowSet
<1> QED BY <1>1, <1>2 DEF Init, IInv

(* Every call of the adapter keeps the inductive invariant.                *)
LEMMA NextIInv == IInv /\ [Next]_vars => IInv'
<1> SUFFICES ASSUME IInv, [Next]_vars PROVE IInv'
  OBVIOUS
<1>1. ASSUME NEW s \in Sessions, NEW c \in Contents, NEW ttl \in Ttls, Put(s, c, ttl)
      PROVE  IInv'
  BY <1>1, PutPreserves
<1>2. CASE PruneExpired
  BY <1>2, PrunePreserves
<1>3. ASSUME NEW h \in Hashes, NEW s \in Sessions \cup {AnySession}, Get(h, s)
      PROVE  IInv'
  <2>1. LookupPrune(h) /\ nextId' = nextId /\ now' = now
    BY <1>3 DEF Get
  <2> DEFINE i == Newest(Matching(h, s)).id
  <2>2. retrievals' = [retrievals EXCEPT ![i] = @ + 1]
    BY <1>3 DEF Get
  <2> HIDE DEF i
  <2>3. retrievals' \in [Ids -> Nat]
    <3>1. retrievals \in [Ids -> Nat]
      BY DEF IInv, TypeOK
    <3>2. \A j \in Ids : [retrievals EXCEPT ![i] = @ + 1][j] \in Nat
      BY <3>1
    <3> QED BY <2>2, <3>1, <3>2
  <2> QED BY <2>1, <2>3, LookupPrunePreserves
<1>4. ASSUME NEW h \in Hashes, Peek(h)
      PROVE  IInv'
  <2>1. LookupPrune(h) /\ retrievals' \in [Ids -> Nat] /\ nextId' = nextId /\ now' = now
    BY <1>4 DEF Peek, IInv, TypeOK
  <2> QED BY <2>1, LookupPrunePreserves
<1>5. ASSUME NEW s \in Sessions, DeleteSession(s)
      PROVE  IInv'
  BY <1>5, DeleteSessionPreserves
<1>6. CASE Tick
  BY <1>6 DEF Tick, IInv, TypeOK, Agree, Typed, OneRowSet
<1>7. CASE UNCHANGED vars
  BY <1>7 DEF vars, IInv, TypeOK, Agree, Typed, OneRowSet
<1> QED BY <1>1, <1>2, <1>3, <1>4, <1>5, <1>6, <1>7 DEF Next

(* The three structures agree in every reachable state of the adapter.     *)
THEOREM Inductive == Spec => []IInv
BY InitIInv, NextIInv, PTL DEF Spec

(* The three structures, counters and clock keep their types.              *)
THEOREM TypeCorrect == Spec => []TypeOK
<1>1. IInv => TypeOK
  BY DEF IInv
<1> QED BY <1>1, Inductive, PTL

(* The lookup map and the eviction list always hold the same rows.         *)
THEOREM LookupMatchesOrder == Spec => []OrderAgrees
<1>1. IInv => OrderAgrees
  BY DEF IInv, Agree, OneRowSet, OrderAgrees
<1> QED BY <1>1, Inductive, PTL

(* A hash's history is exactly the set of contents still stored under it.  *)
THEOREM HistoryMatchesRows == Spec => []HistoryAgrees
<1>1. IInv => HistoryAgrees
  BY DEF IInv, Agree, OneRowSet, HistoryAgrees
<1> QED BY <1>1, Inductive, PTL

(* Under any collisions, rows that coexist under one hash share one        *)
(* original.                                                               *)
THEOREM CollisionSafety == Spec => []HashIdentifiesContent
<1>1. IInv => HashIdentifiesContent
  BY DEF IInv, Agree, OneRowSet, HashIdentifiesContent
<1> QED BY <1>1, Inductive, PTL

(* The store never holds more than maxEntries rows.                        *)
THEOREM Capacity == Spec => []CapacityBound
<1>1. IInv => CapacityBound
  BY DEF IInv, Agree, CapacityBound
<1> QED BY <1>1, Inductive, PTL

(* allocateHash's search always ends.                                      *)
THEOREM AllocationAlwaysTerminates == Spec => []AllocationTerminates
<1>1. IInv => AllocationTerminates
  BY PruneIsRemoval, SomeAttemptUsable DEF AllocationTerminates
<1> QED BY <1>1, Inductive, PTL

(* Every live marker leads its session back to the exact original: the     *)
(* newest match shares the hash, hence the original.                       *)
THEOREM Reversibility == Spec => []MarkerRecoversOriginal
<1>1. IInv => MarkerRecoversOriginal
  <2> SUFFICES ASSUME IInv, NEW e \in Unexpired(insertionOrder)
               PROVE  /\ Matching(e.hash, e.sessionID) # {}
                      /\ Newest(Matching(e.hash, e.sessionID)).originalContent
                            = e.originalContent
    BY DEF MarkerRecoversOriginal
  <2> DEFINE M == Matching(e.hash, e.sessionID)
  <2>1. e \in insertionOrder /\ e.expiresAt > now /\ e.hash \in Hashes
    BY DEF Unexpired, IInv, TypeOK, Entry
  <2>2. e \in entries[e.hash]
    BY <2>1 DEF IInv, Agree, OneRowSet
  <2>3. e \in M
    BY <2>1, <2>2 DEF Matching, Unexpired
  <2>4. M \subseteq entries[e.hash]
    BY DEF Matching, Unexpired
  <2>5. \A d \in M : d.originalContent = e.originalContent
    BY <2>1, <2>2, <2>4 DEF IInv, Agree, OneRowSet
  <2>6. Newest(M) \in M
    <3> DEFINE I == {MaxPuts - d.id : d \in M}
    <3>1. \A d \in M : d.id \in Nat /\ MaxPuts - d.id \in Nat
      BY <2>1, <2>4, StoreAssumption DEF IInv, TypeOK, Entry, Ids
    <3>2. I \subseteq Nat /\ I # {}
      BY <2>3, <3>1
    <3>3. PICK i \in I : \A j \in I : i <= j
      BY <3>2, LeastNat
    <3>4. PICK d \in M : MaxPuts - d.id = i
      OBVIOUS
    <3> HIDE DEF M
    <3>5. \A q \in M : q.id <= d.id
      <4> TAKE q \in M
      <4>1. MaxPuts - d.id <= MaxPuts - q.id
        BY <3>3, <3>4
      <4>2. q.id \in Nat /\ d.id \in Nat /\ MaxPuts \in Nat
        BY <3>1, StoreAssumption
      <4> QED BY <4>1, <4>2
    <3> QED BY <3>5 DEF Newest
  <2> QED BY <2>3, <2>5, <2>6
<1> QED BY <1>1, Inductive, PTL

(* The store stays consistent, for every capacity and every pattern of     *)
(* hash collisions.                                                        *)
THEOREM ConsistencyKept == Spec => []StoreConsistent
<1>1. TypeOK /\ OrderAgrees /\ HistoryAgrees /\ HashIdentifiesContent /\ CapacityBound
        => StoreConsistent
  BY DEF StoreConsistent
<1> QED BY <1>1, TypeCorrect, LookupMatchesOrder, HistoryMatchesRows, CollisionSafety,
           Capacity, PTL
-----------------------------------------------------------------------------
(* Refinement of CCRStore.  The rows of the contract are insertionOrder.   *)

(* The contract counts its rows as the adapter does.                       *)
LEMMA SameCardinality == \A S : Contract!Cardinality(S) = Cardinality(S)
BY DEF Contract!Cardinality, Cardinality

(* The rows a prune keeps are the contract's live rows.                    *)
LEMMA PrunedIsLive ==
  ASSUME IInv
  PROVE  PrunedOrder = Contract!Live(insertionOrder)
<1>1. \A e \in insertionOrder : e.expiresAt \in Nat /\ now \in Nat
  BY DEF IInv, TypeOK, Entry
<1>2. UNION {entries[h] : h \in Hashes} = insertionOrder
  <2>1. \A e \in insertionOrder : e.hash \in Hashes
    BY DEF IInv, TypeOK, Entry
  <2>2. \A h \in Hashes : entries[h] = {e \in insertionOrder : e.hash = h}
    BY DEF IInv, Agree, OneRowSet
  <2> QED BY <2>1, <2>2
<1>3. Expired = {e \in insertionOrder : e.expiresAt <= now}
  BY <1>2 DEF Expired
<1> QED BY <1>1, <1>3, PruneIsRemoval DEF Contract!Live

(* The capacity eviction takes the oldest rows, and exactly as many as the *)
(* capacity requires.                                                      *)
LEMMA EvictsOldestOnly ==
  ASSUME NEW E, NEW H, NEW O, Agree(E, H, O)
  PROVE  Oldest(O, EntriesToEvict(O)) \in Contract!Evictable(O, 1)
<1> DEFINE D == Oldest(O, EntriesToEvict(O))
<1> USE DEF Agree, Typed, OneRowSet
<1>1. Cardinality(O) \in Nat /\ Cardinality(O) <= MaxEntries /\ MaxEntries \in Nat \ {0}
  BY FS_CardinalityType, StoreAssumption
<1>2. \A e \in O : e.id \in Nat
  BY StoreAssumption DEF Entry, Ids
<1>3. \A e \in O : Cardinality({q \in O : q.id < e.id}) \in Nat
  <2> TAKE e \in O
  <2>1. {q \in O : q.id < e.id} \in SUBSET O
    OBVIOUS
  <2> QED BY <2>1, FS_Subset, FS_CardinalityType
<1>4. CASE Cardinality(O) < MaxEntries
  <2>1. EntriesToEvict(O) = 0
    BY <1>1, <1>4 DEF EntriesToEvict
  <2>2. D = {}
    BY <1>3, <2>1 DEF Oldest
  <2>3. ~(Cardinality(O) + 1 > MaxEntries)
    BY <1>1, <1>4
  <2>4. Cardinality({}) = 0
    BY FS_EmptySet
  <2> QED BY <2>2, <2>3, <2>4, SameCardinality DEF Contract!Evictable, Contract!OldestFirst
<1>5. CASE Cardinality(O) = MaxEntries
  <2>1. EntriesToEvict(O) = 1
    BY <1>1, <1>5 DEF EntriesToEvict
  <2>2. \A e \in O : e \in D <=> {q \in O : q.id < e.id} = {}
    <3> TAKE e \in O
    <3>1. e \in D <=> Cardinality({q \in O : q.id < e.id}) < 1
      BY <2>1 DEF Oldest
    <3>2. {q \in O : q.id < e.id} \in SUBSET O
      OBVIOUS
    <3>3. Cardinality({q \in O : q.id < e.id}) = 0 <=> {q \in O : q.id < e.id} = {}
      BY <3>2, FS_Subset, FS_EmptySet
    <3> QED BY <1>3, <3>1, <3>3
  <2>3. O # {}
    BY <1>1, <1>5, FS_EmptySet
  <2> DEFINE I == {e.id : e \in O}
  <2>4. I \subseteq Nat /\ I # {}
    BY <1>2, <2>3
  <2>5. PICK i \in I : \A j \in I : i <= j
    BY <2>4, LeastNat
  <2>6. PICK e \in O : e.id = i
    OBVIOUS
  <2>7. \A q \in O : e.id <= q.id
    BY <2>5, <2>6
  <2>8. D = {e}
    <3>1. e \in D
      BY <1>2, <2>2, <2>7
    <3>2. \A q \in D : q = e
      <4> TAKE q \in D
      <4>1. q \in O /\ {r \in O : r.id < q.id} = {}
        BY <2>2 DEF Oldest
      <4>2. ~(e.id < q.id)
        BY <4>1
      <4>3. e.id = q.id
        BY <1>2, <2>7, <4>1, <4>2
      <4> QED BY <4>1, <4>3
    <3> QED BY <3>1, <3>2
  <2>9. Cardinality(D) = 1
    BY <2>8, FS_Singleton
  <2>10. \A k \in O \ D : k.id > e.id
    <3> TAKE k \in O \ D
    <3>1. k.id # e.id
      BY <2>8
    <3> QED BY <1>2, <2>7, <3>1
  <2>11. Contract!OldestFirst(D, O \ D)
    BY <2>8, <2>10 DEF Contract!OldestFirst
  <2>12. D \in SUBSET O
    BY DEF Oldest
  <2>13. Cardinality(O) + 1 > MaxEntries /\ Cardinality(O) + 1 - MaxEntries = 1
    BY <1>1, <1>5
  <2> HIDE DEF D
  <2> QED BY <2>9, <2>11, <2>12, <2>13, SameCardinality DEF D, Contract!Evictable
<1> QED BY <1>1, <1>4, <1>5

(* put is a put of the contract.                                           *)
LEMMA PutRefines ==
  ASSUME IInv, NEW s \in Sessions, NEW c \in Contents, NEW ttl \in Ttls,
         Put(s, c, ttl)
  PROVE  Contract!ContractPut(s, c, ttl)
<1> DEFINE h    == AllocatedHash(PrunedHistory, c)
           e    == NewEntry(h, s, c, ttl)
           gone == Oldest(PrunedOrder, EntriesToEvict(PrunedOrder))
           live == Contract!Live(insertionOrder)
           kept == live \ gone
<1>1. live = PrunedOrder /\ live \subseteq insertionOrder
  BY PrunedIsLive, PruneIsRemoval
<1>2. Agree(PrunedEntries, PrunedHistory, PrunedOrder)
  BY PruneIsRemoval
<1>3. h \in Hashes /\ (PrunedHistory[h] = {} \/ c \in PrunedHistory[h])
  BY <1>2, AllocatedHashUsable
<1>4. /\ e.hash = h /\ e.sessionID = s /\ e.originalContent = c
      /\ e.createdAt = now /\ e.expiresAt = now + ttl /\ e.id = nextId
  BY DEF NewEntry
<1>5. insertionOrder' = kept \cup {e} /\ UNCHANGED <<retrievals, now>>
  BY <1>1 DEF Put
<1>6. gone \in Contract!Evictable(live, 1)
  BY <1>1, <1>2, EvictsOldestOnly
<1> HIDE DEF h, gone, live
<1>7. \A r \in insertionOrder : r.id < e.id
  BY <1>4 DEF IInv
<1>8. \A r \in kept : r.hash = h => r.originalContent = c
  <2> SUFFICES ASSUME NEW r \in kept, r.hash = h
               PROVE  r.originalContent = c
    OBVIOUS
  <2>1. r \in PrunedEntries[h]
    BY <1>1, <1>2, <1>3 DEF Agree, OneRowSet
  <2>2. PrunedHistory[h] = {d.originalContent : d \in PrunedEntries[h]}
    BY <1>2, <1>3 DEF Agree, OneRowSet
  <2>3. PICK d \in PrunedEntries[h] : d.originalContent = c
    BY <1>3, <2>1, <2>2
  <2> QED BY <1>2, <1>3, <2>1, <2>3 DEF Agree, OneRowSet
<1>9. e \notin kept
  <2>1. nextId \in Nat
    BY DEF IInv, TypeOK
  <2>2. \A r \in kept : r.id < nextId
    BY <1>1 DEF IInv
  <2> QED BY <1>4, <2>1, <2>2
<1> HIDE DEF e
<1>10. insertionOrder' \ kept = {e} /\ kept \subseteq insertionOrder'
  BY <1>5, <1>9
<1> QED BY <1>3, <1>4, <1>5, <1>6, <1>7, <1>8, <1>10 DEF Contract!ContractPut, live

(* A lookup drops expired rows only.                                       *)
LEMMA LookupDropsExpired ==
  ASSUME IInv, NEW h \in Hashes, LookupPrune(h)
  PROVE  /\ insertionOrder' \in SUBSET insertionOrder
         /\ Contract!Live(insertionOrder) \subseteq insertionOrder'
<1>1. entries[h] = {e \in insertionOrder : e.hash = h}
  BY DEF IInv, Agree, OneRowSet
<1> QED BY <1>1 DEF LookupPrune, Unexpired, Contract!Live

(* get is a get of the contract: it answers with the same row, and counts  *)
(* that one.                                                               *)
LEMMA GetRefines ==
  ASSUME IInv, NEW h \in Hashes, NEW s \in Sessions \cup {AnySession}, Get(h, s)
  PROVE  Contract!ContractGet(h, s)
<1>1. Matching(h, s) = Contract!Candidates(insertionOrder, h, s)
  <2>1. entries[h] = {e \in insertionOrder : e.hash = h}
    BY DEF IInv, Agree, OneRowSet
  <2> QED BY <2>1 DEF Matching, Unexpired, Contract!Candidates, Contract!Live
<1>2. Newest(Matching(h, s)) = Contract!Newest(Matching(h, s))
  BY DEF Newest, Contract!Newest
<1>3. LookupPrune(h) /\ UNCHANGED now /\ Matching(h, s) # {}
  BY DEF Get
<1>4. retrievals' = [retrievals EXCEPT ![Newest(Matching(h, s)).id] = @ + 1]
  BY DEF Get
<1> QED BY <1>1, <1>2, <1>3, <1>4, LookupDropsExpired DEF Contract!ContractGet

(* deleteSession removes exactly the live rows of its session.             *)
LEMMA DeleteSessionRefines ==
  ASSUME IInv, NEW s \in Sessions, DeleteSession(s)
  PROVE  Contract!ContractDeleteSession(s)
<1>1. Agree(PrunedEntries, PrunedHistory, PrunedOrder)
  BY PruneIsRemoval
<1>2. UNION {PrunedEntries[h] : h \in Hashes} = PrunedOrder
  <2>1. \A e \in PrunedOrder : e.hash \in Hashes
    BY <1>1 DEF Agree, Typed, Entry
  <2>2. \A h \in Hashes : PrunedEntries[h] = {e \in PrunedOrder : e.hash = h}
    BY <1>1 DEF Agree, OneRowSet
  <2> QED BY <2>1, <2>2
<1>3. insertionOrder' = {e \in PrunedOrder : e.sessionID # s}
  BY <1>2 DEF DeleteSession
<1>4. UNCHANGED <<retrievals, now>>
  BY DEF DeleteSession
<1> QED BY <1>3, <1>4, PrunedIsLive DEF Contract!ContractDeleteSession

(* Every step of the adapter is a step of the contract or changes nothing  *)
(* the contract speaks of.                                                 *)
LEMMA StepRefines ==
  ASSUME IInv, [Next]_vars
  PROVE  [Contract!ContractNext]_(Contract!contractVars)
<1> USE DEF Contract!ContractNext
<1>1. ASSUME NEW s \in Sessions, NEW c \in Contents, NEW ttl \in Ttls, Put(s, c, ttl)
      PROVE  Contract!ContractNext
  BY <1>1, PutRefines
<1>2. ASSUME PruneExpired PROVE Contract!ContractNext
  <2>1. insertionOrder' = Contract!Live(insertionOrder) /\ UNCHANGED <<retrievals, now>>
    BY <1>2, PrunedIsLive DEF PruneExpired
  <2>2. Contract!Drop
    BY <2>1 DEF Contract!Drop, Contract!Live
  <2> QED BY <2>2
<1>3. ASSUME NEW h \in Hashes, NEW s \in Sessions \cup {AnySession}, Get(h, s)
      PROVE  Contract!ContractNext
  BY <1>3, GetRefines
<1>4. ASSUME NEW h \in Hashes, Peek(h) PROVE Contract!ContractNext
  <2>1. LookupPrune(h) /\ UNCHANGED <<retrievals, now>>
    BY <1>4 DEF Peek
  <2>2. Contract!Drop
    BY <2>1, LookupDropsExpired DEF Contract!Drop
  <2> QED BY <2>2
<1>5. ASSUME NEW s \in Sessions, DeleteSession(s) PROVE Contract!ContractNext
  BY <1>5, DeleteSessionRefines
<1>6. ASSUME Tick PROVE Contract!ContractNext
  BY <1>6 DEF Tick, Contract!ContractTick
<1>7. CASE UNCHANGED vars
  BY <1>7 DEF vars, Contract!contractVars
<1> QED BY <1>1, <1>2, <1>3, <1>4, <1>5, <1>6, <1>7 DEF Next

(* The memory adapter implements the store contract, whatever the order of *)
(* puts, lookups, prunes, evictions, deletions and clock steps: no         *)
(* operation loses a live row but a put at capacity, which evicts the      *)
(* oldest and no more than it needs, and a deletion of its own session;    *)
(* and a counted retrieval is of the newest live row of the session.       *)
THEOREM Refinement == Spec => RefinesContract
<1>1. Init => Contract!ContractInit
  <2>1. ASSUME Init PROVE retrievals = [i \in DOMAIN retrievals |-> 0]
    BY <2>1 DEF Init
  <2> QED BY <2>1 DEF Init, Contract!ContractInit
<1>2. IInv /\ [Next]_vars => [Contract!ContractNext]_(Contract!contractVars)
  BY StepRefines
<1> QED BY <1>1, <1>2, Inductive, PTL DEF Spec, RefinesContract, Contract!ContractSpec
=============================================================================
