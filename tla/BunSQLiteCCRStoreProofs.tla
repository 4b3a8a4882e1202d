----------------------- MODULE BunSQLiteCCRStoreProofs -----------------------
(***************************************************************************)
(* What BunSQLiteCCRStore keeps for every number of rows, sessions and     *)
(* contents, every capacity and every file an earlier build may have left. *)
(*                                                                         *)
(* The constructor is a sequence of statements, and what they may rely on  *)
(* is the point of the two invariants.  AloneInv is that of a process that *)
(* has the file to itself: every prefix of the rebuild leaves a history    *)
(* that the rest of it, or the next start from nothing, makes that of the  *)
(* rows.  SharedInv is that of any number of processes when no two         *)
(* contents share a candidate hash and no file is over the limit: without  *)
(* the first a put may fall between another start's DELETE and its         *)
(* INSERTs (the run SqliteStartupRace), without the second two starts may  *)
(* both evict the excess that each has counted.                            *)
(***************************************************************************)
EXTENDS BunSQLiteCCRStore, FiniteSetTheorems, WellFoundedInduction, TLAPS

(* What the theorems about the file suppose of the processes.              *)
OneProcess == \E p : Processes = {p}

HashesOf(c) == {CandidateHash[c][n] : n \in Attempts}
NoCollisions ==
  /\ \A c, d \in Contents : HashesOf(c) \cap HashesOf(d) # {} => c = d
  /\ \A d \in Databases : \A r \in d.rows : r.hash \in HashesOf(r.originalContent)
NoFileOverLimit == \A d \in Databases : Cardinality(d.rows) <= MaxEntries

(* A process that has the file to itself.                                  *)
AloneInv ==
  /\ TypeOK
  /\ HashIdentifiesContent(rows)
  /\ \A p \in Processes :
       /\ pc[p] = "evict" => excess[p] = Excess(rows, 0)
       /\ pc[p] \in {"clear", "read", "backfill", "ready"} => Cardinality(rows) <= MaxEntries
       /\ pc[p] = "read" => history = {}
       /\ pc[p] = "backfill" => history \cup snapshot[p] = KeyedBy(rows)
       /\ pc[p] = "ready" => history = KeyedBy(rows)

(* Processes that share a file within the limit, without collisions.       *)
SharedInv ==
  /\ TypeOK
  /\ Cardinality(rows) <= MaxEntries
  /\ \A r \in rows : r.hash \in HashesOf(r.originalContent)
  /\ \A p \in Processes : pc[p] # "evict"
-----------------------------------------------------------------------------
(* A nonempty set of naturals has a least member.                          *)
LEMMA LeastNat ==
  ASSUME NEW T, T \subseteq Nat, T # {}
  PROVE  \E x \in T : \A y \in T : x <= y
<1> DEFINE R == OpToRel(<, Nat)
<1>1. PICK x \in T : \A y \in T : ~ (<<y, x>> \in R)
  BY NatLessThanWellFounded, WFMin
<1>2. \A y \in T : ~(y < x)
  <2> TAKE y \in T
  <2>1. y \in Nat /\ x \in Nat
    OBVIOUS
  <2>2. y < x => <<y, x>> \in R
    BY <2>1 DEF OpToRel
  <2> QED BY <1>1, <2>2
<1> QED BY <1>2

(* Rows are as many as their keys at most: there are finitely many.        *)
LEMMA RowsFinite ==
  ASSUME NEW R, R \subseteq Row, \A q, r \in R : q.id = r.id => q = r
  PROVE  IsFiniteSet(R)
<1> DEFINE f == [r \in R |-> r.id]
<1>1. \A r \in R : r.id \in Ids
  BY DEF Row
<1>2. f \in Injection(R, Ids)
  BY <1>1 DEF Injection, IsInjective
<1>3. IsFiniteSet(Ids)
  BY FS_Interval, SQLiteAssumption DEF Ids
<1> QED BY <1>2, <1>3, FS_Injection

(* The order of eviction: every row has its own place in it.               *)
LEMMA PlacesDiffer ==
  ASSUME NEW R, R \subseteq Row, IsFiniteSet(R), \A q, r \in R : q.id = r.id => q = r
  PROVE  LET Place(r) == Cardinality({q \in R : Precedes(q, r)})
         IN  \A r \in R : /\ Place(r) \in 0 .. Cardinality(R) - 1
                          /\ \A q \in R : Precedes(q, r) => Place(q) < Place(r)
                          /\ \A q \in R : q # r => Precedes(q, r) \/ Precedes(r, q)
<1> DEFINE Before(r) == {q \in R : Precedes(q, r)}
<1>1. \A r \in R : r.id \in Nat /\ r.createdAt \in Nat
  BY SQLiteAssumption DEF Row, Ids
<1>2. \A q, r \in R : q # r => Precedes(q, r) \/ Precedes(r, q)
  BY <1>1 DEF Precedes
<1>3. \A r \in R : ~Precedes(r, r)
  BY <1>1 DEF Precedes
<1>4. \A p, q, r \in R : Precedes(p, q) /\ Precedes(q, r) => Precedes(p, r)
  BY <1>1 DEF Precedes
<1> HIDE DEF Precedes
<1>5. \A r \in R : Before(r) \in SUBSET R /\ r \notin Before(r)
  BY <1>3
<1>6. \A q, r \in R : Precedes(q, r) =>
        Before(q) \in SUBSET Before(r) /\ q \in Before(r) /\ q \notin Before(q)
  BY <1>3, <1>4
<1> HIDE DEF Before
<1>7. \A r \in R : /\ IsFiniteSet(Before(r)) /\ Cardinality(Before(r)) \in Nat
                   /\ Cardinality(Before(r)) < Cardinality(R)
  BY <1>5, FS_Subset, FS_CardinalityType
<1>8. \A q, r \in R : Precedes(q, r) => Cardinality(Before(q)) < Cardinality(Before(r))
  <2> SUFFICES ASSUME NEW q \in R, NEW r \in R, Precedes(q, r)
               PROVE  Cardinality(Before(q)) < Cardinality(Before(r))
    OBVIOUS
  <2>1. Before(q) \in SUBSET Before(r) /\ Before(q) # Before(r)
    BY <1>6
  <2>2. IsFiniteSet(Before(r)) /\ Cardinality(Before(r)) \in Nat /\ Cardinality(Before(q)) \in Nat
    BY <1>7
  <2> QED BY <2>1, <2>2, FS_Subset
<1>9. Cardinality(R) \in Nat
  BY FS_CardinalityType
<1>10. \A r \in R : Cardinality(Before(r)) \in 0 .. Cardinality(R) - 1
  BY <1>7, <1>9
<1> QED BY <1>2, <1>8, <1>10, Zenon DEF Before

(* DELETE ... LIMIT takes exactly that many rows, and the oldest ones.     *)
LEMMA OldestAreOldest ==
  ASSUME NEW R, R \subseteq Row, IsFiniteSet(R), \A q, r \in R : q.id = r.id => q = r,
         NEW n \in 0 .. Cardinality(R)
  PROVE  /\ Oldest(R, n) \in SUBSET R /\ Cardinality(Oldest(R, n)) = n
         /\ \A d \in Oldest(R, n), k \in R \ Oldest(R, n) : Precedes(d, k)
<1> DEFINE Place(r) == Cardinality({q \in R : Precedes(q, r)})
           N == Cardinality(R)
           place == [r \in R |-> Place(r)]
           D == Oldest(R, n)
<1>1. \A r \in R : /\ Place(r) \in 0 .. N - 1
                   /\ \A q \in R : Precedes(q, r) => Place(q) < Place(r)
                   /\ \A q \in R : q # r => Precedes(q, r) \/ Precedes(r, q)
  BY PlacesDiffer
<1>2. D = {r \in R : Place(r) < n}
  BY DEF Oldest
<1>3. N \in Nat /\ n \in Nat /\ n <= N
  BY FS_CardinalityType
<1> HIDE DEF Place, N, D
<1>4. place \in Injection(R, 0 .. N - 1)
  <2>1. place \in [R -> 0 .. N - 1]
    BY <1>1
  <2>2. \A q, r \in R : place[q] = place[r] => q = r
    <3> SUFFICES ASSUME NEW q \in R, NEW r \in R, place[q] = place[r], q # r PROVE FALSE
      OBVIOUS
    <3>1. Place(q) = Place(r) /\ Place(q) \in Nat
      BY <1>1
    <3> QED BY <1>1, <3>1
  <2> QED BY <2>1, <2>2 DEF Injection, IsInjective
<1>5. IsFiniteSet(0 .. N - 1) /\ Cardinality(0 .. N - 1) = N
  <2>1. 0 \in Int /\ N - 1 \in Int
    BY <1>3
  <2>2. /\ IsFiniteSet(0 .. N - 1)
        /\ Cardinality(0 .. N - 1) = IF 0 > N - 1 THEN 0 ELSE N - 1 - 0 + 1
    BY <2>1, FS_Interval
  <2> QED BY <1>3, <2>2
<1>6. place \in Surjection(R, 0 .. N - 1)
  BY <1>4, <1>5, FS_Injection DEF N
<1> DEFINE early == [r \in D |-> Place(r)]
<1>7. early \in Bijection(D, 0 .. n - 1)
  <2>1. early \in [D -> 0 .. n - 1]
    BY <1>1, <1>2, <1>3
  <2>2. \A q, r \in D : early[q] = early[r] => q = r
    BY <1>2, <1>4 DEF Injection, IsInjective
  <2>3. \A i \in 0 .. n - 1 : \E r \in D : early[r] = i
    <3> TAKE i \in 0 .. n - 1
    <3>1. i \in 0 .. N - 1 /\ i < n
      BY <1>3
    <3>2. PICK r \in R : place[r] = i
      BY <1>6, <3>1 DEF Surjection
    <3> QED BY <1>2, <3>1, <3>2
  <2> QED BY <2>1, <2>2, <2>3 DEF Bijection, Injection, Surjection, IsInjective
<1>8. IsFiniteSet(0 .. n - 1) /\ Cardinality(0 .. n - 1) = n
  <2>1. 0 \in Int /\ n - 1 \in Int
    BY <1>3
  <2>2. /\ IsFiniteSet(0 .. n - 1)
        /\ Cardinality(0 .. n - 1) = IF 0 > n - 1 THEN 0 ELSE n - 1 - 0 + 1
    BY <2>1, FS_Interval
  <2> QED BY <1>3, <2>2
<1>9. D \in SUBSET R
  BY <1>2
<1>10. Cardinality(D) = n
  <2>1. IsFiniteSet(D)
    BY <1>9, FS_Subset
  <2> QED BY <1>7, <1>8, <2>1, FS_Bijection DEF ExistsBijection
<1>11. \A d \in D, k \in R \ D : Precedes(d, k)
  <2> SUFFICES ASSUME NEW d \in D, NEW k \in R \ D, ~Precedes(d, k) PROVE FALSE
    OBVIOUS
  <2>1. Place(d) < n /\ ~(Place(k) < n) /\ d \in R /\ d # k
    BY <1>2
  <2>2. Place(k) < Place(d)
    BY <1>1, <2>1
  <2>3. Place(d) \in Nat /\ Place(k) \in Nat
    BY <1>1, <2>1
  <2> QED BY <1>3, <2>1, <2>2, <2>3
<1> QED BY <1>9, <1>10, <1>11 DEF D

(* What an eviction leaves is within the limit, incoming rows included.    *)
LEMMA EvictionMakesRoom ==
  ASSUME NEW R, R \subseteq Row, IsFiniteSet(R), \A q, r \in R : q.id = r.id => q = r,
         NEW incoming \in 0 .. 1
  PROVE  LET gone == Oldest(R, Excess(R, incoming))
         IN  /\ Excess(R, incoming) \in 0 .. Cardinality(R)
             /\ gone \in Contract!Evictable(R, incoming)
             /\ IsFiniteSet(R \ gone)
             /\ Cardinality(R \ gone) + incoming <= MaxEntries
<1> DEFINE n == Excess(R, incoming)
           gone == Oldest(R, n)
           N == Cardinality(R)
<1>1. N \in Nat /\ MaxEntries \in Nat \ {0} /\ incoming \in {0, 1}
  BY FS_CardinalityType, SQLiteAssumption
<1>2. n = IF N + incoming > MaxEntries THEN N + incoming - MaxEntries ELSE 0
  BY DEF Excess
<1>3. n \in 0 .. N
  BY <1>1, <1>2
<1> HIDE DEF n
<1>4. gone \in SUBSET R /\ Cardinality(gone) = n
        /\ \A d \in gone, k \in R \ gone : Precedes(d, k)
  BY <1>3, OldestAreOldest
<1> HIDE DEF gone
<1>5. IsFiniteSet(R \ gone) /\ Cardinality(R \ gone) = N - n
  <2>1. R \cap gone = gone
    BY <1>4
  <2>2. Cardinality(R \ gone) = Cardinality(R) - Cardinality(R \cap gone) /\ IsFiniteSet(R \ gone)
    BY FS_Difference
  <2> QED BY <1>4, <2>1, <2>2
<1>6. N - n + incoming <= MaxEntries
  BY <1>1, <1>2
<1>7. Contract!OldestFirst(gone, R \ gone)
  <2> SUFFICES ASSUME NEW d \in gone, NEW k \in R \ gone
               PROVE  k.createdAt > d.createdAt \/ k.id > d.id
    BY DEF Contract!OldestFirst
  <2>1. Precedes(d, k)
    BY <1>4
  <2>2. d.id \in Nat /\ k.id \in Nat /\ d.createdAt \in Nat /\ k.createdAt \in Nat
    BY <1>4, SQLiteAssumption DEF Row, Ids
  <2> QED BY <2>1, <2>2 DEF Precedes
<1>8. \A S : Contract!Cardinality(S) = Cardinality(S)
  BY DEF Contract!Cardinality, Cardinality
<1>9. gone \in Contract!Evictable(R, incoming)
  BY <1>2, <1>4, <1>7, <1>8 DEF Contract!Evictable
<1> QED BY <1>3, <1>5, <1>6, <1>9 DEF gone, n

(* allocateHash answers with a candidate that names no other content.      *)
LEMMA AllocatedHashUsable ==
  ASSUME NEW H, NEW c \in Contents, \E n \in Attempts : Usable(H, c, n)
  PROVE  /\ AllocatedHash(H, c) \in HashesOf(c) /\ AllocatedHash(H, c) \in Hashes
         /\ \A x \in H : x[1] = AllocatedHash(H, c) => x[2] = c
<1> DEFINE U == {n \in Attempts : Usable(H, c, n)}
<1>1. U \subseteq Nat /\ U # {}
  BY SQLiteAssumption DEF Attempts
<1>2. PICK n \in U : \A m \in U : n <= m
  BY <1>1, LeastNat
<1>3. \A m \in 0 .. n - 1 : ~Usable(H, c, m)
  BY <1>2, SQLiteAssumption DEF Attempts
<1> DEFINE First(m) == Usable(H, c, m) /\ \A k \in 0 .. m - 1 : ~Usable(H, c, k)
           a == CHOOSE m \in Attempts : First(m)
<1>4. a \in Attempts /\ First(a)
  <2>1. n \in Attempts /\ First(n)
    BY <1>2, <1>3
  <2> HIDE DEF First
  <2> QED BY <2>1
<1>5. AllocatedHash(H, c) = CandidateHash[c][a]
  BY DEF AllocatedHash
<1> HIDE DEF a
<1>6. CandidateHash[c][a] \in Hashes
  BY <1>4, SQLiteAssumption
<1> QED BY <1>4, <1>5, <1>6 DEF HashesOf, Usable
-----------------------------------------------------------------------------
(* What the types say of the rows.                                         *)
LEMMA RowsOfType ==
  ASSUME TypeOK
  PROVE  /\ rows \subseteq Row /\ IsFiniteSet(rows) /\ Cardinality(rows) \in Nat
         /\ \A q, r \in rows : q.id = r.id => q = r
         /\ \A r \in rows : r.id \in Nat /\ r.id < nextId
         /\ Unexpired(rows) \subseteq rows
BY RowsFinite, FS_CardinalityType, SQLiteAssumption DEF TypeOK, Row, Ids, Unexpired

(* Fewer rows stay within a limit.                                         *)
LEMMA FewerRows ==
  ASSUME TypeOK, NEW R, R \subseteq rows
  PROVE  IsFiniteSet(R) /\ Cardinality(R) \in Nat /\ Cardinality(R) <= Cardinality(rows)
<1>1. IsFiniteSet(rows) /\ R \in SUBSET rows
  BY RowsOfType
<1> QED BY <1>1, FS_Subset, FS_CardinalityType

(* What a put evicts, what it keeps of the rows and of the history, and    *)
(* where its own row goes.                                                 *)
PutParts(p, s, c, ttl, gone, kept, past, e) ==
  /\ Ready(p)
  /\ gone \in Contract!Evictable(Unexpired(rows), 1)
  /\ kept = Unexpired(rows) \ gone
  /\ kept \subseteq rows /\ Cardinality(kept) + 1 <= MaxEntries
  /\ past = IF kept # rows THEN WithoutOrphans(kept, history) ELSE history
  /\ past \subseteq history
  /\ e \in Row /\ e.id = nextId /\ e.sessionID = s /\ e.originalContent = c
  /\ e.createdAt = now /\ e.expiresAt = now + ttl
  /\ e.hash \in HashesOf(c) /\ \A x \in past : x[1] = e.hash => x[2] = c
  /\ e \notin kept
  /\ rows' = kept \cup {e} /\ history' = past \cup {<<e.hash, c>>}
  /\ nextId' = nextId + 1 /\ nextId <= MaxRows
  /\ UNCHANGED <<legacy, retrievals, now, pc, snapshot, excess>>

(* Every put has such parts.                                               *)
LEMMA PutShape ==
  ASSUME TypeOK, NEW p \in Processes, NEW s \in Sessions, NEW c \in Contents,
         NEW ttl \in Ttls, Put(p, s, c, ttl)
  PROVE  \E gone, kept, past, e : PutParts(p, s, c, ttl, gone, kept, past, e)
<1> DEFINE alive == Unexpired(rows)
           gone  == Oldest(alive, Excess(alive, 1))
           kept  == alive \ gone
           past  == IF kept # rows THEN WithoutOrphans(kept, history) ELSE history
           e     == [id |-> nextId, hash |-> AllocatedHash(past, c), sessionID |-> s,
                     originalContent |-> c, createdAt |-> now, expiresAt |-> now + ttl]
<1>1. /\ Ready(p) /\ nextId <= MaxRows
      /\ \E n \in Attempts : Usable(past, c, n)
      /\ rows' = kept \cup {e} /\ history' = past \cup {<<e.hash, c>>}
      /\ nextId' = nextId + 1
      /\ UNCHANGED <<legacy, retrievals, now, pc, snapshot, excess>>
  BY Zenon DEF Put
<1>2. alive \subseteq rows /\ alive \subseteq Row /\ IsFiniteSet(alive)
        /\ \A q, r \in alive : q.id = r.id => q = r
  BY RowsOfType, FewerRows
<1> HIDE DEF alive
<1>3. gone \in Contract!Evictable(alive, 1) /\ Cardinality(kept) + 1 <= MaxEntries
  <2>1. 1 \in 0 .. 1
    OBVIOUS
  <2> HIDE DEF kept
  <2>2. LET out == Oldest(alive, Excess(alive, 1))
        IN  /\ out \in Contract!Evictable(alive, 1)
            /\ Cardinality(alive \ out) + 1 <= MaxEntries
    BY <1>2, <2>1, EvictionMakesRoom
  <2> QED BY <2>2, Zenon DEF kept
<1> HIDE DEF gone
<1>4. kept \subseteq rows
  BY <1>2
<1>5. past \subseteq history
  BY DEF WithoutOrphans
<1> HIDE DEF past
<1>6. /\ AllocatedHash(past, c) \in HashesOf(c) /\ AllocatedHash(past, c) \in Hashes
      /\ \A x \in past : x[1] = AllocatedHash(past, c) => x[2] = c
  BY <1>1, AllocatedHashUsable
<1>7. e \in Row
  <2>1. nextId \in Ids /\ now \in Nat /\ ttl \in Nat
    BY <1>1, SQLiteAssumption DEF TypeOK, Ids
  <2>2. now + ttl \in Nat
    BY <2>1
  <2> QED BY <1>6, <2>1, <2>2 DEF Row
<1>8. e \notin kept
  BY <1>4, RowsOfType
<1>9. /\ e.id = nextId /\ e.sessionID = s /\ e.originalContent = c
      /\ e.createdAt = now /\ e.expiresAt = now + ttl /\ e.hash = AllocatedHash(past, c)
  OBVIOUS
<1>10. past = IF kept # rows THEN WithoutOrphans(kept, history) ELSE history
  BY DEF past
<1> HIDE DEF e
<1>11. kept = alive \ gone
  OBVIOUS
<1> HIDE DEF kept
<1>12. PutParts(p, s, c, ttl, gone, kept, past, e)
  BY <1>1, <1>3, <1>4, <1>5, <1>6, <1>7, <1>8, <1>9, <1>10, <1>11, Zenon DEF alive, PutParts
<1> QED BY <1>12

(* Every operation but put only takes rows away, and a put takes away all  *)
(* those it must before it adds one.                                       *)
LEMMA OthersOnlyRemove ==
  ASSUME TypeOK, [Next]_vars
  PROVE  \/ \E p \in Processes, s \in Sessions, c \in Contents, ttl \in Ttls :
              Put(p, s, c, ttl)
         \/ rows' \subseteq rows /\ nextId' = nextId
<1> USE DEF tables
<1>1. CASE UNCHANGED vars
  BY <1>1 DEF vars
<1>2. CASE Tick
  BY <1>2 DEF Tick
<1>3. ASSUME NEW p \in Processes, Startup(p) PROVE rows' \subseteq rows /\ nextId' = nextId
  BY <1>3 DEF Startup, Open, RewriteHistory, StartupPrune, StartupCount, StartupEvict,
       ClearHistory, ReadRows, RecordRow, FinishStartup, Unexpired
<1>4. ASSUME NEW p \in Processes, Down(p) \/ PruneExpired(p)
      PROVE  rows' \subseteq rows /\ nextId' = nextId
  BY <1>4 DEF Down, PruneExpired, Prune, Unexpired
<1>5. ASSUME NEW p \in Processes, NEW h \in Hashes, NEW s \in Sessions \cup {AnySession},
             Get(p, h, s)
      PROVE  rows' \subseteq rows /\ nextId' = nextId
  BY <1>5 DEF Get, Prune, Unexpired
<1>6. ASSUME NEW p \in Processes, NEW s \in Sessions, DeleteSession(p, s)
      PROVE  rows' \subseteq rows /\ nextId' = nextId
  BY <1>6 DEF DeleteSession, Unexpired
<1> QED BY <1>1, <1>2, <1>3, <1>4, <1>5, <1>6 DEF Next

(* Types are kept, by any number of processes.                             *)
LEMMA TypeKept ==
  ASSUME TypeOK, [Next]_vars
  PROVE  TypeOK'
<1> DEFINE PcOK == pc' \in [Processes -> {"down", "rewrite", "prune", "count", "evict",
                                          "clear", "read", "backfill", "ready"}]
           RowsOK == /\ rows' \in SUBSET Row
                     /\ \A q, r \in rows' : q.id = r.id => q = r
                     /\ \A r \in rows' : r.id < nextId'
                     /\ nextId' \in 1 .. MaxRows + 1
<1>1. KeyedBy(rows) \subseteq Hashes \X Contents
  BY DEF TypeOK, KeyedBy, Row
<1>2. Excess(rows, 0) \in Nat
  BY RowsOfType, SQLiteAssumption DEF Excess
<1>3. RowsOK
  <2>1. ASSUME NEW p \in Processes, NEW s \in Sessions, NEW c \in Contents, NEW ttl \in Ttls,
               Put(p, s, c, ttl)
        PROVE  RowsOK
    <3>0. PICK gone, kept, past, e : PutParts(p, s, c, ttl, gone, kept, past, e)
      BY <2>1, PutShape
    <3>1. /\ e \in Row /\ e.id = nextId /\ kept \subseteq rows /\ rows' = kept \cup {e}
          /\ nextId' = nextId + 1 /\ nextId <= MaxRows
      BY <3>0 DEF PutParts
    <3>2. nextId \in 1 .. MaxRows + 1 /\ MaxRows \in Nat
      BY SQLiteAssumption DEF TypeOK
    <3> QED BY <3>1, <3>2, RowsOfType
  <2>2. ASSUME rows' \subseteq rows, nextId' = nextId PROVE RowsOK
    BY <2>2 DEF TypeOK
  <2> QED BY <2>1, <2>2, OthersOnlyRemove
<1> DEFINE RestOK == /\ history' \in SUBSET (Hashes \X Contents)
                     /\ legacy' \in BOOLEAN
                     /\ retrievals' \in [Ids -> Nat]
                     /\ now' \in 0 .. MaxTime
                     /\ PcOK
                     /\ snapshot' \in [Processes -> SUBSET (Hashes \X Contents)]
                     /\ excess' \in [Processes -> Nat]
<1> USE DEF tables
<1>4. ASSUME NEW p \in Processes, NEW s \in Sessions, NEW c \in Contents, NEW ttl \in Ttls,
             Put(p, s, c, ttl)
      PROVE  RestOK
  <2>0. PICK gone, kept, past, e : PutParts(p, s, c, ttl, gone, kept, past, e)
    BY <1>4, PutShape
  <2>1. /\ e \in Row /\ past \subseteq history /\ history' = past \cup {<<e.hash, c>>}
        /\ UNCHANGED <<legacy, retrievals, now, pc, snapshot, excess>>
    BY <2>0 DEF PutParts
  <2>2. e.hash \in Hashes
    BY <2>1 DEF Row
  <2> QED BY <2>1, <2>2 DEF TypeOK
<1>5. ASSUME NEW p \in Processes, Startup(p) PROVE RestOK
  <2>1. CASE Open(p)
    BY <2>1 DEF Open, Goto, TypeOK
  <2>2. CASE RewriteHistory(p)
    BY <2>2 DEF RewriteHistory, Goto, TypeOK
  <2>3. CASE StartupPrune(p)
    BY <2>3 DEF StartupPrune, Goto, TypeOK
  <2>4. CASE StartupCount(p)
    BY <1>2, <2>4 DEF StartupCount, Goto, TypeOK
  <2>5. CASE StartupEvict(p)
    BY <2>5 DEF StartupEvict, Goto, TypeOK
  <2>6. CASE ClearHistory(p)
    BY <2>6 DEF ClearHistory, Goto, TypeOK
  <2>7. CASE ReadRows(p)
    BY <1>1, <2>7 DEF ReadRows, Goto, TypeOK
  <2>8. CASE RecordRow(p)
    BY <2>8 DEF RecordRow, TypeOK
  <2>9. CASE FinishStartup(p)
    BY <2>9 DEF FinishStartup, Goto, TypeOK
  <2> QED BY <1>5, <2>1, <2>2, <2>3, <2>4, <2>5, <2>6, <2>7, <2>8, <2>9 DEF Startup
<1>6. ASSUME NEW p \in Processes, Down(p) PROVE RestOK
  BY <1>6 DEF Down, Goto, TypeOK
<1>7. ASSUME NEW p \in Processes, PruneExpired(p) PROVE RestOK
  BY <1>7 DEF PruneExpired, Prune, WithoutOrphans, TypeOK
<1>8. ASSUME NEW p \in Processes, NEW h \in Hashes, NEW s \in Sessions \cup {AnySession},
             Get(p, h, s)
      PROVE  RestOK
  <2>1. history' \subseteq history /\ UNCHANGED <<legacy, now, pc, snapshot, excess>>
    BY <1>8 DEF Get, Prune, WithoutOrphans
  <2>2. PICK i : retrievals' = [retrievals EXCEPT ![i] = @ + 1]
    BY <1>8 DEF Get
  <2>3. retrievals' \in [Ids -> Nat]
    <3>1. retrievals \in [Ids -> Nat]
      BY DEF TypeOK
    <3>2. \A j \in Ids : retrievals'[j] = retrievals[j] \/ retrievals'[j] = retrievals[j] + 1
      BY <2>2, <3>1
    <3>3. \A j \in Ids : retrievals'[j] \in Nat
      BY <3>1, <3>2
    <3> QED BY <2>2, <3>1, <3>3
  <2> QED BY <2>1, <2>3 DEF TypeOK
<1>9. ASSUME NEW p \in Processes, NEW s \in Sessions, DeleteSession(p, s) PROVE RestOK
  BY <1>9 DEF DeleteSession, WithoutOrphans, TypeOK
<1>10. ASSUME Tick PROVE RestOK
  BY <1>10 DEF Tick, TypeOK
<1>11. ASSUME UNCHANGED vars PROVE RestOK
  BY <1>11 DEF vars, TypeOK
<1> HIDE DEF RestOK, tables
<1>12. RestOK
  BY <1>4, <1>5, <1>6, <1>7, <1>8, <1>9, <1>10, <1>11, Zenon DEF Next
<1> QED BY <1>3, <1>12 DEF TypeOK, RestOK
-----------------------------------------------------------------------------
(* Of a history that is that of the rows, pruning leaves that of the rows  *)
(* that stay, because no two originals share a hash.                       *)
LEMMA HistoryFollowsRows ==
  ASSUME NEW R, NEW K, K \subseteq R, HashIdentifiesContent(R)
  PROVE  WithoutOrphans(K, KeyedBy(R)) = KeyedBy(K)
BY DEF WithoutOrphans, KeyedBy, HashIdentifiesContent

(* A put keeps the invariant of a process that has the file to itself.     *)
LEMMA PutAlone ==
  ASSUME AloneInv, NEW p \in Processes, Processes = {p}, NEW s \in Sessions,
         NEW c \in Contents, NEW ttl \in Ttls, Put(p, s, c, ttl), TypeOK'
  PROVE  AloneInv'
<1>0. TypeOK
  BY DEF AloneInv
<1>0a. PICK gone, kept, past, e : PutParts(p, s, c, ttl, gone, kept, past, e)
  BY <1>0, PutShape
<1>1.   /\ Ready(p) /\ kept \subseteq rows
        /\ Cardinality(kept) + 1 <= MaxEntries
        /\ past = IF kept # rows THEN WithoutOrphans(kept, history) ELSE history
        /\ e.originalContent = c
        /\ \A x \in past : x[1] = e.hash => x[2] = c
        /\ e \notin kept
        /\ rows' = kept \cup {e} /\ history' = past \cup {<<e.hash, c>>}
        /\ UNCHANGED <<legacy, retrievals, now, pc, snapshot, excess>>
  BY <1>0a DEF PutParts
<1>2. history = KeyedBy(rows) /\ HashIdentifiesContent(rows)
  BY <1>1 DEF AloneInv, Ready
<1>3. past = KeyedBy(kept)
  BY <1>1, <1>2, HistoryFollowsRows
<1>4. \A r \in kept : r.hash = e.hash => r.originalContent = e.originalContent
  <2> TAKE r \in kept
  <2>1. <<r.hash, r.originalContent>> \in past
    BY <1>3 DEF KeyedBy
  <2> QED BY <1>1, <2>1
<1>5. HashIdentifiesContent(rows')
  BY <1>1, <1>2, <1>4 DEF HashIdentifiesContent
<1>6. history' = KeyedBy(rows')
  BY <1>1, <1>3 DEF KeyedBy
<1>7. Cardinality(rows') <= MaxEntries
  <2>1. IsFiniteSet(kept) /\ Cardinality(kept) \in Nat
    BY <1>0, <1>1, FewerRows
  <2>2. Cardinality(kept \cup {e}) = Cardinality(kept) + 1
    BY <1>1, <2>1, FS_AddElement
  <2> QED BY <1>1, <2>2
<1>8. pc'[p] = "ready"
  BY <1>1 DEF Ready
<1> QED BY <1>5, <1>6, <1>7, <1>8 DEF AloneInv, HashIdentifiesContent, KeyedBy

(* While a process is open, what goes from the rows goes from the history, *)
(* and it goes on.                                                         *)
LEMMA RemovalAlone ==
  ASSUME AloneInv, NEW p \in Processes, Processes = {p}, TypeOK', Ready(p),
         pc' = pc, rows' \subseteq rows,
         \/ rows' = rows /\ history' = history
         \/ history' = WithoutOrphans(rows', history)
  PROVE  AloneInv'
<1>1. history = KeyedBy(rows) /\ HashIdentifiesContent(rows) /\ TypeOK
  BY DEF AloneInv, Ready
<1>2. history' = KeyedBy(rows')
  BY <1>1, HistoryFollowsRows
<1>3. Cardinality(rows') <= MaxEntries
  BY <1>1, FewerRows, SQLiteAssumption DEF AloneInv, Ready
<1>4. HashIdentifiesContent(rows')
  BY <1>1 DEF HashIdentifiesContent
<1> QED BY <1>2, <1>3, <1>4 DEF AloneInv, Ready, HashIdentifiesContent, KeyedBy

(* Every statement of the constructor brings the file closer to what an    *)
(* open store relies on, whatever an earlier start left undone.            *)
LEMMA StartupAlone ==
  ASSUME AloneInv, NEW p \in Processes, Processes = {p}, TypeOK', Startup(p)
  PROVE  AloneInv'
<1> DEFINE Same == rows' = rows /\ HashIdentifiesContent(rows')
<1>1. /\ TypeOK /\ HashIdentifiesContent(rows)
      /\ pc[p] = "evict" => excess[p] = Excess(rows, 0)
      /\ pc[p] \in {"clear", "read", "backfill", "ready"} => Cardinality(rows) <= MaxEntries
      /\ pc[p] = "read" => history = {}
      /\ pc[p] = "backfill" => history \cup snapshot[p] = KeyedBy(rows)
  BY DEF AloneInv
<1>2. \A step : Goto(p, step) => pc'[p] = step
  BY DEF Goto, AloneInv, TypeOK
<1>3. SUFFICES
        /\ HashIdentifiesContent(rows')
        /\ pc'[p] = "evict" => excess'[p] = Excess(rows', 0)
        /\ pc'[p] \in {"clear", "read", "backfill", "ready"} => Cardinality(rows') <= MaxEntries
        /\ pc'[p] = "read" => history' = {}
        /\ pc'[p] = "backfill" => history' \cup snapshot'[p] = KeyedBy(rows')
        /\ pc'[p] = "ready" => history' = KeyedBy(rows')
  BY <1>1 DEF AloneInv, HashIdentifiesContent, KeyedBy, Excess
<1>4. CASE Open(p)
  <2>1. rows' = rows /\ pc'[p] \in {"rewrite", "prune"}
    BY <1>2, <1>4 DEF Open, tables
  <2> QED BY <1>1, <2>1
<1>5. CASE RewriteHistory(p)
  <2>1. rows' = rows /\ pc'[p] = "prune"
    BY <1>2, <1>5 DEF RewriteHistory
  <2> QED BY <1>1, <2>1
<1>6. CASE StartupPrune(p)
  <2>1. rows' \subseteq rows /\ pc'[p] = "count"
    BY <1>2, <1>6 DEF StartupPrune, Unexpired
  <2> QED BY <1>1, <2>1 DEF HashIdentifiesContent
<1>7. CASE StartupCount(p)
  <2>1. rows' = rows /\ excess'[p] = Excess(rows, 0)
          /\ pc'[p] = IF Excess(rows, 0) = 0 THEN "clear" ELSE "evict"
    BY <1>1, <1>2, <1>7 DEF StartupCount, tables, TypeOK
  <2>2. Excess(rows, 0) = 0 => Cardinality(rows) <= MaxEntries
    BY <1>1, RowsOfType, SQLiteAssumption DEF Excess
  <2> QED BY <1>1, <2>1, <2>2
<1>8. CASE StartupEvict(p)
  <2>1. rows' = rows \ Oldest(rows, excess[p]) /\ pc[p] = "evict" /\ pc'[p] = "clear"
    BY <1>2, <1>8 DEF StartupEvict
  <2>2. rows' = rows \ Oldest(rows, Excess(rows, 0))
    BY <1>1, <2>1
  <2>3. Cardinality(rows \ Oldest(rows, Excess(rows, 0))) <= MaxEntries
    <3>1. /\ rows \subseteq Row /\ IsFiniteSet(rows) /\ 0 \in 0 .. 1
          /\ \A q, r \in rows : q.id = r.id => q = r
      BY <1>1, RowsOfType
    <3>2. LET gone == Oldest(rows, Excess(rows, 0))
          IN  Cardinality(rows \ gone) + 0 <= MaxEntries /\ IsFiniteSet(rows \ gone)
      BY <3>1, EvictionMakesRoom
    <3>3. Cardinality(rows \ Oldest(rows, Excess(rows, 0))) \in Nat
      BY <3>2, FS_CardinalityType
    <3> QED BY <3>2, <3>3
  <2>4. HashIdentifiesContent(rows')
    BY <1>1, <2>1 DEF HashIdentifiesContent
  <2> QED BY <2>1, <2>2, <2>3, <2>4
<1>9. CASE ClearHistory(p)
  <2>1. rows' = rows /\ history' = {} /\ pc[p] = "clear" /\ pc'[p] = "read"
    BY <1>2, <1>9 DEF ClearHistory
  <2> QED BY <1>1, <2>1
<1>10. CASE ReadRows(p)
  <2>1. rows' = rows /\ history' = history /\ pc[p] = "read" /\ pc'[p] = "backfill"
          /\ snapshot'[p] = KeyedBy(rows)
    BY <1>1, <1>2, <1>10 DEF ReadRows, tables, TypeOK
  <2> QED BY <1>1, <2>1
<1>11. CASE RecordRow(p)
  <2>1. /\ rows' = rows /\ pc' = pc /\ pc[p] = "backfill"
        /\ \E x \in snapshot[p] : history' = history \cup {x} /\ snapshot'[p] = snapshot[p] \ {x}
    BY <1>1, <1>11 DEF RecordRow, TypeOK
  <2> QED BY <1>1, <2>1
<1>12. CASE FinishStartup(p)
  <2>1. rows' = rows /\ history' = history /\ pc[p] = "backfill" /\ pc'[p] = "ready"
          /\ snapshot[p] = {}
    BY <1>2, <1>12 DEF FinishStartup, tables
  <2> QED BY <1>1, <2>1
<1> QED BY <1>4, <1>5, <1>6, <1>7, <1>8, <1>9, <1>10, <1>11, <1>12 DEF Startup

(* Every step of a process that has the file to itself keeps its invariant. *)
LEMMA NextAlone ==
  ASSUME OneProcess, AloneInv, [Next]_vars
  PROVE  AloneInv'
<1>1. PICK p : Processes = {p}
  BY DEF OneProcess
<1>2. TypeOK'
  BY TypeKept DEF AloneInv
<1>3. ASSUME NEW s \in Sessions, NEW c \in Contents, NEW ttl \in Ttls, Put(p, s, c, ttl)
      PROVE  AloneInv'
  BY <1>1, <1>2, <1>3, PutAlone
<1>4. ASSUME Startup(p) PROVE AloneInv'
  BY <1>1, <1>2, <1>4, StartupAlone
<1>5. ASSUME Down(p) PROVE AloneInv'
  <2>1. rows' = rows /\ pc'[p] = "down"
    BY <1>1, <1>5 DEF Down, Goto, tables, AloneInv, TypeOK
  <2> QED BY <1>1, <1>2, <2>1 DEF AloneInv, HashIdentifiesContent
<1>6. ASSUME PruneExpired(p) PROVE AloneInv'
  <2>1. /\ Ready(p) /\ pc' = pc /\ rows' \subseteq rows
        /\ \/ rows' = rows /\ history' = history
           \/ history' = WithoutOrphans(rows', history)
    BY <1>6 DEF PruneExpired, Prune, Unexpired
  <2> QED BY <1>1, <1>2, <2>1, RemovalAlone
<1>7. ASSUME NEW h \in Hashes, NEW s \in Sessions \cup {AnySession}, Get(p, h, s)
      PROVE  AloneInv'
  <2>1. /\ Ready(p) /\ pc' = pc /\ rows' \subseteq rows
        /\ \/ rows' = rows /\ history' = history
           \/ history' = WithoutOrphans(rows', history)
    BY <1>7 DEF Get, Prune, Unexpired
  <2> QED BY <1>1, <1>2, <2>1, RemovalAlone
<1>8. ASSUME NEW s \in Sessions, DeleteSession(p, s) PROVE AloneInv'
  <2>1. /\ Ready(p) /\ pc' = pc /\ rows' \subseteq rows
        /\ history' = WithoutOrphans(rows', history)
    BY <1>8 DEF DeleteSession, Unexpired
  <2> QED BY <1>1, <1>2, <2>1, RemovalAlone
<1>9. ASSUME UNCHANGED <<rows, history, pc, snapshot, excess>> PROVE AloneInv'
  BY <1>2, <1>9 DEF AloneInv, HashIdentifiesContent, KeyedBy, Excess
<1>10. Tick \/ UNCHANGED vars => UNCHANGED <<rows, history, pc, snapshot, excess>>
  BY DEF Tick, vars, tables
<1> QED BY <1>1, <1>3, <1>4, <1>5, <1>6, <1>7, <1>8, <1>9, <1>10, Zenon DEF Next

(* ... and every step of processes that share the file keeps theirs.       *)
LEMMA NextShared ==
  ASSUME SharedInv, [Next]_vars
  PROVE  SharedInv'
<1>1. TypeOK /\ TypeOK'
  BY TypeKept DEF SharedInv
<1>2. Cardinality(rows') <= MaxEntries /\ \A r \in rows' : r.hash \in HashesOf(r.originalContent)
  <2>1. ASSUME NEW p \in Processes, NEW s \in Sessions, NEW c \in Contents, NEW ttl \in Ttls,
               Put(p, s, c, ttl)
        PROVE  /\ Cardinality(rows') <= MaxEntries
               /\ \A r \in rows' : r.hash \in HashesOf(r.originalContent)
    <3>0. PICK gone, kept, past, e : PutParts(p, s, c, ttl, gone, kept, past, e)
      BY <1>1, <2>1, PutShape
    <3>1. /\ kept \subseteq rows /\ Cardinality(kept) + 1 <= MaxEntries
          /\ e.originalContent = c /\ e.hash \in HashesOf(c)
          /\ e \notin kept /\ rows' = kept \cup {e}
      BY <3>0 DEF PutParts
    <3>2. IsFiniteSet(kept) /\ Cardinality(kept) \in Nat
      BY <1>1, <3>1, FewerRows
    <3>3. Cardinality(kept \cup {e}) = Cardinality(kept) + 1
      BY <3>1, <3>2, FS_AddElement
    <3> QED BY <3>1, <3>3 DEF SharedInv
  <2>2. ASSUME rows' \subseteq rows
        PROVE  /\ Cardinality(rows') <= MaxEntries
               /\ \A r \in rows' : r.hash \in HashesOf(r.originalContent)
    <3>1. Cardinality(rows') \in Nat /\ Cardinality(rows') <= Cardinality(rows)
            /\ Cardinality(rows) \in Nat
      BY <1>1, <2>2, FewerRows, RowsOfType
    <3> QED BY <2>2, <3>1, SQLiteAssumption DEF SharedInv
  <2> QED BY <1>1, <2>1, <2>2, OthersOnlyRemove
<1>3. \A p \in Processes : pc'[p] # "evict"
  <2>1. Excess(rows, 0) = 0
    BY <1>1, RowsOfType, SQLiteAssumption DEF Excess, SharedInv
  <2>2. ASSUME NEW p \in Processes, NEW step, Goto(p, step), step # "evict"
        PROVE  \A q \in Processes : pc'[q] # "evict"
    BY <2>2 DEF Goto, SharedInv, TypeOK
  <2>3. ASSUME pc' = pc PROVE \A q \in Processes : pc'[q] # "evict"
    BY <2>3 DEF SharedInv
  <2>4. ASSUME NEW p \in Processes, Startup(p) PROVE \A q \in Processes : pc'[q] # "evict"
    <3>1. \/ pc' = pc
          \/ \E step \in {"rewrite", "prune", "count", "clear", "read", "backfill", "ready"} :
               Goto(p, step)
      BY <2>1, <2>4 DEF Startup, Open, RewriteHistory, StartupPrune, StartupCount, StartupEvict,
           ClearHistory, ReadRows, RecordRow, FinishStartup
    <3> QED BY <2>2, <2>3, <3>1
  <2>5. ASSUME NEW p \in Processes, Down(p) PROVE \A q \in Processes : pc'[q] # "evict"
    BY <2>2, <2>5 DEF Down
  <2>6. ASSUME NEW p \in Processes, NEW s \in Sessions, NEW c \in Contents, NEW ttl \in Ttls,
               Put(p, s, c, ttl)
        PROVE  pc' = pc
    BY <2>6, Zenon DEF Put
  <2>7. ASSUME NEW p \in Processes, PruneExpired(p) \/ \E s \in Sessions : DeleteSession(p, s)
        PROVE  pc' = pc
    BY <2>7, Zenon DEF PruneExpired, DeleteSession
  <2>8. ASSUME NEW p \in Processes, NEW h \in Hashes, NEW s \in Sessions \cup {AnySession},
               Get(p, h, s)
        PROVE  pc' = pc
    BY <2>8, Zenon DEF Get
  <2>9. Tick \/ UNCHANGED vars => pc' = pc
    BY DEF Tick, vars
  <2> QED BY <2>3, <2>4, <2>5, <2>6, <2>7, <2>8, <2>9, Zenon DEF Next
<1> QED BY <1>1, <1>2, <1>3 DEF SharedInv, HashesOf

(* Every file an earlier build may have left has the right shape.          *)
LEMMA InitType ==
  ASSUME Init
  PROVE  TypeOK /\ HashIdentifiesContent(rows)
<1>1. PICK d \in Databases : rows = d.rows /\ history = d.history /\ legacy = d.legacy
                               /\ nextId = d.nextId
  BY DEF Init
<1>2. /\ d.rows \subseteq Row /\ d.nextId \in 1 .. MaxRows + 1
      /\ d.history \subseteq Hashes \X Contents /\ d.legacy \in BOOLEAN
      /\ \A q, r \in d.rows : q.id = r.id => q = r
      /\ \A r \in d.rows : r.id < d.nextId
      /\ HashIdentifiesContent(d.rows)
  BY SQLiteAssumption DEF WellFormed
<1>3. /\ retrievals \in [Ids -> Nat] /\ now \in 0 .. MaxTime
      /\ pc = [p \in Processes |-> "down"]
      /\ snapshot \in [Processes -> SUBSET (Hashes \X Contents)]
      /\ excess \in [Processes -> Nat]
  BY SQLiteAssumption DEF Init
<1> QED BY <1>1, <1>2, <1>3 DEF TypeOK, HashIdentifiesContent

(* The first invariant holds of any such file, before the first start ...  *)
LEMMA InitAlone ==
  ASSUME Init
  PROVE  AloneInv
<1>1. pc = [p \in Processes |-> "down"]
  BY DEF Init
<1> QED BY <1>1, InitType DEF AloneInv

(* ... and the second of one within the limit whose hashes are candidates. *)
LEMMA InitShared ==
  ASSUME Init, NoCollisions, NoFileOverLimit
  PROVE  SharedInv
<1>1. pc = [p \in Processes |-> "down"] /\ \E d \in Databases : rows = d.rows
  BY DEF Init
<1> QED BY <1>1, InitType DEF SharedInv, NoCollisions, NoFileOverLimit
-----------------------------------------------------------------------------
(* The types of the tables, for any number of processes and every file.    *)
THEOREM TypeCorrect == Spec => []TypeOK
<1>1. Init => TypeOK
  BY InitType
<1>2. TypeOK /\ [Next]_vars => TypeOK'
  BY TypeKept
<1> QED BY <1>1, <1>2, PTL DEF Spec

(* AloneInv is an inductive invariant of one process, with all its crashes *)
(* and restarts.                                                           *)
THEOREM AloneInductive == ASSUME OneProcess PROVE Spec => []AloneInv
<1>1. Init => AloneInv
  BY InitAlone
<1>2. AloneInv /\ [Next]_vars => AloneInv'
  BY NextAlone
<1> QED BY <1>1, <1>2, PTL DEF Spec

(* SharedInv is one of any number of processes on a file within the limit, *)
(* as long as no two contents share a candidate hash.                      *)
THEOREM SharedInductive == ASSUME NoCollisions, NoFileOverLimit PROVE Spec => []SharedInv
<1>1. Init => SharedInv
  BY InitShared
<1>2. SharedInv /\ [Next]_vars => SharedInv'
  BY NextShared
<1> QED BY <1>1, <1>2, PTL DEF Spec

(* After every start the collision history is that of the rows, and no     *)
(* more rows are left than the limit allows, however often earlier starts  *)
(* died between two statements.                                            *)
THEOREM FileStaysConsistent == ASSUME OneProcess PROVE Spec => []FileConsistent
<1>1. ASSUME AloneInv PROVE FileConsistent
  <2>1. PICK p : Processes = {p}
    BY DEF OneProcess
  <2>2. Ready(p) => history = KeyedBy(rows) /\ Cardinality(rows) <= MaxEntries
    BY <1>1, <2>1 DEF AloneInv, Ready
  <2> QED BY <1>1, <2>1, <2>2 DEF AloneInv, FileConsistent, HistoryAgrees, CapacityBound
<1> QED BY <1>1, AloneInductive, PTL

(* The newest row among some is one of them.                               *)
LEMMA NewestIsMember ==
  ASSUME TypeOK, NEW M, M \subseteq rows, M # {}
  PROVE  Newest(M) \in M
<1> DEFINE I == {MaxRows - d.id : d \in M}
<1>1. \A d \in M : d.id \in Nat /\ MaxRows \in Nat /\ MaxRows - d.id \in Nat
  BY SQLiteAssumption DEF TypeOK, Row, Ids
<1>2. I \subseteq Nat /\ I # {}
  BY <1>1
<1>3. PICK i \in I : \A j \in I : i <= j
  BY <1>2, LeastNat
<1>4. PICK d \in M : MaxRows - d.id = i
  OBVIOUS
<1>5. \A q \in M : q.id <= d.id
  <2> TAKE q \in M
  <2>1. MaxRows - d.id <= MaxRows - q.id
    BY <1>3, <1>4
  <2> QED BY <1>1, <2>1
<1> QED BY <1>5 DEF Newest

(* The marker of a live row leads its session to the original that was     *)
(* replaced, after every restart.                                          *)
THEOREM Reversibility == ASSUME OneProcess PROVE Spec => []MarkerRecoversOriginal
<1>1. AloneInv => MarkerRecoversOriginal
  <2> SUFFICES ASSUME AloneInv, NEW r \in Unexpired(rows)
               PROVE  Newest(Matching(r.hash, r.sessionID)).originalContent
                        = r.originalContent
    BY DEF MarkerRecoversOriginal
  <2> DEFINE M == Matching(r.hash, r.sessionID)
  <2>1. r \in M /\ M \subseteq rows /\ \A q \in M : q.hash = r.hash
    BY DEF Matching, Unexpired
  <2> HIDE DEF M
  <2>2. Newest(M) \in M
    BY <2>1, NewestIsMember DEF AloneInv
  <2>3. \A q \in M : q.originalContent = r.originalContent
    BY <2>1 DEF AloneInv, HashIdentifiesContent
  <2> QED BY <2>2, <2>3 DEF M
<1> QED BY <1>1, AloneInductive, PTL
-----------------------------------------------------------------------------
(* The refinement of CCRStore.  A put is one of the contract if the hash   *)
(* it allocates names no other original among the rows it keeps.           *)
LEMMA PutRefines ==
  ASSUME TypeOK, NEW p \in Processes, NEW s \in Sessions, NEW c \in Contents,
         NEW ttl \in Ttls, NEW gone, NEW kept, NEW past, NEW e,
         PutParts(p, s, c, ttl, gone, kept, past, e),
         \A r \in kept : r.hash = e.hash => r.originalContent = c
  PROVE  Contract!ContractPut(s, c, ttl)
<1>1. /\ gone \in Contract!Evictable(Unexpired(rows), 1)
      /\ kept = Unexpired(rows) \ gone
      /\ e \in Row /\ e.id = nextId /\ e.sessionID = s /\ e.originalContent = c
      /\ e.createdAt = now /\ e.expiresAt = now + ttl /\ e \notin kept
      /\ rows' = kept \cup {e} /\ UNCHANGED <<retrievals, now>>
  BY DEF PutParts
<1>2. Unexpired(rows) = Contract!Live(rows)
  BY DEF Unexpired, Contract!Live
<1>3. e.hash \in Hashes
  BY <1>1 DEF Row
<1>4. \A r \in rows : r.id < e.id
  BY <1>1, RowsOfType
<1>5. rows' \ kept = {e} /\ kept \subseteq rows'
  BY <1>1
<1> QED BY <1>1, <1>2, <1>3, <1>4, <1>5 DEF Contract!ContractPut

(* In either case it is.                                                   *)
LEMMA PutRefinesAlways ==
  ASSUME \/ AloneInv /\ OneProcess
         \/ SharedInv /\ NoCollisions,
         NEW p \in Processes, NEW s \in Sessions, NEW c \in Contents,
         NEW ttl \in Ttls, Put(p, s, c, ttl)
  PROVE  Contract!ContractPut(s, c, ttl)
<1>1. TypeOK
  BY DEF AloneInv, SharedInv
<1>2. PICK gone, kept, past, e : PutParts(p, s, c, ttl, gone, kept, past, e)
  BY <1>1, PutShape
<1>3. /\ Ready(p) /\ kept \subseteq rows
      /\ past = IF kept # rows THEN WithoutOrphans(kept, history) ELSE history
      /\ e.hash \in HashesOf(c) /\ \A x \in past : x[1] = e.hash => x[2] = c
  BY <1>2 DEF PutParts
<1>4. \A r \in kept : r.hash = e.hash => r.originalContent = c
  <2>1. CASE AloneInv /\ OneProcess
    <3>1. history = KeyedBy(rows) /\ HashIdentifiesContent(rows)
      BY <1>3, <2>1 DEF AloneInv, Ready
    <3>2. past = KeyedBy(kept)
      BY <1>3, <3>1, HistoryFollowsRows
    <3>3. \A r \in kept : <<r.hash, r.originalContent>> \in past
      BY <3>2 DEF KeyedBy
    <3> QED BY <1>3, <3>3
  <2>2. CASE SharedInv /\ NoCollisions
    <3> SUFFICES ASSUME NEW r \in kept, r.hash = e.hash
                 PROVE  r.originalContent = c
      OBVIOUS
    <3>1. r.originalContent \in Contents /\ r.hash \in HashesOf(r.originalContent)
      BY <1>1, <1>3, <2>2 DEF SharedInv, TypeOK, Row
    <3> QED BY <1>3, <2>2, <3>1 DEF NoCollisions
  <2> QED BY <2>1, <2>2
<1> QED BY <1>1, <1>2, <1>4, PutRefines

(* A start that evicts takes the oldest rows down to the limit.            *)
LEMMA EvictRefines ==
  ASSUME AloneInv, NEW p \in Processes, StartupEvict(p)
  PROVE  Contract!ContractReopen
<1>1. /\ rows' = rows \ Oldest(rows, Excess(rows, 0)) /\ UNCHANGED <<retrievals, now>>
  BY DEF StartupEvict, AloneInv
<1>2. /\ rows \subseteq Row /\ IsFiniteSet(rows) /\ 0 \in 0 .. 1
      /\ \A q, r \in rows : q.id = r.id => q = r
  BY RowsOfType DEF AloneInv
<1>3. LET gone == Oldest(rows, Excess(rows, 0))
      IN  gone \in Contract!Evictable(rows, 0)
  BY <1>2, EvictionMakesRoom
<1> QED BY <1>1, <1>3 DEF Contract!ContractReopen

(* Every step of the adapter is a step of the contract or changes nothing  *)
(* the contract speaks of.                                                 *)
LEMMA StepRefines ==
  ASSUME \/ AloneInv /\ OneProcess
         \/ SharedInv /\ NoCollisions,
         [Next]_vars
  PROVE  [Contract!ContractNext]_(Contract!contractVars)
<1> DEFINE Silent == UNCHANGED <<rows, retrievals, now>>
<1>1. Unexpired(rows) = Contract!Live(rows)
  BY DEF Unexpired, Contract!Live
<1>2. ASSUME NEW p \in Processes, NEW s \in Sessions, NEW c \in Contents, NEW ttl \in Ttls,
             Put(p, s, c, ttl)
      PROVE  Contract!ContractNext
  BY <1>2, PutRefinesAlways DEF Contract!ContractNext
<1>3. ASSUME rows' = Unexpired(rows), UNCHANGED <<retrievals, now>>
      PROVE  Contract!ContractNext
  <2>1. Contract!Drop
    BY <1>1, <1>3 DEF Contract!Drop, Unexpired
  <2> QED BY <2>1 DEF Contract!ContractNext
<1>4. ASSUME NEW p \in Processes, Startup(p) PROVE Contract!ContractNext \/ Silent
  <2>1. CASE Open(p) \/ RewriteHistory(p) \/ StartupCount(p) \/ ClearHistory(p)
               \/ ReadRows(p) \/ RecordRow(p) \/ FinishStartup(p)
    BY <2>1 DEF Open, RewriteHistory, StartupCount, ClearHistory, ReadRows, RecordRow,
         FinishStartup, tables
  <2>2. CASE StartupPrune(p)
    BY <1>3, <2>2 DEF StartupPrune
  <2>3. CASE StartupEvict(p)
    <3>1. AloneInv
      BY <2>3 DEF SharedInv, StartupEvict
    <3> QED BY <2>3, <3>1, EvictRefines DEF Contract!ContractNext
  <2> QED BY <1>4, <2>1, <2>2, <2>3 DEF Startup
<1>5. ASSUME NEW p \in Processes, PruneExpired(p) PROVE Contract!ContractNext
  BY <1>3, <1>5 DEF PruneExpired, Prune
<1>6. ASSUME NEW p \in Processes, NEW h \in Hashes, NEW s \in Sessions \cup {AnySession},
             Get(p, h, s)
      PROVE  Contract!ContractNext
  <2>1. Matching(h, s) = Contract!Candidates(rows, h, s)
    BY <1>1 DEF Matching, Contract!Candidates
  <2>2. Newest(Matching(h, s)) = Contract!Newest(Matching(h, s))
    BY DEF Newest, Contract!Newest
  <2>3. /\ Matching(h, s) # {} /\ rows' = Unexpired(rows) /\ UNCHANGED now
        /\ retrievals' = [retrievals EXCEPT ![Newest(Matching(h, s)).id] = @ + 1]
    BY <1>6 DEF Get, Prune
  <2>4. Unexpired(rows) \subseteq rows
    BY DEF Unexpired
  <2>5. Contract!ContractGet(h, s)
    BY <1>1, <2>1, <2>2, <2>3, <2>4 DEF Contract!ContractGet
  <2> QED BY <2>5 DEF Contract!ContractNext
<1>7. ASSUME NEW p \in Processes, NEW s \in Sessions, DeleteSession(p, s)
      PROVE  Contract!ContractNext
  <2>1. Contract!ContractDeleteSession(s)
    BY <1>1, <1>7 DEF DeleteSession, Contract!ContractDeleteSession
  <2> QED BY <2>1 DEF Contract!ContractNext
<1>8. ASSUME NEW p \in Processes, Down(p) PROVE Silent
  BY <1>8 DEF Down, tables
<1>9. ASSUME Tick PROVE Contract!ContractNext
  BY <1>9 DEF Tick, tables, Contract!ContractNext, Contract!ContractTick
<1>10. ASSUME UNCHANGED vars PROVE Silent
  BY <1>10 DEF vars, tables
<1> HIDE DEF Silent
<1>11. Contract!ContractNext \/ Silent
  BY <1>2, <1>4, <1>5, <1>6, <1>7, <1>8, <1>9, <1>10, Zenon DEF Next
<1> QED BY <1>11 DEF Silent, Contract!contractVars

(* A process that has the file to itself keeps the store contract, through *)
(* every crash and restart and for every file it may find.                 *)
THEOREM ContractKept == ASSUME OneProcess PROVE Spec => KeepsContract
<1>1. AloneInv /\ [Next]_vars => [Contract!ContractNext]_(Contract!contractVars)
  BY StepRefines
<1> QED BY <1>1, AloneInductive, PTL DEF Spec, KeepsContract

(* So do any number of processes that share a file within the limit, when  *)
(* no two contents share a candidate hash.                                 *)
THEOREM SharedContractKept ==
  ASSUME NoCollisions, NoFileOverLimit PROVE Spec => KeepsContract
<1>1. SharedInv /\ [Next]_vars => [Contract!ContractNext]_(Contract!contractVars)
  BY StepRefines
<1> QED BY <1>1, SharedInductive, PTL DEF Spec, KeepsContract
=============================================================================
