--------------------------- MODULE MemoryCCRStore ---------------------------
(***************************************************************************)
(* MemoryCCRStore (src/src/store/memory.ts): the in-process adapter that   *)
(* keeps the exact original behind every reversible marker.                *)
(*                                                                         *)
(* Every method body runs without an await between its first read and its  *)
(* last write, so a call is one atomic action.  The class keeps the same   *)
(* rows three times over, in `entries' (by hash, for lookups), in          *)
(* `insertionOrder' (for capacity eviction) and, as digests, in            *)
(* `hashHistory' (so that a colliding hash is never given to a second      *)
(* original); the hazard is that one operation updates one of them and     *)
(* not the others.                                                         *)
(*                                                                         *)
(* Abstractions.  An entry object is a record with its allocation number   *)
(* `id', so an array in insertion order is a set ordered by id.            *)
(* retrievalCount, the one field mutated after construction, lives in      *)
(* `retrievals'.  The content digest is the content itself: two originals  *)
(* never share a full SHA-256.  The 96-bit marker hashes may collide, and  *)
(* CandidateHash says how: attempt 0 is contentHash, attempt n > 0 is      *)
(* collisionHash(content, n).                                              *)
(***************************************************************************)
EXTENDS Integers, FiniteSets

CONSTANTS Sessions,       \* session identifiers
          AnySession,     \* a lookup's sessionID argument left undefined
          Contents,       \* original tool outputs
          Hashes,         \* marker hashes
          CandidateHash,  \* [Contents -> [Attempts -> Hashes]]
          Ttls,           \* ttlMs values of the tool policies
          MaxEntries,     \* StoreOptions.maxEntries
          MaxPuts,        \* bound: calls of put that insert
          MaxTime,        \* bound: the clock
          MaxRetrievals   \* bound: counted retrievals of one entry

(* At most MaxEntries hashes are ever in use, so more attempts than one    *)
(* beyond that are never needed (AllocationTerminates).                    *)
Attempts == 0 .. MaxEntries
Ids == 1 .. MaxPuts

ASSUME StoreAssumption ==
  /\ AnySession \notin Sessions
  /\ MaxEntries \in Nat \ {0}
  /\ MaxPuts \in Nat /\ MaxTime \in Nat /\ MaxRetrievals \in Nat
  /\ Ttls \subseteq Nat \ {0}
  /\ CandidateHash \in [Contents -> [Attempts -> Hashes]]

(* collisionHash gives one content a fresh key on every attempt.           *)
ASSUME DistinctAttempts ==
  \A c \in Contents : \A m, n \in Attempts :
    CandidateHash[c][m] = CandidateHash[c][n] => m = n

Entry == [id : Ids, hash : Hashes, sessionID : Sessions,
          originalContent : Contents, createdAt : Nat, expiresAt : Nat]

VARIABLES entries,         \* this.entries: the entries under each hash
          hashHistory,     \* this.hashHistory: the contents a hash may name
          insertionOrder,  \* this.insertionOrder: all entries, oldest id first
          retrievals,      \* retrievalCount of each entry object, by id
          nextId,          \* allocation number of the next entry object
          now              \* this.now()

vars == <<entries, hashHistory, insertionOrder, retrievals, nextId, now>>
-----------------------------------------------------------------------------
Unexpired(S) == {e \in S : e.expiresAt > now}
Without(E, D) == [h \in Hashes |-> E[h] \ D]

Newest(S) == CHOOSE e \in S : \A q \in S : q.id <= e.id
-----------------------------------------------------------------------------
(* pruneExpiredEntries: what each structure keeps of the expired rows.     *)
Expired == {e \in UNION {entries[h] : h \in Hashes} : e.expiresAt <= now}
PrunedEntries == Without(entries, Expired)

(* The history of a hash goes away with the last entry filed under it.     *)
ReleasedHistoryKeepsKey(E, H, D) == H
ReleasedHistoryDropsKey(E, H, D) ==
  [h \in Hashes |-> IF E[h] \cap D # {} THEN {} ELSE H[h]]
ReleasedHistory(E, H, D) ==
  [h \in Hashes |-> IF E[h] # {} /\ E[h] \subseteq D THEN {} ELSE H[h]]
PrunedHistory == ReleasedHistory(entries, hashHistory, Expired)

PrunedOrder == IF Expired = {} THEN insertionOrder ELSE Unexpired(insertionOrder)
-----------------------------------------------------------------------------
(* allocateHash: the first attempt whose hash is unused or already names   *)
(* this very content.                                                      *)
UsableBaseOnly(H, c, n) == n = 0 \/ H[CandidateHash[c][n]] = {}
Usable(H, c, n) ==
  LET history == H[CandidateHash[c][n]]
  IN  history = {} \/ c \in history

AllocatedHash(H, c) ==
  CandidateHash[c][CHOOSE n \in Attempts :
                     Usable(H, c, n) /\ \A m \in 0 .. n - 1 : ~Usable(H, c, m)]

(* evictOldest(count): the count entries at the front of insertionOrder.   *)
EntriesToEvict(O) ==
  IF Cardinality(O) - MaxEntries + 1 > 0 THEN Cardinality(O) - MaxEntries + 1 ELSE 0
Oldest(O, count) ==
  {e \in O : Cardinality({q \in O : q.id < e.id}) < count}

NewEntry(h, s, c, ttl) ==
  [id |-> nextId, hash |-> h, sessionID |-> s, originalContent |-> c,
   createdAt |-> now, expiresAt |-> now + ttl]

(* put: prune, choose the hash against the histories that survive the      *)
(* prune, then evict, file the entry and record the history.               *)
Put(s, c, ttl) ==
  LET h       == AllocatedHash(PrunedHistory, c)
      e       == NewEntry(h, s, c, ttl)
      evicted == Oldest(PrunedOrder, EntriesToEvict(PrunedOrder))
      kept    == Without(PrunedEntries, evicted)
      history == ReleasedHistory(PrunedEntries, PrunedHistory, evicted)
  IN  /\ nextId <= MaxPuts
      /\ entries' = [kept EXCEPT ![h] = @ \cup {e}]
      /\ insertionOrder' = (PrunedOrder \ evicted) \cup {e}
      /\ hashHistory' = [history EXCEPT ![h] = @ \cup {c}]
      /\ nextId' = nextId + 1
      /\ UNCHANGED <<retrievals, now>>

(* pruneExpired and stats; also a put whose contentForHash throws: the     *)
(* marker is rendered before the destructive eviction, so only the prune   *)
(* has happened.                                                           *)
PruneExpired ==
  /\ entries' = PrunedEntries
  /\ hashHistory' = PrunedHistory
  /\ insertionOrder' = PrunedOrder
  /\ UNCHANGED <<retrievals, nextId, now>>
-----------------------------------------------------------------------------
(* findEntry drops the expired entries of its own hash only.               *)
LookupPruneKeepsOrder(h) ==
  /\ entries' = [entries EXCEPT ![h] = Unexpired(@)]
  /\ hashHistory' = [hashHistory EXCEPT
                       ![h] = IF Unexpired(entries[h]) = {} THEN {} ELSE @]
  /\ UNCHANGED insertionOrder
LookupPrune(h) ==
  LET active == Unexpired(entries[h])
  IN  \/ /\ active = entries[h]
         /\ UNCHANGED <<entries, hashHistory, insertionOrder>>
      \/ /\ active # entries[h]
         /\ entries' = [entries EXCEPT ![h] = active]
         /\ hashHistory' = [hashHistory EXCEPT ![h] = IF active = {} THEN {} ELSE @]
         /\ insertionOrder' =
              {e \in insertionOrder : e.hash # h \/ e \in active}

Matching(h, s) ==
  {e \in Unexpired(entries[h]) : s \in {AnySession, e.sessionID}}

(* get answers with the newest live entry of the session and counts it.    *)
Get(h, s) ==
  /\ Matching(h, s) # {}
  /\ LET i == Newest(Matching(h, s)).id
     IN  /\ retrievals[i] < MaxRetrievals
         /\ retrievals' = [retrievals EXCEPT ![i] = @ + 1]
  /\ LookupPrune(h)
  /\ UNCHANGED <<nextId, now>>

(* peek, and a get that finds nothing.                                     *)
Peek(h) ==
  /\ LookupPrune(h)
  /\ UNCHANGED <<retrievals, nextId, now>>

(* deleteSession prunes every expired entry and drops the session's own.   *)
DeleteSession(s) ==
  LET own == {e \in UNION {PrunedEntries[h] : h \in Hashes} : e.sessionID = s}
  IN  /\ entries' = Without(PrunedEntries, own)
      /\ hashHistory' = ReleasedHistory(PrunedEntries, PrunedHistory, own)
      /\ insertionOrder' = IF own = {} THEN PrunedOrder
                           ELSE {e \in PrunedOrder : e.sessionID # s}
      /\ UNCHANGED <<retrievals, nextId, now>>

(* Date.now() moves on, or is stepped backwards.                           *)
Tick ==
  /\ now' \in 0 .. MaxTime
  /\ now' # now
  /\ UNCHANGED <<entries, hashHistory, insertionOrder, retrievals, nextId>>
-----------------------------------------------------------------------------
Init ==
  /\ entries = [h \in Hashes |-> {}]
  /\ hashHistory = [h \in Hashes |-> {}]
  /\ insertionOrder = {}
  /\ retrievals = [i \in Ids |-> 0]
  /\ nextId = 1
  /\ now = 0

Next ==
  \/ \E s \in Sessions, c \in Contents, ttl \in Ttls : Put(s, c, ttl)
  \/ PruneExpired
  \/ \E h \in Hashes, s \in Sessions \cup {AnySession} : Get(h, s)
  \/ \E h \in Hashes : Peek(h)
  \/ \E s \in Sessions : DeleteSession(s)
  \/ Tick

Spec == Init /\ [][Next]_vars
-----------------------------------------------------------------------------
(* Type invariant of the three structures, the counters and the clock.     *)
TypeOK ==
  /\ entries \in [Hashes -> SUBSET Entry]
  /\ hashHistory \in [Hashes -> SUBSET Contents]
  /\ insertionOrder \in SUBSET Entry
  /\ retrievals \in [Ids -> Nat]
  /\ nextId \in 1 .. MaxPuts + 1
  /\ now \in 0 .. MaxTime

(* The lookup map and the eviction list never disagree on which rows       *)
(* exist, whatever mixture of prunes, lookups, evictions and deletions     *)
(* ran (memory.ts edits them in separate loops).                           *)
OrderAgrees ==
  \A h \in Hashes : entries[h] = {e \in insertionOrder : e.hash = h}

(* A hash's digest history is exactly the contents still filed under it:   *)
(* never forgotten while a row needs it, never kept after the last row.    *)
HistoryAgrees ==
  \A h \in Hashes : hashHistory[h] = {e.originalContent : e \in entries[h]}

(* Two rows that coexist under one hash, live or expired, carry one        *)
(* original, even when 96-bit hashes collide.                              *)
HashIdentifiesContent ==
  \A h \in Hashes : \A d, e \in entries[h] :
    d.originalContent = e.originalContent

(* A live row's marker, looked up by its own session, leads to a row with  *)
(* the same original, though newer rows may share the hash.                *)
MarkerRecoversOriginal ==
  \A e \in Unexpired(insertionOrder) :
    /\ Matching(e.hash, e.sessionID) # {}
    /\ Newest(Matching(e.hash, e.sessionID)).originalContent = e.originalContent

(* put never leaves more than maxEntries rows behind.                      *)
CapacityBound == Cardinality(insertionOrder) <= MaxEntries

(* allocateHash's unbounded loop stops: some attempt is always usable.     *)
AllocationTerminates ==
  \A c \in Contents : \E n \in Attempts : Usable(PrunedHistory, c, n)
-----------------------------------------------------------------------------
Contract == INSTANCE CCRStore WITH rows <- insertionOrder

(* The adapter implements the store contract: no operation loses a live    *)
(* row but a put at capacity (oldest first, no more than needed) and a     *)
(* deletion of its own session.                                            *)
RefinesContract == Contract!ContractSpec

(* The three structures of the store describe one set of rows: the types   *)
(* hold, the eviction list holds the rows that lookups find, the collision *)
(* history names exactly the contents of the rows, the rows of a hash hold *)
(* one original, and there are never more than maxEntries.                 *)
StoreConsistent ==
  TypeOK /\ OrderAgrees /\ HistoryAgrees /\ HashIdentifiesContent /\ CapacityBound
=============================================================================
