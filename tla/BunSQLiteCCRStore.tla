-------------------------- MODULE BunSQLiteCCRStore --------------------------
(***************************************************************************)
(* BunSQLiteCCRStore (src/src/store/sqlite-bun.ts): the adapter that keeps *)
(* the originals in a database file.  The file outlives the process and    *)
(* may be opened by several processes at once (tests/ccr-invariants.test.ts *)
(* starts four).                                                           *)
(*                                                                         *)
(* put, get, peek, deleteSession and pruneExpired run inside one BEGIN     *)
(* IMMEDIATE ... COMMIT, so a call is one action, and a crash, a busy      *)
(* timeout or a thrown contentForHash inside it is no step at all.  The    *)
(* constructor is not a transaction: every statement of it commits by      *)
(* itself, so it is a sequence of actions, and the process may die, or     *)
(* another process write, between any two of them.                         *)
(*                                                                         *)
(* A row's `id' is its AUTOINCREMENT key; retrieval_count lives in         *)
(* `retrievals'; a digest is the content it is made from.  The two columns *)
(* migrateEntryRetrieveDefaults adds change no row's identity or lifetime. *)
(***************************************************************************)
EXTENDS Integers, FiniteSets

CONSTANTS Processes,      \* processes that open the database
          Sessions,       \* session identifiers
          AnySession,     \* a lookup's sessionID argument left undefined
          Contents,       \* original tool outputs
          Hashes,         \* marker hashes
          CandidateHash,  \* [Contents -> [Attempts -> Hashes]]
          Ttls,           \* ttlMs values of the tool policies
          MaxEntries,     \* StoreOptions.maxEntries
          Databases,      \* files an earlier build may have left
          MaxAttempts,    \* bound: attempts of allocateHash
          MaxRows,        \* bound: rows ever inserted
          MaxTime,        \* bound: the clock
          MaxRetrievals   \* bound: counted retrievals of one row

Attempts == 0 .. MaxAttempts
Ids == 1 .. MaxRows
Row == [id : Ids, hash : Hashes, sessionID : Sessions,
        originalContent : Contents, createdAt : Nat, expiresAt : Nat]

(* What put leaves in a file: keys from the sequence, one original a hash. *)
HashIdentifiesContent(R) ==
  \A q, r \in R : q.hash = r.hash => q.originalContent = r.originalContent
WellFormed(R, sequence) ==
  /\ \A q, r \in R : q.id = r.id => q = r
  /\ \A r \in R : r.id < sequence
  /\ HashIdentifiesContent(R)

ASSUME SQLiteAssumption ==
  /\ AnySession \notin Sessions
  /\ MaxEntries \in Nat \ {0} /\ MaxAttempts \in Nat
  /\ MaxRows \in Nat /\ MaxTime \in Nat /\ MaxRetrievals \in Nat
  /\ Ttls \subseteq Nat \ {0}
  /\ CandidateHash \in [Contents -> [Attempts -> Hashes]]
  /\ \A d \in Databases : /\ d.rows \subseteq Row /\ d.nextId \in 1 .. MaxRows + 1
                          /\ d.history \subseteq Hashes \X Contents
                          /\ d.legacy \in BOOLEAN
                          /\ WellFormed(d.rows, d.nextId)

VARIABLES rows,         \* table ccr_entries
          history,      \* table ccr_hash_history
          legacy,       \* the history table still holds original_content blobs
          retrievals,   \* retrieval_count, by id
          nextId,       \* the AUTOINCREMENT sequence
          now,          \* Date.now()
          pc,           \* where each process is in the constructor
          snapshot,     \* rows a SELECT of the constructor has returned
          excess        \* the number of rows enforceCapacityLimit will delete

tables == <<rows, history, legacy, retrievals, nextId>>
vars == <<tables, now, pc, snapshot, excess>>
-----------------------------------------------------------------------------
Unexpired(R) == {r \in R : r.expiresAt > now}
KeyedBy(R) == {<<r.hash, r.originalContent>> : r \in R}

(* deleteOrphanedHashHistory                                               *)
OrphansKept(R, H) == H
WithoutOrphans(R, H) == {x \in H : \E r \in R : r.hash = x[1]}

(* ORDER BY created_at ASC, id ASC LIMIT count                             *)
Precedes(q, r) == q.createdAt < r.createdAt \/ (q.createdAt = r.createdAt /\ q.id < r.id)
LastInserted(R, count) ==
  {r \in R : Cardinality({q \in R : Precedes(r, q)}) < count}
Oldest(R, count) ==
  {r \in R : Cardinality({q \in R : Precedes(q, r)}) < count}
Excess(R, incoming) ==
  IF Cardinality(R) + incoming > MaxEntries
  THEN Cardinality(R) + incoming - MaxEntries ELSE 0

(* allocateHash: the first attempt without another content's digest.       *)
UsableBaseOnly(H, c, n) ==
  n = 0 \/ \A x \in H : x[1] = CandidateHash[c][n] => x[2] = c
Usable(H, c, n) == \A x \in H : x[1] = CandidateHash[c][n] => x[2] = c
AllocatedHash(H, c) ==
  CandidateHash[c][CHOOSE n \in Attempts :
                     Usable(H, c, n) /\ \A m \in 0 .. n - 1 : ~Usable(H, c, m)]
-----------------------------------------------------------------------------
Ready(p) == pc[p] = "ready"
Goto(p, step) == pc' = [pc EXCEPT ![p] = step]

(* put.  Unlike the memory adapter it evicts before it chooses the hash.   *)
Put(p, s, c, ttl) ==
  LET alive == Unexpired(rows)
      kept  == alive \ Oldest(alive, Excess(alive, 1))
      past  == IF kept # rows THEN WithoutOrphans(kept, history) ELSE history
      e     == [id |-> nextId, hash |-> AllocatedHash(past, c), sessionID |-> s,
                originalContent |-> c, createdAt |-> now, expiresAt |-> now + ttl]
  IN  /\ Ready(p)
      /\ nextId <= MaxRows
      /\ \E n \in Attempts : Usable(past, c, n)
      /\ rows' = kept \cup {e}
      /\ history' = past \cup {<<e.hash, c>>}
      /\ nextId' = nextId + 1
      /\ UNCHANGED <<legacy, retrievals, now, pc, snapshot, excess>>

(* deleteExpiredEntries and, if anything went, the orphaned digests: the   *)
(* whole of pruneExpired and stats, and the beginning of every lookup.     *)
Prune ==
  /\ rows' = Unexpired(rows)
  /\ history' = IF Unexpired(rows) # rows THEN WithoutOrphans(Unexpired(rows), history)
                ELSE history

(* peek, pruneExpired, stats, and a get that finds nothing.                *)
PruneExpired(p) ==
  /\ Ready(p)
  /\ Prune
  /\ UNCHANGED <<legacy, retrievals, nextId, now, pc, snapshot, excess>>

(* get: ORDER BY id DESC LIMIT 1 among the unexpired rows of the session.  *)
MatchingAnyTime(h, s) ==
  {r \in rows : r.hash = h /\ s \in {AnySession, r.sessionID}}
Matching(h, s) ==
  {r \in Unexpired(rows) : r.hash = h /\ s \in {AnySession, r.sessionID}}
Newest(R) == CHOOSE r \in R : \A q \in R : q.id <= r.id
Get(p, h, s) ==
  /\ Ready(p)
  /\ Matching(h, s) # {}
  /\ LET i == Newest(Matching(h, s)).id
     IN  /\ retrievals[i] < MaxRetrievals
         /\ retrievals' = [retrievals EXCEPT ![i] = @ + 1]
  /\ Prune
  /\ UNCHANGED <<legacy, nextId, now, pc, snapshot, excess>>

DeleteSession(p, s) ==
  /\ Ready(p)
  /\ rows' = {r \in Unexpired(rows) : r.sessionID # s}
  /\ history' = WithoutOrphans(rows', history)
  /\ UNCHANGED <<legacy, retrievals, nextId, now, pc, snapshot, excess>>
-----------------------------------------------------------------------------
(* The constructor.  A legacy history table is read first ...              *)
Open(p) ==
  /\ pc[p] = "down"
  /\ IF legacy
     THEN Goto(p, "rewrite") /\ snapshot' = [snapshot EXCEPT ![p] = history]
     ELSE Goto(p, "prune") /\ UNCHANGED snapshot
  /\ UNCHANGED <<tables, now, excess>>

(* ... and replaced, in one transaction, by what was read.                 *)
RewriteHistory(p) ==
  /\ pc[p] = "rewrite"
  /\ history' = snapshot[p]
  /\ legacy' = FALSE
  /\ snapshot' = [snapshot EXCEPT ![p] = {}]
  /\ Goto(p, "prune")
  /\ UNCHANGED <<rows, retrievals, nextId, now, excess>>

StartupPrune(p) ==
  /\ pc[p] = "prune"
  /\ rows' = Unexpired(rows)
  /\ Goto(p, "count")
  /\ UNCHANGED <<history, legacy, retrievals, nextId, now, snapshot, excess>>

(* enforceCapacityLimit(): the SELECT of the count, and then the DELETE.   *)
StartupCount(p) ==
  /\ pc[p] = "count"
  /\ excess' = [excess EXCEPT ![p] = Excess(rows, 0)]
  /\ Goto(p, IF Excess(rows, 0) = 0 THEN "clear" ELSE "evict")
  /\ UNCHANGED <<tables, now, snapshot>>

StartupEvict(p) ==
  /\ pc[p] = "evict"
  /\ rows' = rows \ Oldest(rows, excess[p])
  /\ excess' = [excess EXCEPT ![p] = 0]
  /\ Goto(p, "clear")
  /\ UNCHANGED <<history, legacy, retrievals, nextId, now, snapshot>>

(* rebuildHashHistory(): DELETE, SELECT, and one INSERT per row.           *)
ClearHistory(p) ==
  /\ pc[p] = "clear"
  /\ history' = {}
  /\ Goto(p, "read")
  /\ UNCHANGED <<rows, legacy, retrievals, nextId, now, snapshot, excess>>

ReadRows(p) ==
  /\ pc[p] = "read"
  /\ snapshot' = [snapshot EXCEPT ![p] = KeyedBy(rows)]
  /\ Goto(p, "backfill")
  /\ UNCHANGED <<tables, now, excess>>

RecordRow(p) ==
  /\ pc[p] = "backfill"
  /\ \E x \in snapshot[p] :
       /\ history' = history \cup {x}
       /\ snapshot' = [snapshot EXCEPT ![p] = @ \ {x}]
  /\ UNCHANGED <<rows, legacy, retrievals, nextId, now, pc, excess>>

FinishStartup(p) ==
  /\ pc[p] = "backfill"
  /\ snapshot[p] = {}
  /\ Goto(p, "ready")
  /\ UNCHANGED <<tables, now, snapshot, excess>>

(* close(), a constructor that throws, or the death of the process.        *)
Down(p) ==
  /\ pc[p] # "down"
  /\ Goto(p, "down")
  /\ snapshot' = [snapshot EXCEPT ![p] = {}]
  /\ excess' = [excess EXCEPT ![p] = 0]
  /\ UNCHANGED <<tables, now>>

Tick ==
  /\ now' \in (0 .. MaxTime) \ {now}
  /\ UNCHANGED <<tables, pc, snapshot, excess>>
-----------------------------------------------------------------------------
Init ==
  /\ \E d \in Databases :
       /\ rows = d.rows /\ history = d.history /\ legacy = d.legacy
       /\ nextId = d.nextId
  /\ retrievals = [i \in Ids |-> 0]
  /\ now = 0
  /\ pc = [p \in Processes |-> "down"]
  /\ snapshot = [p \in Processes |-> {}]
  /\ excess = [p \in Processes |-> 0]

Startup(p) ==
  \/ Open(p) \/ RewriteHistory(p) \/ StartupPrune(p) \/ StartupCount(p)
  \/ StartupEvict(p) \/ ClearHistory(p) \/ ReadRows(p) \/ RecordRow(p)
  \/ FinishStartup(p)

Next ==
  \/ \E p \in Processes :
       \/ Startup(p)
       \/ Down(p)
       \/ \E s \in Sessions, c \in Contents, ttl \in Ttls : Put(p, s, c, ttl)
       \/ PruneExpired(p)
       \/ \E h \in Hashes, s \in Sessions \cup {AnySession} : Get(p, h, s)
       \/ \E s \in Sessions : DeleteSession(p, s)
  \/ Tick

Spec == Init /\ [][Next]_vars
-----------------------------------------------------------------------------
(* Shape of the tables and of what a starting process remembers.           *)
TypeOK ==
  /\ rows \in SUBSET Row
  /\ \A q, r \in rows : q.id = r.id => q = r
  /\ \A r \in rows : r.id < nextId
  /\ history \in SUBSET (Hashes \X Contents)
  /\ legacy \in BOOLEAN
  /\ retrievals \in [Ids -> Nat]
  /\ nextId \in 1 .. MaxRows + 1
  /\ now \in 0 .. MaxTime
  /\ pc \in [Processes -> {"down", "rewrite", "prune", "count", "evict", "clear",
                           "read", "backfill", "ready"}]
  /\ snapshot \in [Processes -> SUBSET (Hashes \X Contents)]
  /\ excess \in [Processes -> Nat]

(* A process that has finished starting finds, in the digest history, what *)
(* allocateHash needs: one digest for every key in use and none for the    *)
(* others, however often earlier starts died half-way through the rebuild. *)
HistoryAgrees ==
  (\A p \in Processes : Ready(p)) => history = KeyedBy(rows)

(* A live row's marker leads its own session to the same original.         *)
MarkerRecoversOriginal ==
  \A r \in Unexpired(rows) :
    Newest(Matching(r.hash, r.sessionID)).originalContent = r.originalContent

(* A store that is open holds no more rows than its limit.                 *)
CapacityBound == (\E p \in Processes : Ready(p)) => Cardinality(rows) <= MaxEntries
-----------------------------------------------------------------------------
Contract == INSTANCE CCRStore

(* The adapter keeps the store contract, through crashes and restarts: a   *)
(* live row is lost only to a put at capacity, to an opening over the      *)
(* limit (oldest first, no more than needed) or to its session's deletion. *)
KeepsContract == [][Contract!ContractNext]_(Contract!contractVars)

(* After every start-up, crashed ones before it or not, the collision      *)
(* history is that of the rows, and no more than maxEntries are left.      *)
FileConsistent == TypeOK /\ HistoryAgrees /\ CapacityBound
=============================================================================
