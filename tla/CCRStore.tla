------------------------------- MODULE CCRStore -------------------------------
(***************************************************************************)
(* What a CCRStore promises its callers (src/src/store/types.ts, the       *)
(* interface CCRStore), independently of the adapter that keeps the rows.  *)
(*                                                                         *)
(* A row ties the canonical hash that a marker carries to the exact        *)
(* original of one tool call.  `rows' is the set of rows the adapter       *)
(* holds; a row's `id' is its place in insertion order.  `now' is the wall *)
(* clock (Date.now), which may step backwards.                             *)
(*                                                                         *)
(* The contract leaves to the adapter which hash a put allocates (any one  *)
(* that does not already name another surviving original), when expired    *)
(* rows are dropped by a lookup, and how rows created at the same instant  *)
(* are ordered for eviction.                                               *)
(***************************************************************************)
EXTENDS Integers, FiniteSets

CONSTANTS Sessions,      \* OpenCode session identifiers
          AnySession,    \* the sessionID argument left undefined
          Contents,      \* original tool outputs
          Hashes,        \* 96-bit keys a marker can carry
          Ttls,          \* time-to-live values of the policies, in clock units
          MaxEntries     \* StoreOptions.maxEntries

VARIABLES rows,          \* the rows held by the adapter
          retrievals,    \* retrieval_count of every row ever inserted, by id
          now            \* Date.now()

contractVars == <<rows, retrievals, now>>

Live(S) == {r \in S : r.expiresAt > now}

(* The row a session-scoped lookup may answer with: its newest live row.   *)
Candidates(S, h, s) ==
  {r \in Live(S) : r.hash = h /\ s \in {AnySession, r.sessionID}}
Newest(S) == CHOOSE r \in S : \A q \in S : q.id <= r.id

(* `gone' may be evicted while `kept' survives: no survivor is older, both *)
(* by creation time and by insertion, than an evicted row.                 *)
OldestFirst(gone, kept) ==
  \A d \in gone, k \in kept : k.createdAt > d.createdAt \/ k.id > d.id

(* Rows a put or a startup may evict to leave room for `incoming' rows.    *)
Evictable(S, incoming) ==
  {gone \in SUBSET S :
     /\ Cardinality(gone) =
          IF Cardinality(S) + incoming > MaxEntries
          THEN Cardinality(S) + incoming - MaxEntries ELSE 0
     /\ OldestFirst(gone, S \ gone)}

ContractInit ==
  /\ rows = {}
  /\ retrievals = [i \in DOMAIN retrievals |-> 0]

(* Expired rows may be dropped by any operation; a live row may not.       *)
Drop ==
  /\ rows' \in SUBSET rows
  /\ Live(rows) \subseteq rows'
  /\ UNCHANGED <<retrievals, now>>

(* put drops what has expired, evicts oldest-first only as many rows as    *)
(* the capacity requires, and inserts one row under a hash that names no   *)
(* other surviving original.                                               *)
ContractPut(s, c, ttl) ==
  \E gone \in Evictable(Live(rows), 1) :
    LET kept == Live(rows) \ gone
        new  == rows' \ kept
    IN  /\ kept \subseteq rows'
        /\ \E e \in new :
             /\ new = {e}
             /\ e.sessionID = s /\ e.originalContent = c
             /\ e.hash \in Hashes
             /\ e.createdAt = now /\ e.expiresAt = now + ttl
             /\ \A r \in rows : r.id < e.id
             /\ \A r \in kept : r.hash = e.hash => r.originalContent = c
        /\ UNCHANGED <<retrievals, now>>

(* get answers with the newest live row of that session and counts it.     *)
ContractGet(h, s) ==
  /\ rows' \in SUBSET rows
  /\ Live(rows) \subseteq rows'
  /\ Candidates(rows, h, s) # {}
  /\ retrievals' = [retrievals EXCEPT ![Newest(Candidates(rows, h, s)).id] = @ + 1]
  /\ UNCHANGED now

(* deleteSession removes every row of that session and no live other row.  *)
ContractDeleteSession(s) ==
  /\ rows' = {r \in Live(rows) : r.sessionID # s}
  /\ UNCHANGED <<retrievals, now>>

(* Opening a store that an earlier configuration left over the limit       *)
(* evicts oldest-first down to it.                                         *)
ContractReopen ==
  /\ \E gone \in Evictable(rows, 0) : rows' = rows \ gone
  /\ UNCHANGED <<retrievals, now>>

ContractTick == now' # now /\ UNCHANGED <<rows, retrievals>>

ContractNext ==
  \/ Drop
  \/ \E s \in Sessions, c \in Contents, ttl \in Ttls : ContractPut(s, c, ttl)
  \/ \E h \in Hashes, s \in Sessions \cup {AnySession} : ContractGet(h, s)
  \/ \E s \in Sessions : ContractDeleteSession(s)
  \/ ContractReopen
  \/ ContractTick

ContractSpec == ContractInit /\ [][ContractNext]_contractVars

=============================================================================
