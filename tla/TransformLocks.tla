--------------------------- MODULE TransformLocks ---------------------------
(***************************************************************************)
(* The queues of ContextLifecycleManager (src/src/session/                 *)
(* context-lifecycle.ts): run, acquireTransformLocks, runSessionExclusive, *)
(* closeAndDrain and the plugin's dispose that follows it.                 *)
(*                                                                         *)
(* A request transform holds one place in the queue of every session its   *)
(* messages belong to.  A queue is a chain of promises: transformTails     *)
(* maps a session to the last reservation made for it, a new reservation   *)
(* waits for the tail it found and becomes the tail, and a release removes *)
(* the tail only when it is still the releaser's own.  Session deletions   *)
(* form a second chain (cleanupTail).  JavaScript runs each stretch        *)
(* between two awaits without interruption, so a stretch is one action;    *)
(* everything else interleaves.                                            *)
(*                                                                         *)
(* A promise is represented by the call that settles it, a tail by the     *)
(* transform whose release it waits for and cleanupTail by the deletion;   *)
(* when the call settles it, it disappears from every set it is awaited    *)
(* in.  An identifier of Transforms or Cleanups is a slot: an idle one may *)
(* be called again.  What happens inside a window is the business of       *)
(* ContextLifecycle; here only the set of tracked sessions, which          *)
(* acquireTransformLocks reads, is kept, and `begin' may change it in any  *)
(* way that module allows.                                                 *)
(***************************************************************************)
EXTENDS Integers, FiniteSets

CONSTANTS SessionIDs,    \* session identifiers
          Transforms,    \* calls of run(): one per model request
          Cleanups,      \* calls of runSessionExclusive(): session.deleted
          MaxSessions,   \* options.maxSessions
          None           \* no promise

ASSUME LocksAssumption ==
  /\ IsFiniteSet(SessionIDs)
  /\ MaxSessions \in Nat \ {0}
  /\ None \notin Transforms \cup Cleanups \cup SessionIDs
  /\ Transforms \cap Cleanups = {}

VARIABLES
  pc,             \* where each run() call is suspended
  wants,          \* sessionIDs of a call in the loop of acquireTransformLocks
  rejected,       \* rejectedSessionIDs
  reserved,       \* sessions of the call's unreleased reservations
  behind,         \* the unsettled tails its reservations wait for
  racing,         \* the tails a capacity wait races; empty once one settled
  transformTails, \* this.transformTails: the owner of each session's tail
  tracked,        \* the keys of this.sessions
  cleanupPc,      \* where each runSessionExclusive() call is suspended
  target,         \* its sessionID
  cleanupBehind,  \* the unsettled deletion it waits for (waitForCleanup)
  awaitedTail,    \* the unsettled transform tail it captured
  cleanupTail,    \* this.cleanupTail
  exclusiveSessions, \* this.exclusiveSessions
  closing,        \* this.closing
  drain,          \* the unsettled calls closeAndDrain waits for
  disposed        \* dispose has cleared the sessions

transformVars == <<pc, wants, rejected, reserved, behind, racing, transformTails>>
cleanupVars ==
  <<cleanupPc, target, cleanupBehind, awaitedTail, cleanupTail, exclusiveSessions>>
closeVars == <<closing, drain, disposed>>
vars == <<transformVars, tracked, cleanupVars, closeVars>>

Some(x) == {x} \ {None}
-----------------------------------------------------------------------------
(* One turn of the loop of acquireTransformLocks, for a call whose         *)
(* messages belong to the sessions W and that has rejected R so far.       *)
TailSessions == {s \in SessionIDs : transformTails[s] # None}
TailOwners == {transformTails[s] : s \in TailSessions}
AvailableIgnoresQueues == MaxSessions
Available == MaxSessions - Cardinality(TailSessions)
Missing(W) == (W \ exclusiveSessions) \ TailSessions
MissingTracked(W) == Missing(W) \cap tracked
TrackedFitStrict(W) == Cardinality(MissingTracked(W)) < Available
TrackedFit(W) == Cardinality(MissingTracked(W)) <= Available

(* The untracked sessions that find room; which ones is a matter of the    *)
(* order of their names, left open here.                                   *)
Admitted(W) ==
  LET untracked == Missing(W) \ tracked
      room      == Available - Cardinality(MissingTracked(W))
  IN  {A \in SUBSET untracked :
         Cardinality(A) = IF Cardinality(untracked) <= room
                          THEN Cardinality(untracked) ELSE room}

(* Behind every tail found, and the tail from now on: one synchronous      *)
(* stretch for all the sessions, so that two calls never wait for each     *)
(* other.                                                                  *)
TailsFoundOrNot(S) == {transformTails[s] : s \in S}
TailsFoundSkipsQueued(S) ==
  {transformTails[s] : s \in {r \in S : transformTails[r] # None
                                          /\ pc[transformTails[r]] = "running"}}
TailsFound(S) == UNION {Some(transformTails[s]) : s \in S}

Evaluate(t, W, R) ==
  LET R1        == R \cup (W \cap exclusiveSessions)
      untracked == Missing(W) \ tracked
  IN  \/ /\ ~TrackedFit(W)
         /\ pc' = [pc EXCEPT ![t] = "capacity"]
         /\ wants' = [wants EXCEPT ![t] = W]
         /\ rejected' = [rejected EXCEPT ![t] = R1]
         /\ racing' = [racing EXCEPT ![t] = TailOwners]
         /\ UNCHANGED <<reserved, behind, transformTails>>
      \/ /\ TrackedFit(W)
         /\ \E A \in Admitted(W) :
              LET accepted == (W \ exclusiveSessions) \ (untracked \ A)
              IN  /\ rejected' = [rejected EXCEPT ![t] = R1 \cup (untracked \ A)]
                  /\ reserved' = [reserved EXCEPT ![t] = accepted]
                  /\ behind' = [behind EXCEPT ![t] = TailsFound(accepted)]
                  /\ transformTails' =
                       [s \in SessionIDs |-> IF s \in accepted THEN t
                                             ELSE transformTails[s]]
         /\ pc' = [pc EXCEPT ![t] = "queued"]
         /\ wants' = [wants EXCEPT ![t] = {}]
         /\ racing' = [racing EXCEPT ![t] = {}]

(* run(messages, transform) is called by the hook; it throws at once, and  *)
(* changes nothing, when the manager is closing.                           *)
Arrive(t, W) ==
  /\ pc[t] = "idle"
  /\ ~closing
  /\ Evaluate(t, W, {})
  /\ UNCHANGED <<tracked, cleanupVars, closeVars>>

(* Promise.race over the captured tails has settled: try again.            *)
Retry(t) ==
  /\ pc[t] = "capacity"
  /\ racing[t] = {}
  /\ ~closing
  /\ Evaluate(t, wants[t], rejected[t])
  /\ UNCHANGED <<tracked, cleanupVars, closeVars>>

(* ... or the manager has begun to close meanwhile: throw.                 *)
RetryThrows(t) ==
  /\ pc[t] = "capacity"
  /\ racing[t] = {}
  /\ closing
  /\ pc' = [pc EXCEPT ![t] = "idle"]
  /\ wants' = [wants EXCEPT ![t] = {}]
  /\ rejected' = [rejected EXCEPT ![t] = {}]
  /\ UNCHANGED <<reserved, behind, racing, transformTails, tracked, cleanupVars,
                 closeVars>>

(* release(): settles the call's tickets; a tail is removed from the map   *)
(* only by its own reservation.                                            *)
ReleasedTails(t) ==
  [s \in SessionIDs |-> IF transformTails[s] = t THEN None ELSE transformTails[s]]
WaitersOfOwnTail(t) ==
  [u \in Transforms |-> IF t \in TailOwners THEN behind[u] \ {t} ELSE behind[u]]
Waiters(t) == [u \in Transforms |-> behind[u] \ {t}]
Release(t) ==
  /\ pc' = [pc EXCEPT ![t] = "idle"]
  /\ rejected' = [rejected EXCEPT ![t] = {}]
  /\ reserved' = [reserved EXCEPT ![t] = {}]
  /\ behind' = Waiters(t)
  /\ racing' = [u \in Transforms |-> IF t \in racing[u] THEN {} ELSE racing[u]]
  /\ awaitedTail' = [c \in Cleanups |-> IF awaitedTail[c] = t THEN None
                                         ELSE awaitedTail[c]]
  /\ drain' = drain \ {t}
  /\ transformTails' = ReleasedTails(t)
  /\ UNCHANGED <<wants, tracked, closing, disposed, cleanupPc, target, cleanupBehind,
                 cleanupTail, exclusiveSessions>>

(* Every awaited tail has settled.                                         *)
Acquired(t) == pc[t] = "queued" /\ behind[t] = {}

(* run throws "transform capacity unavailable" and releases what it holds. *)
RejectTransform(t) ==
  /\ Acquired(t)
  /\ rejected[t] # {}
  /\ Release(t)

(* Sessions in whose window some transform is: begin never evicts them.    *)
Open == UNION {reserved[u] : u \in {v \in Transforms : pc[v] = "running"}}

(* All tails have settled and nothing was rejected: run calls begin() ...  *)
OpenWindow(t) ==
  /\ Acquired(t)
  /\ rejected[t] = {}
  /\ pc' = [pc EXCEPT ![t] = "running"]
  /\ UNCHANGED <<wants, rejected, reserved, behind, racing, transformTails,
                 cleanupVars, closeVars>>

(* ... which tracks the sessions of the call, evicting idle ones for them  *)
(* or leaving some of its own out when no slot is free.                    *)
BeginTracks(t) ==
  /\ tracked' \in SUBSET (tracked \cup reserved[t])
  /\ Open \cap tracked \subseteq tracked'
  /\ Cardinality(tracked') <= MaxSessions

EnterWindow(t) == OpenWindow(t) /\ BeginTracks(t)

(* The transform has returned or thrown: commit or abort, then release.    *)
LeaveWindow(t) ==
  /\ pc[t] = "running"
  /\ Release(t)
-----------------------------------------------------------------------------
(* runSessionExclusive(sessionID): joins the chain of deletions, or throws *)
(* when the manager is closing.                                            *)
RequestCleanup(c, s) ==
  /\ cleanupPc[c] = "idle"
  /\ ~closing
  /\ cleanupPc' = [cleanupPc EXCEPT ![c] = "waiting"]
  /\ target' = [target EXCEPT ![c] = s]
  /\ cleanupBehind' = [cleanupBehind EXCEPT ![c] = cleanupTail]
  /\ cleanupTail' = c
  /\ UNCHANGED <<awaitedTail, exclusiveSessions, transformVars, tracked, closeVars>>

(* Its turn: new transforms of the session are rejected from here on, and  *)
(* the tail of those already queued is awaited.                            *)
AwaitedByNobody(s) == None
AwaitedBy(s) == transformTails[s]
EnterExclusive(c) ==
  /\ cleanupPc[c] = "waiting"
  /\ cleanupBehind[c] = None
  /\ exclusiveSessions' = exclusiveSessions \cup {target[c]}
  /\ awaitedTail' = [awaitedTail EXCEPT ![c] = AwaitedBy(target[c])]
  /\ cleanupPc' = [cleanupPc EXCEPT ![c] = "exclusive"]
  /\ UNCHANGED <<target, cleanupBehind, cleanupTail, transformVars, tracked, closeVars>>

(* The operation starts (store.deleteSession is awaited in it) ...         *)
StartDeletion(c) ==
  /\ cleanupPc[c] = "exclusive"
  /\ awaitedTail[c] = None
  /\ cleanupPc' = [cleanupPc EXCEPT ![c] = "deleting"]
  /\ UNCHANGED <<target, cleanupBehind, awaitedTail, cleanupTail, exclusiveSessions,
                 transformVars, tracked, closeVars>>

(* ... and ends, whatever the store answered, with deleteSession here.     *)
DeleteSession(c) ==
  /\ cleanupPc[c] = "deleting"
  /\ cleanupPc' = [cleanupPc EXCEPT ![c] = "deleted"]
  /\ tracked' = tracked \ {target[c]}
  /\ UNCHANGED <<target, cleanupBehind, awaitedTail, cleanupTail, exclusiveSessions,
                 transformVars, closeVars>>

(* The finally block of runSessionExclusive.                               *)
NextCleanup(c) ==
  [d \in Cleanups |-> IF cleanupBehind[d] = c THEN None ELSE cleanupBehind[d]]
LeaveExclusive(c) ==
  /\ cleanupPc[c] = "deleted"
  /\ cleanupPc' = [cleanupPc EXCEPT ![c] = "idle"]
  /\ target' = [target EXCEPT ![c] = None]
  /\ exclusiveSessions' = exclusiveSessions \ {target[c]}
  /\ cleanupBehind' = NextCleanup(c)
  /\ cleanupTail' = IF cleanupTail = c THEN None ELSE cleanupTail
  /\ drain' = drain \ {c}
  /\ UNCHANGED <<awaitedTail, transformVars, tracked, closing, disposed>>
-----------------------------------------------------------------------------
(* dispose() calls closeAndDrain().                                        *)
DrainForgetsCleanup == TailOwners
DrainSet == TailOwners \cup Some(cleanupTail)
CloseAndDrain ==
  /\ ~closing
  /\ closing' = TRUE
  /\ drain' = DrainSet
  /\ UNCHANGED <<disposed, transformVars, tracked, cleanupVars>>

(* The drain is over: dispose clears the sessions (and closes the store).  *)
Dispose ==
  /\ closing /\ ~disposed
  /\ drain = {}
  /\ disposed' = TRUE
  /\ tracked' = {}
  /\ UNCHANGED <<closing, drain, transformVars, cleanupVars>>
-----------------------------------------------------------------------------
Init ==
  /\ pc = [t \in Transforms |-> "idle"]
  /\ wants = [t \in Transforms |-> {}]
  /\ rejected = [t \in Transforms |-> {}]
  /\ reserved = [t \in Transforms |-> {}]
  /\ behind = [t \in Transforms |-> {}]
  /\ racing = [t \in Transforms |-> {}]
  /\ transformTails = [s \in SessionIDs |-> None]
  /\ tracked = {}
  /\ cleanupPc = [c \in Cleanups |-> "idle"]
  /\ target = [c \in Cleanups |-> None]
  /\ cleanupBehind = [c \in Cleanups |-> None]
  /\ awaitedTail = [c \in Cleanups |-> None]
  /\ cleanupTail = None
  /\ exclusiveSessions = {}
  /\ closing = FALSE
  /\ drain = {}
  /\ disposed = FALSE

(* A call already made goes on: what the event loop will run by itself.    *)
TransformStep(t) ==
  Retry(t) \/ RetryThrows(t) \/ RejectTransform(t) \/ EnterWindow(t) \/ LeaveWindow(t)
CleanupStep(c) ==
  EnterExclusive(c) \/ StartDeletion(c) \/ DeleteSession(c) \/ LeaveExclusive(c)

Next ==
  \/ \E t \in Transforms : (\E W \in SUBSET SessionIDs : Arrive(t, W)) \/ TransformStep(t)
  \/ \E c \in Cleanups : (\E s \in SessionIDs : RequestCleanup(c, s)) \/ CleanupStep(c)
  \/ CloseAndDrain
  \/ Dispose

(* The event loop resumes every call whose promise has settled, and the    *)
(* awaited transform bodies and store calls settle.                        *)
Fairness ==
  /\ \A t \in Transforms : WF_vars(TransformStep(t))
  /\ \A c \in Cleanups : WF_vars(CleanupStep(c))
  /\ WF_vars(Dispose)

Spec == Init /\ [][Next]_vars
FairSpec == Spec /\ Fairness
-----------------------------------------------------------------------------
TypeOK ==
  /\ pc \in [Transforms -> {"idle", "capacity", "queued", "running"}]
  /\ wants \in [Transforms -> SUBSET SessionIDs]
  /\ rejected \in [Transforms -> SUBSET SessionIDs]
  /\ reserved \in [Transforms -> SUBSET SessionIDs]
  /\ behind \in [Transforms -> SUBSET Transforms]
  /\ racing \in [Transforms -> SUBSET Transforms]
  /\ transformTails \in [SessionIDs -> Transforms \cup {None}]
  /\ tracked \in SUBSET SessionIDs
  /\ cleanupPc \in [Cleanups -> {"idle", "waiting", "exclusive", "deleting",
                                 "deleted"}]
  /\ target \in [Cleanups -> SessionIDs \cup {None}]
  /\ cleanupBehind \in [Cleanups -> Cleanups \cup {None}]
  /\ awaitedTail \in [Cleanups -> Transforms \cup {None}]
  /\ cleanupTail \in Cleanups \cup {None}
  /\ exclusiveSessions \in SUBSET SessionIDs
  /\ closing \in BOOLEAN
  /\ drain \in SUBSET (Transforms \cup Cleanups)
  /\ disposed \in BOOLEAN

(* Transforms of one session are serialized: two windows that are open at  *)
(* the same time share no session, although each waits only for the tails  *)
(* it found (DESIGN.md: same-session transforms go through one queue).     *)
SerializedWindows ==
  \A t, u \in Transforms :
    t # u /\ pc[t] = "running" /\ pc[u] = "running"
      => reserved[t] \cap reserved[u] = {}

(* While a session is being deleted no window is open on it, none is       *)
(* queued for it, and no other deletion runs.                              *)
DeletionIsExclusive ==
  \A c \in Cleanups : cleanupPc[c] \in {"deleting", "deleted"} =>
    /\ \A t \in Transforms : target[c] \notin reserved[t]
    /\ \A d \in Cleanups : cleanupPc[d] \in {"exclusive", "deleting", "deleted"} => d = c

(* The number of sessions with a queue never exceeds maxSessions.          *)
QueuesBounded == Cardinality(TailSessions) <= MaxSessions

(* A call that finds too little room always has a tail to wait for, so the *)
(* loop's `continue' without an await never spins.                         *)
NeverSpins ==
  \A t \in Transforms : \A W \in SUBSET SessionIDs :
    pc[t] \in {"idle", "capacity"} /\ ~TrackedFit(W) => TailOwners # {}

(* When dispose clears the sessions and closes the store, every transform  *)
(* of an identified session and every deletion begun before it is over,    *)
(* and stays so.                                                           *)
DisposedIsQuiet ==
  disposed =>
    /\ \A t \in Transforms : reserved[t] = {}
    /\ \A c \in Cleanups : cleanupPc[c] = "idle"
    /\ tracked = {}

(* A transform that has joined the queues of its sessions gets through     *)
(* them, however many others keep arriving and whichever sessions they     *)
(* share: no two calls ever wait for each other.                           *)
QueuedFinish ==
  \A t \in Transforms : pc[t] = "queued" ~> pc[t] = "idle"

(* A session's deletion runs to its end while transforms keep arriving.    *)
CleanupsFinish ==
  \A c \in Cleanups : cleanupPc[c] = "waiting" ~> cleanupPc[c] = "idle"

(* dispose returns, and every call made before it has ended by itself,     *)
(* those still waiting for capacity included.                              *)
DisposeFinishes ==
  closing ~> disposed /\ (\A t \in Transforms : pc[t] = "idle")

(* Nobody waits for ever, in a circle or overtaken by later calls: queued  *)
(* requests, deletions and the dispose all come to their end.              *)
EverybodyFinishes == QueuedFinish /\ CleanupsFinish /\ DisposeFinishes
=============================================================================
