------------------------ MODULE ContextTransformsProofs ------------------------
(***************************************************************************)
(* The composition does with the queues what TransformLocks says, for      *)
(* every number of calls, deletions, sessions and parts, and every request. *)
(*                                                                         *)
(* Every action but EnterWindow contains the step of the queues it takes.  *)
(* What begin does to the map of sessions is only seen there: that it      *)
(* tracks no session but those the call has reserved, keeps the map within *)
(* maxSessions and never evicts a session in whose window another call is. *)
(* The last holds because an open window keeps the object it joined        *)
(* current: nobody else deletes or creates it while the session is         *)
(* reserved (WindowFollows).                                               *)
(*                                                                         *)
(* The second part is what the composition is for: what the model has been *)
(* shown stays.  HInv ties the records of the manager and the outputs of   *)
(* the open windows to the forms the model has seen, for requests of one   *)
(* session each (OneSession).                                              *)
(***************************************************************************)
EXTENDS ContextTransforms, FiniteSetTheorems, TLAPS

LP == INSTANCE TransformLocksProofs
        WITH tracked <- {s \in SessionIDs : generation[s] # 0}
WP == INSTANCE ContextLifecycleProofs WITH Windows <- Transforms

(* begin, from the replayed parts, the new ones it may change and what its *)
(* passes have made of the objects.                                        *)
BeginOf(t, q, at, m, replayed, live, objects) ==
  LET old(s)   == m.state[m.joined[s].generation]
      opened   == [open |-> TRUE, joined |-> m.joined, contents |-> q.parts,
                   live |-> live, checked |-> {}, replayed |-> replayed,
                   version |-> [p \in Parts |-> IF p \in q.parts THEN at[p] ELSE 0],
                   form |-> [p \in Parts |->
                               IF p \in replayed
                               THEN old(SessionOf[p]).parts[p].form ELSE Raw],
                   overlapped |-> m.overlapping]
      shares(v, s) == window[v].open /\ s \in m.overlapping
                        /\ window[v].joined[s].generation = m.joined[s].generation
      window2  == [v \in Transforms |->
                     IF v = t THEN opened
                     ELSE [window[v] EXCEPT
                             !.overlapped = @ \cup {s \in SessionIDs : shares(v, s)}]]
  IN  /\ ~window[t].open
      /\ \A g \in WP!Generations : state[g].conflictVersion < MaxConflicts
      /\ mapOrder' = m.mapOrder
      /\ generation' = m.generation
      /\ window' = window2
      /\ state' = WP!Collected(m.generation, window2, objects)
      /\ UNCHANGED <<hostVersion, firstSent, lastSent>>

(* The definitions of the parts, as the composition and as the theorems    *)
(* about the parts name them.                                              *)
LEMMA SamePasses ==
  ASSUME NEW t, NEW q, NEW at, NEW m
  PROVE  Lifecycle!BeginWith(t, q, at, m) <=> WP!BeginWith(t, q, at, m)
<1>1. /\ Lifecycle!Unknown = WP!Unknown /\ Lifecycle!NotJoined = WP!NotJoined
      /\ Lifecycle!Generations = WP!Generations /\ Lifecycle!Fresh = WP!Fresh
      /\ \A S : Lifecycle!Cardinality(S) = WP!Cardinality(S)
  BY DEF Lifecycle!Unknown, WP!Unknown, Lifecycle!NotJoined, WP!NotJoined,
         Lifecycle!Generations, WP!Generations, Lifecycle!Fresh, WP!Fresh,
         Lifecycle!Cardinality, WP!Cardinality
<1>2. ASSUME NEW gen, NEW win, NEW st
      PROVE  Lifecycle!Collected(gen, win, st) = WP!Collected(gen, win, st)
  BY <1>1 DEF Lifecycle!Collected, WP!Collected, Lifecycle!Referenced, WP!Referenced
<1>3. ASSUME NEW S, NEW P
      PROVE  Lifecycle!CharsOf(S, P) = WP!CharsOf(S, P)
  BY DEF Lifecycle!CharsOf, WP!CharsOf, Lifecycle!ChangedOf, WP!ChangedOf,
         Lifecycle!Changed, WP!Changed, Lifecycle!Total, WP!Total,
         Lifecycle!Cardinality, WP!Cardinality
<1>4. ASSUME NEW S, NEW P
      PROVE  Lifecycle!Forget(S, P) = WP!Forget(S, P)
  <2>1. Lifecycle!ChangedOf(S, P) = WP!ChangedOf(S, P)
    BY DEF Lifecycle!ChangedOf, WP!ChangedOf, Lifecycle!Changed, WP!Changed
  <2>2. \A n : Lifecycle!NonNegative(n) = WP!NonNegative(n)
    BY DEF Lifecycle!NonNegative, WP!NonNegative
  <2> QED BY <1>1, <1>3, <2>1, <2>2 DEF Lifecycle!Forget, WP!Forget
<1>5. ASSUME NEW S, NEW P, NEW v
      PROVE  Lifecycle!AfterReplay(S, P, v) = WP!AfterReplay(S, P, v)
  <2>1. Lifecycle!Edited(S, P, v) = WP!Edited(S, P, v)
    BY <1>1 DEF Lifecycle!Edited, WP!Edited, Lifecycle!Known, WP!Known
  <2> DEFINE E == WP!Edited(S, P, v)
  <2>2. Lifecycle!Forget(S, E) = WP!Forget(S, E)
    BY <1>4
  <2>3. \A n : Lifecycle!RawRecord(n) = WP!RawRecord(n)
    BY DEF Lifecycle!RawRecord, WP!RawRecord
  <2> QED BY <2>1, <2>2, <2>3 DEF Lifecycle!AfterReplay, WP!AfterReplay
<1>6. ASSUME NEW S, NEW P
      PROVE  /\ Lifecycle!Unseen(S, P) = WP!Unseen(S, P)
             /\ Lifecycle!Overfull(S, P) = WP!Overfull(S, P)
  BY <1>1 DEF Lifecycle!Unseen, WP!Unseen, Lifecycle!Overfull, WP!Overfull,
              Lifecycle!Known, WP!Known, Lifecycle!Cardinality, WP!Cardinality
<1>7. ASSUME NEW S, NEW P, NEW v
      PROVE  Lifecycle!AfterRecording(S, P, v) = WP!AfterRecording(S, P, v)
  <2>1. \A n : Lifecycle!RawRecord(n) = WP!RawRecord(n)
    BY DEF Lifecycle!RawRecord, WP!RawRecord
  <2> QED BY <1>6, <2>1 DEF Lifecycle!AfterRecording, WP!AfterRecording
<1>8. ASSUME NEW S, NEW P, NEW v
      PROVE  Lifecycle!Replayed(S, P, v) = WP!Replayed(S, P, v)
  BY DEF Lifecycle!Replayed, WP!Replayed, Lifecycle!Changed, WP!Changed
<1>9. ASSUME NEW i
      PROVE  Lifecycle!LiveSession(m, q, i) <=> WP!LiveSession(m, q, i)
  BY DEF Lifecycle!LiveSession, WP!LiveSession
<1> DEFINE mine(s) == {p \in q.parts : SessionOf[p] = s}
           ids == {s \in SessionIDs : m.joined[s] # WP!NotJoined}
           old(s) == m.state[m.joined[s].generation]
           owner(g) == {s \in ids : m.joined[s].generation = g}
           R1 == UNION {Lifecycle!Replayed(old(s), mine(s), at) : s \in ids}
           R2 == UNION {WP!Replayed(old(s), mine(s), at) : s \in ids}
           L1 == UNION {Lifecycle!Unseen(old(s), mine(s)) \ q.pinned :
                          s \in {i \in ids : Lifecycle!LiveSession(m, q, i)
                                               /\ ~Lifecycle!Overfull(old(i), mine(i))}}
           L2 == UNION {WP!Unseen(old(s), mine(s)) \ q.pinned :
                          s \in {i \in ids : WP!LiveSession(m, q, i)
                                               /\ ~WP!Overfull(old(i), mine(i))}}
           A1(s) == Lifecycle!AfterRecording(Lifecycle!AfterReplay(old(s), mine(s), at),
                                             mine(s), at)
           A2(s) == WP!AfterRecording(WP!AfterReplay(old(s), mine(s), at), mine(s), at)
           S1 == [g \in WP!Generations |->
                    IF owner(g) = {} THEN m.state[g]
                    ELSE LET s == CHOOSE i \in owner(g) : TRUE IN A1(s)]
           S2 == [g \in WP!Generations |->
                    IF owner(g) = {} THEN m.state[g]
                    ELSE LET s == CHOOSE i \in owner(g) : TRUE IN A2(s)]
<1>10. R1 = R2
  <2>1. \A s : Lifecycle!Replayed(old(s), mine(s), at) = WP!Replayed(old(s), mine(s), at)
    BY <1>8
  <2> HIDE DEF mine, ids, old
  <2> QED BY <2>1
<1>11. L1 = L2
  <2>1. \A s : /\ Lifecycle!Unseen(old(s), mine(s)) = WP!Unseen(old(s), mine(s))
               /\ Lifecycle!Overfull(old(s), mine(s)) = WP!Overfull(old(s), mine(s))
    BY <1>6
  <2> HIDE DEF mine, ids, old
  <2> QED BY <1>9, <2>1
<1>12. S1 = S2
  <2>1. \A s : A1(s) = A2(s)
    BY <1>5, <1>7
  <2> HIDE DEF A1, A2, owner
  <2> QED BY <2>1
<1>13. Lifecycle!BeginWith(t, q, at, m) <=> BeginOf(t, q, at, m, R1, L1, S1)
  BY DEF Lifecycle!BeginWith, BeginOf, Lifecycle!Collected, WP!Collected,
         Lifecycle!Referenced, WP!Referenced, Lifecycle!Fresh, WP!Fresh,
         Lifecycle!Unknown, WP!Unknown, Lifecycle!NotJoined, WP!NotJoined,
         Lifecycle!Generations, WP!Generations, Lifecycle!Cardinality, WP!Cardinality
<1>14. WP!BeginWith(t, q, at, m) <=> BeginOf(t, q, at, m, R2, L2, S2)
  BY DEF WP!BeginWith, BeginOf
<1> HIDE DEF R1, R2, L1, L2, S1, S2
<1> QED BY <1>10, <1>11, <1>12, <1>13, <1>14

(* begin is the same action under either name.                             *)
LEMMA SameBegin ==
  ASSUME NEW t, NEW q, NEW at
  PROVE  Lifecycle!Begin(t, q, at) <=> WP!Begin(t, q, at)
<1>1. ASSUME NEW m, NEW s PROVE Lifecycle!Create(m, s) = WP!Create(m, s)
  BY DEF Lifecycle!Create, WP!Create, Lifecycle!Full, WP!Full, Lifecycle!Idle, WP!Idle,
         Lifecycle!KeysOf, WP!KeysOf, Lifecycle!AtEnd, WP!AtEnd, Lifecycle!Oldest, WP!Oldest,
         Lifecycle!Generations, WP!Generations, Lifecycle!Referenced, WP!Referenced,
         Lifecycle!Fresh, WP!Fresh, Lifecycle!Unknown, WP!Unknown, Lifecycle!Min, WP!Min,
         Lifecycle!Cardinality, WP!Cardinality
<1>2. ASSUME NEW m, NEW s PROVE Lifecycle!Observe(m, s) = WP!Observe(m, s)
  <2>1. ASSUME NEW n PROVE Lifecycle!Join(n, s) = WP!Join(n, s)
    BY DEF Lifecycle!Join, WP!Join
  <2>2. Lifecycle!Touched(m, s) = WP!Touched(m, s)
    <3>1. m.generation[s] = 0 => Lifecycle!Touched(m, s) = Lifecycle!Create(m, s)
                                  /\ WP!Touched(m, s) = WP!Create(m, s)
      BY Zenon DEF Lifecycle!Touched, WP!Touched
    <3>2. m.generation[s] # 0 => Lifecycle!Touched(m, s) = WP!Touched(m, s)
      BY Zenon DEF Lifecycle!Touched, WP!Touched, Lifecycle!AtEnd, WP!AtEnd,
                   Lifecycle!KeysOf, WP!KeysOf
    <3> QED BY <1>1, <3>1, <3>2
  <2> QED BY <2>1, <2>2 DEF Lifecycle!Observe, WP!Observe
<1>3. ASSUME NEW start, NEW ids
      PROVE  Lifecycle!Observed(start, ids) = WP!Observed(start, ids)
  <2> DEFINE N == Len(ids)
             A(F) == [n \in 0 .. N |-> IF n = 0 THEN start ELSE Lifecycle!Observe(F[n - 1], ids[n])]
             B(F) == [n \in 0 .. N |-> IF n = 0 THEN start ELSE WP!Observe(F[n - 1], ids[n])]
             f == CHOOSE F : F = A(F)
             g == CHOOSE F : F = B(F)
  <2>1. ASSUME NEW F PROVE A(F) = B(F)
    BY <1>2
  <2>2. Lifecycle!Observed(start, ids) = f[N]
    BY Zenon DEF Lifecycle!Observed
  <2>3. WP!Observed(start, ids) = g[N]
    BY Zenon DEF WP!Observed
  <2>4. f = g
    <3> HIDE DEF A, B
    <3> QED BY <2>1, Zenon
  <2> HIDE DEF f, g
  <2> QED BY <2>2, <2>3, <2>4
<1>4. ASSUME NEW m PROVE Lifecycle!BeginWith(t, q, at, m) <=> WP!BeginWith(t, q, at, m)
  BY SamePasses
<1>5. Lifecycle!Start = WP!Start
  BY DEF Lifecycle!Start, WP!Start, Lifecycle!Closed, WP!Closed, Lifecycle!NotJoined, WP!NotJoined
<1> QED BY <1>3, <1>4, <1>5 DEF Lifecycle!Begin, WP!Begin

(* So are the steps inside a window and its end.                           *)
LEMMA SameWindowSteps ==
  ASSUME NEW t
  PROVE  /\ \A p : Lifecycle!Check(t, p) <=> WP!Check(t, p)
         /\ \A p, f : Lifecycle!Write(t, p, f) <=> WP!Write(t, p, f)
         /\ \A p : Lifecycle!Invalidate(t, p) <=> WP!Invalidate(t, p)
         /\ Lifecycle!Commit(t) <=> WP!Commit(t)
         /\ Lifecycle!Abort(t) <=> WP!Abort(t)
<1>1. ASSUME NEW p PROVE Lifecycle!Check(t, p) <=> WP!Check(t, p)
  BY DEF Lifecycle!Check, WP!Check, Lifecycle!LiveIsCurrent, WP!LiveIsCurrent, Lifecycle!Joined,
         WP!Joined, Lifecycle!Current, WP!Current, Lifecycle!manager, WP!manager
<1>2. ASSUME NEW p, NEW f PROVE Lifecycle!Write(t, p, f) <=> WP!Write(t, p, f)
  BY DEF Lifecycle!Write, WP!Write, Lifecycle!manager, WP!manager
<1>3. ASSUME NEW p PROVE Lifecycle!Invalidate(t, p) <=> WP!Invalidate(t, p)
  BY DEF Lifecycle!Invalidate, WP!Invalidate, Lifecycle!Joined, WP!Joined, Lifecycle!Current,
         WP!Current, Lifecycle!Forget, WP!Forget, Lifecycle!NonNegative, WP!NonNegative,
         Lifecycle!CharsOf, WP!CharsOf, Lifecycle!ChangedOf, WP!ChangedOf, Lifecycle!Changed,
         WP!Changed, Lifecycle!Total, WP!Total, Lifecycle!Cardinality, WP!Cardinality,
         Lifecycle!RawRecord, WP!RawRecord
<1>4. Lifecycle!Commit(t) <=> WP!Commit(t)
  BY DEF Lifecycle!Commit, WP!Commit, Lifecycle!Committed, WP!Committed, Lifecycle!Retain,
         WP!Retain, Lifecycle!Fits, WP!Fits, Lifecycle!Length, WP!Length,
         Lifecycle!LiveIsCurrent, WP!LiveIsCurrent, Lifecycle!Joined, WP!Joined,
         Lifecycle!Current, WP!Current, Lifecycle!Close, WP!Close, Lifecycle!Closed, WP!Closed,
         Lifecycle!NotJoined, WP!NotJoined, Lifecycle!JoinedObjects, WP!JoinedObjects,
         Lifecycle!NonNegative, WP!NonNegative, Lifecycle!Send, WP!Send, Lifecycle!NotSent,
         WP!NotSent, Lifecycle!Collected, WP!Collected, Lifecycle!Referenced, WP!Referenced,
         Lifecycle!Generations, WP!Generations, Lifecycle!Cardinality, WP!Cardinality,
         Lifecycle!Fresh, WP!Fresh, Lifecycle!Unknown, WP!Unknown
<1>5. Lifecycle!Abort(t) <=> WP!Abort(t)
  BY DEF Lifecycle!Abort, WP!Abort, Lifecycle!Joined, WP!Joined, Lifecycle!RawRecord,
         WP!RawRecord, Lifecycle!Close, WP!Close, Lifecycle!Closed, WP!Closed,
         Lifecycle!NotJoined, WP!NotJoined, Lifecycle!JoinedObjects, WP!JoinedObjects,
         Lifecycle!NonNegative, WP!NonNegative, Lifecycle!Send, WP!Send, Lifecycle!NotSent,
         WP!NotSent, Lifecycle!Collected, WP!Collected, Lifecycle!Referenced, WP!Referenced,
         Lifecycle!Generations, WP!Generations, Lifecycle!Cardinality, WP!Cardinality,
         Lifecycle!Fresh, WP!Fresh, Lifecycle!Unknown, WP!Unknown
<1> QED BY <1>1, <1>2, <1>3, <1>4, <1>5

(* So are the steps of the manager outside any window.                     *)
LEMMA SameManagerSteps ==
  /\ \A s : Lifecycle!DeleteSession(s) <=> WP!DeleteSession(s)
  /\ Lifecycle!Clear <=> WP!Clear
  /\ \A p : Lifecycle!HostEdit(p) <=> WP!HostEdit(p)
  /\ \A P, at, form : Lifecycle!Send(P, at, form) <=> WP!Send(P, at, form)
  /\ Lifecycle!Init <=> WP!Init
<1>1. ASSUME NEW s PROVE Lifecycle!DeleteSession(s) <=> WP!DeleteSession(s)
  BY DEF Lifecycle!DeleteSession, WP!DeleteSession, Lifecycle!KeysOf, WP!KeysOf,
         Lifecycle!Collected, WP!Collected, Lifecycle!Referenced, WP!Referenced,
         Lifecycle!Generations, WP!Generations, Lifecycle!Cardinality, WP!Cardinality,
         Lifecycle!Fresh, WP!Fresh, Lifecycle!Unknown, WP!Unknown
<1>2. Lifecycle!Clear <=> WP!Clear
  BY DEF Lifecycle!Clear, WP!Clear, Lifecycle!Collected, WP!Collected, Lifecycle!Referenced,
         WP!Referenced, Lifecycle!Generations, WP!Generations, Lifecycle!Cardinality,
         WP!Cardinality, Lifecycle!Fresh, WP!Fresh, Lifecycle!Unknown, WP!Unknown
<1>3. ASSUME NEW p PROVE Lifecycle!HostEdit(p) <=> WP!HostEdit(p)
  BY DEF Lifecycle!HostEdit, WP!HostEdit, Lifecycle!NotSent, WP!NotSent, Lifecycle!manager,
         WP!manager
<1>4. ASSUME NEW P, NEW at, NEW form PROVE Lifecycle!Send(P, at, form) <=> WP!Send(P, at, form)
  BY DEF Lifecycle!Send, WP!Send, Lifecycle!NotSent, WP!NotSent
<1>5. Lifecycle!Init <=> WP!Init
  BY DEF Lifecycle!Init, WP!Init, Lifecycle!Closed, WP!Closed, Lifecycle!NotJoined, WP!NotJoined,
         Lifecycle!NotSent, WP!NotSent, Lifecycle!Generations, WP!Generations,
         Lifecycle!Cardinality, WP!Cardinality, Lifecycle!Fresh, WP!Fresh, Lifecycle!Unknown,
         WP!Unknown
<1> QED BY <1>1, <1>2, <1>3, <1>4, <1>5

(* The queues' steps of the calls are the same under either name.          *)
LEMMA SameTransformSteps ==
  ASSUME NEW t
  PROVE  /\ \A W, R : Locks!Evaluate(t, W, R) <=> LP!Evaluate(t, W, R)
         /\ \A W : Locks!Arrive(t, W) <=> LP!Arrive(t, W)
         /\ Locks!Retry(t) <=> LP!Retry(t)
         /\ Locks!RetryThrows(t) <=> LP!RetryThrows(t)
         /\ Locks!RejectTransform(t) <=> LP!RejectTransform(t)
         /\ Locks!EnterWindow(t) <=> LP!EnterWindow(t)
         /\ Locks!LeaveWindow(t) <=> LP!LeaveWindow(t)
<1>1. ASSUME NEW W, NEW R PROVE Locks!Evaluate(t, W, R) <=> LP!Evaluate(t, W, R)
  BY DEF Locks!Evaluate, LP!Evaluate, Locks!TrackedFit, LP!TrackedFit,
         Locks!MissingTracked, LP!MissingTracked, Locks!Missing, LP!Missing,
         Locks!TailSessions, LP!TailSessions, Locks!TailOwners, LP!TailOwners,
         Locks!Available, LP!Available, Locks!Admitted, LP!Admitted, Locks!TailsFound,
         LP!TailsFound, Locks!Some, LP!Some, Locks!Cardinality, LP!Cardinality
<1>2. ASSUME NEW W PROVE Locks!Arrive(t, W) <=> LP!Arrive(t, W)
  BY <1>1 DEF Locks!Arrive, LP!Arrive, Locks!cleanupVars, LP!cleanupVars, Locks!closeVars,
         LP!closeVars
<1>3. Locks!Retry(t) <=> LP!Retry(t)
  BY <1>1 DEF Locks!Retry, LP!Retry, Locks!cleanupVars, LP!cleanupVars, Locks!closeVars,
         LP!closeVars
<1>4. Locks!RetryThrows(t) <=> LP!RetryThrows(t)
  BY DEF Locks!RetryThrows, LP!RetryThrows, Locks!cleanupVars, LP!cleanupVars,
         Locks!closeVars, LP!closeVars
<1>5. Locks!Release(t) <=> LP!Release(t)
  BY DEF Locks!Release, LP!Release, Locks!ReleasedTails, LP!ReleasedTails, Locks!Waiters,
         LP!Waiters
<1>6. Locks!RejectTransform(t) <=> LP!RejectTransform(t)
  BY <1>5 DEF Locks!RejectTransform, LP!RejectTransform, Locks!Acquired, LP!Acquired
<1>7. Locks!EnterWindow(t) <=> LP!EnterWindow(t)
  BY DEF Locks!EnterWindow, LP!EnterWindow, Locks!OpenWindow, LP!OpenWindow,
         Locks!Acquired, LP!Acquired, Locks!BeginTracks, LP!BeginTracks, Locks!Open,
         LP!Open, Locks!Cardinality, LP!Cardinality, Locks!cleanupVars, LP!cleanupVars,
         Locks!closeVars, LP!closeVars
<1>8. Locks!LeaveWindow(t) <=> LP!LeaveWindow(t)
  BY <1>5 DEF Locks!LeaveWindow, LP!LeaveWindow
<1> QED BY <1>1, <1>2, <1>3, <1>4, <1>6, <1>7, <1>8

(* So are those of the deletions and of dispose.                           *)
LEMMA SameCleanupSteps ==
  ASSUME NEW c
  PROVE  /\ \A s : Locks!RequestCleanup(c, s) <=> LP!RequestCleanup(c, s)
         /\ Locks!CleanupStep(c) <=> LP!CleanupStep(c)
<1>1. ASSUME NEW s PROVE Locks!RequestCleanup(c, s) <=> LP!RequestCleanup(c, s)
  BY DEF Locks!RequestCleanup, LP!RequestCleanup, Locks!transformVars, LP!transformVars,
         Locks!closeVars, LP!closeVars
<1>2. Locks!EnterExclusive(c) <=> LP!EnterExclusive(c)
  BY DEF Locks!EnterExclusive, LP!EnterExclusive, Locks!AwaitedBy, LP!AwaitedBy,
         Locks!transformVars, LP!transformVars, Locks!closeVars, LP!closeVars
<1>3. Locks!StartDeletion(c) <=> LP!StartDeletion(c)
  BY DEF Locks!StartDeletion, LP!StartDeletion, Locks!transformVars, LP!transformVars,
         Locks!closeVars, LP!closeVars
<1>4. Locks!DeleteSession(c) <=> LP!DeleteSession(c)
  BY DEF Locks!DeleteSession, LP!DeleteSession, Locks!transformVars, LP!transformVars,
         Locks!closeVars, LP!closeVars
<1>5. Locks!LeaveExclusive(c) <=> LP!LeaveExclusive(c)
  BY DEF Locks!LeaveExclusive, LP!LeaveExclusive, Locks!NextCleanup, LP!NextCleanup,
         Locks!transformVars, LP!transformVars
<1> QED BY <1>1, <1>2, <1>3, <1>4, <1>5 DEF Locks!CleanupStep, LP!CleanupStep

(* A step of the queues is one that their theorems are about.              *)
LEMMA SameLocks ==
  /\ Locks!Init <=> LP!Init
  /\ [Locks!Next]_(Locks!vars) => [LP!Next]_(LP!vars)
<1>1. Locks!Init <=> LP!Init
  BY DEF Locks!Init, LP!Init
<1>2. Locks!vars = LP!vars
  BY DEF Locks!vars, LP!vars, Locks!transformVars, LP!transformVars, Locks!cleanupVars,
         LP!cleanupVars, Locks!closeVars, LP!closeVars
<1>3. Locks!CloseAndDrain <=> LP!CloseAndDrain
  BY DEF Locks!CloseAndDrain, LP!CloseAndDrain, Locks!DrainSet, LP!DrainSet,
         Locks!TailOwners, LP!TailOwners, Locks!TailSessions, LP!TailSessions, Locks!Some,
         LP!Some, Locks!transformVars, LP!transformVars, Locks!cleanupVars, LP!cleanupVars
<1>4. Locks!Dispose <=> LP!Dispose
  BY DEF Locks!Dispose, LP!Dispose, Locks!transformVars, LP!transformVars,
         Locks!cleanupVars, LP!cleanupVars
<1>5. Locks!Next => LP!Next
  BY <1>3, <1>4, SameTransformSteps, SameCleanupSteps
     DEF Locks!Next, LP!Next, Locks!TransformStep, LP!TransformStep
<1>6. UNCHANGED Locks!vars => UNCHANGED LP!vars
  BY DEF Locks!vars, LP!vars, Locks!transformVars, LP!transformVars, Locks!cleanupVars,
         LP!cleanupVars, Locks!closeVars, LP!closeVars
<1> QED BY <1>1, <1>5, <1>6

(* The assumptions on the constants, as the parts state them.              *)
LEMMA LocksHold ==
  /\ LP!IsFiniteSet(SessionIDs)
  /\ MaxSessions \in Nat \ {0}
  /\ None \notin Transforms \cup Cleanups \cup SessionIDs
  /\ Transforms \cap Cleanups = {}
BY TransformsAssumption DEF LP!IsFiniteSet, IsFiniteSet

(* The assumptions ContextLifecycle makes about its constants hold here.   *)
LEMMA WindowsHold ==
  /\ WP!IsFiniteSet(SessionIDs) /\ WP!IsFiniteSet(Transforms)
  /\ WP!IsFiniteSet(Parts) /\ Parts = 1 .. WP!Cardinality(Parts)
  /\ SessionOf \in [Parts -> SessionIDs]
  /\ Raw \notin Forms /\ {"unknown", "not sent"} \cap (Forms \cup {Raw}) = {}
  /\ Chars \in [Forms -> Nat]
  /\ MaxSessions \in Nat \ {0} /\ MaxParts \in Nat \ {0} /\ MaxChars \in Nat \ {0}
  /\ MaxVersion \in Nat /\ MaxConflicts \in Nat
  /\ \A q \in Requests :
       /\ q.ids \in Seq(SessionIDs) /\ WP!IsInjective(q.ids)
       /\ q.parts \subseteq Parts /\ q.pinned \subseteq q.parts
       /\ \A p \in q.parts : \E i \in DOMAIN q.ids : q.ids[i] = SessionOf[p]
BY TransformsAssumption DEF WP!IsFiniteSet, IsFiniteSet, WP!IsInjective, WP!Cardinality, Cardinality
-----------------------------------------------------------------------------
(* The inductive invariant: that of either part, and what ties them.  A    *)
(* call wants, holds or has been refused exactly the sessions of its       *)
(* request, and has a window open exactly while it runs ...                *)
WellFormed(r) ==
  /\ r.ids \in Seq(SessionIDs) /\ WP!IsInjective(r.ids)
  /\ r.parts \in SUBSET Parts
  /\ r.at \in [Parts -> Nat]
HoldsRequest(t) ==
  /\ pc[t] # "idle" => WellFormed(request[t])
  /\ pc[t] = "capacity" => wants[t] = IdsOf(request[t])
  /\ pc[t] \in {"queued", "running"} =>
       /\ reserved[t] \subseteq IdsOf(request[t])
       /\ IdsOf(request[t]) \subseteq reserved[t] \cup rejected[t]
  /\ window[t].open <=> pc[t] = "running"

(* ... in which it has joined the object that every session it reserved    *)
(* has now, and no object for those that have none.                        *)
WindowFollows(t) ==
  pc[t] = "running" =>
    \A s \in reserved[t] : window[t].joined[s].generation = generation[s]
CInv ==
  /\ LP!IInv
  /\ WP!IInv
  /\ request = [t \in Transforms |-> request[t]]
  /\ \A t \in Transforms : HoldsRequest(t) /\ WindowFollows(t)

(* The parts of the invariants that are needed below.                      *)
LEMMA Shapes ==
  ASSUME CInv
  PROVE  /\ LP!TypeOK
         /\ pc \in [Transforms -> {"idle", "capacity", "queued", "running"}]
         /\ wants \in [Transforms -> SUBSET SessionIDs]
         /\ rejected \in [Transforms -> SUBSET SessionIDs]
         /\ reserved \in [Transforms -> SUBSET SessionIDs]
         /\ target \in [Cleanups -> SessionIDs \cup {None}]
         /\ hostVersion \in [Parts -> Nat]
         /\ generation \in [SessionIDs -> WP!Generations \cup {0}]
         /\ window \in [Transforms -> WP!Window]
BY DEF CInv, LP!IInv, LP!TypeOK, WP!IInv, WP!TypeOK

(* A step of the queues keeps their invariant, a step that touches no      *)
(* window and no object that of the windows.                               *)
LEMMA QueuesKeep == ASSUME LP!IInv, [Locks!Next]_(Locks!vars) PROVE LP!IInv'
BY SameLocks, LP!NextIInv, LocksHold

(* A step that leaves the windows and objects alone keeps their invariant. *)
LEMMA WindowsKeep == ASSUME WP!IInv, UNCHANGED windowVars PROVE WP!IInv'
<1>1. UNCHANGED WP!vars
  BY DEF windowVars, WP!vars
<1> QED BY <1>1, WP!NextKeeps, WindowsHold

(* A call that a step does not touch, and the windows of whose sessions    *)
(* keep their objects, goes on holding what it held.                       *)
LEMMA UntouchedKeeps ==
  ASSUME NEW u \in Transforms, HoldsRequest(u), WindowFollows(u),
         pc'[u] = pc[u], wants'[u] = wants[u], rejected'[u] = rejected[u],
         reserved'[u] = reserved[u], request'[u] = request[u],
         window'[u].open = window[u].open, window'[u].joined = window[u].joined,
         pc[u] = "running" => \A s \in reserved[u] : generation'[s] = generation[s]
  PROVE  HoldsRequest(u)' /\ WindowFollows(u)'
<1>1. HoldsRequest(u)'
  BY DEF HoldsRequest, WellFormed, IdsOf
<1>2. WindowFollows(u)'
  BY DEF WindowFollows
<1> QED BY <1>1, <1>2

(* So when a step touches no call at all.                                  *)
LEMMA AllUntouched ==
  ASSUME CInv, UNCHANGED <<pc, wants, rejected, reserved, request>>,
         \A u \in Transforms : /\ window'[u].open = window[u].open
                               /\ window'[u].joined = window[u].joined,
         \A u \in Transforms : pc[u] = "running" =>
           \A s \in reserved[u] : generation'[s] = generation[s]
  PROVE  /\ request' = [t \in Transforms |-> request'[t]]
         /\ \A u \in Transforms : HoldsRequest(u)' /\ WindowFollows(u)'
<1>1. request' = [t \in Transforms |-> request'[t]]
  BY DEF CInv
<1>2. ASSUME NEW u \in Transforms PROVE HoldsRequest(u)' /\ WindowFollows(u)'
  <2>1. HoldsRequest(u) /\ WindowFollows(u)
    BY DEF CInv
  <2> QED BY <2>1, UntouchedKeeps
<1> QED BY <1>1, <1>2
-----------------------------------------------------------------------------
(* One lemma per action: it keeps the invariant and is a step of the       *)
(* queues or none.  A turn of the loop of acquireTransformLocks ...        *)
LEMMA EvaluateKeeps ==
  ASSUME CInv, NEW t \in Transforms, pc[t] # "running",
         NEW W \in SUBSET SessionIDs, NEW R \in SUBSET SessionIDs, Locks!Evaluate(t, W, R),
         UNCHANGED windowVars, WellFormed(request'[t]), W = IdsOf(request'[t]),
         \A u \in Transforms \ {t} : request'[u] = request[u]
  PROVE  \A u \in Transforms : HoldsRequest(u)' /\ WindowFollows(u)'
<1>1. /\ \/ pc'[t] = "capacity" /\ wants'[t] = W /\ reserved'[t] = reserved[t]
         \/ pc'[t] = "queued" /\ reserved'[t] \subseteq W
              /\ W \subseteq reserved'[t] \cup rejected'[t]
      /\ \A u \in Transforms \ {t} :
           /\ pc'[u] = pc[u] /\ wants'[u] = wants[u]
           /\ rejected'[u] = rejected[u] /\ reserved'[u] = reserved[u]
  <2>1. LP!TypeOK /\ LP!Evaluate(t, W, R)
    BY Shapes, SameTransformSteps
  <2> QED BY <2>1, LP!ReservedOrRejected, LocksHold
<1>2. window' = window /\ generation' = generation
  BY DEF windowVars
<1>3. ASSUME NEW u \in Transforms, u # t PROVE HoldsRequest(u)' /\ WindowFollows(u)'
  <2>1. HoldsRequest(u) /\ WindowFollows(u)
    BY DEF CInv
  <2> QED BY <1>1, <1>2, <1>3, <2>1, UntouchedKeeps
<1>4. HoldsRequest(t)' /\ WindowFollows(t)'
  <2>1. ~window'[t].open /\ pc'[t] \in {"capacity", "queued"}
    BY <1>1, <1>2 DEF CInv, HoldsRequest
  <2>2. HoldsRequest(t)'
    BY <1>1, <2>1 DEF HoldsRequest, WellFormed, IdsOf
  <2> QED BY <2>1, <2>2 DEF WindowFollows
<1> QED BY <1>3, <1>4

(* A hook is called.                                                       *)
LEMMA ArriveKeeps ==
  ASSUME CInv, NEW t \in Transforms, NEW q \in Requests, Arrive(t, q)
  PROVE  CInv' /\ [Locks!Next]_(Locks!vars)
<1>1. /\ UNCHANGED windowVars /\ Locks!Arrive(t, IdsOf(q))
      /\ request' = [request EXCEPT ![t] = Loaded(q)]
  BY DEF Arrive
<1>2. WellFormed(Loaded(q)) /\ IdsOf(Loaded(q)) = IdsOf(q) /\ IdsOf(q) \in SUBSET SessionIDs
  <2>1. q.ids \in Seq(SessionIDs) /\ WP!IsInjective(q.ids) /\ q.parts \in SUBSET Parts
    BY WindowsHold
  <2> QED BY <2>1, Shapes DEF WellFormed, Loaded, IdsOf
<1>3. pc[t] = "idle" /\ Locks!Evaluate(t, IdsOf(q), {})
  BY <1>1 DEF Locks!Arrive
<1>4. IdsOf(q) \in SUBSET SessionIDs /\ Locks!Next
  BY <1>1, <1>2 DEF Locks!Next
<1>5. LP!IInv' /\ WP!IInv'
  BY <1>1, <1>4, QueuesKeep, WindowsKeep DEF CInv
<1>6. /\ request' = [u \in Transforms |-> request'[u]] /\ request'[t] = Loaded(q)
      /\ \A u \in Transforms \ {t} : request'[u] = request[u]
  BY <1>1 DEF CInv
<1>7. \A u \in Transforms : HoldsRequest(u)' /\ WindowFollows(u)'
  <2>1. WellFormed(request'[t]) /\ IdsOf(q) = IdsOf(request'[t]) /\ pc[t] # "running"
    BY <1>2, <1>3, <1>6
  <2>2. {} \in SUBSET SessionIDs
    OBVIOUS
  <2> QED BY <1>1, <1>2, <1>3, <1>6, <2>1, <2>2, EvaluateKeeps
<1> QED BY <1>4, <1>5, <1>6, <1>7 DEF CInv

(* A call that waited for capacity looks again.                            *)
LEMMA RetryKeeps ==
  ASSUME CInv, NEW t \in Transforms, Retry(t)
  PROVE  CInv' /\ [Locks!Next]_(Locks!vars)
<1>1. UNCHANGED windowVars /\ Locks!Retry(t) /\ request' = request
  BY DEF Retry
<1>2. pc[t] = "capacity" /\ Locks!Evaluate(t, wants[t], rejected[t])
  BY <1>1 DEF Locks!Retry
<1>3. /\ WellFormed(request[t]) /\ wants[t] = IdsOf(request[t])
      /\ wants[t] \in SUBSET SessionIDs /\ rejected[t] \in SUBSET SessionIDs
  BY <1>2, Shapes DEF CInv, HoldsRequest
<1>4. Locks!Next
  BY <1>1 DEF Locks!Next, Locks!TransformStep
<1>5. LP!IInv' /\ WP!IInv'
  BY <1>1, <1>4, QueuesKeep, WindowsKeep DEF CInv
<1>6. request' = [u \in Transforms |-> request'[u]]
  BY <1>1 DEF CInv
<1>7. \A u \in Transforms : HoldsRequest(u)' /\ WindowFollows(u)'
  BY <1>1, <1>2, <1>3, <1>6, EvaluateKeeps
<1> QED BY <1>4, <1>5, <1>6, <1>7 DEF CInv

(* ... its end without a window ...                                        *)
LEMMA FailOpenKeeps ==
  ASSUME CInv, NEW t \in Transforms, FailOpen(t)
  PROVE  CInv' /\ [Locks!Next]_(Locks!vars)
<1>1. /\ Lifecycle!Send(Alone(t, request[t].parts), request[t].at, AllRaw)
      /\ UNCHANGED <<managerVars, window, hostVersion>>
      /\ Locks!RejectTransform(t) \/ Locks!RetryThrows(t)
      /\ request' = [request EXCEPT ![t] = NoRequest]
  BY DEF FailOpen
<1>2. Locks!Next
  BY <1>1 DEF Locks!Next, Locks!TransformStep
<1>3. WP!IInv'
  <2>1. /\ WP!Send(Alone(t, request[t].parts), request[t].at, AllRaw)
        /\ UNCHANGED <<WP!manager, window, hostVersion>>
    BY <1>1, SameManagerSteps DEF managerVars, WP!manager
  <2>2. AllRaw \in [Parts -> Forms \cup {Raw}]
    BY DEF AllRaw
  <2> QED BY <2>1, <2>2, WP!SendKeeps, WindowsHold DEF CInv
<1>4. LP!IInv'
  BY <1>2, QueuesKeep DEF CInv
<1>5. /\ pc[t] \in {"queued", "capacity"} /\ pc'[t] = "idle"
      /\ \A u \in Transforms \ {t} :
           /\ pc'[u] = pc[u] /\ wants'[u] = wants[u]
           /\ rejected'[u] = rejected[u] /\ reserved'[u] = reserved[u]
  <2>1. CASE Locks!RejectTransform(t)
    BY <2>1, Shapes DEF Locks!RejectTransform, Locks!Acquired, Locks!Release
  <2>2. CASE Locks!RetryThrows(t)
    BY <2>2, Shapes DEF Locks!RetryThrows
  <2> QED BY <1>1, <2>1, <2>2
<1>6. window' = window /\ generation' = generation
  BY <1>1 DEF managerVars
<1>7. /\ request' = [u \in Transforms |-> request'[u]]
      /\ \A u \in Transforms \ {t} : request'[u] = request[u]
  BY <1>1 DEF CInv
<1>8. ASSUME NEW u \in Transforms, u # t PROVE HoldsRequest(u)' /\ WindowFollows(u)'
  <2>1. HoldsRequest(u) /\ WindowFollows(u)
    BY DEF CInv
  <2> QED BY <1>5, <1>6, <1>7, <1>8, <2>1, UntouchedKeeps
<1>9. HoldsRequest(t)' /\ WindowFollows(t)'
  <2>1. ~window[t].open
    BY <1>5 DEF CInv, HoldsRequest
  <2> QED BY <1>5, <1>6, <2>1 DEF HoldsRequest, WindowFollows
<1> QED BY <1>2, <1>3, <1>4, <1>7, <1>8, <1>9 DEF CInv

(* A hook called while the manager closes.                                 *)
LEMMA FailOpenClosingKeeps ==
  ASSUME CInv, NEW q \in Requests, FailOpenClosing(q)
  PROVE  CInv' /\ [Locks!Next]_(Locks!vars)
<1>1. /\ Lifecycle!Send(Alone(None, q.parts), hostVersion, AllRaw)
      /\ UNCHANGED <<lockVars, managerVars, window, hostVersion, request>>
  BY DEF FailOpenClosing
<1>2. UNCHANGED Locks!vars
  BY <1>1 DEF Locks!vars, Locks!transformVars, Locks!cleanupVars, Locks!closeVars, lockVars,
              managerVars
<1>3. WP!IInv'
  <2>1. /\ WP!Send(Alone(None, q.parts), hostVersion, AllRaw)
        /\ UNCHANGED <<WP!manager, window, hostVersion>>
    BY <1>1, SameManagerSteps DEF managerVars, WP!manager
  <2>2. AllRaw \in [Parts -> Forms \cup {Raw}]
    BY DEF AllRaw
  <2> QED BY <2>1, <2>2, WP!SendKeeps, WindowsHold DEF CInv
<1>4. LP!IInv'
  BY <1>2, QueuesKeep DEF CInv
<1>5. /\ UNCHANGED <<pc, wants, rejected, reserved, request>>
      /\ window' = window /\ generation' = generation
  BY <1>1 DEF lockVars, managerVars
<1> QED BY <1>2, <1>3, <1>4, <1>5, AllUntouched DEF CInv

(* ... begin, in the window of run ...                                     *)
LEMMA EnterWindowKeeps ==
  ASSUME CInv, NEW t \in Transforms, EnterWindow(t)
  PROVE  CInv' /\ [Locks!Next]_(Locks!vars)
<1>1. /\ Locks!Acquired(t) /\ Locks!OpenWindow(t) /\ request' = request
      /\ WP!Begin(t, request[t], request[t].at)
  BY SameBegin DEF EnterWindow
<1>2. /\ pc[t] = "queued" /\ behind[t] = {} /\ rejected[t] = {}
      /\ pc' = [pc EXCEPT ![t] = "running"]
      /\ UNCHANGED <<wants, rejected, reserved, behind>>
  BY <1>1 DEF Locks!Acquired, Locks!OpenWindow
<1>3. WellFormed(request[t]) /\ reserved[t] = IdsOf(request[t])
  BY <1>2 DEF CInv, HoldsRequest
<1>4. /\ WP!IInv'
      /\ \A s \in WP!Tracked : WP!InUse(s) => generation'[s] = generation[s]
  BY <1>1, <1>3, WP!BeginKeeps, WindowsHold DEF CInv, WellFormed
<1>5. /\ WP!Tracked' \subseteq WP!Tracked
           \cup {request[t].ids[k] : k \in 1 .. Len(request[t].ids)}
      /\ WP!Cardinality(WP!Tracked) <= MaxSessions
           => WP!Cardinality(WP!Tracked') <= MaxSessions
      /\ window'[t].open
      /\ \A k \in 1 .. Len(request[t].ids) :
           window'[t].joined[request[t].ids[k]].generation = generation'[request[t].ids[k]]
      /\ \A v \in Transforms \ {t} : /\ window'[v].open = window[v].open
                                     /\ window'[v].joined = window[v].joined
  BY <1>1, <1>3, WP!BeginAdmits, WindowsHold DEF CInv, WellFormed
<1>6. IdsOf(request[t]) = {request[t].ids[k] : k \in 1 .. Len(request[t].ids)}
  BY <1>3 DEF IdsOf, WellFormed
<1>7. /\ WP!Tracked = {s \in SessionIDs : generation[s] # 0}
      /\ WP!Tracked' = {s \in SessionIDs : generation'[s] # 0}
  BY DEF WP!Tracked, WP!KeysOf
<1>8. ASSUME NEW u \in Transforms, pc[u] = "running", NEW s \in reserved[u]
      PROVE  generation'[s] = generation[s]
  <2>1. /\ window[u].joined[s].generation = generation[s]
        /\ s \in SessionIDs
    BY <1>8, Shapes DEF CInv, WindowFollows
  <2>2. CASE generation[s] # 0
    <3>1. s \in WP!Tracked /\ WP!InUse(s)
      BY <1>7, <2>1, <2>2 DEF WP!InUse
    <3> QED BY <1>4, <3>1
  <2>3. CASE generation[s] = 0
    <3>1. LP!IInv /\ t \in LP!Active /\ u \in LP!Active /\ t # u /\ behind[u] = {}
      BY <1>2, <1>8 DEF CInv, LP!IInv, LP!HoldersActive, LP!Active
    <3>2. s \notin reserved[t]
      BY <1>2, <3>1, LP!FirstOnesDisjoint, LocksHold
    <3>3. s \notin WP!Tracked /\ s \notin WP!Tracked'
      BY <1>3, <1>5, <1>6, <1>7, <2>3, <3>2
    <3> QED BY <1>7, <2>1, <2>3, <3>3
  <2> QED BY <2>2, <2>3
<1>9. Locks!EnterWindow(t)
  <2>1. Locks!Open \cap {s \in SessionIDs : generation[s] # 0}
          \subseteq {s \in SessionIDs : generation'[s] # 0}
    BY <1>8 DEF Locks!Open
  <2>2. Locks!Cardinality({s \in SessionIDs : generation'[s] # 0}) <= MaxSessions
    <3>1. LP!Cardinality(WP!Tracked) <= MaxSessions
      BY <1>7 DEF CInv, LP!IInv, LP!TrackedBounded
    <3>2. LP!Cardinality(WP!Tracked) = WP!Cardinality(WP!Tracked)
      BY DEF LP!Cardinality, WP!Cardinality
    <3>3. Locks!Cardinality(WP!Tracked') = WP!Cardinality(WP!Tracked')
      BY DEF Locks!Cardinality, WP!Cardinality
    <3> QED BY <1>5, <1>7, <3>1, <3>2, <3>3
  <2>3. {s \in SessionIDs : generation'[s] # 0}
          \in SUBSET ({s \in SessionIDs : generation[s] # 0} \cup reserved[t])
    BY <1>3, <1>5, <1>6, <1>7
  <2> QED BY <1>1, <2>1, <2>2, <2>3 DEF Locks!EnterWindow, Locks!BeginTracks
<1>10. Locks!Next
  BY <1>9 DEF Locks!Next, Locks!TransformStep
<1>11. LP!IInv'
  BY <1>10, QueuesKeep DEF CInv
<1>12. request' = [u \in Transforms |-> request'[u]]
  BY <1>1 DEF CInv
<1>13. ASSUME NEW u \in Transforms, u # t PROVE HoldsRequest(u)' /\ WindowFollows(u)'
  <2>1. HoldsRequest(u) /\ WindowFollows(u)
    BY DEF CInv
  <2>2. pc'[u] = pc[u]
    BY <1>2, <1>13, Shapes
  <2> QED BY <1>1, <1>2, <1>5, <1>8, <1>13, <2>1, <2>2, UntouchedKeeps
<1>14. HoldsRequest(t)' /\ WindowFollows(t)'
  <2>1. pc'[t] = "running"
    BY <1>2, Shapes
  <2>2. HoldsRequest(t)'
    BY <1>1, <1>2, <1>3, <1>5, <2>1 DEF HoldsRequest, WellFormed, IdsOf
  <2>3. WindowFollows(t)'
    BY <1>2, <1>3, <1>5, <1>6, <2>1 DEF WindowFollows
  <2> QED BY <2>2, <2>3
<1> QED BY <1>4, <1>10, <1>11, <1>12, <1>13, <1>14 DEF CInv

(* ... what a pass does to a part in it ...                                *)
LEMMA TransformKeeps ==
  ASSUME CInv, NEW t \in Transforms, NEW p \in Parts, Transform(t, p)
  PROVE  CInv' /\ [Locks!Next]_(Locks!vars)
<1>1. UNCHANGED <<lockVars, request>>
  BY DEF Transform
<1>2. /\ WP!IInv' /\ UNCHANGED <<mapOrder, generation>>
      /\ \E W : /\ W.open = window[t].open /\ W.joined = window[t].joined
                /\ window' = [window EXCEPT ![t] = W]
  <2>0. WP!IInv /\ window[t] \in WP!Window
    BY Shapes DEF CInv
  <2>1. CASE WP!Check(t, p)
    <3>1. WP!IInv'
      BY <2>0, <2>1, WP!CheckKeeps, WindowsHold
    <3> QED BY <2>0, <2>1, <3>1 DEF WP!Check, WP!manager, WP!Window
  <2>2. ASSUME NEW f \in Forms \cup {Raw}, WP!Write(t, p, f)
        PROVE  /\ WP!IInv' /\ UNCHANGED <<mapOrder, generation>>
               /\ \E W : /\ W.open = window[t].open /\ W.joined = window[t].joined
                         /\ window' = [window EXCEPT ![t] = W]
    <3>1. WP!IInv'
      BY <2>0, <2>2, WP!WriteKeeps, WindowsHold
    <3> QED BY <2>0, <2>2, <3>1 DEF WP!Write, WP!manager, WP!Window
  <2>3. CASE WP!Invalidate(t, p)
    <3>1. WP!IInv'
      BY <2>0, <2>3, WP!InvalidateKeeps, WindowsHold
    <3> QED BY <2>0, <2>3, <3>1 DEF WP!Invalidate, WP!Window
  <2> QED BY <2>1, <2>2, <2>3, SameWindowSteps DEF Transform
<1>3. UNCHANGED Locks!vars
  BY <1>1, <1>2 DEF Locks!vars, Locks!transformVars, Locks!cleanupVars, Locks!closeVars,
                     lockVars
<1>4. LP!IInv'
  BY <1>3, QueuesKeep DEF CInv
<1>5. UNCHANGED <<pc, wants, rejected, reserved, request>>
  BY <1>1 DEF lockVars
<1>6. \A u \in Transforms : /\ window'[u].open = window[u].open
                            /\ window'[u].joined = window[u].joined
  BY <1>2, Shapes
<1> QED BY <1>2, <1>3, <1>4, <1>5, <1>6, AllUntouched DEF CInv

(* ... commit or abort ...                                                 *)
LEMMA LeaveWindowKeeps ==
  ASSUME CInv, NEW t \in Transforms, LeaveWindow(t)
  PROVE  CInv' /\ [Locks!Next]_(Locks!vars)
<1>1. /\ pc[t] = "running" /\ Locks!LeaveWindow(t)
      /\ WP!Commit(t) \/ WP!Abort(t)
      /\ request' = [request EXCEPT ![t] = NoRequest]
  BY SameWindowSteps DEF LeaveWindow
<1>2. WP!IInv' /\ generation' = generation
  BY <1>1, WP!CommitKeeps, WP!AbortKeeps, WindowsHold DEF CInv
<1>3. window' = [window EXCEPT ![t] = WP!Closed]
  BY <1>1 DEF WP!Commit, WP!Abort, WP!Close
<1>4. Locks!Next
  BY <1>1 DEF Locks!Next, Locks!TransformStep
<1>5. LP!IInv'
  BY <1>4, QueuesKeep DEF CInv
<1>6. /\ pc'[t] = "idle"
      /\ \A u \in Transforms \ {t} :
           /\ pc'[u] = pc[u] /\ wants'[u] = wants[u]
           /\ rejected'[u] = rejected[u] /\ reserved'[u] = reserved[u]
  BY <1>1, Shapes DEF Locks!LeaveWindow, Locks!Release
<1>7. /\ request' = [u \in Transforms |-> request'[u]]
      /\ \A u \in Transforms \ {t} : request'[u] = request[u]
  BY <1>1 DEF CInv
<1>8. ~window'[t].open /\ \A u \in Transforms \ {t} : window'[u] = window[u]
  BY <1>3, Shapes DEF WP!Closed
<1>9. ASSUME NEW u \in Transforms, u # t PROVE HoldsRequest(u)' /\ WindowFollows(u)'
  <2>1. HoldsRequest(u) /\ WindowFollows(u)
    BY DEF CInv
  <2> QED BY <1>2, <1>6, <1>7, <1>8, <1>9, <2>1, UntouchedKeeps
<1>10. HoldsRequest(t)' /\ WindowFollows(t)'
  BY <1>6, <1>8 DEF HoldsRequest, WindowFollows
<1> QED BY <1>2, <1>4, <1>5, <1>7, <1>9, <1>10 DEF CInv
-----------------------------------------------------------------------------
(* Deletions.  Their steps through the queue touch no window ...           *)
LEMMA CleanupQueueKeeps ==
  ASSUME CInv, Locks!Next,
         UNCHANGED <<windowVars, request, pc, wants, rejected, reserved>>
  PROVE  CInv' /\ [Locks!Next]_(Locks!vars)
<1>1. LP!IInv' /\ WP!IInv'
  BY QueuesKeep, WindowsKeep DEF CInv
<1>2. window' = window /\ generation' = generation
  BY DEF windowVars
<1> QED BY <1>1, <1>2, AllUntouched DEF CInv

(* The steps of a deletion before and after it deletes.                    *)
LEMMA RequestCleanupKeeps ==
  ASSUME CInv, NEW c \in Cleanups, NEW s \in SessionIDs, RequestCleanup(c, s)
  PROVE  CInv' /\ [Locks!Next]_(Locks!vars)
<1>1. Locks!Next
  BY DEF RequestCleanup, Locks!Next
<1>2. UNCHANGED <<windowVars, request, pc, wants, rejected, reserved>>
  BY DEF RequestCleanup, Locks!RequestCleanup, Locks!transformVars
<1> QED BY <1>1, <1>2, CleanupQueueKeeps

(* A deletion moves through the queue.                                     *)
LEMMA CleanupStepKeeps ==
  ASSUME CInv, NEW c \in Cleanups, CleanupStep(c)
  PROVE  CInv' /\ [Locks!Next]_(Locks!vars)
<1>1. Locks!Next
  BY DEF CleanupStep, Locks!Next, Locks!CleanupStep
<1>2. UNCHANGED <<windowVars, request, pc, wants, rejected, reserved>>
  BY DEF CleanupStep, Locks!EnterExclusive, Locks!StartDeletion, Locks!LeaveExclusive,
         Locks!transformVars
<1> QED BY <1>1, <1>2, CleanupQueueKeeps

(* ... and no window is open on the session when it goes.                  *)
LEMMA DeleteSessionKeeps ==
  ASSUME CInv, NEW c \in Cleanups, DeleteSession(c)
  PROVE  CInv' /\ [Locks!Next]_(Locks!vars)
<1>1. /\ cleanupPc[c] = "deleting" /\ WP!DeleteSession(target[c])
      /\ Locks!DeleteSession(c) /\ UNCHANGED request
  BY SameManagerSteps DEF DeleteSession
<1>2. target[c] \in SessionIDs
  BY <1>1, Shapes DEF CInv, LP!IInv, LP!CleanupTargets, LP!ActiveCleanups
<1>3. WP!IInv'
  BY <1>1, <1>2, WP!DeleteSessionKeeps, WindowsHold DEF CInv
<1>4. Locks!Next
  BY <1>1 DEF Locks!Next, Locks!CleanupStep
<1>5. LP!IInv'
  BY <1>4, QueuesKeep DEF CInv
<1>6. UNCHANGED <<pc, wants, rejected, reserved, request>>
  BY <1>1 DEF Locks!DeleteSession, Locks!transformVars
<1>7. window' = window /\ generation' = [generation EXCEPT ![target[c]] = 0]
  BY <1>1 DEF WP!DeleteSession
<1>8. ASSUME NEW u \in Transforms, NEW s \in reserved[u]
      PROVE  generation'[s] = generation[s]
  <2>1. target[c] \notin reserved[u]
    BY <1>1, LP!DeletingAlone, LocksHold DEF CInv
  <2>2. s \in SessionIDs
    BY Shapes
  <2> QED BY <1>7, <2>1, <2>2, Shapes
<1> QED BY <1>3, <1>4, <1>5, <1>6, <1>7, <1>8, AllUntouched DEF CInv
-----------------------------------------------------------------------------
(* dispose: the drain, and the end of all sessions once nobody holds one.  *)
LEMMA CloseAndDrainKeeps ==
  ASSUME CInv, CloseAndDrain
  PROVE  CInv' /\ [Locks!Next]_(Locks!vars)
<1>1. Locks!Next
  BY DEF CloseAndDrain, Locks!Next
<1>2. LP!IInv' /\ WP!IInv'
  BY <1>1, QueuesKeep, WindowsKeep DEF CInv, CloseAndDrain
<1>3. /\ UNCHANGED <<pc, wants, rejected, reserved, request>>
      /\ window' = window /\ generation' = generation
  BY DEF CloseAndDrain, Locks!CloseAndDrain, Locks!transformVars, windowVars
<1> QED BY <1>1, <1>2, <1>3, AllUntouched DEF CInv

(* dispose's clear.                                                        *)
LEMMA DisposeKeeps ==
  ASSUME CInv, Dispose
  PROVE  CInv' /\ [Locks!Next]_(Locks!vars)
<1>1. WP!Clear /\ Locks!Dispose /\ UNCHANGED request
  BY SameManagerSteps DEF Dispose
<1>2. Locks!Next
  BY <1>1 DEF Locks!Next
<1>3. LP!IInv' /\ WP!IInv'
  BY <1>1, <1>2, QueuesKeep, WP!ClearKeeps, WindowsHold DEF CInv
<1>4. /\ UNCHANGED <<pc, wants, rejected, reserved, request>>
      /\ window' = window
  BY <1>1 DEF Locks!Dispose, Locks!transformVars, WP!Clear
<1>5. \A u \in Transforms : reserved[u] = {}
  <2>1. closing /\ drain = {}
    BY <1>1 DEF Locks!Dispose
  <2> QED BY <2>1, LP!DrainedHoldNothing, LocksHold DEF CInv
<1> QED BY <1>2, <1>3, <1>4, <1>5, AllUntouched DEF CInv

(* The host's edit of a part.                                              *)
LEMMA HostEditKeeps ==
  ASSUME CInv, NEW p \in Parts, HostEdit(p)
  PROVE  CInv' /\ [Locks!Next]_(Locks!vars)
<1>1. WP!HostEdit(p) /\ UNCHANGED <<lockVars, request>>
  BY SameManagerSteps DEF HostEdit
<1>2. WP!IInv'
  BY <1>1, WP!HostEditKeeps, WindowsHold DEF CInv
<1>3. window' = window /\ generation' = generation
  BY <1>1 DEF WP!HostEdit, WP!manager
<1>4. UNCHANGED Locks!vars
  BY <1>1, <1>3 DEF Locks!vars, Locks!transformVars, Locks!cleanupVars, Locks!closeVars,
                     lockVars
<1>5. LP!IInv'
  BY <1>4, QueuesKeep DEF CInv
<1>6. UNCHANGED <<pc, wants, rejected, reserved, request>>
  BY <1>1 DEF lockVars
<1> QED BY <1>2, <1>3, <1>4, <1>5, <1>6, AllUntouched DEF CInv
-----------------------------------------------------------------------------
(* The initial states, which are initial states of the queues too.         *)
LEMMA InitCInv == Init => CInv /\ Locks!Init
<1> SUFFICES ASSUME Init PROVE CInv /\ Locks!Init
  OBVIOUS
<1>1. LP!IInv /\ WP!IInv
  BY SameLocks, SameManagerSteps, LP!InitIInv, WP!InitIsConsistent, LocksHold, WindowsHold
     DEF Init
<1>2. request = [t \in Transforms |-> request[t]]
  BY DEF Init
<1>3. /\ pc = [t \in Transforms |-> "idle"] /\ window = [t \in Transforms |-> Lifecycle!Closed]
  BY DEF Init, Locks!Init, Lifecycle!Init
<1>4. \A t \in Transforms : HoldsRequest(t) /\ WindowFollows(t)
  BY <1>3 DEF HoldsRequest, WindowFollows, Lifecycle!Closed
<1> QED BY <1>1, <1>2, <1>4 DEF CInv, Init

(* Every step keeps CInv and is a step of the queues, or none of theirs.   *)
LEMMA NextCInv ==
  ASSUME CInv, [Next]_vars
  PROVE  CInv' /\ [Locks!Next]_(Locks!vars)
<1>1. ASSUME NEW t \in Transforms, NEW q \in Requests, Arrive(t, q)
      PROVE  CInv' /\ [Locks!Next]_(Locks!vars)
  BY <1>1, ArriveKeeps
<1>2. ASSUME NEW t \in Transforms,
             Retry(t) \/ FailOpen(t) \/ EnterWindow(t) \/ LeaveWindow(t)
      PROVE  CInv' /\ [Locks!Next]_(Locks!vars)
  BY <1>2, RetryKeeps, FailOpenKeeps, EnterWindowKeeps, LeaveWindowKeeps
<1>3. ASSUME NEW t \in Transforms, NEW p \in Parts, Transform(t, p)
      PROVE  CInv' /\ [Locks!Next]_(Locks!vars)
  BY <1>3, TransformKeeps
<1>4. ASSUME NEW q \in Requests, FailOpenClosing(q)
      PROVE  CInv' /\ [Locks!Next]_(Locks!vars)
  BY <1>4, FailOpenClosingKeeps
<1>5. ASSUME NEW c \in Cleanups, NEW s \in SessionIDs, RequestCleanup(c, s)
      PROVE  CInv' /\ [Locks!Next]_(Locks!vars)
  BY <1>5, RequestCleanupKeeps
<1>6. ASSUME NEW c \in Cleanups, CleanupStep(c) \/ DeleteSession(c)
      PROVE  CInv' /\ [Locks!Next]_(Locks!vars)
  BY <1>6, CleanupStepKeeps, DeleteSessionKeeps
<1>7. CASE CloseAndDrain \/ Dispose
  BY <1>7, CloseAndDrainKeeps, DisposeKeeps
<1>8. ASSUME NEW p \in Parts, HostEdit(p)
      PROVE  CInv' /\ [Locks!Next]_(Locks!vars)
  BY <1>8, HostEditKeeps
<1>9. CASE UNCHANGED vars
  <2>1. UNCHANGED windowVars /\ UNCHANGED lockVars /\ request' = request
    BY <1>9 DEF vars
  <2>2. window' = window /\ generation' = generation
    BY <2>1 DEF windowVars
  <2>3. UNCHANGED Locks!vars
    BY <2>1, <2>2 DEF Locks!vars, Locks!transformVars, Locks!cleanupVars, Locks!closeVars,
                      lockVars
  <2>4. LP!IInv' /\ WP!IInv'
    BY <2>1, <2>3, QueuesKeep, WindowsKeep DEF CInv
  <2>5. UNCHANGED <<pc, wants, rejected, reserved, request>>
    BY <2>1 DEF lockVars
  <2> QED BY <2>2, <2>3, <2>4, <2>5, AllUntouched DEF CInv
<1> QED BY <1>1, <1>2, <1>3, <1>4, <1>5, <1>6, <1>7, <1>8, <1>9 DEF Next

(* In every reachable state of the plugin's manager a window is open       *)
(* exactly while its call is running, and refers to the object every       *)
(* session it reserved has: neither an eviction nor a deletion nor another *)
(* call's begin ever replaces it there.                                    *)
THEOREM Inductive == Spec => []CInv
<1>1. Init => CInv
  BY InitCInv
<1>2. CInv /\ [Next]_vars => CInv'
  BY NextCInv
<1> QED BY <1>1, <1>2, PTL DEF Spec

(* The plugin's manager uses its queues as TransformLocks describes them:  *)
(* begin tracks only sessions the call has reserved, never more than       *)
(* maxSessions in all, and evicts none in whose window another call is.    *)
(* So all that is proved of the queues holds here.                         *)
THEOREM QueuesImplemented == Spec => ImplementsLocks
<1>1. Init => Locks!Init
  BY InitCInv
<1>2. CInv /\ [Next]_vars => [Locks!Next]_(Locks!vars)
  BY NextCInv
<1> QED BY <1>1, <1>2, Inductive, PTL DEF Spec, ImplementsLocks, Locks!Spec
-----------------------------------------------------------------------------
(* What the model is shown.  A request of several sessions that finds room *)
(* for only some of them is sent as it was loaded, the parts of the        *)
(* sessions that are tracked included, and their records are left as they  *)
(* are; so what follows is about requests of one session.                  *)
OneSession == \A q \in Requests : Len(q.ids) <= 1

Own(p) == generation[SessionOf[p]]
Rec(p) == state[Own(p)].parts[p]
Recorded(p) == Rec(p) # WP!Unknown
Saturated(p) == state[Own(p)].saturated
Sent(p) == lastSent[p] # WP!NotSent

(* The first form shown and the last one agree.                            *)
GhostsAgree ==
  \A p \in Parts : /\ firstSent[p] = WP!NotSent <=> ~Sent(p)
                   /\ lastSent[p] \in {WP!NotSent, Raw, firstSent[p]}

(* Requests in flight carry all that their session has shown, and carry    *)
(* the same parts of a session that they share.                            *)
SharedHistory ==
  \A t, u \in Transforms : \A p \in Parts :
    SessionOf[p] \in IdsOf(request[t]) \cap IdsOf(request[u])
      => (p \in request[t].parts <=> p \in request[u].parts)
Carries(t) ==
  /\ pc[t] = "idle" => request[t] = NoRequest
  /\ \A s, i \in IdsOf(request[t]) : s = i
  /\ \A p \in request[t].parts : SessionOf[p] \in IdsOf(request[t])
  /\ pc[t] # "idle" =>
       \A p \in Parts : /\ request[t].at[p] <= hostVersion[p]
                        /\ SessionOf[p] \in IdsOf(request[t]) /\ Sent(p)
                             => p \in request[t].parts
  /\ pc[t] \in {"capacity", "running"} => rejected[t] = {}
  /\ pc[t] = "queued" => rejected[t] = {} \/ reserved[t] = {}

(* No call will record anything of the session before it is gone.          *)
LeftAlone(s) ==
  /\ s \in exclusiveSessions \/ closing
  /\ \A t \in Transforms : s \notin reserved[t]
Held(s) == \E t \in Transforms : pc[t] = "running" /\ s \in reserved[t]

(* The record of a part knows what the model has seen of it.               *)
RecordFollows(p) ==
  Own(p) # 0 =>
    /\ Rec(p).version <= hostVersion[p]
    /\ Sent(p) => Recorded(p) \/ Saturated(p) \/ LeftAlone(SessionOf[p])
    /\ Rec(p).form \in Forms /\ Rec(p).version = hostVersion[p] => Rec(p).form = firstSent[p]
    /\ Recorded(p) /\ Rec(p).version = hostVersion[p] /\ Sent(p)
         /\ SessionOf[p] \notin exclusiveSessions /\ ~closing /\ ~Held(SessionOf[p])
         => Rec(p).form = lastSent[p]

(* A window changes only what the model has not seen yet, and shows what   *)
(* it may not change as the record has it.                                 *)
ShowsPart(t, p) ==
  /\ window[t].version[p] <= hostVersion[p]
  /\ p \in window[t].live /\ window[t].version[p] = hostVersion[p] => ~Sent(p)
  /\ Own(p) = 0 => p \notin window[t].live /\ window[t].form[p] = Raw
  /\ Own(p) # 0 =>
       \/ /\ Recorded(p) /\ Rec(p).version = window[t].version[p]
          /\ p \notin window[t].live => Rec(p).form = window[t].form[p]
       \/ /\ ~Recorded(p) /\ Saturated(p)
          /\ p \notin window[t].live /\ window[t].form[p] = Raw
WindowShows(t) ==
  pc[t] = "running" =>
    /\ window[t].contents = request[t].parts
    /\ \A p \in request[t].parts : ShowsPart(t, p)

(* A call refused for lack of room will show its parts raw: meanwhile      *)
(* nobody records them, or may record them, in another form.               *)
RefusedShows(t) ==
  pc[t] = "queued" =>
    \A p \in request[t].parts :
      SessionOf[p] \in rejected[t] \ exclusiveSessions /\ Own(p) # 0 =>
        /\ Rec(p).form = Raw \/ (~Recorded(p) /\ Saturated(p))
        /\ \A u \in Transforms : pc[u] = "running" => p \notin window[u].live

DeletedIsGone == \A c \in Cleanups : cleanupPc[c] = "deleted" => generation[target[c]] = 0
HInv ==
  /\ GhostsAgree /\ SharedHistory /\ DeletedIsGone
  /\ \A t \in Transforms : Carries(t) /\ WindowShows(t) /\ RefusedShows(t)
  /\ \A p \in Parts : RecordFollows(p)

(* The record of a part.                                                   *)
LEMMA RecordShape ==
  ASSUME CInv, NEW p \in Parts
  PROVE  /\ SessionOf[p] \in SessionIDs /\ hostVersion[p] \in Nat
         /\ firstSent[p] \in Forms \cup {Raw, WP!NotSent}
         /\ lastSent[p] \in Forms \cup {Raw, WP!NotSent}
         /\ WP!NotSent \notin Forms \cup {Raw} /\ Raw \notin Forms
         /\ Own(p) # 0 =>
              /\ SessionOf[p] \in WP!Tracked
              /\ Own(p) \in WP!Generations
              /\ state[Own(p)] \in WP!SessionState
              /\ Rec(p).version \in Nat
              /\ Rec(p).form \in Forms \cup {Raw, "unknown"}
              /\ ~Recorded(p) => Rec(p) = WP!Unknown
              /\ Recorded(p) <=> Rec(p).form \in Forms \cup {Raw}
<1>1. /\ SessionOf[p] \in SessionIDs
      /\ Raw \notin Forms /\ "unknown" \notin Forms \cup {Raw} /\ "not sent" \notin Forms \cup {Raw}
  BY WindowsHold
<1>2. /\ hostVersion \in [Parts -> Nat] /\ generation \in [SessionIDs -> WP!Generations \cup {0}]
      /\ state \in [WP!Generations -> WP!SessionState]
      /\ firstSent \in [Parts -> Forms \cup {Raw, WP!NotSent}]
      /\ lastSent \in [Parts -> Forms \cup {Raw, WP!NotSent}]
  BY DEF CInv, WP!IInv, WP!TypeOK
<1>3. ASSUME Own(p) # 0
      PROVE  /\ SessionOf[p] \in WP!Tracked
             /\ Own(p) \in WP!Generations
             /\ state[Own(p)] \in WP!SessionState
             /\ Rec(p) \in WP!Record \cup {WP!Unknown}
  <2>1. Own(p) \in WP!Generations /\ SessionOf[p] \in WP!Tracked
    BY <1>1, <1>2, <1>3 DEF Own, WP!Tracked, WP!KeysOf
  <2>2. state[Own(p)] \in WP!SessionState
    BY <1>2, <2>1
  <2>3. state[Own(p)].parts \in [Parts -> WP!Record \cup {WP!Unknown}]
    BY <2>2 DEF WP!SessionState
  <2> QED BY <2>1, <2>2, <2>3 DEF Rec
<1>4. ASSUME NEW r \in WP!Record \cup {WP!Unknown}
      PROVE  /\ r.version \in Nat
             /\ r.form \in Forms \cup {Raw, "unknown"}
             /\ r # WP!Unknown <=> r.form \in Forms \cup {Raw}
  <2>1. WP!Unknown.version = 0 /\ WP!Unknown.form = "unknown"
    BY DEF WP!Unknown
  <2>2. CASE r \in WP!Record
    <3>1. r.version \in Nat /\ r.form \in Forms \cup {Raw}
      BY <2>2 DEF WP!Record
    <3>2. r # WP!Unknown
      BY <1>1, <2>1, <3>1
    <3> QED BY <3>1, <3>2
  <2>3. CASE r = WP!Unknown
    <3>1. r.version = 0 /\ r.form = "unknown"
      BY <2>1, <2>3, Zenon
    <3>2. r.form \notin Forms \cup {Raw} /\ r.form \in Forms \cup {Raw, "unknown"}
      BY <1>1, <3>1, Zenon
    <3>3. r.version \in Nat
      BY <3>1
    <3> QED BY <2>3, <3>2, <3>3, Zenon
  <2> QED BY <1>4, <2>2, <2>3
<1>5. Own(p) # 0 =>
        /\ Rec(p).version \in Nat
        /\ Rec(p).form \in Forms \cup {Raw, "unknown"}
        /\ ~Recorded(p) => Rec(p) = WP!Unknown
        /\ Recorded(p) <=> Rec(p).form \in Forms \cup {Raw}
  BY <1>3, <1>4 DEF Recorded
<1> QED BY <1>1, <1>2, <1>3, <1>5 DEF WP!NotSent

(* What a step that does not touch a part's record leaves of it.           *)
SameRecord(p) ==
  /\ Own(p)' = Own(p)
  /\ Own(p) # 0 => Rec(p)' = Rec(p) /\ Saturated(p)' = Saturated(p)
SameGhosts(p) ==
  /\ hostVersion'[p] = hostVersion[p]
  /\ firstSent'[p] = firstSent[p] /\ lastSent'[p] = lastSent[p]

(* A part whose record, versions and shown forms stay, or whose session    *)
(* goes away.                                                              *)
LEMMA RecordStays ==
  ASSUME NEW p \in Parts, RecordFollows(p), SameGhosts(p),
         Own(p)' = 0 \/ SameRecord(p),
         Own(p) # 0 => /\ LeftAlone(SessionOf[p]) => LeftAlone(SessionOf[p])'
                       /\ SessionOf[p] \in exclusiveSessions
                            => SessionOf[p] \in exclusiveSessions'
                       /\ closing => closing'
                       /\ Held(SessionOf[p]) => Held(SessionOf[p])'
  PROVE  RecordFollows(p)'
<1>1. CASE Own(p)' = 0
  BY <1>1 DEF RecordFollows
<1>2. CASE Own(p)' # 0
  <2>1. /\ Own(p) # 0 /\ Rec(p)' = Rec(p) /\ Saturated(p)' = Saturated(p)
        /\ Recorded(p)' = Recorded(p) /\ Sent(p)' = Sent(p)
    BY <1>2 DEF SameRecord, Recorded, Sent, SameGhosts
  <2> QED BY <2>1 DEF RecordFollows, SameGhosts
<1> QED BY <1>1, <1>2

(* A window keeps showing a part as its record says while neither is       *)
(* touched.                                                                *)
LEMMA ShowsPartStays ==
  ASSUME NEW t \in Transforms, NEW p \in Parts, ShowsPart(t, p), SameRecord(p),
         window'[t].live = window[t].live, window'[t].version[p] = window[t].version[p],
         p \notin window[t].live => window'[t].form[p] = window[t].form[p],
         hostVersion'[p] \in Nat, hostVersion[p] \in Nat, window[t].version[p] \in Nat,
         hostVersion[p] <= hostVersion'[p],
         Sent(p)' => Sent(p) /\ hostVersion'[p] = hostVersion[p]
  PROVE  ShowsPart(t, p)'
<1>1. Own(p)' = Own(p) /\ (Own(p) # 0 => Rec(p)' = Rec(p) /\ Saturated(p)' = Saturated(p)
                                          /\ Recorded(p)' = Recorded(p))
  BY DEF SameRecord, Recorded
<1>2. window'[t].version[p] <= hostVersion'[p]
  BY DEF ShowsPart
<1>3. p \in window'[t].live /\ window'[t].version[p] = hostVersion'[p] => ~Sent(p)'
  BY DEF ShowsPart
<1>4. Own(p)' = 0 => p \notin window'[t].live /\ window'[t].form[p] = Raw
  BY <1>1 DEF ShowsPart
<1>5. Own(p)' # 0 =>
       \/ /\ Recorded(p)' /\ Rec(p)'.version = window'[t].version[p]
          /\ p \notin window'[t].live => Rec(p)'.form = window'[t].form[p]
       \/ /\ ~Recorded(p)' /\ Saturated(p)'
          /\ p \notin window'[t].live /\ window'[t].form[p] = Raw
  BY <1>1 DEF ShowsPart
<1> QED BY <1>2, <1>3, <1>4, <1>5 DEF ShowsPart

(* A running call holds the session of each of its parts, and its window   *)
(* has joined the object of that session.                                  *)
LEMMA RunningHolds ==
  ASSUME CInv, HInv, NEW t \in Transforms, pc[t] = "running"
  PROVE  /\ window[t] \in WP!Window
         /\ window[t].contents = request[t].parts
         /\ request[t].parts \subseteq Parts
         /\ window[t].live \subseteq request[t].parts
         /\ window[t].replayed \subseteq request[t].parts \ window[t].live
         /\ window[t].checked \subseteq window[t].live
         /\ \A s \in IdsOf(request[t]) : s \in reserved[t]
         /\ \A p \in request[t].parts :
              /\ SessionOf[p] \in reserved[t]
              /\ WP!Joined(t, p).generation = Own(p)
              /\ window[t].version[p] \in Nat
<1>1. /\ WellFormed(request[t]) /\ IdsOf(request[t]) \subseteq reserved[t] \cup rejected[t]
      /\ WindowFollows(t)
  BY DEF CInv, HoldsRequest
<1>2. Carries(t) /\ WindowShows(t)
  BY DEF HInv
<1>3. /\ window[t] \in WP!Window
      /\ window[t].live \cap window[t].replayed = {}
      /\ window[t].live \cup window[t].replayed \subseteq window[t].contents
      /\ window[t].checked \subseteq window[t].live
  BY DEF CInv, WP!IInv, WP!TypeOK
<1>4. window[t].version \in [Parts -> Nat]
  BY <1>3 DEF WP!Window
<1>5. request[t].parts \subseteq Parts /\ window[t].contents = request[t].parts
  BY <1>1, <1>2 DEF WindowShows, WellFormed
<1>6. \A s \in IdsOf(request[t]) : s \in reserved[t]
  BY <1>1, <1>2 DEF Carries
<1>7. ASSUME NEW p \in request[t].parts
      PROVE  /\ SessionOf[p] \in reserved[t]
             /\ WP!Joined(t, p).generation = Own(p)
             /\ window[t].version[p] \in Nat
  <2>1. SessionOf[p] \in reserved[t]
    BY <1>2, <1>6 DEF Carries
  <2> QED BY <1>1, <1>4, <1>5, <2>1 DEF WindowFollows, WP!Joined, Own
<1> QED BY <1>3, <1>5, <1>6, <1>7

(* No other running call carries its parts.                                *)
LEMMA RunningApart ==
  ASSUME CInv, HInv, NEW t \in Transforms, NEW u \in Transforms, t # u,
         pc[t] = "running", pc[u] = "running"
  PROVE  /\ reserved[t] \cap reserved[u] = {}
         /\ \A p \in request[t].parts : SessionOf[p] \notin reserved[u] /\ p \notin request[u].parts
<1>1. LP!IInv /\ t \in LP!Active /\ u \in LP!Active /\ behind[t] = {} /\ behind[u] = {}
  BY DEF CInv, LP!IInv, LP!HoldersActive, LP!Active
<1>2. reserved[t] \cap reserved[u] = {}
  BY <1>1, LP!FirstOnesDisjoint, LocksHold
<1> QED BY <1>2, RunningHolds

(* A reservation is for sessions of the request.                           *)
LEMMA HoldersCarry ==
  ASSUME CInv, HInv, NEW u \in Transforms, NEW s \in reserved[u]
  PROVE  s \in IdsOf(request[u]) /\ pc[u] \in {"queued", "running"} /\ s \in SessionIDs
<1>1. pc[u] \in {"queued", "running"}
  BY DEF CInv, LP!IInv, LP!HoldersActive, LP!Active
<1> QED BY <1>1, Shapes DEF CInv, HoldsRequest

(* A call keeps its request while nothing of its sessions is shown         *)
(* elsewhere.                                                              *)
LEMMA CarriesStays ==
  ASSUME CInv, NEW t \in Transforms, Carries(t),
         pc'[t] = pc[t], request'[t] = request[t], rejected'[t] = rejected[t],
         reserved'[t] = reserved[t],
         \A p \in Parts : /\ hostVersion'[p] \in Nat /\ hostVersion[p] <= hostVersion'[p]
                          /\ SessionOf[p] \in IdsOf(request[t]) /\ Sent(p)'
                               => Sent(p) \/ p \in request[t].parts
  PROVE  Carries(t)'
<1>1. hostVersion \in [Parts -> Nat] /\ (pc[t] # "idle" => request[t].at \in [Parts -> Nat])
  BY Shapes DEF CInv, HoldsRequest, WellFormed
<1>2. IdsOf(request[t])' = IdsOf(request[t])
  BY DEF IdsOf
<1>3. pc'[t] # "idle" => \A p \in Parts : request'[t].at[p] <= hostVersion'[p]
  <2> SUFFICES ASSUME pc[t] # "idle", NEW p \in Parts PROVE request[t].at[p] <= hostVersion'[p]
    OBVIOUS
  <2>1. request[t].at[p] <= hostVersion[p] /\ request[t].at[p] \in Nat /\ hostVersion[p] \in Nat
    BY <1>1 DEF Carries
  <2> QED BY <2>1
<1> QED BY <1>2, <1>3 DEF Carries

(* A window that a step does not touch, its records included, keeps its    *)
(* output true to them.                                                    *)
LEMMA WindowStays ==
  ASSUME CInv, HInv, NEW t \in Transforms,
         pc'[t] = pc[t], request'[t] = request[t],
         window'[t].contents = window[t].contents, window'[t].live = window[t].live,
         window'[t].version = window[t].version,
         \A p \in Parts : /\ hostVersion'[p] \in Nat /\ hostVersion[p] <= hostVersion'[p],
         pc[t] = "running" =>
           \A p \in request[t].parts :
             /\ SameRecord(p)
             /\ p \notin window[t].live => window'[t].form[p] = window[t].form[p]
             /\ Sent(p)' => Sent(p) /\ hostVersion'[p] = hostVersion[p]
  PROVE  WindowShows(t)'
<1> SUFFICES ASSUME pc[t] = "running" PROVE WindowShows(t)'
  BY DEF WindowShows
<1>1. WindowShows(t)
  BY DEF HInv
<1>2. ASSUME NEW p \in request[t].parts PROVE ShowsPart(t, p)'
  <2>1. ShowsPart(t, p) /\ p \in Parts /\ window[t].version[p] \in Nat /\ hostVersion[p] \in Nat
    BY <1>1, RunningHolds, RecordShape DEF WindowShows
  <2> QED BY <2>1, ShowsPartStays
<1> QED BY <1>1, <1>2 DEF WindowShows

(* A refused call stays one whose parts nobody changes.                    *)
LEMMA RefusedStays ==
  ASSUME CInv, NEW t \in Transforms, RefusedShows(t),
         pc'[t] = pc[t], request'[t] = request[t], rejected'[t] = rejected[t],
         \A p \in request[t].parts :
           Own(p)' # 0 => /\ Own(p) # 0 /\ (Rec(p)'.form = Raw \/ SameRecord(p))
                          /\ SessionOf[p] \in exclusiveSessions
                               => SessionOf[p] \in exclusiveSessions',
         \A u \in Transforms : pc'[u] = "running" =>
           pc[u] = "running" /\ window'[u].live \subseteq window[u].live
  PROVE  RefusedShows(t)'
BY DEF RefusedShows, SameRecord, Recorded
-----------------------------------------------------------------------------
(* One lemma per action: it keeps what the invariant says of the records.  *)
(* First the steps that move no call and show nothing: a record stays, or  *)
(* its session is gone.                                                    *)
SameWindow(u) ==
  /\ window'[u].contents = window[u].contents /\ window'[u].live = window[u].live
  /\ window'[u].version = window[u].version
  /\ \A p \in Parts \ window[u].live : window'[u].form[p] = window[u].form[p]

(* A step that shows the model nothing, begins and ends no call and drops  *)
(* only whole sessions.                                                    *)
LEMMA QuietShows ==
  ASSUME CInv, HInv,
         UNCHANGED <<hostVersion, firstSent, lastSent, request, pc, rejected, reserved>>,
         \A u \in Transforms : SameWindow(u),
         \A p \in Parts : Own(p)' = 0 \/ SameRecord(p),
         \A u \in Transforms : pc[u] = "running" => \A p \in request[u].parts : SameRecord(p),
         \A s \in exclusiveSessions : s \in exclusiveSessions' \/ generation[s] = 0,
         closing => closing', DeletedIsGone'
  PROVE  HInv'
<1>2. \A p \in Parts : /\ SameGhosts(p) /\ hostVersion[p] \in Nat
                       /\ Sent(p)' = Sent(p) /\ hostVersion[p] <= hostVersion'[p]
  BY RecordShape DEF SameGhosts, Sent
<1>3. GhostsAgree' /\ SharedHistory'
  BY DEF HInv, GhostsAgree, Sent, SharedHistory, IdsOf
<1>4. ASSUME NEW p \in Parts PROVE RecordFollows(p)'
  <2>1. Own(p) # 0 =>
          /\ LeftAlone(SessionOf[p]) => LeftAlone(SessionOf[p])'
          /\ SessionOf[p] \in exclusiveSessions => SessionOf[p] \in exclusiveSessions'
          /\ closing => closing'
          /\ Held(SessionOf[p]) => Held(SessionOf[p])'
    BY DEF Own, LeftAlone, Held
  <2> QED BY <1>2, <2>1, RecordStays DEF HInv
<1>5. ASSUME NEW t \in Transforms PROVE Carries(t)' /\ WindowShows(t)' /\ RefusedShows(t)'
  <2>1. Carries(t)'
    BY <1>2, CarriesStays DEF HInv
  <2>2. WindowShows(t)'
    <3>1. pc[t] = "running" => request[t].parts \subseteq Parts
      BY RunningHolds
    <3>2. SameWindow(t)
      OBVIOUS
    <3>3. pc[t] = "running" =>
            \A p \in request[t].parts :
              /\ SameRecord(p)
              /\ p \notin window[t].live => window'[t].form[p] = window[t].form[p]
              /\ Sent(p)' => Sent(p) /\ hostVersion'[p] = hostVersion[p]
      BY <1>2, <3>1, <3>2 DEF SameWindow
    <3> QED BY <1>2, <3>2, <3>3, WindowStays DEF SameWindow
  <2>3. RefusedShows(t)'
    <3>1. CASE pc[t] = "queued"
      <4>1. request[t].parts \subseteq Parts
        BY <3>1 DEF CInv, HoldsRequest, WellFormed
      <4>2. \A p \in request[t].parts :
              Own(p)' # 0 => /\ Own(p) # 0 /\ SameRecord(p)
                             /\ SessionOf[p] \in exclusiveSessions
                                  => SessionOf[p] \in exclusiveSessions'
        <5> SUFFICES ASSUME NEW p \in request[t].parts, Own(p)' # 0
                     PROVE  /\ Own(p) # 0 /\ SameRecord(p)
                            /\ SessionOf[p] \in exclusiveSessions
                                  => SessionOf[p] \in exclusiveSessions'
          OBVIOUS
        <5>1. SameRecord(p)
          BY <4>1
        <5>2. Own(p) # 0
          BY <5>1 DEF SameRecord
        <5> QED BY <5>1, <5>2 DEF Own
      <4>3. \A u \in Transforms : pc'[u] = "running" =>
              pc[u] = "running" /\ window'[u].live \subseteq window[u].live
        BY DEF SameWindow
      <4> QED BY <4>2, <4>3, RefusedStays DEF HInv
    <3> QED BY <3>1 DEF RefusedShows
  <2> QED BY <2>1, <2>2, <2>3
<1> QED BY <1>3, <1>4, <1>5 DEF HInv

(* A step that touches neither calls, windows nor objects.                 *)
LEMMA QueuesShow ==
  ASSUME CInv, HInv, UNCHANGED <<windowVars, request, pc, rejected, reserved>>,
         \A s \in exclusiveSessions : s \in exclusiveSessions' \/ generation[s] = 0,
         closing => closing', DeletedIsGone'
  PROVE  HInv'
<1>1. UNCHANGED <<generation, state, window, hostVersion, firstSent, lastSent>>
  BY DEF windowVars
<1>2. \A p \in Parts : SameRecord(p)
  BY <1>1 DEF SameRecord, Own, Rec, Saturated
<1>3. \A u \in Transforms : /\ SameWindow(u)
                            /\ pc[u] = "running" => request[u].parts \subseteq Parts
  BY <1>1, RunningHolds DEF SameWindow
<1>4. \A u \in Transforms : pc[u] = "running" => \A p \in request[u].parts : SameRecord(p)
  BY <1>2, <1>3
<1> QED BY <1>1, <1>2, <1>3, <1>4, QuietShows

(* A session.deleted event comes in.                                       *)
LEMMA RequestCleanupShows ==
  ASSUME CInv, HInv, NEW c \in Cleanups, NEW s \in SessionIDs, RequestCleanup(c, s)
  PROVE  HInv'
<1>1. /\ UNCHANGED <<windowVars, request, pc, rejected, reserved>>
      /\ UNCHANGED <<generation, exclusiveSessions, closing>>
      /\ cleanupPc' = [cleanupPc EXCEPT ![c] = "waiting"]
      /\ target' = [target EXCEPT ![c] = s]
  BY DEF RequestCleanup, Locks!RequestCleanup, Locks!transformVars, Locks!closeVars, windowVars
<1>2. cleanupPc \in [Cleanups -> {"idle", "waiting", "exclusive", "deleting", "deleted"}]
      /\ target \in [Cleanups -> SessionIDs \cup {None}]
  BY Shapes DEF LP!TypeOK
<1>3. DeletedIsGone'
  BY <1>1, <1>2 DEF HInv, DeletedIsGone
<1> QED BY <1>1, <1>3, QueuesShow

(* A deletion takes its turn, starts or is done.                           *)
LEMMA CleanupStepShows ==
  ASSUME CInv, HInv, NEW c \in Cleanups, CleanupStep(c)
  PROVE  HInv'
<1>1. /\ UNCHANGED <<windowVars, request, pc, rejected, reserved>>
      /\ UNCHANGED <<generation, closing>>
      /\ Locks!EnterExclusive(c) \/ Locks!StartDeletion(c) \/ Locks!LeaveExclusive(c)
  BY DEF CleanupStep, Locks!EnterExclusive, Locks!StartDeletion, Locks!LeaveExclusive,
         Locks!transformVars, Locks!closeVars, windowVars
<1>2. cleanupPc \in [Cleanups -> {"idle", "waiting", "exclusive", "deleting", "deleted"}]
      /\ target \in [Cleanups -> SessionIDs \cup {None}]
  BY Shapes DEF LP!TypeOK
<1>3. /\ \A s \in exclusiveSessions : s \in exclusiveSessions' \/ generation[s] = 0
      /\ DeletedIsGone'
  <2>1. CASE Locks!EnterExclusive(c)
    BY <1>1, <1>2, <2>1 DEF Locks!EnterExclusive, HInv, DeletedIsGone
  <2>2. CASE Locks!StartDeletion(c)
    BY <1>1, <1>2, <2>2 DEF Locks!StartDeletion, HInv, DeletedIsGone
  <2>3. CASE Locks!LeaveExclusive(c)
    BY <1>1, <1>2, <2>3 DEF Locks!LeaveExclusive, HInv, DeletedIsGone
  <2> QED BY <1>1, <2>1, <2>2, <2>3
<1> QED BY <1>1, <1>3, QueuesShow

(* closeAndDrain.                                                          *)
LEMMA CloseAndDrainShows ==
  ASSUME CInv, HInv, CloseAndDrain
  PROVE  HInv'
<1>1. /\ UNCHANGED <<windowVars, request, pc, rejected, reserved>>
      /\ UNCHANGED <<generation, exclusiveSessions, cleanupPc, target>> /\ closing'
  BY DEF CloseAndDrain, Locks!CloseAndDrain, Locks!transformVars, Locks!cleanupVars, windowVars
<1>2. DeletedIsGone'
  BY <1>1 DEF HInv, DeletedIsGone
<1> QED BY <1>1, <1>2, QueuesShow

(* A turn of the loop of acquireTransformLocks.                            *)
LEMMA EvaluateShows ==
  ASSUME CInv, HInv, NEW t \in Transforms, pc[t] \in {"idle", "capacity"}, ~closing,
         NEW W \in SUBSET SessionIDs, \A s, i \in W : s = i, Locks!Evaluate(t, W, {}),
         UNCHANGED <<windowVars, cleanupPc, target, exclusiveSessions, closing>>,
         W = IdsOf(request'[t]), SharedHistory',
         \A p \in request'[t].parts : SessionOf[p] \in W,
         \A p \in Parts : /\ request'[t].at[p] <= hostVersion[p]
                          /\ SessionOf[p] \in W /\ Sent(p) => p \in request'[t].parts,
         \A u \in Transforms \ {t} : request'[u] = request[u]
  PROVE  HInv'
<1>1. UNCHANGED <<generation, state, window, hostVersion, firstSent, lastSent>>
  BY DEF windowVars
<1>2. \A p \in Parts : /\ SameRecord(p) /\ SameGhosts(p) /\ hostVersion[p] \in Nat
                       /\ Sent(p)' = Sent(p) /\ hostVersion[p] <= hostVersion'[p]
  BY <1>1, RecordShape DEF SameRecord, SameGhosts, Own, Rec, Saturated, Sent
<1>3. /\ \/ pc'[t] = "capacity" /\ rejected'[t] = {} /\ reserved' = reserved
         \/ /\ pc'[t] = "queued"
            /\ rejected'[t] = {} \/ reserved'[t] = {}
            /\ \A s \in rejected'[t] : s \in exclusiveSessions \/ s \notin WP!Tracked
            /\ \A u \in Transforms : u # t => reserved'[u] = reserved[u]
      /\ reserved'[t] \cap exclusiveSessions \subseteq reserved[t]
      /\ \A u \in Transforms \ {t} :
           /\ pc'[u] = pc[u] /\ rejected'[u] = rejected[u] /\ reserved'[u] = reserved[u]
  <2>1. LP!IInv /\ LP!TypeOK /\ LP!Evaluate(t, W, {}) /\ {} \in SUBSET SessionIDs
    BY Shapes, SameTransformSteps DEF CInv
  <2>2. WP!Tracked = {s \in SessionIDs : generation[s] # 0}
    BY DEF WP!Tracked, WP!KeysOf
  <2>3. \A u \in Transforms \ {t} :
           /\ pc'[u] = pc[u] /\ rejected'[u] = rejected[u] /\ reserved'[u] = reserved[u]
    BY <2>1, LP!ReservedOrRejected, LocksHold
  <2> QED BY <2>1, <2>2, <2>3, LP!OneSessionEvaluated, LocksHold
<1>4. GhostsAgree' /\ DeletedIsGone'
  BY <1>1 DEF HInv, GhostsAgree, Sent, DeletedIsGone
<1>5. ASSUME NEW p \in Parts PROVE RecordFollows(p)'
  <2>1. LeftAlone(SessionOf[p]) => LeftAlone(SessionOf[p])'
    BY <1>3 DEF LeftAlone
  <2>2. Held(SessionOf[p]) => Held(SessionOf[p])'
    BY <1>3 DEF Held
  <2> QED BY <1>2, <2>1, <2>2, RecordStays DEF HInv
<1>6. ASSUME NEW u \in Transforms, u # t
      PROVE  Carries(u)' /\ WindowShows(u)' /\ RefusedShows(u)'
  <2>1. Carries(u)'
    BY <1>1, <1>2, <1>3, <1>6, CarriesStays DEF HInv
  <2>2. WindowShows(u)'
    <3>1. pc[u] = "running" => request[u].parts \subseteq Parts
      BY RunningHolds
    <3> QED BY <1>1, <1>2, <1>3, <1>6, <3>1, WindowStays
  <2>3. RefusedShows(u)'
    <3>1. CASE pc[u] = "queued"
      <4>1. request[u].parts \subseteq Parts
        BY <3>1 DEF CInv, HoldsRequest, WellFormed
      <4>2. \A p \in request[u].parts : Own(p)' # 0 => Own(p) # 0 /\ SameRecord(p)
        BY <1>1, <1>2, <4>1 DEF Own
      <4>3. \A v \in Transforms : pc'[v] = "running" =>
              pc[v] = "running" /\ window'[v].live \subseteq window[v].live
        BY <1>1, <1>3
      <4> QED BY <1>3, <1>6, <4>2, <4>3, RefusedStays DEF HInv
    <3>2. pc'[u] = pc[u]
      BY <1>3, <1>6
    <3> QED BY <3>1, <3>2 DEF RefusedShows
  <2> QED BY <2>1, <2>2, <2>3
<1>7. Carries(t)' /\ WindowShows(t)' /\ RefusedShows(t)'
  <2>1. Carries(t)'
    BY <1>1, <1>2, <1>3 DEF Carries, IdsOf
  <2>2. WindowShows(t)'
    BY <1>3 DEF WindowShows
  <2>3. RefusedShows(t)'
    <3> SUFFICES ASSUME pc'[t] = "queued", NEW p \in request'[t].parts,
                        SessionOf[p] \in rejected'[t] \ exclusiveSessions', Own(p)' # 0
                 PROVE  FALSE
      BY DEF RefusedShows
    <3>1. SessionOf[p] \in SessionIDs /\ Own(p) # 0
      BY <1>1 DEF Own
    <3>2. SessionOf[p] \in WP!Tracked
      BY <3>1 DEF Own, WP!Tracked, WP!KeysOf
    <3> QED BY <1>3, <3>2
  <2> QED BY <2>1, <2>2, <2>3
<1> QED BY <1>4, <1>5, <1>6, <1>7 DEF HInv

(* A request of one session comes in: all of it is admitted, or all        *)
(* refused.                                                                *)
LEMMA ArriveShows ==
  ASSUME OneSession, CInv, HInv, NEW t \in Transforms, NEW q \in Requests, Arrive(t, q)
  PROVE  HInv'
<1>1. /\ UNCHANGED windowVars /\ Locks!Arrive(t, IdsOf(q)) /\ SameHistory(q)
      /\ request' = [request EXCEPT ![t] = Loaded(q)]
  BY DEF Arrive
<1>2. /\ pc[t] = "idle" /\ ~closing /\ Locks!Evaluate(t, IdsOf(q), {})
      /\ UNCHANGED <<cleanupPc, target, exclusiveSessions, closing>>
  BY <1>1 DEF Locks!Arrive, Locks!cleanupVars, Locks!closeVars
<1>3. /\ request'[t] = Loaded(q) /\ \A u \in Transforms \ {t} : request'[u] = request[u]
      /\ request[t] = NoRequest
  BY <1>1, <1>2 DEF CInv, HInv, Carries
<1>4. /\ q.ids \in Seq(SessionIDs) /\ DOMAIN q.ids = 1 .. Len(q.ids) /\ Len(q.ids) <= 1
      /\ q.parts \subseteq Parts
      /\ \A p \in q.parts : \E i \in DOMAIN q.ids : q.ids[i] = SessionOf[p]
  <2>1. /\ q.ids \in Seq(SessionIDs) /\ q.parts \subseteq Parts
        /\ \A p \in q.parts : \E i \in DOMAIN q.ids : q.ids[i] = SessionOf[p]
    BY WindowsHold
  <2>2. Len(q.ids) <= 1
    BY DEF OneSession
  <2>3. DOMAIN q.ids = 1 .. Len(q.ids)
    BY <2>1
  <2> QED BY <2>1, <2>2, <2>3
<1>5. /\ IdsOf(q) \in SUBSET SessionIDs /\ \A s, i \in IdsOf(q) : s = i
      /\ \A p \in q.parts : SessionOf[p] \in IdsOf(q)
  <2>1. \A k, n \in 1 .. Len(q.ids) : k = n
    BY <1>4
  <2> QED BY <1>4, <2>1 DEF IdsOf
<1>6. IdsOf(request'[t]) = IdsOf(q) /\ request'[t].parts = q.parts
      /\ request'[t].at = hostVersion
  BY <1>3 DEF IdsOf, Loaded
<1>7. \A p \in Parts : /\ request'[t].at[p] <= hostVersion[p]
                       /\ SessionOf[p] \in IdsOf(q) /\ Sent(p) => p \in request'[t].parts
  <2> SUFFICES ASSUME NEW p \in Parts
               PROVE  /\ hostVersion[p] <= hostVersion[p]
                      /\ SessionOf[p] \in IdsOf(q) /\ Sent(p) => p \in q.parts
    BY <1>6
  <2>1. hostVersion[p] \in Nat
    BY RecordShape
  <2>2. SessionOf[p] \in IdsOf(q) /\ Sent(p) => p \in q.parts
    BY <1>1 DEF SameHistory, Lifecycle!HistoryGrows, Lifecycle!NotSent, WP!NotSent, Sent, IdsOf
  <2> QED BY <2>1, <2>2
<1>8. SharedHistory'
  <2>1. \A u \in Transforms \ {t} : \A p \in Parts :
          SessionOf[p] \in IdsOf(request[u]) \cap IdsOf(q)
            => (p \in request[u].parts <=> p \in q.parts)
    BY <1>1 DEF SameHistory
  <2>2. SharedHistory /\ \A u \in Transforms \ {t} : IdsOf(request'[u]) = IdsOf(request[u])
    BY <1>3 DEF HInv
  <2>3. ASSUME NEW u \in Transforms, NEW v \in Transforms, NEW p \in Parts,
               SessionOf[p] \in IdsOf(request'[u]) \cap IdsOf(request'[v])
        PROVE  p \in request'[u].parts <=> p \in request'[v].parts
    BY <1>3, <1>6, <2>1, <2>2, <2>3 DEF SharedHistory
  <2>4. \A u \in Transforms : IdsOf(request[u])' = IdsOf(request'[u])
    BY DEF IdsOf
  <2> QED BY <2>3, <2>4 DEF SharedHistory
<1> HIDE DEF HInv
<1> QED BY <1>1, <1>2, <1>3, <1>5, <1>6, <1>7, <1>8, EvaluateShows

(* A call that waited for capacity evaluates its admission again.          *)
LEMMA RetryShows ==
  ASSUME CInv, HInv, NEW t \in Transforms, Retry(t)
  PROVE  HInv'
<1>1. UNCHANGED windowVars /\ Locks!Retry(t) /\ request' = request
  BY DEF Retry
<1>2. /\ pc[t] = "capacity" /\ ~closing /\ Locks!Evaluate(t, wants[t], rejected[t])
      /\ UNCHANGED <<cleanupPc, target, exclusiveSessions, closing>>
  BY <1>1 DEF Locks!Retry, Locks!cleanupVars, Locks!closeVars
<1>3. Carries(t) /\ SharedHistory
  BY DEF HInv
<1>4. wants[t] = IdsOf(request[t]) /\ wants[t] \in SUBSET SessionIDs /\ rejected[t] = {}
  BY <1>2, <1>3, Shapes DEF CInv, HoldsRequest, Carries
<1>5. SharedHistory'
  BY <1>1, <1>3 DEF SharedHistory, IdsOf
<1>6. /\ \A s, i \in wants[t] : s = i
      /\ \A p \in request'[t].parts : SessionOf[p] \in wants[t]
      /\ \A p \in Parts : /\ request'[t].at[p] <= hostVersion[p]
                          /\ SessionOf[p] \in wants[t] /\ Sent(p) => p \in request'[t].parts
  BY <1>1, <1>2, <1>3, <1>4 DEF Carries
<1> QED BY <1>1, <1>2, <1>4, <1>5, <1>6, EvaluateShows

(* What a request shows that goes to the model as it was loaded, and the   *)
(* calls T that end with it.                                               *)
LEMMA RawShows ==
  ASSUME CInv, HInv, NEW P \in SUBSET Parts, NEW at, WP!Send(P, at, AllRaw),
         UNCHANGED <<managerVars, window, hostVersion, exclusiveSessions, closing,
                     cleanupPc, target>>,
         NEW T \in SUBSET Transforms,
         \A u \in T : /\ pc[u] # "running" /\ pc'[u] = "idle"
                      /\ request'[u] = NoRequest /\ reserved'[u] = {},
         \A u \in Transforms \ T : /\ pc'[u] = pc[u] /\ rejected'[u] = rejected[u]
                                   /\ reserved'[u] = reserved[u] /\ request'[u] = request[u],
         \A u \in Transforms \ T : \A p \in P :
           /\ pc[u] = "running" => p \notin request[u].parts
           /\ SessionOf[p] \in IdsOf(request[u]) => p \in request[u].parts,
         \A p \in P : Own(p) # 0 =>
           /\ Recorded(p) \/ Saturated(p) \/ LeftAlone(SessionOf[p])'
           /\ SessionOf[p] \in exclusiveSessions \/ closing \/ Rec(p).form \notin Forms
  PROVE  HInv'
<1> DEFINE now == {p \in P : at[p] = hostVersion[p]}
<1>1. /\ UNCHANGED <<generation, state, window, hostVersion>>
      /\ firstSent' = [p \in Parts |-> IF p \in now /\ firstSent[p] = WP!NotSent
                                       THEN Raw ELSE firstSent[p]]
      /\ lastSent' = [p \in Parts |-> IF p \in now THEN Raw ELSE lastSent[p]]
  BY DEF managerVars, WP!Send, AllRaw
<1>2. now \subseteq P
  OBVIOUS
<1> HIDE DEF now
<1>3. \A p \in Parts : /\ SameRecord(p) /\ hostVersion[p] \in Nat
                       /\ hostVersion'[p] = hostVersion[p] /\ hostVersion[p] <= hostVersion'[p]
                       /\ p \notin now => SameGhosts(p) /\ Sent(p)' = Sent(p)
                       /\ p \in now => Sent(p)' /\ lastSent'[p] = Raw
                            /\ firstSent'[p] = IF Sent(p) THEN firstSent[p] ELSE Raw
  <2> SUFFICES ASSUME NEW p \in Parts
               PROVE  /\ SameRecord(p) /\ hostVersion[p] \in Nat
                      /\ hostVersion'[p] = hostVersion[p] /\ hostVersion[p] <= hostVersion'[p]
                      /\ p \notin now => SameGhosts(p) /\ Sent(p)' = Sent(p)
                      /\ p \in now => Sent(p)' /\ lastSent'[p] = Raw
                           /\ firstSent'[p] = IF Sent(p) THEN firstSent[p] ELSE Raw
    OBVIOUS
  <2>1. hostVersion[p] \in Nat /\ Raw # WP!NotSent
    BY RecordShape
  <2>2. SameRecord(p)
    BY <1>1 DEF SameRecord, Own, Rec, Saturated
  <2>3. firstSent[p] = WP!NotSent <=> ~Sent(p)
    BY DEF HInv, GhostsAgree
  <2> QED BY <1>1, <2>1, <2>2, <2>3 DEF SameGhosts, Sent
<1>4. /\ \A s : LeftAlone(s) => LeftAlone(s)'
      /\ \A s : Held(s) => Held(s)'
  BY DEF LeftAlone, Held
<1>5. GhostsAgree'
  <2> SUFFICES ASSUME NEW p \in Parts
               PROVE  /\ firstSent'[p] = WP!NotSent <=> ~Sent(p)'
                      /\ lastSent'[p] \in {WP!NotSent, Raw, firstSent'[p]}
    BY DEF GhostsAgree
  <2>1. Raw # WP!NotSent
    BY RecordShape
  <2>2. /\ firstSent[p] = WP!NotSent <=> ~Sent(p)
        /\ lastSent[p] \in {WP!NotSent, Raw, firstSent[p]}
    BY DEF HInv, GhostsAgree
  <2> QED BY <1>3, <2>1, <2>2 DEF SameGhosts
<1>6. \A u \in Transforms : \/ IdsOf(request'[u]) = {}
                            \/ u \notin T /\ request'[u] = request[u]
  BY DEF IdsOf, NoRequest
<1>7. SharedHistory' /\ DeletedIsGone'
  <2>1. SharedHistory /\ DeletedIsGone
    BY DEF HInv
  <2>2. \A u \in Transforms : IdsOf(request[u])' = IdsOf(request'[u])
    BY DEF IdsOf
  <2> QED BY <1>1, <1>6, <2>1, <2>2 DEF SharedHistory, DeletedIsGone
<1>8. ASSUME NEW p \in Parts PROVE RecordFollows(p)'
  <2>1. RecordFollows(p)
    BY DEF HInv
  <2>2. CASE p \notin now
    BY <1>1, <1>3, <1>4, <2>1, <2>2, RecordStays
  <2>3. CASE p \in now /\ Own(p) # 0
    <3>1. /\ Own(p)' = Own(p) /\ Rec(p)' = Rec(p) /\ Saturated(p)' = Saturated(p)
          /\ Recorded(p)' = Recorded(p)
      BY <1>3, <2>3 DEF SameRecord, Recorded
    <3>2. Rec(p).version <= hostVersion'[p]
      BY <1>3, <2>1, <2>3 DEF RecordFollows
    <3>3. Recorded(p) \/ Saturated(p) \/ LeftAlone(SessionOf[p])'
      BY <1>2, <2>3
    <3>4. Rec(p).form \in Forms /\ Rec(p).version = hostVersion[p] => Rec(p).form = firstSent'[p]
      <4> SUFFICES ASSUME Rec(p).form \in Forms, Rec(p).version = hostVersion[p]
                   PROVE  Rec(p).form = firstSent'[p]
        OBVIOUS
      <4>1. Rec(p).form = firstSent[p] /\ firstSent[p] # WP!NotSent
        BY <2>1, <2>3, RecordShape DEF RecordFollows
      <4>2. Sent(p)
        BY <4>1 DEF HInv, GhostsAgree
      <4> QED BY <1>3, <2>3, <4>1, <4>2
    <3>5. Recorded(p) /\ SessionOf[p] \notin exclusiveSessions /\ ~closing
            => Rec(p).form = lastSent'[p]
      BY <1>2, <1>3, <2>3, RecordShape
    <3> QED BY <1>3, <3>1, <3>2, <3>3, <3>4, <3>5 DEF RecordFollows
  <2>4. CASE Own(p) = 0
    BY <1>3, <2>4 DEF RecordFollows, SameRecord
  <2> QED BY <2>2, <2>3, <2>4
<1>9. ASSUME NEW u \in T PROVE Carries(u)' /\ WindowShows(u)' /\ RefusedShows(u)'
  <2>1. Carries(u)'
    BY DEF Carries, IdsOf, NoRequest
  <2> QED BY <2>1 DEF WindowShows, RefusedShows
<1>10. ASSUME NEW u \in Transforms \ T PROVE Carries(u)' /\ WindowShows(u)' /\ RefusedShows(u)'
  <2>1. Carries(u)'
    <3>1. \A p \in Parts : SessionOf[p] \in IdsOf(request[u]) /\ Sent(p)'
                             => Sent(p) \/ p \in request[u].parts
      BY <1>2, <1>3
    <3> QED BY <1>3, <3>1, CarriesStays DEF HInv
  <2>2. WindowShows(u)'
    <3>1. pc[u] = "running" => request[u].parts \subseteq Parts
      BY RunningHolds
    <3>2. pc[u] = "running" => \A p \in request[u].parts : p \notin now
      BY <1>2
    <3>3. pc[u] = "running" =>
            \A p \in request[u].parts :
              SameRecord(p) /\ (Sent(p)' => Sent(p) /\ hostVersion'[p] = hostVersion[p])
      BY <1>3, <3>1, <3>2
    <3> QED BY <1>1, <1>3, <3>3, WindowStays
  <2>3. RefusedShows(u)'
    <3>1. CASE pc[u] = "queued"
      <4>1. request[u].parts \subseteq Parts
        BY <3>1 DEF CInv, HoldsRequest, WellFormed
      <4>2. \A p \in request[u].parts : Own(p)' # 0 => Own(p) # 0 /\ SameRecord(p)
        BY <1>1, <1>3, <4>1 DEF Own
      <4>3. \A v \in Transforms : pc'[v] = "running" =>
              pc[v] = "running" /\ window'[v].live \subseteq window[v].live
        BY <1>1
      <4> QED BY <4>2, <4>3, RefusedStays DEF HInv
    <3>2. pc'[u] = pc[u]
      OBVIOUS
    <3> QED BY <3>1, <3>2 DEF RefusedShows
  <2> QED BY <2>1, <2>2, <2>3
<1> QED BY <1>5, <1>7, <1>8, <1>9, <1>10 DEF HInv

(* run throws and the request goes to the model as it was loaded.          *)
LEMMA FailOpenShows ==
  ASSUME CInv, HInv, NEW t \in Transforms, FailOpen(t)
  PROVE  HInv'
<1> DEFINE P == Alone(t, request[t].parts)
<1>1. /\ Lifecycle!Send(P, request[t].at, AllRaw)
      /\ UNCHANGED <<managerVars, window, hostVersion>>
      /\ Locks!RejectTransform(t) \/ Locks!RetryThrows(t)
      /\ request' = [request EXCEPT ![t] = NoRequest]
  BY DEF FailOpen
<1>2. WP!Send(P, request[t].at, AllRaw)
  BY <1>1, SameManagerSteps
<1>3. UNCHANGED <<exclusiveSessions, closing, cleanupPc, target>>
  BY <1>1 DEF Locks!RejectTransform, Locks!Release, Locks!RetryThrows, Locks!cleanupVars,
             Locks!closeVars
<1>4. /\ pc[t] \in {"queued", "capacity"} /\ pc'[t] = "idle"
      /\ reserved'[t] = {} /\ reserved[t] = {}
      /\ pc[t] = "queued" => rejected[t] # {}
      /\ pc[t] = "capacity" => closing
      /\ \A u \in Transforms \ {t} :
           /\ pc'[u] = pc[u] /\ rejected'[u] = rejected[u] /\ reserved'[u] = reserved[u]
  <2>1. CASE Locks!RejectTransform(t)
    <3>1. rejected[t] # {} /\ pc[t] = "queued"
      BY <2>1 DEF Locks!RejectTransform, Locks!Acquired
    <3>2. reserved[t] = {}
      BY <3>1 DEF HInv, Carries
    <3> QED BY <2>1, <3>1, <3>2, Shapes DEF Locks!RejectTransform, Locks!Acquired, Locks!Release
  <2>2. CASE Locks!RetryThrows(t)
    <3>1. pc[t] = "capacity" /\ closing
      BY <2>2 DEF Locks!RetryThrows
    <3>2. reserved[t] = {}
      BY <3>1 DEF CInv, LP!IInv, LP!HoldersActive, LP!Active
    <3> QED BY <2>2, <3>1, <3>2, Shapes DEF Locks!RetryThrows
  <2> QED BY <1>1, <2>1, <2>2
<1>5. /\ request'[t] = NoRequest /\ \A u \in Transforms \ {t} : request'[u] = request[u]
  BY <1>1 DEF CInv
<1>6. /\ WellFormed(request[t]) /\ Carries(t) /\ SharedHistory
      /\ pc[t] = "queued" => IdsOf(request[t]) \subseteq rejected[t]
  BY <1>4 DEF CInv, HInv, HoldsRequest
<1>7. P \in SUBSET Parts /\ P \subseteq request[t].parts
  BY <1>6 DEF Alone, WellFormed
<1>8. \A u \in Transforms \ {t} : \A p \in P :
        p \notin request[u].parts /\ SessionOf[p] \notin IdsOf(request[u])
  <2> SUFFICES ASSUME NEW u \in Transforms \ {t}, NEW p \in P
               PROVE  p \notin request[u].parts /\ SessionOf[p] \notin IdsOf(request[u])
    OBVIOUS
  <2>1. p \notin request[u].parts
    BY DEF Alone
  <2>2. SessionOf[p] \in IdsOf(request[t]) /\ p \in Parts /\ p \in request[t].parts
    BY <1>6, <1>7 DEF Carries
  <2> QED BY <1>6, <2>1, <2>2 DEF SharedHistory
<1>9. ASSUME NEW p \in P, Own(p) # 0
      PROVE  /\ Recorded(p) \/ Saturated(p) \/ LeftAlone(SessionOf[p])'
             /\ SessionOf[p] \in exclusiveSessions \/ closing \/ Rec(p).form \notin Forms
  <2>1. SessionOf[p] \in IdsOf(request[t]) /\ p \in Parts /\ p \in request[t].parts
    BY <1>6, <1>7 DEF Carries
  <2>2. \A u \in Transforms : SessionOf[p] \notin reserved'[u]
    <3>1. \A u \in Transforms \ {t} : SessionOf[p] \notin reserved[u]
      BY <1>8, HoldersCarry
    <3> QED BY <1>4, <3>1
  <2>3. CASE SessionOf[p] \in exclusiveSessions \/ closing
    BY <1>3, <2>2, <2>3 DEF LeftAlone
  <2>4. CASE SessionOf[p] \notin exclusiveSessions /\ ~closing
    <3>1. pc[t] = "queued" /\ SessionOf[p] \in rejected[t] \ exclusiveSessions
      BY <1>4, <1>6, <2>1, <2>4
    <3>2. Rec(p).form = Raw \/ (~Recorded(p) /\ Saturated(p))
      BY <1>9, <2>1, <3>1 DEF HInv, RefusedShows
    <3> QED BY <1>9, <2>1, <3>2, RecordShape
  <2> QED BY <2>3, <2>4
<1> HIDE DEF P
<1> DEFINE T == {t}
<1>10. /\ T \in SUBSET Transforms
       /\ \A u \in T : /\ pc[u] # "running" /\ pc'[u] = "idle"
                      /\ request'[u] = NoRequest /\ reserved'[u] = {}
  BY <1>4, <1>5
<1>11. \A u \in Transforms \ T : /\ pc'[u] = pc[u] /\ rejected'[u] = rejected[u]
                                 /\ reserved'[u] = reserved[u] /\ request'[u] = request[u]
  BY <1>4, <1>5
<1>12. \A u \in Transforms \ T : \A p \in P :
         /\ pc[u] = "running" => p \notin request[u].parts
         /\ SessionOf[p] \in IdsOf(request[u]) => p \in request[u].parts
  BY <1>8
<1>13. \A p \in P : Own(p) # 0 =>
         /\ Recorded(p) \/ Saturated(p) \/ LeftAlone(SessionOf[p])'
         /\ SessionOf[p] \in exclusiveSessions \/ closing \/ Rec(p).form \notin Forms
  BY <1>9
<1>14. UNCHANGED <<managerVars, window, hostVersion>>
  BY <1>1
<1> HIDE DEF HInv, T
<1> QED BY <1>2, <1>3, <1>7, <1>10, <1>11, <1>12, <1>13, <1>14, RawShows

(* A hook called while the manager is closing, whose request goes out raw. *)
LEMMA FailOpenClosingShows ==
  ASSUME CInv, HInv, NEW q \in Requests, FailOpenClosing(q)
  PROVE  HInv'
<1> DEFINE P == Alone(None, q.parts)
<1>1. /\ closing /\ SameHistory(q) /\ Lifecycle!Send(P, hostVersion, AllRaw)
      /\ UNCHANGED <<lockVars, managerVars, window, hostVersion, request>>
  BY DEF FailOpenClosing
<1>2. WP!Send(P, hostVersion, AllRaw)
  BY <1>1, SameManagerSteps
<1>3. /\ UNCHANGED <<exclusiveSessions, closing, cleanupPc, target>>
      /\ UNCHANGED <<pc, rejected, reserved, request>>
  BY <1>1 DEF lockVars
<1>4. /\ q.parts \subseteq Parts
      /\ \A p \in q.parts : SessionOf[p] \in IdsOf(q)
  BY WindowsHold DEF IdsOf
<1>5. P \in SUBSET Parts /\ P \subseteq q.parts
  BY <1>4 DEF Alone
<1>6. \A u \in Transforms : \A p \in P :
        p \notin request[u].parts /\ SessionOf[p] \notin IdsOf(request[u])
  <2> SUFFICES ASSUME NEW u \in Transforms, NEW p \in P
               PROVE  p \notin request[u].parts /\ SessionOf[p] \notin IdsOf(request[u])
    OBVIOUS
  <2>1. p \notin request[u].parts
    BY LocksHold DEF Alone
  <2> QED BY <1>1, <1>4, <1>5, <2>1 DEF SameHistory
<1>7. ASSUME NEW p \in P PROVE LeftAlone(SessionOf[p])'
  BY <1>1, <1>3, <1>6, HoldersCarry DEF LeftAlone
<1> HIDE DEF P
<1>8. {} \in SUBSET Transforms
  OBVIOUS
<1> HIDE DEF HInv
<1> QED BY <1>1, <1>2, <1>3, <1>5, <1>6, <1>7, <1>8, RawShows

(* The loss of a replay's backing: window and record show the part raw.    *)
LEMMA LostReplayShows ==
  ASSUME CInv, HInv, NEW t \in Transforms, pc[t] = "running", NEW p \in Parts,
         WP!Invalidate(t, p), UNCHANGED <<lockVars, request>>
  PROVE  HInv'
<1>1. /\ UNCHANGED <<pc, rejected, reserved, exclusiveSessions, closing, cleanupPc, target>>
      /\ UNCHANGED <<generation, hostVersion, firstSent, lastSent, request>>
      /\ p \in window[t].replayed
      /\ window' = [window EXCEPT ![t].replayed = @ \ {p}, ![t].form[p] = Raw]
  BY DEF WP!Invalidate, lockVars
<1>2. /\ p \in request[t].parts \ window[t].live /\ request[t].parts \subseteq Parts
      /\ SessionOf[p] \in reserved[t] /\ WP!Joined(t, p).generation = Own(p)
      /\ window[t].version[p] \in Nat /\ window[t] \in WP!Window
  BY <1>1, RunningHolds
<1>3. Own(p) # 0
  BY <1>1, <1>2 DEF CInv, WP!IInv, WP!WindowsInShape
<1>4. ASSUME NEW q \in Parts, Own(q) # 0
      PROVE  /\ Own(q)' = Own(q) /\ Saturated(q)' = Saturated(q)
             /\ Rec(q)' = IF q = p THEN WP!RawRecord(window[t].version[p]) ELSE Rec(q)
  <2>1. SessionOf[q] \in WP!Tracked /\ Own(q)' = Own(q)
    BY <1>1, <1>4, RecordShape DEF Own
  <2>2. /\ state'[Own(q)].saturated = state[Own(q)].saturated
        /\ state'[Own(q)].parts[q] =
             IF q = p /\ WP!Joined(t, p).generation = Own(q)
             THEN WP!RawRecord(window[t].version[p]) ELSE state[Own(q)].parts[q]
    <3> DEFINE i == SessionOf[q]
    <3>1. i \in WP!Tracked /\ WP!IInv
      BY <2>1 DEF CInv
    <3> HIDE DEF i
    <3>2. /\ state'[generation[i]].saturated = state[generation[i]].saturated
          /\ \A r \in Parts :
               state'[generation[i]].parts[r] =
                 IF r = p /\ WP!Joined(t, p).generation = generation[i]
                 THEN WP!RawRecord(window[t].version[p]) ELSE state[generation[i]].parts[r]
      <4>1. WP!Invalidated(t, p, i)
        BY <3>1, WP!InvalidateShows, WindowsHold
      <4> QED BY <4>1 DEF WP!Invalidated
    <3> QED BY <3>2 DEF i, Own
  <2> QED BY <1>2, <2>1, <2>2 DEF Rec, Saturated
<1>5. /\ Rec(p)'.form = Raw /\ Rec(p)'.version = window[t].version[p] /\ Recorded(p)'
      /\ Own(p)' = Own(p)
  <2>1. Rec(p)' = WP!RawRecord(window[t].version[p]) /\ Own(p)' = Own(p)
    BY <1>3, <1>4
  <2>2. WP!Unknown.form = "unknown" /\ Raw # "unknown"
    BY WindowsHold DEF WP!Unknown
  <2>3. Rec(p)'.form = Raw /\ Rec(p)'.version = window[t].version[p]
    BY <2>1 DEF WP!RawRecord
  <2>4. Rec(p)' # WP!Unknown
    BY <2>2, <2>3
  <2> QED BY <2>1, <2>3, <2>4 DEF Recorded
<1>6. \A q \in Parts \ {p} : SameRecord(q)
  <2>1. \A q \in Parts : Own(q)' = Own(q)
    BY <1>1 DEF Own
  <2> QED BY <1>4, <2>1 DEF SameRecord
<1>7. \A q \in Parts : /\ SameGhosts(q) /\ hostVersion[q] \in Nat
                       /\ Sent(q)' = Sent(q) /\ hostVersion[q] <= hostVersion'[q]
  BY <1>1, RecordShape DEF SameGhosts, Sent
<1>8. GhostsAgree' /\ SharedHistory' /\ DeletedIsGone'
  BY <1>1 DEF HInv, GhostsAgree, Sent, SharedHistory, IdsOf, DeletedIsGone
<1>9. ASSUME NEW q \in Parts PROVE RecordFollows(q)'
  <2>1. /\ LeftAlone(SessionOf[q]) => LeftAlone(SessionOf[q])'
        /\ Held(SessionOf[q]) => Held(SessionOf[q])'
    BY <1>1 DEF LeftAlone, Held
  <2>2. CASE q # p
    BY <1>1, <1>6, <1>7, <2>1, <2>2, RecordStays DEF HInv
  <2>3. CASE q = p
    <3>1. Held(SessionOf[p])'
      BY <1>1, <1>2 DEF Held
    <3>2. ShowsPart(t, p)
      BY <1>2 DEF HInv, WindowShows
    <3>3. Raw \notin Forms
      BY RecordShape
    <3> QED BY <1>5, <1>7, <2>3, <3>1, <3>2, <3>3 DEF RecordFollows, ShowsPart, SameGhosts
  <2> QED BY <2>2, <2>3
<1>10. \A u \in Transforms : Carries(u)'
  BY <1>1, <1>7, CarriesStays DEF HInv
<1>11. /\ window'[t].contents = window[t].contents /\ window'[t].live = window[t].live
       /\ window'[t].version = window[t].version
       /\ \A q \in Parts : window'[t].form[q] = IF q = p THEN Raw ELSE window[t].form[q]
       /\ \A u \in Transforms \ {t} : window'[u] = window[u]
  <2>1. window \in [Transforms -> WP!Window]
    BY Shapes
  <2> QED BY <1>1, <1>2, <2>1 DEF WP!Window
<1>12. ASSUME NEW u \in Transforms, u # t PROVE WindowShows(u)'
  <2>1. pc[u] = "running" => \A q \in request[u].parts : q \in Parts \ {p}
    BY <1>2, <1>12, RunningApart, RunningHolds
  <2>2. pc[u] = "running" =>
          \A q \in request[u].parts :
            SameRecord(q) /\ (Sent(q)' => Sent(q) /\ hostVersion'[q] = hostVersion[q])
    BY <1>1, <1>6, <1>7, <2>1
  <2> QED BY <1>1, <1>7, <1>11, <1>12, <2>2, WindowStays
<1>13. WindowShows(t)'
  <2>1. ASSUME NEW q \in request[t].parts PROVE ShowsPart(t, q)'
    <3>1. ShowsPart(t, q) /\ q \in Parts /\ window[t].version[q] \in Nat /\ hostVersion[q] \in Nat
      BY <1>2, RunningHolds, RecordShape DEF HInv, WindowShows
    <3>2. CASE q # p
      BY <1>1, <1>6, <1>7, <1>11, <3>1, <3>2, ShowsPartStays
    <3>3. CASE q = p
      <4>1. window'[t].version[p] = window[t].version[p] /\ window'[t].form[p] = Raw
              /\ p \notin window'[t].live
        BY <1>2, <1>11
      <4>2. window[t].version[p] <= hostVersion'[p]
        BY <1>1, <3>1, <3>3 DEF ShowsPart
      <4> QED BY <1>3, <1>5, <3>3, <4>1, <4>2 DEF ShowsPart
    <3> QED BY <3>2, <3>3
  <2>2. window[t].contents = request[t].parts
    BY RunningHolds
  <2> QED BY <1>1, <1>11, <2>1, <2>2 DEF WindowShows
<1>14. ASSUME NEW u \in Transforms PROVE RefusedShows(u)'
  <2>1. CASE pc[u] = "queued"
    <3>1. request[u].parts \subseteq Parts
      BY <2>1 DEF CInv, HoldsRequest, WellFormed
    <3>2. \A q \in request[u].parts :
            Own(q)' # 0 => /\ Own(q) # 0 /\ (Rec(q)'.form = Raw \/ SameRecord(q))
      BY <1>1, <1>5, <1>6, <3>1 DEF Own
    <3>3. \A v \in Transforms : pc'[v] = "running" =>
            pc[v] = "running" /\ window'[v].live \subseteq window[v].live
      BY <1>1, <1>11
    <3> QED BY <1>1, <3>2, <3>3, RefusedStays DEF HInv
  <2> QED BY <1>1, <2>1 DEF RefusedShows
<1> QED BY <1>8, <1>9, <1>10, <1>12, <1>13, <1>14 DEF HInv

(* A check, a write or an invalidation in a window.                        *)
LEMMA TransformShows ==
  ASSUME CInv, HInv, NEW t \in Transforms, NEW p \in Parts, Transform(t, p)
  PROVE  HInv'
<1>1. /\ UNCHANGED <<lockVars, request>>
      /\ \/ WP!Check(t, p)
         \/ \E f \in Forms \cup {Raw} : WP!Write(t, p, f)
         \/ WP!Invalidate(t, p)
  BY SameWindowSteps DEF Transform
<1>2. pc[t] = "running" /\ UNCHANGED <<pc, rejected, reserved, exclusiveSessions, closing,
                                       cleanupPc, target>>
  BY <1>1 DEF WP!Check, WP!Write, WP!Invalidate, CInv, HoldsRequest, lockVars
<1>3. CASE WP!Invalidate(t, p)
  BY <1>1, <1>2, <1>3, LostReplayShows
<1>4. CASE WP!Check(t, p) \/ \E f \in Forms \cup {Raw} : WP!Write(t, p, f)
  <2>1. UNCHANGED <<generation, state, hostVersion, firstSent, lastSent>>
    BY <1>4 DEF WP!Check, WP!Write, WP!manager
  <2>2. /\ window \in [Transforms -> WP!Window] /\ window[t] \in WP!Window
        /\ window[t].checked \subseteq window[t].live
    BY <1>2, Shapes, RunningHolds
  <2>3. ASSUME NEW u \in Transforms PROVE SameWindow(u)
    <3>1. CASE u # t
      BY <1>4, <2>2, <3>1 DEF WP!Check, WP!Write, SameWindow
    <3>2. CASE u = t /\ WP!Check(t, p)
      BY <2>2, <3>2 DEF WP!Check, SameWindow, WP!Window
    <3>3. ASSUME u = t, NEW f \in Forms \cup {Raw}, WP!Write(t, p, f) PROVE SameWindow(u)
      <4>1. window' = [window EXCEPT ![t].form[p] = f] /\ p \in window[t].live
        BY <2>2, <3>3 DEF WP!Write
      <4> QED BY <2>2, <3>3, <4>1 DEF SameWindow, WP!Window
    <3> QED BY <1>4, <3>1, <3>2, <3>3
  <2>4. \A q \in Parts : SameRecord(q)
    BY <2>1 DEF SameRecord, Own, Rec, Saturated
  <2>5. \A u \in Transforms : pc[u] = "running" => \A q \in request[u].parts : SameRecord(q)
    BY <2>4, RunningHolds
  <2>6. DeletedIsGone'
    BY <1>2, <2>1 DEF HInv, DeletedIsGone
  <2>7. request' = request
    BY <1>1
  <2> QED BY <1>2, <2>1, <2>3, <2>4, <2>5, <2>6, <2>7, QuietShows
<1> QED BY <1>1, <1>3, <1>4

(* Deletions and clear: no window is open on a session that goes.          *)
LEMMA DeleteSessionShows ==
  ASSUME CInv, HInv, NEW c \in Cleanups, DeleteSession(c)
  PROVE  HInv'
<1>1. /\ cleanupPc[c] = "deleting" /\ WP!DeleteSession(target[c])
      /\ Locks!DeleteSession(c) /\ request' = request
  BY SameManagerSteps DEF DeleteSession
<1>2. target[c] \in SessionIDs
  BY <1>1, Shapes DEF CInv, LP!IInv, LP!CleanupTargets, LP!ActiveCleanups
<1>3. /\ UNCHANGED <<pc, rejected, reserved, exclusiveSessions, closing, target>>
      /\ cleanupPc' = [cleanupPc EXCEPT ![c] = "deleted"]
  BY <1>1 DEF Locks!DeleteSession, Locks!transformVars, Locks!closeVars
<1>4. /\ UNCHANGED <<window, hostVersion, firstSent, lastSent>>
      /\ generation' = [generation EXCEPT ![target[c]] = 0]
  BY <1>1 DEF WP!DeleteSession
<1>5. generation \in [SessionIDs -> WP!Generations \cup {0}]
  BY Shapes
<1>6. ASSUME NEW p \in Parts PROVE Own(p)' = 0 \/ (Own(p)' = Own(p) /\ SameRecord(p))
  <2>1. SessionOf[p] \in SessionIDs
    BY RecordShape
  <2>2. CASE Own(p)' # 0
    <3>1. Own(p)' = Own(p) /\ state'[Own(p)] = state[Own(p)]
      BY <1>1, <1>2, <2>1, <2>2, WP!DropShows, WindowsHold DEF CInv, Own
    <3> QED BY <3>1 DEF SameRecord, Rec, Saturated
  <2> QED BY <2>2
<1>7. ASSUME NEW u \in Transforms, pc[u] = "running", NEW p \in request[u].parts
      PROVE  SameRecord(p)
  <2>1. p \in Parts /\ SessionOf[p] \in reserved[u]
    BY <1>7, RunningHolds
  <2>2. SessionOf[p] # target[c]
    BY <1>1, <2>1, LP!DeletingAlone, LocksHold DEF CInv
  <2>3. Own(p)' = Own(p)
    BY <1>2, <1>4, <1>5, <2>1, <2>2, RecordShape DEF Own
  <2> QED BY <1>6, <2>1, <2>3 DEF SameRecord
<1>8. DeletedIsGone'
  <2>1. cleanupPc \in [Cleanups -> {"idle", "waiting", "exclusive", "deleting", "deleted"}]
        /\ target \in [Cleanups -> SessionIDs \cup {None}]
    BY Shapes DEF LP!TypeOK
  <2>2. \A d \in Cleanups : cleanupPc[d] = "deleted" => d = c
    BY <1>1, LP!DeletingAlone, LocksHold DEF CInv
  <2>3. \A d \in Cleanups : cleanupPc'[d] = "deleted" => d = c
    BY <1>3, <2>1, <2>2
  <2>4. generation'[target[c]] = 0 /\ target' = target
    BY <1>2, <1>3, <1>4, <1>5
  <2> QED BY <2>3, <2>4 DEF DeletedIsGone
<1>9. \A u \in Transforms : SameWindow(u)
  BY <1>4 DEF SameWindow
<1>10. \A p \in Parts : Own(p)' = 0 \/ SameRecord(p)
  BY <1>6
<1> QED BY <1>1, <1>3, <1>4, <1>7, <1>8, <1>9, <1>10, QuietShows

(* dispose's clear: no session is tracked any more.                        *)
LEMMA DisposeShows ==
  ASSUME CInv, HInv, Dispose
  PROVE  HInv'
<1>1. WP!Clear /\ Locks!Dispose /\ request' = request
  BY SameManagerSteps DEF Dispose
<1>2. UNCHANGED <<pc, rejected, reserved, exclusiveSessions, closing, cleanupPc, target>>
  BY <1>1 DEF Locks!Dispose, Locks!transformVars, Locks!cleanupVars
<1>3. /\ UNCHANGED <<window, hostVersion, firstSent, lastSent>>
      /\ generation' = [s \in SessionIDs |-> 0]
  BY <1>1 DEF WP!Clear
<1>4. \A p \in Parts : Own(p)' = 0
  BY <1>3, RecordShape DEF Own
<1>5. \A u \in Transforms : reserved[u] = {}
  <2>1. closing /\ drain = {}
    BY <1>1 DEF Locks!Dispose
  <2> QED BY <2>1, LP!DrainedHoldNothing, LocksHold DEF CInv
<1>6. \A u \in Transforms : pc[u] = "running" => \A p \in request[u].parts : SameRecord(p)
  BY <1>5, RunningHolds
<1>7. DeletedIsGone'
  <2>1. \A c \in Cleanups : cleanupPc[c] = "deleted" => target[c] \in SessionIDs
    BY Shapes DEF CInv, LP!IInv, LP!CleanupTargets, LP!ActiveCleanups
  <2> QED BY <1>2, <1>3, <2>1 DEF DeletedIsGone
<1>8. \A u \in Transforms : SameWindow(u)
  BY <1>3 DEF SameWindow
<1> QED BY <1>1, <1>2, <1>3, <1>4, <1>6, <1>7, <1>8, QuietShows

(* An edit by the host: nothing of the new version has been shown.         *)
LEMMA HostEditShows ==
  ASSUME CInv, HInv, NEW p \in Parts, HostEdit(p)
  PROVE  HInv'
<1>1. /\ UNCHANGED <<pc, rejected, reserved, exclusiveSessions, closing, cleanupPc, target>>
      /\ UNCHANGED <<generation, state, window, request>>
      /\ hostVersion' = [hostVersion EXCEPT ![p] = @ + 1]
      /\ firstSent' = [firstSent EXCEPT ![p] = WP!NotSent]
      /\ lastSent' = [lastSent EXCEPT ![p] = WP!NotSent]
  BY SameManagerSteps DEF HostEdit, WP!HostEdit, WP!manager, lockVars
<1>2. /\ hostVersion \in [Parts -> Nat]
      /\ firstSent \in [Parts -> Forms \cup {Raw, WP!NotSent}]
      /\ lastSent \in [Parts -> Forms \cup {Raw, WP!NotSent}]
  BY DEF CInv, WP!IInv, WP!TypeOK
<1>3. \A q \in Parts : /\ SameRecord(q) /\ hostVersion[q] \in Nat /\ hostVersion'[q] \in Nat
                       /\ q # p => SameGhosts(q) /\ Sent(q)' = Sent(q)
                       /\ q = p => hostVersion'[q] = hostVersion[q] + 1 /\ ~Sent(q)'
                                     /\ firstSent'[q] = WP!NotSent
                       /\ hostVersion[q] <= hostVersion'[q]
                       /\ Sent(q)' => Sent(q) /\ hostVersion'[q] = hostVersion[q]
  <2> SUFFICES ASSUME NEW q \in Parts
               PROVE  /\ SameRecord(q) /\ hostVersion[q] \in Nat /\ hostVersion'[q] \in Nat
                      /\ q # p => SameGhosts(q) /\ Sent(q)' = Sent(q)
                      /\ q = p => hostVersion'[q] = hostVersion[q] + 1 /\ ~Sent(q)'
                                    /\ firstSent'[q] = WP!NotSent
                      /\ hostVersion[q] <= hostVersion'[q]
                      /\ Sent(q)' => Sent(q) /\ hostVersion'[q] = hostVersion[q]
    OBVIOUS
  <2>1. SameRecord(q)
    BY <1>1 DEF SameRecord, Own, Rec, Saturated
  <2>2. CASE q = p
    BY <1>1, <1>2, <2>1, <2>2 DEF Sent
  <2>3. CASE q # p
    BY <1>1, <1>2, <2>1, <2>3 DEF Sent, SameGhosts
  <2> QED BY <2>2, <2>3
<1>4. GhostsAgree'
  <2> SUFFICES ASSUME NEW q \in Parts
               PROVE  /\ firstSent'[q] = WP!NotSent <=> ~Sent(q)'
                      /\ lastSent'[q] \in {WP!NotSent, Raw, firstSent'[q]}
    BY DEF GhostsAgree
  <2>1. /\ firstSent[q] = WP!NotSent <=> ~Sent(q)
        /\ lastSent[q] \in {WP!NotSent, Raw, firstSent[q]}
    BY DEF HInv, GhostsAgree
  <2>2. CASE q = p
    BY <1>3, <2>2 DEF Sent
  <2>3. CASE q # p
    BY <1>3, <2>1, <2>3 DEF SameGhosts
  <2> QED BY <2>2, <2>3
<1>5. SharedHistory' /\ DeletedIsGone'
  BY <1>1 DEF HInv, SharedHistory, IdsOf, DeletedIsGone
<1>6. ASSUME NEW q \in Parts PROVE RecordFollows(q)'
  <2>1. /\ LeftAlone(SessionOf[q]) => LeftAlone(SessionOf[q])'
        /\ Held(SessionOf[q]) => Held(SessionOf[q])'
    BY <1>1 DEF LeftAlone, Held
  <2>2. CASE q # p
    BY <1>1, <1>3, <2>1, <2>2, RecordStays DEF HInv
  <2>3. CASE q = p /\ Own(p) # 0
    <3>1. /\ Own(p)' = Own(p) /\ Rec(p)' = Rec(p) /\ Rec(p).version \in Nat
          /\ Rec(p).version <= hostVersion[p]
      BY <1>3, <2>3, RecordShape DEF HInv, RecordFollows, SameRecord
    <3>2. Rec(p)'.version <= hostVersion'[p] /\ Rec(p)'.version # hostVersion'[p]
      BY <1>3, <2>3, <3>1
    <3> QED BY <1>3, <2>3, <3>2 DEF RecordFollows
  <2>4. CASE Own(q) = 0
    BY <1>3, <2>4 DEF RecordFollows, SameRecord
  <2> QED BY <2>2, <2>3, <2>4
<1>7. ASSUME NEW u \in Transforms PROVE Carries(u)' /\ WindowShows(u)' /\ RefusedShows(u)'
  <2>1. Carries(u)'
    BY <1>1, <1>3, CarriesStays DEF HInv
  <2>2. WindowShows(u)'
    <3>1. pc[u] = "running" => request[u].parts \subseteq Parts
      BY RunningHolds
    <3>2. pc[u] = "running" =>
            \A q \in request[u].parts :
              SameRecord(q) /\ (Sent(q)' => Sent(q) /\ hostVersion'[q] = hostVersion[q])
      BY <1>3, <3>1
    <3> QED BY <1>1, <1>3, <3>2, WindowStays
  <2>3. RefusedShows(u)'
    <3>1. CASE pc[u] = "queued"
      <4>1. request[u].parts \subseteq Parts
        BY <3>1 DEF CInv, HoldsRequest, WellFormed
      <4>2. \A q \in request[u].parts : Own(q)' # 0 => Own(q) # 0 /\ SameRecord(q)
        BY <1>1, <1>3, <4>1 DEF Own
      <4>3. \A v \in Transforms : pc'[v] = "running" =>
              pc[v] = "running" /\ window'[v].live \subseteq window[v].live
        BY <1>1
      <4> QED BY <1>1, <4>2, <4>3, RefusedStays DEF HInv
    <3> QED BY <1>1, <3>1 DEF RefusedShows
  <2> QED BY <2>1, <2>2, <2>3
<1> QED BY <1>4, <1>5, <1>6, <1>7 DEF HInv

(* The end of a window: its parts are shown as they are recorded.          *)
LEMMA LeaveWindowShows ==
  ASSUME CInv, HInv, NEW t \in Transforms, LeaveWindow(t)
  PROVE  HInv'
<1> DEFINE C == request[t].parts
           live == window[t].live
           now == {p \in C : window[t].version[p] = hostVersion[p]}
<1>1. /\ pc[t] = "running" /\ Locks!LeaveWindow(t)
      /\ WP!Commit(t) \/ WP!Abort(t)
      /\ request' = [request EXCEPT ![t] = NoRequest]
  BY SameWindowSteps DEF LeaveWindow
<1>2. /\ window' = [window EXCEPT ![t] = WP!Closed]
      /\ UNCHANGED <<generation, hostVersion>>
      /\ \E form \in [Parts -> Forms \cup {Raw}] : WP!EndsWith(t, form)
  BY <1>1, WP!EndShows, WindowsHold DEF CInv
<1>3. PICK form \in [Parts -> Forms \cup {Raw}] : WP!EndsWith(t, form)
  BY <1>2
<1>4. /\ pc'[t] = "idle" /\ reserved'[t] = {} /\ request'[t] = NoRequest
      /\ \A u \in Transforms \ {t} :
           /\ pc'[u] = pc[u] /\ rejected'[u] = rejected[u] /\ reserved'[u] = reserved[u]
           /\ request'[u] = request[u] /\ window'[u] = window[u]
      /\ UNCHANGED <<exclusiveSessions, closing, cleanupPc, target>>
  <2>1. /\ pc'[t] = "idle" /\ reserved'[t] = {}
        /\ \A u \in Transforms \ {t} :
             /\ pc'[u] = pc[u] /\ rejected'[u] = rejected[u] /\ reserved'[u] = reserved[u]
        /\ UNCHANGED <<exclusiveSessions, closing, cleanupPc, target>>
    BY <1>1, Shapes DEF Locks!LeaveWindow, Locks!Release
  <2>2. \A u \in Transforms \ {t} : request'[u] = request[u] /\ window'[u] = window[u]
    BY <1>1, <1>2, Shapes DEF CInv
  <2>3. request'[t] = NoRequest
    BY <1>1 DEF CInv
  <2> QED BY <2>1, <2>2, <2>3
<1>5. /\ C \subseteq Parts /\ live \subseteq C /\ window[t].contents = C
      /\ \A p \in C : /\ SessionOf[p] \in reserved[t] /\ WP!Joined(t, p).generation = Own(p)
                      /\ window[t].version[p] \in Nat /\ ShowsPart(t, p)
  BY <1>1, RunningHolds DEF HInv, WindowShows
<1> HIDE DEF now, live
<1>6. ASSUME NEW p \in Parts, Own(p) # 0
      PROVE  /\ Own(p)' = Own(p) /\ Saturated(p)' = Saturated(p)
             /\ Rec(p)' = IF p \in live THEN [version |-> window[t].version[p], form |-> form[p]]
                          ELSE Rec(p)
  <2>1. SessionOf[p] \in WP!Tracked /\ Own(p)' = Own(p)
    BY <1>2, <1>6, RecordShape DEF Own
  <2>2. /\ state'[Own(p)].saturated = state[Own(p)].saturated
        /\ state'[Own(p)].parts[p] =
             IF p \in window[t].live /\ WP!Joined(t, p).generation = Own(p)
             THEN [version |-> window[t].version[p], form |-> form[p]]
             ELSE state[Own(p)].parts[p]
    BY <1>3, <2>1 DEF WP!EndsWith, Own
  <2>3. p \in live => WP!Joined(t, p).generation = Own(p)
    BY <1>5
  <2> QED BY <2>1, <2>2, <2>3 DEF Rec, Saturated, live
<1>7. \A p \in Parts : /\ hostVersion'[p] = hostVersion[p] /\ hostVersion[p] \in Nat
                       /\ hostVersion[p] <= hostVersion'[p]
                       /\ p \notin now => SameGhosts(p) /\ Sent(p)' = Sent(p)
                       /\ p \in now => Sent(p)' /\ lastSent'[p] = form[p]
                            /\ firstSent'[p] = IF Sent(p) THEN firstSent[p] ELSE form[p]
  <2> SUFFICES ASSUME NEW p \in Parts
               PROVE  /\ hostVersion'[p] = hostVersion[p] /\ hostVersion[p] \in Nat
                      /\ hostVersion[p] <= hostVersion'[p]
                      /\ p \notin now => SameGhosts(p) /\ Sent(p)' = Sent(p)
                      /\ p \in now => Sent(p)' /\ lastSent'[p] = form[p]
                           /\ firstSent'[p] = IF Sent(p) THEN firstSent[p] ELSE form[p]
    OBVIOUS
  <2>1. hostVersion[p] \in Nat /\ form[p] # WP!NotSent /\ hostVersion' = hostVersion
    BY <1>2, RecordShape
  <2>2. firstSent[p] = WP!NotSent <=> ~Sent(p)
    BY DEF HInv, GhostsAgree
  <2>3. /\ firstSent' = [r \in Parts |-> IF r \in now /\ firstSent[r] = WP!NotSent
                                         THEN form[r] ELSE firstSent[r]]
        /\ lastSent' = [r \in Parts |-> IF r \in now THEN form[r] ELSE lastSent[r]]
    BY <1>3, <1>5 DEF WP!EndsWith, WP!Send, now
  <2> QED BY <2>1, <2>2, <2>3 DEF SameGhosts, Sent
<1>8. ASSUME NEW p \in now, Sent(p) PROVE p \notin live /\ form[p] \in {Raw, firstSent[p]}
  <2>1. p \in C /\ p \in Parts /\ window[t].version[p] = hostVersion[p] /\ ShowsPart(t, p)
    BY <1>5 DEF now
  <2>2. p \notin live
    BY <1>8, <2>1 DEF ShowsPart, live
  <2>3. form[p] = window[t].form[p]
    BY <1>3, <2>1, <2>2 DEF WP!EndsWith, live
  <2>4. CASE Own(p) # 0 /\ Recorded(p)
    <3>1. Rec(p).form = form[p] /\ Rec(p).version = hostVersion[p]
      BY <2>1, <2>2, <2>3, <2>4 DEF ShowsPart, live
    <3>2. Rec(p).form \in Forms => Rec(p).form = firstSent[p]
      BY <2>1, <2>4, <3>1 DEF HInv, RecordFollows
    <3> QED BY <2>1, <2>2, <3>1, <3>2
  <2>5. CASE Own(p) = 0 \/ ~Recorded(p)
    BY <2>1, <2>2, <2>3, <2>5 DEF ShowsPart
  <2> QED BY <2>4, <2>5
<1>9. GhostsAgree'
  <2> SUFFICES ASSUME NEW p \in Parts
               PROVE  /\ firstSent'[p] = WP!NotSent <=> ~Sent(p)'
                      /\ lastSent'[p] \in {WP!NotSent, Raw, firstSent'[p]}
    BY DEF GhostsAgree
  <2>1. form[p] # WP!NotSent
    BY RecordShape
  <2>2. /\ firstSent[p] = WP!NotSent <=> ~Sent(p)
        /\ lastSent[p] \in {WP!NotSent, Raw, firstSent[p]}
    BY DEF HInv, GhostsAgree
  <2>3. CASE p \in now
    BY <1>7, <1>8, <2>1, <2>2, <2>3
  <2>4. CASE p \notin now
    BY <1>7, <2>2, <2>4 DEF SameGhosts
  <2> QED BY <2>3, <2>4
<1>10. \A u \in Transforms : \/ IdsOf(request'[u]) = {}
                             \/ u # t /\ request'[u] = request[u]
  BY <1>4 DEF IdsOf, NoRequest
<1>11. SharedHistory' /\ DeletedIsGone'
  <2>1. SharedHistory /\ DeletedIsGone
    BY DEF HInv
  <2>2. \A u \in Transforms : IdsOf(request[u])' = IdsOf(request'[u])
    BY DEF IdsOf
  <2> QED BY <1>2, <1>4, <1>10, <2>1, <2>2 DEF SharedHistory, DeletedIsGone
<1>12. ASSUME NEW p \in Parts PROVE RecordFollows(p)'
  <2>0. RecordFollows(p)
    BY DEF HInv
  <2>1. LeftAlone(SessionOf[p]) => LeftAlone(SessionOf[p])'
    BY <1>4 DEF LeftAlone
  <2>2. CASE Own(p) = 0
    BY <1>2, <2>2 DEF RecordFollows, Own
  <2>3. CASE Own(p) # 0 /\ p \in live
    <3>1. /\ p \in C /\ Rec(p)'.version = window[t].version[p] /\ Rec(p)'.form = form[p]
          /\ window[t].version[p] <= hostVersion'[p]
      BY <1>5, <1>6, <1>7, <2>3 DEF ShowsPart
    <3>2. Recorded(p)'
      <4>1. WP!Unknown.form = "unknown" /\ "unknown" \notin Forms \cup {Raw}
        BY WindowsHold DEF WP!Unknown
      <4>2. form[p] # "unknown"
        BY <4>1
      <4>3. Rec(p)' # WP!Unknown
        BY <3>1, <4>1, <4>2
      <4> QED BY <4>3 DEF Recorded
    <3>3. CASE Rec(p)'.version = hostVersion'[p]
      <4>1. p \in now
        BY <1>7, <3>1, <3>3 DEF now
      <4>2. ~Sent(p)
        BY <1>8, <2>3, <4>1
      <4> QED BY <1>7, <3>1, <3>2, <4>1, <4>2 DEF RecordFollows
    <3>4. CASE Rec(p)'.version # hostVersion'[p]
      BY <3>1, <3>2, <3>4 DEF RecordFollows
    <3> QED BY <3>3, <3>4
  <2>4. CASE Own(p) # 0 /\ p \notin live
    <3>1. /\ Own(p)' = Own(p) /\ Rec(p)' = Rec(p) /\ Saturated(p)' = Saturated(p)
          /\ Recorded(p)' = Recorded(p) /\ SameRecord(p)
      BY <1>6, <2>4 DEF SameRecord, Recorded
    <3>2. CASE p \in now
      <4>1. /\ p \in C /\ window[t].version[p] = hostVersion[p] /\ ShowsPart(t, p)
            /\ form[p] = window[t].form[p]
        BY <1>3, <1>5, <2>4, <3>2 DEF now, WP!EndsWith, live
      <4>2. /\ Recorded(p) => Rec(p).form = form[p]
            /\ ~Recorded(p) => Saturated(p)
        BY <2>4, <4>1 DEF ShowsPart, live
      <4>3. Rec(p).form \in Forms /\ Rec(p).version = hostVersion[p] => Rec(p).form = firstSent'[p]
        <5> SUFFICES ASSUME Rec(p).form \in Forms, Rec(p).version = hostVersion[p]
                     PROVE  Rec(p).form = firstSent'[p]
          OBVIOUS
        <5>1. Rec(p).form = firstSent[p] /\ firstSent[p] # WP!NotSent
          BY <2>0, <2>4, RecordShape DEF RecordFollows
        <5>2. Sent(p)
          BY <5>1 DEF HInv, GhostsAgree
        <5> QED BY <1>7, <3>2, <5>1, <5>2
      <4> QED BY <1>7, <2>0, <2>4, <3>1, <3>2, <4>2, <4>3 DEF RecordFollows
    <3>3. CASE p \notin now
      <4>1. CASE Held(SessionOf[p]) => Held(SessionOf[p])'
        BY <1>4, <1>7, <2>0, <2>1, <3>1, <3>3, <4>1, RecordStays
      <4>2. CASE Held(SessionOf[p]) /\ ~Held(SessionOf[p])'
        <5>1. SessionOf[p] \in reserved[t]
          BY <1>4, <4>2 DEF Held
        <5>2. SessionOf[p] \in IdsOf(request[t])
          BY <5>1, HoldersCarry
        <5>3. Sent(p) => p \in C
          BY <1>1, <5>2 DEF HInv, Carries
        <5>4. CASE Sent(p)
          <6>1. p \in C /\ window[t].version[p] # hostVersion[p] /\ ShowsPart(t, p)
            BY <1>5, <3>3, <5>3, <5>4 DEF now
          <6>2. Recorded(p) => Rec(p).version # hostVersion[p]
            BY <2>4, <6>1 DEF ShowsPart
          <6>3. Recorded(p) \/ Saturated(p)
            BY <2>4, <6>1 DEF ShowsPart
          <6> QED BY <1>7, <2>0, <2>4, <3>1, <3>3, <6>2, <6>3 DEF RecordFollows, SameGhosts
        <5>5. CASE ~Sent(p)
          BY <1>7, <2>0, <2>4, <3>1, <3>3, <5>5 DEF RecordFollows, SameGhosts
        <5> QED BY <5>4, <5>5
      <4> QED BY <4>1, <4>2
    <3> QED BY <3>2, <3>3
  <2> QED BY <2>2, <2>3, <2>4
<1>13. Carries(t)' /\ WindowShows(t)' /\ RefusedShows(t)'
  BY <1>4 DEF Carries, IdsOf, NoRequest, WindowShows, RefusedShows
<1>14. ASSUME NEW u \in Transforms, u # t
       PROVE  Carries(u)' /\ WindowShows(u)' /\ RefusedShows(u)'
  <2>1. Carries(u)'
    <3>1. \A p \in Parts : SessionOf[p] \in IdsOf(request[u]) /\ Sent(p)'
                             => Sent(p) \/ p \in request[u].parts
      <4> SUFFICES ASSUME NEW p \in Parts, SessionOf[p] \in IdsOf(request[u]), p \in now
                   PROVE  p \in request[u].parts
        BY <1>7
      <4>1. p \in C /\ SessionOf[p] \in IdsOf(request[t])
        BY DEF now, HInv, Carries
      <4> QED BY <4>1 DEF HInv, SharedHistory
    <3> QED BY <1>4, <1>7, <1>14, <3>1, CarriesStays DEF HInv
  <2>2. WindowShows(u)'
    <3>1. pc[u] = "running" => request[u].parts \subseteq Parts
      BY RunningHolds
    <3>2. pc[u] = "running" => \A p \in request[u].parts : p \notin C
      BY <1>1, <1>14, RunningApart
    <3>3. pc[u] = "running" =>
            \A p \in request[u].parts :
              SameRecord(p) /\ (Sent(p)' => Sent(p) /\ hostVersion'[p] = hostVersion[p])
      <4> SUFFICES ASSUME pc[u] = "running", NEW p \in request[u].parts
                   PROVE  /\ SameRecord(p)
                          /\ Sent(p)' => Sent(p) /\ hostVersion'[p] = hostVersion[p]
        OBVIOUS
      <4>1. p \in Parts /\ p \notin live /\ p \notin now
        BY <1>5, <3>1, <3>2 DEF now
      <4>2. Own(p)' = Own(p)
        BY <1>2 DEF Own
      <4> QED BY <1>6, <1>7, <4>1, <4>2 DEF SameRecord
    <3> QED BY <1>4, <1>7, <1>14, <3>3, WindowStays
  <2>3. RefusedShows(u)'
    <3> SUFFICES ASSUME pc[u] = "queued", NEW p \in request[u].parts,
                        SessionOf[p] \in rejected[u] \ exclusiveSessions, Own(p)' # 0
                 PROVE  /\ Rec(p)'.form = Raw \/ (~Recorded(p)' /\ Saturated(p)')
                        /\ \A v \in Transforms : pc'[v] = "running" => p \notin window'[v].live
      BY <1>4, <1>14 DEF RefusedShows
    <3>1. p \in Parts /\ Own(p) # 0
      BY <1>2 DEF Own, CInv, HoldsRequest, WellFormed
    <3>2. /\ Rec(p).form = Raw \/ (~Recorded(p) /\ Saturated(p))
          /\ \A v \in Transforms : pc[v] = "running" => p \notin window[v].live
      BY <3>1 DEF HInv, RefusedShows
    <3>3. p \notin live
      BY <1>1, <3>2 DEF live
    <3>4. Rec(p)' = Rec(p) /\ Saturated(p)' = Saturated(p) /\ Recorded(p)' = Recorded(p)
      BY <1>6, <3>1, <3>3 DEF Recorded
    <3>5. \A v \in Transforms : pc'[v] = "running" => pc[v] = "running" /\ window'[v] = window[v]
      BY <1>4
    <3> QED BY <3>2, <3>4, <3>5
  <2> QED BY <2>1, <2>2, <2>3
<1> QED BY <1>9, <1>11, <1>12, <1>13, <1>14 DEF HInv

(* What begin finds of a part, r, whether it kept the object, and whether  *)
(* the session is full.                                                    *)
PartOpened(t, p, r, kept, full) ==
  /\ kept => Own(p)' = Own(p) /\ r = Rec(p) /\ (Saturated(p) => full)
  /\ ~kept => r = WP!Unknown
  /\ full => Saturated(p)'
  /\ Rec(p)' = IF p \in request[t].parts
                  /\ (IF r # WP!Unknown THEN r.version # request[t].at[p] ELSE ~full)
               THEN WP!RawRecord(request[t].at[p]) ELSE r
  /\ p \in request[t].parts =>
       /\ p \in window'[t].live => r = WP!Unknown /\ ~full /\ kept
       /\ window'[t].form[p] =
            IF r.form \in Forms /\ r.version = request[t].at[p] THEN r.form ELSE Raw

(* begin: what it may change the model has not seen, what it records or    *)
(* replays is what the model saw.                                          *)
LEMMA EnterWindowShows ==
  ASSUME CInv, HInv, NEW t \in Transforms, EnterWindow(t)
  PROVE  HInv'
<1> DEFINE q == request[t]
           C == q.parts
           at == q.at
           ids == IdsOf(q)
<1>1. /\ Locks!Acquired(t) /\ Locks!OpenWindow(t) /\ request' = request
      /\ WP!Begin(t, q, at)
  BY SameBegin DEF EnterWindow
<1>2. /\ pc[t] = "queued" /\ behind[t] = {} /\ rejected[t] = {}
      /\ pc'[t] = "running" /\ \A u \in Transforms \ {t} : pc'[u] = pc[u]
      /\ UNCHANGED <<rejected, reserved, exclusiveSessions, closing, cleanupPc, target>>
  BY <1>1, Shapes DEF Locks!Acquired, Locks!OpenWindow, Locks!cleanupVars, Locks!closeVars
<1>3. /\ WellFormed(q) /\ reserved[t] = ids /\ Carries(t) /\ at \in [Parts -> Nat]
      /\ C \in SUBSET Parts /\ q.ids \in Seq(SessionIDs) /\ WP!IsInjective(q.ids)
  BY <1>2 DEF CInv, HInv, HoldsRequest, WellFormed
<1>4. /\ \A s \in SessionIDs : s \notin ids => \A k \in 1 .. Len(q.ids) : q.ids[k] # s
      /\ \A s \in ids : \E k \in 1 .. Len(q.ids) : q.ids[k] = s
  BY <1>3 DEF IdsOf
<1>5. \A p \in C : \E k \in 1 .. Len(q.ids) : q.ids[k] = SessionOf[p]
  BY <1>3, <1>4 DEF Carries
<1>6. /\ UNCHANGED <<hostVersion, firstSent, lastSent>>
      /\ \A v \in Transforms \ {t} :
           /\ window'[v].contents = window[v].contents /\ window'[v].live = window[v].live
           /\ window'[v].version = window[v].version /\ window'[v].form = window[v].form
      /\ window'[t].contents = C
      /\ \A p \in C :
           /\ window'[t].version[p] = at[p]
           /\ generation'[SessionOf[p]] = 0
                => p \notin window'[t].live /\ window'[t].form[p] = Raw
      /\ \A s \in SessionIDs :
           (\A k \in 1 .. Len(q.ids) : q.ids[k] # s) /\ generation'[s] # 0
             => /\ generation'[s] = generation[s]
                /\ state'[generation[s]].parts = state[generation[s]].parts
                /\ state'[generation[s]].saturated = state[generation[s]].saturated
      /\ \A k \in 1 .. Len(q.ids) :
           generation'[q.ids[k]] # 0 => WP!Opened(t, q, at, q.ids[k])
  BY <1>1, <1>3, <1>5, WP!BeginShows, WindowsHold DEF CInv
<1>7. CInv'
  BY EnterWindowKeeps
<1>8. /\ WP!Unknown.form = "unknown" /\ WP!Unknown.version = 0
      /\ "unknown" \notin Forms \cup {Raw} /\ Raw \notin Forms
  BY WindowsHold DEF WP!Unknown
<1>9. \A v : WP!RawRecord(v).version = v /\ WP!RawRecord(v).form = Raw
             /\ WP!RawRecord(v) # WP!Unknown
  <2> SUFFICES ASSUME NEW v PROVE /\ WP!RawRecord(v).version = v /\ WP!RawRecord(v).form = Raw
                                  /\ WP!RawRecord(v) # WP!Unknown
    OBVIOUS
  <2>1. WP!RawRecord(v).version = v /\ WP!RawRecord(v).form = Raw
    BY DEF WP!RawRecord
  <2> QED BY <1>8, <2>1
<1>10. ASSUME NEW p \in Parts, SessionOf[p] \notin ids, Own(p)' # 0
       PROVE  SameRecord(p)
  <2>1. SessionOf[p] \in SessionIDs
    BY RecordShape
  <2> QED BY <1>4, <1>6, <1>10, <2>1 DEF SameRecord, Own, Rec, Saturated
<1>11. ASSUME NEW p \in Parts, SessionOf[p] \in ids, Own(p)' # 0
       PROVE  \E r \in WP!Record \cup {WP!Unknown} : \E kept, full \in BOOLEAN :
                PartOpened(t, p, r, kept, full)
  <2>1. WP!Opened(t, q, at, SessionOf[p])
    BY <1>4, <1>6, <1>11 DEF Own
  <2>2. PICK S \in WP!SessionState, full \in BOOLEAN :
          /\ WP!Found(SessionOf[p], S) \/ S.parts = WP!Fresh.parts
          /\ S.saturated => full
          /\ full => state'[Own(p)'].saturated
          /\ Rec(p)' = IF p \in q.parts
                          /\ (IF WP!Known(S, p) THEN S.parts[p].version # at[p] ELSE ~full)
                       THEN WP!RawRecord(at[p]) ELSE S.parts[p]
          /\ p \in q.parts =>
               /\ p \in window'[t].live => ~WP!Known(S, p) /\ ~full /\ WP!Found(SessionOf[p], S)
               /\ window'[t].form[p] =
                    IF WP!Changed(S.parts[p]) /\ S.parts[p].version = at[p]
                    THEN S.parts[p].form ELSE Raw
    BY <2>1 DEF WP!Opened, Own, Rec
  <2> DEFINE r == S.parts[p]
             kept == WP!Found(SessionOf[p], S)
  <2>3. r \in WP!Record \cup {WP!Unknown}
    BY DEF WP!SessionState
  <2>4. kept => Own(p)' = Own(p) /\ r = Rec(p) /\ (Saturated(p) => full)
    BY <2>2 DEF WP!Found, Own, Rec, Saturated
  <2>5. ~kept => r = WP!Unknown
    BY <2>2 DEF WP!Fresh
  <2>6. PartOpened(t, p, r, kept, full)
    BY <2>2, <2>4, <2>5 DEF PartOpened, WP!Known, WP!Changed, Saturated
  <2>7. kept \in BOOLEAN
    BY DEF WP!Found
  <2> HIDE DEF r, kept
  <2> QED BY <2>3, <2>6, <2>7
<1>12. \A r \in WP!Record \cup {WP!Unknown} :
         /\ r.form \in Forms \cup {Raw, "unknown"}
         /\ r # WP!Unknown => r.form \in Forms \cup {Raw}
  BY <1>8 DEF WP!Record
<1>13. ASSUME NEW p \in Parts PROVE /\ SameGhosts(p) /\ Sent(p)' = Sent(p)
                                    /\ hostVersion'[p] = hostVersion[p]
                                    /\ hostVersion[p] \in Nat /\ at[p] \in Nat
                                    /\ at[p] <= hostVersion[p]
  BY <1>2, <1>3, <1>6, RecordShape DEF SameGhosts, Sent, Carries
<1> HIDE DEF ids, C, at
<1>14. ASSUME NEW p \in Parts PROVE RecordFollows(p)'
  <2>1. /\ LeftAlone(SessionOf[p]) => LeftAlone(SessionOf[p])'
        /\ Held(SessionOf[p]) => Held(SessionOf[p])'
        /\ SessionOf[p] \in ids => Held(SessionOf[p])'
    BY <1>2, <1>3 DEF LeftAlone, Held
  <2>2. CASE SessionOf[p] \notin ids \/ Own(p)' = 0
    BY <1>2, <1>10, <1>13, <2>1, <2>2, RecordStays DEF HInv
  <2>3. CASE SessionOf[p] \in ids /\ Own(p)' # 0
    <3>1. PICK r \in WP!Record \cup {WP!Unknown}, kept \in BOOLEAN, full \in BOOLEAN :
            PartOpened(t, p, r, kept, full)
      BY <1>11, <2>3
    <3>2. kept => RecordFollows(p) /\ Own(p) # 0 /\ r = Rec(p)
      BY <2>3, <3>1 DEF PartOpened, HInv
    <3>3. Rec(p)' = r \/ (p \in C /\ Rec(p)' = WP!RawRecord(at[p]))
      BY <3>1 DEF PartOpened, C, at
    <3>4. Rec(p)'.version <= hostVersion'[p]
      <4>1. r.version <= hostVersion[p]
        BY <1>8, <1>13, <3>1, <3>2 DEF PartOpened, RecordFollows
      <4> QED BY <1>9, <1>13, <3>3, <4>1
    <3>5. Sent(p)' => Recorded(p)' \/ Saturated(p)'
      <4>1. Sent(p) => p \in C
        BY <1>2, <1>3, <2>3 DEF Carries, ids, C
      <4>2. p \in C => Rec(p)' # WP!Unknown \/ full
        BY <1>9, <3>1 DEF PartOpened, C
      <4> QED BY <1>13, <3>1, <4>1, <4>2 DEF PartOpened, Recorded
    <3>6. Rec(p)'.form \in Forms /\ Rec(p)'.version = hostVersion'[p]
            => Rec(p)'.form = firstSent'[p]
      <4> SUFFICES ASSUME Rec(p)'.form \in Forms, Rec(p)'.version = hostVersion'[p]
                   PROVE  Rec(p)'.form = firstSent'[p]
        OBVIOUS
      <4>1. Rec(p)' = r
        BY <1>8, <1>9, <3>3
      <4>2. kept
        BY <1>8, <3>1, <4>1 DEF PartOpened
      <4> QED BY <1>13, <3>2, <4>1, <4>2 DEF RecordFollows, SameGhosts
    <3> QED BY <2>1, <2>3, <3>4, <3>5, <3>6 DEF RecordFollows
  <2> QED BY <2>2, <2>3
<1>15. ASSUME NEW p \in C PROVE ShowsPart(t, p)'
  <2>1. p \in Parts /\ SessionOf[p] \in ids /\ SessionOf[p] \in reserved[t]
    BY <1>3 DEF Carries, C, ids
  <2>2. window'[t].version[p] = at[p] /\ at[p] <= hostVersion'[p]
    BY <1>6, <1>13, <2>1
  <2>3. CASE Own(p)' = 0
    <3>1. p \notin window'[t].live /\ window'[t].form[p] = Raw
      BY <1>6, <2>3 DEF Own
    <3> QED BY <2>2, <2>3, <3>1 DEF ShowsPart
  <2>4. CASE Own(p)' # 0
    <3>1. PICK r \in WP!Record \cup {WP!Unknown}, kept \in BOOLEAN, full \in BOOLEAN :
            PartOpened(t, p, r, kept, full)
      BY <1>11, <2>1, <2>4
    <3>2. /\ p \in window'[t].live => r = WP!Unknown /\ ~full /\ kept
          /\ window'[t].form[p] = IF r.form \in Forms /\ r.version = at[p] THEN r.form ELSE Raw
          /\ Rec(p)' = IF IF r # WP!Unknown THEN r.version # at[p] ELSE ~full
                       THEN WP!RawRecord(at[p]) ELSE r
          /\ full => Saturated(p)'
      BY <3>1 DEF PartOpened, C, at
    <3>3. p \in window'[t].live => ~Sent(p)'
      <4> SUFFICES ASSUME p \in window'[t].live, Sent(p) PROVE FALSE
        BY <1>13, <2>1
      <4>1. r = Rec(p) /\ Own(p) # 0 /\ ~Saturated(p) /\ ~Recorded(p)
        BY <2>4, <3>1, <3>2 DEF PartOpened, Recorded
      <4>2. LeftAlone(SessionOf[p])
        BY <2>1, <4>1 DEF HInv, RecordFollows
      <4> QED BY <2>1, <4>2 DEF LeftAlone
    <3>4. \/ /\ Recorded(p)' /\ Rec(p)'.version = window'[t].version[p]
             /\ p \notin window'[t].live => Rec(p)'.form = window'[t].form[p]
          \/ /\ ~Recorded(p)' /\ Saturated(p)'
             /\ p \notin window'[t].live /\ window'[t].form[p] = Raw
      <4>1. CASE r # WP!Unknown /\ r.version # at[p]
        BY <1>9, <2>2, <3>2, <4>1 DEF Recorded
      <4>2. CASE r # WP!Unknown /\ r.version = at[p]
        BY <1>12, <2>2, <3>2, <4>2 DEF Recorded
      <4>3. CASE r = WP!Unknown /\ ~full
        BY <1>8, <1>9, <2>2, <3>2, <4>3 DEF Recorded
      <4>4. CASE r = WP!Unknown /\ full
        BY <1>8, <2>2, <3>2, <4>4 DEF Recorded
      <4> QED BY <4>1, <4>2, <4>3, <4>4
    <3> QED BY <2>2, <2>4, <3>3, <3>4 DEF ShowsPart
  <2> QED BY <2>3, <2>4
<1>16. ASSUME NEW u \in Transforms, u # t, pc[u] = "running"
       PROVE  /\ reserved[u] \cap ids = {}
              /\ \A p \in request[u].parts : p \in Parts /\ SameRecord(p)
  <2>1. reserved[u] \cap ids = {}
    <3>1. LP!IInv /\ t \in LP!Active /\ u \in LP!Active /\ t # u /\ behind[u] = {}
      BY <1>2, <1>16 DEF CInv, LP!IInv, LP!HoldersActive, LP!Active
    <3> QED BY <1>2, <1>3, <3>1, LP!FirstOnesDisjoint, LocksHold
  <2>2. window'[u].joined = window[u].joined
    BY <1>1, <1>3, <1>16, WP!BeginAdmits, WindowsHold DEF CInv
  <2>3. \A s \in reserved[u] : generation'[s] = generation[s]
    <3>1. /\ \A s \in reserved[u] : window[u].joined[s].generation = generation[s]
          /\ \A s \in reserved'[u] : window'[u].joined[s].generation = generation'[s]
      BY <1>2, <1>7, <1>16 DEF CInv, WindowFollows
    <3> QED BY <1>2, <2>2, <3>1
  <2>4. ASSUME NEW p \in request[u].parts PROVE p \in Parts /\ SameRecord(p)
    <3>1. p \in Parts /\ SessionOf[p] \in reserved[u] /\ SessionOf[p] \notin ids
      BY <1>16, <2>1, RunningHolds
    <3>2. Own(p)' = Own(p)
      BY <2>3, <3>1 DEF Own
    <3> QED BY <1>10, <3>1, <3>2 DEF SameRecord
  <2> QED BY <2>1, <2>4
<1>17. GhostsAgree' /\ SharedHistory'
  BY <1>1, <1>6 DEF HInv, GhostsAgree, Sent, SharedHistory, IdsOf
<1>18. DeletedIsGone'
  <2> SUFFICES ASSUME NEW c \in Cleanups, cleanupPc[c] = "deleted" PROVE generation'[target[c]] = 0
    BY <1>2 DEF DeletedIsGone
  <2>1. generation[target[c]] = 0 /\ target[c] \in SessionIDs
    BY Shapes DEF HInv, DeletedIsGone, CInv, LP!IInv, LP!CleanupTargets, LP!ActiveCleanups
  <2>2. target[c] \notin reserved[t]
    BY LP!DeletingAlone, LocksHold DEF CInv
  <2>3. \A k \in 1 .. Len(q.ids) : q.ids[k] # target[c]
    BY <1>3, <1>4, <2>1, <2>2
  <2> QED BY <1>6, <2>1, <2>3
<1>19. WindowShows(t)' /\ Carries(t)' /\ RefusedShows(t)'
  <2>1. WindowShows(t)'
    BY <1>1, <1>2, <1>6, <1>15 DEF WindowShows, C
  <2>2. Carries(t)'
    BY <1>1, <1>2, <1>3, <1>6 DEF Carries, IdsOf, Sent
  <2>3. RefusedShows(t)'
    BY <1>2 DEF RefusedShows
  <2> QED BY <2>1, <2>2, <2>3
<1>20. ASSUME NEW u \in Transforms, u # t
       PROVE  Carries(u)' /\ WindowShows(u)' /\ RefusedShows(u)'
  <2>1. Carries(u)'
    BY <1>1, <1>2, <1>13, <1>20, CarriesStays DEF HInv
  <2>2. WindowShows(u)'
    <3>1. pc[u] = "running" =>
            \A p \in request[u].parts :
              SameRecord(p) /\ (Sent(p)' => Sent(p) /\ hostVersion'[p] = hostVersion[p])
      BY <1>13, <1>16, <1>20
    <3> QED BY <1>1, <1>2, <1>6, <1>13, <1>20, <3>1, WindowStays
  <2>3. RefusedShows(u)'
    <3> SUFFICES ASSUME pc[u] = "queued", NEW p \in request[u].parts,
                        SessionOf[p] \in rejected[u] \ exclusiveSessions, Own(p)' # 0
                 PROVE  /\ Rec(p)'.form = Raw \/ (~Recorded(p)' /\ Saturated(p)')
                        /\ \A v \in Transforms : pc'[v] = "running" => p \notin window'[v].live
      BY <1>1, <1>2, <1>20 DEF RefusedShows
    <3>1. p \in Parts
      BY DEF CInv, HoldsRequest, WellFormed
    <3>2. Own(p) # 0 => /\ Rec(p).form = Raw \/ (~Recorded(p) /\ Saturated(p))
                        /\ \A v \in Transforms : pc[v] = "running" => p \notin window[v].live
      BY DEF HInv, RefusedShows
    <3>3. CASE SessionOf[p] \in ids
      <4>1. PICK r \in WP!Record \cup {WP!Unknown}, kept \in BOOLEAN, full \in BOOLEAN :
              PartOpened(t, p, r, kept, full)
        BY <1>11, <3>1, <3>3
      <4>2. p \in C
        BY <3>1, <3>3, <1>20 DEF HInv, SharedHistory, Carries, C, ids
      <4>3. r.form = Raw \/ (r = WP!Unknown /\ (kept => full))
        BY <3>2, <4>1 DEF PartOpened, Recorded
      <4>4. Rec(p)'.form = Raw \/ (~Recorded(p)' /\ Saturated(p)')
        <5>1. /\ Rec(p)' = IF IF r # WP!Unknown THEN r.version # at[p] ELSE ~full
                           THEN WP!RawRecord(at[p]) ELSE r
              /\ full => Saturated(p)'
          BY <4>1, <4>2 DEF PartOpened, C, at
        <5>2. CASE Rec(p)' = WP!RawRecord(at[p])
          BY <1>9, <5>2
        <5>3. CASE Rec(p)' = r /\ (r = WP!Unknown => full)
          BY <1>8, <4>3, <5>1, <5>3 DEF Recorded
        <5> QED BY <5>1, <5>2, <5>3
      <4>5. p \notin window'[t].live
        BY <1>8, <4>1, <4>2, <4>3 DEF PartOpened, C
      <4>6. ASSUME NEW v \in Transforms \ {t}, pc'[v] = "running" PROVE p \notin window'[v].live
        <5>1. pc[v] = "running" /\ window'[v].live = window[v].live
          BY <1>2, <1>6, <4>6
        <5>2. p \in window[v].live => SessionOf[p] \in reserved[v]
          BY <5>1, RunningHolds
        <5> QED BY <1>16, <3>3, <5>1, <5>2
      <4> QED BY <4>4, <4>5, <4>6
    <3>4. CASE SessionOf[p] \notin ids
      <4>1. /\ Own(p) # 0 /\ Rec(p)' = Rec(p) /\ Saturated(p)' = Saturated(p)
            /\ Recorded(p)' = Recorded(p)
        BY <1>10, <3>1, <3>4 DEF SameRecord, Recorded
      <4>2. p \notin window'[t].live
        <5>1. window'[t].live \subseteq C
          BY <1>6, <1>7 DEF CInv, WP!IInv, WP!TypeOK
        <5> QED BY <1>3, <3>4, <5>1 DEF Carries, C, ids
      <4>3. \A v \in Transforms \ {t} : pc'[v] = "running" => p \notin window'[v].live
        BY <1>2, <1>6, <3>2, <4>1
      <4> QED BY <3>2, <4>1, <4>2, <4>3
    <3> QED BY <3>3, <3>4
  <2> QED BY <2>1, <2>2, <2>3
<1> QED BY <1>14, <1>17, <1>18, <1>19, <1>20 DEF HInv

(* At the start the model has seen nothing and nothing is recorded.        *)
LEMMA InitShows == Init => HInv
<1> SUFFICES ASSUME Init PROVE HInv
  OBVIOUS
<1>1. /\ firstSent = [p \in Parts |-> WP!NotSent] /\ lastSent = [p \in Parts |-> WP!NotSent]
      /\ generation = [s \in SessionIDs |-> 0]
      /\ pc = [t \in Transforms |-> "idle"]
      /\ cleanupPc = [c \in Cleanups |-> "idle"]
      /\ request = [t \in Transforms |-> NoRequest]
  BY DEF Init, Locks!Init, Lifecycle!Init, Lifecycle!NotSent, WP!NotSent
<1>2. \A t \in Transforms : IdsOf(request[t]) = {} /\ request[t].parts = {}
  BY <1>1 DEF IdsOf, NoRequest
<1>3. GhostsAgree /\ SharedHistory /\ DeletedIsGone
  BY <1>1, <1>2 DEF GhostsAgree, Sent, SharedHistory, DeletedIsGone
<1>4. \A t \in Transforms : Carries(t) /\ WindowShows(t) /\ RefusedShows(t)
  BY <1>1, <1>2 DEF Carries, WindowShows, RefusedShows
<1>5. \A p \in Parts : RecordFollows(p)
  BY <1>1, WindowsHold DEF RecordFollows, Own
<1> QED BY <1>3, <1>4, <1>5 DEF HInv

(* Every step of a plugin whose requests have one session each.            *)
LEMMA NextShows ==
  ASSUME OneSession, CInv, HInv, [Next]_vars
  PROVE  HInv'
<1>1. ASSUME NEW t \in Transforms, NEW q \in Requests, Arrive(t, q) PROVE HInv'
  BY <1>1, ArriveShows
<1>2. ASSUME NEW t \in Transforms,
             Retry(t) \/ FailOpen(t) \/ EnterWindow(t) \/ LeaveWindow(t)
      PROVE  HInv'
  BY <1>2, RetryShows, FailOpenShows, EnterWindowShows, LeaveWindowShows
<1>3. ASSUME NEW t \in Transforms, NEW p \in Parts, Transform(t, p) PROVE HInv'
  BY <1>3, TransformShows
<1>4. ASSUME NEW q \in Requests, FailOpenClosing(q) PROVE HInv'
  BY <1>4, FailOpenClosingShows
<1>5. ASSUME NEW c \in Cleanups, NEW s \in SessionIDs, RequestCleanup(c, s) PROVE HInv'
  BY <1>5, RequestCleanupShows
<1>6. ASSUME NEW c \in Cleanups, CleanupStep(c) \/ DeleteSession(c) PROVE HInv'
  BY <1>6, CleanupStepShows, DeleteSessionShows
<1>7. CASE CloseAndDrain \/ Dispose
  BY <1>7, CloseAndDrainShows, DisposeShows
<1>8. ASSUME NEW p \in Parts, HostEdit(p) PROVE HInv'
  BY <1>8, HostEditShows
<1>9. CASE UNCHANGED vars
  <2>1. /\ UNCHANGED <<windowVars, request, pc, rejected, reserved>>
        /\ UNCHANGED <<exclusiveSessions, closing, cleanupPc, target, generation>>
    BY <1>9 DEF vars, lockVars, windowVars
  <2>2. DeletedIsGone'
    BY <2>1 DEF HInv, DeletedIsGone
  <2> QED BY <2>1, <2>2, QueuesShow
<1> QED BY <1>1, <1>2, <1>3, <1>4, <1>5, <1>6, <1>7, <1>8, <1>9 DEF Next

(* A request of one session at a time, and what the records say of what    *)
(* the model has seen, whatever is evicted, deleted, refused, edited or    *)
(* closed between the requests.                                            *)
THEOREM HistoryInductive == ASSUME OneSession PROVE Spec => [](CInv /\ HInv)
<1>1. Init => CInv /\ HInv
  BY InitCInv, InitShows
<1>2. CInv /\ HInv /\ [Next]_vars => (CInv /\ HInv)'
  BY NextCInv, NextShows
<1> QED BY <1>1, <1>2, PTL DEF Spec

(* A part the model has seen is sent again in the form it was first seen   *)
(* in, or raw: no eviction, deletion, refusal for lack of capacity or      *)
(* failure makes the manager change what it has once sent raw, or send a   *)
(* form other than the first.                                              *)
THEOREM RepresentationKept == ASSUME OneSession PROVE Spec => []RepresentationStable
<1>1. CInv /\ HInv => RepresentationStable
  BY DEF HInv, GhostsAgree, RepresentationStable, Lifecycle!RepresentationStable,
         Lifecycle!NotSent, WP!NotSent
<1> QED BY <1>1, HistoryInductive, PTL

(* Once no window is open on a session, the record kept of each of its     *)
(* parts is the form the model last saw: the next request will replay that *)
(* one.                                                                    *)
THEOREM RecordsFollowTheModel == ASSUME OneSession PROVE Spec => []RecordIsLastSent
<1>1. CInv /\ HInv => RecordIsLastSent
  <2> SUFFICES ASSUME CInv, HInv, NEW p \in Parts,
                      Own(p) # 0, state[Own(p)].openWindows = 0,
                      SessionOf[p] \notin exclusiveSessions, ~closing,
                      Rec(p).form # "unknown", Rec(p).version = hostVersion[p], Sent(p)
               PROVE  Rec(p).form = lastSent[p]
    BY DEF RecordIsLastSent, Own, Rec, Sent, Lifecycle!NotSent, WP!NotSent
  <2>1. RecordFollows(p)
    BY DEF HInv
  <2>2. Recorded(p) /\ SessionOf[p] \in SessionIDs /\ Own(p) \in WP!Generations
    BY RecordShape
  <2>3. ~Held(SessionOf[p])
    <3> SUFFICES ASSUME NEW t \in Transforms, pc[t] = "running", SessionOf[p] \in reserved[t]
                 PROVE  FALSE
      BY DEF Held
    <3>1. window[t].joined[SessionOf[p]].generation = Own(p)
      BY DEF CInv, WindowFollows, Own
    <3>2. WP!IInv /\ window[t].joined[SessionOf[p]].generation \in WP!Generations
      BY <2>2, <3>1 DEF CInv
    <3>3. state[window[t].joined[SessionOf[p]].generation].openWindows # 0
      BY <2>2, <3>2, WP!JoinedIsCounted, WindowsHold
    <3> QED BY <3>1, <3>3
  <2> QED BY <2>1, <2>2, <2>3 DEF RecordFollows
<1> QED BY <1>1, HistoryInductive, PTL
=============================================================================
