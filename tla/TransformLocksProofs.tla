------------------------ MODULE TransformLocksProofs ------------------------
(***************************************************************************)
(* Proofs of TransformLocks for every number of calls, deletions and       *)
(* sessions.                                                               *)
(*                                                                         *)
(* A call waits only for the tails it found, and a tail is forgotten as    *)
(* soon as a later call replaces it; that nevertheless nobody overtakes    *)
(* anybody is the work of an order the code never represents: the order in *)
(* which the calls reserved.  The inductive invariant says that some total *)
(* order of the calls explains every wait and every tail (Explains), that  *)
(* some total order of the deletions does (CleanupExplains), and that      *)
(* closing and the captured tails follow the queues.                       *)
(***************************************************************************)
EXTENDS TransformLocks, FiniteSetTheorems, TLAPS

Active == {t \in Transforms : pc[t] \in {"queued", "running"}}

(* R is a strict total order of S.                                         *)
StrictOrder(R, S) ==
  /\ \A t \in S : <<t, t>> \notin R
  /\ \A t, u, v \in S : <<t, u>> \in R /\ <<u, v>> \in R => <<t, v>> \in R
  /\ \A t, u \in S : t # u => <<t, u>> \in R \/ <<u, t>> \in R

(* A call with an earlier one ahead of it in some queue waits for that one *)
(* or for another that comes between the two.                              *)
WaitsBehind(R) ==
  \A t, u \in Active : \A s \in reserved[t] \cap reserved[u] :
    <<u, t>> \in R =>
      \E w \in behind[t] : s \in reserved[w] /\ (w = u \/ <<u, w>> \in R)

(* The tail of a queue is the last call in it.                             *)
TailIsLast(R) ==
  \A s \in SessionIDs :
    /\ transformTails[s] = None => \A t \in Active : s \notin reserved[t]
    /\ transformTails[s] # None =>
         /\ transformTails[s] \in Active
         /\ s \in reserved[transformTails[s]]
         /\ \A t \in Active : s \in reserved[t] =>
              t = transformTails[s] \/ <<t, transformTails[s]>> \in R

Explains(R) == StrictOrder(R, Active) /\ WaitsBehind(R) /\ TailIsLast(R)
QueuesOrdered == \E R \in SUBSET (Transforms \X Transforms) : Explains(R)

(* Only active calls hold reservations, and one that runs waits for none.  *)
HoldersActive ==
  \A t \in Transforms :
    /\ t \notin Active => reserved[t] = {} /\ behind[t] = {}
    /\ pc[t] = "running" => behind[t] = {}

ActiveCleanups == {c \in Cleanups : cleanupPc[c] # "idle"}
InExclusive == {c \in Cleanups : cleanupPc[c] \in {"exclusive", "deleting", "deleted"}}

(* Deletions wait for the one before them; the tail is the last.           *)
CleanupExplains(Q) ==
  /\ StrictOrder(Q, ActiveCleanups)
  /\ \A c, d \in ActiveCleanups : <<d, c>> \in Q =>
       /\ cleanupBehind[c] # None
       /\ cleanupBehind[c] \in ActiveCleanups
       /\ cleanupBehind[c] = d \/ <<d, cleanupBehind[c]>> \in Q
  /\ cleanupTail = None => ActiveCleanups = {}
  /\ cleanupTail # None =>
       /\ cleanupTail \in ActiveCleanups
       /\ \A c \in ActiveCleanups : c = cleanupTail \/ <<c, cleanupTail>> \in Q
CleanupsOrdered == \E Q \in SUBSET (Cleanups \X Cleanups) : CleanupExplains(Q)

(* A deletion in its exclusive phase waits for nobody before it; its       *)
(* session is closed to new calls, so the tail it captured stays the tail. *)
ExclusiveFollowsTail ==
  \A c \in InExclusive :
    /\ target[c] \in exclusiveSessions
    /\ cleanupBehind[c] = None
    /\ awaitedTail[c] = transformTails[target[c]]
    /\ cleanupPc[c] # "exclusive" => awaitedTail[c] = None

CleanupTargets ==
  /\ \A c \in ActiveCleanups : target[c] \in SessionIDs
  /\ \A c \in Cleanups \ InExclusive : awaitedTail[c] = None

(* Once closing, the drain awaits the tail of everything still held.       *)
DrainCovers ==
  /\ closing => /\ \A s \in TailSessions : transformTails[s] \in drain
                /\ cleanupTail # None => cleanupTail \in drain
  /\ disposed => closing /\ drain = {} /\ tracked = {}

TrackedBounded == Cardinality(tracked) <= MaxSessions

IInv ==
  /\ TypeOK
  /\ HoldersActive
  /\ QueuesOrdered
  /\ CleanupsOrdered
  /\ ExclusiveFollowsTail
  /\ CleanupTargets
  /\ DrainCovers
  /\ QueuesBounded
  /\ TrackedBounded
-----------------------------------------------------------------------------
(* A call that waits for nobody is the first in all of its queues.         *)
LEMMA FirstInItsQueues ==
  ASSUME NEW R, Explains(R), NEW t \in Active, behind[t] = {},
         NEW u \in Active, NEW s \in reserved[t] \cap reserved[u]
  PROVE  u = t \/ <<t, u>> \in R
<1>1. u # t => <<t, u>> \in R \/ <<u, t>> \in R
  BY DEF Explains, StrictOrder
<1>2. <<u, t>> \notin R
  BY DEF Explains, WaitsBehind
<1> QED BY <1>1, <1>2

(* ... so that when it is the tail of a queue nobody else is in that queue. *)
LEMMA FirstAndLast ==
  ASSUME NEW R, Explains(R), NEW t \in Active, behind[t] = {},
         NEW s \in SessionIDs, transformTails[s] = t, t # None,
         NEW u \in Active, s \in reserved[u]
  PROVE  u = t
<1>1. s \in reserved[t] /\ (u = t \/ <<u, t>> \in R)
  BY DEF Explains, TailIsLast
<1>2. u = t \/ <<t, u>> \in R
  BY <1>1, FirstInItsQueues
<1>3. <<u, t>> \in R /\ <<t, u>> \in R => <<t, t>> \in R
  BY DEF Explains, StrictOrder
<1>4. <<t, t>> \notin R
  BY DEF Explains, StrictOrder
<1> QED BY <1>1, <1>2, <1>3, <1>4

(* A session without a tail is held by nobody.                             *)
LEMMA NoTailNoHolder ==
  ASSUME HoldersActive, QueuesOrdered,
         NEW s \in SessionIDs, transformTails[s] = None, NEW t \in Transforms
  PROVE  s \notin reserved[t]
BY DEF HoldersActive, QueuesOrdered, Explains, TailIsLast, Active

(* At most one deletion is in its exclusive phase.                         *)
LEMMA OneExclusive ==
  ASSUME CleanupsOrdered, ExclusiveFollowsTail, NEW c \in InExclusive, NEW d \in InExclusive
  PROVE  c = d
<1>1. PICK Q \in SUBSET (Cleanups \X Cleanups) : CleanupExplains(Q)
  BY DEF CleanupsOrdered
<1>2. c \in ActiveCleanups /\ d \in ActiveCleanups
  BY DEF InExclusive, ActiveCleanups
<1>3. cleanupBehind[c] = None /\ cleanupBehind[d] = None
  BY DEF ExclusiveFollowsTail
<1>4. <<c, d>> \notin Q /\ <<d, c>> \notin Q
  BY <1>1, <1>2, <1>3 DEF CleanupExplains
<1> QED BY <1>1, <1>2, <1>4 DEF CleanupExplains, StrictOrder
-----------------------------------------------------------------------------
(* Reserving: the new call goes last in the order.                         *)
LEMMA ReservePreservesOrder ==
  ASSUME TypeOK, HoldersActive, QueuesOrdered,
         NEW t \in Transforms, t \notin Active, NEW S \in SUBSET SessionIDs,
         pc' = [pc EXCEPT ![t] = "queued"],
         reserved' = [reserved EXCEPT ![t] = S],
         behind' = [behind EXCEPT ![t] = TailsFound(S)],
         transformTails' = [s \in SessionIDs |-> IF s \in S THEN t ELSE transformTails[s]]
  PROVE  QueuesOrdered' /\ HoldersActive'
<1>1. PICK R \in SUBSET (Transforms \X Transforms) : Explains(R)
  BY DEF QueuesOrdered
<1>2. Active' = Active \cup {t}
  BY DEF Active, TypeOK
<1>3. PICK R2 \in SUBSET (Transforms \X Transforms) :
        \A u, v \in Transforms :
          <<u, v>> \in R2 <=> \/ u \in Active /\ v \in Active /\ <<u, v>> \in R
                              \/ u \in Active /\ v = t
  <2> DEFINE Last == {p \in Transforms \X Transforms :
                        \/ p[1] \in Active /\ p[2] \in Active /\ p \in R
                        \/ p[1] \in Active /\ p[2] = t}
  <2>1. Last \in SUBSET (Transforms \X Transforms)
    OBVIOUS
  <2>2. \A u, v \in Transforms :
          <<u, v>> \in Last <=> \/ u \in Active /\ v \in Active /\ <<u, v>> \in R
                                \/ u \in Active /\ v = t
    OBVIOUS
  <2> QED BY <2>1, <2>2
<1>4. Active \subseteq Transforms
  BY DEF Active
<1>5. StrictOrder(R2, Active')
  BY <1>1, <1>2, <1>3, <1>4 DEF Explains, StrictOrder
<1>6. \A u \in Active : reserved'[u] = reserved[u] /\ behind'[u] = behind[u]
  BY <1>4 DEF TypeOK
<1>7. reserved'[t] = S /\ behind'[t] = TailsFound(S)
  BY DEF TypeOK
<1>8. ASSUME NEW u \in Active, NEW s \in S \cap reserved[u]
      PROVE  \E w \in behind'[t] : s \in reserved'[w] /\ (w = u \/ <<u, w>> \in R2)
  <2>1. transformTails[s] # None
    BY <1>1, <1>8 DEF Explains, TailIsLast
  <2>2. /\ transformTails[s] \in Active
        /\ s \in reserved[transformTails[s]]
        /\ u = transformTails[s] \/ <<u, transformTails[s]>> \in R
    BY <1>1, <1>8, <2>1 DEF Explains, TailIsLast
  <2>3. transformTails[s] \in TailsFound(S)
    BY <1>8, <2>1 DEF TailsFound, Some
  <2> QED BY <1>3, <1>4, <1>6, <1>7, <1>8, <2>2, <2>3
<1>9. WaitsBehind(R2)'
  <2> SUFFICES ASSUME NEW a \in Active', NEW u \in Active',
                      NEW s \in reserved'[a] \cap reserved'[u], <<u, a>> \in R2
               PROVE  \E w \in behind'[a] :
                        s \in reserved'[w] /\ (w = u \/ <<u, w>> \in R2)
    BY DEF WaitsBehind
  <2>1. u \in Active
    BY <1>2, <1>3, <1>4
  <2>2. CASE a = t
    BY <1>6, <1>7, <1>8, <2>1, <2>2
  <2>3. CASE a # t
    <3>1. a \in Active /\ <<u, a>> \in R
      BY <1>2, <1>3, <1>4, <2>1, <2>3
    <3>2. PICK w \in behind[a] : s \in reserved[w] /\ (w = u \/ <<u, w>> \in R)
      BY <1>1, <1>6, <2>1, <3>1 DEF Explains, WaitsBehind
    <3>3. w \in Transforms
      BY <1>4, <3>1 DEF TypeOK
    <3>4. w \in Active
      BY <3>2, <3>3 DEF HoldersActive
    <3> QED BY <1>3, <1>4, <1>6, <2>1, <3>1, <3>2, <3>4
  <2> QED BY <2>2, <2>3
<1>10. TailIsLast(R2)'
  <2> SUFFICES ASSUME NEW s \in SessionIDs
               PROVE  /\ transformTails'[s] = None => \A a \in Active' : s \notin reserved'[a]
                      /\ transformTails'[s] # None =>
                           /\ transformTails'[s] \in Active'
                           /\ s \in reserved'[transformTails'[s]]
                           /\ \A a \in Active' : s \in reserved'[a] =>
                                a = transformTails'[s] \/ <<a, transformTails'[s]>> \in R2
    BY DEF TailIsLast
  <2>1. CASE s \in S
    <3>1. transformTails'[s] = t /\ t # None
      BY <2>1, LocksAssumption
    <3> QED BY <1>2, <1>3, <1>4, <1>7, <2>1, <3>1
  <2>2. CASE s \notin S
    <3>1. transformTails'[s] = transformTails[s]
      BY <2>2
    <3>2. s \notin reserved'[t]
      BY <1>7, <2>2
    <3> QED BY <1>1, <1>2, <1>3, <1>4, <1>6, <3>1, <3>2 DEF Explains, TailIsLast
  <2> QED BY <2>1, <2>2
<1>11. QueuesOrdered'
  BY <1>5, <1>9, <1>10 DEF QueuesOrdered, Explains
<1>12. HoldersActive'
  BY <1>2 DEF HoldersActive, TypeOK, Active
<1> QED BY <1>11, <1>12
-----------------------------------------------------------------------------
(* Releasing: the call is the first of its queues and leaves the order.    *)
LEMMA ReleasePreservesOrder ==
  ASSUME TypeOK, HoldersActive, QueuesOrdered,
         NEW t \in Active, behind[t] = {}, Release(t)
  PROVE  QueuesOrdered' /\ HoldersActive'
<1>1. PICK R \in SUBSET (Transforms \X Transforms) : Explains(R)
  BY DEF QueuesOrdered
<1>2. Active' = Active \ {t}
  BY DEF Active, Release, TypeOK
<1>3. t \in Transforms /\ t # None /\ Active \subseteq Transforms
  BY LocksAssumption DEF Active
<1>4. \A u \in Active' : reserved'[u] = reserved[u] /\ behind'[u] = behind[u] \ {t}
  BY <1>2, <1>3 DEF Release, Waiters, TypeOK
<1>5. StrictOrder(R, Active')
  BY <1>1, <1>2 DEF Explains, StrictOrder
<1>6. WaitsBehind(R)'
  <2> SUFFICES ASSUME NEW a \in Active', NEW u \in Active',
                      NEW s \in reserved'[a] \cap reserved'[u], <<u, a>> \in R
               PROVE  \E w \in behind'[a] :
                        s \in reserved'[w] /\ (w = u \/ <<u, w>> \in R)
    BY DEF WaitsBehind
  <2>1. a \in Active /\ u \in Active /\ u # t /\ s \in reserved[a] \cap reserved[u]
    BY <1>2, <1>4
  <2>2. PICK w \in behind[a] : s \in reserved[w] /\ (w = u \/ <<u, w>> \in R)
    BY <1>1, <2>1 DEF Explains, WaitsBehind
  <2>3. w \in Active
    BY <1>3, <2>1, <2>2 DEF HoldersActive, TypeOK
  <2>4. w # t
    <3> SUFFICES ASSUME w = t PROVE FALSE
      OBVIOUS
    <3>1. s \in reserved[t] \cap reserved[u] /\ <<u, t>> \in R
      BY <2>1, <2>2
    <3>2. <<t, u>> \in R
      BY <1>1, <2>1, <3>1, FirstInItsQueues
    <3> QED BY <1>1, <2>1, <3>1, <3>2 DEF Explains, StrictOrder
  <2>5. w \in behind'[a] /\ s \in reserved'[w]
    BY <1>2, <1>4, <2>2, <2>3, <2>4
  <2> QED BY <2>2, <2>5
<1>7. TailIsLast(R)'
  <2> SUFFICES ASSUME NEW s \in SessionIDs
               PROVE  /\ transformTails'[s] = None => \A a \in Active' : s \notin reserved'[a]
                      /\ transformTails'[s] # None =>
                           /\ transformTails'[s] \in Active'
                           /\ s \in reserved'[transformTails'[s]]
                           /\ \A a \in Active' : s \in reserved'[a] =>
                                a = transformTails'[s] \/ <<a, transformTails'[s]>> \in R
    BY DEF TailIsLast
  <2>1. CASE transformTails[s] = t
    <3>1. transformTails'[s] = None
      BY <2>1 DEF Release, ReleasedTails
    <3>2. ASSUME NEW a \in Active', s \in reserved'[a] PROVE FALSE
      <4>1. a \in Active /\ a # t /\ s \in reserved[a]
        BY <1>2, <1>4, <3>2
      <4> QED BY <1>1, <1>3, <2>1, <4>1, FirstAndLast
    <3> QED BY <3>1, <3>2
  <2>2. CASE transformTails[s] # t
    <3>1. transformTails'[s] = transformTails[s]
      BY <2>2 DEF Release, ReleasedTails
    <3> QED BY <1>1, <1>2, <1>4, <2>2, <3>1 DEF Explains, TailIsLast
  <2> QED BY <2>1, <2>2
<1>8. QueuesOrdered'
  BY <1>5, <1>6, <1>7 DEF QueuesOrdered, Explains
<1>9. HoldersActive'
  BY <1>2, <1>3 DEF HoldersActive, TypeOK, Active, Release, Waiters
<1> QED BY <1>8, <1>9

(* release() keeps the inductive invariant: the tickets it settles leave   *)
(* every set they are awaited in, and only its own tails leave the map.    *)
LEMMA ReleasePreserves ==
  ASSUME IInv, NEW t \in Active, behind[t] = {}, Release(t)
  PROVE  IInv'
<1>1. TypeOK /\ HoldersActive /\ QueuesOrdered /\ t \in Transforms /\ t # None
  BY LocksAssumption DEF IInv, Active
<1>2. TypeOK'
  BY <1>1 DEF TypeOK, Release, Waiters, ReleasedTails
<1>3. QueuesOrdered' /\ HoldersActive'
  BY <1>1, ReleasePreservesOrder
<1>4. CleanupsOrdered' /\ ActiveCleanups' = ActiveCleanups /\ InExclusive' = InExclusive
  BY DEF IInv, CleanupsOrdered, CleanupExplains, ActiveCleanups, InExclusive, Release
<1>5. \A s \in SessionIDs :
        transformTails'[s] = IF transformTails[s] = t THEN None ELSE transformTails[s]
  BY DEF Release, ReleasedTails
<1>6. ExclusiveFollowsTail' /\ CleanupTargets'
  BY <1>1, <1>4, <1>5
     DEF IInv, ExclusiveFollowsTail, CleanupTargets, Release, ActiveCleanups, InExclusive, TypeOK
<1>7. TailSessions' \subseteq TailSessions
  BY <1>5 DEF TailSessions
<1>8. DrainCovers'
  <2>1. \A s \in TailSessions' : transformTails'[s] = transformTails[s] /\ transformTails[s] # t
    BY <1>5 DEF TailSessions
  <2>2. cleanupTail # t
    BY <1>1, LocksAssumption DEF TypeOK
  <2> QED BY <1>5, <1>7, <2>1, <2>2 DEF IInv, DrainCovers, Release, TailSessions
<1>9. QueuesBounded' /\ TrackedBounded'
  <2>1. IsFiniteSet(TailSessions) /\ IsFiniteSet(TailSessions')
    BY LocksAssumption, FS_Subset DEF TailSessions
  <2>2. /\ Cardinality(TailSessions') <= Cardinality(TailSessions)
        /\ Cardinality(TailSessions') \in Nat /\ Cardinality(TailSessions) \in Nat
    BY <1>7, <2>1, FS_Subset, FS_CardinalityType
  <2>3. QueuesBounded'
    BY <2>2, LocksAssumption DEF IInv, QueuesBounded
  <2> QED BY <2>3 DEF IInv, TrackedBounded, Release
<1> QED BY <1>2, <1>3, <1>4, <1>6, <1>8, <1>9 DEF IInv
-----------------------------------------------------------------------------
(* Joining the queues keeps the number of queues within maxSessions.       *)
LEMMA ReservePreservesBound ==
  ASSUME TypeOK, QueuesBounded, NEW t \in Transforms, NEW W \in SUBSET SessionIDs,
         TrackedFit(W), NEW A \in Admitted(W), NEW S \in SUBSET SessionIDs,
         S = (W \ exclusiveSessions) \ ((Missing(W) \ tracked) \ A),
         transformTails' = [s \in SessionIDs |-> IF s \in S THEN t ELSE transformTails[s]]
  PROVE  QueuesBounded'
<1> DEFINE new == MissingTracked(W) \cup A
<1>1. A \subseteq Missing(W) \ tracked
  BY DEF Admitted
<1>2. Missing(W) \subseteq SessionIDs /\ TailSessions \subseteq SessionIDs
  BY DEF Missing, TailSessions
<1>3. IsFiniteSet(TailSessions) /\ IsFiniteSet(A) /\ IsFiniteSet(MissingTracked(W))
      /\ IsFiniteSet(Missing(W) \ tracked)
  BY <1>1, <1>2, LocksAssumption, FS_Subset DEF MissingTracked
<1>4. TailSessions' \subseteq TailSessions \cup new
  BY <1>1 DEF TailSessions, MissingTracked, Missing
<1>5. /\ Cardinality(A) \in Nat /\ Cardinality(MissingTracked(W)) \in Nat
      /\ Cardinality(TailSessions) \in Nat /\ Cardinality(Missing(W) \ tracked) \in Nat
  BY <1>3, FS_CardinalityType
<1>6. Cardinality(A) <= Available - Cardinality(MissingTracked(W))
  BY <1>5, LocksAssumption DEF Admitted, TrackedFit, Available
<1>7. IsFiniteSet(new) /\ Cardinality(new) <= Cardinality(MissingTracked(W)) + Cardinality(A)
      /\ Cardinality(new) \in Nat
  <2>1. IsFiniteSet(MissingTracked(W) \cap A) /\ Cardinality(MissingTracked(W) \cap A) \in Nat
    BY <1>3, FS_Subset, FS_CardinalityType
  <2>2. IsFiniteSet(new)
          /\ Cardinality(new) = Cardinality(MissingTracked(W)) + Cardinality(A)
                                  - Cardinality(MissingTracked(W) \cap A)
    BY <1>3, FS_Union
  <2>3. Cardinality(new) \in Nat
    BY <2>2, FS_CardinalityType
  <2> HIDE DEF new
  <2> QED BY <1>5, <2>1, <2>2, <2>3
<1> HIDE DEF new
<1>8. IsFiniteSet(TailSessions \cup new) /\ Cardinality(TailSessions \cup new) \in Nat
      /\ Cardinality(TailSessions \cup new) <= Cardinality(TailSessions) + Cardinality(new)
  <2>1. IsFiniteSet(TailSessions \cap new) /\ Cardinality(TailSessions \cap new) \in Nat
    BY <1>3, FS_Subset, FS_CardinalityType
  <2>2. IsFiniteSet(TailSessions \cup new)
          /\ Cardinality(TailSessions \cup new) = Cardinality(TailSessions) + Cardinality(new)
                                  - Cardinality(TailSessions \cap new)
    BY <1>3, <1>7, FS_Union
  <2>3. Cardinality(TailSessions \cup new) \in Nat
    BY <2>2, FS_CardinalityType
  <2> QED BY <1>5, <1>7, <2>1, <2>2, <2>3
<1>9. Cardinality(TailSessions') <= Cardinality(TailSessions \cup new)
      /\ Cardinality(TailSessions') \in Nat
  BY <1>4, <1>8, FS_Subset, FS_CardinalityType
<1> QED BY <1>5, <1>6, <1>7, <1>8, <1>9, LocksAssumption DEF QueuesBounded, Available

(* One turn of acquireTransformLocks: the call waits for capacity or joins  *)
(* its queues, none of them the queue of a session being deleted.          *)
LEMMA EvaluatePreserves ==
  ASSUME IInv, ~closing, NEW t \in Transforms, t \notin Active,
         NEW W \in SUBSET SessionIDs, NEW R \in SUBSET SessionIDs, Evaluate(t, W, R),
         UNCHANGED <<tracked, cleanupVars, closeVars>>
  PROVE  IInv'
<1>1. TypeOK /\ HoldersActive /\ QueuesOrdered /\ t # None
  BY LocksAssumption DEF IInv
<1>2. ActiveCleanups' = ActiveCleanups /\ InExclusive' = InExclusive /\ CleanupsOrdered'
  BY DEF IInv, CleanupsOrdered, CleanupExplains, ActiveCleanups, InExclusive, cleanupVars
<1>3. CASE ~TrackedFit(W)
  <2>1. /\ pc' = [pc EXCEPT ![t] = "capacity"] /\ wants' = [wants EXCEPT ![t] = W]
        /\ rejected' = [rejected EXCEPT ![t] = R \cup (W \cap exclusiveSessions)]
        /\ racing' = [racing EXCEPT ![t] = TailOwners]
        /\ UNCHANGED <<reserved, behind, transformTails>>
    BY <1>3 DEF Evaluate
  <2>2. TailOwners \subseteq Transforms
    BY <1>1 DEF TailOwners, TailSessions, TypeOK
  <2>3. TypeOK'
    BY <1>1, <2>1, <2>2 DEF TypeOK, cleanupVars, closeVars
  <2>4. Active' = Active
    BY <1>1, <2>1 DEF Active, TypeOK
  <2>5. HoldersActive'
    BY <1>1, <2>1, <2>4 DEF HoldersActive, TypeOK
  <2>6. QueuesOrdered'
    <3>1. PICK Q \in SUBSET (Transforms \X Transforms) : Explains(Q)
      BY <1>1 DEF QueuesOrdered
    <3>2. StrictOrder(Q, Active') /\ WaitsBehind(Q)' /\ TailIsLast(Q)'
      BY <2>1, <2>4, <3>1 DEF Explains, WaitsBehind, TailIsLast
    <3> QED BY <3>2 DEF QueuesOrdered, Explains
  <2> QED BY <1>2, <2>1, <2>3, <2>5, <2>6
          DEF IInv, ExclusiveFollowsTail, CleanupTargets, DrainCovers, QueuesBounded,
              TrackedBounded, TailSessions, cleanupVars, closeVars
<1>4. CASE TrackedFit(W)
  <2> DEFINE accepted(A) == (W \ exclusiveSessions) \ ((Missing(W) \ tracked) \ A)
  <2>1. PICK A \in Admitted(W) :
          /\ rejected' = [rejected EXCEPT ![t] = (R \cup (W \cap exclusiveSessions))
                                                   \cup ((Missing(W) \ tracked) \ A)]
          /\ reserved' = [reserved EXCEPT ![t] = accepted(A)]
          /\ behind' = [behind EXCEPT ![t] = TailsFound(accepted(A))]
          /\ transformTails' = [s \in SessionIDs |-> IF s \in accepted(A) THEN t
                                                     ELSE transformTails[s]]
    BY <1>4, Zenon DEF Evaluate
  <2>2. PICK S \in SUBSET SessionIDs : S = accepted(A)
    OBVIOUS
  <2>3. /\ pc' = [pc EXCEPT ![t] = "queued"] /\ wants' = [wants EXCEPT ![t] = {}]
        /\ racing' = [racing EXCEPT ![t] = {}]
    BY <1>4 DEF Evaluate
  <2>4. TailsFound(S) \subseteq Transforms
    BY <1>1 DEF TailsFound, Some, TypeOK
  <2>5. TypeOK'
    BY <1>1, <2>1, <2>2, <2>3, <2>4 DEF TypeOK, cleanupVars, closeVars, Missing
  <2>6. HoldersActive' /\ QueuesOrdered'
    BY <1>1, <2>1, <2>2, <2>3, ReservePreservesOrder
  <2>7. QueuesBounded'
    BY <1>1, <1>4, <2>1, <2>2, ReservePreservesBound DEF IInv
  <2>8. \A c \in InExclusive : transformTails'[target[c]] = transformTails[target[c]]
    <3>1. \A c \in InExclusive : target[c] \in exclusiveSessions /\ target[c] \in SessionIDs
      BY DEF IInv, ExclusiveFollowsTail, CleanupTargets, InExclusive, ActiveCleanups
    <3>2. S \cap exclusiveSessions = {}
      BY <2>2
    <3> QED BY <2>1, <2>2, <3>1, <3>2
  <2>9. ExclusiveFollowsTail' /\ CleanupTargets'
    BY <1>2, <2>8 DEF IInv, ExclusiveFollowsTail, CleanupTargets, cleanupVars
  <2>10. DrainCovers' /\ TrackedBounded'
    BY DEF IInv, DrainCovers, TrackedBounded, closeVars
  <2> QED BY <1>2, <2>5, <2>6, <2>7, <2>9, <2>10 DEF IInv
<1> QED BY <1>3, <1>4

(* The manager is closing: the call gives up its wait for capacity.        *)
LEMMA RetryThrowsPreserves ==
  ASSUME IInv, NEW t \in Transforms, RetryThrows(t)
  PROVE  IInv'
<1>1. TypeOK /\ Active' = Active /\ ActiveCleanups' = ActiveCleanups
      /\ InExclusive' = InExclusive
  BY DEF IInv, TypeOK, RetryThrows, Active, ActiveCleanups, InExclusive, cleanupVars
<1>2. TypeOK' /\ HoldersActive'
  BY <1>1 DEF IInv, TypeOK, RetryThrows, HoldersActive, cleanupVars, closeVars
<1>3. QueuesOrdered'
  <2>1. PICK R \in SUBSET (Transforms \X Transforms) : Explains(R)
    BY DEF IInv, QueuesOrdered
  <2>2. StrictOrder(R, Active') /\ WaitsBehind(R)' /\ TailIsLast(R)'
    BY <1>1, <2>1 DEF Explains, WaitsBehind, TailIsLast, RetryThrows
  <2> QED BY <2>2 DEF QueuesOrdered, Explains
<1>4. CleanupsOrdered' /\ ExclusiveFollowsTail' /\ CleanupTargets' /\ DrainCovers'
      /\ QueuesBounded' /\ TrackedBounded'
  BY <1>1 DEF IInv, CleanupsOrdered, CleanupExplains, ExclusiveFollowsTail, CleanupTargets,
     DrainCovers, QueuesBounded, TrackedBounded, TailSessions, RetryThrows, cleanupVars, closeVars
<1> QED BY <1>2, <1>3, <1>4 DEF IInv

(* All tails have settled: the call opens its window.                      *)
LEMMA EnterWindowPreserves ==
  ASSUME IInv, NEW t \in Transforms, EnterWindow(t)
  PROVE  IInv'
<1> USE DEF EnterWindow, OpenWindow, BeginTracks, Acquired
<1>1. TypeOK /\ ActiveCleanups' = ActiveCleanups /\ InExclusive' = InExclusive
  BY DEF IInv, ActiveCleanups, InExclusive, cleanupVars
<1>2. t \in Active /\ Active' = Active /\ behind[t] = {}
  BY <1>1 DEF TypeOK, Active
<1>3. TypeOK' /\ HoldersActive'
  BY <1>1, <1>2 DEF IInv, TypeOK, HoldersActive, cleanupVars, closeVars
<1>4. QueuesOrdered'
  <2>1. PICK R \in SUBSET (Transforms \X Transforms) : Explains(R)
    BY DEF IInv, QueuesOrdered
  <2>2. StrictOrder(R, Active') /\ WaitsBehind(R)' /\ TailIsLast(R)'
    BY <1>2, <2>1 DEF Explains, WaitsBehind, TailIsLast
  <2> QED BY <2>2 DEF QueuesOrdered, Explains
<1>5. disposed => tracked' = {}
  <2>1. disposed => \A s \in SessionIDs : transformTails[s] = None
    BY DEF IInv, DrainCovers, TailSessions
  <2>2. disposed => reserved[t] = {}
    BY <1>1, <2>1, NoTailNoHolder DEF IInv, TypeOK
  <2> QED BY <2>2 DEF IInv, DrainCovers
<1>6. CleanupsOrdered' /\ ExclusiveFollowsTail' /\ CleanupTargets' /\ DrainCovers'
      /\ QueuesBounded' /\ TrackedBounded'
  BY <1>1, <1>5 DEF IInv, CleanupsOrdered, CleanupExplains, ExclusiveFollowsTail, CleanupTargets,
     DrainCovers, QueuesBounded, TrackedBounded, TailSessions, cleanupVars, closeVars
<1> QED BY <1>3, <1>4, <1>6 DEF IInv
-----------------------------------------------------------------------------
(* The deletions and dispose leave the queues of the transforms alone.     *)
LEMMA QueuesUntouched ==
  ASSUME HoldersActive, QueuesOrdered, QueuesBounded, UNCHANGED transformVars
  PROVE  Active' = Active /\ HoldersActive' /\ QueuesOrdered' /\ QueuesBounded'
<1>1. Active' = Active /\ HoldersActive' /\ QueuesBounded'
  BY DEF HoldersActive, Active, QueuesBounded, TailSessions, transformVars
<1>2. PICK R \in SUBSET (Transforms \X Transforms) : Explains(R)
  BY DEF QueuesOrdered
<1>3. StrictOrder(R, Active') /\ WaitsBehind(R)' /\ TailIsLast(R)'
  BY <1>1, <1>2 DEF Explains, WaitsBehind, TailIsLast, transformVars
<1> QED BY <1>1, <1>3 DEF QueuesOrdered, Explains

(* A deletion joins the chain as its last.                                 *)
LEMMA RequestCleanupPreserves ==
  ASSUME IInv, NEW c \in Cleanups, NEW s \in SessionIDs, RequestCleanup(c, s)
  PROVE  IInv'
<1> USE DEF RequestCleanup
<1>1. TypeOK /\ TypeOK' /\ c # None
  BY LocksAssumption DEF IInv, TypeOK, transformVars, closeVars
<1>2. HoldersActive' /\ QueuesOrdered' /\ QueuesBounded'
  BY QueuesUntouched DEF IInv
<1>3. c \notin ActiveCleanups /\ ActiveCleanups' = ActiveCleanups \cup {c}
      /\ InExclusive' = InExclusive /\ c \notin InExclusive
  BY <1>1 DEF ActiveCleanups, InExclusive, TypeOK
<1>4. CleanupsOrdered'
  <2>1. PICK Q \in SUBSET (Cleanups \X Cleanups) : CleanupExplains(Q)
    BY DEF IInv, CleanupsOrdered
  <2>2. PICK Q2 \in SUBSET (Cleanups \X Cleanups) :
          \A a, b \in Cleanups :
            <<a, b>> \in Q2 <=> \/ a \in ActiveCleanups /\ b \in ActiveCleanups /\ <<a, b>> \in Q
                                \/ a \in ActiveCleanups /\ b = c
    <3> DEFINE Last == {p \in Cleanups \X Cleanups :
                          \/ p[1] \in ActiveCleanups /\ p[2] \in ActiveCleanups /\ p \in Q
                          \/ p[1] \in ActiveCleanups /\ p[2] = c}
    <3>1. Last \in SUBSET (Cleanups \X Cleanups)
      OBVIOUS
    <3>2. \A a, b \in Cleanups :
            <<a, b>> \in Last <=> \/ a \in ActiveCleanups /\ b \in ActiveCleanups /\ <<a, b>> \in Q
                                  \/ a \in ActiveCleanups /\ b = c
      OBVIOUS
    <3> QED BY <3>1, <3>2
  <2>3. ActiveCleanups \subseteq Cleanups
    BY DEF ActiveCleanups
  <2>4. StrictOrder(Q2, ActiveCleanups')
    BY <1>3, <2>1, <2>2, <2>3 DEF CleanupExplains, StrictOrder
  <2>5. /\ cleanupBehind'[c] = cleanupTail
        /\ \A d \in ActiveCleanups : cleanupBehind'[d] = cleanupBehind[d]
    BY <1>1, <1>3, <2>3 DEF TypeOK
  <2>6. \A a, d \in ActiveCleanups' : <<d, a>> \in Q2 =>
          /\ cleanupBehind'[a] # None
          /\ cleanupBehind'[a] \in ActiveCleanups'
          /\ cleanupBehind'[a] = d \/ <<d, cleanupBehind'[a]>> \in Q2
    <3> SUFFICES ASSUME NEW a \in ActiveCleanups', NEW d \in ActiveCleanups', <<d, a>> \in Q2
                 PROVE  /\ cleanupBehind'[a] # None
                        /\ cleanupBehind'[a] \in ActiveCleanups'
                        /\ cleanupBehind'[a] = d \/ <<d, cleanupBehind'[a]>> \in Q2
      OBVIOUS
    <3>1. d \in ActiveCleanups
      BY <1>3, <2>2, <2>3
    <3>2. CASE a = c
      BY <1>3, <2>1, <2>2, <2>3, <2>5, <3>1, <3>2 DEF CleanupExplains
    <3>3. CASE a # c
      BY <1>3, <2>1, <2>2, <2>3, <2>5, <3>1, <3>3 DEF CleanupExplains
    <3> QED BY <3>2, <3>3
  <2>7. CleanupExplains(Q2)'
    BY <1>1, <1>3, <2>2, <2>3, <2>4, <2>6 DEF CleanupExplains
  <2> QED BY <2>7 DEF CleanupsOrdered
<1>5. ExclusiveFollowsTail'
  BY <1>1, <1>3 DEF IInv, ExclusiveFollowsTail, TypeOK, transformVars, InExclusive
<1>6. CleanupTargets' /\ DrainCovers' /\ TrackedBounded'
  BY <1>1, <1>3 DEF IInv, CleanupTargets, DrainCovers, TrackedBounded, TypeOK, transformVars,
     closeVars, ActiveCleanups
<1> QED BY <1>1, <1>2, <1>4, <1>5, <1>6 DEF IInv

(* The phases of one deletion: its place in the chain does not change.     *)
LEMMA PhasePreservesOrder ==
  ASSUME CleanupsOrdered, ActiveCleanups' = ActiveCleanups,
         UNCHANGED <<cleanupBehind, cleanupTail>>
  PROVE  CleanupsOrdered'
BY DEF CleanupsOrdered, CleanupExplains

(* A deletion whose turn has come keeps the inductive invariant.           *)
LEMMA EnterExclusivePreserves ==
  ASSUME IInv, NEW c \in Cleanups, EnterExclusive(c)
  PROVE  IInv'
<1> USE DEF EnterExclusive, AwaitedBy
<1>1. TypeOK /\ c \in ActiveCleanups /\ target[c] \in SessionIDs
  BY DEF IInv, ActiveCleanups, CleanupTargets
<1>2. TypeOK' /\ ActiveCleanups' = ActiveCleanups /\ InExclusive' = InExclusive \cup {c}
  BY <1>1 DEF TypeOK, ActiveCleanups, InExclusive, transformVars, closeVars
<1>3. HoldersActive' /\ QueuesOrdered' /\ QueuesBounded'
  BY QueuesUntouched DEF IInv
<1>4. CleanupsOrdered'
  BY <1>2, PhasePreservesOrder DEF IInv
<1>5. ExclusiveFollowsTail' /\ CleanupTargets' /\ DrainCovers' /\ TrackedBounded'
  BY <1>1, <1>2 DEF IInv, ExclusiveFollowsTail, CleanupTargets, DrainCovers, TrackedBounded,
     TypeOK, InExclusive, transformVars, closeVars, TailSessions
<1> QED BY <1>2, <1>3, <1>4, <1>5 DEF IInv

(* Starting the deletion's operation keeps the inductive invariant.        *)
LEMMA StartDeletionPreserves ==
  ASSUME IInv, NEW c \in Cleanups, StartDeletion(c)
  PROVE  IInv'
<1> USE DEF StartDeletion
<1>1. TypeOK /\ TypeOK' /\ ActiveCleanups' = ActiveCleanups /\ InExclusive' = InExclusive
  BY DEF IInv, TypeOK, ActiveCleanups, InExclusive, transformVars, closeVars
<1>2. HoldersActive' /\ QueuesOrdered' /\ QueuesBounded'
  BY QueuesUntouched DEF IInv
<1>3. CleanupsOrdered'
  BY <1>1, PhasePreservesOrder DEF IInv
<1>4. ExclusiveFollowsTail' /\ CleanupTargets' /\ DrainCovers' /\ TrackedBounded'
  BY <1>1 DEF IInv, ExclusiveFollowsTail, CleanupTargets, DrainCovers, TrackedBounded,
     TypeOK, transformVars, closeVars, TailSessions
<1> QED BY <1>1, <1>2, <1>3, <1>4 DEF IInv

(* The end of the deletion's operation keeps the inductive invariant.      *)
LEMMA DeleteSessionPreserves ==
  ASSUME IInv, NEW c \in Cleanups, DeleteSession(c)
  PROVE  IInv'
<1> USE DEF DeleteSession
<1>1. TypeOK /\ TypeOK' /\ ActiveCleanups' = ActiveCleanups /\ InExclusive' = InExclusive
  BY DEF IInv, TypeOK, ActiveCleanups, InExclusive, transformVars, closeVars
<1>2. HoldersActive' /\ QueuesOrdered' /\ QueuesBounded'
  BY QueuesUntouched DEF IInv
<1>3. CleanupsOrdered'
  BY <1>1, PhasePreservesOrder DEF IInv
<1>4. ExclusiveFollowsTail' /\ CleanupTargets' /\ DrainCovers'
  BY <1>1 DEF IInv, ExclusiveFollowsTail, CleanupTargets, DrainCovers,
     TypeOK, transformVars, closeVars, TailSessions
<1>5. TrackedBounded'
  <2>1. IsFiniteSet(tracked) /\ tracked' \in SUBSET tracked
    BY <1>1, LocksAssumption, FS_Subset DEF TypeOK
  <2>2. IsFiniteSet(tracked') /\ Cardinality(tracked') <= Cardinality(tracked)
    BY <2>1, FS_Subset
  <2>3. Cardinality(tracked') \in Nat /\ Cardinality(tracked) \in Nat
    BY <2>1, <2>2, FS_CardinalityType
  <2> QED BY <2>2, <2>3, LocksAssumption DEF IInv, TrackedBounded
<1> QED BY <1>1, <1>2, <1>3, <1>4, <1>5 DEF IInv

(* The deletion is the first of the chain and leaves it.                   *)
LEMMA LeaveExclusivePreserves ==
  ASSUME IInv, NEW c \in Cleanups, LeaveExclusive(c)
  PROVE  IInv'
<1> USE DEF LeaveExclusive
<1>1. TypeOK /\ c # None /\ c \in ActiveCleanups /\ c \in InExclusive /\ c \notin Transforms
  BY LocksAssumption DEF IInv, ActiveCleanups, InExclusive
<1>2. ActiveCleanups' = ActiveCleanups \ {c} /\ InExclusive' = {}
  <2>1. InExclusive \subseteq {c}
    BY <1>1, OneExclusive DEF IInv
  <2> QED BY <1>1, <2>1 DEF ActiveCleanups, InExclusive, TypeOK
<1>3. \A d \in Cleanups :
        cleanupBehind'[d] = IF cleanupBehind[d] = c THEN None ELSE cleanupBehind[d]
  BY DEF NextCleanup
<1>4. TypeOK'
  BY <1>1 DEF TypeOK, NextCleanup, transformVars
<1>5. HoldersActive' /\ QueuesOrdered' /\ QueuesBounded'
  BY QueuesUntouched DEF IInv
<1>6. CleanupsOrdered'
  <2>1. PICK Q \in SUBSET (Cleanups \X Cleanups) : CleanupExplains(Q)
    BY DEF IInv, CleanupsOrdered
  <2>2. cleanupBehind[c] = None
    BY <1>1 DEF IInv, ExclusiveFollowsTail
  <2>3. \A d \in ActiveCleanups : <<d, c>> \notin Q
    BY <1>1, <2>1, <2>2 DEF CleanupExplains
  <2>4. StrictOrder(Q, ActiveCleanups')
    BY <1>2, <2>1 DEF CleanupExplains, StrictOrder
  <2>5. \A a, d \in ActiveCleanups' : <<d, a>> \in Q =>
          /\ cleanupBehind'[a] # None
          /\ cleanupBehind'[a] \in ActiveCleanups'
          /\ cleanupBehind'[a] = d \/ <<d, cleanupBehind'[a]>> \in Q
    <3> SUFFICES ASSUME NEW a \in ActiveCleanups', NEW d \in ActiveCleanups', <<d, a>> \in Q
                 PROVE  /\ cleanupBehind'[a] # None
                        /\ cleanupBehind'[a] \in ActiveCleanups'
                        /\ cleanupBehind'[a] = d \/ <<d, cleanupBehind'[a]>> \in Q
      OBVIOUS
    <3>1. a \in ActiveCleanups /\ d \in ActiveCleanups /\ a \in Cleanups /\ d # c
      BY <1>2 DEF ActiveCleanups
    <3>2. /\ cleanupBehind[a] # None
          /\ cleanupBehind[a] \in ActiveCleanups
          /\ cleanupBehind[a] = d \/ <<d, cleanupBehind[a]>> \in Q
      BY <2>1, <3>1 DEF CleanupExplains
    <3>3. cleanupBehind[a] # c
      BY <2>3, <3>1, <3>2
    <3> QED BY <1>2, <1>3, <3>1, <3>2, <3>3
  <2>6. CASE cleanupTail = c
    <3>1. ActiveCleanups' = {}
      BY <1>2, <2>1, <2>3, <2>6, <1>1 DEF CleanupExplains
    <3>2. cleanupTail' = None
      BY <2>6
    <3> QED BY <2>4, <2>5, <3>1, <3>2 DEF CleanupsOrdered, CleanupExplains
  <2>7. CASE cleanupTail # c
    <3>1. cleanupTail' = cleanupTail /\ cleanupTail # None
      BY <1>1, <2>1, <2>7 DEF CleanupExplains
    <3>2. CleanupExplains(Q)'
      BY <1>2, <2>1, <2>4, <2>5, <2>7, <3>1 DEF CleanupExplains
    <3> QED BY <3>2 DEF CleanupsOrdered
  <2> QED BY <2>6, <2>7
<1>7. ExclusiveFollowsTail'
  BY <1>2 DEF ExclusiveFollowsTail
<1>8. CleanupTargets'
  <2>1. awaitedTail[c] = None
    BY <1>1 DEF IInv, ExclusiveFollowsTail
  <2>2. InExclusive \subseteq {c}
    BY <1>1, OneExclusive DEF IInv
  <2> QED BY <1>1, <1>2, <2>1, <2>2 DEF IInv, CleanupTargets, ActiveCleanups, TypeOK
<1>9. DrainCovers' /\ TrackedBounded'
  <2>1. \A s \in TailSessions : transformTails[s] # c
    BY <1>1 DEF TailSessions, TypeOK
  <2> QED BY <1>1, <2>1 DEF IInv, DrainCovers, TrackedBounded, transformVars, TailSessions
<1> QED BY <1>4, <1>5, <1>6, <1>7, <1>8, <1>9 DEF IInv
-----------------------------------------------------------------------------
(* closeAndDrain keeps the inductive invariant: the tails and the cleanup  *)
(* tail it captures cover every reservation and every deletion.            *)
LEMMA CloseAndDrainPreserves ==
  ASSUME IInv, CloseAndDrain
  PROVE  IInv'
<1> USE DEF CloseAndDrain, DrainSet
<1>1. TypeOK /\ ActiveCleanups' = ActiveCleanups /\ InExclusive' = InExclusive
  BY DEF IInv, ActiveCleanups, InExclusive, cleanupVars
<1>2. TypeOK'
  BY <1>1 DEF TypeOK, TailOwners, TailSessions, Some, transformVars, cleanupVars
<1>3. HoldersActive' /\ QueuesOrdered' /\ QueuesBounded'
  BY QueuesUntouched DEF IInv
<1>4. CleanupsOrdered'
  BY <1>1, PhasePreservesOrder DEF IInv, cleanupVars
<1>5. ExclusiveFollowsTail' /\ CleanupTargets' /\ DrainCovers' /\ TrackedBounded'
  BY <1>1 DEF IInv, ExclusiveFollowsTail, CleanupTargets, DrainCovers, TrackedBounded,
     TailOwners, TailSessions, Some, transformVars, cleanupVars
<1> QED BY <1>2, <1>3, <1>4, <1>5 DEF IInv

(* The end of dispose keeps the inductive invariant.                       *)
LEMMA DisposePreserves ==
  ASSUME IInv, Dispose
  PROVE  IInv'
<1> USE DEF Dispose
<1>1. TypeOK /\ ActiveCleanups' = ActiveCleanups /\ InExclusive' = InExclusive
  BY DEF IInv, ActiveCleanups, InExclusive, cleanupVars
<1>2. TypeOK'
  BY <1>1 DEF TypeOK, transformVars, cleanupVars
<1>3. HoldersActive' /\ QueuesOrdered' /\ QueuesBounded'
  BY QueuesUntouched DEF IInv
<1>4. CleanupsOrdered'
  BY <1>1, PhasePreservesOrder DEF IInv, cleanupVars
<1>5. ExclusiveFollowsTail' /\ CleanupTargets' /\ DrainCovers'
  BY <1>1 DEF IInv, ExclusiveFollowsTail, CleanupTargets, DrainCovers, TailSessions,
     transformVars, cleanupVars
<1>6. TrackedBounded'
  BY FS_EmptySet, LocksAssumption DEF TrackedBounded
<1> QED BY <1>2, <1>3, <1>4, <1>5, <1>6 DEF IInv

(* A new manager satisfies the inductive invariant.                        *)
LEMMA InitIInv == Init => IInv
<1> SUFFICES ASSUME Init PROVE IInv
  OBVIOUS
<1> USE DEF Init
<1>1. TypeOK
  BY LocksAssumption DEF TypeOK
<1>2. Active = {} /\ ActiveCleanups = {} /\ InExclusive = {} /\ TailSessions = {}
  BY DEF Active, ActiveCleanups, InExclusive, TailSessions
<1>3. HoldersActive
  BY DEF HoldersActive
<1>4. QueuesOrdered
  <2>1. Explains({})
    BY <1>2 DEF Explains, StrictOrder, WaitsBehind, TailIsLast
  <2> QED BY <2>1 DEF QueuesOrdered
<1>5. CleanupsOrdered
  <2>1. CleanupExplains({})
    BY <1>2 DEF CleanupExplains, StrictOrder
  <2> QED BY <2>1 DEF CleanupsOrdered
<1>6. ExclusiveFollowsTail /\ CleanupTargets /\ DrainCovers
  BY <1>2 DEF ExclusiveFollowsTail, CleanupTargets, DrainCovers
<1>7. QueuesBounded /\ TrackedBounded
  BY <1>2, FS_EmptySet, LocksAssumption DEF QueuesBounded, TrackedBounded
<1> QED BY <1>1, <1>3, <1>4, <1>5, <1>6, <1>7 DEF IInv

(* Every stretch of code between two awaits keeps the inductive invariant. *)
LEMMA NextIInv == IInv /\ [Next]_vars => IInv'
<1> SUFFICES ASSUME IInv, [Next]_vars PROVE IInv'
  OBVIOUS
<1>1. ASSUME NEW t \in Transforms, NEW W \in SUBSET SessionIDs, Arrive(t, W) PROVE IInv'
  BY <1>1, EvaluatePreserves DEF Arrive, Active
<1>2. ASSUME NEW t \in Transforms, Retry(t) PROVE IInv'
  <2>1. wants[t] \in SUBSET SessionIDs /\ rejected[t] \in SUBSET SessionIDs
    BY DEF IInv, TypeOK
  <2> QED BY <1>2, <2>1, EvaluatePreserves DEF Retry, Active
<1>3. ASSUME NEW t \in Transforms, RetryThrows(t) PROVE IInv'
  BY <1>3, RetryThrowsPreserves
<1>4. ASSUME NEW t \in Transforms, RejectTransform(t) PROVE IInv'
  BY <1>4, ReleasePreserves DEF RejectTransform, Acquired, Active
<1>5. ASSUME NEW t \in Transforms, EnterWindow(t) PROVE IInv'
  BY <1>5, EnterWindowPreserves
<1>6. ASSUME NEW t \in Transforms, LeaveWindow(t) PROVE IInv'
  BY <1>6, ReleasePreserves DEF LeaveWindow, Active, IInv, HoldersActive
<1>7. ASSUME NEW c \in Cleanups, NEW s \in SessionIDs, RequestCleanup(c, s) PROVE IInv'
  BY <1>7, RequestCleanupPreserves
<1>8. ASSUME NEW c \in Cleanups, CleanupStep(c) PROVE IInv'
  BY <1>8, EnterExclusivePreserves, StartDeletionPreserves, DeleteSessionPreserves,
     LeaveExclusivePreserves DEF CleanupStep
<1>9. ASSUME CloseAndDrain \/ Dispose PROVE IInv'
  BY <1>9, CloseAndDrainPreserves, DisposePreserves
<1>10. ASSUME UNCHANGED vars PROVE IInv'
  <2>1. /\ Active' = Active /\ ActiveCleanups' = ActiveCleanups /\ InExclusive' = InExclusive
        /\ TypeOK' /\ HoldersActive' /\ QueuesOrdered' /\ QueuesBounded'
    BY <1>10, QueuesUntouched
       DEF IInv, vars, TypeOK, Active, ActiveCleanups, InExclusive, transformVars, cleanupVars,
           closeVars
  <2>2. CleanupsOrdered'
    BY <1>10, <2>1, PhasePreservesOrder DEF IInv, vars, cleanupVars
  <2> QED BY <1>10, <2>1, <2>2
          DEF IInv, vars, transformVars, cleanupVars, closeVars, ExclusiveFollowsTail,
              CleanupTargets, DrainCovers, TrackedBounded, TailSessions
<1> QED BY <1>1, <1>2, <1>3, <1>4, <1>5, <1>6, <1>7, <1>8, <1>9, <1>10 DEF Next, TransformStep
-----------------------------------------------------------------------------
(* What the invariant says of the calls, for a state of it.                *)
(* Calls that wait for nobody share no session.                            *)
LEMMA FirstOnesDisjoint ==
  ASSUME IInv, NEW t \in Active, NEW u \in Active, t # u, behind[t] = {}, behind[u] = {}
  PROVE  reserved[t] \cap reserved[u] = {}
<1> SUFFICES ASSUME NEW s \in reserved[t] \cap reserved[u] PROVE FALSE
  OBVIOUS
<1>1. PICK R \in SUBSET (Transforms \X Transforms) : Explains(R)
  BY DEF IInv, QueuesOrdered
<1>2. <<t, u>> \in R /\ <<u, t>> \in R
  BY <1>1, FirstInItsQueues
<1> QED BY <1>1, <1>2 DEF Explains, StrictOrder

(* A deletion that runs has its session to itself.                         *)
LEMMA DeletingAlone ==
  ASSUME IInv, NEW c \in Cleanups, cleanupPc[c] \in {"deleting", "deleted"}
  PROVE  /\ \A t \in Transforms : target[c] \notin reserved[t]
         /\ \A d \in Cleanups :
              cleanupPc[d] \in {"exclusive", "deleting", "deleted"} => d = c
<1>1. c \in InExclusive /\ target[c] \in SessionIDs
  BY DEF InExclusive, IInv, CleanupTargets, ActiveCleanups
<1>2. transformTails[target[c]] = None
  BY <1>1 DEF IInv, ExclusiveFollowsTail
<1>3. \A t \in Transforms : target[c] \notin reserved[t]
  BY <1>1, <1>2, NoTailNoHolder DEF IInv
<1> QED BY <1>1, <1>3, OneExclusive DEF IInv, InExclusive

(* When the drain is over no call holds a session.                         *)
LEMMA DrainedHoldNothing ==
  ASSUME IInv, closing, drain = {}
  PROVE  \A t \in Transforms : reserved[t] = {}
<1>1. \A s \in SessionIDs : transformTails[s] = None
  BY DEF IInv, DrainCovers, TailSessions
<1> QED BY <1>1, NoTailNoHolder DEF IInv, TypeOK

(* A turn of the loop ends in waiting for room, with all the call wants, or *)
(* in the queues of what it wants but for the sessions it rejects.         *)
LEMMA ReservedOrRejected ==
  ASSUME TypeOK, NEW t \in Transforms, NEW W \in SUBSET SessionIDs,
         NEW R \in SUBSET SessionIDs, Evaluate(t, W, R)
  PROVE  /\ \/ pc'[t] = "capacity" /\ wants'[t] = W /\ reserved'[t] = reserved[t]
            \/ pc'[t] = "queued" /\ reserved'[t] \subseteq W
                 /\ W \subseteq reserved'[t] \cup rejected'[t]
         /\ \A u \in Transforms \ {t} :
              /\ pc'[u] = pc[u] /\ wants'[u] = wants[u]
              /\ rejected'[u] = rejected[u] /\ reserved'[u] = reserved[u]
<1>1. CASE ~TrackedFit(W)
  BY <1>1 DEF TypeOK, Evaluate
<1>2. CASE TrackedFit(W)
  <2> DEFINE untracked == Missing(W) \ tracked
             accepted(A) == (W \ exclusiveSessions) \ (untracked \ A)
  <2>1. PICK A \in Admitted(W) :
          /\ rejected' = [rejected EXCEPT ![t] = (R \cup (W \cap exclusiveSessions))
                                                   \cup (untracked \ A)]
          /\ reserved' = [reserved EXCEPT ![t] = accepted(A)]
    BY <1>2, Zenon DEF Evaluate
  <2>2. pc' = [pc EXCEPT ![t] = "queued"] /\ wants' = [wants EXCEPT ![t] = {}]
    BY <1>2 DEF Evaluate
  <2> HIDE DEF untracked
  <2> QED BY <2>1, <2>2 DEF TypeOK
<1> QED BY <1>1, <1>2

(* A call of one session waits for room, takes its place or is rejected;   *)
(* rejected are only sessions that are being deleted or not tracked.       *)
LEMMA OneSessionEvaluated ==
  ASSUME IInv, NEW t \in Transforms, NEW W \in SUBSET SessionIDs,
         \A s, i \in W : s = i, Evaluate(t, W, {})
  PROVE  /\ \/ pc'[t] = "capacity" /\ rejected'[t] = {} /\ reserved' = reserved
            \/ /\ pc'[t] = "queued"
               /\ rejected'[t] = {} \/ reserved'[t] = {}
               /\ \A s \in rejected'[t] : s \in exclusiveSessions \/ s \notin tracked
               /\ \A u \in Transforms : u # t => reserved'[u] = reserved[u]
         /\ reserved'[t] \cap exclusiveSessions \subseteq reserved[t]
<1>1. TypeOK /\ QueuesBounded
  BY DEF IInv
<1>2. CASE ~TrackedFit(W)
  <2>1. pc'[t] = "capacity" /\ rejected'[t] = {} \cup (W \cap exclusiveSessions)
          /\ reserved' = reserved
    BY <1>1, <1>2 DEF Evaluate, TypeOK
  <2>2. MissingTracked(W) # {}
    <3> SUFFICES ASSUME MissingTracked(W) = {} PROVE FALSE
      OBVIOUS
    <3>1. Cardinality(MissingTracked(W)) = 0
      BY FS_EmptySet
    <3>2. Cardinality(TailSessions) \in Nat
      <4>1. IsFiniteSet(TailSessions)
        BY FS_Subset, LocksAssumption DEF TailSessions
      <4> QED BY <4>1, FS_CardinalityType
    <3> QED BY <1>1, <1>2, <3>1, <3>2, LocksAssumption DEF TrackedFit, Available, QueuesBounded
  <2>3. W \cap exclusiveSessions = {}
    BY <2>2 DEF MissingTracked, Missing
  <2> QED BY <2>1, <2>3
<1>3. CASE TrackedFit(W)
  <2> DEFINE untracked == Missing(W) \ tracked
             accepted(A) == (W \ exclusiveSessions) \ (untracked \ A)
  <2>1. PICK A \in Admitted(W) :
          /\ rejected' = [rejected EXCEPT ![t] = ({} \cup (W \cap exclusiveSessions))
                                                   \cup (untracked \ A)]
          /\ reserved' = [reserved EXCEPT ![t] = accepted(A)]
    BY <1>3, Zenon DEF Evaluate
  <2>2. pc'[t] = "queued"
    BY <1>1, <1>3 DEF Evaluate, TypeOK
  <2>3. /\ rejected'[t] = (W \cap exclusiveSessions) \cup (untracked \ A)
        /\ reserved'[t] = accepted(A)
        /\ \A u \in Transforms : u # t => reserved'[u] = reserved[u]
    <3> HIDE DEF untracked, accepted
    <3> QED BY <1>1, <2>1 DEF TypeOK
  <2>4. untracked \subseteq W \ exclusiveSessions /\ untracked \cap tracked = {}
    BY DEF Missing
  <2> HIDE DEF untracked
  <2>5. rejected'[t] = {} \/ reserved'[t] = {}
    BY <2>3, <2>4
  <2> QED BY <2>2, <2>3, <2>4, <2>5
<1> QED BY <1>2, <1>3
-----------------------------------------------------------------------------
(* The invariant holds in every state, whatever the numbers of calls,      *)
(* deletions and sessions.                                                 *)
THEOREM Inductive == Spec => []IInv
<1> QED BY InitIInv, NextIInv, PTL DEF Spec

(* The state keeps its shape.                                              *)
THEOREM TypeCorrect == Spec => []TypeOK
<1>1. IInv => TypeOK
  BY DEF IInv
<1> QED BY <1>1, Inductive, PTL

(* No two windows that are open together share a session: the queues built *)
(* from single tails serialize the transforms of every session.            *)
THEOREM SameSessionSerialized == Spec => []SerializedWindows
<1>1. IInv => SerializedWindows
  <2> SUFFICES ASSUME IInv, NEW t \in Transforms, NEW u \in Transforms, t # u,
                      pc[t] = "running", pc[u] = "running"
               PROVE  reserved[t] \cap reserved[u] = {}
    BY DEF SerializedWindows
  <2>1. t \in Active /\ u \in Active /\ behind[t] = {} /\ behind[u] = {}
    BY DEF IInv, HoldersActive, Active
  <2> QED BY <2>1, FirstOnesDisjoint
<1> QED BY <1>1, Inductive, PTL

(* A deletion works alone: no transform holds or awaits its session, and   *)
(* no other deletion has entered its exclusive phase.                      *)
THEOREM DeletionsAlone == Spec => []DeletionIsExclusive
<1>1. IInv => DeletionIsExclusive
  BY DeletingAlone DEF DeletionIsExclusive
<1> QED BY <1>1, Inductive, PTL

(* The map of queues never outgrows maxSessions.                           *)
THEOREM QueueCapacity == Spec => []QueuesBounded
<1>1. IInv => QueuesBounded
  BY DEF IInv
<1> QED BY <1>1, Inductive, PTL

(* acquireTransformLocks never loops without something to await.           *)
THEOREM NoSpinning == Spec => []NeverSpins
<1>1. IInv => NeverSpins
  <2> SUFFICES ASSUME IInv, NEW W \in SUBSET SessionIDs, TailOwners = {}
               PROVE  TrackedFit(W)
    BY DEF NeverSpins
  <2>1. TailSessions = {}
    BY DEF TailOwners
  <2>2. Available = MaxSessions
    BY <2>1, LocksAssumption, FS_EmptySet DEF Available
  <2>3. IsFiniteSet(tracked) /\ MissingTracked(W) \in SUBSET tracked
    BY LocksAssumption, FS_Subset DEF IInv, TypeOK, MissingTracked
  <2>4. /\ Cardinality(MissingTracked(W)) <= Cardinality(tracked)
        /\ Cardinality(MissingTracked(W)) \in Nat /\ Cardinality(tracked) \in Nat
    BY <2>3, FS_Subset, FS_CardinalityType
  <2> QED BY <2>2, <2>4, LocksAssumption DEF IInv, TrackedBounded, TrackedFit
<1> QED BY <1>1, Inductive, PTL

(* After dispose nothing that had a session is left over, for ever.        *)
THEOREM QuietAfterDispose == Spec => []DisposedIsQuiet
<1>1. IInv => DisposedIsQuiet
  <2> SUFFICES ASSUME IInv, disposed
               PROVE  /\ \A t \in Transforms : reserved[t] = {}
                      /\ \A c \in Cleanups : cleanupPc[c] = "idle"
                      /\ tracked = {}
    BY DEF DisposedIsQuiet
  <2>1. cleanupTail = None /\ closing /\ drain = {} /\ tracked = {}
    BY DEF IInv, DrainCovers
  <2>2. \A t \in Transforms : reserved[t] = {}
    BY <2>1, DrainedHoldNothing
  <2>3. ActiveCleanups = {}
    BY <2>1 DEF IInv, CleanupsOrdered, CleanupExplains
  <2> QED BY <2>1, <2>2, <2>3 DEF ActiveCleanups
<1> QED BY <1>1, Inductive, PTL
=============================================================================
