-------------------------- MODULE ContextTransforms --------------------------
(***************************************************************************)
(* ContextLifecycleManager as the plugin uses it (src/src/plugin.ts): every *)
(* request goes through run(), every session.deleted event through          *)
(* runSessionExclusive() and dispose through closeAndDrain().  The queues   *)
(* are those of TransformLocks, the windows those of ContextLifecycle.      *)
(*                                                                          *)
(* A request is loaded by the host when the hook is called; when run()      *)
(* throws, the hook swallows the error and the request goes to the model    *)
(* as the host loaded it.                                                   *)
(***************************************************************************)
EXTENDS Integers, FiniteSets, Sequences

CONSTANTS SessionIDs, Transforms, Cleanups, None,
          Parts, SessionOf, Raw, Forms, Chars, Requests,
          MaxSessions, MaxParts, MaxChars, MaxVersion, MaxConflicts

(* The assumptions of both parts.                                          *)
ASSUME TransformsAssumption ==
  /\ IsFiniteSet(SessionIDs) /\ IsFiniteSet(Transforms)
  /\ None \notin Transforms \cup Cleanups \cup SessionIDs
  /\ Transforms \cap Cleanups = {}
  /\ IsFiniteSet(Parts) /\ Parts = 1 .. Cardinality(Parts)
  /\ SessionOf \in [Parts -> SessionIDs]
  /\ Raw \notin Forms /\ {"unknown", "not sent"} \cap (Forms \cup {Raw}) = {}
  /\ Chars \in [Forms -> Nat]
  /\ MaxSessions \in Nat \ {0} /\ MaxParts \in Nat \ {0} /\ MaxChars \in Nat \ {0}
  /\ MaxVersion \in Nat /\ MaxConflicts \in Nat
  /\ \A q \in Requests :
       /\ q.ids \in Seq(SessionIDs)
       /\ \A i, j \in DOMAIN q.ids : q.ids[i] = q.ids[j] => i = j
       /\ q.parts \subseteq Parts /\ q.pinned \subseteq q.parts
       /\ \A p \in q.parts : \E i \in DOMAIN q.ids : q.ids[i] = SessionOf[p]

VARIABLES pc, wants, rejected, reserved, behind, racing, transformTails,
          cleanupPc, target, cleanupBehind, awaitedTail, cleanupTail,
          exclusiveSessions, closing, drain, disposed,
          mapOrder, generation, state, window, hostVersion, firstSent, lastSent,
          request     \* what each running call was given: its request and the
                      \* host's versions when it was loaded

Locks == INSTANCE TransformLocks
           WITH tracked <- {s \in SessionIDs : generation[s] # 0}
Lifecycle == INSTANCE ContextLifecycle WITH Windows <- Transforms

lockVars == <<pc, wants, rejected, reserved, behind, racing, transformTails,
              cleanupPc, target, cleanupBehind, awaitedTail, cleanupTail,
              exclusiveSessions, closing, drain, disposed>>
managerVars == <<mapOrder, generation, state>>
windowVars == <<mapOrder, generation, state, window, hostVersion, firstSent, lastSent>>
vars == <<lockVars, windowVars, request>>

NoRequest == [ids |-> <<>>, parts |-> {}, pinned |-> {}, at |-> <<>>]
Loaded(q) == [ids |-> q.ids, parts |-> q.parts, pinned |-> q.pinned, at |-> hostVersion]
IdsOf(q) == {q.ids[i] : i \in DOMAIN q.ids}
AllRaw == [p \in Parts |-> Raw]

(* Environment: the history of a session grows from request to request,    *)
(* and requests of one session that are in flight together are made from   *)
(* the same history.                                                       *)
SameHistory(q) ==
  /\ Lifecycle!HistoryGrows(q)
  /\ \A t \in Transforms : \A p \in Parts :
       SessionOf[p] \in IdsOf(request[t]) \cap IdsOf(q)
         => (p \in request[t].parts <=> p \in q.parts)

(* A request that fails open does not wait for the others of its session.  *)
(* Of two that are in flight side by side neither is the earlier one, so   *)
(* what it shows counts for the parts no other request is carrying.        *)
Alone(t, P) == P \ UNION {request[u].parts : u \in Transforms \ {t}}
-----------------------------------------------------------------------------
Arrive(t, q) ==
  /\ SameHistory(q)
  /\ UNCHANGED windowVars
  /\ Locks!Arrive(t, IdsOf(q))
  /\ request' = [request EXCEPT ![t] = Loaded(q)]

(* The hook is called while the manager is closing: run throws at once.    *)
FailOpenClosing(q) ==
  /\ closing
  /\ SameHistory(q)
  /\ Lifecycle!Send(Alone(None, q.parts), hostVersion, AllRaw)
  /\ UNCHANGED <<lockVars, managerVars, window, hostVersion, request>>

Retry(t) ==
  /\ UNCHANGED windowVars
  /\ Locks!Retry(t)
  /\ UNCHANGED request

(* run throws, for lack of capacity or because the manager is closing; the *)
(* model gets the request as it was loaded.                                *)
FailOpen(t) ==
  /\ Lifecycle!Send(Alone(t, request[t].parts), request[t].at, AllRaw)
  /\ UNCHANGED <<managerVars, window, hostVersion>>
  /\ Locks!RejectTransform(t) \/ Locks!RetryThrows(t)
  /\ request' = [request EXCEPT ![t] = NoRequest]

EnterWindow(t) ==
  /\ Locks!Acquired(t)
  /\ Lifecycle!Begin(t, request[t], request[t].at)
  /\ Locks!OpenWindow(t)
  /\ UNCHANGED request

Transform(t, p) ==
  /\ \/ Lifecycle!Check(t, p)
     \/ \E f \in Forms \cup {Raw} : Lifecycle!Write(t, p, f)
     \/ Lifecycle!Invalidate(t, p)
  /\ UNCHANGED <<lockVars, request>>

(* The transform returns (commit) or throws (abort); both release.         *)
LeaveWindow(t) ==
  /\ pc[t] = "running"
  /\ Lifecycle!Commit(t) \/ Lifecycle!Abort(t)
  /\ Locks!LeaveWindow(t)
  /\ request' = [request EXCEPT ![t] = NoRequest]

RequestCleanup(c, s) ==
  /\ UNCHANGED windowVars
  /\ Locks!RequestCleanup(c, s)
  /\ UNCHANGED request

CleanupStep(c) ==
  /\ UNCHANGED windowVars
  /\ Locks!EnterExclusive(c) \/ Locks!StartDeletion(c) \/ Locks!LeaveExclusive(c)
  /\ UNCHANGED request

DeleteSession(c) ==
  /\ cleanupPc[c] = "deleting"
  /\ Lifecycle!DeleteSession(target[c])
  /\ Locks!DeleteSession(c)
  /\ UNCHANGED request

CloseAndDrain == UNCHANGED windowVars /\ Locks!CloseAndDrain /\ UNCHANGED request
Dispose == Lifecycle!Clear /\ Locks!Dispose /\ UNCHANGED request
HostEdit(p) == Lifecycle!HostEdit(p) /\ UNCHANGED <<lockVars, request>>
-----------------------------------------------------------------------------
Init ==
  /\ Lifecycle!Init
  /\ Locks!Init
  /\ request = [t \in Transforms |-> NoRequest]

Next ==
  \/ \E t \in Transforms :
       \/ \E q \in Requests : Arrive(t, q)
       \/ Retry(t)
       \/ FailOpen(t)
       \/ EnterWindow(t)
       \/ \E p \in Parts : Transform(t, p)
       \/ LeaveWindow(t)
  \/ \E q \in Requests : FailOpenClosing(q)
  \/ \E c \in Cleanups :
       \/ \E s \in SessionIDs : RequestCleanup(c, s)
       \/ CleanupStep(c)
       \/ DeleteSession(c)
  \/ CloseAndDrain
  \/ Dispose
  \/ \E p \in Parts : HostEdit(p)

Spec == Init /\ [][Next]_vars
-----------------------------------------------------------------------------
(* What the model was shown stays, whatever evictions, deletions, capacity *)
(* rejections and failures happen between the requests of a session.       *)
RepresentationStable == Lifecycle!RepresentationStable

(* The record the manager keeps of a part is what the model last saw of    *)
(* it, except while a window is changing it or its session is going away.  *)
RecordIsLastSent ==
  \A p \in Parts :
    LET s == SessionOf[p]
        r == state[generation[s]].parts[p]
    IN  generation[s] # 0 /\ state[generation[s]].openWindows = 0
          /\ s \notin exclusiveSessions /\ ~closing
          /\ r.form # "unknown" /\ r.version = hostVersion[p] /\ lastSent[p] # Lifecycle!NotSent
        => r.form = lastSent[p]

(* The composition does with the queues and the tracked sessions what      *)
(* TransformLocks says: begin only ever tracks and evicts as it allows.    *)
ImplementsLocks == Locks!Spec
=============================================================================
