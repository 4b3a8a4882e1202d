-------------------------------- MODULE Plugin --------------------------------
(***************************************************************************)
(* The hooks of src/src/plugin.ts around MCP calls and telemetry.  The     *)
(* host passes the raw result of an MCP call to tool.execute.after, which  *)
(* can only note the call as pending; the text appears as a completed part *)
(* of a later request, where the transform hook compresses it.  The hook   *)
(* removes the calls it has processed from the pending ones after run()    *)
(* has returned, in a step of its own.                                     *)
(*                                                                         *)
(* Of ContextLifecycleManager (ContextTransforms) this module needs which  *)
(* parts a window may change: those it is the first to see, unless it is   *)
(* the first to see their session or the host has pinned them.  Windows of *)
(* one session, and its deletion, exclude each other (TransformLocks); a   *)
(* transform is followed from the moment its window opens.  One that is    *)
(* refused changes nothing: the error is swallowed.                        *)
(***************************************************************************)
EXTENDS Integers, FiniteSets, FiniteSetsExt, Functions, Telemetry

CONSTANTS Sessions,
          Calls,               \* <<callID, tool>> of the MCP calls: numbers, in history order
          SessionOf,           \* [Calls -> Sessions]
          Unchangeable,        \* calls whose output holds a marker of its own, or whose
                               \* message the host has pinned by cache_control
          Aborted,             \* calls that never become a completed part
          Transforms,          \* calls of the transform hook
          Hooks, HookSession,  \* calls of tool.execute.after with text: [Hooks -> Sessions]
          MaxPendingSessions,  \* MAX_PENDING_MCP_SESSIONS
          MaxPendingCalls,     \* MAX_PENDING_MCP_CALLS_PER_SESSION
          Decisions,           \* how tool.execute.after ends: [outcome, reason, saved]
          RetrievalCalls,      \* what headroom_retrieve is asked and finds
          MaxEvents            \* bound: hooks with text, retrievals, deletions, evictions

ASSUME PluginAssumption ==
  /\ Calls \subseteq Nat /\ SessionOf \in [Calls -> Sessions]
  /\ HookSession \in [Hooks -> Sessions] /\ Aborted \subseteq Calls
  /\ MaxPendingSessions \in Nat \ {0} /\ MaxPendingCalls \in Nat \ {0}

(* What is counted is finite, and no other decision has the reason of one  *)
(* that compresses: plugin.ts and the engine never give it as a reason.    *)
ASSUME TelemetryAssumption ==
  /\ IsFiniteSet(Calls) /\ IsFiniteSet(Transforms) /\ IsFiniteSet(Hooks)
  /\ IsFiniteSet(TelemetryReasons) /\ "compressed" \in TelemetryReasons
  /\ Decisions \subseteq [outcome : Outcomes, reason : STRING, saved : Nat]
  /\ \A d \in Decisions : d.reason = "compressed" => d.outcome = "compressed"
  /\ \A call \in RetrievalCalls : CountedMode(call) \in Modes /\ call.tokens \in Nat

VARIABLES pending,     \* pendingMcpToolCalls: sessions, calls and their Map and Set order
          phase,       \* the host's view of each MCP call
          known, seen, \* sessions and parts the lifecycle manager has recorded
          transform,   \* the transform calls
          hook,        \* which tool.execute.after with text are running
          closing,     \* closeAndDrain was called
          telemetry,
          attempts,    \* ghost: how often the fallback compressed a call
          dropped,     \* ghost: calls displaced, or deleted with their session
          forgotten,   \* ghost: the sum of the session buckets that were deleted
          events       \* how many of each the bound has allowed so far

pluginVars == <<pending, known, seen, transform, closing, telemetry>>
vars == <<pluginVars, phase, hook, attempts, dropped, forgotten, events>>

None == "none"
Idle == [pc |-> "idle", session |-> None, request |-> {}, at |-> 0,
         live |-> {}, processed |-> {}]
-----------------------------------------------------------------------------
(* PendingMcpToolCalls: the sessions of the Map, the calls of its Sets, and *)
(* which of two sessions, or of two calls of a session, was added first.   *)
NothingPending == [sessions |-> {}, calls |-> {}, sessionOrder |-> {}, callOrder |-> {}]
CallsOf(p, s) == {c \in p.calls : SessionOf[c] = s}
Kept(p, S, C) ==
  [sessions |-> S, calls |-> C,
   sessionOrder |-> p.sessionOrder \cap (S \X S), callOrder |-> p.callOrder \cap (C \X C)]
Oldest(order, S) == CHOOSE x \in S : \A y \in S \ {x} : <<x, y>> \in order
Without(p, s) == Kept(p, p.sessions \ {s}, p.calls \ CallsOf(p, s))

(* mark: a new session displaces the oldest one when the map is full, a    *)
(* new call the oldest call of its session; a call marked again moves to   *)
(* the end of its session.                                                 *)
WithSession(p, s) ==
  LET full == Cardinality(p.sessions) >= MaxPendingSessions
      q == IF full THEN Without(p, Oldest(p.sessionOrder, p.sessions)) ELSE p
  IN  IF s \in p.sessions THEN p
      ELSE [q EXCEPT !.sessions = @ \cup {s},
                     !.sessionOrder = @ \cup (q.sessions \X {s})]
WithCall(p, c) ==
  LET own  == CallsOf(p, SessionOf[c])
      full == c \notin own /\ Cardinality(own) >= MaxPendingCalls
      gone == {c} \cup IF full THEN {Oldest(p.callOrder, own)} ELSE {}
      q    == Kept(p, p.sessions, p.calls \ gone)
  IN  [q EXCEPT !.calls = @ \cup {c}, !.callOrder = @ \cup ((own \ gone) \X {c})]
Marked(p, c) == WithCall(WithSession(p, SessionOf[c]), c)

(* delete, for each of the calls: the last one takes its session with it.  *)
DeletedSession(p, calls) ==
  LET S == {SessionOf[c] : c \in calls}
  IN  Kept(p, p.sessions \ S, {c \in p.calls : SessionOf[c] \notin S})
DeletedCall(p, calls) == Kept(p, p.sessions, p.calls \ calls)
Deleted(p, calls) ==
  LET emptied == {s \in {SessionOf[c] : c \in calls} : CallsOf(p, s) \subseteq calls}
  IN  Kept(p, p.sessions \ emptied, p.calls \ calls)
-----------------------------------------------------------------------------
(* tool.execute.after with a raw result.                                   *)
MarkPending(c) ==
  /\ phase[c] # "completed"
  /\ phase' = [phase EXCEPT ![c] = "returned"]
  /\ pending' = Marked(pending, c)
  /\ dropped' = dropped \cup (pending.calls \ pending'.calls)
  /\ UNCHANGED <<known, seen, transform, hook, closing, telemetry, attempts,
                 forgotten, events>>

(* External: the host stores the call's text as a completed part.          *)
Complete(c) ==
  /\ phase[c] = "returned" /\ c \notin Aborted
  /\ phase' = [phase EXCEPT ![c] = "completed"]
  /\ UNCHANGED <<pluginVars, hook, attempts, dropped, forgotten, events>>
-----------------------------------------------------------------------------
(* The transform hook.  Its window opens on a request with the completed   *)
(* parts of the session; in a session none of whose calls is completed it  *)
(* has nothing to do, and is not followed.                                 *)
Running(s) == {t \in Transforms : transform[t].session = s
                                    /\ transform[t].pc \in {"reading", "compressing"}}
Followed == {SessionOf[c] : c \in Calls \ Aborted}
History(s) == {c \in Calls : SessionOf[c] = s /\ phase[c] = "completed"}
UnseenOrFirst(s, parts) == parts \ seen
Unseen(s, parts) == IF s \in known THEN parts \ seen ELSE {}

OpenWindow(t, s) ==
  /\ transform[t].pc = "idle"
  /\ Running(s) = {} /\ ~closing
  /\ transform' = [transform EXCEPT ![t] =
       [Idle EXCEPT !.pc = "reading", !.session = s, !.request = History(s),
                    !.live = Unseen(s, History(s))]]
  /\ known' = known \cup {s}
  /\ seen' = seen \cup History(s)
  /\ UNCHANGED <<pending, phase, hook, closing, telemetry, attempts, dropped,
                 forgotten, events>>

(* readLifecycle.apply throws: the window is aborted, the error swallowed. *)
ReadLifecycleThrows(t) ==
  /\ transform[t].pc = "reading"
  /\ transform' = [transform EXCEPT ![t] = Idle]
  /\ UNCHANGED <<pending, known, seen, closing, telemetry, phase, hook, attempts,
                 dropped, forgotten, events>>

(* The loop over the parts runs on, without an await, from those after the *)
(* last one it had compressed to the next that is pending and may be       *)
(* changed; every pending part it meets counts as processed.  After the    *)
(* last one the spans are folded (SpanDedup), and the window is committed. *)
Compressible(r, left) == (left \cap pending.calls \cap r.live) \ Unchangeable
MetMutable(r, parts) == parts \cap pending.calls \cap r.live
Met(r, parts) == parts \cap pending.calls
Continue(t, left) ==
  LET r == transform[t]
      J == Compressible(r, left)
  IN  \/ /\ J = {}
         /\ transform' = [transform EXCEPT ![t] =
              [r EXCEPT !.pc = "settling", !.at = 0, !.processed = @ \cup Met(r, left)]]
         /\ UNCHANGED attempts
      \/ /\ J # {}
         /\ transform' = [transform EXCEPT ![t] =
              [r EXCEPT !.pc = "compressing", !.at = Min(J),
                        !.processed = @ \cup Met(r, {c \in left : c <= Min(J)})]]
         /\ attempts' = [attempts EXCEPT ![Min(J)] = @ + 1]

ReadLifecycleReturns(t) ==
  /\ transform[t].pc = "reading"
  /\ Continue(t, transform[t].request)
  /\ UNCHANGED <<pending, known, seen, closing, telemetry, phase, hook, dropped,
                 forgotten, events>>

(* The tool.execute.after the loop awaits: it never throws, and records    *)
(* one decision whichever way it ends.                                     *)
Decided(s, d) ==
  telemetry' = CompressionRecorded(telemetry, s,
                 [d EXCEPT !.reason = IF d.outcome = "compressed" THEN d.outcome
                                      ELSE TelemetryReason(d.reason)])
FallbackReturns(t) ==
  /\ transform[t].pc = "compressing"
  /\ \E d \in Decisions : Decided(transform[t].session, d)
  /\ Continue(t, {c \in transform[t].request : c > transform[t].at})
  /\ UNCHANGED <<pending, known, seen, closing, phase, hook, dropped, forgotten,
                 events>>

(* run() has returned; its window was released before.                     *)
Settle(t) ==
  /\ transform[t].pc = "settling"
  /\ pending' = Deleted(pending, transform[t].processed)
  /\ transform' = [transform EXCEPT ![t] = Idle]
  /\ UNCHANGED <<known, seen, closing, telemetry, phase, hook, attempts, dropped,
                 forgotten, events>>
-----------------------------------------------------------------------------
(* tool.execute.after with text, and headroom_retrieve.                    *)
Total(f) == SumFunction(f)
More == Total(events) < MaxEvents

StartHook(h) ==
  /\ ~hook[h] /\ More
  /\ hook' = [hook EXCEPT ![h] = TRUE]
  /\ events' = [events EXCEPT !.hooks = @ + 1]
  /\ UNCHANGED <<pluginVars, phase, attempts, dropped, forgotten>>

FinishHook(h) ==
  /\ hook[h]
  /\ \E d \in Decisions : Decided(HookSession[h], d)
  /\ hook' = [hook EXCEPT ![h] = FALSE]
  /\ UNCHANGED <<pending, known, seen, transform, closing, phase, attempts, dropped,
                 forgotten, events>>

(* The execute of headroom_retrieve, at the moment its lookup has ended.   *)
(* A hash that is refused is counted without a lookup.  One that throws    *)
(* (the SQLite file is busy, or closed) rejects the tool call before it    *)
(* gets to the record: nothing on the way catches the error.               *)
Retrieve(call) ==
  /\ More
  /\ events' = [events EXCEPT !.retrievals = @ + 1]
  /\ telemetry' = RetrievalRecorded(telemetry, call.session, Retrieval(call))
  /\ UNCHANGED <<pending, known, seen, transform, closing, phase, hook, attempts,
                 dropped, forgotten>>

RetrieveThrowsRecorded(call) ==
  /\ call.valid /\ More
  /\ events' = [events EXCEPT !.rejections = @ + 1]
  /\ telemetry' = RetrievalRecorded(telemetry, call.session,
                                    [Retrieval(call) EXCEPT !.found = FALSE])
  /\ UNCHANGED <<pending, known, seen, transform, closing, phase, hook, attempts,
                 dropped, forgotten>>
RetrieveThrows(call) ==
  /\ call.valid /\ More
  /\ events' = [events EXCEPT !.rejections = @ + 1]
  /\ UNCHANGED <<pluginVars, phase, hook, attempts, dropped, forgotten>>

(* session.deleted, with the session's transforms drained: the finally of  *)
(* the exclusive operation.  The hooks in flight are not waited for.       *)
DeleteSession(s) ==
  /\ Running(s) = {} /\ ~closing /\ More
  /\ events' = [events EXCEPT !.deletions = @ + 1]
  /\ s \in known \cup DOMAIN telemetry.sessions \cup pending.sessions
  /\ telemetry' = Forgotten(telemetry, s)
  /\ pending' = Without(pending, s)
  /\ known' = known \ {s}
  /\ seen' = {c \in seen : SessionOf[c] # s}
  /\ forgotten' = Plus(forgotten, BucketOf(telemetry, s))
  /\ dropped' = dropped \cup (pending.calls \ pending'.calls)
  /\ UNCHANGED <<transform, closing, phase, hook, attempts>>

(* The manager makes room for another session.                             *)
Evict(s) ==
  /\ s \in known /\ Running(s) = {} /\ More
  /\ events' = [events EXCEPT !.evictions = @ + 1]
  /\ known' = known \ {s}
  /\ seen' = {c \in seen : SessionOf[c] # s}
  /\ UNCHANGED <<pending, transform, closing, telemetry, phase, hook, attempts,
                 dropped, forgotten>>

(* dispose: refuse transforms, wait for those that run, forget the rest.   *)
CloseAndDrain ==
  /\ ~closing /\ closing' = TRUE
  /\ UNCHANGED <<pending, known, seen, transform, telemetry, phase, hook, attempts,
                 dropped, forgotten, events>>
Dispose ==
  /\ closing /\ \A s \in Sessions : Running(s) = {}
  /\ known # {} \/ pending # NothingPending
  /\ pending' = NothingPending /\ known' = {} /\ seen' = {}
  /\ dropped' = dropped \cup pending.calls
  /\ UNCHANGED <<transform, closing, telemetry, phase, hook, attempts, forgotten,
                 events>>
-----------------------------------------------------------------------------
Init ==
  /\ pending = NothingPending /\ phase = [c \in Calls |-> "new"]
  /\ known = {} /\ seen = {}
  /\ transform = [t \in Transforms |-> Idle]
  /\ hook = [h \in Hooks |-> FALSE]
  /\ closing = FALSE /\ telemetry = NoTelemetry
  /\ attempts = [c \in Calls |-> 0] /\ dropped = {} /\ forgotten = EmptyBucket
  /\ events = [hooks |-> 0, retrievals |-> 0, rejections |-> 0, deletions |-> 0,
               evictions |-> 0]

Next ==
  \/ \E c \in Calls : MarkPending(c) \/ Complete(c)
  \/ \E t \in Transforms :
       \/ \E s \in Followed : OpenWindow(t, s)
       \/ ReadLifecycleThrows(t)
       \/ ReadLifecycleReturns(t)
       \/ FallbackReturns(t)
       \/ Settle(t)
  \/ \E h \in Hooks : StartHook(h) \/ FinishHook(h)
  \/ \E call \in RetrievalCalls : Retrieve(call) \/ RetrieveThrows(call)
  \/ \E s \in Sessions : DeleteSession(s) \/ Evict(s)
  \/ CloseAndDrain
  \/ Dispose

Spec == Init /\ [][Next]_vars
-----------------------------------------------------------------------------
(* The pending calls stay within both limits, each is listed once under    *)
(* its own session, and no session without calls takes up a place.         *)
InOrder(order, S) ==
  /\ \A x, y \in S : x # y => (<<x, y>> \in order <=> <<y, x>> \notin order)
  /\ \A x, y, z \in S : <<x, y>> \in order /\ <<y, z>> \in order => <<x, z>> \in order
TypeOK ==
  /\ pending.sessions \subseteq Sessions /\ pending.calls \subseteq Calls
  /\ pending.sessions = {SessionOf[c] : c \in pending.calls}
  /\ Cardinality(pending.sessions) <= MaxPendingSessions
  /\ InOrder(pending.sessionOrder, pending.sessions)
  /\ \A s \in pending.sessions :
       /\ Cardinality(CallsOf(pending, s)) <= MaxPendingCalls
       /\ InOrder(pending.callOrder, CallsOf(pending, s))
  /\ phase \in [Calls -> {"new", "returned", "completed"}]
  /\ \A t \in Transforms :
       /\ transform[t].pc \in {"idle", "reading", "compressing", "settling"}
       /\ transform[t].live \cup transform[t].processed \subseteq transform[t].request
  /\ known \subseteq Sessions /\ \A c \in seen : SessionOf[c] \in known

(* The fallback compresses the output of a call at most once, whatever     *)
(* evictions, failed transforms and transforms that start before the last  *)
(* one has removed its calls come in between.                              *)
OncePerCall == \A c \in Calls : attempts[c] <= 1

(* When a transform has succeeded, no call of its request is pending any   *)
(* longer: neither one it could not change nor one a failed transform had  *)
(* left behind is compressed later or keeps a place.                       *)
SettledLeavesNothing ==
  [][\A t \in Transforms :
       transform[t].pc = "settling" /\ transform'[t] # transform[t]
         => pending'.calls \cap transform[t].request = {}]_vars

(* A transform that may change the output of an MCP call finds the call    *)
(* still pending and has it compressed, unless it was displaced, its       *)
(* session was deleted, or it is unchangeable: no other transform, and no  *)
(* call marked meanwhile, makes it miss one.                               *)
NoCallLost ==
  \A t \in Transforms : transform[t].pc = "settling" =>
    \A c \in transform[t].live :
      attempts[c] > 0 \/ c \in dropped \cup Unchangeable

(* Every hook run is counted once, however it ends, and so is every        *)
(* retrieval that is answered, if only that its hash is refused; one whose *)
(* lookup throws is not counted at all.  The totals are those of the       *)
(* sessions with what deletions took away, also when a hook in flight      *)
(* brings a deleted session back.                                          *)
TelemetryBalanced ==
  LET b == telemetry.global
      sessionSum == FoldFunction(Plus, forgotten, telemetry.sessions)
      finished == Total(attempts) - Cardinality({t \in Transforms : transform[t].pc = "compressing"})
                    + events.hooks - Cardinality({h \in Hooks : hook[h]})
  IN  /\ b = sessionSum
      /\ Total(b.outcomes) = finished /\ Total(b.reasons) = finished
      /\ b.reasons["compressed"] = b.outcomes["compressed"]
      /\ b.retrievals = events.retrievals
      /\ b.samples = finished + events.retrievals
      /\ b.misses <= b.retrievals /\ b.full <= b.retrievals
=============================================================================
