------------------------------- MODULE Telemetry -------------------------------
(***************************************************************************)
(* LocalTelemetryAggregator (src/src/telemetry.ts) and what the retrieve   *)
(* tool reports to it (src/src/tools/retrieve.ts), as operators: every     *)
(* method is synchronous.  Latency is kept as the number of its samples.   *)
(* The session of a call is never empty, so no record is refused.          *)
(***************************************************************************)
EXTENDS Integers, FiniteSets, Functions

CONSTANTS TelemetryReasons,  \* COMPRESSION_TELEMETRY_REASONS
          Modes,             \* RETRIEVAL_MODES
          NotGiven           \* an argument left out, a header not found

Outcomes == {"compressed", "skipped", "error"}
AllReasons == TelemetryReasons \cup {"unknown"}

EmptyBucket ==
  [outcomes |-> [o \in Outcomes |-> 0], reasons |-> [r \in AllReasons |-> 0],
   saved |-> 0, retrievals |-> 0, tokens |-> [m \in Modes |-> 0],
   misses |-> 0, full |-> 0, samples |-> 0]
NoTelemetry == [global |-> EmptyBucket, sessions |-> << >>]

(* telemetryReason: a reason the aggregator does not list is "unknown".    *)
TelemetryReason(reason) == IF reason \in TelemetryReasons THEN reason ELSE "unknown"

(* complete(): the decision of a hook, by outcome and reason.              *)
Compressed(b, event) ==
  [b EXCEPT !.outcomes[event.outcome] = @ + 1,
            !.reasons[event.reason] = @ + 1,
            !.saved = IF event.outcome = "compressed" THEN @ + event.saved ELSE @,
            !.samples = @ + 1]

Retrieved(b, event) ==
  [b EXCEPT !.retrievals = @ + 1,
            !.tokens[event.mode] = @ + event.tokens,
            !.misses = IF event.found THEN @ ELSE @ + 1,
            !.full = IF event.mode = "full" THEN @ + 1 ELSE @,
            !.samples = @ + 1]

(* bucketsFor: the global bucket and the session's, created when missing.  *)
BucketOf(t, s) == IF s \in DOMAIN t.sessions THEN t.sessions[s] ELSE EmptyBucket
WithBuckets(t, s, global, session) ==
  [global |-> global,
   sessions |-> [i \in DOMAIN t.sessions \cup {s} |->
                   IF i = s THEN session ELSE t.sessions[i]]]
CompressionRecorded(t, s, event) ==
  WithBuckets(t, s, Compressed(t.global, event), Compressed(BucketOf(t, s), event))
RetrievalRecorded(t, s, event) ==
  WithBuckets(t, s, Retrieved(t.global, event), Retrieved(BucketOf(t, s), event))
Forgotten(t, s) == [t EXCEPT !.sessions = Restrict(@, DOMAIN @ \ {s})]

(* The mode a retrieval is counted under: the one asked for, else the one  *)
(* the first "mode:" line of the output names (of its header, or, when the *)
(* original came back without one, of the original itself).                *)
RequestedMode(call) ==
  CASE call.mode # NotGiven -> call.mode
    [] call.mode = NotGiven /\ call.ranged -> "range"
    [] call.mode = NotGiven /\ ~call.ranged /\ call.queried -> "query"
    [] OTHER -> NotGiven
CountedMode(call) ==
  CASE RequestedMode(call) # NotGiven -> RequestedMode(call)
    [] RequestedMode(call) = NotGiven /\ call.valid /\ call.header # NotGiven -> call.header
    [] OTHER -> IF call.valid /\ call.found THEN "full" ELSE "summary"
Retrieval(call) ==
  [mode |-> CountedMode(call), found |-> call.valid /\ call.found, tokens |-> call.tokens]

(* The counts of two buckets together.                                     *)
Plus(a, b) ==
  [outcomes |-> [o \in Outcomes |-> a.outcomes[o] + b.outcomes[o]],
   reasons |-> [r \in AllReasons |-> a.reasons[r] + b.reasons[r]],
   saved |-> a.saved + b.saved, retrievals |-> a.retrievals + b.retrievals,
   tokens |-> [m \in Modes |-> a.tokens[m] + b.tokens[m]],
   misses |-> a.misses + b.misses, full |-> a.full + b.full,
   samples |-> a.samples + b.samples]
=============================================================================
