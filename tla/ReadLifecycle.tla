---------------------------- MODULE ReadLifecycle ----------------------------
(***************************************************************************)
(* ReadLifecycleManager (src/src/session/read-lifecycle.ts), one session.  *)
(* apply() awaits the store again and again, so it is a sequence of        *)
(* actions: one per awaited peek or put, with the synchronous code that    *)
(* follows it.  In between, rows of the store expire or are evicted.       *)
(*                                                                         *)
(* The mutation window is that of ContextLifecycle, reduced to what this   *)
(* pass uses: completed tool parts up to `seen' are frozen and replayed,   *)
(* later ones are live, unless the session is first observed; commit       *)
(* records what was sent.  The store keeps the CCRStore contract.  Outputs *)
(* do not change between requests (the host reloads the session).          *)
(*                                                                         *)
(* A marker shows a path, a state and a hash.  Paths are normalised ones;  *)
(* an original is Ineligible when it is too small, blank, already marked   *)
(* or no longer than its marker.                                           *)
(***************************************************************************)
EXTENDS Integers, FiniteSets, Sequences, SequencesExt

CONSTANTS Operations,      \* reads and writes a session may contain
          Contents, Ineligible, \* outputs of reads, and those never replaced
          CandidateHash,   \* [Contents -> Seq(hashes)]: allocation order
          NoCall, Raw, Unset, Infinity,
          MaxReplacements, MaxOperations, CompressStale, CompressSuperseded,
          MaxHistory,      \* bound: operations of the session
          MaxRows,         \* bound: rows in the store
          LastLine         \* of the file that the reads show

ASSUME ReadLifecycleAssumption ==
  /\ Ineligible \subseteq Contents
  /\ MaxReplacements \in Nat \ {0} /\ MaxOperations \in Nat \ {0}
  /\ CompressStale \in BOOLEAN /\ CompressSuperseded \in BOOLEAN
  /\ MaxHistory \in Nat /\ MaxRows \in Nat \ {0}
  /\ LastLine \in Nat /\ Infinity \in Nat /\ Infinity > LastLine /\ Unset \notin Nat
  /\ \A o \in Operations : o.kind \in {"read", "write"} /\ o.content \in Contents
  \* Enough candidates for every number of rows: the code always goes on to the next.
  /\ \A c \in Contents : /\ CandidateHash[c] \in Seq(Range(CandidateHash[c]))
                        /\ Len(CandidateHash[c]) >= MaxRows
                        /\ IsInjective(CandidateHash[c])

VARIABLES history,       \* the read and write parts of the session, in order
          seen,          \* how many of them earlier requests contained
          observed,      \* the session is tracked
          sent,          \* per part: Raw, or the marker last sent
          rows,          \* the session's live rows, oldest first
          replacements,  \* this.replacements, in Map order
          pc, at,        \* where apply() is
          output,        \* the outputs of the request
          lost           \* ghost: hashes with a row lost during this request

vars == <<history, seen, observed, sent, rows, replacements, pc, at, output, lost>>

Positions == 1 .. MaxHistory
AllRaw == [i \in Positions |-> Raw]
Marked(i) == output[i] # Raw
-----------------------------------------------------------------------------
(* readRange: offset and limit of the read's input, Unset if absent, other *)
(* values than natural numbers being invalid; Nothing is `undefined'.      *)
Nothing == [full |-> FALSE, start |-> 0, end |-> -1]
ReadRange(o) ==
  LET offset == IF o.offset = Unset THEN 0 ELSE o.offset
  IN  CASE o.offset = Unset /\ o.limit = Unset ->
             [full |-> TRUE, start |-> 0, end |-> Infinity]
        [] offset \notin Nat -> Nothing
        [] o.offset \in Nat /\ o.limit = Unset -> [full |-> FALSE, start |-> offset, end |-> Infinity]
        [] OTHER -> IF o.limit \in Nat \ {0}
                    THEN [full |-> FALSE, start |-> offset, end |-> offset + o.limit]
                    ELSE Nothing

CoversStartOnly(later, earlier) ==
  \/ later.full
  \/ later # Nothing /\ earlier # Nothing /\ ~earlier.full /\ later.start <= earlier.start
RangeCovers(later, earlier) ==
  \/ later.full
  \/ /\ later # Nothing /\ earlier # Nothing /\ ~earlier.full
     /\ later.start <= earlier.start
     /\ later.end >= earlier.end

(* classifyReads goes from the last operation back: futureByPath, when it  *)
(* has passed the last n operations ...                                    *)
Paths == {o.path : o \in Operations}
FutureByPath(ops) ==
  LET future[n \in 0 .. Len(ops)] ==
        IF n = 0 THEN [written |-> {}, readRanges |-> [p \in Paths |-> {}]]
        ELSE LET o == ops[Len(ops) + 1 - n]
             IN  IF o.kind = "write"
                 THEN [future[n - 1] EXCEPT !.written = @ \cup {o.path}]
                 ELSE [future[n - 1] EXCEPT !.readRanges[o.path] = @ \cup {ReadRange(o)}]
  IN  future

(* ... and the state it then gives to the operation before those.          *)
ClassifyReads(ops) ==
  [i \in DOMAIN ops |->
     LET ahead == FutureByPath(ops)[Len(ops) - i]
     IN  IF ops[i].kind = "write" THEN "write"
         ELSE IF ops[i].path \in ahead.written THEN "stale"
         ELSE IF \E r \in ahead.readRanges[ops[i].path] :
                   RangeCovers(r, ReadRange(ops[i]))
         THEN "superseded" ELSE "fresh"]

Overflowed == Len(history) > MaxOperations
Policy(state) ==
  \/ state = "stale" /\ CompressStale
  \/ state = "superseded" /\ CompressSuperseded

(* canMutateToolPart.                                                      *)
Live(i) == observed /\ seen < i
(* The reads that apply() goes on to replace.                              *)
Due(i) ==
  /\ ~Overflowed
  /\ history[i].kind = "read" /\ Policy(ClassifyReads(history)[i])
  /\ Live(i)
  /\ history[i].content \notin Ineligible
  /\ history[i].call # NoCall

(* The loops of apply() pass over other parts without waiting.             *)
NextOf(S, i) == Min({j \in S : i <= j} \cup {Len(history) + 1})
NextMarked(i) == NextOf({j \in DOMAIN history : sent[j] # Raw}, i)
NextDue(i) == NextOf({j \in DOMAIN history : Due(j)}, i)
-----------------------------------------------------------------------------
(* The store: the newest live row of a hash, and a put.                    *)
WithHash(h) == {n \in DOMAIN rows : rows[n].hash = h}
Peek(h) == {rows[n] : n \in {k \in WithHash(h) : \A i \in WithHash(h) : i <= k}}
Allocated(c) ==
  LET usable(h) == \A n \in WithHash(h) : rows[n].content = c
  IN  CandidateHash[c][CHOOSE n \in DOMAIN CandidateHash[c] :
                         /\ usable(CandidateHash[c][n])
                         /\ \A k \in 1 .. n - 1 : ~usable(CandidateHash[c][k])]
Marker(o, state, h) == [path |-> o.path, state |-> state, hash |-> h]

(* replacements: where the entry of a call is, remember, delete.           *)
Cached(call) == {n \in DOMAIN replacements : replacements[n].call = call}
Without(call) ==
  IF Cached(call) = {} THEN replacements
  ELSE RemoveAt(replacements, CHOOSE n \in Cached(call) : TRUE)
Remember(call, h, c) ==
  LET grown == Append(Without(call), [call |-> call, hash |-> h, content |-> c])
  IN  IF Len(grown) > MaxReplacements THEN Tail(grown) ELSE grown
-----------------------------------------------------------------------------
(* The host adds a part to the session between requests.                   *)
Grow(o) ==
  /\ pc = "idle" /\ Len(history) < MaxHistory
  /\ history' = Append(history, o)
  /\ UNCHANGED <<seen, observed, sent, rows, replacements, pc, at, output, lost>>

(* begin: frozen parts are replayed; apply() starts with their markers.    *)
Begin ==
  /\ pc = "idle"
  /\ pc' = "validating" /\ at' = NextMarked(1)
  /\ output' = sent
  /\ UNCHANGED <<history, seen, observed, sent, rows, replacements, lost>>

(* replayHasBacking: the newest row of the hash holds this very marker and *)
(* the part's raw output.                                                  *)
BackedByHashOnly(i) == Peek(output[i].hash) # {}
Backed(i) ==
  \E r \in Peek(output[i].hash) :
    r.compressed = output[i] /\ r.content = history[i].content

(* validateReplayedReadMarkers at one part: a replayed marker without      *)
(* backing is invalidated.  A failing peek counts as no backing.           *)
Invalidate ==
  /\ sent' = [sent EXCEPT ![at] = Raw]
  /\ output' = [output EXCEPT ![at] = Raw]
  /\ replacements' = IF history[at].call = NoCall THEN replacements
                     ELSE Without(history[at].call)

Validate ==
  /\ pc = "validating" /\ at <= Len(history)
  /\ at' = NextMarked(at + 1)
  /\ IF Backed(at)
     THEN UNCHANGED <<sent, output, replacements>>
     ELSE Invalidate
  /\ UNCHANGED <<history, seen, observed, rows, pc, lost>>

PeekFails ==
  /\ pc = "validating" /\ at <= Len(history)
  /\ at' = NextMarked(at + 1)
  /\ Invalidate
  /\ UNCHANGED <<history, seen, observed, rows, pc, lost>>

(* scanOperations and classifyReads, then the next read to look at.        *)
StartReplacing ==
  /\ pc = "validating" /\ at = Len(history) + 1
  /\ pc' = "replacing" /\ at' = NextDue(1)
  /\ UNCHANGED <<history, seen, observed, sent, rows, replacements, output, lost>>

(* A cache breakpoint freezes the part.                                    *)
Skip ==
  /\ pc = "replacing" /\ at <= Len(history)
  /\ at' = NextDue(at + 1)
  /\ UNCHANGED <<history, seen, observed, sent, rows, replacements, pc, output, lost>>

(* replace, first half: the replacement remembered for the call is reused  *)
(* when a peek finds its row; otherwise it is forgotten.                   *)
Remembered(i) ==
  {r \in {replacements[n] : n \in Cached(history[i].call)} :
     r.content = history[i].content}
Reusable(i) ==
  {r \in Remembered(i) :
     \E row \in Peek(r.hash) : row.content = history[i].content}

UseCached ==
  /\ pc = "replacing" /\ at <= Len(history)
  /\ IF Reusable(at) # {}
     THEN LET r == CHOOSE x \in Reusable(at) : TRUE
          IN  /\ replacements' = Remember(r.call, r.hash, r.content)
              /\ output' = [output EXCEPT ![at] =
                              Marker(history[at], ClassifyReads(history)[at], r.hash)]
              /\ at' = NextDue(at + 1) /\ pc' = pc
     ELSE /\ replacements' = IF Remembered(at) # {} THEN Without(history[at].call)
                             ELSE replacements
          /\ pc' = "putting"
          /\ UNCHANGED <<output, at>>
  /\ UNCHANGED <<history, seen, observed, sent, rows, lost>>

(* ... second half: the original is stored under the marker that names the *)
(* committed hash.                                                         *)
Put ==
  LET o == history[at]
      h == Allocated(o.content)
      marker == Marker(o, ClassifyReads(history)[at], h)
  IN  /\ pc = "putting" /\ Len(rows) < MaxRows
      /\ rows' = Append(rows, [hash |-> h, content |-> o.content, compressed |-> marker])
      /\ replacements' = Remember(o.call, h, o.content)
      /\ output' = [output EXCEPT ![at] = marker]
      /\ pc' = "replacing" /\ at' = NextDue(at + 1)
      /\ UNCHANGED <<history, seen, observed, sent, lost>>

(* A failing peek or put leaves the original in place.                     *)
StoreFails ==
  /\ \/ pc = "putting"
     \/ pc = "replacing" /\ at <= Len(history) /\ Remembered(at) # {}
  /\ pc' = "replacing" /\ at' = NextDue(at + 1)
  /\ UNCHANGED <<history, seen, observed, sent, rows, replacements, output, lost>>

(* The window closes: its parts are no longer live.  commit records what   *)
(* was sent, and rolls back what cannot be retained; abort, when any pass  *)
(* of the request throws, rolls every live part back.                      *)
Close(rolledBack) ==
  /\ sent' = [i \in Positions |-> IF i \in rolledBack THEN Raw ELSE output[i]]
  /\ seen' = Len(history) /\ observed' = TRUE
  /\ pc' = "idle" /\ at' = 0
  /\ output' = sent'
  /\ lost' = {}
  /\ UNCHANGED <<history, rows, replacements>>

Changed == {i \in DOMAIN history : Live(i) /\ Marked(i)}
Commit ==
  /\ pc = "replacing" /\ at = Len(history) + 1
  /\ \E rolledBack \in SUBSET Changed : Close(rolledBack)
Abort == pc # "idle" /\ Close(Changed)

(* The session makes room for another one in the map of the lifecycle,     *)
(* which only happens to one without a retained representation.            *)
Evict ==
  /\ pc = "idle" /\ observed /\ sent = AllRaw
  /\ seen' = 0 /\ observed' = FALSE
  /\ UNCHANGED <<history, sent, rows, replacements, pc, at, output, lost>>

(* The oldest row expires or makes room: all have one lifetime.  The       *)
(* plugin's other puts do not touch the rows of these contents.            *)
RowLost ==
  /\ rows # <<>>
  /\ rows' = Tail(rows)
  /\ lost' = IF pc = "idle" THEN lost ELSE lost \cup {Head(rows).hash}
  /\ UNCHANGED <<history, seen, observed, sent, replacements, pc, at, output>>

(* session.deleted runs between transforms; the next request observes the  *)
(* session for the first time.                                             *)
DeleteSession ==
  /\ pc = "idle" /\ observed
  /\ rows' = <<>> /\ replacements' = <<>>
  /\ seen' = 0 /\ observed' = FALSE
  /\ sent' = AllRaw /\ output' = AllRaw
  /\ UNCHANGED <<history, pc, at, lost>>
-----------------------------------------------------------------------------
Init ==
  /\ history = <<>> /\ seen = 0 /\ observed = FALSE
  /\ sent = AllRaw /\ output = AllRaw
  /\ rows = <<>> /\ replacements = <<>>
  /\ pc = "idle" /\ at = 0 /\ lost = {}

Next ==
  \/ \E o \in Operations : Grow(o)
  \/ Begin \/ Validate \/ PeekFails \/ StartReplacing
  \/ Skip \/ UseCached \/ Put \/ StoreFails
  \/ Commit \/ Abort \/ Evict
  \/ RowLost
  \/ DeleteSession

Spec == Init /\ [][Next]_vars
-----------------------------------------------------------------------------
(* Shape of the state: at most one replacement per call, within the limit. *)
TypeOK ==
  /\ ToSet(history) \subseteq Operations /\ Len(history) <= MaxHistory
  /\ seen \in 0 .. Len(history) /\ observed \in BOOLEAN
  /\ \A i \in Positions : output[i] # Raw => i <= Len(history) /\ history[i].kind = "read"
  /\ pc \in {"idle", "validating", "replacing", "putting"}
  /\ Len(replacements) <= MaxReplacements
  /\ \A i, j \in DOMAIN replacements :
       replacements[i].call = replacements[j].call => i = j

(* Every marker a request leaves with resolves, in the store, to exactly   *)
(* the output of the read it stands for, unless its row was lost while the *)
(* request was being prepared: replayed markers are preflighted, even when *)
(* the scan overflows, and cached ones are confirmed.                      *)
SentMarkersResolve ==
  (pc = "replacing" /\ at = Len(history) + 1) =>
    \A i \in DOMAIN history :
      Marked(i) /\ output[i].hash \notin lost
        => \E r \in Peek(output[i].hash) : r.content = history[i].content

(* The lines of the file a read certainly shows, and may show.             *)
Shown(o) ==
  {n \in 0 .. LastLine : LET r == ReadRange(o) IN r.start <= n /\ n < r.end}
MayShow(o) == IF ReadRange(o) = Nothing THEN 0 .. LastLine ELSE Shown(o)

(* What a marker hides is out of date or still visible: a later write to   *)
(* the path, or one later read of it that is raw in the same request and   *)
(* shows every line the hidden one showed.                                 *)
HiddenIsObsolete ==
  \A i \in DOMAIN history :
    Marked(i) => \E j \in i + 1 .. Len(history) :
                   /\ history[j].path = history[i].path
                   /\ \/ history[j].kind = "write"
                      \/ ~Marked(j) /\ MayShow(history[i]) \subseteq Shown(history[j])

(* The replacement cache keeps one entry a call within its limit, whatever *)
(* rows and roll-backs it outlives, and what leaves with it resolves.      *)
MarkersConsistent == TypeOK /\ SentMarkersResolve
=============================================================================
