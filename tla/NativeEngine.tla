---------------------------- MODULE NativeEngine ----------------------------
(***************************************************************************)
(* NativeEngine: one tool output's way through the tool.execute.after hook *)
(* (src/src/plugin.ts), NativeHeadroomCompatibleEngine                     *)
(* (src/src/engine/native.ts), the session's repetition fingerprints       *)
(* (src/src/session/repetition.ts), the decision cache and the circuit     *)
(* breaker (src/src/engine/resilience.ts) and the router                   *)
(* (src/src/engine/router.ts), over the rows of the memory store.          *)
(*                                                                         *)
(* A hook suspends twice: while it resolves the source of the output, and  *)
(* while it awaits store.put.  What lies between is one action.  put runs  *)
(* the contentForHash callback, and with it the compressor, before it      *)
(* returns its promise, so that the callback belongs to the same action;   *)
(* what the engine records about the row it does only after the await,     *)
(* when other calls, deletions and the disposal may have run.              *)
(*                                                                         *)
(* Abstractions.  A request is a tool output with the relevance query it   *)
(* is compressed under: the user's latest intent by the time the engine is *)
(* called (the tool's arguments belong to the output). The rest of the     *)
(* decision key (strength, profile, token count) is fixed. What a strategy *)
(* makes of a section is given by Sections: it saves tokens, keeps the     *)
(* text as it is, or throws. A compressed text is known by its request,    *)
(* the sections that were compressed and the hash in its marker; no        *)
(* sections stand for the repetition pointer. Similarity of outputs is the *)
(* relation Similar.                                                       *)
(***************************************************************************)
EXTENDS Integers, Sequences, SequencesExt, Subsequences

CONSTANTS Calls,          \* concurrent tool.execute.after hooks
          Sessions, Contents, Hashes, Kinds, None,
          Intents,        \* texts of user messages
          NoIntent,       \* a session without a text
          CandidateHash,  \* [Contents -> Seq(Hashes)], the content hash first
          Sections,       \* [Requests -> Seq([kind, outcome])]
          Chars,          \* [Requests -> Nat]: output.length of the result
          Similar,        \* pairs of contents at least 90% alike
          Short,          \* contents no longer than a repetition pointer
          RowTtl, MaxRows,                       \* the store
          MaxIntents,                            \* SessionIntentOptions
          MaxSessions, MaxEntriesPerSession,     \* SessionRepetitionOptions
          CacheTtl, MaxEntries, MaxResultChars, MaxSingleResultChars,
          FailureThreshold, Cooldown,            \* StrategyCircuitBreaker
          MaxEvents,      \* bound: tool results and user messages
          MaxTime         \* bound: the clock

(* What becomes of a section: the gate accepts a candidate of its strategy *)
(* (the lossy or the lossless one), accepts none, or the strategy throws.  *)
Outcomes == {"saves", "keeps", "throws"}

Requests == [content : Contents, query : Intents \cup {NoIntent}]

ASSUME EngineAssumption ==
  /\ NoIntent \notin Intents /\ None \notin Nat
  /\ CandidateHash \in [Contents -> Seq(Hashes) \ {<<>>}]
  /\ Sections \in [Requests -> Seq([kind : Kinds, outcome : Outcomes]) \ {<<>>}]
  /\ Chars \in [Requests -> Nat]
  /\ {RowTtl, MaxRows, MaxIntents, MaxSessions, MaxEntriesPerSession, CacheTtl,
      MaxEntries, MaxResultChars, Cooldown} \subseteq Nat \ {0}
  /\ MaxSingleResultChars \in 1 .. MaxResultChars
  /\ FailureThreshold \in Nat /\ MaxEvents \in Nat /\ MaxTime \in Nat

(* collisionHash gives fresh keys for ever: more than the store has rows.  *)
ASSUME EnoughAttempts ==
  \A c \in Contents : Len(CandidateHash[c]) > MaxRows /\ IsInjective(CandidateHash[c])

VARIABLES rows,        \* the store's entries, oldest first
          intents,     \* SessionIntentStore.values, oldest first
          repetition,  \* SessionRepetitionStore.sessions, least recent first
          cache,       \* CompressionDecisionCache: entries, retainedResultChars
          circuits,    \* StrategyCircuitBreaker.states, by kind
          streaks,     \* ghost: failures of a strategy since its last success
          hooks,       \* what each call works on, where it is suspended
          deletion,    \* how far session.deleted has come, by session
          disposed,    \* dispose has cleared the engine
          events,      \* tool results and user messages so far
          now          \* Date.now()

vars == <<rows, intents, repetition, cache, circuits, streaks, hooks, deletion,
          disposed, events, now>>
-----------------------------------------------------------------------------
Unexpired(S) == Picked(S, {i \in DOMAIN S : S[i].expiresAt > now})

BaseHash(c) == CandidateHash[c][1]
-----------------------------------------------------------------------------
(* StrategyCircuitBreaker.  A success deletes the state; a missing one is  *)
(* NoFailures.  isOpen turns the circuit half-open when the cooldown is    *)
(* over (Probed).                                                          *)
NoFailures == [failures |-> 0, openedAt |-> None, halfOpen |-> FALSE]
ClosedKeepsFailures(c) == [c EXCEPT !.openedAt = None, !.halfOpen = FALSE]
Closed(c) == NoFailures

CoolingDown(c) == c.openedAt # None /\ now - c.openedAt < Cooldown

IsOpenHalfOnly(c) == FailureThreshold > 0 /\ c.halfOpen
IsOpen(c) == FailureThreshold > 0 /\ (c.halfOpen \/ CoolingDown(c))

Probed(c) ==
  IF c.openedAt # None THEN [c EXCEPT !.openedAt = None, !.halfOpen = TRUE] ELSE c

Failed(c) ==
  IF FailureThreshold = 0 \/ CoolingDown(c) THEN c
  ELSE IF Probed(c).halfOpen
         THEN [failures |-> FailureThreshold, openedAt |-> now, halfOpen |-> FALSE]
         ELSE [c EXCEPT !.failures = @ + 1,
                        !.openedAt = IF c.failures + 1 >= FailureThreshold
                                       THEN now ELSE @]

(* compressByContentType: the sections in order, each under the breaker of *)
(* its kind.  An open circuit leaves the section as it is and makes the    *)
(* outcome transient; an exception ends the whole run.                     *)
LeftAloneCacheable(run) == run
LeftAlone(run) == [run EXCEPT !.cacheable = FALSE]

Threw(run, k) ==
  [run EXCEPT !.circuits[k] = Failed(Probed(@)),
              !.streaks[k] = IF @ < FailureThreshold THEN @ + 1 ELSE @,
              !.threw = TRUE]

Succeeded(run, k, i, outcome) ==
  [run EXCEPT !.circuits[k] = Closed(@),
              !.streaks[k] = 0,
              !.sections = @ \cup (IF outcome = "saves" THEN {i} ELSE {})]

RunSection(run, i, section) ==
  CASE run.threw -> run
    [] ~run.threw /\ IsOpen(run.circuits[section.kind]) -> LeftAlone(run)
    [] ~run.threw /\ ~IsOpen(run.circuits[section.kind]) ->
         IF section.outcome = "throws" THEN Threw(run, section.kind)
         ELSE Succeeded(run, section.kind, i, section.outcome)

RunCompressor(C, K, r) ==
  LET run[n \in 0 .. Len(Sections[r])] ==
        IF n = 0 THEN [circuits |-> C, streaks |-> K, sections |-> {},
                       cacheable |-> TRUE, threw |-> FALSE]
        ELSE RunSection(run[n - 1], n, Sections[r][n])
  IN  run[Len(Sections[r])]
-----------------------------------------------------------------------------
(* SessionIntentStore, and the query of a call by the time it is built.    *)
OfOthers(S, s) == Picked(S, {i \in DOMAIN S : S[i].session # s})

LastOf(S, n) == IF Len(S) > n THEN SubSeq(S, Len(S) - n + 1, Len(S)) ELSE S

IntentOf(s) ==
  LET own == {x.text : x \in {y \in Range(intents) : y.session = s}}
  IN  IF own = {} THEN NoIntent ELSE CHOOSE text \in own : TRUE

RequestOf(call) ==
  [content |-> hooks[call].content, query |-> IntentOf(hooks[call].session)]
-----------------------------------------------------------------------------
(* SessionRepetitionStore.  liveEntries drops what has expired and makes   *)
(* the session the most recent; a session without entries goes away.       *)
EntriesOf(s) ==
  LET own == {x.entries : x \in {y \in Range(repetition) : y.session = s}}
  IN  IF own = {} THEN <<>> ELSE Unexpired(CHOOSE E \in own : TRUE)

Touched(s, E) ==
  LET others == OfOthers(repetition, s)
  IN  IF E = <<>> THEN others ELSE Append(others, [session |-> s, entries |-> E])

(* The engine hands the 96-bit content hash to match and record as the     *)
(* signature of exact matches.                                             *)
Repeats(s, c) ==
  \E e \in Range(EntriesOf(s)) :
    e.signature = BaseHash(c) \/ <<e.content, c>> \in Similar

Recorded(s, c, expiresAt) ==
  LET e == [signature |-> BaseHash(c), content |-> c, expiresAt |-> expiresAt]
  IN  LastOf(Touched(s, LastOf(Append(EntriesOf(s), e), MaxEntriesPerSession)),
             MaxSessions)
-----------------------------------------------------------------------------
(* CompressionDecisionCache: an LRU order of decisions and the count of    *)
(* the result text they retain.                                            *)
CharsOf(E) ==
  LET sum[n \in 0 .. Len(E)] == IF n = 0 THEN 0 ELSE sum[n - 1] + E[n].chars
  IN  sum[Len(E)]

ExpiredKeys(cc) == {e.key : e \in {x \in Range(cc.entries) : x.expiresAt <= now}}

(* purgeExpired and deleteEntry.                                           *)
Without(cc, keys) ==
  LET gone == {i \in DOMAIN cc.entries : cc.entries[i].key \in keys}
  IN  [entries |-> Picked(cc.entries, DOMAIN cc.entries \ gone),
       resultChars |-> cc.resultChars - CharsOf(Picked(cc.entries, gone))]

(* get: an expired decision is dropped, a live one becomes the newest.     *)
Found(key) ==
  Unexpired(Picked(cache.entries, {i \in DOMAIN cache.entries : cache.entries[i].key = key}))

AfterGet(key) ==
  LET others == Without(cache, {key} \cap ExpiredKeys(cache))
  IN  [others EXCEPT !.entries = Without(others, {key}).entries \o Found(key)]

(* enforceBounds: the fewest oldest entries that must go.                  *)
Bounded(cc) ==
  LET Fits(n) == \/ n = Len(cc.entries)
                 \/ /\ Len(cc.entries) - n <= MaxEntries
                    /\ cc.resultChars - CharsOf(SubSeq(cc.entries, 1, n)) <= MaxResultChars
      n == CHOOSE m \in 0 .. Len(cc.entries) :
             Fits(m) /\ \A k \in 0 .. m - 1 : ~Fits(k)
  IN  [entries |-> SubSeq(cc.entries, n + 1, Len(cc.entries)),
       resultChars |-> cc.resultChars - CharsOf(SubSeq(cc.entries, 1, n))]

(* putResult and putSkip: purgeExpired, deleteEntry, insert, enforceBounds.*)
(* A result longer than MaxSingleResultChars is not kept, and what the key *)
(* held before is gone all the same.                                       *)
ReplacedUncounted(cc, key) ==
  [cc EXCEPT !.entries = Without(cc, {key} \cup ExpiredKeys(cc)).entries]
Replaced(cc, key) == Without(cc, {key} \cup ExpiredKeys(cc))

AfterPut(cc, key, kind, text, chars) ==
  LET others == Replaced(cc, key)
      e == [key |-> key, kind |-> kind, text |-> text, chars |-> chars,
            expiresAt |-> now + CacheTtl]
  IN  IF chars > MaxSingleResultChars THEN others
      ELSE Bounded([entries |-> Append(others.entries, e),
                    resultChars |-> others.resultChars + chars])

DecisionKey(r) == <<r.content, r.query>>

AfterPutResult(text) ==
  AfterPut(cache, DecisionKey(text.request), "result", text, Chars[text.request])
AfterPutSkip(cc, r) == AfterPut(cc, DecisionKey(r), "skip", None, 0)
-----------------------------------------------------------------------------
(* The store: an attempt's hash is usable when no row of another original  *)
(* holds it; a full store drops its oldest rows for the new one.           *)
AllocatedHash(R, c) ==
  LET Usable(n) == \A row \in Range(R) :
                     row.hash = CandidateHash[c][n] => row.content = c
  IN  CandidateHash[c][CHOOSE n \in DOMAIN CandidateHash[c] :
                         Usable(n) /\ \A m \in 1 .. n - 1 : ~Usable(m)]

(* contentForHash: the candidate as it is when it already bears the        *)
(* committed hash, else the strategy run again for that hash, which fails  *)
(* in a transient state of the breaker or without savings.                 *)
Result(C, K, text, failed) ==
  [circuits |-> C, streaks |-> K, text |-> text, failed |-> failed]
EmittedAsRendered(C, K, text, h) == Result(C, K, text, FALSE)
RenderedFor(C, K, text, h) ==
  LET run == RunCompressor(C, K, text.request)
  IN  IF h = text.hash THEN Result(C, K, text, FALSE)
      ELSE Result(run.circuits, run.streaks,
                  [text EXCEPT !.sections = run.sections, !.hash = h],
                  run.threw \/ ~run.cacheable \/ run.sections = {})

(* repetitionSummary(hash): a pointer can be rendered for any hash.        *)
Pointer(r, h) == [request |-> r, sections |-> {}, hash |-> h]

(* store.put up to its promise: prune, allocate, render, then evict and    *)
(* insert.  A failed rendering has only pruned.  Before it answers, the    *)
(* hook is suspended again, with what it will record about the row.        *)
Insert(call, text, h, remember) ==
  LET hook == hooks[call]
      live == Unexpired(rows)
      row == [session |-> hook.session, content |-> hook.content,
              hash |-> h, text |-> text, expiresAt |-> now + RowTtl]
  IN  /\ rows' = LastOf(Append(live, row), MaxRows)
      /\ hooks' = [hooks EXCEPT ![call] =
                     [pc |-> "stored", session |-> hook.session,
                      content |-> hook.content, text |-> text,
                      expiresAt |-> row.expiresAt, remember |-> remember]]

Idle == [pc |-> "idle"]
Return(call) == hooks' = [hooks EXCEPT ![call] = Idle]

Commit(call, C, K, text, remember) ==
  LET h == AllocatedHash(Unexpired(rows), hooks[call].content)
      rendered == RenderedFor(C, K, text, h)
  IN  /\ circuits' = rendered.circuits
      /\ streaks' = rendered.streaks
      /\ \/ /\ ~rendered.failed
            /\ Insert(call, rendered.text, h, remember)
         \/ /\ rendered.failed
            /\ rows' = Unexpired(rows)
            /\ Return(call)
-----------------------------------------------------------------------------
Init ==
  /\ rows = <<>>
  /\ intents = <<>>
  /\ repetition = <<>>
  /\ cache = [entries |-> <<>>, resultChars |-> 0]
  /\ circuits = [k \in Kinds |-> NoFailures]
  /\ streaks = [k \in Kinds |-> 0]
  /\ hooks = [call \in Calls |-> Idle]
  /\ deletion = [s \in Sessions |-> "alive"]
  /\ disposed = FALSE
  /\ events = 0
  /\ now = 0

(* chat.message: the text becomes the newest intent, the oldest may go.    *)
ChatMessage(s, text) ==
  /\ deletion[s] = "alive" /\ ~disposed
  /\ intents' = LastOf(Append(OfOthers(intents, s), [session |-> s, text |-> text]),
                       MaxIntents)
  /\ events < MaxEvents /\ events' = events + 1
  /\ UNCHANGED <<rows, repetition, cache, circuits, streaks, hooks, deletion, disposed, now>>

(* tool.execute.after for a result of a live session, up to the await of   *)
(* resolveCompressionSource.                                               *)
ToolExecuteAfter(call, s, c) ==
  /\ hooks[call].pc = "idle"
  /\ deletion[s] = "alive" /\ ~disposed
  /\ hooks' = [hooks EXCEPT ![call] = [pc |-> "source", session |-> s, content |-> c]]
  /\ events < MaxEvents /\ events' = events + 1
  /\ UNCHANGED <<rows, intents, repetition, cache, circuits, streaks, deletion, disposed, now>>

(* The hook's early returns, and the engine's for empty and marked         *)
(* outputs: too large, denied, below the threshold, protected.             *)
PassThrough(call) ==
  /\ hooks[call].pc = "source"
  /\ Return(call)
  /\ UNCHANGED <<rows, intents, repetition, cache, circuits, streaks, deletion, disposed, events, now>>

(* compressInternal up to its await; match has refreshed the session.      *)
Enters(call, pointer) ==
  LET s == hooks[call].session
      c == hooks[call].content
  IN  /\ (Repeats(s, c) /\ c \notin Short) = pointer
      /\ repetition' = Touched(s, EntriesOf(s))
      /\ UNCHANGED <<intents, deletion, disposed, events, now>>

CommitRepetition(call) ==
  /\ hooks[call].pc = "source"
  /\ Enters(call, TRUE)
  /\ Commit(call, circuits, streaks,
            Pointer(RequestOf(call),
                    AllocatedHash(Unexpired(rows), hooks[call].content)),
            FALSE)
  /\ UNCHANGED cache

(* A cached skip is answered at once; a cached result is committed anew.   *)
ReuseSkip(call) ==
  /\ hooks[call].pc = "source"
  /\ Enters(call, FALSE)
  /\ \E e \in Range(Found(DecisionKey(RequestOf(call)))) : e.kind = "skip"
  /\ cache' = AfterGet(DecisionKey(RequestOf(call)))
  /\ Return(call)
  /\ UNCHANGED <<rows, circuits, streaks>>

CommitCachedResult(call) ==
  /\ hooks[call].pc = "source"
  /\ Enters(call, FALSE)
  /\ \E e \in Range(Found(DecisionKey(RequestOf(call)))) :
       /\ e.kind = "result"
       /\ Commit(call, circuits, streaks, e.text, TRUE)
  /\ cache' = AfterGet(DecisionKey(RequestOf(call)))

(* No decision is cached: the compressor runs.  An exception leaves the    *)
(* output alone; so does a result without savings, which is cached unless  *)
(* it is transient.                                                        *)
Compress(call) ==
  LET r == RequestOf(call)
      found == AfterGet(DecisionKey(r))
      run == RunCompressor(circuits, streaks, r)
      text == [request |-> r, sections |-> run.sections, hash |-> BaseHash(r.content)]
  IN  /\ hooks[call].pc = "source"
      /\ Enters(call, FALSE)
      /\ Found(DecisionKey(r)) = <<>>
      /\ \/ /\ ~run.threw /\ run.sections # {}
            /\ Commit(call, run.circuits, run.streaks, text, run.cacheable)
            /\ cache' = found
         \/ /\ ~run.threw /\ run.sections = {}
            /\ circuits' = run.circuits /\ streaks' = run.streaks
            /\ cache' = IF run.cacheable THEN AfterPutSkip(found, r) ELSE found
            /\ Return(call)
            /\ UNCHANGED rows
         \/ /\ run.threw
            /\ circuits' = run.circuits /\ streaks' = run.streaks
            /\ cache' = found
            /\ Return(call)
            /\ UNCHANGED rows

(* store.put has answered: record the fingerprint and, for a compression   *)
(* result that is not transient, the decision.                             *)
Finish(call) ==
  LET hook == hooks[call]
  IN  /\ hook.pc = "stored"
      /\ repetition' = Recorded(hook.session, hook.content, hook.expiresAt)
      /\ cache' = IF hook.remember THEN AfterPutResult(hook.text) ELSE cache
      /\ Return(call)
      /\ UNCHANGED <<rows, intents, circuits, streaks, deletion, disposed, events, now>>
-----------------------------------------------------------------------------
(* session.deleted: store.deleteSession, then after its await the engine's *)
(* deleteSessionState.                                                     *)
DeleteRows(s) ==
  /\ deletion[s] = "alive"
  /\ rows' = OfOthers(Unexpired(rows), s)
  /\ deletion' = [deletion EXCEPT ![s] = "rows"]
  /\ UNCHANGED <<intents, repetition, cache, circuits, streaks, hooks, disposed, events, now>>

DeleteSessionState(s) ==
  /\ deletion[s] = "rows"
  /\ repetition' = Touched(s, <<>>)
  /\ intents' = OfOthers(intents, s)
  /\ deletion' = [deletion EXCEPT ![s] = "deleted"]
  /\ UNCHANGED <<rows, cache, circuits, streaks, hooks, disposed, events, now>>

(* dispose, after closeAndDrain: clearSessionState.  The hooks in flight   *)
(* are not among the calls it drains.                                      *)
Dispose ==
  /\ ~disposed
  /\ intents' = <<>>
  /\ repetition' = <<>>
  /\ cache' = [entries |-> <<>>, resultChars |-> 0]
  /\ circuits' = [k \in Kinds |-> NoFailures]
  /\ streaks' = [k \in Kinds |-> 0]
  /\ disposed' = TRUE
  /\ UNCHANGED <<rows, hooks, deletion, events, now>>

Tick ==
  /\ now < MaxTime
  /\ now' = now + 1
  /\ UNCHANGED <<rows, intents, repetition, cache, circuits, streaks, hooks, deletion, disposed, events>>

Next ==
  \/ \E call \in Calls :
       \/ \E s \in Sessions, c \in Contents : ToolExecuteAfter(call, s, c)
       \/ PassThrough(call)
       \/ CommitRepetition(call)
       \/ ReuseSkip(call)
       \/ CommitCachedResult(call)
       \/ Compress(call)
       \/ Finish(call)
  \/ \E s \in Sessions :
       \/ \E text \in Intents : ChatMessage(s, text)
       \/ DeleteRows(s)
       \/ DeleteSessionState(s)
  \/ Dispose
  \/ Tick

Spec == Init /\ [][Next]_vars
-----------------------------------------------------------------------------
Text == [request : Requests, sections : SUBSET Nat, hash : Hashes]
Row == [session : Sessions, content : Contents, hash : Hashes, text : Text, expiresAt : Nat]
Intent == [session : Sessions, text : Intents]
Fingerprint == [signature : Hashes, content : Contents, expiresAt : Nat]
Fingerprints == [session : Sessions, entries : Seq(Fingerprint) \ {<<>>}]
Decision == [key : Contents \X (Intents \cup {NoIntent}), kind : {"result", "skip"},
             text : Text \cup {None}, chars : Nat, expiresAt : Nat]
Circuit == [failures : Nat, openedAt : Nat \cup {None}, halfOpen : BOOLEAN]
Hook == [pc : {"idle"}]
          \cup [pc : {"source"}, session : Sessions, content : Contents]
          \cup [pc : {"stored"}, session : Sessions, content : Contents, text : Text,
                expiresAt : Nat, remember : BOOLEAN]

TypeOK ==
  /\ rows \in Seq(Row) /\ Len(rows) <= MaxRows
  /\ intents \in Seq(Intent) /\ Len(intents) <= MaxIntents
  /\ repetition \in Seq(Fingerprints) /\ Len(repetition) <= MaxSessions
  /\ \A x \in Range(repetition) : Len(x.entries) <= MaxEntriesPerSession
  /\ cache \in [entries : Seq(Decision), resultChars : Int]
  /\ circuits \in [Kinds -> Circuit]
  /\ streaks \in [Kinds -> Nat]
  /\ hooks \in [Calls -> Hook]
  /\ deletion \in [Sessions -> {"alive", "rows", "deleted"}]
  /\ disposed \in BOOLEAN /\ events \in 0 .. MaxEvents /\ now \in 0 .. MaxTime

(* The cache's budgets hold and retainedResultChars is what its entries    *)
(* retain, one entry a key, whatever order gets, overwrites, expiries,     *)
(* refusals and evictions come in.                                         *)
CacheAccounted ==
  /\ cache.resultChars = CharsOf(cache.entries)
  /\ cache.resultChars <= MaxResultChars
  /\ Len(cache.entries) <= MaxEntries
  /\ \A i, j \in DOMAIN cache.entries :
       cache.entries[i].key = cache.entries[j].key => i = j

(* A cached decision is the one a healthy run of the same content and      *)
(* query makes: no exception, open circuit, partly compressed mixed output *)
(* or interleaved call leaves its outcome there (README.md:159).           *)
CacheTransparent ==
  \A e \in Range(cache.entries) : \E r \in Requests :
    /\ e.key = DecisionKey(r)
    /\ \A i \in DOMAIN Sections[r] : Sections[r][i].outcome # "throws"
    /\ LET saved == {i \in DOMAIN Sections[r] : Sections[r][i].outcome = "saves"}
       IN  IF e.kind = "skip" THEN saved = {}
           ELSE e.text.request = r /\ e.text.sections = saved /\ saved # {}

(* Every text given to a session bears the hash of its own row, also when  *)
(* it was rendered for another hash, in another session or before the      *)
(* store reassigned the hash, and no other original of any session is      *)
(* under that hash: the marker leads back to what was replaced.            *)
RowsReversible ==
  \A i \in DOMAIN rows :
    /\ rows[i].text.hash = rows[i].hash
    /\ rows[i].text.request.content = rows[i].content
    /\ \A j \in DOMAIN rows :
         rows[j].hash = rows[i].hash => rows[j].content = rows[i].content

(* A circuit is open exactly after FailureThreshold exceptions in a row of *)
(* its own strategy, over all requests, sections and rerenderings, and no  *)
(* trial execution is left half-open when the engine suspends.             *)
CircuitOpensOnStreak ==
  FailureThreshold > 0 =>
    \A k \in Kinds :
      /\ circuits[k].openedAt # None <=> streaks[k] >= FailureThreshold
      /\ circuits[k].failures = streaks[k]
      /\ ~circuits[k].halfOpen

(* During the cooldown nothing runs the strategy, not even a rerendering   *)
(* or another section: its state changes by disposal alone.                *)
OpenCircuitShields ==
  [][\A k \in Kinds :
       CoolingDown(circuits[k]) /\ circuits'[k] # circuits[k] => disposed' # disposed]_vars

(* "When OpenCode emits session.deleted, the plugin deletes that session's *)
(* CCR entries, latest-user-intent state, repetition fingerprints ..."     *)
(* (README.md:358-361).  A hook that was in flight stores them afterwards. *)
DeletedLeavesNothing ==
  \A s \in Sessions : deletion[s] = "deleted" =>
    /\ \A row \in Range(rows) : row.session # s
    /\ \A x \in Range(repetition) \cup Range(intents) : x.session # s

(* The engine's maps and budgets stay exact.                               *)
EngineConsistent == TypeOK /\ CacheAccounted
=============================================================================
