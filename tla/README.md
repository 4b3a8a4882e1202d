# Verification of opencode-headroom

TLA+ models of opencode-headroom - its stateful core and the stateless parts whose errors would lose or distort
output -, the TLC runs that check them on small instances, and
TLAPS proofs of their main safety properties for every value of the constants.

Paths are relative to the root of the repository that holds `src/`; the plugin's own code is `src/src/`, its
design document `src/DESIGN.md`. `PROJECT.json` ties every definition to the lines it models, every property to a
run and to a defect of the code that would break it, and every hazard to the properties that watch it.

1. [The system](#1-the-system) 2. [Modules](#2-modules) 3. [Correspondence](#3-correspondence-with-the-code)
4. [Runs](#4-runs-and-bounds) 5. [Fairness](#5-fairness) 6. [Proofs](#6-proofs) 7. [Disagreements](#7-disagreements)
8. [Assumptions](#8-assumptions-about-the-environment) 9. [Not modelled, and the plan](#9-not-modelled-and-the-plan)

## 1. The system

opencode-headroom is a plugin of the OpenCode host. It shortens tool outputs, keeps the originals in a store (CCR:
compress, cache, retrieve) and puts in their place a text with a marker; the model reads the original back with the
`headroom_retrieve` tool and the marker's 96-bit hash. The host calls the plugin's hooks in one JavaScript process;
hooks of different sessions, and of one session, overlap at every `await`.

Before each model request the host reloads the raw history and calls the transform hook. The hook must show the model
what earlier requests showed it (the provider caches prompts by prefix), may change only tool parts the model has not
seen, and must never leave a marker that no longer leads to its original.

| Component | State it keeps | Operations | Hard because |
|---|---|---|---|
| Transform queues (`session/context-lifecycle.ts`: `run`, `acquireTransformLocks`, `runSessionExclusive`, `closeAndDrain`) | `transformTails` (a promise per session), `cleanupTail`, `exclusiveSessions`, `closing` | join the queues of all sessions of a request, or wait for capacity; delete a session alone; drain at dispose | promise chains over several sessions, waits inside waits, capacity counted in two places |
| Windows and records (same file: `begin`, `commit`, `abort`, ...) | `sessions` (LRU map of `SessionState`: records of sent parts, counters), open windows | begin, ask for a part, invalidate a replay, commit, abort, deleteSession, clear | session objects outlive their map entry; counters adjusted in five places; host edits; eviction |
| CCR store (`store/types.ts`, `store/ccr.ts`) | the interface and `allocateHash` | put, get, peek, deleteSession, pruneExpired, stats | base hashes may collide; markers must stay exact |
| Memory store (`store/memory.ts`) | `entries`, `insertionOrder`, `hashHistory` | the same | three structures pruned in separate loops; expiry, capacity, clock steps |
| SQLite store (`store/sqlite-bun.ts`) | tables `ccr_entries`, `ccr_hash_history` | the same, plus a start-up that migrates, prunes, evicts and rebuilds | crashes inside the start-up, several processes on one file |
| Read lifecycle (`session/read-lifecycle.ts`) | `replacements` per session and callID | replaces stale and superseded reads, preflights replayed markers | an `await` per store call while rows disappear; range arithmetic |
| Plugin hooks (`plugin.ts`) | pending MCP calls, the objects above | transform, `tool.execute.after`, event, dispose | the hooks race with each other |
| Engine (`engine/native.ts`, `engine/resilience.ts`, `session/repetition.ts`, the breaker in `engine/router.ts`) | repetition histories, decision cache, circuits | compress one output | state read before an `await` and used after it |
| Span folding (`session/span-dedup.ts`, `message-dedup.ts`) | none (per request) | fold repeated spans into pointers | the block pointed at may be rolled back, and is folded again in every later request |
| Router, gate, compressors, selection (`engine/router.ts`, `engine/pipeline.ts`, `compressors/*`, ...) | none | text to shorter text | heuristics |
| Retrieval (`engine/retrieve.ts`, `tools/*`) | none | line ranges, queries and clipping of an original | boundary arithmetic |
| Policy, configuration (`policy.ts`, `config.ts`, ...) | options | option parsing, rule precedence | precedence of wildcards |
| Intent, telemetry (`session/intent.ts`, `telemetry.ts`) | bounded per-session maps, counters | record, report | bounds |
| Output file source (`source/output-file.ts`) | a file descriptor | read a truncated output's full text | the file system may change between calls |

Interactions. The transform hook calls `run()`; inside the window it calls, in turn, the read lifecycle (store), the
compression of pending MCP calls (engine, store) and span folding, each asking the window `canMutateToolPart` before
it writes, and `commit` or `abort` closes the window. A `session.deleted` event goes through `runSessionExclusive` and
then clears the window manager, the engine, the read lifecycle and the store. `dispose` calls `closeAndDrain`, then
clears and closes everything. `tool.execute.after` compresses an output outside all windows.

What makes each part correct:

* queues: requests of a session are serialised, a deletion runs alone, nobody waits in a circle, the number of queues
  is bounded, dispose is the last thing that happens;
* windows: what was sent stays, counters are exact, overlap is harmless, sessions in use are not evicted;
* stores: a hash that is in use names one original, a live marker leads its session to exactly its original, and live
  rows are lost only to capacity (oldest first, no more than needed) and to their session's deletion; a crash or a
  second process changes none of it;
* engine: a cached decision is the one a healthy run makes, its budgets are exact, every stored text bears the hash of
  its own row, a circuit opens on a streak of failures and then shields;
* read lifecycle: markers resolve when they leave, and hide only what is out of date or still visible;
* hooks: a pending MCP call is compressed once, and left alone once its request has succeeded; telemetry adds up;
* span folding: every pointer can be replaced by lines shown earlier, and a replayed history folds to what was sent;
* retrieval, selection, diffs, policies: what was asked for or must be kept is there, whole, once, and within the
  limits; what is left out is counted; the first rule that matches decides;
* output files: a file is read only if its path still led to it, inside a trusted root, after it was opened.

## 2. Modules

| Module | Models | Composes, implements |
|---|---|---|
| `TransformLocks` | the transform queues | |
| `ContextLifecycle` | windows and records | |
| `ContextTransforms` | the manager as the plugin drives it | composes the two above; implements `TransformLocks` |
| `CCRStore` | the store contract (abstract) | |
| `MemoryCCRStore` | the memory store | implements `CCRStore` |
| `BunSQLiteCCRStore` | the SQLite store, any number of processes | its steps are steps of `CCRStore` |
| `NativeEngine` | the `tool.execute.after` hook, the engine, latest intents, repetition fingerprints, decision cache, circuit breaker, over the rows of the memory store | |
| `ReadLifecycle` | `apply` of the read lifecycle with the window and the store reduced to what it uses | |
| `Telemetry` | the telemetry aggregator and the mode a retrieval is counted under, as operators | used by `Plugin` |
| `Plugin` | pending MCP calls, the order of passes of the transform hook, hooks in flight, retrievals, deletion, dispose | the windows of `ContextLifecycle` reduced to which parts may be changed |
| `SpanDedup` | span folding over the messages of a request | |
| `RetrievalView` | every retrieval mode, line ranges and clipping | |
| `Selection` | log, search and JSON selection and the adaptive size | |
| `DiffSelection` | parsing, selection and trimming of a diff | |
| `ToolPolicy` | normalisation and resolution of tool rules | |
| `OutputFile` | one read of an output file, one system call per action | |
| `StatelessCalls` | one call of one of the last six | composes them |
| `Subsequences` | what a scan of an array, `Map` or `Set` keeps, as one operator | used by `NativeEngine` |
| `TransformLocksProofs`, `ContextLifecycleProofs`, `ContextTransformsProofs`, `MemoryCCRStoreProofs`, `BunSQLiteCCRStoreProofs`, `ReadLifecycleProofs`, `NativeEngineProofs`, `PluginProofs` | theorems | extend their modules; `PluginProofs` also `OutputFile` and `ToolPolicy`, which the hook calls |
| `MC*` | small instances | extend the module they instantiate |

Order of work: the queues first (everything else relies on them), the windows, their composition, the two stores
against one contract, the read lifecycle, the engine, the hooks around it, then the stateless parts. No module that is
proved about uses a recursive operator: where the code loops, those modules have a recursive function (`Observed`,
`Committed`, `Total`, `FutureByPath`, the sums and the compressor run of the engine), whose equations the proofs
derive by induction.

## 3. Correspondence with the code

JavaScript runs the code between two `await`s without interruption, so **an action is such a stretch**, with every
state change in it.

**TransformLocks.** A promise is represented by the call that settles it: `transformTails[s]` is the transform whose
release the tail of session `s` waits for, `behind[t]` the unsettled tails that the tickets of `t` wait for, `racing[t]`
the tails a capacity wait races. `Arrive` is `run` up to its first `await` (one turn of the loop of
`acquireTransformLocks`, shared with `Retry` as `Evaluate`), `RejectTransform` the throw for refused sessions,
`EnterWindow` and `LeaveWindow` the two ends of the window with the release of the tickets. `RequestCleanup`,
`EnterExclusive`, `StartDeletion`, `DeleteSession`, `LeaveExclusive` are the stretches of `runSessionExclusive` with the
plugin's handler inside; `CloseAndDrain` and `Dispose` those of the dispose hook. Which of several untracked sessions is
admitted depends on the order of their names in the code; `Admitted` leaves it open. What `begin` may do to the set of
tracked sessions is left as loose as the module needs, and `ContextTransforms` shows that the real `begin` fits.

**ContextLifecycle.** An output is a host version and a form (raw, or one of the changed forms); comparing digests is
comparing those. `state[g]` are the `SessionState` objects, `generation[s]` the one the map holds now, so that a
window can keep one that is no longer in the map; an object nobody refers to is collected in the same step (its number
may be used again). The order of the `Map` is the relation `mapOrder`, `<<s, i>>` when `s` comes before `i`. `Begin`
is `Observed`, a recursive function over the request's session ids in their order, as `begin` goes through them: look
up or create (with eviction of the first idle session; the object of a window is never idle, which is proved), count
the window, raise `conflictVersion` on overlap, replay, record. Parts are numbered in message order. `Check` and
`Write` are `canMutateToolPart` and the later assignment of a pass, two actions because the passes await the store in
between. `Commit` (`Committed`) retains part by part in message order under the character limit. `firstSent` and
`lastSent` are history variables: what the model has been shown of the current host version.

**ContextTransforms.** The conjunction of the two: an action of the queues together with the window operation the code
performs in the same stretch. A request that `run` refuses is sent as loaded (`FailOpen`), because the hook swallows the
error (`plugin.ts`, around line 499). The event handler's deletion and dispose's clear are the window module's.

**MemoryCCRStore.** `entries`, `hashHistory` and `insertionOrder` are the three structures; a digest is the content it
is made from, `CandidateHash[c][n]` is the base hash for `n = 0` and `collisionHash(c, n)` after it, with arbitrary
collisions between contents. `Put` is prune, allocate, evict, insert; each structure is pruned by the operator that
stands for its loop, so that a loop that forgets something shows up as a disagreement.

**BunSQLiteCCRStore.** The public operations run in one `BEGIN IMMEDIATE` transaction each and are one action. The
constructor is not a transaction: `Open` (with the schema and column migration), `RewriteHistory` (legacy table),
`StartupPrune`, `StartupCount`, `StartupEvict`, `ClearHistory`, `ReadRows`, one `RecordRow` per row, `FinishStartup`.
`Down` is a crash or a close at any point; the tables stay.

**ReadLifecycle.** `Begin` loads the request and opens the window, `Validate` preflights one replayed marker (`peek`),
`PeekFails` is a store that throws there, `StartReplacing` classifies; then per due read `Skip`, `UseCached` (after a
`peek`) or `Put`, with `StoreFails` for a throw; `Commit` and `Abort` end it. `Grow` appends an operation to the
session, `RowLost` removes the oldest row (expiry, eviction by other sessions), `Evict` lets the window manager forget
the session. `FutureByPath` is the backward loop of `classifyReads`: what it has collected per path after `n`
operations. `replacements` is a `Map`: at most one entry a key. `Peek` is the set of at most one row. Wording of the
markers and path display are data.

**NativeEngine.** A call of `tool.execute.after` is suspended at two awaits: `resolveCompressionSource` and
`store.put` (`hooks[call].pc`). `ToolExecuteAfter` is the stretch before the first, `PassThrough` every early return
after it. Between the two lie `CommitRepetition`, `ReuseSkip`, `CommitCachedResult` and `Compress`, the branches of
`compressInternal`: `store.put` runs its body, and with it `contentForHash` and the compressor, before it returns its
promise, so rendering and insertion belong to the same step. `Finish` is the continuation of `put`, which records the
fingerprint and the decision. `RunCompressor` takes the sections of an output one after the other over the circuits,
as the router does for explicit sections (a plain output has one); what a strategy makes of a section is given by the
constant `Sections`. A compressed text is the request (an output and the intent it was compressed under, read after
the first await), the set of compressed sections and the hash in its marker, so a partly compressed text differs from
a healthy one. `cache` holds the LRU order and `retainedResultChars` side by side, as the class does. The store is its
rows in insertion order; `MemoryCCRStore` shows that its three structures amount to that. `streaks` is a history
variable. The rest of the decision key (strength, profile, known token count) is constant in a process and is left
out.

**Plugin.** `pending` is `pendingMcpToolCalls`: its sessions and their calls, and two order relations for the
iteration order of the `Map` and its `Set`s, by which the oldest is displaced. A raw result is `MarkPending`; the
transform is `OpenWindow` (from here its window is held), the return or throw of the read lifecycle, one
`FallbackReturns` per awaited nested `tool.execute.after`, and `Settle`, the loop after `run()`. Between the awaits
`Continue` runs through the parts as the loop does, consulting `pending` as it then is. `known` and `seen` are what
the lifecycle manager has recorded. `Decided` is `complete`, the one place where a hook records its decision,
whichever branch ends it. `Retrieve` is `headroom_retrieve` when its lookup has ended, or has been spared because the
hash is refused; `RetrieveThrows` is a lookup that throws, which nothing catches between `store.get`
(`engine/native.ts:477`) and the host, so that the record is never reached. `DeleteSession` and `Dispose` wait for transforms, not for hooks, so a hook may record into
a session that is gone.

**Stateless parts.** `StatelessCalls` has one behaviour per input: the call, and its return, where the property of that
part is stated; only the file read takes several steps. In `SpanDedup` a line is its number and key, and the corpus and
anchors are built and searched in the order of the code. In `RetrievalView` a text is a sequence of cells, so that
clipping, which counts characters, may cut anywhere; the properties compare it with the set of lines asked for
(`Wanted`), which does not mention rendering. In `Selection` and `DiffSelection` lines, matches and rows carry what the
classifiers say of them. `ToolPolicy` writes resolution as the list of cases of `resolveToolPolicy`; the property states
the precedence independently. In `OutputFile` a name is a file, a link, a path below a directory that has been replaced
by a link, or absent; `Replace` and `Write` are other processes. `CallFails` is the failure of any system
call, which refuses.

## 4. Runs and bounds

Times are for two workers on a small machine.

| Run | States | What it asks |
|---|---|---|
| `Locks` | 70 381 | two requests, two deletions, a dispose, two sessions, **one** slot: requests of a session never overlap, a deletion is alone with its session, nothing that holds a place is left after dispose, bounded queues, no spinning loop, and under fairness everything queued, every deletion and dispose finish (`EverybodyFinishes`) |
| `Lifecycle` | 96 686 (symmetry) | two windows opened directly, so that they overlap; two sessions and one slot, one recorded part, two characters, a host edit of each part: exact counters (`RecordsConsistent`), overlap rolls back, sessions in use stay |
| `Transforms` | 70 280 (symmetry) | the same operations driven by `run`: sent forms stay, the record is what was last sent, the queues are implemented |
| `MemoryStore` | 160 286 | three originals that collide on their base hash and two again on the next candidate, two sessions, two rows, four puts: indexes agree, hashes are exact and the capacity holds (`StoreConsistent`), allocation ends, markers lead to their originals, the contract holds |
| `SqliteRestart` | 247 245 | one process, a new file or a version 1 file that is over the limit and has an orphaned history row, crashes anywhere: `FileConsistent` after every start-up, markers, contract |
| `SqliteShared` | 118 704 (symmetry) | two processes on one file, any interleaving of start-ups and operations, without collisions: the contract |
| `ReadLifecycle` | 936 342 | five operations of one path out of a write, full and ranged reads, equal callIDs, an invalid range, colliding contents; a cache of one entry, a scan limit of four: markers that are sent resolve (`MarkersConsistent`) and hide only what is obsolete |
| `Engine` | 911 058 (symmetry) | four tool outputs or user messages, two hooks, two sessions: a plain, a mixed (with and without an intent) and a failing output that collide on their hashes; two rows, a cache of two entries and two characters, one circuit failure to open: accounts balance (`EngineConsistent`), cached decisions are healthy, markers name their rows, circuits open on streaks and shield |
| `Plugin` | 973 787 (symmetry) | three MCP calls of two sessions (one is aborted, one may not be changed), two transforms, a hook with text, retrievals that answer or throw, deletions, evictions and a dispose: compressed at most once, never missed, settled means nothing left, telemetry adds up |
| `Stateless` | 242 238 | every small input of the six stateless parts, one property each for pointers, replay, retrieval, selection, diffs, policies and file reads |
| `SqliteStartupRace` | violation | two processes on one file, with a collision |
| `EngineDeletion` | violation | one hook in flight while its session is deleted |

A property named `...Consistent` is the conjunction of the type invariant and the structural invariants of its module,
which are stated one by one beside it.

Why these bounds are enough to be interesting, and what they leave out:

* Queues: joint and single requests over two sessions with one slot make every wait of the code happen (a tail, a
  capacity, a deletion behind a deletion). Slots are reused, so the number of calls over time is unbounded. The
  theorems below remove every bound for safety.
* Windows: one slot with two sessions forces eviction in every order. A limit of one part with two parts, and of two
  characters with forms of two and three, make both limits bind; with one recorded part the characters are used up by
  one form and never by several together, which is left to the theorem `RecordsKept`. `MaxConflicts` stops `conflictVersion` after one
  overlap per object, `MaxVersion` allows one edit per part.
* Stores: two rows and four puts pass the capacity limit twice; the clock has two or three values and may step back,
  so every order of creation, expiry and lookup occurs. Colliding candidates make the second attempt necessary and,
  with a row evicted, make a freed hash be used again.
* Engine: four events are the least for "collide, cache, open the circuit, reuse the cached text under another hash";
  a row and a decision expire within the run, both fingerprint bounds are one, the short output is never answered with
  a repetition pointer, and the failing output is similar to the mixed one, so it may be answered without running at
  all.
* Plugin: one pending session and one call per session make every displacement happen with three calls, two of one
  session and one of another; two events (`MaxEvents`) out of hooks, retrievals, failed lookups, deletions and
  evictions are enough for each to meet each. With limits of one there is no choice of what to displace: that the order
  of the map and its sets stays an order, and the limits hold, is proved for any limits (`TypeCorrect`), but that the
  oldest is the one to go is part of the definition of `mark`, not a property - a call once displaced counts as
  `dropped`, whichever it was. Two transforms may run at once, over
  different sessions, or one after the other.
* Stateless parts: up to three outputs of three lines with folds from two lines on; originals of one, four and eleven
  lines against every mode (a summary has both its halves from eleven on); logs of five lines with room for three,
  search results of four matches with room for two, arrays of up to eight rows with room for four; diffs of four files
  or hunks with room for one and three; up to two rules; two changes of names during a file read, so that a path is
  swapped and swapped back. The limits are constants of the modules, so that they bind on inputs this small; at the
  values of the code the same branches need hundreds of lines.
* Reads: four operations are within the scan limit and the fifth overflows it; two live rows at a time.

`CHECK_DEADLOCK FALSE` is set where the system does stop: after dispose nothing is left to do, and a bounded session of
`ReadLifecycle`, a transform of `Plugin` and a stateless call end. Symmetry is used only in runs without liveness, over
calls, windows, transforms, processes and, in `Engine`, sessions, which no definition distinguishes.

Every property of a passing run has, in `PROJECT.json`, a mutant: a variant of a definition with a plausible defect
(a waiter released only by the owner of the tail, a prune that keeps the history, a range test that compares only the
start) under which the same run finds the property violated. The variants stand beside the definitions they vary and
are used nowhere.

## 5. Fairness

`FairSpec` of `TransformLocks` assumes weak fairness of each call's own steps (`TransformStep`, `CleanupStep`) and of
`Dispose`: the event loop resumes an `async` function whose promise has settled, and the bodies between the steps
(request passes, store calls) settle. Nothing is assumed of `Arrive`, `RequestCleanup` and `CloseAndDrain`, the host's
calls. A call that waits for capacity is promised nothing before `closing`: new requests may take every freed
slot before it. A hang inside a transform body would block its queue; that is outside the
assumption, as in the code, which has no timeout there.

## 6. Proofs

Every theorem is for arbitrary constants - any number of sessions, calls, windows, processes, rows, parts and
operations, any limits, any pattern of hash collisions and any outcomes of the strategies - under the named assumption
of its module: `LocksAssumption`, `LifecycleAssumption`, `TransformsAssumption` (both of these), `StoreAssumption`,
`SQLiteAssumption`, `ReadLifecycleAssumption`, `EngineAssumption`, `PluginAssumption`, `OutputFileAssumption` (sets finite where the code
counts them, limits
positive, inputs well-formed, identifiers distinct). Three say more. `DistinctAttempts` and `EnoughAttempts`, and the
same in `ReadLifecycleAssumption`: one content's candidates `collisionHash(c, n)` are pairwise different, and there are
more of them than rows when a put looks for one: `allocateHash` goes on counting attempts until a candidate is free. The
configurations of the runs satisfy all of them, which TLC checks at its start. `TelemetryBalances` also needs
`TelemetryAssumption`: what is counted is finite, the decisions, modes and tokens are well-formed, and a decision has
the reason `compressed` only if it compressed. The code gives that reason in one place, to a record whose decision is
`compressed` (`plugin.ts:567`), and no record carries it as the reason it brings along.

Each module has one inductive invariant, a lemma per action that it is kept, and the properties of the runs as
consequences. What a run checks and what is proved is the same definition.

| Module | Theorems |
|---|---|
| `TransformLocksProofs` | `TypeCorrect`, `SameSessionSerialized`, `DeletionsAlone`, `QueueCapacity`, `NoSpinning`, `QuietAfterDispose` |
| `ContextLifecycleProofs` | `RecordsKept` (`RecordsConsistent`), `InUseStays` (`InUseNeverEvicted`), `OverlapsEndRaw` (`OverlapRollsBack`) |
| `ContextTransformsProofs` | `Inductive`, `QueuesImplemented` (`ImplementsLocks`), `HistoryInductive`, `RepresentationKept` (`RepresentationStable`), `RecordsFollowTheModel` (`RecordIsLastSent`) |
| `MemoryCCRStoreProofs` | `TypeCorrect`, `LookupMatchesOrder`, `HistoryMatchesRows`, `CollisionSafety`, `Capacity`, their conjunction `ConsistencyKept`, `AllocationAlwaysTerminates`, `Reversibility`, `Refinement` (`RefinesContract`) |
| `BunSQLiteCCRStoreProofs` | `TypeCorrect`, `FileStaysConsistent`, `Reversibility`, `ContractKept` (one process), `SharedContractKept` (any number) |
| `ReadLifecycleProofs` | `MarkersResolve` (`MarkersConsistent`), `OnlyObsoleteHidden` (`HiddenIsObsolete`) |
| `NativeEngineProofs` | `TypeCorrect`, `ConsistencyKept`, `DecisionsTransparent`, `TextsReversible`, `StreakOpensCircuit`, `CooldownRespected` |
| `PluginProofs` | `TypeCorrect`, `CompressedOnce`, `NothingMissed`, `Settled`, `TelemetryBalances` (`TelemetryBalanced`), `FilesAreTrusted` (`FileReadTrusted`), `PoliciesKeepPrecedence` (`PolicyPrecedenceFor`) |

**TransformLocks.** `SerializedWindows` is not inductive: a call waits only for the tail it found, and a tail that
has been replaced is forgotten. What nobody in the code represents is the order in which the calls made their
reservations. The invariant `IInv` says that it exists: some strict total order `R` of the active calls such that a call
behind another in a queue waits for it or for one between them (`WaitsBehind`) and every tail is the last of its queue
(`TailIsLast`). `CleanupsOrdered` says the same of the deletions. `ExclusiveFollowsTail` says that a session closed for
deletion keeps the tail its deletion captured, and `DrainCovers` that after `closing` the drain covers every tail left.
Each action either adds its caller as the maximum of the order, or removes a minimum, or leaves it alone.

**ContextLifecycle.** The counters are adjusted by differences, so that they are exact afterwards only if they were
about the same parts before. `IInv` therefore says of every object that somebody may still read: its counters are the
counts of its records (`TrackedAccounted`, `OpenWindowsAccounted`); it has one owner, and an object nobody refers to
is fresh (`OneOwner`, `UnreferencedFresh`); and of every open window: a part it may still change is recorded raw in
its object and may be changed by no other window of that object (`LiveRecordedRaw`), and an overlap shows in the
conflict version it took (`OverlapIsStale`). `begin` is followed session by session (`Observing`), `commit` part by
part (`Settled`), and the sums of characters by what one changed record adds (the lemmas about `Total`).

**ContextTransforms.** The proof module instantiates the two above and reuses their lemmas, so that `CInv` only adds
what ties the parts: a call holds exactly the sessions of its request (`HoldsRequest`), has a window open exactly while
it runs, and the object it joined is the one its session has now (`WindowFollows`). The last needs both parts at once.
`begin` evicts no session with a window, and creates none but its own, which nobody else holds because two calls at
the front of their queues share no session (`FirstOnesDisjoint`); a deletion has its session to itself; dispose clears
when nothing is held. From it follows that the real `begin` does to the map what `BeginTracks` allows.

What the model has been shown stays (`RepresentationStable`) because of three ties, `HInv`: the record of a part says
which form its stored version was first sent in, or that it was sent raw (`RecordFollows`); a running call shows what
the record says of every part it may not change, and what it may change the model has not seen (`ShowsPart`); and a
call refused for lack of capacity, which will show its parts raw, has nobody recording them in another form
(`RefusedShows`). They are needed together: an eviction drops only records nobody must replay, a deletion or
`closing` excludes further records of the session (`LeftAlone`), and a full object shows raw what it does not record.
Requests in flight carry the same history of a session (`SharedHistory`). The theorems suppose `OneSession`, a request
of at most one session, as in the run `Transforms`. It is needed: a request of two sessions, one of them tracked and
one without a slot, goes out raw before the new parts of the first are recorded, and a later request may then
change them; the model checker finds this when such a request is added (section 7).

**MemoryCCRStore.** `IInv` says that the three structures describe one set of rows with pairwise different ids
below `nextId`, at most `MaxEntries` of them, with one content per hash. Every operation is a removal of a set of rows
(`RemovalAgrees`), in `Put` followed by an insertion under a usable hash (`InsertionAgrees`). That a usable hash exists
is a pigeonhole argument over the candidates. `Refinement` maps `insertionOrder` to the rows of `CCRStore` and shows, by
operation, that every step is one of the contract or leaves its variables alone; its hard part is that the rows `put`
evicts are exactly the excess of the oldest live ones (`Contract!Evictable`).

**BunSQLiteCCRStore.** The constructor is not one transaction, so the history table is wrong for most of it.
`AloneInv` says how wrong it may be when one process has the file: after `DELETE` it is empty, and from then on it and
the rows still to be recorded make up the keys of the table (`pc = "backfill"`). A crash anywhere leaves a table the
next start rebuilds from nothing. The hypothesis `OneProcess` is needed: `SqliteStartupRace` is the counterexample
without it. For any number of processes `SharedContractKept` supposes `NoCollisions` (the race above does harm only
through a collision) and `NoFileOverLimit` (no file to start from holds more rows than the limit): two starts that
have both counted an excess both evict it, and more goes than needed. The instance of `SqliteShared` satisfies both,
that of `SqliteRestart` the first hypothesis and neither of the others.

**ReadLifecycle.** `IInv` says what holds while the request is being prepared: the replayed markers before `at` are
confirmed during the preflight, and from then on all are (`MarkersConfirmed`); the part that a suspended `apply` is
about to replace is still due (`Whereabouts`); the replacement cache is a map within its limit. A put cannot move a
marker to another original because it takes a hash that only rows of its content have (`AllocatedUsable`, a pigeonhole
argument), and a lost row takes only markers of its own hash with it. For `HiddenIsObsolete`, `FutureIs` derives what
the backward loop of `classifyReads` has collected after every step, and `CoveringShows` that the range test implies
that every line is shown. The read that covers a hidden one may be hidden itself a moment later, or have been hidden
in an earlier request; the last read that covers both and is not replaced takes its place (`MarkingKeepsObsolete`),
because covering is transitive and a read is only replaced when something later covers it.

**NativeEngine.** Four arguments are needed at once. A circuit carries the failure streak of its strategy, and a run of
the compressor keeps that section by section and leaves a circuit that is cooling down alone. Only healthy runs are
cached or carried across the await of `store.put`. Scans, cuts, appends and concatenations of the cache and the
repetition store change their sums by what they drop or add. A stored text bears the hash that was allocated to its row,
which no other original holds. `CacheTransparent` follows from the first two, `RowsReversible` from the last.

**Plugin.** A call that a transform has seen stays seen as long as its session is known, so no later transform may
change it (`SeenOnce`); what a running transform may still compress is pending or was dropped on purpose, because no
other has processed it (`Disjoint`) and a completed call is not marked again. The limits of the pending calls are
arbitrary, the sets of sessions and calls may be infinite.

`TelemetryBalanced` says that the global bucket is the sum of the buckets of the sessions and of what deletions took
away, and that its counts are those of the runs that have finished and of the retrievals that were answered; one whose
lookup threw leaves no trace. `TelemetryInv` makes that inductive: every bucket
has counts for every outcome, reason and mode, the sum holds (`SumsUp`), and so does the tally (`Tallied`). Buckets are
added with `Plus`, whose order does not matter (`PlusAssociates`, `PlusCommutes`), so that recording into the global
bucket and one session's keeps the sum (`RecordedSumsUp`), and forgetting a session only moves its share
(`ForgottenSumsUp`). The sums are folds of the library; `FoldSteps` says what a fold becomes with one element more, by
induction on the subsets of a finite set. One run ends as it is counted, so the counts of `attempts` and of hooks in
flight change together with those of the bucket (`CompressedCounts`, `ContinueCounts`).

**OutputFile.** `FileInv` follows a reader through its system calls. The path that was resolved was a file within the
roots then; should the file that was opened never have been there, somebody has replaced the path since, by something
that leads outside (`CanonicalKnown`). The second `realpath` then refuses, unless the path was put back, and after these
two changes what `stat` finds at the path is what was there (`OpenedKnown`). The theorem supposes at most two changes of
names, as in the run: the swap and the swap back that the comment at `output-file.ts:198` speaks of. It is needed: with
more changes the model checker finds the property violated, and the comment does not claim more. Writes are not limited.

**ToolPolicy.** A policy is resolved by the first rule that matches, and which one that is follows from the user's list
alone (`Expected`, `ResolvedAsExpected`); the promises of the migration guide compare two such decisions. The rule
that replaces `skipTools` must have an id that no user rule has, else the policy is refused.

How the proofs deal with loops: a recursive function satisfies its equation if some function does, so each proof first
exhibits one - the sets or sums it computes, in closed form (`FutureIs`, the lemmas about `Total`) or a run built up
step by step - by induction. The induction theorems of the library take an operator as a parameter, which the provers
cannot instantiate; `Induction` states the principle for a set of naturals instead, from the well-foundedness of `<`.

Only model-checked:

* liveness (`EverybodyFinishes`) - out of the prover's reach;
* the history properties of the composition for requests of several sessions, where they do not hold (section 7);
* the other stateless parts: their properties are about what folds and recursive definitions compute for inputs of any
  length.

## 7. Disagreements

Two runs end in a counterexample; each states a sentence of the documentation.

* `EngineDeletion`: "When OpenCode emits `session.deleted`, the plugin deletes that session's CCR entries, ...
  repetition fingerprints" (`README.md`) - the deletion is serialized with transforms, not with `tool.execute.after`;
  a hook in flight stores its row and fingerprint after it. They go with their TTL. The same holds for `dispose`, and
  a request whose messages identify no session is not waited for by `closeAndDrain` either. Such a hook, or a
  retrieval in flight, also creates the session's telemetry again, which nothing removes until the process ends; the
  totals stay right (`TelemetryBalanced`).
* `SqliteStartupRace`: "every emitted marker identifies the exact original" - the start-up of a second process clears
  and rebuilds the collision history outside a transaction. It needs a collision of 96-bit hashes at that moment.

Smaller observations, stated here without a run:

* A request whose messages belong to a tracked and to an untracked session is refused when the second has no slot; it
  leaves raw before the parts of the first are recorded (`context-lifecycle.ts:217`), and the next request may change
  what the model has seen. The class accepts such requests; the host does not send them today.
* `replayHasBacking` looks at the newest row of a hash only (`read-lifecycle.ts:432`): when two paths hold the same
  content, the marker of the older row is taken back although the row is live. Nothing is lost, but the prefix changes.
* A range beyond the end of an original is answered with its last line under a header that names the range asked for.
* The retrieval tool takes the counted mode from the first `mode:` line of the answer; the original of an entry that is
  kept with mode `full` may hold such a line itself. Only the telemetry is affected.
* Two starts of the SQLite store on one file that is over its limit may both count the excess and evict it twice: more
  rows go than needed. `SharedContractKept` therefore supposes that no file is over the limit.
* The guide says that the reader of output files rejects path swaps (`README.md:327-330`). What holds of the code is
  `FileReadTrusted` for up to two changes of names during a read; from three on it does not hold, because the checks are
  separate system calls. The comment in the code speaks of the common race only.
* A retrieval whose store lookup throws is missing from the telemetry: the tool records after the `await`, which is
  outside its `try` (`tools/retrieve.ts:97-123`).
* A search result keeps the last of several important matches of one line, not the first.
* A pointer of a folded span names the message, not the part; several parts of one message share that name, and only
  the anchor and length tell them apart.

## 8. Assumptions about the environment

* The host reloads raw outputs for every request, its history of a session grows, and requests of one session that are
  in flight together carry the same parts (`HistoryGrows`, `SameHistory`). A host edit is a new version of a part.
* SHA-256 digests are injective; 96-bit truncations are not.
* `Date.now()` may step backwards; a store call either happens completely or throws without effect (SQLite: `BEGIN
  IMMEDIATE`; a busy timeout is a throw). A throw of `get` rejects the retrieval, which is then not counted.
* A read without offset and limit shows the whole file. `readRange` in the code assumes it; a host that truncates such
  a read makes a superseded range readable only through its marker.
* In `Plugin`, `tool.execute.after` does not throw (its body is a `try` whose `catch` only records the error), session
  ids are not empty, and a refused transform changes nothing.
* The sizer's float arithmetic (`Math.trunc(k * 1.2)`, the bias) is done in exact tenths. Its measures (zlib, bigrams,
  similarity hashes), numeric outliers, information scores and pretty-printed JSON are inputs.
* The SQL engine, the file system and the host are external.

## 9. Not modelled, and the plan

Not modelled on purpose:

* the compressors for code, markup, tables and prose and the information selector: heuristics on text without state;
  their result is gated and the original stored, so their errors cost quality and not exactness. Of the log, search and
  JSON compressors the recognition of levels, traces and signals and the rendering are left out, and the arrays nested
  in a JSON object;
* content detection of the router and the textual checks of the candidate gate: their outcomes are arbitrary in
  `NativeEngine`;
* option parsing, the recognition of read commands and of recent code (`config.ts`, `read-protection.ts`,
  `engine/context-protection.ts`);
* token estimation, marker wording, the statistics tool, debug trace, packaging and benchmarks;
* lossless folding (`engine/lossless.ts`), whose exactness is a statement about characters.

Planned: the engine over the SQLite store, whose `put` may fail, and the choice between the lossless and the lossy
candidate.
