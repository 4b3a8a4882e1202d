-------------------------- MODULE ContextLifecycle --------------------------
(***************************************************************************)
(* The windows of ContextLifecycleManager (src/src/session/                *)
(* context-lifecycle.ts): begin, canMutateToolPart,                        *)
(* invalidateReplayForToolPart, commit, abort, deleteSession and clear.    *)
(* Each of them is synchronous, hence one action; windows are opened       *)
(* directly here, so that they overlap in every way the class allows       *)
(* (run() adds the queues of TransformLocks).                              *)
(*                                                                         *)
(* The host reloads the stored raw output of every tool part for each      *)
(* request (README.md), and may edit it between requests.  An output is    *)
(* <<version, form>>: the host's version of the part, raw or in one of the *)
(* changed forms the request passes can give it.  Digests compare outputs, *)
(* so a SentPartRecord is the version and the form last sent; sentOutput   *)
(* is undefined exactly when the form is Raw.                              *)
(*                                                                         *)
(* A SessionState object outlives its entry in the map while a window      *)
(* refers to it: `generation' names the current object of a session, and   *)
(* unreferenced objects are collected at once.                             *)
(***************************************************************************)
EXTENDS Integers, FiniteSets, Sequences, FiniteSetsExt, Functions

CONSTANTS SessionIDs,    \* session identifiers
          Parts,         \* identified completed tool parts, numbered in message order
          SessionOf,     \* [Parts -> SessionIDs]
          Windows,       \* mutation windows that may be open together
          Raw,           \* the form of an unchanged output
          Forms,         \* changed forms (markers, pointers, compressed text)
          Chars,         \* [Forms -> Nat]: length of a changed form
          Requests,      \* what a request may contain: [ids, parts, pinned]
          MaxSessions, MaxParts, MaxChars,  \* the three options
          MaxVersion,    \* bound: host edits of one part
          MaxConflicts   \* bound: conflictVersion

ASSUME LifecycleAssumption ==
  /\ IsFiniteSet(SessionIDs) /\ IsFiniteSet(Windows)
  /\ IsFiniteSet(Parts) /\ Parts = 1 .. Cardinality(Parts)
  /\ SessionOf \in [Parts -> SessionIDs]
  /\ Raw \notin Forms /\ {"unknown", "not sent"} \cap (Forms \cup {Raw}) = {}
  /\ Chars \in [Forms -> Nat]
  /\ MaxSessions \in Nat \ {0} /\ MaxParts \in Nat \ {0} /\ MaxChars \in Nat \ {0}
  /\ MaxVersion \in Nat /\ MaxConflicts \in Nat
  /\ \A q \in Requests :
       /\ q.ids \in Seq(SessionIDs) /\ IsInjective(q.ids)
       /\ q.parts \subseteq Parts /\ q.pinned \subseteq q.parts
       /\ \A p \in q.parts : \E i \in DOMAIN q.ids : q.ids[i] = SessionOf[p]

(* Enough objects for the map and for every window's stale references.     *)
Generations == 1 .. Cardinality(SessionIDs) * (1 + Cardinality(Windows))
Unknown == [version |-> 0, form |-> "unknown"]   \* no record for the part
NotJoined == [generation |-> 0, conflictVersion |-> 0]

Fresh == [parts |-> [p \in Parts |-> Unknown], chars |-> 0, count |-> 0,
          saturated |-> FALSE, openWindows |-> 0, conflictVersion |-> 0]
Closed == [open |-> FALSE, joined |-> [s \in SessionIDs |-> NotJoined],
           contents |-> {}, live |-> {}, checked |-> {}, replayed |-> {},
           version |-> [p \in Parts |-> 0], form |-> [p \in Parts |-> Raw],
           overlapped |-> {}]

VARIABLES mapOrder,     \* <<s, i>>: this.sessions holds s before i
          generation,   \* the current object of each session, 0 if none
          state,        \* the SessionState objects
          window,       \* the windows and the outputs of their requests
          hostVersion,  \* the host's stored version of every part
          firstSent,    \* ghost: form the current version was first sent in
          lastSent      \* ghost: ... and last sent in (NotSent: not yet)

manager == <<mapOrder, generation, state>>
vars == <<mapOrder, generation, state, window, hostVersion, firstSent, lastSent>>

NotSent == "not sent"
Changed(r) == r.form \in Forms
Known(S, p) == S.parts[p] # Unknown
Length(f) == IF f = Raw THEN 0 ELSE Chars[f]
NonNegative(n) == IF n < 0 THEN 0 ELSE n

(* The characters of the changed forms that an object records for P.       *)
ChangedOf(S, P) == {p \in P : Changed(S.parts[p])}
Total(f) ==
  LET sum[n \in 0 .. Cardinality(Parts)] == IF n = 0 THEN 0 ELSE sum[n - 1] + f[n]
  IN  sum[Cardinality(Parts)]
CharsOf(S, P) ==
  Total([p \in Parts |-> IF p \in ChangedOf(S, P) THEN Chars[S.parts[p].form] ELSE 0])

(* Objects that the map or an open window refers to.                       *)
Referenced(gen, win) ==
  {gen[s] : s \in SessionIDs}
    \cup {win[w].joined[s].generation : w \in Windows, s \in SessionIDs}
Collected(gen, win, st) ==
  [g \in Generations |-> IF g \in Referenced(gen, win) THEN st[g] ELSE Fresh]
-----------------------------------------------------------------------------
(* The keys of this.sessions; touching or adding one moves it to the end.  *)
KeysOf(gen) == {s \in SessionIDs : gen[s] # 0}
AtEnd(order, others, s) == (order \cap (others \X others)) \cup (others \X {s})
Oldest(order, S) == CHOOSE s \in S : \A i \in S \ {s} : <<s, i>> \in order

(* createSession: the first session, in map order, that retains nothing    *)
(* and has no window makes room; without one the new session stays out.    *)
IdleAnyWindow(m) == {s \in KeysOf(m.generation) : m.state[m.generation[s]].count = 0}
Idle(m) == {s \in KeysOf(m.generation) : /\ m.state[m.generation[s]].count = 0
                                         /\ m.state[m.generation[s]].openWindows = 0}
FullLate(m) == Cardinality(KeysOf(m.generation)) > MaxSessions
Full(m) == Cardinality(KeysOf(m.generation)) >= MaxSessions
Create(m, s) ==
  LET gone == IF Full(m) THEN {Oldest(m.mapOrder, Idle(m))} ELSE {}
      g    == Min(Generations \ Referenced(m.generation, window))
  IN  IF Full(m) /\ Idle(m) = {} THEN m
      ELSE [m EXCEPT
              !.mapOrder = AtEnd(@, KeysOf(m.generation) \ gone, s),
              !.generation = [i \in SessionIDs |-> IF i = s THEN g
                                                   ELSE IF i \in gone THEN 0 ELSE @[i]],
              !.state[g] = Fresh,
              !.firstObserved = @ \cup {s}]

(* begin meets a session of the request: it is touched or created ...      *)
Touched(m, s) ==
  IF m.generation[s] = 0 THEN Create(m, s)
  ELSE [m EXCEPT !.mapOrder = AtEnd(@, KeysOf(m.generation) \ {s}, s)]

(* ... and, when it is in the map now, joined.                             *)
Join(m, s) ==
  LET g    == m.generation[s]
      busy == m.state[g].openWindows > 0
      v    == m.state[g].conflictVersion + (IF busy THEN 1 ELSE 0)
  IN  IF g = 0 THEN m
      ELSE [m EXCEPT !.state[g] = [m.state[g] EXCEPT !.openWindows = @ + 1,
                                                     !.conflictVersion = v],
                     !.joined[s] = [generation |-> g, conflictVersion |-> v],
                     !.overlapping = IF busy THEN @ \cup {s} ELSE @]
Observe(m, s) == Join(Touched(m, s), s)
Observed(start, ids) ==
  LET run[n \in 0 .. Len(ids)] == IF n = 0 THEN start ELSE Observe(run[n - 1], ids[n])
  IN  run[Len(ids)]

(* begin's replay pass over the known parts P of one session: the version  *)
(* `at' which the host loaded a part decides between the representation    *)
(* last sent and, after an edit, the raw output.                           *)
ReplayedAnyVersion(S, P, at) == {p \in P : Changed(S.parts[p])}
Replayed(S, P, at) ==
  {p \in P : Changed(S.parts[p]) /\ S.parts[p].version = at[p]}
Edited(S, P, at) == {p \in P : Known(S, p) /\ S.parts[p].version # at[p]}
ForgetKeepsAccount(S, P) == S
Forget(S, P) ==
  [S EXCEPT !.chars = NonNegative(@ - CharsOf(S, P)),
            !.count = NonNegative(@ - Cardinality(ChangedOf(S, P)))]
RawRecord(version) == [version |-> version, form |-> Raw]
AfterReplay(S, P, at) ==
  [Forget(S, Edited(S, P, at)) EXCEPT
     !.parts = [p \in Parts |-> IF p \in Edited(S, P, at) THEN RawRecord(at[p]) ELSE @[p]]]

(* ... and its recording pass over the unknown ones.                       *)
Unseen(S, P) == {p \in P : ~Known(S, p)}
Overfull(S, P) ==
  S.saturated \/ Cardinality({p \in Parts : Known(S, p)} \cup P) > MaxParts
AfterRecording(S, P, at) ==
  IF Overfull(S, P) THEN [S EXCEPT !.saturated = TRUE]
  ELSE [S EXCEPT !.parts = [p \in Parts |-> IF p \in Unseen(S, P) THEN RawRecord(at[p])
                                            ELSE @[p]]]

(* A new part may be changed unless its session was first observed by this *)
(* request, or another window of the session is open.                      *)
LiveIgnoresFirst(m, q, s) == s \notin m.overlapping
LiveSession(m, q, s) == s \notin m.firstObserved /\ s \notin m.overlapping

(* The host resends what it has sent before: the history of a session      *)
(* grows and its messages are not taken out and put back.                  *)
HistoryGrows(q) ==
  \A p \in Parts : lastSent[p] # NotSent /\ (\E i \in DOMAIN q.ids : q.ids[i] = SessionOf[p])
                     => p \in q.parts

(* What begin starts from.                                                 *)
Start == [mapOrder |-> mapOrder, generation |-> generation, state |-> state,
          joined |-> Closed.joined, firstObserved |-> {}, overlapping |-> {}]

(* The rest of begin, m being what it has made of the manager by the time  *)
(* every session of the request is observed: both passes, and the window.  *)
BeginWith(w, q, at, m) ==
  LET mine(s)  == {p \in q.parts : SessionOf[p] = s}
      ids   == {s \in SessionIDs : m.joined[s] # NotJoined}
      old(s)   == m.state[m.joined[s].generation]
      replayed == UNION {Replayed(old(s), mine(s), at) : s \in ids}
      live  == UNION {Unseen(old(s), mine(s)) \ q.pinned :
                        s \in {i \in ids : LiveSession(m, q, i)
                                             /\ ~Overfull(old(i), mine(i))}}
      owner(g) == {s \in ids : m.joined[s].generation = g}
      state2   == [g \in Generations |->
                     IF owner(g) = {} THEN m.state[g]
                     ELSE LET s == CHOOSE i \in owner(g) : TRUE
                          IN  AfterRecording(AfterReplay(old(s), mine(s), at), mine(s), at)]
      opened   == [open |-> TRUE, joined |-> m.joined, contents |-> q.parts,
                   live |-> live, checked |-> {}, replayed |-> replayed,
                   version |-> [p \in Parts |-> IF p \in q.parts THEN at[p] ELSE 0],
                   form |-> [p \in Parts |->
                               IF p \in replayed
                               THEN old(SessionOf[p]).parts[p].form ELSE Raw],
                   overlapped |-> m.overlapping]
      shares(v, s) == window[v].open /\ s \in m.overlapping
                        /\ window[v].joined[s].generation = m.joined[s].generation
      window2  == [v \in Windows |->
                     IF v = w THEN opened
                     ELSE [window[v] EXCEPT
                             !.overlapped = @ \cup {s \in SessionIDs : shares(v, s)}]]
  IN  /\ ~window[w].open
      /\ \A g \in Generations : state[g].conflictVersion < MaxConflicts
      /\ mapOrder' = m.mapOrder
      /\ generation' = m.generation
      /\ window' = window2
      /\ state' = Collected(m.generation, window2, state2)
      /\ UNCHANGED <<hostVersion, firstSent, lastSent>>
Begin(w, q, at) == BeginWith(w, q, at, Observed(Start, q.ids))
-----------------------------------------------------------------------------
(* The window's object of the part's session, and whether it is still the  *)
(* one the manager uses and nobody else has opened a window on it.         *)
Joined(w, p) == window[w].joined[SessionOf[p]]
Current(w, p) ==
  /\ Joined(w, p).generation # 0
  /\ generation[SessionOf[p]] = Joined(w, p).generation
SameGenerationOnly(w, p) == Current(w, p)
LiveIsCurrent(w, p) ==
  /\ Current(w, p)
  /\ state[Joined(w, p).generation].conflictVersion = Joined(w, p).conflictVersion

(* A request pass asks canMutateToolPart ...                               *)
Check(w, p) ==
  /\ window[w].open
  /\ p \in window[w].live \ window[w].checked
  /\ LiveIsCurrent(w, p)
  /\ window' = [window EXCEPT ![w].checked = @ \cup {p}]
  /\ UNCHANGED <<manager, hostVersion, firstSent, lastSent>>

(* ... and, perhaps much later (it stores the original first), writes.     *)
Write(w, p, f) ==
  /\ window[w].open
  /\ p \in window[w].checked
  /\ f # window[w].form[p]
  /\ window' = [window EXCEPT ![w].form[p] = f]
  /\ UNCHANGED <<manager, hostVersion, firstSent, lastSent>>

(* invalidateReplayForToolPart: the replay's backing is gone.  The record  *)
(* of a session object that is no longer current is changed as well, but   *)
(* nothing is charged to it.                                               *)
Invalidate(w, p) ==
  LET g == Joined(w, p).generation
      S == IF Current(w, p) THEN Forget(state[g], {p}) ELSE state[g]
  IN  /\ window[w].open
      /\ p \in window[w].replayed
      /\ window' = [window EXCEPT ![w].replayed = @ \ {p}, ![w].form[p] = Raw]
      /\ state' = [state EXCEPT ![g] =
                     [S EXCEPT !.parts[p] = RawRecord(window[w].version[p])]]
      /\ UNCHANGED <<mapOrder, generation, hostVersion, firstSent, lastSent>>
-----------------------------------------------------------------------------
(* The request goes to the model with these forms of the window's parts.   *)
Send(contents, version, form) ==
  LET now == {p \in contents : version[p] = hostVersion[p]}
  IN  /\ firstSent' = [p \in Parts |-> IF p \in now /\ firstSent[p] = NotSent
                                       THEN form[p] ELSE firstSent[p]]
      /\ lastSent' = [p \in Parts |-> IF p \in now THEN form[p] ELSE lastSent[p]]

(* closeWindow, and the outputs leave for the model.                       *)
JoinedObjects(w) == {window[w].joined[s].generation : s \in SessionIDs} \ {0}
Close(w, st, form) ==
  LET window2 == [window EXCEPT ![w] = Closed]
      left    == [g \in Generations |->
                    IF g \in JoinedObjects(w)
                    THEN [st[g] EXCEPT !.openWindows = NonNegative(@ - 1)] ELSE st[g]]
  IN  /\ window' = window2
      /\ state' = Collected(generation, window2, left)
      /\ Send(window[w].contents, window[w].version, form)
      /\ UNCHANGED <<mapOrder, generation, hostVersion>>

(* commit, part by part in message order: a changed form is retained for   *)
(* replay, or rolled back to the raw output when the window is not current *)
(* or the session's characters are used up.  `c' is the outputs and the    *)
(* objects as the parts before p have left them.                           *)
Fits(S, f) == S.chars + Length(f) <= MaxChars
Retain(w, c, p) ==
  LET g    == Joined(w, p).generation
      f    == window[w].form[p]
      sent == IF LiveIsCurrent(w, p) /\ Fits(c.state[g], f) THEN f ELSE Raw
  IN  [form  |-> [c.form EXCEPT ![p] = sent],
       state |-> [c.state EXCEPT
                    ![g].parts[p] = [version |-> window[w].version[p], form |-> sent],
                    ![g].chars = @ + Length(sent),
                    ![g].count = IF sent = Raw THEN @ ELSE @ + 1]]

Committed(w) ==
  LET run[n \in 0 .. Cardinality(Parts)] ==
        IF n = 0 THEN [form |-> window[w].form, state |-> state]
        ELSE IF n \in window[w].live THEN Retain(w, run[n - 1], n) ELSE run[n - 1]
  IN  run[Cardinality(Parts)]
Commit(w) ==
  /\ window[w].open
  /\ Close(w, Committed(w).state, Committed(w).form)

(* abort: every live part goes back to raw; replayed ones stay as sent.    *)
Abort(w) ==
  LET live == window[w].live
  IN  /\ window[w].open
      /\ Close(w,
               [g \in Generations |->
                  [state[g] EXCEPT !.parts =
                     [p \in Parts |-> IF p \in live /\ Joined(w, p).generation = g
                                      THEN RawRecord(window[w].version[p])
                                      ELSE @[p]]]],
               [p \in Parts |-> IF p \in live THEN Raw ELSE window[w].form[p]])
-----------------------------------------------------------------------------
DeleteSession(s) ==
  LET gen == [generation EXCEPT ![s] = 0]
  IN  /\ mapOrder' = mapOrder \cap (KeysOf(gen) \X KeysOf(gen))
      /\ generation' = gen
      /\ state' = Collected(gen, window, state)
      /\ UNCHANGED <<window, hostVersion, firstSent, lastSent>>

Clear ==
  LET gen == [s \in SessionIDs |-> 0]
  IN  /\ mapOrder' = {}
      /\ generation' = gen
      /\ state' = Collected(gen, window, state)
      /\ UNCHANGED <<window, hostVersion, firstSent, lastSent>>

(* The host changes a stored output (or a part's status) between requests. *)
HostEdit(p) ==
  /\ hostVersion[p] < MaxVersion
  /\ hostVersion' = [hostVersion EXCEPT ![p] = @ + 1]
  /\ firstSent' = [firstSent EXCEPT ![p] = NotSent]
  /\ lastSent' = [lastSent EXCEPT ![p] = NotSent]
  /\ UNCHANGED <<manager, window>>
-----------------------------------------------------------------------------
Init ==
  /\ mapOrder = {}
  /\ generation = [s \in SessionIDs |-> 0]
  /\ state = [g \in Generations |-> Fresh]
  /\ window = [w \in Windows |-> Closed]
  /\ hostVersion = [p \in Parts |-> 0]
  /\ firstSent = [p \in Parts |-> NotSent]
  /\ lastSent = [p \in Parts |-> NotSent]

Next ==
  \/ \E w \in Windows :
       \/ \E q \in Requests : HistoryGrows(q) /\ Begin(w, q, hostVersion)
       \/ \E p \in Parts : Check(w, p) \/ Invalidate(w, p)
       \/ \E p \in Parts, f \in Forms \cup {Raw} : Write(w, p, f)
       \/ Commit(w)
       \/ Abort(w)
  \/ \E s \in SessionIDs : DeleteSession(s)
  \/ Clear
  \/ \E p \in Parts : HostEdit(p)

Spec == Init /\ [][Next]_vars
-----------------------------------------------------------------------------
Tracked == KeysOf(generation)
Retained(g) == ChangedOf(state[g], Parts)

Record == [version : Nat, form : Forms \cup {Raw}]
SessionState ==
  [parts : [Parts -> Record \cup {Unknown}], chars : Nat, count : Nat,
   saturated : BOOLEAN, openWindows : Nat, conflictVersion : Nat]
Window ==
  [open : BOOLEAN,
   joined : [SessionIDs -> [generation : Generations \cup {0}, conflictVersion : Nat]],
   contents : SUBSET Parts, live : SUBSET Parts, checked : SUBSET Parts,
   replayed : SUBSET Parts, version : [Parts -> Nat], form : [Parts -> Forms \cup {Raw}],
   overlapped : SUBSET SessionIDs]

InOrder(order, S) ==
  /\ \A s, i \in S : s # i => (<<s, i>> \in order <=> <<i, s>> \notin order)
  /\ \A s, i, j \in S : <<s, i>> \in order /\ <<i, j>> \in order => <<s, j>> \in order

(* Shape of the map, the session objects, the windows and the ghosts.      *)
TypeOK ==
  /\ mapOrder \subseteq Tracked \X Tracked /\ InOrder(mapOrder, Tracked)
  /\ generation \in [SessionIDs -> Generations \cup {0}]
  /\ \A s, i \in Tracked : s # i => generation[s] # generation[i]
  /\ state \in [Generations -> SessionState]
  /\ window \in [Windows -> Window]
  /\ \A w \in Windows :
       /\ window[w].live \cap window[w].replayed = {}
       /\ window[w].live \cup window[w].replayed \subseteq window[w].contents
       /\ window[w].checked \subseteq window[w].live
  /\ hostVersion \in [Parts -> Nat]
  /\ {firstSent, lastSent} \subseteq [Parts -> Forms \cup {Raw, NotSent}]

(* The retention counters of a tracked session are exactly the characters  *)
(* and the number of the representations it can replay, through every mix  *)
(* of commits, roll-backs, invalidations, host edits and deletions, and    *)
(* stay within the option (begin, commit and invalidate each adjust them). *)
RetentionAccounted ==
  \A s \in Tracked : LET g == generation[s]
                     IN  /\ state[g].count = Cardinality(Retained(g))
                         /\ state[g].chars = CharsOf(state[g], Parts)
                         /\ state[g].chars <= MaxChars

(* openWindows counts exactly the open windows that joined the session     *)
(* object, stale ones included: a leak would protect an idle session from  *)
(* eviction for ever, a loss would evict one in use.                       *)
OpenWindowsAccounted ==
  \A g \in Generations :
    state[g].openWindows =
      Cardinality({w \in Windows : \E s \in SessionIDs :
                     window[w].joined[s].generation = g})

(* A session that must replay a representation, or that has a window, is   *)
(* never the one evicted to make room: only a deletion or dispose ends it. *)
InUseNeverEvicted ==
  [][\A s \in Tracked :
       (Retained(generation[s]) # {}
          \/ \E w \in Windows : window[w].joined[s].generation = generation[s])
         => generation'[s] = generation[s] \/ DeleteSession(s) \/ Clear]_vars

(* What the model has been shown stays: once a version of a part was sent  *)
(* in some form, later requests send that form or (its backing lost) the   *)
(* raw output.  In particular a part first sent raw is never changed.      *)
RepresentationStable ==
  \A p \in Parts : lastSent[p] \in {NotSent, Raw, firstSent[p]}

(* Two windows that were open on one session object at the same time both  *)
(* end with their new parts raw: nothing one of them wrote is retained.    *)
OverlapRollsBack ==
  [][\A w \in Windows : \A p \in window[w].live :
       (SessionOf[p] \in window[w].overlapped /\ ~window'[w].open)
         => LET g == Joined(w, p).generation IN ~Changed(state'[g].parts[p])]_vars

(* The manager's bookkeeping: types, retention counters, open windows.     *)
RecordsConsistent == TypeOK /\ RetentionAccounted /\ OpenWindowsAccounted
=============================================================================
