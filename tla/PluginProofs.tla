---------------------------- MODULE PluginProofs ----------------------------
(***************************************************************************)
(* Safety of Plugin for every number of sessions, calls, transforms and    *)
(* hooks and every limit of the pending calls: a call is compressed by the *)
(* fallback at most once, none that may be changed is missed, a transform  *)
(* that succeeds leaves none of its calls pending, and the counts of the   *)
(* telemetry balance.                                                      *)
(*                                                                         *)
(* IInv says why: a call that a transform has seen stays seen as long as   *)
(* its session is known (SeenOnce), so no later transform may change it;   *)
(* what a running transform may still compress is pending or was dropped   *)
(* on purpose, because no other transform has processed it (Disjoint) and  *)
(* a call that is completed is not marked again.                           *)
(*                                                                         *)
(* TelemetryInv adds what the telemetry needs: the buckets are added with  *)
(* an operation whose order does not matter (PlusAssociates), so a record  *)
(* that goes to the global bucket and to the session's keeps one the sum   *)
(* of the others, and one that finishes a run is counted as it leaves the  *)
(* runs in flight.  The folds of the library are taken apart by FoldSteps, *)
(* by induction on the subsets of a finite set.                            *)
(*                                                                         *)
(* At the end, two parts without state that tool.execute.after calls: the  *)
(* file read, for every file system (FileInv follows what a reader knows   *)
(* through its system calls), and the policy of a tool, for every list of  *)
(* rules (Expected says what decides).                                     *)
(***************************************************************************)
EXTENDS Plugin, OutputFile, ToolPolicy, FiniteSetTheorems, WellFoundedInduction, TLAPS

PendingRecord ==
  [sessions : SUBSET Sessions, calls : SUBSET Calls,
   sessionOrder : SUBSET (Sessions \X Sessions), callOrder : SUBSET (Calls \X Calls)]

(* What PendingMcpToolCalls is while the sessions of S may have no calls.  *)
PendingButFor(p, S) ==
  /\ p \in PendingRecord
  /\ p.sessions = {SessionOf[c] : c \in p.calls} \cup S
  /\ IsFiniteSet(p.sessions) /\ Cardinality(p.sessions) <= MaxPendingSessions
  /\ p.sessionOrder \subseteq p.sessions \X p.sessions /\ p.callOrder \subseteq p.calls \X p.calls
  /\ InOrder(p.sessionOrder, p.sessions)
  /\ \A s \in p.sessions :
       /\ IsFiniteSet(CallsOf(p, s)) /\ Cardinality(CallsOf(p, s)) <= MaxPendingCalls
       /\ InOrder(p.callOrder, CallsOf(p, s))
PendingOK(p) == PendingButFor(p, {})

TransformRecord ==
  [pc : {"idle", "reading", "compressing", "settling"}, session : Sessions \cup {None},
   request : SUBSET Calls, at : Nat, live : SUBSET Calls, processed : SUBSET Calls]

Types ==
  /\ PendingOK(pending)
  /\ phase \in [Calls -> {"new", "returned", "completed"}]
  /\ known \subseteq Sessions /\ seen \subseteq Calls /\ dropped \subseteq Calls
  /\ transform \in [Transforms -> TransformRecord]
  /\ attempts \in [Calls -> 0 .. 1]

(* A call that was once in a window stays seen while its session is known, *)
(* so no later window may change it.                                       *)
SeenOnce(c) == phase[c] = "completed" /\ (SessionOf[c] \in known => c \in seen)

(* The calls a transform may still compress, and those it has got past.    *)
Left(r) ==
  {c \in r.live : r.pc = "reading" \/ (r.pc = "compressing" /\ c > r.at)}
Reached(r) ==
  {c \in r.request : r.pc = "settling" \/ (r.pc = "compressing" /\ c <= r.at)}
IsRunning(r) == r.pc \in {"reading", "compressing"}

(* What one transform knows, and owes.                                     *)
TransformOK(r) ==
  /\ r.live \cup r.processed \subseteq r.request
  /\ r.pc = "idle" => r.request = {}
  /\ \A c \in r.request : SessionOf[c] = r.session /\ SeenOnce(c)
  /\ \A c \in Left(r) : attempts[c] = 0 /\ c \in pending.calls \cup dropped
  /\ \A c \in r.live \cap Reached(r) : attempts[c] > 0 \/ c \in dropped \cup Unchangeable
  /\ Reached(r) \cap pending.calls \subseteq r.processed

(* Running transforms have sessions of their own, and what one may change  *)
(* no other has processed.                                                 *)
Disjoint ==
  \A t, u \in Transforms : t # u /\ IsRunning(transform[t]) =>
    /\ IsRunning(transform[u]) => transform[t].session # transform[u].session
    /\ transform[t].live \cap transform[u].processed = {}

IInv ==
  /\ Types
  /\ \A c \in seen : SessionOf[c] \in known
  /\ \A c \in Calls : attempts[c] > 0 => SeenOnce(c)
  /\ \A c \in Calls : phase[c] # "new" => c \in pending.calls \cup dropped \/ SeenOnce(c)
  /\ \A t \in Transforms : TransformOK(transform[t])
  /\ Disjoint
-----------------------------------------------------------------------------
(* A nonempty set of naturals has a least member.                          *)
LEMMA LeastNat ==
  ASSUME NEW T, T \subseteq Nat, T # {}
  PROVE  \E x \in T : \A y \in T : x <= y
<1> DEFINE R == OpToRel(<, Nat)
<1>1. PICK x \in T : \A y \in T : ~ (<<y, x>> \in R)
  BY NatLessThanWellFounded, WFMin
<1>2. \A y \in T : ~(y < x)
  <2> TAKE y \in T
  <2>1. y \in Nat /\ x \in Nat
    OBVIOUS
  <2>2. y < x => <<y, x>> \in R
    BY <2>1 DEF OpToRel
  <2> QED BY <1>1, <2>2
<1> QED BY <1>2

(* Min picks a member that no other is below.                              *)
LEMMA MinIsLeast ==
  ASSUME NEW T, T \subseteq Nat, T # {}
  PROVE  Min(T) \in T /\ \A y \in T : Min(T) <= y
BY LeastNat DEF Min

(* A finite set in order has an oldest member, and it is the one found.    *)
LEMMA OldestIsMember ==
  ASSUME NEW R, NEW S, IsFiniteSet(S), S # {}, InOrder(R, S)
  PROVE  Oldest(R, S) \in S
<1> DEFINE Before(x) == {y \in S : y # x /\ <<y, x>> \in R}
           T == {Cardinality(Before(x)) : x \in S}
<1>1. \A x \in S : IsFiniteSet(Before(x)) /\ Cardinality(Before(x)) \in Nat
  <2> TAKE x \in S
  <2>1. Before(x) \in SUBSET S
    OBVIOUS
  <2> QED BY <2>1, FS_Subset, FS_CardinalityType
<1>2. T \subseteq Nat /\ T # {}
  BY <1>1
<1>3. PICK n \in T : \A m \in T : n <= m
  BY <1>2, LeastNat
<1>4. PICK x \in S : Cardinality(Before(x)) = n
  OBVIOUS
<1>5. ASSUME NEW y \in S \ {x}, <<x, y>> \notin R
      PROVE  FALSE
  <2>1. <<y, x>> \in R
    BY <1>5 DEF InOrder
  <2>2. Before(y) \in SUBSET Before(x)
    BY <1>5, <2>1 DEF InOrder
  <2>3. y \in Before(x) /\ y \notin Before(y)
    BY <2>1
  <2>4. Before(y) # Before(x)
    BY <2>3
  <2> HIDE DEF Before
  <2>5. Cardinality(Before(y)) <= Cardinality(Before(x))
          /\ Cardinality(Before(y)) # Cardinality(Before(x))
    BY <1>1, <2>2, <2>4, FS_Subset
  <2>6. Cardinality(Before(x)) <= Cardinality(Before(y))
    BY <1>3, <1>4
  <2> QED BY <1>1, <2>5, <2>6
<1>6. \A y \in S \ {x} : <<x, y>> \in R
  BY <1>5
<1> QED BY <1>6 DEF Oldest
-----------------------------------------------------------------------------
(* Taking calls away, and the sessions that have none left with them,      *)
(* keeps the pending calls in shape.                                       *)
LEMMA KeptInShape ==
  ASSUME NEW p, NEW X, PendingButFor(p, X), NEW S, NEW C, NEW Y,
         S \subseteq p.sessions, C \subseteq p.calls,
         S = {SessionOf[c] : c \in C} \cup Y
  PROVE  PendingButFor(Kept(p, S, C), Y)
<1> DEFINE q == Kept(p, S, C)
<1> USE DEF PendingButFor
<1>1. /\ q.sessions = S /\ q.calls = C
      /\ q.sessionOrder = p.sessionOrder \cap (S \X S)
      /\ q.callOrder = p.callOrder \cap (C \X C)
  BY DEF Kept
<1>2. q \in PendingRecord
  BY DEF PendingRecord, Kept
<1>3. IsFiniteSet(S) /\ Cardinality(S) <= MaxPendingSessions
  <2>1. S \in SUBSET p.sessions
    OBVIOUS
  <2>2. IsFiniteSet(S) /\ Cardinality(S) <= Cardinality(p.sessions)
    BY <2>1, FS_Subset
  <2> QED BY <2>2, FS_CardinalityType, PluginAssumption
<1>4. InOrder(q.sessionOrder, S)
  BY <1>1 DEF InOrder
<1>5. ASSUME NEW s \in S
      PROVE  /\ IsFiniteSet(CallsOf(q, s)) /\ Cardinality(CallsOf(q, s)) <= MaxPendingCalls
             /\ InOrder(q.callOrder, CallsOf(q, s))
  <2>1. CallsOf(q, s) \in SUBSET CallsOf(p, s) /\ CallsOf(q, s) \subseteq C
    BY <1>1 DEF CallsOf
  <2>2. IsFiniteSet(CallsOf(q, s)) /\ Cardinality(CallsOf(q, s)) <= Cardinality(CallsOf(p, s))
    BY <2>1, FS_Subset
  <2>3. Cardinality(CallsOf(q, s)) <= MaxPendingCalls
    BY <2>2, FS_CardinalityType, PluginAssumption
  <2>4. InOrder(q.callOrder, CallsOf(q, s))
    BY <1>1, <2>1 DEF InOrder
  <2> QED BY <2>2, <2>3, <2>4
<1> HIDE DEF q
<1>6. PendingButFor(q, Y)
  BY <1>1, <1>2, <1>3, <1>4, <1>5
<1> QED BY <1>6 DEF q

(* deleteSession takes the session and its calls away, and nothing else.   *)
LEMMA WithoutInShape ==
  ASSUME NEW p, PendingOK(p), NEW s
  PROVE  /\ PendingOK(Without(p, s))
         /\ Without(p, s).sessions = p.sessions \ {s}
         /\ Without(p, s).calls = {c \in p.calls : SessionOf[c] # s}
<1> DEFINE S == p.sessions \ {s}
           C == p.calls \ CallsOf(p, s)
<1>1. C = {c \in p.calls : SessionOf[c] # s}
  BY DEF CallsOf
<1>2. S = {SessionOf[c] : c \in C} \cup {}
  BY <1>1 DEF PendingOK, PendingButFor
<1>3. PendingOK(Kept(p, S, C))
  BY <1>2, KeptInShape DEF PendingOK
<1> QED BY <1>1, <1>3 DEF Without, Kept

(* The deletes after a transform take exactly its calls away.              *)
LEMMA DeletedInShape ==
  ASSUME NEW p, PendingOK(p), NEW gone
  PROVE  PendingOK(Deleted(p, gone)) /\ Deleted(p, gone).calls = p.calls \ gone
<1> DEFINE emptied == {s \in {SessionOf[c] : c \in gone} : CallsOf(p, s) \subseteq gone}
           S == p.sessions \ emptied
           C == p.calls \ gone
<1>1. S = {SessionOf[c] : c \in C} \cup {}
  <2>1. p.sessions = {SessionOf[c] : c \in p.calls}
    BY DEF PendingOK, PendingButFor
  <2>2. ASSUME NEW c \in C PROVE SessionOf[c] \in S
    BY <2>1 DEF CallsOf
  <2>3. ASSUME NEW s \in S PROVE \E c \in C : s = SessionOf[c]
    <3>1. PICK c \in p.calls : s = SessionOf[c]
      BY <2>1
    <3>2. CASE c \notin gone
      BY <3>1, <3>2
    <3>3. CASE c \in gone
      <4>1. ~(CallsOf(p, s) \subseteq gone)
        BY <3>1, <3>3
      <4> QED BY <4>1 DEF CallsOf
    <3> QED BY <3>2, <3>3
  <2> QED BY <2>2, <2>3
<1>2. PendingOK(Kept(p, S, C))
  BY <1>1, KeptInShape DEF PendingOK
<1> QED BY <1>2 DEF Deleted, Kept

(* Room is made for a session by displacing the oldest one.                *)
LEMMA SessionAddedInShape ==
  ASSUME NEW p, PendingOK(p), NEW s \in Sessions
  PROVE  LET q == WithSession(p, s)
         IN  /\ PendingButFor(q, {s})
             /\ q.calls \subseteq p.calls
<1> USE DEF PendingOK
<1>1. CASE s \in p.sessions
  BY <1>1 DEF WithSession, PendingButFor
<1>2. CASE s \notin p.sessions
  <2> DEFINE full == Cardinality(p.sessions) >= MaxPendingSessions
             old  == Oldest(p.sessionOrder, p.sessions)
             q    == IF full THEN Without(p, old) ELSE p
             r    == [q EXCEPT !.sessions = @ \cup {s},
                               !.sessionOrder = @ \cup (q.sessions \X {s})]
  <2>1. Cardinality(p.sessions) \in Nat /\ MaxPendingSessions \in Nat \ {0}
    BY FS_CardinalityType, PluginAssumption DEF PendingButFor
  <2>2. PendingOK(q) /\ Cardinality(q.sessions) < MaxPendingSessions
          /\ q.sessions \subseteq p.sessions /\ q.calls \subseteq p.calls
    <3>1. CASE ~full
      <4>1. q = p
        BY <3>1
      <4>2. Cardinality(p.sessions) < MaxPendingSessions
        BY <2>1, <3>1
      <4> HIDE DEF q
      <4> QED BY <4>1, <4>2
    <3>2. CASE full
      <4>1. p.sessions # {}
        BY <2>1, <3>2, FS_EmptySet
      <4>2. old \in p.sessions
        BY <4>1, OldestIsMember DEF PendingButFor
      <4>3. PendingOK(q) /\ q.sessions = p.sessions \ {old} /\ q.calls \subseteq p.calls
        BY <3>2, WithoutInShape
      <4>4. Cardinality(q.sessions) = Cardinality(p.sessions) - 1
        <5>1. IsFiniteSet(p.sessions)
          BY DEF PendingButFor
        <5> HIDE DEF old, q
        <5>2. Cardinality(p.sessions \ {old}) = Cardinality(p.sessions) - 1
          BY <4>2, <5>1, FS_RemoveElement
        <5> QED BY <4>3, <5>2
      <4>5. Cardinality(p.sessions) <= MaxPendingSessions
        BY DEF PendingButFor
      <4> HIDE DEF q
      <4> QED BY <2>1, <4>3, <4>4, <4>5
    <3> QED BY <3>1, <3>2
  <2>3. WithSession(p, s) = r
    BY <1>2 DEF WithSession
  <2> HIDE DEF q
  <2>4. s \notin q.sessions
    BY <1>2, <2>2
  <2>5. /\ r.sessions = q.sessions \cup {s} /\ r.calls = q.calls
        /\ r.sessionOrder = q.sessionOrder \cup (q.sessions \X {s})
        /\ r.callOrder = q.callOrder /\ r \in PendingRecord
    BY <2>2 DEF PendingButFor, PendingRecord
  <2>6. IsFiniteSet(r.sessions) /\ Cardinality(r.sessions) <= MaxPendingSessions
    <3>1. IsFiniteSet(q.sessions) /\ Cardinality(q.sessions) \in Nat
      BY <2>2, FS_CardinalityType DEF PendingButFor
    <3>2. IsFiniteSet(r.sessions) /\ Cardinality(r.sessions) = Cardinality(q.sessions) + 1
      BY <2>4, <2>5, <3>1, FS_AddElement
    <3> QED BY <2>1, <2>2, <3>1, <3>2
  <2>7. InOrder(r.sessionOrder, r.sessions)
    <3>1. InOrder(q.sessionOrder, q.sessions)
          /\ q.sessionOrder \subseteq q.sessions \X q.sessions
      BY <2>2 DEF PendingButFor
    <3> QED BY <2>4, <2>5, <3>1 DEF InOrder
  <2>8. ASSUME NEW u \in r.sessions
        PROVE  /\ IsFiniteSet(CallsOf(r, u)) /\ Cardinality(CallsOf(r, u)) <= MaxPendingCalls
               /\ InOrder(r.callOrder, CallsOf(r, u))
    <3>1. CallsOf(r, u) = CallsOf(q, u)
      BY <2>5 DEF CallsOf
    <3>2. CASE u \in q.sessions
      BY <2>2, <2>5, <3>1, <3>2 DEF PendingButFor
    <3>3. CASE u \notin q.sessions
      <4>1. CallsOf(r, u) = {}
        BY <2>2, <3>1, <3>3 DEF PendingButFor, CallsOf
      <4>2. IsFiniteSet({}) /\ Cardinality({}) = 0 /\ 0 <= MaxPendingCalls
        BY FS_EmptySet, PluginAssumption
      <4> QED BY <4>1, <4>2 DEF InOrder
    <3> QED BY <3>2, <3>3
  <2>9. /\ r.sessions = {SessionOf[c] : c \in r.calls} \cup {s}
        /\ r.sessionOrder \subseteq r.sessions \X r.sessions
        /\ r.callOrder \subseteq r.calls \X r.calls
        /\ r.calls \subseteq p.calls
    BY <2>2, <2>5 DEF PendingButFor
  <2> HIDE DEF r
  <2> QED BY <2>3, <2>5, <2>6, <2>7, <2>8, <2>9 DEF PendingButFor
<1> QED BY <1>1, <1>2

(* Room is made for a call by displacing the oldest one of its session;    *)
(* the call marked is the newest one.                                      *)
LEMMA CallAddedInShape ==
  ASSUME NEW p, NEW c \in Calls, PendingButFor(p, {SessionOf[c]})
  PROVE  LET q == WithCall(p, c)
         IN  /\ PendingOK(q)
             /\ c \in q.calls /\ q.calls \subseteq p.calls \cup {c}
<1> DEFINE s    == SessionOf[c]
           own  == CallsOf(p, s)
           full == c \notin own /\ Cardinality(own) >= MaxPendingCalls
           old  == Oldest(p.callOrder, own)
           gone == {c} \cup IF full THEN {old} ELSE {}
           C    == p.calls \ gone
           q    == Kept(p, p.sessions, C)
           r    == [q EXCEPT !.calls = @ \cup {c},
                             !.callOrder = @ \cup ((own \ gone) \X {c})]
<1>1. /\ s \in Sessions /\ s \in p.sessions
      /\ IsFiniteSet(own) /\ Cardinality(own) <= MaxPendingCalls
      /\ InOrder(p.callOrder, own)
      /\ p.callOrder \subseteq p.calls \X p.calls
      /\ own = {d \in p.calls : SessionOf[d] = s}
      /\ p \in PendingRecord
  BY PluginAssumption DEF PendingButFor, CallsOf
<1>2. WithCall(p, c) = r
  BY DEF WithCall
<1>3. /\ r.sessions = p.sessions /\ r.calls = C \cup {c}
      /\ r.sessionOrder = p.sessionOrder \cap (p.sessions \X p.sessions)
      /\ r.callOrder = (p.callOrder \cap (C \X C)) \cup ((own \ gone) \X {c})
  BY DEF Kept
<1>4. q \in PendingRecord
  <2>1. C \subseteq Calls /\ p.sessions \subseteq Sessions
    BY <1>1 DEF PendingRecord
  <2> HIDE DEF C
  <2> QED BY <1>1, <2>1 DEF Kept, PendingRecord
<1> DEFINE rest == own \ gone
<1>5. IsFiniteSet(rest) /\ Cardinality(rest) < MaxPendingCalls
  <2>1. Cardinality(own) \in Nat /\ MaxPendingCalls \in Nat \ {0}
    BY <1>1, FS_CardinalityType, PluginAssumption
  <2>2. CASE c \in own
    <3>1. rest = own \ {c}
      BY <2>2
    <3>2. IsFiniteSet(own \ {c}) /\ Cardinality(own \ {c}) = Cardinality(own) - 1
      BY <1>1, <2>2, FS_RemoveElement
    <3> HIDE DEF own, rest
    <3> QED BY <1>1, <2>1, <3>1, <3>2
  <2>3. CASE full
    <3>1. own # {}
      BY <2>1, <2>3, FS_EmptySet
    <3>2. old \in own
      BY <1>1, <3>1, OldestIsMember
    <3>3. rest = own \ {old}
      BY <2>3
    <3>4. IsFiniteSet(own \ {old}) /\ Cardinality(own \ {old}) = Cardinality(own) - 1
      <4> HIDE DEF own, old
      <4> QED BY <1>1, <3>2, FS_RemoveElement
    <3> HIDE DEF own, rest
    <3> QED BY <1>1, <2>1, <3>3, <3>4
  <2>4. CASE c \notin own /\ ~full
    <3>1. rest = own /\ Cardinality(own) < MaxPendingCalls
      BY <2>1, <2>4
    <3> HIDE DEF own, rest
    <3> QED BY <1>1, <3>1
  <2> QED BY <2>2, <2>3, <2>4
<1>6. CallsOf(r, s) = rest \cup {c}
  BY <1>1, <1>3 DEF CallsOf
<1>7. \A u \in p.sessions \ {s} : CallsOf(r, u) \subseteq CallsOf(p, u)
                                    /\ CallsOf(r, u) \subseteq C
  <2> TAKE u \in p.sessions \ {s}
  <2> HIDE DEF r, C, s
  <2>1. \A d \in CallsOf(r, u) : d \in C /\ SessionOf[d] = u
    BY <1>3 DEF CallsOf, s
  <2>2. C \subseteq p.calls
    BY DEF C
  <2> QED BY <2>1, <2>2 DEF CallsOf
<1>8. \A d \in p.calls : SessionOf[d] # s => d \in C
  <2>1. CASE full
    <3>1. Cardinality(own) \in Nat /\ MaxPendingCalls \in Nat \ {0}
      BY <1>1, FS_CardinalityType, PluginAssumption
    <3>2. own # {}
      BY <2>1, <3>1, FS_EmptySet
    <3>3. old \in own
      BY <1>1, <3>2, OldestIsMember
    <3> QED BY <1>1, <2>1, <3>3
  <2>2. CASE ~full
    BY <2>2
  <2> QED BY <2>1, <2>2
<1> HIDE DEF q, own, full, old
<1>9. rest \subseteq C /\ c \notin C /\ \A d \in rest : SessionOf[d] = s
  BY <1>1
<1>10. r.sessions = {SessionOf[d] : d \in r.calls} \cup {}
  <2>1. p.sessions = {SessionOf[d] : d \in p.calls} \cup {s}
    BY DEF PendingButFor
  <2>2. ASSUME NEW d \in r.calls PROVE SessionOf[d] \in r.sessions
    BY <1>3, <2>1
  <2>3. ASSUME NEW u \in r.sessions PROVE \E d \in r.calls : u = SessionOf[d]
    <3>1. CASE u = s
      BY <1>3, <3>1
    <3>2. CASE u # s
      BY <1>3, <1>8, <2>1, <3>2
    <3> QED BY <3>1, <3>2
  <2> QED BY <2>2, <2>3
<1>11. r \in PendingRecord
  <2>1. q.calls \cup {c} \subseteq Calls
          /\ q.callOrder \cup ((own \ gone) \X {c}) \subseteq Calls \X Calls
    <3>1. own \subseteq Calls
      BY <1>1 DEF PendingRecord
    <3>2. q.calls \subseteq Calls /\ q.callOrder \subseteq Calls \X Calls
      BY <1>4 DEF PendingRecord
    <3> HIDE DEF gone
    <3> QED BY <3>1, <3>2
  <2> HIDE DEF gone, C
  <2> QED BY <1>4, <2>1 DEF PendingRecord
<1>12. /\ IsFiniteSet(r.sessions) /\ Cardinality(r.sessions) <= MaxPendingSessions
       /\ r.sessionOrder \subseteq r.sessions \X r.sessions
       /\ InOrder(r.sessionOrder, r.sessions)
  <2>1. r.sessionOrder = p.sessionOrder
    BY <1>3 DEF PendingButFor
  <2> QED BY <1>3, <2>1 DEF PendingButFor
<1>13. r.callOrder \subseteq r.calls \X r.calls
  BY <1>3, <1>9
<1>14. ASSUME NEW u \in r.sessions
       PROVE  /\ IsFiniteSet(CallsOf(r, u)) /\ Cardinality(CallsOf(r, u)) <= MaxPendingCalls
              /\ InOrder(r.callOrder, CallsOf(r, u))
  <2>1. CASE u = s
    <3>1. IsFiniteSet(rest \cup {c}) /\ Cardinality(rest \cup {c}) = Cardinality(rest) + 1
      BY <1>5, <1>9, FS_AddElement
    <3>2. Cardinality(rest) \in Nat /\ MaxPendingCalls \in Nat
      BY <1>5, FS_CardinalityType, PluginAssumption
    <3>3. Cardinality(rest \cup {c}) <= MaxPendingCalls
      BY <1>5, <3>1, <3>2
    <3>4. \A x, y \in rest : <<x, y>> \in r.callOrder <=> <<x, y>> \in p.callOrder
      BY <1>3, <1>9
    <3>5. \A x \in rest : <<x, c>> \in r.callOrder /\ <<c, x>> \notin r.callOrder /\ x # c
      BY <1>3, <1>9
    <3>6. <<c, c>> \notin r.callOrder
      BY <1>3, <1>9
    <3>7. InOrder(p.callOrder, rest)
      BY <1>1 DEF InOrder
    <3> HIDE DEF r, rest
    <3>8. InOrder(r.callOrder, rest \cup {c})
      BY <3>4, <3>5, <3>6, <3>7 DEF InOrder
    <3> QED BY <1>6, <2>1, <3>1, <3>3, <3>8
  <2>2. CASE u # s
    <3>1. u \in p.sessions \ {s}
      BY <1>3, <2>2
    <3>2. CallsOf(r, u) \in SUBSET CallsOf(p, u)
      BY <1>7, <3>1
    <3>3. IsFiniteSet(CallsOf(p, u)) /\ Cardinality(CallsOf(p, u)) <= MaxPendingCalls
            /\ InOrder(p.callOrder, CallsOf(p, u))
      BY <3>1 DEF PendingButFor
    <3>4. IsFiniteSet(CallsOf(r, u)) /\ Cardinality(CallsOf(r, u)) <= Cardinality(CallsOf(p, u))
      BY <3>2, <3>3, FS_Subset
    <3>5. Cardinality(CallsOf(r, u)) <= MaxPendingCalls
      BY <3>3, <3>4, FS_CardinalityType, PluginAssumption
    <3> HIDE DEF r, C, rest
    <3>6. \A x, y \in CallsOf(r, u) : <<x, y>> \in r.callOrder <=> <<x, y>> \in p.callOrder
      BY <1>3, <1>7, <1>9, <3>1
    <3> QED BY <3>2, <3>3, <3>4, <3>5, <3>6 DEF InOrder
  <2> QED BY <2>1, <2>2
<1>15. c \in r.calls /\ r.calls \subseteq p.calls \cup {c}
  BY <1>3
<1> HIDE DEF r
<1>16. PendingOK(r)
  BY <1>10, <1>11, <1>12, <1>13, <1>14 DEF PendingOK, PendingButFor
<1> QED BY <1>2, <1>15, <1>16

(* A call that is marked is pending, and marking adds no other.            *)
LEMMA MarkedInShape ==
  ASSUME NEW p, PendingOK(p), NEW c \in Calls
  PROVE  /\ PendingOK(Marked(p, c))
         /\ c \in Marked(p, c).calls /\ Marked(p, c).calls \subseteq p.calls \cup {c}
<1> DEFINE q == WithSession(p, SessionOf[c])
<1>1. PendingButFor(q, {SessionOf[c]}) /\ q.calls \subseteq p.calls
  BY SessionAddedInShape, PluginAssumption
<1>2. PendingOK(WithCall(q, c))
        /\ c \in WithCall(q, c).calls /\ WithCall(q, c).calls \subseteq q.calls \cup {c}
  <2> HIDE DEF q
  <2> QED BY <1>1, CallAddedInShape
<1> HIDE DEF q
<1>3. Marked(p, c) = WithCall(q, c)
  BY DEF Marked, q
<1> QED BY <1>1, <1>2, <1>3
-----------------------------------------------------------------------------
(* What a step must leave alone for a transform that it does not move.     *)
LEMMA TransformKept ==
  ASSUME IInv, NEW t \in Transforms, transform'[t] = transform[t],
         dropped \subseteq dropped',
         \A c \in transform[t].request :
           /\ SeenOnce(c)'
           /\ c \in pending'.calls => c \in pending.calls
           /\ attempts'[c] = attempts[c] \/ (c \notin Left(transform[t]) /\ attempts'[c] > 0),
         \A c \in Left(transform[t]) :
           c \in pending.calls => c \in pending'.calls \cup dropped'
  PROVE  TransformOK(transform[t])'
<1>1. TransformOK(transform[t])
  BY DEF IInv
<1>2. /\ Left(transform[t])' = Left(transform[t])
      /\ Reached(transform[t])' = Reached(transform[t])
  BY DEF Left, Reached
<1>3. Left(transform[t]) \subseteq transform[t].request
  BY <1>1 DEF TransformOK, Left
<1>4. Reached(transform[t]) \subseteq transform[t].request
  BY DEF Reached
<1>5. \A c \in Left(transform[t]) : attempts'[c] = 0 /\ c \in pending'.calls \cup dropped'
  BY <1>1, <1>3 DEF TransformOK
<1>6. \A c \in transform[t].live \cap Reached(transform[t]) :
        attempts'[c] > 0 \/ c \in dropped' \cup Unchangeable
  BY <1>1, <1>4 DEF TransformOK
<1>7. Reached(transform[t]) \cap pending'.calls \subseteq transform[t].processed
  BY <1>1, <1>4 DEF TransformOK
<1> HIDE DEF Left, Reached
<1> QED BY <1>1, <1>2, <1>5, <1>6, <1>7 DEF TransformOK

(* A step of hooks, retrievals or dispose that the calls do not notice.    *)
LEMMA UnaffectedKeeps ==
  ASSUME IInv, UNCHANGED <<pending, phase, known, seen, dropped, transform, attempts>>
  PROVE  IInv'
BY DEF IInv, Types, SeenOnce, TransformOK, Left, Reached, Disjoint, IsRunning

(* A raw MCP result.                                                       *)
LEMMA MarkPendingKeeps ==
  ASSUME IInv, NEW c \in Calls, MarkPending(c)
  PROVE  IInv'
<1> USE DEF IInv
<1>1. /\ phase[c] # "completed" /\ phase' = [phase EXCEPT ![c] = "returned"]
      /\ pending' = Marked(pending, c)
      /\ dropped' = dropped \cup (pending.calls \ pending'.calls)
      /\ UNCHANGED <<known, seen, transform, attempts>>
  BY DEF MarkPending
<1>2. /\ PendingOK(pending') /\ c \in pending'.calls
      /\ pending'.calls \subseteq pending.calls \cup {c}
  BY <1>1, MarkedInShape DEF Types
<1>3. Types'
  <2>1. dropped' \subseteq Calls
    BY <1>1 DEF Types, PendingOK, PendingButFor, PendingRecord
  <2>2. PendingOK(pending)'
    BY <1>2 DEF PendingOK, PendingButFor, InOrder, CallsOf
  <2> QED BY <1>1, <2>1, <2>2 DEF Types
<1>4. \A d \in Calls : SeenOnce(d) => d # c /\ SeenOnce(d)'
  BY <1>1 DEF SeenOnce, Types
<1>5. \A d \in Calls : attempts'[d] > 0 => SeenOnce(d)'
  BY <1>1, <1>4
<1>6. ASSUME NEW d \in Calls, phase'[d] # "new"
      PROVE  d \in pending'.calls \cup dropped' \/ SeenOnce(d)'
  BY <1>1, <1>2, <1>4, <1>6 DEF Types
<1>7. ASSUME NEW t \in Transforms PROVE TransformOK(transform[t])'
  <2>1. transform[t].request \subseteq Calls /\ Left(transform[t]) \subseteq Calls
    BY DEF Types, TransformRecord, Left
  <2>2. \A d \in transform[t].request : SeenOnce(d)
    BY DEF TransformOK
  <2> QED BY <1>1, <1>2, <1>4, <2>1, <2>2, TransformKept
<1>8. Disjoint'
  BY <1>1 DEF Disjoint, IsRunning
<1> QED BY <1>1, <1>3, <1>5, <1>6, <1>7, <1>8

(* The host completes a call.                                              *)
LEMMA CompleteKeeps ==
  ASSUME IInv, NEW c \in Calls, Complete(c)
  PROVE  IInv'
<1> USE DEF IInv
<1>1. /\ phase[c] = "returned" /\ phase' = [phase EXCEPT ![c] = "completed"]
      /\ UNCHANGED <<pending, dropped, known, seen, transform, attempts>>
  BY DEF Complete, pluginVars
<1>2. Types'
  BY <1>1 DEF Types
<1>3. \A d \in Calls : SeenOnce(d) => SeenOnce(d)'
  BY <1>1 DEF SeenOnce, Types
<1>4. \A d \in Calls : attempts'[d] > 0 => SeenOnce(d)'
  BY <1>1, <1>3
<1>5. ASSUME NEW d \in Calls, phase'[d] # "new"
      PROVE  d \in pending'.calls \cup dropped' \/ SeenOnce(d)'
  BY <1>1, <1>3, <1>5 DEF Types
<1>6. ASSUME NEW t \in Transforms PROVE TransformOK(transform[t])'
  <2>1. transform[t].request \subseteq Calls
    BY DEF Types, TransformRecord
  <2>2. \A d \in transform[t].request : SeenOnce(d)
    BY DEF TransformOK
  <2> QED BY <1>1, <1>3, <2>1, <2>2, TransformKept
<1>7. Disjoint'
  BY <1>1 DEF Disjoint, IsRunning
<1> QED BY <1>1, <1>2, <1>4, <1>5, <1>6, <1>7

(* A window opens: it may change the completed calls of a known session    *)
(* that were not seen, and those are pending or were dropped.              *)
LEMMA OpenWindowKeeps ==
  ASSUME IInv, NEW t \in Transforms, NEW s \in Followed, OpenWindow(t, s)
  PROVE  IInv'
<1> USE DEF IInv
<1> DEFINE H == History(s)
           r == [Idle EXCEPT !.pc = "reading", !.session = s, !.request = H,
                             !.live = Unseen(s, H)]
<1>0. s \in Sessions
  BY PluginAssumption DEF Followed
<1>1. /\ Running(s) = {} /\ known' = known \cup {s} /\ seen' = seen \cup H
      /\ transform' = [transform EXCEPT ![t] = r]
      /\ UNCHANGED <<pending, phase, dropped, attempts>>
  BY Zenon DEF OpenWindow
<1>2. /\ H = {c \in Calls : SessionOf[c] = s /\ phase[c] = "completed"}
      /\ Unseen(s, H) \subseteq H
      /\ \A c \in Unseen(s, H) : c \in Calls /\ SessionOf[c] = s /\ phase[c] = "completed"
                                  /\ s \in known /\ c \notin seen
  BY DEF History, Unseen
<1> HIDE DEF H
<1>2a. /\ r.pc = "reading" /\ r.session = s /\ r.request = H /\ r.at = 0
       /\ r.live = Unseen(s, H) /\ r.processed = {}
  BY DEF Idle
<1>2b. r \in TransformRecord
  BY <1>0, <1>2 DEF TransformRecord, Idle
<1> HIDE DEF r
<1>3. /\ transform'[t] = r
      /\ \A u \in Transforms \ {t} : transform'[u] = transform[u]
  BY <1>1 DEF Types
<1>4. \A u \in Transforms : IsRunning(transform[u]) => transform[u].session # s
  BY <1>1 DEF Running, IsRunning
<1>5. Types'
  <2>2. known' \subseteq Sessions /\ seen' \subseteq Calls
    BY <1>0, <1>1, <1>2 DEF Types
  <2>3. transform' \in [Transforms -> TransformRecord]
    BY <1>1, <1>2b DEF Types
  <2> QED BY <1>1, <2>2, <2>3 DEF Types
<1>6. \A c \in seen' : SessionOf[c] \in known'
  BY <1>1, <1>2
<1>7. \A c \in Calls : SeenOnce(c) => SeenOnce(c)'
  BY <1>1, <1>2 DEF SeenOnce
<1>8. \A c \in Calls : attempts'[c] > 0 => SeenOnce(c)'
  BY <1>1, <1>7
<1>9. \A c \in Calls : phase'[c] # "new" =>
        c \in pending'.calls \cup dropped' \/ SeenOnce(c)'
  BY <1>1, <1>7
<1>10. \A c \in Unseen(s, H) : ~SeenOnce(c)
  BY <1>2 DEF SeenOnce
<1>11. ASSUME NEW u \in Transforms PROVE TransformOK(transform[u])'
  <2>1. CASE u = t
    <3>1. transform'[u] = r
      BY <1>3, <2>1
    <3>2. /\ Left(transform[u])' = Unseen(s, H)
          /\ Reached(transform[u])' = {}
      BY <1>2a, <3>1 DEF Left, Reached
    <3>3. \A c \in H : SessionOf[c] = s /\ SeenOnce(c)'
      BY <1>1, <1>2 DEF SeenOnce
    <3>4. \A c \in Unseen(s, H) : attempts'[c] = 0 /\ c \in pending'.calls \cup dropped'
      <4> TAKE c \in Unseen(s, H)
      <4>1. c \in Calls /\ ~SeenOnce(c) /\ phase[c] # "new"
        BY <1>2, <1>10
      <4>2. attempts[c] \in 0 .. 1 /\ ~(attempts[c] > 0)
        BY <4>1 DEF Types
      <4> QED BY <1>1, <4>1, <4>2
    <3>5. /\ transform'[u].pc = "reading" /\ transform'[u].session = s
          /\ transform'[u].request = H /\ transform'[u].live = Unseen(s, H)
          /\ transform'[u].processed = {}
      BY <1>2a, <3>1
    <3> QED BY <1>2, <3>2, <3>3, <3>4, <3>5 DEF TransformOK
  <2>2. CASE u # t
    <3>1. transform'[u] = transform[u]
      BY <1>3, <2>2
    <3>2. transform[u].request \subseteq Calls
      BY DEF Types, TransformRecord
    <3>3. \A c \in transform[u].request : SeenOnce(c)
      BY DEF TransformOK
    <3> QED BY <1>1, <1>7, <3>1, <3>2, <3>3, TransformKept
  <2> QED BY <2>1, <2>2
<1>12. Disjoint'
  <2> SUFFICES ASSUME NEW u \in Transforms, NEW w \in Transforms, u # w,
                      IsRunning(transform'[u])
               PROVE  /\ IsRunning(transform'[w]) => transform'[u].session # transform'[w].session
                      /\ transform'[u].live \cap transform'[w].processed = {}
    BY DEF Disjoint, IsRunning
  <2>1. CASE u = t
    <3>1. transform'[u] = r /\ transform'[w] = transform[w]
      BY <1>3, <2>1
    <3>2. transform[w].processed \subseteq transform[w].request
            /\ \A c \in transform[w].request : SeenOnce(c)
      BY DEF TransformOK
    <3>3. Unseen(s, H) \cap transform[w].processed = {}
      BY <1>10, <3>2
    <3> QED BY <1>4, <1>2a, <3>1, <3>3
  <2>2. CASE w = t
    <3>1. transform'[w] = r /\ transform'[u] = transform[u]
      BY <1>3, <2>2
    <3> QED BY <1>4, <1>2a, <3>1
  <2>3. CASE u # t /\ w # t
    BY <1>3, <2>3 DEF Disjoint
  <2> QED BY <2>1, <2>2, <2>3
<1> QED BY <1>5, <1>6, <1>8, <1>9, <1>11, <1>12

(* A transform that ends owes nothing any more.                            *)
LEMMA EndedKeeps ==
  ASSUME IInv, NEW t \in Transforms, transform' = [transform EXCEPT ![t] = Idle],
         UNCHANGED <<phase, known, seen, dropped, attempts>>,
         PendingOK(pending'),
         \/ pending' = pending
         \/ /\ pending'.calls = pending.calls \ transform[t].processed
            /\ transform[t].pc = "settling"
  PROVE  IInv'
<1> USE DEF IInv
<1>1. /\ transform'[t] = Idle
      /\ \A u \in Transforms \ {t} : transform'[u] = transform[u]
  BY DEF Types
<1>2. Types'
  <2>1. Idle \in TransformRecord
    BY DEF Idle, TransformRecord, None
  <2>2. PendingOK(pending)'
    BY DEF PendingOK, PendingButFor, InOrder, CallsOf
  <2> HIDE DEF Idle
  <2> QED BY <2>1, <2>2 DEF Types
<1>3. \A c \in Calls : SeenOnce(c)' <=> SeenOnce(c)
  BY DEF SeenOnce
<1>4. /\ \A c \in seen' : SessionOf[c] \in known'
      /\ \A c \in Calls : attempts'[c] > 0 => SeenOnce(c)'
  BY <1>3
<1>5. TransformOK(transform[t])
  OBVIOUS
<1>6. ASSUME NEW c \in Calls, phase'[c] # "new"
      PROVE  c \in pending'.calls \cup dropped' \/ SeenOnce(c)'
  <2>1. CASE c \in transform[t].processed
    BY <1>3, <1>5, <2>1 DEF TransformOK
  <2>2. CASE c \notin transform[t].processed
    BY <1>3, <1>6, <2>2
  <2> QED BY <2>1, <2>2
<1>7. ASSUME NEW u \in Transforms PROVE TransformOK(transform[u])'
  <2>1. CASE u = t
    BY <1>1, <2>1 DEF TransformOK, Idle, Left, Reached
  <2>2. CASE u # t
    <3>1. transform'[u] = transform[u] /\ transform[u] \in TransformRecord
      BY <1>1, <2>2 DEF Types
    <3>2. transform[u].request \subseteq Calls
            /\ \A c \in transform[u].request : SeenOnce(c)
      BY <3>1 DEF TransformOK, TransformRecord
    <3>3. \A c \in Left(transform[u]) : c \in pending.calls => c \in pending'.calls
      <4> TAKE c \in Left(transform[u])
      <4>1. IsRunning(transform[u]) /\ c \in transform[u].live
        BY DEF Left, IsRunning
      <4>2. c \notin transform[t].processed
        BY <2>2, <4>1 DEF Disjoint
      <4> QED BY <4>2
    <3> QED BY <1>3, <3>1, <3>2, <3>3, TransformKept
  <2> QED BY <2>1, <2>2
<1>8. Disjoint'
  <2>1. ~IsRunning(transform'[t]) /\ transform'[t].processed = {}
    BY <1>1 DEF IsRunning, Idle
  <2>2. ASSUME NEW u \in Transforms, NEW w \in Transforms, u # w, IsRunning(transform'[u])
        PROVE  /\ IsRunning(transform'[w]) => transform'[u].session # transform'[w].session
               /\ transform'[u].live \cap transform'[w].processed = {}
    BY <1>1, <2>1, <2>2 DEF Disjoint
  <2> QED BY <2>2 DEF Disjoint, IsRunning
<1> QED BY <1>2, <1>4, <1>6, <1>7, <1>8
(* The shape of the pending calls does not change with the step.           *)
LEMMA PendingSame ==
  ASSUME PendingOK(pending), pending' = pending
  PROVE  PendingOK(pending)'
<1>1. PendingOK(pending')
  BY Zenon
<1> QED BY <1>1 DEF PendingOK, PendingButFor, InOrder, CallsOf


(* The loop goes on: the calls it passes are pending no longer or may not  *)
(* be changed, and the one it stops at was never compressed before.        *)
LEMMA ContinueKeeps ==
  ASSUME IInv, NEW t \in Transforms, NEW left,
         IsRunning(transform[t]),
         left = transform[t].request \ Reached(transform[t]),
         Left(transform[t]) = transform[t].live \cap left,
         transform[t].pc = "compressing" => \A c \in left : c > transform[t].at,
         Continue(t, left),
         UNCHANGED <<pending, phase, known, seen, dropped>>
  PROVE  IInv'
<1> USE DEF IInv
<1> DEFINE r == transform[t]
           J == Compressible(r, left)
           s == transform'[t]
<1>1. /\ r \in TransformRecord /\ TransformOK(r)
      /\ left \subseteq r.request /\ r.request \subseteq Calls /\ Calls \subseteq Nat
  BY PluginAssumption DEF Types, TransformRecord
<1>2. J \subseteq Left(r) /\ J \subseteq Calls
  BY <1>1 DEF Compressible
<1>3. \A c \in Left(r) \ J : c \in dropped \cup Unchangeable
  BY <1>1 DEF Compressible, TransformOK
<1>4. J # {} => Min(J) \in J /\ \A c \in J : Min(J) <= c
  <2>1. J \subseteq Nat
    BY <1>1, <1>2
  <2> HIDE DEF J
  <2> QED BY <2>1, MinIsLeast
<1>5. \A u \in Transforms \ {t} : transform'[u] = transform[u]
  BY DEF Continue, Types
<1>6. \A c \in Calls : SeenOnce(c)' <=> SeenOnce(c)
  BY DEF SeenOnce
<1> DEFINE OneMoves ==
      /\ s \in TransformRecord
      /\ s.session = r.session /\ s.request = r.request /\ s.live = r.live
      /\ r.processed \subseteq s.processed /\ s.processed \subseteq r.request
      /\ attempts' \in [Calls -> 0 .. 1]
      /\ TransformOK(transform[t])'
      /\ transform' \in [Transforms -> TransformRecord]
      /\ \A c \in Calls : attempts'[c] = attempts[c] \/ (c \in Left(r) /\ attempts'[c] = 1)
<1> HIDE DEF J
<1>7. ASSUME J = {} PROVE OneMoves
  <2> DEFINE q == [r EXCEPT !.pc = "settling", !.at = 0,
                            !.processed = @ \cup Met(r, left)]
  <2>1. transform' = [transform EXCEPT ![t] = q] /\ attempts' = attempts
    BY <1>7, Zenon DEF Continue, J
  <2>2. Met(r, left) = left \cap pending.calls
    BY DEF Met
  <2>3. /\ q \in TransformRecord /\ q.pc = "settling"
        /\ q.session = r.session /\ q.request = r.request /\ q.live = r.live
        /\ q.processed = r.processed \cup (left \cap pending.calls)
    BY <1>1, <2>2 DEF TransformRecord
  <2> HIDE DEF q
  <2>4. s = q /\ transform' \in [Transforms -> TransformRecord]
    BY <2>1, <2>3 DEF Types
  <2>5. TransformOK(transform[t])'
    <3>1. Left(transform[t])' = {} /\ Reached(transform[t])' = r.request
      BY <2>3, <2>4 DEF Left, Reached
    <3>2. q.live \cup q.processed \subseteq q.request
      BY <1>1, <2>3 DEF TransformOK
    <3>3. \A c \in q.request : SessionOf[c] = q.session /\ SeenOnce(c)'
      BY <1>1, <1>6, <2>3 DEF TransformOK
    <3>4. \A c \in q.live : attempts[c] > 0 \/ c \in dropped \cup Unchangeable
      <4> TAKE c \in q.live
      <4>1. CASE c \in left
        BY <1>3, <1>7, <2>3, <4>1
      <4>2. CASE c \notin left
        BY <1>1, <2>3, <3>2, <4>2 DEF TransformOK
      <4> QED BY <4>1, <4>2
    <3>5. r.request \cap pending.calls \subseteq q.processed
      BY <1>1, <2>3 DEF TransformOK
    <3> QED BY <2>1, <2>3, <2>4, <3>1, <3>2, <3>3, <3>4, <3>5 DEF TransformOK
  <2>6. s.processed \subseteq r.request
    BY <1>1, <2>3, <2>4 DEF TransformOK
  <2> QED BY <2>1, <2>3, <2>4, <2>5, <2>6 DEF Types
<1>8. ASSUME J # {} PROVE OneMoves
  <2> DEFINE m == Min(J)
             met == {c \in left : c <= m}
             q == [r EXCEPT !.pc = "compressing", !.at = m,
                            !.processed = @ \cup Met(r, met)]
  <2>1. transform' = [transform EXCEPT ![t] = q]
          /\ attempts' = [attempts EXCEPT ![m] = @ + 1]
    BY <1>8, Zenon DEF Continue, J
  <2>2. Met(r, met) = met \cap pending.calls
    BY DEF Met
  <2> HIDE DEF m
  <2>3. m \in J /\ m \in Left(r) /\ m \in left /\ m \in Calls /\ m \in Nat
          /\ \A c \in J : m <= c
    BY <1>1, <1>2, <1>4, <1>8 DEF m
  <2>4. /\ q \in TransformRecord /\ q.pc = "compressing" /\ q.at = m
        /\ q.session = r.session /\ q.request = r.request /\ q.live = r.live
        /\ q.processed = r.processed \cup (met \cap pending.calls)
    BY <1>1, <2>2, <2>3 DEF TransformRecord
  <2> HIDE DEF q
  <2>5. s = q /\ transform' \in [Transforms -> TransformRecord]
    BY <2>1, <2>4 DEF Types
  <2>6. attempts[m] = 0
    BY <1>1, <2>3 DEF TransformOK
  <2>7. attempts' \in [Calls -> 0 .. 1] /\ attempts'[m] = 1
          /\ \A c \in Calls \ {m} : attempts'[c] = attempts[c]
    BY <2>1, <2>3, <2>6 DEF Types
  <2>8. /\ \A c \in Reached(r) : c <= m
        /\ \A c \in left : c \notin Reached(r)
    <3>1. r.pc \in {"reading", "compressing"}
      BY DEF IsRunning
    <3>2. r.at \in Nat
      BY <1>1 DEF TransformRecord
    <3>3. \A c \in Reached(r) : r.pc = "compressing" /\ c <= r.at /\ c \in Nat
      BY <1>1, <3>1 DEF Reached
    <3>4. r.pc = "compressing" => m > r.at
      BY <2>3
    <3> HIDE DEF r
    <3> QED BY <2>3, <3>2, <3>3, <3>4 DEF r
  <2>9. TransformOK(transform[t])'
    <3>1. Left(transform[t])' = {c \in r.live : c > m}
            /\ Reached(transform[t])' = {c \in r.request : c <= m}
      BY <2>4, <2>5 DEF Left, Reached
    <3>2. q.live \cup q.processed \subseteq q.request
      BY <1>1, <2>4 DEF TransformOK
    <3>3. \A c \in q.request : SessionOf[c] = q.session /\ SeenOnce(c)'
      BY <1>1, <1>6, <2>4 DEF TransformOK
    <3>4. \A c \in r.live : c > m => attempts'[c] = 0 /\ c \in pending.calls \cup dropped
      <4> SUFFICES ASSUME NEW c \in r.live, c > m
                   PROVE  attempts'[c] = 0 /\ c \in pending.calls \cup dropped
        OBVIOUS
      <4>1. c \in r.request /\ c \in Nat /\ c \in Calls
        BY <1>1 DEF TransformOK
      <4>2. c \in left
        BY <2>3, <2>8, <4>1
      <4>3. c \in Left(r) /\ c # m
        BY <2>3, <4>1, <4>2
      <4> QED BY <1>1, <2>7, <4>1, <4>3 DEF TransformOK
    <3>5. \A c \in r.live : c <= m => attempts'[c] > 0 \/ c \in dropped \cup Unchangeable
      <4> SUFFICES ASSUME NEW c \in r.live, c <= m
                   PROVE  attempts'[c] > 0 \/ c \in dropped \cup Unchangeable
        OBVIOUS
      <4>1. c \in r.request /\ c \in Nat /\ c \in Calls
        BY <1>1 DEF TransformOK
      <4>2. CASE c = m
        BY <2>7, <4>2
      <4>3. CASE c # m /\ c \in left
        <5>1. c \in Left(r) /\ c \notin J
          BY <2>3, <4>1, <4>3
        <5> QED BY <1>3, <5>1
      <4>4. CASE c # m /\ c \notin left
        <5>1. c \in r.live \cap Reached(r)
          BY <4>1, <4>4
        <5>2. attempts[c] > 0 \/ c \in dropped \cup Unchangeable
          BY <1>1, <5>1 DEF TransformOK
        <5> QED BY <2>7, <4>1, <4>4, <5>2
      <4> QED BY <4>2, <4>3, <4>4
    <3>6. {c \in r.request : c <= m} \cap pending.calls \subseteq q.processed
      <4> SUFFICES ASSUME NEW c \in r.request, c <= m, c \in pending.calls
                   PROVE  c \in q.processed
        OBVIOUS
      <4>1. CASE c \in left
        BY <2>4, <4>1
      <4>2. CASE c \notin left
        BY <1>1, <2>4, <4>2 DEF TransformOK
      <4> QED BY <4>1, <4>2
    <3> QED BY <2>4, <2>5, <3>1, <3>2, <3>3, <3>4, <3>5, <3>6 DEF TransformOK
  <2>10. s.processed \subseteq r.request
    BY <1>1, <2>4, <2>5 DEF TransformOK
  <2> QED BY <2>3, <2>4, <2>5, <2>7, <2>9, <2>10
<1>9. OneMoves
  BY <1>7, <1>8
<1> HIDE DEF s
<1>10. Types'
  <2>1. PendingOK(pending)'
    BY PendingSame DEF Types
  <2> QED BY <1>9, <2>1 DEF Types
<1>11. \A c \in Left(r) : c \in r.request /\ SeenOnce(c)
  BY <1>1 DEF TransformOK, Left
<1>12. \A c \in Calls : attempts'[c] > 0 => SeenOnce(c)'
  BY <1>6, <1>9, <1>11
<1>13. \A c \in Calls : phase'[c] # "new" =>
         c \in pending'.calls \cup dropped' \/ SeenOnce(c)'
  BY <1>6
<1>14. ASSUME NEW u \in Transforms PROVE TransformOK(transform[u])'
  <2>1. CASE u = t
    BY <1>9, <2>1
  <2>2. CASE u # t
    <3>1. transform'[u] = transform[u] /\ TransformOK(transform[u])
      BY <1>5, <2>2
    <3>2. transform[u].request \subseteq Calls
            /\ \A c \in transform[u].request : SeenOnce(c)
      BY <3>1 DEF TransformOK, Types, TransformRecord
    <3>3. \A c \in Left(transform[u]) : c \notin Left(r)
      <4> SUFFICES ASSUME NEW c \in Left(transform[u]), c \in Left(r) PROVE FALSE
        OBVIOUS
      <4>1. IsRunning(transform[u]) /\ c \in transform[u].request
        BY <3>1 DEF Left, IsRunning, TransformOK
      <4>2. SessionOf[c] = transform[u].session /\ SessionOf[c] = r.session
        BY <1>1, <1>11, <3>1, <4>1 DEF TransformOK
      <4> QED BY <2>2, <4>1, <4>2 DEF Disjoint
    <3>4. \A c \in transform[u].request :
            attempts'[c] = attempts[c] \/ (c \notin Left(transform[u]) /\ attempts'[c] > 0)
      BY <1>9, <3>2, <3>3
    <3> QED BY <1>6, <3>1, <3>2, <3>4, TransformKept
  <2> QED BY <2>1, <2>2
<1>15. Disjoint'
  <2> SUFFICES ASSUME NEW u \in Transforms, NEW w \in Transforms, u # w,
                      IsRunning(transform'[u])
               PROVE  /\ IsRunning(transform'[w]) => transform'[u].session # transform'[w].session
                      /\ transform'[u].live \cap transform'[w].processed = {}
    BY DEF Disjoint, IsRunning
  <2>1. \A x \in Transforms : /\ transform'[x].session = transform[x].session
                              /\ transform'[x].live = transform[x].live
                              /\ transform'[x].request = transform[x].request
                              /\ IsRunning(transform'[x]) => IsRunning(transform[x])
    BY <1>5, <1>9 DEF s
  <2>2. transform[u].session # transform[w].session \/ ~IsRunning(transform[w])
    BY <2>1 DEF Disjoint
  <2>3. IsRunning(transform'[w]) => transform'[u].session # transform'[w].session
    BY <2>1, <2>2
  <2>4. transform'[u].live \cap transform'[w].processed = {}
    <3>1. CASE w # t
      BY <1>5, <2>1, <3>1 DEF Disjoint
    <3>2. CASE w = t
      <4>1. transform[u].session # r.session
        BY <2>2, <3>2
      <4>2. transform'[w].processed \subseteq r.request
        BY <1>9, <3>2 DEF s
      <4>3. \A c \in transform[u].live : SessionOf[c] = transform[u].session
        BY DEF TransformOK
      <4>4. \A c \in r.request : SessionOf[c] = r.session
        BY <1>1 DEF TransformOK
      <4> QED BY <2>1, <4>1, <4>2, <4>3, <4>4
    <3> QED BY <3>1, <3>2
  <2> QED BY <2>3, <2>4
<1> QED BY <1>10, <1>12, <1>13, <1>14, <1>15

(* The loop starts after readLifecycle.apply, and goes on after a fallback. *)
LEMMA LoopStepsKeep ==
  ASSUME IInv, NEW t \in Transforms, ReadLifecycleReturns(t) \/ FallbackReturns(t)
  PROVE  IInv'
<1> DEFINE r == transform[t]
<1>1. /\ r \in TransformRecord /\ r.live \subseteq r.request
      /\ r.request \subseteq Calls /\ Calls \subseteq Nat /\ r.at \in Nat
  BY PluginAssumption DEF IInv, Types, TransformRecord, TransformOK
<1>2. CASE ReadLifecycleReturns(t)
  <2>1. /\ r.pc = "reading" /\ Continue(t, r.request)
        /\ UNCHANGED <<pending, phase, known, seen, dropped>>
    BY <1>2, Zenon DEF ReadLifecycleReturns
  <2>2. Left(r) = r.live /\ Reached(r) = {} /\ IsRunning(r)
    BY <2>1 DEF Left, Reached, IsRunning
  <2>3. r.request = r.request \ Reached(r) /\ Left(r) = r.live \cap r.request
    BY <1>1, <2>2
  <2> HIDE DEF Continue, Left, Reached
  <2> QED BY <2>1, <2>2, <2>3, ContinueKeeps
<1>3. CASE FallbackReturns(t)
  <2> DEFINE left == {c \in r.request : c > r.at}
  <2>1. /\ r.pc = "compressing" /\ Continue(t, left)
        /\ UNCHANGED <<pending, phase, known, seen, dropped>>
    BY <1>3, Zenon DEF FallbackReturns
  <2>2. left = r.request \ Reached(r) /\ Left(r) = r.live \cap left
    <3>1. r.pc = "compressing"
      BY <2>1
    <3>2. \A c \in r.request : c \in Nat /\ r.at \in Nat /\ (c > r.at <=> ~(c <= r.at))
      <4>1. r.at \in Nat /\ \A c \in r.request : c \in Nat
        BY <1>1
      <4>2. \A a, c \in Nat : c > a <=> ~(c <= a)
        OBVIOUS
      <4> QED BY <4>1, <4>2
    <3>3. left = r.request \ Reached(r)
      <4>1. \A c \in r.request : c \in Reached(r) <=> c <= r.at
        BY <3>1 DEF Reached
      <4>2. left \subseteq r.request /\ \A c \in r.request : c \in left <=> c > r.at
        OBVIOUS
      <4> HIDE DEF left
      <4> QED BY <3>2, <4>1, <4>2
    <3>4. Left(r) = r.live \cap left
      BY <1>1, <3>1 DEF Left
    <3> QED BY <3>3, <3>4
  <2>3. IsRunning(r) /\ \A c \in left : c > r.at
    BY <2>1 DEF IsRunning
  <2> HIDE DEF left
  <2> QED BY <2>1, <2>2, <2>3, ContinueKeeps
<1> QED BY <1>2, <1>3

(* A transform fails, or removes the calls it has processed.               *)
LEMMA EndStepsKeep ==
  ASSUME IInv, NEW t \in Transforms, ReadLifecycleThrows(t) \/ Settle(t)
  PROVE  IInv'
<1>1. CASE ReadLifecycleThrows(t)
  <2>1. /\ transform' = [transform EXCEPT ![t] = Idle]
        /\ UNCHANGED <<pending, phase, known, seen, dropped, attempts>>
    BY <1>1 DEF ReadLifecycleThrows
  <2>2. PendingOK(pending')
    BY <2>1 DEF IInv, Types
  <2> QED BY <2>1, <2>2, EndedKeeps
<1>2. CASE Settle(t)
  <2>1. /\ transform[t].pc = "settling" /\ transform' = [transform EXCEPT ![t] = Idle]
        /\ pending' = Deleted(pending, transform[t].processed)
        /\ UNCHANGED <<phase, known, seen, dropped, attempts>>
    BY <1>2 DEF Settle
  <2>2. PendingOK(pending') /\ pending'.calls = pending.calls \ transform[t].processed
    BY <2>1, DeletedInShape DEF IInv, Types
  <2> QED BY <2>1, <2>2, EndedKeeps
<1> QED BY <1>1, <1>2

(* Sessions are forgotten, by a deletion, an eviction or a disposal: none  *)
(* of them has a running transform, and what is no longer pending was      *)
(* dropped.                                                                *)
LEMMA ForgettingKeeps ==
  ASSUME IInv, NEW S, UNCHANGED <<transform, phase, attempts>>,
         \A t \in Transforms : IsRunning(transform[t]) => transform[t].session \notin S,
         PendingOK(pending'), pending'.calls \subseteq pending.calls,
         dropped' \subseteq Calls,
         dropped \cup (pending.calls \ pending'.calls) \subseteq dropped',
         known' = known \ S, seen' = {c \in seen : SessionOf[c] \notin S}
  PROVE  IInv'
<1> USE DEF IInv
<1>1. Types'
  <2>1. PendingOK(pending)'
    BY DEF PendingOK, PendingButFor, InOrder, CallsOf
  <2> QED BY <2>1 DEF Types
<1>2. \A c \in Calls : SeenOnce(c) => SeenOnce(c)'
  BY DEF SeenOnce
<1>3. \A c \in seen' : SessionOf[c] \in known'
  OBVIOUS
<1>4. \A c \in Calls : attempts'[c] > 0 => SeenOnce(c)'
  BY <1>2
<1>5. \A c \in Calls : phase'[c] # "new" =>
        c \in pending'.calls \cup dropped' \/ SeenOnce(c)'
  BY <1>2
<1>6. ASSUME NEW t \in Transforms PROVE TransformOK(transform[t])'
  <2>1. transform[t].request \subseteq Calls
    BY DEF Types, TransformRecord
  <2>2. \A c \in transform[t].request : SeenOnce(c)
    BY DEF TransformOK
  <2> QED BY <1>2, <2>1, <2>2, TransformKept
<1>7. Disjoint'
  BY DEF Disjoint, IsRunning
<1> QED BY <1>1, <1>3, <1>4, <1>5, <1>6, <1>7

(* session.deleted, and the eviction of a session's records.               *)
LEMMA SessionForgottenKeeps ==
  ASSUME IInv, NEW s \in Sessions, DeleteSession(s) \/ Evict(s)
  PROVE  IInv'
<1>1. /\ Running(s) = {} /\ UNCHANGED <<transform, phase, attempts>>
      /\ known' = known \ {s} /\ seen' = {c \in seen : SessionOf[c] # s}
      /\ \/ pending' = Without(pending, s)
              /\ dropped' = dropped \cup (pending.calls \ pending'.calls)
         \/ UNCHANGED <<pending, dropped>>
  BY Zenon DEF DeleteSession, Evict
<1>2. \A t \in Transforms : IsRunning(transform[t]) => transform[t].session \notin {s}
  BY <1>1 DEF Running, IsRunning
<1>3. PendingOK(pending) /\ dropped \subseteq Calls /\ pending.calls \subseteq Calls
  BY DEF IInv, Types, PendingOK, PendingButFor, PendingRecord
<1>4. PendingOK(pending') /\ pending'.calls \subseteq pending.calls
  BY <1>1, <1>3, WithoutInShape
<1>5. /\ dropped' \subseteq Calls
      /\ dropped \cup (pending.calls \ pending'.calls) \subseteq dropped'
  BY <1>1, <1>3
<1>6. seen' = {c \in seen : SessionOf[c] \notin {s}}
  BY <1>1
<1> QED BY <1>1, <1>2, <1>4, <1>5, <1>6, ForgettingKeeps

(* With nothing pending, the pending calls are in shape.                   *)
LEMMA NothingPendingInShape == PendingOK(NothingPending)
<1>1. /\ NothingPending.sessions = {} /\ NothingPending.calls = {}
      /\ NothingPending.sessionOrder = {} /\ NothingPending.callOrder = {}
      /\ NothingPending \in PendingRecord
  BY DEF NothingPending, PendingRecord
<1>2. IsFiniteSet({}) /\ Cardinality({}) = 0 /\ 0 <= MaxPendingSessions
  BY FS_EmptySet, PluginAssumption
<1> HIDE DEF NothingPending
<1> QED BY <1>1, <1>2 DEF PendingOK, PendingButFor, InOrder

(* dispose, once no transform runs.                                        *)
LEMMA DisposeKeeps ==
  ASSUME IInv, Dispose
  PROVE  IInv'
<1>1. /\ \A s \in Sessions : Running(s) = {}
      /\ pending' = NothingPending /\ known' = {} /\ seen' = {}
      /\ dropped' = dropped \cup pending.calls
      /\ UNCHANGED <<transform, phase, attempts>>
  BY Zenon DEF Dispose
<1>2. \A t \in Transforms : IsRunning(transform[t]) => transform[t].session \notin Sessions
  BY <1>1 DEF Running, IsRunning
<1>3. pending.calls \subseteq Calls /\ dropped \subseteq Calls /\ seen \subseteq Calls
        /\ known \subseteq Sessions
  BY DEF IInv, Types, PendingOK, PendingButFor, PendingRecord
<1>4. PendingOK(pending') /\ pending'.calls = {}
  BY <1>1, NothingPendingInShape DEF NothingPending
<1>5. /\ dropped' \subseteq Calls
      /\ dropped \cup (pending.calls \ pending'.calls) \subseteq dropped'
  BY <1>1, <1>3, <1>4
<1>6. known' = known \ Sessions /\ seen' = {c \in seen : SessionOf[c] \notin Sessions}
  BY <1>1, <1>3, PluginAssumption
<1> QED BY <1>1, <1>2, <1>4, <1>5, <1>6, ForgettingKeeps
-----------------------------------------------------------------------------
(* The invariant holds at the start.                                       *)
LEMMA InitIInv ==
  ASSUME Init
  PROVE  IInv
<1>1. /\ pending = NothingPending /\ phase = [c \in Calls |-> "new"]
      /\ known = {} /\ seen = {} /\ transform = [t \in Transforms |-> Idle]
      /\ attempts = [c \in Calls |-> 0] /\ dropped = {}
  BY DEF Init
<1>2. Idle \in TransformRecord
  BY DEF Idle, TransformRecord, None
<1>3. Types
  BY <1>1, <1>2, NothingPendingInShape DEF Types
<1>4. ASSUME NEW t \in Transforms PROVE TransformOK(transform[t])
  BY <1>1 DEF TransformOK, Idle, Left, Reached
<1>5. Disjoint
  BY <1>1 DEF Disjoint, IsRunning, Idle
<1> QED BY <1>1, <1>3, <1>4, <1>5 DEF IInv

(* Every step keeps it.                                                    *)
LEMMA NextIInv ==
  ASSUME IInv, [Next]_vars
  PROVE  IInv'
<1>1. CASE UNCHANGED vars
  BY <1>1, UnaffectedKeeps DEF vars, pluginVars
<1>2. ASSUME NEW c \in Calls, MarkPending(c) \/ Complete(c) PROVE IInv'
  BY <1>2, MarkPendingKeeps, CompleteKeeps
<1>3. ASSUME NEW t \in Transforms, NEW s \in Followed, OpenWindow(t, s) PROVE IInv'
  BY <1>3, OpenWindowKeeps
<1>4. ASSUME NEW t \in Transforms, ReadLifecycleReturns(t) \/ FallbackReturns(t)
      PROVE  IInv'
  BY <1>4, LoopStepsKeep
<1>5. ASSUME NEW t \in Transforms, ReadLifecycleThrows(t) \/ Settle(t) PROVE IInv'
  BY <1>5, EndStepsKeep
<1>6. ASSUME NEW h \in Hooks, StartHook(h) \/ FinishHook(h) PROVE IInv'
  <2>1. UNCHANGED <<pending, phase, known, seen, dropped, transform, attempts>>
    BY <1>6, Zenon DEF StartHook, FinishHook, pluginVars
  <2> QED BY <2>1, UnaffectedKeeps
<1>7. ASSUME NEW call \in RetrievalCalls, Retrieve(call) \/ RetrieveThrows(call)
      PROVE  IInv'
  <2>1. UNCHANGED <<pending, phase, known, seen, dropped, transform, attempts>>
    BY <1>7, Zenon DEF Retrieve, RetrieveThrows, pluginVars
  <2> QED BY <2>1, UnaffectedKeeps
<1>8. ASSUME NEW s \in Sessions, DeleteSession(s) \/ Evict(s) PROVE IInv'
  BY <1>8, SessionForgottenKeeps
<1>9. ASSUME CloseAndDrain PROVE IInv'
  <2>1. UNCHANGED <<pending, phase, known, seen, dropped, transform, attempts>>
    BY <1>9, Zenon DEF CloseAndDrain
  <2> QED BY <2>1, UnaffectedKeeps
<1>10. ASSUME Dispose PROVE IInv'
  BY <1>10, DisposeKeeps
<1> QED BY <1>1, <1>2, <1>3, <1>4, <1>5, <1>6, <1>7, <1>8, <1>9, <1>10, Zenon DEF Next
-----------------------------------------------------------------------------
(* IInv is an inductive invariant of the hooks.                            *)
THEOREM Inductive == Spec => []IInv
<1>1. Init => IInv
  BY InitIInv
<1>2. IInv /\ [Next]_vars => IInv'
  BY NextIInv
<1> QED BY <1>1, <1>2, PTL DEF Spec

(* Both limits of the pending calls hold, each call is listed once under   *)
(* its own session, and no session is listed without calls.                *)
THEOREM TypeCorrect == Spec => []TypeOK
<1>1. ASSUME IInv PROVE TypeOK
  <2>1. /\ pending.sessions \subseteq Sessions /\ pending.calls \subseteq Calls
        /\ pending.sessions = {SessionOf[c] : c \in pending.calls}
        /\ Cardinality(pending.sessions) <= MaxPendingSessions
        /\ InOrder(pending.sessionOrder, pending.sessions)
        /\ \A s \in pending.sessions :
             /\ Cardinality(CallsOf(pending, s)) <= MaxPendingCalls
             /\ InOrder(pending.callOrder, CallsOf(pending, s))
    BY <1>1 DEF IInv, Types, PendingOK, PendingButFor, PendingRecord
  <2>2. \A t \in Transforms :
          /\ transform[t].pc \in {"idle", "reading", "compressing", "settling"}
          /\ transform[t].live \cup transform[t].processed \subseteq transform[t].request
    BY <1>1 DEF IInv, Types, TransformRecord, TransformOK
  <2> QED BY <1>1, <2>1, <2>2 DEF IInv, Types, TypeOK
<1> QED BY <1>1, Inductive, PTL

(* The fallback compresses the output of a call at most once.              *)
THEOREM CompressedOnce == Spec => []OncePerCall
<1>1. IInv => OncePerCall
  BY DEF IInv, Types, OncePerCall
<1> QED BY <1>1, Inductive, PTL

(* No call a transform may change is missed.                               *)
THEOREM NothingMissed == Spec => []NoCallLost
<1>1. IInv => NoCallLost
  <2> SUFFICES ASSUME IInv, NEW t \in Transforms, transform[t].pc = "settling",
                      NEW c \in transform[t].live
               PROVE  attempts[c] > 0 \/ c \in dropped \cup Unchangeable
    BY DEF NoCallLost
  <2>1. TransformOK(transform[t])
    BY DEF IInv
  <2>2. c \in Reached(transform[t])
    BY <2>1 DEF TransformOK, Reached
  <2> QED BY <2>1, <2>2 DEF TransformOK
<1> QED BY <1>1, Inductive, PTL

(* A transform that has succeeded leaves none of its calls pending.        *)
THEOREM Settled == Spec => SettledLeavesNothing
<1> DEFINE Step == \A t \in Transforms :
              transform[t].pc = "settling" /\ transform'[t] # transform[t]
                => pending'.calls \cap transform[t].request = {}
<1>1. ASSUME IInv, [Next]_vars PROVE [Step]_vars
  <2> SUFFICES ASSUME Next, NEW t \in Transforms, transform[t].pc = "settling",
                      transform'[t] # transform[t]
               PROVE  pending'.calls \cap transform[t].request = {}
    BY <1>1
  <2>1. transform \in [Transforms -> TransformRecord]
    BY <1>1 DEF IInv, Types
  <2>2. ASSUME NEW u \in Transforms, NEW r, transform' = [transform EXCEPT ![u] = r]
        PROVE  u = t
    BY <2>1, <2>2
  <2>3. ASSUME transform' = transform PROVE FALSE
    BY <2>3
  <2>4. Settle(t)
    <3>1. ASSUME NEW u \in Transforms, NEW s \in Followed, OpenWindow(u, s) PROVE FALSE
      <4>1. transform[u].pc = "idle" /\ \E r : transform' = [transform EXCEPT ![u] = r]
        BY <3>1, Zenon DEF OpenWindow
      <4> QED BY <2>2, <4>1
    <3>2. ASSUME NEW u \in Transforms, ReadLifecycleThrows(u) PROVE FALSE
      <4>1. transform[u].pc = "reading" /\ \E r : transform' = [transform EXCEPT ![u] = r]
        BY <3>2, Zenon DEF ReadLifecycleThrows
      <4> QED BY <2>2, <4>1
    <3>3. ASSUME NEW u \in Transforms, ReadLifecycleReturns(u) PROVE FALSE
      <4>1. transform[u].pc = "reading" /\ \E r : transform' = [transform EXCEPT ![u] = r]
        BY <3>3, Zenon DEF ReadLifecycleReturns, Continue
      <4> QED BY <2>2, <4>1
    <3>4. ASSUME NEW u \in Transforms, FallbackReturns(u) PROVE FALSE
      <4>1. transform[u].pc = "compressing" /\ \E r : transform' = [transform EXCEPT ![u] = r]
        BY <3>4, Zenon DEF FallbackReturns, Continue
      <4> QED BY <2>2, <4>1
    <3>5. ASSUME NEW u \in Transforms, Settle(u) PROVE Settle(t)
      <4>1. transform' = [transform EXCEPT ![u] = Idle]
        BY <3>5 DEF Settle
      <4> QED BY <2>2, <3>5, <4>1
    <3>6. ASSUME NEW c \in Calls, MarkPending(c) \/ Complete(c) PROVE FALSE
      BY <2>3, <3>6, Zenon DEF MarkPending, Complete, pluginVars
    <3>7. ASSUME NEW h \in Hooks, StartHook(h) \/ FinishHook(h) PROVE FALSE
      BY <2>3, <3>7, Zenon DEF StartHook, FinishHook, pluginVars
    <3>8. ASSUME NEW call \in RetrievalCalls, Retrieve(call) \/ RetrieveThrows(call)
          PROVE  FALSE
      BY <2>3, <3>8, Zenon DEF Retrieve, RetrieveThrows, pluginVars
    <3>9. ASSUME NEW s \in Sessions, DeleteSession(s) \/ Evict(s) PROVE FALSE
      BY <2>3, <3>9, Zenon DEF DeleteSession, Evict
    <3>10. ASSUME CloseAndDrain \/ Dispose PROVE FALSE
      BY <2>3, <3>10, Zenon DEF CloseAndDrain, Dispose
    <3> QED BY <3>1, <3>2, <3>3, <3>4, <3>5, <3>6, <3>7, <3>8, <3>9, <3>10, Zenon
            DEF Next
  <2>5. TransformOK(transform[t]) /\ PendingOK(pending)
    BY <1>1 DEF IInv, Types
  <2>6. Reached(transform[t]) = transform[t].request
    BY DEF Reached
  <2>7. transform[t].request \cap pending.calls \subseteq transform[t].processed
    BY <2>5, <2>6 DEF TransformOK
  <2>8. pending'.calls = pending.calls \ transform[t].processed
    BY <2>4, <2>5, DeletedInShape DEF Settle
  <2> QED BY <2>7, <2>8
<1> QED BY <1>1, Inductive, PTL DEF Spec, SettledLeavesNothing
-----------------------------------------------------------------------------
(* The element a fold of the library takes next.                           *)
Pick(S) == CHOOSE x \in S : TRUE

(* Induction, for a set of naturals.                                       *)
LEMMA Induction ==
  ASSUME NEW T, T \subseteq Nat, 0 \in T, \A n \in T : n + 1 \in T
  PROVE  T = Nat
<1>1. SUFFICES ASSUME Nat \ T # {} PROVE FALSE
  OBVIOUS
<1>2. PICK n \in Nat \ T : \A y \in Nat \ T : n <= y
  BY <1>1, LeastNat
<1>3. n # 0 /\ n - 1 \in Nat /\ n - 1 < n /\ n - 1 + 1 = n
  BY <1>2
<1>4. n - 1 \in T
  BY <1>2, <1>3
<1> QED BY <1>2, <1>3, <1>4

(* Induction on the subsets of a finite set: a collection of them that has *)
(* the empty one, and every one all of whose subsets with an element less  *)
(* it has, has them all.                                                   *)
LEMMA SubsetInduction ==
  ASSUME NEW D, IsFiniteSet(D), NEW C, {} \in C,
         \A S \in SUBSET D : S # {} /\ (\A x \in S : S \ {x} \in C) => S \in C
  PROVE  SUBSET D \subseteq C
<1> DEFINE T == {n \in Nat : \A S \in SUBSET D : Cardinality(S) = n => S \in C}
<1>1. \A S \in SUBSET D : IsFiniteSet(S) /\ Cardinality(S) \in Nat
  BY FS_Subset, FS_CardinalityType
<1>2. 0 \in T
  BY <1>1, FS_EmptySet
<1>3. \A n \in T : n + 1 \in T
  <2> SUFFICES ASSUME NEW n \in T, NEW S \in SUBSET D, Cardinality(S) = n + 1
               PROVE  S \in C
    OBVIOUS
  <2>0. n \in Nat /\ Cardinality({}) = 0
    BY FS_EmptySet
  <2>1. S # {}
    BY <2>0
  <2>2. ASSUME NEW x \in S PROVE S \ {x} \in C
    <3>1. Cardinality(S \ {x}) = Cardinality(S) - 1
      BY <1>1, FS_RemoveElement
    <3>2. Cardinality(S \ {x}) = n
      BY <2>0, <3>1
    <3> QED BY <3>2
  <2> QED BY <2>1, <2>2
<1>4. T = Nat
  <2>1. T \subseteq Nat
    OBVIOUS
  <2> HIDE DEF T
  <2> QED BY <1>2, <1>3, <2>1, Induction
<1> QED BY <1>1, <1>4

(* h is the fold of G over the subsets of D, and takes any element next.   *)
IsFold(D, V, base, G, h) ==
  /\ h \in [SUBSET D -> V]
  /\ \A S \in SUBSET D : h[S] = IF S = {} THEN base ELSE G[<<Pick(S), h[S \ {Pick(S)}]>>]
AnyNext(D, V, G, h) ==
  \A S \in SUBSET D : h[S] \in V /\ \A x \in S : h[S] = G[<<x, h[S \ {x}]>>]

(* A fold over a finite set exists: it is built one size of its subsets    *)
(* after the other.                                                        *)
LEMMA FoldExists ==
  ASSUME NEW D, IsFiniteSet(D), NEW V, NEW base \in V, NEW G \in [D \X V -> V]
  PROVE  \E h : IsFold(D, V, base, G, h)
<1> DEFINE Sized(n) == {S \in SUBSET D : Cardinality(S) <= n}
           Folds(h, S) == h[S] = IF S = {} THEN base ELSE G[<<Pick(S), h[S \ {Pick(S)}]>>]
           T == {n \in Nat : \E h \in [Sized(n) -> V] : \A S \in Sized(n) : Folds(h, S)}
<1>1. \A S \in SUBSET D : IsFiniteSet(S) /\ Cardinality(S) \in Nat
  BY FS_Subset, FS_CardinalityType
<1>2. ASSUME NEW S \in SUBSET D, S # {}
      PROVE  /\ Pick(S) \in D /\ S \ {Pick(S)} \in SUBSET D
             /\ Cardinality(S \ {Pick(S)}) = Cardinality(S) - 1
  <2>1. Pick(S) \in S
    BY <1>2 DEF Pick
  <2> QED BY <1>1, <2>1, FS_RemoveElement
<1>3. 0 \in T
  <2>1. \A S \in Sized(0) : S = {}
    BY <1>1, FS_EmptySet
  <2> DEFINE h == [S \in Sized(0) |-> base]
  <2>2. h \in [Sized(0) -> V] /\ \A S \in Sized(0) : Folds(h, S)
    BY <2>1
  <2> QED BY <2>2
<1>4. \A n \in T : n + 1 \in T
  <2> TAKE n \in T
  <2>1. PICK f \in [Sized(n) -> V] : \A S \in Sized(n) : Folds(f, S)
    OBVIOUS
  <2> DEFINE h == [S \in Sized(n + 1) |->
                     IF S \in Sized(n) THEN f[S] ELSE G[<<Pick(S), f[S \ {Pick(S)}]>>]]
  <2>2. n \in Nat
    OBVIOUS
  <2>3. ASSUME NEW S \in Sized(n + 1), S # {}
        PROVE  S \ {Pick(S)} \in Sized(n) /\ S \ {Pick(S)} \in Sized(n + 1) /\ Pick(S) \in D
    BY <1>1, <1>2, <2>2, <2>3
  <2>4. ASSUME NEW S \in Sized(n + 1), S \notin Sized(n)
        PROVE  S # {}
    <3>1. Cardinality({}) = 0 /\ 0 <= n
      BY <2>2, FS_EmptySet
    <3> QED BY <2>4, <3>1
  <2>5. \A S \in Sized(n) : S \in Sized(n + 1)
    BY <1>1, <2>2
  <2> HIDE DEF Sized
  <2>6. h \in [Sized(n + 1) -> V]
    BY <2>3, <2>4
  <2>7. ASSUME NEW S \in Sized(n + 1) PROVE Folds(h, S)
    <3>1. CASE S \in Sized(n)
      BY <2>1, <2>3, <2>5, <3>1
    <3>2. CASE S \notin Sized(n)
      BY <2>3, <2>4, <3>2
    <3> QED BY <3>1, <3>2
  <2>8. \E g \in [Sized(n + 1) -> V] : \A S \in Sized(n + 1) : Folds(g, S)
    <3> HIDE DEF h, Folds
    <3> QED BY <2>6, <2>7
  <2>9. n + 1 \in Nat
    BY <2>2
  <2> HIDE DEF Folds, h
  <2> QED BY <2>8, <2>9
<1>5. T = Nat
  <2>1. T \subseteq Nat
    OBVIOUS
  <2> HIDE DEF T
  <2> QED BY <1>3, <1>4, <2>1, Induction
<1>6. Cardinality(D) \in T
  BY <1>1, <1>5
<1>7. \A S \in SUBSET D : Cardinality(S) <= Cardinality(D)
  BY FS_Subset
<1>8. Sized(Cardinality(D)) = SUBSET D
  BY <1>7
<1> HIDE DEF Sized
<1> QED BY <1>6, <1>8 DEF IsFold

(* Where the order does not matter, a fold may take any element next.      *)
LEMMA FoldSteps ==
  ASSUME NEW D, IsFiniteSet(D), NEW V, NEW base \in V, NEW G \in [D \X V -> V],
         \A x, y \in D : \A v \in V : G[<<x, G[<<y, v>>]>>] = G[<<y, G[<<x, v>>]>>],
         NEW h, h[{}] = base,
         \A S \in SUBSET D : S # {} /\ h[S \ {Pick(S)}] \in V
           => h[S] = G[<<Pick(S), h[S \ {Pick(S)}]>>]
  PROVE  AnyNext(D, V, G, h)
<1> DEFINE C == {S \in SUBSET D :
                    h[S] \in V /\ \A x \in S : /\ h[S \ {x}] \in V
                                               /\ h[S] = G[<<x, h[S \ {x}]>>]}
<1>1. {} \in C
  OBVIOUS
<1>2. ASSUME NEW S \in SUBSET D, S # {}, \A x \in S : S \ {x} \in C
      PROVE  S \in C
  <2> DEFINE p == Pick(S)
  <2>1. p \in S
    BY <1>2 DEF Pick
  <2> HIDE DEF p
  <2>2. h[S \ {p}] \in V
    BY <1>2, <2>1
  <2>3. h[S] = G[<<p, h[S \ {p}]>>]
    BY <1>2, <2>2 DEF p
  <2>4. h[S] \in V
    BY <2>1, <2>2, <2>3
  <2>5. ASSUME NEW x \in S
        PROVE  h[S] = G[<<x, h[S \ {x}]>>]
    <3>1. CASE x = p
      BY <2>3, <3>1
    <3>2. CASE x # p
      <4> DEFINE r == S \ {p, x}
      <4>1. /\ (S \ {p}) \ {x} = r /\ (S \ {x}) \ {p} = r
            /\ x \in S \ {p} /\ p \in S \ {x}
        <5>1. x # p /\ x \in S /\ p \in S
          BY <2>1, <3>2
        <5> QED BY <5>1
      <4>a. S \ {p} \in C /\ S \ {x} \in C
        BY <1>2, <2>1
      <4>b. \A y \in S \ {p} : /\ h[(S \ {p}) \ {y}] \in V
                               /\ h[S \ {p}] = G[<<y, h[(S \ {p}) \ {y}]>>]
        BY <4>a
      <4>c. \A y \in S \ {x} : h[S \ {x}] = G[<<y, h[(S \ {x}) \ {y}]>>]
        BY <4>a
      <4>2. h[S \ {p}] = G[<<x, h[r]>>] /\ h[S \ {x}] = G[<<p, h[r]>>]
        <5> HIDE DEF r
        <5>1. h[S \ {p}] = G[<<x, h[(S \ {p}) \ {x}]>>]
          BY <4>1, <4>b, Zenon
        <5>2. h[S \ {x}] = G[<<p, h[(S \ {x}) \ {p}]>>]
          BY <4>1, <4>c, Zenon
        <5> QED BY <4>1, <5>1, <5>2, Zenon
      <4>3. h[r] \in V
        <5> HIDE DEF r
        <5> QED BY <4>1, <4>b, Zenon
      <4>4. x \in D /\ p \in D
        BY <2>1
      <4> HIDE DEF r
      <4> QED BY <2>3, <4>2, <4>3, <4>4
    <3> QED BY <3>1, <3>2
  <2>6. \A x \in S : h[S \ {x}] \in V
    BY <1>2
  <2> HIDE DEF p
  <2> QED BY <2>4, <2>5, <2>6
<1>3. SUBSET D \subseteq C
  <2> HIDE DEF C
  <2> QED BY <1>1, <1>2, SubsetInduction
<1> QED BY <1>3 DEF AnyNext

(* Two folds that start and go on alike are the same.                      *)
LEMMA FoldUnique ==
  ASSUME NEW D, IsFiniteSet(D), NEW h, NEW k, h[{}] = k[{}],
         \A S \in SUBSET D : \A x \in S : h[S \ {x}] = k[S \ {x}] => h[S] = k[S]
  PROVE  h[D] = k[D]
<1> DEFINE C == {S \in SUBSET D : h[S] = k[S]}
<1>1. {} \in C
  OBVIOUS
<1>2. ASSUME NEW S \in SUBSET D, S # {}, \A x \in S : S \ {x} \in C PROVE S \in C
  BY <1>2
<1>3. SUBSET D \subseteq C
  <2> HIDE DEF C
  <2> QED BY <1>1, <1>2, SubsetInduction
<1> QED BY <1>3
-----------------------------------------------------------------------------
(* h holds the totals of f over the subsets of its domain.                 *)
AddsUp(f, D, h) ==
  /\ Total(f) = h[D] /\ h[{}] = 0
  /\ \A S \in SUBSET D : h[S] \in Int /\ \A x \in S : h[S] = f[x] + h[S \ {x}]

(* The total of a function over a finite domain, one element at a time.    *)
LEMMA SumSteps ==
  ASSUME NEW D, IsFiniteSet(D), NEW f \in [D -> Int]
  PROVE  \E h : AddsUp(f, D, h)
<1> DEFINE IsSum(g) ==
             g = [S \in SUBSET D |-> IF S = {} THEN 0 ELSE f[Pick(S)] + g[S \ {Pick(S)}]]
           G == [d \in D \X Int |-> f[d[1]] + d[2]]
           h == CHOOSE g : IsSum(g)
<1>0. 0 \in Int
  OBVIOUS
<1>1. Total(f) = h[D]
  <2>1. DOMAIN f = D
    OBVIOUS
  <2>2. Total(f) = SumFunctionOnSet(f, D)
    BY <2>1 DEF Total, SumFunction
  <2> QED BY <2>2, Zenon DEF SumFunctionOnSet, FoldFunctionOnSet, MapThenFoldSet, Pick
<1>2. \A x \in D : \A v \in Int : f[x] \in Int /\ G[<<x, v>>] = f[x] + v
  OBVIOUS
<1>3. G \in [D \X Int -> Int]
  OBVIOUS
<1>4. \A x, y \in D : \A v \in Int : G[<<x, G[<<y, v>>]>>] = G[<<y, G[<<x, v>>]>>]
  <2> HIDE DEF G
  <2> TAKE x, y \in D
  <2> TAKE v \in Int
  <2>1. f[x] + v \in Int /\ f[y] + v \in Int /\ f[x] + (f[y] + v) = f[y] + (f[x] + v)
    BY <1>2
  <2>2. G[<<x, v>>] = f[x] + v /\ G[<<y, v>>] = f[y] + v
    BY <1>2
  <2>3. /\ G[<<x, f[y] + v>>] = f[x] + (f[y] + v)
        /\ G[<<y, f[x] + v>>] = f[y] + (f[x] + v)
    BY <1>2, <2>1
  <2> QED BY <2>1, <2>2, <2>3
<1>5. \A S \in SUBSET D : S # {} => Pick(S) \in S /\ Pick(S) \in D
  BY DEF Pick
<1> HIDE DEF G
<1>6. \E g : IsSum(g)
  <2>0. PICK g : IsFold(D, Int, 0, G, g)
    BY <1>0, <1>3, FoldExists, Zenon
  <2>1. /\ g \in [SUBSET D -> Int]
        /\ \A S \in SUBSET D : g[S] = IF S = {} THEN 0 ELSE G[<<Pick(S), g[S \ {Pick(S)}]>>]
    BY <2>0 DEF IsFold
  <2>2. \A S \in SUBSET D : g[S] = IF S = {} THEN 0 ELSE f[Pick(S)] + g[S \ {Pick(S)}]
    <3> TAKE S \in SUBSET D
    <3>1. CASE S = {}
      BY <2>1, <3>1
    <3>2. CASE S # {}
      <4>1. Pick(S) \in D /\ S \ {Pick(S)} \in SUBSET D
        BY <1>5, <3>2
      <4>2. g[S] = G[<<Pick(S), g[S \ {Pick(S)}]>>] /\ g[S \ {Pick(S)}] \in Int
        BY <2>1, <3>2, <4>1
      <4> QED BY <1>2, <3>2, <4>1, <4>2
    <3> QED BY <3>1, <3>2
  <2>3. g = [S \in SUBSET D |-> IF S = {} THEN 0 ELSE f[Pick(S)] + g[S \ {Pick(S)}]]
    BY <2>1, <2>2
  <2> QED BY <2>3
<1>7. IsSum(h)
  <2> HIDE DEF IsSum
  <2> QED BY <1>6, Zenon
<1> HIDE DEF h
<1>8. h[{}] = 0 /\ \A S \in SUBSET D : S # {} => h[S] = f[Pick(S)] + h[S \ {Pick(S)}]
  BY <1>7
<1>9. \A S \in SUBSET D : S # {} /\ h[S \ {Pick(S)}] \in Int
        => h[S] = G[<<Pick(S), h[S \ {Pick(S)}]>>]
  <2> SUFFICES ASSUME NEW S \in SUBSET D, S # {}, h[S \ {Pick(S)}] \in Int
               PROVE  h[S] = G[<<Pick(S), h[S \ {Pick(S)}]>>]
    OBVIOUS
  <2>1. Pick(S) \in D /\ h[S] = f[Pick(S)] + h[S \ {Pick(S)}]
    BY <1>5, <1>8
  <2> QED BY <1>2, <2>1
<1>10. AnyNext(D, Int, G, h)
  BY <1>0, <1>3, <1>4, <1>8, <1>9, FoldSteps, Zenon
<1>11. \A S \in SUBSET D : h[S] \in Int /\ \A x \in S : h[S] = f[x] + h[S \ {x}]
  <2> TAKE S \in SUBSET D
  <2>1. h[S] \in Int /\ \A x \in S : h[S] = G[<<x, h[S \ {x}]>>]
    BY <1>10 DEF AnyNext
  <2>2. ASSUME NEW x \in S PROVE h[S] = f[x] + h[S \ {x}]
    <3>1. x \in D /\ S \ {x} \in SUBSET D
      OBVIOUS
    <3>2. h[S \ {x}] \in Int
      BY <1>10, <3>1 DEF AnyNext
    <3> QED BY <1>2, <2>1, <3>1, <3>2
  <2> QED BY <2>1, <2>2
<1> QED BY <1>1, <1>8, <1>11 DEF AddsUp

(* One value of the function is replaced.                                  *)
LEMMA SumUpdated ==
  ASSUME NEW D, IsFiniteSet(D), NEW f \in [D -> Int], NEW x \in D, NEW v \in Int
  PROVE  Total(f) \in Int /\ Total([f EXCEPT ![x] = v]) = Total(f) - f[x] + v
<1> DEFINE e == [f EXCEPT ![x] = v]
<1>1. e \in [D -> Int] /\ e[x] = v /\ \A y \in D : y # x => e[y] = f[y]
  OBVIOUS
<1> HIDE DEF e
<1>2. PICK h : AddsUp(f, D, h)
  BY SumSteps
<1>3. PICK g : AddsUp(e, D, g)
  BY <1>1, SumSteps
<1> USE DEF AddsUp
<1> DEFINE k == [S \in SUBSET D |-> IF x \in S THEN h[S] - f[x] + v ELSE h[S]]
<1>4. g[{}] = k[{}] /\ k[D] = h[D] - f[x] + v
  BY <1>2, <1>3
<1>5. ASSUME NEW S \in SUBSET D, NEW y \in S, g[S \ {y}] = k[S \ {y}]
      PROVE  g[S] = k[S]
  <2>1. g[S] = e[y] + k[S \ {y}]
    BY <1>3, <1>5
  <2>2. /\ h[S] = f[y] + h[S \ {y}] /\ h[S \ {y}] \in Int
        /\ f[y] \in Int /\ f[x] \in Int /\ y \in D
    BY <1>2
  <2>3. /\ S \ {y} \in SUBSET D
        /\ k[S \ {y}] = IF x \in S /\ x # y THEN h[S \ {y}] - f[x] + v ELSE h[S \ {y}]
        /\ k[S] = IF x \in S THEN h[S] - f[x] + v ELSE h[S]
    BY <2>2
  <2> HIDE DEF k
  <2>4. CASE x = y
    BY <1>1, <2>1, <2>2, <2>3, <2>4
  <2>5. CASE x # y
    <3>1. e[y] = f[y]
      BY <1>1, <2>2, <2>5
    <3> QED BY <2>1, <2>2, <2>3, <2>5, <3>1
  <2> QED BY <2>4, <2>5
<1>6. g[D] = k[D]
  <2> HIDE DEF k
  <2> QED BY <1>4, <1>5, FoldUnique
<1>7. Total(f) \in Int
  BY <1>2
<1>8. Total(e) = Total(f) - f[x] + v
  <2> HIDE DEF k
  <2> QED BY <1>2, <1>3, <1>4, <1>6
<1> QED BY <1>7, <1>8 DEF e

(* Where nothing is counted the total is zero.                             *)
LEMMA SumZero ==
  ASSUME NEW D, IsFiniteSet(D)
  PROVE  Total([x \in D |-> 0]) = 0
<1> DEFINE f == [x \in D |-> 0]
           k == [S \in SUBSET D |-> 0]
<1>1. f \in [D -> Int] /\ \A x \in D : f[x] = 0
  OBVIOUS
<1>2. k[{}] = 0 /\ k[D] = 0 /\ \A S \in SUBSET D : k[S] = 0
  OBVIOUS
<1> HIDE DEF f, k
<1>3. PICK h : AddsUp(f, D, h)
  BY <1>1, SumSteps
<1> USE DEF AddsUp
<1>4. ASSUME NEW S \in SUBSET D, NEW y \in S, h[S \ {y}] = k[S \ {y}]
      PROVE  h[S] = k[S]
  <2>1. S \ {y} \in SUBSET D /\ y \in D
    OBVIOUS
  <2> QED BY <1>1, <1>2, <1>3, <1>4, <2>1
<1>5. h[D] = k[D]
  BY <1>2, <1>3, <1>4, FoldUnique
<1> QED BY <1>2, <1>3, <1>5 DEF f

(* One is counted.                                                         *)
LEMMA SumCounted ==
  ASSUME NEW D, IsFiniteSet(D), NEW f \in [D -> Nat], NEW x \in D
  PROVE  /\ [f EXCEPT ![x] = @ + 1] \in [D -> Nat]
         /\ Total([f EXCEPT ![x] = @ + 1]) = Total(f) + 1
<1>1. f \in [D -> Int] /\ f[x] \in Nat /\ f[x] + 1 \in Int
  OBVIOUS
<1>2. Total(f) \in Int /\ Total([f EXCEPT ![x] = f[x] + 1]) = Total(f) - f[x] + (f[x] + 1)
  BY <1>1, SumUpdated
<1>3. [f EXCEPT ![x] = f[x] + 1] = [f EXCEPT ![x] = @ + 1]
  OBVIOUS
<1>4. Total([f EXCEPT ![x] = f[x] + 1]) = Total(f) + 1
  BY <1>1, <1>2
<1> QED BY <1>3, <1>4
-----------------------------------------------------------------------------
(* The buckets of the telemetry.                                           *)
Bucket ==
  [outcomes : [Outcomes -> Nat], reasons : [AllReasons -> Nat], saved : Nat,
   retrievals : Nat, tokens : [Modes -> Nat], misses : Nat, full : Nat, samples : Nat]

(* The sum of two buckets is a bucket.                                     *)
LEMMA PlusTyped ==
  ASSUME NEW a \in Bucket, NEW b \in Bucket
  PROVE  Plus(a, b) \in Bucket
BY DEF Bucket, Plus

(* The empty bucket is one.                                                *)
LEMMA EmptyTyped == EmptyBucket \in Bucket
BY DEF Bucket, EmptyBucket

(* A bucket is known by its counts.                                        *)
LEMMA SameBucket ==
  ASSUME NEW a \in Bucket, NEW b \in Bucket,
         a.outcomes = b.outcomes, a.reasons = b.reasons, a.saved = b.saved,
         a.retrievals = b.retrievals, a.tokens = b.tokens, a.misses = b.misses,
         a.full = b.full, a.samples = b.samples
  PROVE  a = b
BY DEF Bucket

(* Buckets add up in either order.                                         *)
LEMMA PlusCommutes ==
  ASSUME NEW a \in Bucket, NEW b \in Bucket
  PROVE  Plus(a, b) = Plus(b, a)
BY DEF Bucket, Plus

(* Of three buckets either may be added first.                             *)
LEMMA PlusAssociates ==
  ASSUME NEW a \in Bucket, NEW b \in Bucket, NEW c \in Bucket
  PROVE  Plus(a, Plus(b, c)) = Plus(b, Plus(a, c))
BY DEF Bucket, Plus

(* The empty bucket adds nothing.                                          *)
LEMMA PlusEmpty ==
  ASSUME NEW a \in Bucket
  PROVE  Plus(EmptyBucket, a) = a /\ Plus(a, EmptyBucket) = a
BY DEF Bucket, Plus, EmptyBucket

(* The buckets of some sessions together with what others had; h holds the *)
(* sums over the sets of sessions.                                         *)
Together(base, f) == FoldFunction(Plus, base, f)
PlusesUp(f, D, base, h) ==
  /\ Together(base, f) = h[D] /\ h[{}] = base
  /\ \A S \in SUBSET D : h[S] \in Bucket /\ \A x \in S : h[S] = Plus(f[x], h[S \ {x}])

(* The sum of the buckets, one session at a time.                          *)
LEMMA PlusSteps ==
  ASSUME NEW D, IsFiniteSet(D), NEW f \in [D -> Bucket], NEW base \in Bucket
  PROVE  \E h : PlusesUp(f, D, base, h)
<1> DEFINE IsSum(g) ==
             g = [S \in SUBSET D |-> IF S = {} THEN base
                                     ELSE Plus(f[Pick(S)], g[S \ {Pick(S)}])]
           G == [d \in D \X Bucket |-> Plus(f[d[1]], d[2])]
           h == CHOOSE g : IsSum(g)
<1>1. Together(base, f) = h[D]
  <2>1. DOMAIN f = D
    OBVIOUS
  <2>2. Together(base, f) = FoldFunctionOnSet(Plus, base, f, D)
    BY <2>1, Zenon DEF Together, FoldFunction
  <2> QED BY <2>2, Zenon DEF FoldFunctionOnSet, MapThenFoldSet, Pick
<1>2. \A x \in D : f[x] \in Bucket
  OBVIOUS
<1>3. \A x \in D : \A v \in Bucket : Plus(f[x], v) \in Bucket
  BY <1>2, PlusTyped
<1>4. G \in [D \X Bucket -> Bucket]
  BY <1>3
<1>5. \A x \in D : \A v \in Bucket : G[<<x, v>>] = Plus(f[x], v)
  OBVIOUS
<1> HIDE DEF G
<1>6. \A x, y \in D : \A v \in Bucket : G[<<x, G[<<y, v>>]>>] = G[<<y, G[<<x, v>>]>>]
  <2> TAKE x, y \in D
  <2> TAKE v \in Bucket
  <2>1. Plus(f[x], Plus(f[y], v)) = Plus(f[y], Plus(f[x], v))
    BY <1>2, PlusAssociates
  <2> QED BY <1>3, <1>5, <2>1
<1>7. \A S \in SUBSET D : S # {} => Pick(S) \in S /\ Pick(S) \in D
  BY DEF Pick
<1>8. \E g : IsSum(g)
  <2>1. PICK g : IsFold(D, Bucket, base, G, g)
    BY <1>4, FoldExists, Zenon
  <2>2. /\ g \in [SUBSET D -> Bucket]
        /\ \A S \in SUBSET D : g[S] = IF S = {} THEN base ELSE G[<<Pick(S), g[S \ {Pick(S)}]>>]
    BY <2>1 DEF IsFold
  <2>3. \A S \in SUBSET D :
          g[S] = IF S = {} THEN base ELSE Plus(f[Pick(S)], g[S \ {Pick(S)}])
    <3> TAKE S \in SUBSET D
    <3>1. CASE S = {}
      BY <2>2, <3>1
    <3>2. CASE S # {}
      <4>1. Pick(S) \in D /\ S \ {Pick(S)} \in SUBSET D
        BY <1>7, <3>2
      <4>2. g[S] = G[<<Pick(S), g[S \ {Pick(S)}]>>] /\ g[S \ {Pick(S)}] \in Bucket
        BY <2>2, <3>2, <4>1
      <4> QED BY <1>5, <3>2, <4>1, <4>2
    <3> QED BY <3>1, <3>2
  <2>4. g = [S \in SUBSET D |-> IF S = {} THEN base
                                ELSE Plus(f[Pick(S)], g[S \ {Pick(S)}])]
    BY <2>2, <2>3
  <2> QED BY <2>4
<1>9. IsSum(h)
  <2> HIDE DEF IsSum
  <2> QED BY <1>8, Zenon
<1> HIDE DEF h
<1>10. h[{}] = base /\ \A S \in SUBSET D : S # {} => h[S] = Plus(f[Pick(S)], h[S \ {Pick(S)}])
  BY <1>9
<1>11. \A S \in SUBSET D : S # {} /\ h[S \ {Pick(S)}] \in Bucket
         => h[S] = G[<<Pick(S), h[S \ {Pick(S)}]>>]
  <2> SUFFICES ASSUME NEW S \in SUBSET D, S # {}, h[S \ {Pick(S)}] \in Bucket
               PROVE  h[S] = G[<<Pick(S), h[S \ {Pick(S)}]>>]
    OBVIOUS
  <2>1. Pick(S) \in D /\ h[S] = Plus(f[Pick(S)], h[S \ {Pick(S)}])
    BY <1>7, <1>10
  <2> QED BY <1>5, <2>1
<1>12. AnyNext(D, Bucket, G, h)
  BY <1>4, <1>6, <1>10, <1>11, FoldSteps, Zenon
<1>13. \A S \in SUBSET D : h[S] \in Bucket /\ \A x \in S : h[S] = Plus(f[x], h[S \ {x}])
  <2> TAKE S \in SUBSET D
  <2>1. h[S] \in Bucket /\ \A x \in S : h[S] = G[<<x, h[S \ {x}]>>]
    BY <1>12 DEF AnyNext
  <2>2. ASSUME NEW x \in S
        PROVE  h[S] = Plus(f[x], h[S \ {x}])
    <3>1. x \in D /\ S \ {x} \in SUBSET D
      OBVIOUS
    <3>2. h[S \ {x}] \in Bucket
      BY <1>12, <3>1 DEF AnyNext
    <3> QED BY <1>5, <2>1, <3>1, <3>2
  <2> QED BY <2>1, <2>2
<1> QED BY <1>1, <1>10, <1>13 DEF PlusesUp

(* A session's bucket, and the buckets once it has another one.            *)
BucketAt(D, f, s) == IF s \in D THEN f[s] ELSE EmptyBucket
Replaced(D, f, s, b) == [i \in D \cup {s} |-> IF i = s THEN b ELSE f[i]]

(* One session's bucket is created or replaced: what the others have stays *)
(* as it is.                                                               *)
LEMMA BucketReplaced ==
  ASSUME NEW D, IsFiniteSet(D), NEW f \in [D -> Bucket], NEW base \in Bucket,
         NEW s, NEW b \in Bucket
  PROVE  \E c \in Bucket :
           /\ Together(base, f) = Plus(BucketAt(D, f, s), c)
           /\ Together(base, Replaced(D, f, s, b)) = Plus(b, c)
<1> DEFINE E == D \cup {s}
           e == Replaced(D, f, s, b)
<1>1. IsFiniteSet(E)
  BY FS_AddElement
<1>2. e \in [E -> Bucket] /\ e[s] = b /\ \A i \in D : i # s => e[i] = f[i]
  BY DEF Replaced
<1> HIDE DEF e
<1>3. PICK h : PlusesUp(f, D, base, h)
  BY PlusSteps, Zenon
<1>4. PICK g : PlusesUp(e, E, base, g)
  BY <1>1, <1>2, PlusSteps, Zenon
<1> DEFINE c == h[D \ {s}]
           k == [S \in SUBSET E |-> IF s \in S THEN Plus(b, h[S \ {s}]) ELSE h[S]]
<1>5. c \in Bucket
  BY <1>3 DEF PlusesUp
<1>6. Together(base, f) = Plus(BucketAt(D, f, s), c)
  <2>1. CASE s \in D
    BY <1>3, <2>1 DEF PlusesUp, BucketAt
  <2>2. CASE s \notin D
    <3>1. D \ {s} = D /\ Together(base, f) = h[D]
      BY <1>3, <2>2 DEF PlusesUp
    <3> HIDE DEF c
    <3>2. Together(base, f) = c
      BY <3>1 DEF c
    <3> QED BY <1>5, <2>2, <3>2, PlusEmpty DEF BucketAt
  <2> QED BY <2>1, <2>2
<1>7. k[E] = Plus(b, c) /\ k[{}] = base
  <2>1. E \ {s} = D \ {s} /\ s \in E /\ h[{}] = base
    BY <1>3 DEF PlusesUp
  <2> QED BY <2>1
<1>8. \A S \in SUBSET E : \A y \in S : g[S \ {y}] = k[S \ {y}] => g[S] = k[S]
  <2> SUFFICES ASSUME NEW S \in SUBSET E, NEW y \in S, g[S \ {y}] = k[S \ {y}]
               PROVE  g[S] = k[S]
    OBVIOUS
  <2>1. g[S] = Plus(e[y], k[S \ {y}])
    BY <1>4 DEF PlusesUp
  <2>2. /\ k[S] = IF s \in S THEN Plus(b, h[S \ {s}]) ELSE h[S]
        /\ k[S \ {y}] = IF s \in S \ {y} THEN Plus(b, h[(S \ {y}) \ {s}]) ELSE h[S \ {y}]
    OBVIOUS
  <2> HIDE DEF k, c
  <2>3. CASE y = s
    <3>1. k[S \ {y}] = h[S \ {s}] /\ k[S] = Plus(b, h[S \ {s}])
      BY <2>2, <2>3
    <3> QED BY <1>2, <2>1, <2>3, <3>1
  <2>4. CASE y # s
    <3>1. y \in D /\ e[y] = f[y] /\ f[y] \in Bucket
      BY <1>2, <2>4
    <3>2. CASE s \notin S
      <4>1. S \in SUBSET D /\ k[S] = h[S] /\ k[S \ {y}] = h[S \ {y}]
        BY <2>2, <3>2
      <4>2. h[S] = Plus(f[y], h[S \ {y}])
        BY <1>3, <4>1 DEF PlusesUp
      <4> QED BY <2>1, <3>1, <4>1, <4>2
    <3>3. CASE s \in S
      <4> DEFINE R == S \ {s}
                 Q == (S \ {s}) \ {y}
      <4>1. R \in SUBSET D /\ Q \in SUBSET D /\ y \in R /\ R \ {y} = Q /\ (S \ {y}) \ {s} = Q
        BY <2>4, <3>3
      <4>2. k[S] = Plus(b, h[R]) /\ k[S \ {y}] = Plus(b, h[Q])
        <5>1. s \in S \ {y}
          BY <2>4, <3>3
        <5> HIDE DEF Q
        <5> QED BY <2>2, <3>3, <4>1, <5>1
      <4> HIDE DEF R, Q
      <4>3. h[R] = Plus(f[y], h[Q]) /\ h[Q] \in Bucket
        BY <1>3, <4>1 DEF PlusesUp
      <4>4. Plus(f[y], Plus(b, h[Q])) = Plus(b, Plus(f[y], h[Q]))
        BY <3>1, <4>3, PlusAssociates
      <4> QED BY <2>1, <3>1, <4>2, <4>3, <4>4
    <3> QED BY <3>2, <3>3
  <2> QED BY <2>3, <2>4
<1>9. g[E] = k[E]
  <2>1. g[{}] = k[{}]
    BY <1>4, <1>7 DEF PlusesUp
  <2> HIDE DEF k, E
  <2> QED BY <1>1, <1>8, <2>1, FoldUnique
<1>10. Together(base, e) = Plus(b, c)
  <2> HIDE DEF k, c
  <2> QED BY <1>4, <1>7, <1>9 DEF PlusesUp
<1> HIDE DEF c
<1> QED BY <1>5, <1>6, <1>10 DEF e

(* A session's bucket is taken away and added to what the others had.      *)
LEMMA BucketForgotten ==
  ASSUME NEW D, IsFiniteSet(D), NEW f \in [D -> Bucket], NEW base \in Bucket, NEW s
  PROVE  Together(Plus(base, BucketAt(D, f, s)), Restrict(f, D \ {s})) = Together(base, f)
<1> DEFINE E == D \ {s}
           e == Restrict(f, E)
           new == Plus(base, BucketAt(D, f, s))
<1>1. CASE s \notin D
  <2>1. E = D
    BY <1>1
  <2>2. e = f
    BY <2>1 DEF Restrict
  <2>3. new = base
    BY <1>1, PlusEmpty DEF BucketAt
  <2> HIDE DEF e, new
  <2>4. Together(new, e) = Together(base, f)
    BY <2>2, <2>3
  <2> QED BY <2>4 DEF e, new
<1>2. CASE s \in D
  <2> DEFINE b == f[s]
  <2>1. b \in Bucket /\ new = Plus(base, b)
    BY <1>2 DEF BucketAt
  <2>2. new \in Bucket /\ new = Plus(b, base)
    BY <2>1, PlusTyped, PlusCommutes
  <2>3. IsFiniteSet(E) /\ e \in [E -> Bucket] /\ \A i \in E : e[i] = f[i]
    BY FS_RemoveElement DEF Restrict
  <2> HIDE DEF e, new
  <2>4. PICK h : PlusesUp(f, D, base, h)
    BY PlusSteps, Zenon
  <2>5. PICK g : PlusesUp(e, E, new, g)
    BY <2>2, <2>3, PlusSteps, Zenon
  <2> DEFINE k == [S \in SUBSET E |-> Plus(b, h[S])]
  <2>6. g[{}] = k[{}]
    BY <2>2, <2>4, <2>5 DEF PlusesUp
  <2>7. \A S \in SUBSET E : \A y \in S : g[S \ {y}] = k[S \ {y}] => g[S] = k[S]
    <3> SUFFICES ASSUME NEW S \in SUBSET E, NEW y \in S, g[S \ {y}] = k[S \ {y}]
                 PROVE  g[S] = k[S]
      OBVIOUS
    <3>1. g[S] = Plus(f[y], k[S \ {y}])
      BY <2>3, <2>5 DEF PlusesUp
    <3>2. k[S] = Plus(b, h[S]) /\ k[S \ {y}] = Plus(b, h[S \ {y}])
      OBVIOUS
    <3> HIDE DEF k
    <3>3. S \in SUBSET D /\ S \ {y} \in SUBSET D /\ f[y] \in Bucket
      OBVIOUS
    <3>4. h[S] = Plus(f[y], h[S \ {y}]) /\ h[S \ {y}] \in Bucket
      BY <2>4, <3>3 DEF PlusesUp
    <3>5. Plus(f[y], Plus(b, h[S \ {y}])) = Plus(b, Plus(f[y], h[S \ {y}]))
      BY <2>1, <3>3, <3>4, PlusAssociates
    <3> QED BY <3>1, <3>2, <3>4, <3>5
  <2>8. k[E] = Plus(b, h[E])
    OBVIOUS
  <2>9. g[E] = k[E]
    <3> HIDE DEF k, E
    <3> QED BY <2>3, <2>6, <2>7, FoldUnique
  <2>10. h[D] = Plus(b, h[E])
    BY <1>2, <2>4 DEF PlusesUp
  <2>11. Together(new, e) = Together(base, f)
    <3> HIDE DEF k
    <3> QED BY <2>4, <2>5, <2>8, <2>9, <2>10 DEF PlusesUp
  <2> QED BY <2>11 DEF e, new
<1> QED BY <1>1, <1>2
-----------------------------------------------------------------------------
(* What the aggregator keeps: the buckets of finitely many sessions, whose *)
(* sum, with that of the deleted ones, is the global bucket.               *)
TelemetryTyped(t) ==
  /\ t = [global |-> t.global, sessions |-> t.sessions]
  /\ t.global \in Bucket
  /\ t.sessions \in [DOMAIN t.sessions -> Bucket] /\ IsFiniteSet(DOMAIN t.sessions)
SumsUp(t, base) == TelemetryTyped(t) /\ t.global = Together(base, t.sessions)

(* What the counts of a bucket are after n hook runs and r retrievals.     *)
Tallied(b, n, r) ==
  /\ Total(b.outcomes) = n /\ Total(b.reasons) = n
  /\ b.reasons["compressed"] = b.outcomes["compressed"]
  /\ b.retrievals = r /\ b.samples = n + r
  /\ b.misses <= b.retrievals /\ b.full <= b.retrievals

(* A record goes to the global bucket and to the session's: the sum stays. *)
LEMMA RecordedSumsUp ==
  ASSUME NEW t, NEW base \in Bucket, SumsUp(t, base), NEW s, NEW g \in Bucket, NEW b \in Bucket,
         \A c \in Bucket : t.global = Plus(BucketOf(t, s), c) => g = Plus(b, c)
  PROVE  SumsUp(WithBuckets(t, s, g, b), base)
<1> DEFINE f == t.sessions
           D == DOMAIN f
           e == Replaced(D, f, s, b)
<1>1. IsFiniteSet(D) /\ f \in [D -> Bucket] /\ t.global = Together(base, f)
  BY DEF SumsUp, TelemetryTyped
<1>2. PICK c \in Bucket : /\ Together(base, f) = Plus(BucketAt(D, f, s), c)
                          /\ Together(base, e) = Plus(b, c)
  <2> HIDE DEF f
  <2> QED BY <1>1, BucketReplaced
<1>3. g = Plus(b, c)
  <2>1. BucketOf(t, s) = BucketAt(D, f, s)
    BY DEF BucketOf, BucketAt
  <2> QED BY <1>1, <1>2, <2>1
<1>4. WithBuckets(t, s, g, b) = [global |-> g, sessions |-> e]
  BY DEF WithBuckets, Replaced
<1>5. DOMAIN e = D \cup {s} /\ e \in [D \cup {s} -> Bucket] /\ IsFiniteSet(D \cup {s})
  BY <1>1, FS_AddElement DEF Replaced
<1> HIDE DEF e, f
<1> QED BY <1>2, <1>3, <1>4, <1>5 DEF SumsUp, TelemetryTyped

(* deleteSession moves a session's bucket to the sum of the deleted ones.  *)
LEMMA ForgottenSumsUp ==
  ASSUME NEW t, NEW base \in Bucket, SumsUp(t, base), NEW s
  PROVE  /\ BucketOf(t, s) \in Bucket
         /\ Forgotten(t, s).global = t.global
         /\ SumsUp(Forgotten(t, s), Plus(base, BucketOf(t, s)))
<1> DEFINE f == t.sessions
           D == DOMAIN f
           e == Restrict(f, D \ {s})
<1>1. IsFiniteSet(D) /\ f \in [D -> Bucket] /\ t.global = Together(base, f) /\ t.global \in Bucket
  BY DEF SumsUp, TelemetryTyped
<1>2. Together(Plus(base, BucketAt(D, f, s)), e) = Together(base, f)
  <2> HIDE DEF f
  <2> QED BY <1>1, BucketForgotten
<1>3. Forgotten(t, s) = [global |-> t.global, sessions |-> e]
  <2>1. t = [global |-> t.global, sessions |-> t.sessions]
    BY DEF SumsUp, TelemetryTyped
  <2>2. Forgotten(t, s) = [t EXCEPT !.sessions = e]
    BY Zenon DEF Forgotten
  <2> HIDE DEF e
  <2> QED BY <2>1, <2>2
<1>4. DOMAIN e = D \ {s} /\ e \in [D \ {s} -> Bucket] /\ IsFiniteSet(D \ {s})
  BY <1>1, FS_RemoveElement DEF Restrict
<1>5. BucketOf(t, s) = BucketAt(D, f, s)
  BY DEF BucketOf, BucketAt
<1>6. BucketOf(t, s) \in Bucket
  BY <1>1, <1>5, EmptyTyped DEF BucketAt
<1> HIDE DEF e, f
<1> QED BY <1>1, <1>2, <1>3, <1>4, <1>5, <1>6 DEF SumsUp, TelemetryTyped

(* The record of a decision, and a bucket by its counts.                   *)
Event == [outcome : Outcomes, reason : AllReasons, saved : Nat]
Counts(outcomes, reasons, saved, retrievals, tokens, misses, full, samples) ==
  [outcomes |-> outcomes, reasons |-> reasons, saved |-> saved, retrievals |-> retrievals,
   tokens |-> tokens, misses |-> misses, full |-> full, samples |-> samples]

(* The bucket after a decision, one count after the other.                 *)
LEMMA CompressedIs ==
  ASSUME NEW b \in Bucket, NEW event
  PROVE  Compressed(b, event) =
           Counts([b.outcomes EXCEPT ![event.outcome] = @ + 1],
                  [b.reasons EXCEPT ![event.reason] = @ + 1],
                  IF event.outcome = "compressed" THEN b.saved + event.saved ELSE b.saved,
                  b.retrievals, b.tokens, b.misses, b.full, b.samples + 1)
<1> DEFINE o == [b.outcomes EXCEPT ![event.outcome] = @ + 1]
           r == [b.reasons EXCEPT ![event.reason] = @ + 1]
           s == IF event.outcome = "compressed" THEN b.saved + event.saved ELSE b.saved
           b1 == [b EXCEPT !.outcomes[event.outcome] = @ + 1]
           b2 == [b1 EXCEPT !.reasons[event.reason] = @ + 1]
           b3 == [b2 EXCEPT !.saved = IF event.outcome = "compressed" THEN @ + event.saved
                                      ELSE @]
           b4 == [b3 EXCEPT !.samples = @ + 1]
           Rest(x, y, z, n) ==
             Counts(x, y, z, b.retrievals, b.tokens, b.misses, b.full, n)
<1> USE DEF Counts
<1>1. Compressed(b, event) = b4
  BY Zenon DEF Compressed
<1>2. b = Rest(b.outcomes, b.reasons, b.saved, b.samples)
  BY DEF Bucket
<1>3. b1 = Rest(o, b.reasons, b.saved, b.samples)
  BY <1>2
<1>4. b2 = Rest(o, r, b.saved, b.samples)
  <2> HIDE DEF b1
  <2> QED BY <1>3
<1>5. b3 = Rest(o, r, s, b.samples)
  <2> HIDE DEF b2
  <2> QED BY <1>4
<1>6. b4 = Rest(o, r, s, b.samples + 1)
  <2> HIDE DEF b3
  <2> QED BY <1>5
<1> QED BY <1>1, <1>6

(* The bucket after a retrieval.                                           *)
LEMMA RetrievedIs ==
  ASSUME NEW b \in Bucket, NEW event
  PROVE  Retrieved(b, event) =
           Counts(b.outcomes, b.reasons, b.saved, b.retrievals + 1,
                  [b.tokens EXCEPT ![event.mode] = @ + event.tokens],
                  IF event.found THEN b.misses ELSE b.misses + 1,
                  IF event.mode = "full" THEN b.full + 1 ELSE b.full, b.samples + 1)
<1> DEFINE t == [b.tokens EXCEPT ![event.mode] = @ + event.tokens]
           m == IF event.found THEN b.misses ELSE b.misses + 1
           f == IF event.mode = "full" THEN b.full + 1 ELSE b.full
           b1 == [b EXCEPT !.retrievals = @ + 1]
           b2 == [b1 EXCEPT !.tokens[event.mode] = @ + event.tokens]
           b3 == [b2 EXCEPT !.misses = IF event.found THEN @ ELSE @ + 1]
           b4 == [b3 EXCEPT !.full = IF event.mode = "full" THEN @ + 1 ELSE @]
           b5 == [b4 EXCEPT !.samples = @ + 1]
           Rest(x, y, z, u, n) == Counts(b.outcomes, b.reasons, b.saved, x, y, z, u, n)
<1> USE DEF Counts
<1>1. Retrieved(b, event) = b5
  BY Zenon DEF Retrieved
<1>2. b = Rest(b.retrievals, b.tokens, b.misses, b.full, b.samples)
  BY DEF Bucket
<1>3. b1 = Rest(b.retrievals + 1, b.tokens, b.misses, b.full, b.samples)
  BY <1>2
<1>4. b2 = Rest(b.retrievals + 1, t, b.misses, b.full, b.samples)
  <2> HIDE DEF b1
  <2> QED BY <1>3
<1>5. b3 = Rest(b.retrievals + 1, t, m, b.full, b.samples)
  <2> HIDE DEF b2
  <2> QED BY <1>4
<1>6. b4 = Rest(b.retrievals + 1, t, m, f, b.samples)
  <2> HIDE DEF b3
  <2> QED BY <1>5
<1>7. b5 = Rest(b.retrievals + 1, t, m, f, b.samples + 1)
  <2> HIDE DEF b4
  <2> QED BY <1>6
<1> QED BY <1>1, <1>7

(* The outcomes and the reasons that are counted are finitely many.        *)
LEMMA CountedSetsFinite == IsFiniteSet(Outcomes) /\ IsFiniteSet(AllReasons)
<1>1. IsFiniteSet({"compressed"}) /\ IsFiniteSet({"unknown"})
  BY FS_Singleton
<1>2. IsFiniteSet(AllReasons)
  BY <1>1, FS_Union, TelemetryAssumption DEF AllReasons
<1>3. IsFiniteSet({"compressed", "skipped"})
  <2>1. {"compressed", "skipped"} = {"compressed"} \cup {"skipped"}
    OBVIOUS
  <2> QED BY <1>1, <2>1, FS_AddElement
<1>4. Outcomes = {"compressed", "skipped"} \cup {"error"}
  BY DEF Outcomes
<1> QED BY <1>2, <1>3, <1>4, FS_AddElement

(* complete() counts one run, whichever way it ended.                      *)
LEMMA CompressedCounts ==
  ASSUME NEW b \in Bucket, NEW event \in Event,
         event.reason = "compressed" <=> event.outcome = "compressed"
  PROVE  /\ Compressed(b, event) \in Bucket
         /\ \A c \in Bucket : Compressed(Plus(b, c), event) = Plus(Compressed(b, event), c)
         /\ \A n, r \in Int : Tallied(b, n, r) => Tallied(Compressed(b, event), n + 1, r)
<1> DEFINE d == Compressed(b, event)
<1>1. /\ event.outcome \in Outcomes /\ event.reason \in AllReasons /\ event.saved \in Nat
  BY DEF Event
<1>2. /\ d.outcomes = [b.outcomes EXCEPT ![event.outcome] = @ + 1]
      /\ d.reasons = [b.reasons EXCEPT ![event.reason] = @ + 1]
      /\ d.saved = IF event.outcome = "compressed" THEN b.saved + event.saved ELSE b.saved
      /\ d.samples = b.samples + 1
      /\ d.retrievals = b.retrievals /\ d.tokens = b.tokens
      /\ d.misses = b.misses /\ d.full = b.full
  <2>1. d = Counts([b.outcomes EXCEPT ![event.outcome] = @ + 1],
                   [b.reasons EXCEPT ![event.reason] = @ + 1],
                   IF event.outcome = "compressed" THEN b.saved + event.saved ELSE b.saved,
                   b.retrievals, b.tokens, b.misses, b.full, b.samples + 1)
    BY CompressedIs, Zenon
  <2> HIDE DEF d
  <2> QED BY <2>1 DEF Counts
<1>3. \A c \in Bucket : Compressed(c, event) \in Bucket
  <2> TAKE c \in Bucket
  <2>1. /\ [c.outcomes EXCEPT ![event.outcome] = @ + 1] \in [Outcomes -> Nat]
        /\ [c.reasons EXCEPT ![event.reason] = @ + 1] \in [AllReasons -> Nat]
        /\ (IF event.outcome = "compressed" THEN c.saved + event.saved ELSE c.saved) \in Nat
        /\ c.samples + 1 \in Nat /\ c.retrievals \in Nat
        /\ c.tokens \in [Modes -> Nat] /\ c.misses \in Nat /\ c.full \in Nat
    BY <1>1 DEF Bucket
  <2> DEFINE e == Compressed(c, event)
  <2>2. e = Counts([c.outcomes EXCEPT ![event.outcome] = @ + 1],
                   [c.reasons EXCEPT ![event.reason] = @ + 1],
                   IF event.outcome = "compressed" THEN c.saved + event.saved ELSE c.saved,
                   c.retrievals, c.tokens, c.misses, c.full, c.samples + 1)
    BY CompressedIs, Zenon
  <2> HIDE DEF e
  <2>3. e \in Bucket
    BY <2>1, <2>2 DEF Bucket, Counts
  <2> QED BY <2>3 DEF e
<1>4. ASSUME NEW c \in Bucket
      PROVE  Compressed(Plus(b, c), event) = Plus(Compressed(b, event), c)
  <2> DEFINE x == Compressed(Plus(b, c), event)
             y == Plus(Compressed(b, event), c)
             p == Plus(b, c)
  <2>1. p \in Bucket /\ x \in Bucket /\ y \in Bucket
    BY <1>3, PlusTyped
  <2>2. /\ p.outcomes = [o \in Outcomes |-> b.outcomes[o] + c.outcomes[o]]
        /\ p.reasons = [r \in AllReasons |-> b.reasons[r] + c.reasons[r]]
        /\ p.tokens = [m \in Modes |-> b.tokens[m] + c.tokens[m]]
        /\ p.saved = b.saved + c.saved /\ p.retrievals = b.retrievals + c.retrievals
        /\ p.misses = b.misses + c.misses /\ p.full = b.full + c.full
        /\ p.samples = b.samples + c.samples
    BY DEF Plus
  <2>3. /\ y.outcomes = [o \in Outcomes |-> d.outcomes[o] + c.outcomes[o]]
        /\ y.reasons = [r \in AllReasons |-> d.reasons[r] + c.reasons[r]]
        /\ y.tokens = [m \in Modes |-> d.tokens[m] + c.tokens[m]]
        /\ y.saved = d.saved + c.saved /\ y.retrievals = d.retrievals + c.retrievals
        /\ y.misses = d.misses + c.misses /\ y.full = d.full + c.full
        /\ y.samples = d.samples + c.samples
    BY DEF Plus
  <2>4. x = Counts([p.outcomes EXCEPT ![event.outcome] = @ + 1],
                  [p.reasons EXCEPT ![event.reason] = @ + 1],
                  IF event.outcome = "compressed" THEN p.saved + event.saved ELSE p.saved,
                  p.retrievals, p.tokens, p.misses, p.full, p.samples + 1)
    BY <2>1, CompressedIs, Zenon
  <2>5. /\ b.outcomes \in [Outcomes -> Nat] /\ b.reasons \in [AllReasons -> Nat]
        /\ b.saved \in Nat /\ b.samples \in Nat
        /\ c.outcomes \in [Outcomes -> Nat] /\ c.reasons \in [AllReasons -> Nat]
        /\ c.saved \in Nat /\ c.samples \in Nat
    BY DEF Bucket
  <2> HIDE DEF x, y, p, d
  <2>6. x.outcomes = y.outcomes
    BY <1>1, <1>2, <2>2, <2>3, <2>4, <2>5 DEF Counts
  <2>7. x.reasons = y.reasons
    BY <1>1, <1>2, <2>2, <2>3, <2>4, <2>5 DEF Counts
  <2>8. x.saved = y.saved /\ x.samples = y.samples
    BY <1>1, <1>2, <2>2, <2>3, <2>4, <2>5 DEF Counts
  <2>9. /\ x.retrievals = y.retrievals /\ x.tokens = y.tokens
        /\ x.misses = y.misses /\ x.full = y.full
    BY <1>2, <2>2, <2>3, <2>4 DEF Counts
  <2>10. x = y
    BY <2>1, <2>6, <2>7, <2>8, <2>9, SameBucket
  <2> QED BY <2>10 DEF x, y
<1>5. IsFiniteSet(Outcomes) /\ IsFiniteSet(AllReasons)
  BY CountedSetsFinite
<1>6. ASSUME NEW n \in Int, NEW r \in Int, Tallied(b, n, r)
      PROVE  Tallied(Compressed(b, event), n + 1, r)
  <2>1. b.outcomes \in [Outcomes -> Nat] /\ b.reasons \in [AllReasons -> Nat]
          /\ b.samples \in Nat /\ b.retrievals \in Nat
    BY DEF Bucket
  <2> HIDE DEF d
  <2>2. Total(d.outcomes) = Total(b.outcomes) + 1
    BY <1>1, <1>2, <1>5, <2>1, SumCounted
  <2>3. Total(d.reasons) = Total(b.reasons) + 1
    BY <1>1, <1>2, <1>5, <2>1, SumCounted
  <2>4. "compressed" \in Outcomes /\ "compressed" \in AllReasons
    BY TelemetryAssumption DEF Outcomes, AllReasons
  <2>5. b.reasons["compressed"] = b.outcomes["compressed"]
    BY <1>6 DEF Tallied
  <2>6. d.reasons["compressed"] = d.outcomes["compressed"]
    <3>1. CASE event.outcome = "compressed"
      <4>1. event.reason = "compressed"
        BY <3>1
      <4> QED BY <1>1, <1>2, <2>1, <2>4, <2>5, <3>1, <4>1
    <3>2. CASE event.outcome # "compressed"
      <4>1. event.reason # "compressed"
        BY <3>2
      <4> QED BY <1>1, <1>2, <2>1, <2>4, <2>5, <3>2, <4>1
    <3> QED BY <3>1, <3>2
  <2>7. Tallied(d, n + 1, r)
    BY <1>2, <1>6, <2>1, <2>2, <2>3, <2>6 DEF Tallied
  <2> QED BY <2>7 DEF d
<1> QED BY <1>3, <1>4, <1>6 DEF d

(* And a retrieval is counted once, under one mode.                        *)
LEMMA RetrievedCounts ==
  ASSUME NEW b \in Bucket, NEW event, event.mode \in Modes, event.tokens \in Nat
  PROVE  /\ Retrieved(b, event) \in Bucket
         /\ \A c \in Bucket : Retrieved(Plus(b, c), event) = Plus(Retrieved(b, event), c)
         /\ \A n, r \in Int : Tallied(b, n, r) => Tallied(Retrieved(b, event), n, r + 1)
<1> DEFINE d == Retrieved(b, event)
<1>1. \A c \in Bucket : Retrieved(c, event) \in Bucket
  <2> TAKE c \in Bucket
  <2>1. /\ [c.tokens EXCEPT ![event.mode] = @ + event.tokens] \in [Modes -> Nat]
        /\ (IF event.found THEN c.misses ELSE c.misses + 1) \in Nat
        /\ (IF event.mode = "full" THEN c.full + 1 ELSE c.full) \in Nat
        /\ c.outcomes \in [Outcomes -> Nat] /\ c.reasons \in [AllReasons -> Nat]
        /\ c.saved \in Nat /\ c.samples + 1 \in Nat /\ c.retrievals + 1 \in Nat
    BY DEF Bucket
  <2> DEFINE e == Retrieved(c, event)
  <2>2. e = Counts(c.outcomes, c.reasons, c.saved, c.retrievals + 1,
                   [c.tokens EXCEPT ![event.mode] = @ + event.tokens],
                   IF event.found THEN c.misses ELSE c.misses + 1,
                   IF event.mode = "full" THEN c.full + 1 ELSE c.full, c.samples + 1)
    BY RetrievedIs, Zenon
  <2> HIDE DEF e
  <2>3. e \in Bucket
    BY <2>1, <2>2 DEF Bucket, Counts
  <2> QED BY <2>3 DEF e
<1>2. ASSUME NEW c \in Bucket
      PROVE  Retrieved(Plus(b, c), event) = Plus(Retrieved(b, event), c)
  <2> DEFINE x == Retrieved(Plus(b, c), event)
             y == Plus(Retrieved(b, event), c)
             p == Plus(b, c)
  <2>1. p \in Bucket /\ x \in Bucket /\ y \in Bucket
    BY <1>1, PlusTyped
  <2>2. /\ p.outcomes = [o \in Outcomes |-> b.outcomes[o] + c.outcomes[o]]
        /\ p.reasons = [r \in AllReasons |-> b.reasons[r] + c.reasons[r]]
        /\ p.tokens = [m \in Modes |-> b.tokens[m] + c.tokens[m]]
        /\ p.saved = b.saved + c.saved /\ p.retrievals = b.retrievals + c.retrievals
        /\ p.misses = b.misses + c.misses /\ p.full = b.full + c.full
        /\ p.samples = b.samples + c.samples
    BY DEF Plus
  <2>3. /\ y.outcomes = [o \in Outcomes |-> d.outcomes[o] + c.outcomes[o]]
        /\ y.reasons = [r \in AllReasons |-> d.reasons[r] + c.reasons[r]]
        /\ y.tokens = [m \in Modes |-> d.tokens[m] + c.tokens[m]]
        /\ y.saved = d.saved + c.saved /\ y.retrievals = d.retrievals + c.retrievals
        /\ y.misses = d.misses + c.misses /\ y.full = d.full + c.full
        /\ y.samples = d.samples + c.samples
    BY DEF Plus
  <2>4. x = Counts(p.outcomes, p.reasons, p.saved, p.retrievals + 1,
                   [p.tokens EXCEPT ![event.mode] = @ + event.tokens],
                   IF event.found THEN p.misses ELSE p.misses + 1,
                   IF event.mode = "full" THEN p.full + 1 ELSE p.full, p.samples + 1)
    BY <2>1, RetrievedIs, Zenon
  <2>5. d = Counts(b.outcomes, b.reasons, b.saved, b.retrievals + 1,
                   [b.tokens EXCEPT ![event.mode] = @ + event.tokens],
                   IF event.found THEN b.misses ELSE b.misses + 1,
                   IF event.mode = "full" THEN b.full + 1 ELSE b.full, b.samples + 1)
    BY RetrievedIs, Zenon
  <2>6. /\ b.tokens \in [Modes -> Nat] /\ b.retrievals \in Nat
        /\ b.misses \in Nat /\ b.full \in Nat /\ b.samples \in Nat
        /\ c.tokens \in [Modes -> Nat] /\ c.retrievals \in Nat
        /\ c.misses \in Nat /\ c.full \in Nat /\ c.samples \in Nat
    BY DEF Bucket
  <2> HIDE DEF x, y, p, d
  <2>7. x.tokens = y.tokens
    BY <2>2, <2>3, <2>4, <2>5, <2>6 DEF Counts
  <2>8. x.misses = y.misses /\ x.full = y.full
    BY <2>2, <2>3, <2>4, <2>5, <2>6 DEF Counts
  <2>9. x.retrievals = y.retrievals /\ x.samples = y.samples
    BY <2>2, <2>3, <2>4, <2>5, <2>6 DEF Counts
  <2>10. x.outcomes = y.outcomes /\ x.reasons = y.reasons /\ x.saved = y.saved
    BY <2>2, <2>3, <2>4, <2>5 DEF Counts
  <2>11. x = y
    BY <2>1, <2>7, <2>8, <2>9, <2>10, SameBucket
  <2> QED BY <2>11 DEF x, y
<1>3. /\ d.outcomes = b.outcomes /\ d.reasons = b.reasons
      /\ d.retrievals = b.retrievals + 1 /\ d.samples = b.samples + 1
      /\ d.misses \in {b.misses, b.misses + 1} /\ d.full \in {b.full, b.full + 1}
  <2>1. d = Counts(b.outcomes, b.reasons, b.saved, b.retrievals + 1,
                   [b.tokens EXCEPT ![event.mode] = @ + event.tokens],
                   IF event.found THEN b.misses ELSE b.misses + 1,
                   IF event.mode = "full" THEN b.full + 1 ELSE b.full, b.samples + 1)
    BY RetrievedIs, Zenon
  <2> HIDE DEF d
  <2> QED BY <2>1 DEF Counts
<1>4. /\ b.misses \in Nat /\ b.full \in Nat /\ b.retrievals \in Nat /\ b.samples \in Nat
  BY DEF Bucket
<1>5. ASSUME NEW n \in Int, NEW r \in Int, Tallied(b, n, r)
      PROVE  Tallied(d, n, r + 1)
  <2> HIDE DEF d
  <2> QED BY <1>3, <1>4, <1>5 DEF Tallied
<1> QED BY <1>1, <1>2, <1>5
-----------------------------------------------------------------------------
(* The hook runs that are counted as finished: those the fallback and the  *)
(* host started, but for the ones still running.                           *)
Compressing == {t \in Transforms : transform[t].pc = "compressing"}
Awaited == {h \in Hooks : hook[h]}
Finished == Total(attempts) - Cardinality(Compressing) + events.hooks - Cardinality(Awaited)

EventCounts ==
  [hooks : Nat, retrievals : Nat, rejections : Nat, deletions : Nat, evictions : Nat]
TelemetryInv ==
  /\ forgotten \in Bucket /\ SumsUp(telemetry, forgotten)
  /\ events \in EventCounts /\ hook \in [Hooks -> BOOLEAN]
  /\ Tallied(telemetry.global, Finished, events.retrievals)

(* The numbers that are compared are numbers.                              *)
LEMMA FinishedTyped ==
  ASSUME Types, events \in EventCounts
  PROVE  /\ Total(attempts) \in Int
         /\ IsFiniteSet(Compressing) /\ Cardinality(Compressing) \in Nat
         /\ IsFiniteSet(Awaited) /\ Cardinality(Awaited) \in Nat
         /\ events.hooks \in Nat /\ events.retrievals \in Nat
         /\ Finished \in Int
<1>1. attempts \in [Calls -> Int] /\ IsFiniteSet(Calls)
  BY TelemetryAssumption DEF Types
<1>2. Total(attempts) \in Int
  <2>1. PICK h : AddsUp(attempts, Calls, h)
    BY <1>1, SumSteps
  <2> QED BY <2>1 DEF AddsUp
<1>3. Compressing \in SUBSET Transforms /\ Awaited \in SUBSET Hooks
  BY DEF Compressing, Awaited
<1>4. /\ IsFiniteSet(Compressing) /\ Cardinality(Compressing) \in Nat
      /\ IsFiniteSet(Awaited) /\ Cardinality(Awaited) \in Nat
  BY <1>3, FS_Subset, FS_CardinalityType, TelemetryAssumption
<1>5. events.hooks \in Nat /\ events.retrievals \in Nat
  BY DEF EventCounts
<1> HIDE DEF Compressing, Awaited
<1> QED BY <1>2, <1>4, <1>5 DEF Finished

(* One element moves into a finite set or out of it.                       *)
LEMMA CountMoves ==
  ASSUME NEW S, IsFiniteSet(S), NEW T, NEW x, S \ {x} = T \ {x}
  PROVE  Cardinality(T) = Cardinality(S) + (IF x \in T THEN 1 ELSE 0)
                            - (IF x \in S THEN 1 ELSE 0)
<1> DEFINE R == S \ {x}
<1>1. IsFiniteSet(R) /\ Cardinality(R) \in Nat
  BY FS_RemoveElement, FS_CardinalityType
<1>2. x \notin R
  OBVIOUS
<1>3. Cardinality(S) = Cardinality(R) + (IF x \in S THEN 1 ELSE 0)
  <2>1. CASE x \in S
    <3>1. S = R \cup {x}
      BY <2>1
    <3> HIDE DEF R
    <3> QED BY <1>1, <1>2, <2>1, <3>1, FS_AddElement
  <2>2. CASE x \notin S
    <3>1. S = R
      BY <2>2
    <3> HIDE DEF R
    <3> QED BY <1>1, <2>2, <3>1
  <2> QED BY <2>1, <2>2
<1>4. Cardinality(T) = Cardinality(R) + (IF x \in T THEN 1 ELSE 0)
  <2>1. CASE x \in T
    <3>1. T = R \cup {x}
      BY <2>1
    <3> HIDE DEF R
    <3> QED BY <1>1, <1>2, <2>1, <3>1, FS_AddElement
  <2>2. CASE x \notin T
    <3>1. T = R
      BY <2>2
    <3> HIDE DEF R
    <3> QED BY <1>1, <2>2, <3>1
  <2> QED BY <2>1, <2>2
<1> HIDE DEF R
<1> QED BY <1>1, <1>3, <1>4

(* Whether a transform waits for the fallback, as a number.                *)
One(r) == IF r.pc = "compressing" THEN 1 ELSE 0

(* A transform moves.                                                      *)
LEMMA TransformMoves ==
  ASSUME Types, events \in EventCounts, NEW t \in Transforms, NEW r,
         transform' = [transform EXCEPT ![t] = r]
  PROVE  Cardinality(Compressing') = Cardinality(Compressing) + One(r) - One(transform[t])
<1>1. transform'[t] = r /\ \A u \in Transforms : u # t => transform'[u] = transform[u]
  BY DEF Types
<1>2. /\ Compressing \ {t} = Compressing' \ {t}
      /\ t \in Compressing <=> transform[t].pc = "compressing"
      /\ t \in Compressing' <=> r.pc = "compressing"
  BY <1>1 DEF Compressing
<1>3. IsFiniteSet(Compressing)
  BY FinishedTyped
<1> DEFINE S == Compressing
           T == Compressing'
<1> HIDE DEF S, T
<1>4. Cardinality(T) = Cardinality(S) + (IF t \in T THEN 1 ELSE 0) - (IF t \in S THEN 1 ELSE 0)
  BY <1>2, <1>3, CountMoves DEF S, T
<1>5. (IF t \in T THEN 1 ELSE 0) = One(r) /\ (IF t \in S THEN 1 ELSE 0) = One(transform[t])
  BY <1>2 DEF One, S, T
<1> QED BY <1>4, <1>5 DEF S, T

(* The loop goes on: the run it leaves is finished, the one it starts not. *)
LEMMA ContinueCounts ==
  ASSUME Types, events \in EventCounts, NEW t \in Transforms, NEW left,
         left \subseteq Calls, Continue(t, left), UNCHANGED <<events, hook>>
  PROVE  Finished' = Finished + One(transform[t])
<1> DEFINE r == transform[t]
           J == Compressible(r, left)
           one == One(transform[t])
<1>1. J \subseteq Calls /\ J \subseteq Nat
  BY PluginAssumption DEF Compressible
<1>2. attempts \in [Calls -> Nat] /\ IsFiniteSet(Calls) /\ r \in TransformRecord
  BY TelemetryAssumption DEF Types
<1>3. /\ Total(attempts) \in Int /\ Cardinality(Compressing) \in Nat
      /\ Cardinality(Awaited) \in Nat /\ events.hooks \in Nat
  BY FinishedTyped
<1>4. Awaited' = Awaited
  BY DEF Awaited
<1>5. Total(attempts') - Cardinality(Compressing') =
      Total(attempts) - Cardinality(Compressing) + one
  <2>1. CASE J = {}
    <3>1. PICK q : /\ q.pc = "settling" /\ transform' = [transform EXCEPT ![t] = q]
                   /\ attempts' = attempts
      <4> DEFINE q == [r EXCEPT !.pc = "settling", !.at = 0,
                                !.processed = @ \cup Met(r, left)]
      <4>1. transform' = [transform EXCEPT ![t] = q] /\ attempts' = attempts
        BY <2>1, Zenon DEF Continue
      <4>2. q.pc = "settling"
        BY <1>2 DEF TransformRecord
      <4> HIDE DEF q
      <4> QED BY <4>1, <4>2
    <3>2. Cardinality(Compressing') = Cardinality(Compressing) + 0 - one
      <4>1. Cardinality(Compressing') = Cardinality(Compressing) + One(q) - one
        BY <3>1, TransformMoves, Zenon
      <4>2. One(q) = 0
        BY <3>1 DEF One
      <4> HIDE DEF one
      <4> QED BY <4>1, <4>2
    <3> HIDE DEF one
    <3>3. one \in Int
      BY DEF one, One
    <3> QED BY <1>3, <3>1, <3>2, <3>3
  <2>2. CASE J # {}
    <3>1. PICK q : /\ q.pc = "compressing" /\ transform' = [transform EXCEPT ![t] = q]
                   /\ attempts' = [attempts EXCEPT ![Min(J)] = @ + 1]
      <4> DEFINE q == [r EXCEPT !.pc = "compressing", !.at = Min(J),
                                !.processed = @ \cup Met(r, {c \in left : c <= Min(J)})]
      <4>1. /\ transform' = [transform EXCEPT ![t] = q]
            /\ attempts' = [attempts EXCEPT ![Min(J)] = @ + 1]
        BY <2>2, Zenon DEF Continue
      <4>2. q.pc = "compressing"
        BY <1>2 DEF TransformRecord
      <4> HIDE DEF q
      <4> QED BY <4>1, <4>2
    <3>2. Cardinality(Compressing') = Cardinality(Compressing) + 1 - one
      <4>1. Cardinality(Compressing') = Cardinality(Compressing) + One(q) - one
        BY <3>1, TransformMoves, Zenon
      <4>2. One(q) = 1
        BY <3>1 DEF One
      <4> HIDE DEF one
      <4> QED BY <4>1, <4>2
    <3>3. Min(J) \in Calls
      BY <1>1, <2>2, MinIsLeast
    <3>4. Total(attempts') = Total(attempts) + 1
      BY <1>2, <3>1, <3>3, SumCounted
    <3> HIDE DEF one
    <3>5. one \in Int
      BY DEF one, One
    <3> QED BY <1>3, <3>2, <3>4, <3>5
  <2> QED BY <2>1, <2>2
<1>6. Finished' = Total(attempts') - Cardinality(Compressing') + events.hooks - Cardinality(Awaited)
  BY <1>4 DEF Finished
<1>7. Finished' = Finished + one
  <2>1. one \in Int
    BY DEF One
  <2> HIDE DEF one
  <2>2. Total(attempts') - Cardinality(Compressing') \in Int
    BY <1>3, <1>5, <2>1
  <2> QED BY <1>3, <1>5, <1>6, <2>1, <2>2 DEF Finished
<1> QED BY <1>7

(* A step that records nothing: no run is finished by it.                  *)
LEMMA UnrecordedKeeps ==
  ASSUME TelemetryInv, UNCHANGED <<telemetry, forgotten>>, Finished' = Finished,
         events' \in EventCounts, events'.retrievals = events.retrievals,
         hook' \in [Hooks -> BOOLEAN]
  PROVE  TelemetryInv'
BY DEF TelemetryInv

(* What Finished depends on.                                               *)
LEMMA FinishedKept ==
  ASSUME UNCHANGED <<attempts, hook>>, events'.hooks = events.hooks,
         \A t \in Transforms :
           (transform'[t].pc = "compressing") = (transform[t].pc = "compressing")
  PROVE  Finished' = Finished
<1>1. Compressing' = Compressing /\ Awaited' = Awaited
  BY DEF Compressing, Awaited
<1> QED BY <1>1 DEF Finished

(* A step that neither the telemetry nor what it counts takes part in.     *)
LEMMA UncountedKeeps ==
  ASSUME TelemetryInv, UNCHANGED <<telemetry, forgotten, attempts, hook>>,
         events' \in EventCounts, events'.hooks = events.hooks,
         events'.retrievals = events.retrievals,
         \A t \in Transforms :
           (transform'[t].pc = "compressing") = (transform[t].pc = "compressing")
  PROVE  TelemetryInv'
<1>1. Finished' = Finished
  BY FinishedKept
<1>2. hook' \in [Hooks -> BOOLEAN]
  BY DEF TelemetryInv
<1> QED BY <1>1, <1>2, UnrecordedKeeps

(* One run of tool.execute.after is finished, and one decision recorded.   *)
LEMMA DecidedKeeps ==
  ASSUME TelemetryInv, Types, NEW s, NEW d \in Decisions, Decided(s, d),
         UNCHANGED <<forgotten, events>>, hook' \in [Hooks -> BOOLEAN],
         Finished' = Finished + 1
  PROVE  TelemetryInv'
<1> DEFINE event == [d EXCEPT !.reason = IF d.outcome = "compressed" THEN d.outcome
                                         ELSE TelemetryReason(d.reason)]
           b == BucketOf(telemetry, s)
<1>1. telemetry' = WithBuckets(telemetry, s, Compressed(telemetry.global, event),
                               Compressed(b, event))
  BY Zenon DEF Decided, CompressionRecorded
<1>2. event \in Event /\ (event.reason = "compressed" <=> event.outcome = "compressed")
  <2>1. d \in [outcome : Outcomes, reason : STRING, saved : Nat]
          /\ (d.reason = "compressed" => d.outcome = "compressed")
    BY TelemetryAssumption
  <2> DEFINE reason == IF d.outcome = "compressed" THEN d.outcome ELSE TelemetryReason(d.reason)
  <2>2. reason \in AllReasons
    BY TelemetryAssumption DEF TelemetryReason, AllReasons
  <2>3. reason = "compressed" <=> d.outcome = "compressed"
    BY <2>1 DEF TelemetryReason
  <2>4. event = [d EXCEPT !.reason = reason]
    OBVIOUS
  <2> HIDE DEF reason, event
  <2>5. event.outcome = d.outcome /\ event.reason = reason /\ event \in Event
    BY <2>1, <2>2, <2>4 DEF Event
  <2> QED BY <2>3, <2>5
<1> HIDE DEF event
<1>3. telemetry.global \in Bucket /\ b \in Bucket /\ forgotten \in Bucket
        /\ SumsUp(telemetry, forgotten)
  BY EmptyTyped DEF TelemetryInv, SumsUp, TelemetryTyped, BucketOf
<1> HIDE DEF b
<1>4. \A c \in Bucket : telemetry.global = Plus(b, c)
        => Compressed(telemetry.global, event) = Plus(Compressed(b, event), c)
  BY <1>2, <1>3, CompressedCounts
<1>5. Compressed(telemetry.global, event) \in Bucket /\ Compressed(b, event) \in Bucket
  BY <1>2, <1>3, CompressedCounts
<1>6. SumsUp(telemetry', forgotten)
  <2>1. \A c \in Bucket : telemetry.global = Plus(BucketOf(telemetry, s), c)
          => Compressed(telemetry.global, event) = Plus(Compressed(b, event), c)
    BY <1>4 DEF b
  <2> QED BY <1>1, <1>3, <1>5, <2>1, RecordedSumsUp
<1>7. Finished \in Int /\ events.retrievals \in Int
  BY FinishedTyped DEF TelemetryInv
<1>8. Tallied(telemetry.global, Finished, events.retrievals)
  BY DEF TelemetryInv
<1>9. Tallied(Compressed(telemetry.global, event), Finished + 1, events.retrievals)
  BY <1>2, <1>3, <1>7, <1>8, CompressedCounts
<1>10. telemetry'.global = Compressed(telemetry.global, event)
  BY <1>1 DEF WithBuckets
<1>11. Tallied(telemetry'.global, Finished', events'.retrievals)
  BY <1>9, <1>10
<1> QED BY <1>3, <1>6, <1>11 DEF TelemetryInv

(* An answered retrieval is counted, also one whose hash is refused.       *)
LEMMA RetrieveKeeps ==
  ASSUME TelemetryInv, Types, NEW call \in RetrievalCalls, Retrieve(call)
  PROVE  TelemetryInv'
<1> DEFINE event == Retrieval(call)
           s == call.session
           b == BucketOf(telemetry, s)
<1>1. /\ telemetry' = WithBuckets(telemetry, s, Retrieved(telemetry.global, event),
                                  Retrieved(b, event))
      /\ events' = [events EXCEPT !.retrievals = @ + 1]
      /\ UNCHANGED <<forgotten, hook, attempts, transform>>
  BY Zenon DEF Retrieve, RetrievalRecorded
<1>2. event.mode \in Modes /\ event.tokens \in Nat
  BY TelemetryAssumption DEF Retrieval
<1> HIDE DEF event, s
<1>3. telemetry.global \in Bucket /\ b \in Bucket /\ forgotten \in Bucket
        /\ SumsUp(telemetry, forgotten)
  BY EmptyTyped DEF TelemetryInv, SumsUp, TelemetryTyped, BucketOf
<1> HIDE DEF b
<1>4. \A c \in Bucket : telemetry.global = Plus(b, c)
        => Retrieved(telemetry.global, event) = Plus(Retrieved(b, event), c)
  BY <1>2, <1>3, RetrievedCounts
<1>5. Retrieved(telemetry.global, event) \in Bucket /\ Retrieved(b, event) \in Bucket
  BY <1>2, <1>3, RetrievedCounts
<1>6. SumsUp(telemetry', forgotten)
  <2>1. \A c \in Bucket : telemetry.global = Plus(BucketOf(telemetry, s), c)
          => Retrieved(telemetry.global, event) = Plus(Retrieved(b, event), c)
    BY <1>4 DEF b
  <2> QED BY <1>1, <1>3, <1>5, <2>1, RecordedSumsUp
<1>7. /\ events' \in EventCounts /\ events'.hooks = events.hooks
      /\ events'.retrievals = events.retrievals + 1
  BY <1>1 DEF TelemetryInv, EventCounts
<1>8. Finished' = Finished
  BY <1>1, <1>7, FinishedKept
<1>9. Finished \in Int /\ events.retrievals \in Int
  BY FinishedTyped DEF TelemetryInv
<1>10. Tallied(telemetry.global, Finished, events.retrievals)
  BY DEF TelemetryInv
<1>11. Tallied(Retrieved(telemetry.global, event), Finished, events.retrievals + 1)
  BY <1>2, <1>3, <1>9, <1>10, RetrievedCounts
<1>12. telemetry'.global = Retrieved(telemetry.global, event)
  BY <1>1 DEF WithBuckets
<1>13. Tallied(telemetry'.global, Finished', events'.retrievals)
  BY <1>7, <1>8, <1>11, <1>12
<1>14. hook' \in [Hooks -> BOOLEAN]
  BY <1>1 DEF TelemetryInv
<1> QED BY <1>1, <1>3, <1>6, <1>7, <1>13, <1>14 DEF TelemetryInv

(* A deleted session takes its counts along.                               *)
LEMMA DeleteSessionKeeps ==
  ASSUME TelemetryInv, NEW s \in Sessions, DeleteSession(s)
  PROVE  TelemetryInv'
<1>1. /\ telemetry' = Forgotten(telemetry, s)
      /\ forgotten' = Plus(forgotten, BucketOf(telemetry, s))
      /\ events' = [events EXCEPT !.deletions = @ + 1]
      /\ UNCHANGED <<hook, attempts, transform>>
  BY Zenon DEF DeleteSession
<1>2. forgotten \in Bucket /\ SumsUp(telemetry, forgotten)
  BY DEF TelemetryInv
<1>3. /\ BucketOf(telemetry, s) \in Bucket
      /\ Forgotten(telemetry, s).global = telemetry.global
      /\ SumsUp(Forgotten(telemetry, s), Plus(forgotten, BucketOf(telemetry, s)))
  BY <1>2, ForgottenSumsUp
<1>4. forgotten' \in Bucket
  BY <1>1, <1>2, <1>3, PlusTyped
<1>5. /\ events' \in EventCounts /\ events'.hooks = events.hooks
      /\ events'.retrievals = events.retrievals
  BY <1>1 DEF TelemetryInv, EventCounts
<1>6. Finished' = Finished
  BY <1>1, <1>5, FinishedKept
<1>7. Tallied(telemetry'.global, Finished', events'.retrievals)
  BY <1>1, <1>3, <1>5, <1>6 DEF TelemetryInv
<1>8. hook' \in [Hooks -> BOOLEAN]
  BY <1>1 DEF TelemetryInv
<1>9. SumsUp(telemetry', forgotten')
  BY <1>1, <1>3
<1> QED BY <1>4, <1>5, <1>7, <1>8, <1>9 DEF TelemetryInv
-----------------------------------------------------------------------------
(* At the start nothing is counted.                                        *)
LEMMA InitTelemetryInv ==
  ASSUME Init
  PROVE  TelemetryInv
<1>1. /\ telemetry = NoTelemetry /\ forgotten = EmptyBucket
      /\ events = [hooks |-> 0, retrievals |-> 0, rejections |-> 0, deletions |-> 0,
                   evictions |-> 0]
      /\ hook = [h \in Hooks |-> FALSE] /\ attempts = [c \in Calls |-> 0]
      /\ transform = [t \in Transforms |-> Idle]
  BY Zenon DEF Init
<1>2. EmptyBucket \in Bucket
  BY EmptyTyped
<1>3. SumsUp(telemetry, forgotten)
  <2> DEFINE f == telemetry.sessions
  <2>1. /\ telemetry = [global |-> EmptyBucket, sessions |-> << >>]
    BY <1>1 DEF NoTelemetry
  <2>2. /\ telemetry = [global |-> telemetry.global, sessions |-> f]
        /\ telemetry.global = EmptyBucket /\ f = << >>
    BY <2>1
  <2>3. DOMAIN f = {} /\ f \in [{} -> Bucket]
    BY <2>2
  <2>4. IsFiniteSet({})
    BY FS_EmptySet
  <2> HIDE DEF f
  <2>5. PICK h : PlusesUp(f, {}, EmptyBucket, h)
    BY <1>2, <2>3, <2>4, PlusSteps, Zenon
  <2>6. Together(EmptyBucket, f) = EmptyBucket
    BY <2>5 DEF PlusesUp
  <2>7. /\ telemetry = [global |-> telemetry.global, sessions |-> telemetry.sessions]
        /\ telemetry.sessions \in [DOMAIN telemetry.sessions -> Bucket]
        /\ IsFiniteSet(DOMAIN telemetry.sessions)
        /\ telemetry.global = Together(EmptyBucket, telemetry.sessions)
    BY <2>2, <2>3, <2>4, <2>6 DEF f
  <2> QED BY <1>1, <1>2, <2>2, <2>7 DEF SumsUp, TelemetryTyped
<1>4. events \in EventCounts /\ hook \in [Hooks -> BOOLEAN]
  BY <1>1 DEF EventCounts
<1>5. Finished = 0
  <2>1. Compressing = {} /\ Awaited = {}
    BY <1>1 DEF Compressing, Awaited, Idle
  <2>2. Cardinality({}) = 0
    BY FS_EmptySet
  <2>3. Total(attempts) = 0
    BY <1>1, SumZero, TelemetryAssumption
  <2>4. events.hooks = 0
    BY <1>1
  <2> QED BY <2>1, <2>2, <2>3, <2>4 DEF Finished
<1>6. Tallied(telemetry.global, 0, 0)
  <2>1. IsFiniteSet(Outcomes) /\ IsFiniteSet(AllReasons)
    BY CountedSetsFinite
  <2>2. /\ EmptyBucket.outcomes = [o \in Outcomes |-> 0]
        /\ EmptyBucket.reasons = [r \in AllReasons |-> 0]
        /\ EmptyBucket.retrievals = 0 /\ EmptyBucket.samples = 0
        /\ EmptyBucket.misses = 0 /\ EmptyBucket.full = 0
    BY DEF EmptyBucket
  <2>3. telemetry.global = EmptyBucket
    BY <1>1 DEF NoTelemetry
  <2>4. "compressed" \in Outcomes /\ "compressed" \in AllReasons
    BY TelemetryAssumption DEF Outcomes, AllReasons
  <2> HIDE DEF EmptyBucket
  <2>5. Total(EmptyBucket.outcomes) = 0 /\ Total(EmptyBucket.reasons) = 0
    BY <2>1, <2>2, SumZero
  <2>6. EmptyBucket.reasons["compressed"] = 0 /\ EmptyBucket.outcomes["compressed"] = 0
    BY <2>2, <2>4
  <2> QED BY <2>2, <2>3, <2>5, <2>6 DEF Tallied
<1>7. events.retrievals = 0
  BY <1>1
<1> QED BY <1>1, <1>2, <1>3, <1>4, <1>5, <1>6, <1>7 DEF TelemetryInv

(* A hook with text starts, and finishes.                                  *)
LEMMA HookStepsKeep ==
  ASSUME TelemetryInv, Types, NEW h \in Hooks, StartHook(h) \/ FinishHook(h)
  PROVE  TelemetryInv'
<1> DEFINE S == Awaited
           T == Awaited'
<1>1. /\ IsFiniteSet(S) /\ Cardinality(S) \in Nat /\ Cardinality(Compressing) \in Nat
      /\ Total(attempts) \in Int /\ events.hooks \in Nat /\ hook \in [Hooks -> BOOLEAN]
  BY FinishedTyped DEF TelemetryInv
<1>2. CASE StartHook(h)
  <2>1. /\ ~hook[h] /\ hook' = [hook EXCEPT ![h] = TRUE]
        /\ events' = [events EXCEPT !.hooks = @ + 1]
        /\ UNCHANGED <<telemetry, forgotten, transform, attempts>>
    BY <1>2, Zenon DEF StartHook, pluginVars
  <2>2. S \ {h} = T \ {h} /\ h \in T /\ h \notin S
    BY <1>1, <2>1 DEF Awaited
  <2>3. hook' \in [Hooks -> BOOLEAN]
    BY <1>1, <2>1
  <2>4. /\ events' \in EventCounts /\ events'.hooks = events.hooks + 1
        /\ events'.retrievals = events.retrievals
    BY <2>1 DEF TelemetryInv, EventCounts
  <2>5. Compressing' = Compressing
    BY <2>1 DEF Compressing
  <2> HIDE DEF S, T
  <2>6. Cardinality(T) = Cardinality(S) + 1
    <3>1. Cardinality(T) = Cardinality(S) + (IF h \in T THEN 1 ELSE 0)
                             - (IF h \in S THEN 1 ELSE 0)
      BY <1>1, <2>2, CountMoves
    <3> QED BY <1>1, <2>2, <3>1
  <2>7. Finished' = Finished
    <3>1. Finished = Total(attempts) - Cardinality(Compressing) + events.hooks - Cardinality(S)
      BY DEF Finished, S
    <3>2. Finished' = Total(attempts) - Cardinality(Compressing) + (events.hooks + 1)
                        - Cardinality(T)
      BY <2>1, <2>4, <2>5 DEF Finished, T
    <3> QED BY <1>1, <2>6, <3>1, <3>2
  <2> QED BY <2>1, <2>3, <2>4, <2>7, UnrecordedKeeps
<1>3. CASE FinishHook(h)
  <2>1. PICK d \in Decisions :
          /\ Decided(HookSession[h], d)
          /\ hook[h] /\ hook' = [hook EXCEPT ![h] = FALSE]
          /\ UNCHANGED <<forgotten, transform, attempts, events>>
    BY <1>3, Zenon DEF FinishHook
  <2>2. S \ {h} = T \ {h} /\ h \notin T /\ h \in S
    BY <1>1, <2>1 DEF Awaited
  <2>3. hook' \in [Hooks -> BOOLEAN]
    BY <1>1, <2>1
  <2>4. Compressing' = Compressing
    BY <2>1 DEF Compressing
  <2> HIDE DEF S, T
  <2>5. Cardinality(T) = Cardinality(S) - 1
    <3>1. Cardinality(T) = Cardinality(S) + (IF h \in T THEN 1 ELSE 0)
                             - (IF h \in S THEN 1 ELSE 0)
      BY <1>1, <2>2, CountMoves
    <3> QED BY <1>1, <2>2, <3>1
  <2>6. Finished' = Finished + 1
    <3>1. Finished = Total(attempts) - Cardinality(Compressing) + events.hooks - Cardinality(S)
      BY DEF Finished, S
    <3>2. Finished' = Total(attempts) - Cardinality(Compressing) + events.hooks - Cardinality(T)
      BY <2>1, <2>4 DEF Finished, T
    <3> QED BY <1>1, <2>5, <3>1, <3>2
  <2> QED BY <2>1, <2>3, <2>6, DecidedKeeps
<1> QED BY <1>2, <1>3

(* The loop of a transform goes on, before or after the fallback has       *)
(* recorded a decision.                                                    *)
LEMMA LoopStepsCount ==
  ASSUME TelemetryInv, Types, NEW t \in Transforms,
         ReadLifecycleReturns(t) \/ FallbackReturns(t)
  PROVE  TelemetryInv'
<1>1. transform[t].request \subseteq Calls
  BY DEF Types, TransformRecord
<1>2. events \in EventCounts /\ hook \in [Hooks -> BOOLEAN] /\ Finished \in Int
  BY FinishedTyped DEF TelemetryInv
<1>3. CASE ReadLifecycleReturns(t)
  <2>1. /\ transform[t].pc = "reading" /\ Continue(t, transform[t].request)
        /\ UNCHANGED <<telemetry, forgotten, hook, events>>
    BY <1>3, Zenon DEF ReadLifecycleReturns
  <2>2. Finished' = Finished + One(transform[t])
    BY <1>1, <1>2, <2>1, ContinueCounts
  <2>3. One(transform[t]) = 0
    BY <2>1 DEF One
  <2>4. Finished' = Finished
    BY <1>2, <2>2, <2>3
  <2>5. /\ events' \in EventCounts /\ events'.retrievals = events.retrievals
        /\ hook' \in [Hooks -> BOOLEAN]
    BY <1>2, <2>1
  <2> QED BY <2>1, <2>4, <2>5, UnrecordedKeeps
<1>4. CASE FallbackReturns(t)
  <2> DEFINE left == {c \in transform[t].request : c > transform[t].at}
  <2>1. PICK d \in Decisions :
          /\ Decided(transform[t].session, d)
          /\ transform[t].pc = "compressing" /\ Continue(t, left)
          /\ UNCHANGED <<forgotten, hook, events>>
    BY <1>4, Zenon DEF FallbackReturns
  <2>2. left \subseteq Calls
    BY <1>1
  <2> HIDE DEF left
  <2>3. Finished' = Finished + One(transform[t])
    BY <1>2, <2>1, <2>2, ContinueCounts
  <2>4. One(transform[t]) = 1
    BY <2>1 DEF One
  <2>5. Finished' = Finished + 1 /\ hook' \in [Hooks -> BOOLEAN]
    BY <1>2, <2>1, <2>3, <2>4
  <2> QED BY <2>1, <2>5, DecidedKeeps
<1> QED BY <1>3, <1>4

(* The other steps of a transform.                                         *)
LEMMA OtherTransformStepsCount ==
  ASSUME TelemetryInv, Types, NEW t \in Transforms,
         \/ \E s \in Followed : OpenWindow(t, s)
         \/ ReadLifecycleThrows(t) \/ Settle(t)
  PROVE  TelemetryInv'
<1>1. /\ UNCHANGED <<telemetry, forgotten, attempts, hook, events>>
      /\ transform[t].pc # "compressing"
      /\ \E r : r.pc # "compressing" /\ transform' = [transform EXCEPT ![t] = r]
  <2>1. Idle.pc # "compressing"
    BY DEF Idle
  <2>2. ASSUME NEW s \in Followed, OpenWindow(t, s)
        PROVE  /\ UNCHANGED <<telemetry, forgotten, attempts, hook, events>>
               /\ transform[t].pc # "compressing"
               /\ \E r : r.pc # "compressing" /\ transform' = [transform EXCEPT ![t] = r]
    <3> DEFINE r == [Idle EXCEPT !.pc = "reading", !.session = s, !.request = History(s),
                                 !.live = Unseen(s, History(s))]
    <3>1. /\ transform[t].pc = "idle" /\ transform' = [transform EXCEPT ![t] = r]
          /\ UNCHANGED <<telemetry, forgotten, attempts, hook, events>>
      BY <2>2, Zenon DEF OpenWindow
    <3>2. r.pc = "reading"
      BY DEF Idle
    <3> HIDE DEF r
    <3> QED BY <3>1, <3>2
  <2>3. ASSUME ReadLifecycleThrows(t) \/ Settle(t)
        PROVE  /\ UNCHANGED <<telemetry, forgotten, attempts, hook, events>>
               /\ transform[t].pc # "compressing"
               /\ transform' = [transform EXCEPT ![t] = Idle]
    BY <2>3 DEF ReadLifecycleThrows, Settle
  <2> QED BY <2>1, <2>2, <2>3
<1>2. \A u \in Transforms :
        (transform'[u].pc = "compressing") = (transform[u].pc = "compressing")
  BY <1>1 DEF Types
<1>3. events' \in EventCounts /\ events'.hooks = events.hooks
        /\ events'.retrievals = events.retrievals
  BY <1>1 DEF TelemetryInv
<1> QED BY <1>1, <1>2, <1>3, UncountedKeeps

(* The steps that touch neither a transform nor the telemetry; the throw   *)
(* of a retrieval's lookup is one.                                         *)
LEMMA RemainingStepsCount ==
  ASSUME TelemetryInv,
         \/ UNCHANGED vars
         \/ \E c \in Calls : MarkPending(c) \/ Complete(c)
         \/ \E call \in RetrievalCalls : RetrieveThrows(call)
         \/ \E s \in Sessions : Evict(s)
         \/ CloseAndDrain \/ Dispose
  PROVE  TelemetryInv'
<1>1. /\ UNCHANGED <<telemetry, forgotten, attempts, hook, transform>>
      /\ \/ events' = events
         \/ events' = [events EXCEPT !.evictions = @ + 1]
         \/ events' = [events EXCEPT !.rejections = @ + 1]
  BY Zenon DEF vars, pluginVars, MarkPending, Complete, RetrieveThrows, Evict,
               CloseAndDrain, Dispose
<1>2. events' \in EventCounts /\ events'.hooks = events.hooks
        /\ events'.retrievals = events.retrievals
  BY <1>1 DEF TelemetryInv, EventCounts
<1> QED BY <1>1, <1>2, UncountedKeeps

(* Every step keeps the counts balanced.                                   *)
LEMMA NextTelemetryInv ==
  ASSUME IInv, TelemetryInv, [Next]_vars
  PROVE  TelemetryInv'
<1>1. Types
  BY DEF IInv
<1>2. ASSUME NEW t \in Transforms,
             \/ \E s \in Followed : OpenWindow(t, s)
             \/ ReadLifecycleThrows(t) \/ Settle(t)
      PROVE  TelemetryInv'
  BY <1>1, <1>2, OtherTransformStepsCount
<1>3. ASSUME NEW t \in Transforms, ReadLifecycleReturns(t) \/ FallbackReturns(t)
      PROVE  TelemetryInv'
  BY <1>1, <1>3, LoopStepsCount
<1>4. ASSUME NEW h \in Hooks, StartHook(h) \/ FinishHook(h) PROVE TelemetryInv'
  BY <1>1, <1>4, HookStepsKeep
<1>5. ASSUME NEW call \in RetrievalCalls, Retrieve(call) PROVE TelemetryInv'
  BY <1>1, <1>5, RetrieveKeeps
<1>6. ASSUME NEW s \in Sessions, DeleteSession(s) PROVE TelemetryInv'
  BY <1>6, DeleteSessionKeeps
<1>7. ASSUME \/ UNCHANGED vars
             \/ \E c \in Calls : MarkPending(c) \/ Complete(c)
             \/ \E call \in RetrievalCalls : RetrieveThrows(call)
             \/ \E s \in Sessions : Evict(s)
             \/ CloseAndDrain \/ Dispose
      PROVE  TelemetryInv'
  BY <1>7, RemainingStepsCount
<1> QED BY <1>2, <1>3, <1>4, <1>5, <1>6, <1>7, Zenon DEF Next
-----------------------------------------------------------------------------
(* The counts of the telemetry balance in every reachable state: each run  *)
(* of a hook is counted once when it has finished, however it ends; each   *)
(* retrieval that is answered once, and one whose lookup throws not at     *)
(* all; and what deletions took away, with the buckets that are left or    *)
(* came back, is what the global bucket holds.                             *)
THEOREM TelemetryBalances == Spec => []TelemetryBalanced
<1>1. Init => IInv /\ TelemetryInv
  BY InitIInv, InitTelemetryInv
<1>2. IInv /\ TelemetryInv /\ [Next]_vars => (IInv /\ TelemetryInv)'
  BY NextIInv, NextTelemetryInv
<1>3. IInv /\ TelemetryInv => TelemetryBalanced
  <2> SUFFICES ASSUME TelemetryInv PROVE TelemetryBalanced
    OBVIOUS
  <2>1. /\ telemetry.global = FoldFunction(Plus, forgotten, telemetry.sessions)
        /\ Tallied(telemetry.global, Finished, events.retrievals)
    BY Zenon DEF TelemetryInv, SumsUp, Together
  <2> QED BY <2>1, Zenon DEF TelemetryBalanced, Tallied, Finished, Compressing, Awaited
<1> QED BY <1>1, <1>2, <1>3, PTL DEF Spec
-----------------------------------------------------------------------------
(* The path that was resolved is a name within the roots once that has     *)
(* been checked; whoever replaces it leads it outside, and counts as a     *)
(* change.                                                                 *)
CanonicalKnown ==
  /\ reader.pc \in {"roots", "open", "fstat", "reresolve"} =>
       /\ reader.canonical \in Names
       /\ names[reader.canonical].kind \in {"link", "moved"} =>
            names[reader.canonical].to \notin Inside
       /\ names[reader.canonical].kind # "file" => changes >= 1
  /\ reader.pc \in {"open", "fstat", "reresolve"} => reader.canonical \in Inside

(* A file that was opened elsewhere is behind a name that has changed, and *)
(* is not taken for the one at the path unless it has changed back.        *)
OpenedKnown ==
  /\ reader.pc \in {"fstat", "reresolve"} =>
       \/ reader.file \in shown
       \/ changes >= 1 /\ names[reader.canonical].kind # "file"
       \/ changes >= 2
  /\ reader.pc = "stat" =>
       /\ reader.current \in Inside
       /\ \/ reader.file \in shown
          \/ changes >= 2 /\ names[reader.current].kind = "file"
  /\ reader.pc = "read" => reader.file \in shown
  /\ reader.pc \in {"reresolve", "stat", "read"} => reader.file \in Regular

(* What a reader knows after each of its system calls.                    *)
FileInv ==
  /\ reader.pc \in {"idle", "resolve", "roots", "open", "fstat", "reresolve", "stat",
                    "read", "done"}
  /\ reader = [pc |-> reader.pc, canonical |-> reader.canonical, file |-> reader.file,
               current |-> reader.current, total |-> reader.total, reason |-> reader.reason]
  /\ reader.total \in 0 .. MaxOutputChars
  /\ names \in [Names -> PathEntries] /\ changes \in Nat
  /\ Calling => ShownInside(names) \subseteq shown
  /\ CanonicalKnown
  /\ OpenedKnown
  /\ FileReadTrusted

(* realpath succeeds on a file and on what leads to one.                   *)
LEMMA PathsLeadToFiles ==
  ASSUME names \in [Names -> PathEntries], NEW n \in Names, RealPath(names, n) # Nowhere
  PROVE  /\ RealPath(names, n) \in Names /\ names[RealPath(names, n)].kind = "file"
         /\ names[n].kind = "file" => RealPath(names, n) = n
         /\ names[n].kind # "file" => /\ names[n].kind \in {"link", "moved"}
                                      /\ RealPath(names, n) = names[n].to
<1>1. names[n] \in PathEntries
  OBVIOUS
<1>2. CASE names[n].kind = "file"
  BY <1>2, Zenon DEF RealPath
<1>3. CASE names[n].kind = "absent"
  BY <1>3, SMT DEF RealPath
<1>4. CASE names[n].kind \in {"link", "moved"}
  <2>1. names[n].to \in Names
    BY <1>1, <1>4 DEF PathEntries, File, Link, Moved, Absent
  <2>2. RealPath(names, n) =
          IF names[names[n].to].kind = "file" THEN names[n].to ELSE Nowhere
    BY <1>4, SMT DEF RealPath
  <2> QED BY <1>4, <2>1, <2>2
<1>5. names[n].kind \in {"file", "absent", "link", "moved"}
  BY <1>1 DEF PathEntries, File, Link, Moved, Absent
<1> QED BY <1>2, <1>3, <1>4, <1>5

(* A refusal keeps the invariant: nothing is returned.                     *)
LEMMA RefusalKeeps ==
  ASSUME FileInv, NEW reason, reason # "none", Refuse(reason), StillFiles
  PROVE  FileInv'
<1>1. /\ reader' = [pc |-> "done", canonical |-> Nowhere, file |-> NoFile,
                    current |-> Nowhere, total |-> 0, reason |-> reason]
      /\ names' = names /\ changes' = changes /\ shown' = shown
  BY DEF Refuse, NoRead, StillFiles
<1>2. names \in [Names -> PathEntries] /\ changes \in Nat
  BY DEF FileInv
<1> QED BY <1>1, <1>2, OutputFileAssumption
        DEF FileInv, Calling, CanonicalKnown, OpenedKnown, FileReadTrusted

(* Every system call of the reader keeps the invariant.                    *)
LEMMA ReaderKeepsFiles ==
  ASSUME FileInv, Reader
  PROVE  FileInv'
<1> USE OutputFileAssumption
<1>1. CASE \E trusted \in BOOLEAN : Start(trusted)
  <2>1. PICK trusted \in BOOLEAN : Start(trusted)
    BY <1>1
  <2>2. names' = names /\ changes' = changes /\ shown' = ShownInside(names)
        /\ reader.pc = "idle"
    BY <2>1 DEF Start
  <2>3. ShownInside(names)' = ShownInside(names)
    BY <2>2 DEF ShownInside, FileAt, RealPath
  <2>4. CASE trusted
    <3>1. reader' = [reader EXCEPT !.pc = "resolve"]
      BY <2>1, <2>4 DEF Start, Goto
    <3> QED BY <2>2, <2>3, <3>1
            DEF FileInv, Calling, CanonicalKnown, OpenedKnown, FileReadTrusted
  <2>5. CASE ~trusted
    <3>1. reader' = [pc |-> "done", canonical |-> Nowhere, file |-> NoFile,
                     current |-> Nowhere, total |-> 0,
                     reason |-> "untrusted_output_path"]
      BY <2>1, <2>5 DEF Start, Refuse, NoRead
    <3> QED BY <2>2, <3>1
            DEF FileInv, Calling, CanonicalKnown, OpenedKnown, FileReadTrusted
  <2> QED BY <2>4, <2>5
<1>2. CASE Resolve
  <2>1. CASE RealPath(names, Candidate) = Nowhere
    <3>1. Refuse("output_path_read_error") /\ StillFiles
      BY <1>2, <2>1 DEF Resolve
    <3> QED BY <3>1, RefusalKeeps
  <2>2. CASE RealPath(names, Candidate) # Nowhere
    <3> DEFINE c == RealPath(names, Candidate)
    <3>1. /\ reader.pc = "resolve"
          /\ reader' = [reader EXCEPT !.pc = "roots", !.canonical = c]
          /\ names' = names /\ changes' = changes /\ shown' = shown
      BY <1>2, <2>2 DEF Resolve, StillFiles
    <3>2. names \in [Names -> PathEntries]
      BY DEF FileInv
    <3>3. c \in Names /\ names[c].kind = "file"
      BY <2>2, <3>2, PathsLeadToFiles
    <3>4. ShownInside(names)' = ShownInside(names)
      BY <3>1 DEF ShownInside, FileAt, RealPath
    <3> HIDE DEF c
    <3> QED BY <3>1, <3>3, <3>4
            DEF FileInv, Calling, CanonicalKnown, OpenedKnown, FileReadTrusted
  <2> QED BY <2>1, <2>2
<1>3. CASE \E rootResolves \in BOOLEAN : CheckRoot(rootResolves)
  <2>1. PICK rootResolves \in BOOLEAN : CheckRoot(rootResolves)
    BY <1>3
  <2>2. CASE rootResolves /\ Within(reader.canonical)
    <3>1. /\ reader.pc = "roots" /\ reader.canonical \in Inside
          /\ reader' = [reader EXCEPT !.pc = "open"]
          /\ names' = names /\ changes' = changes /\ shown' = shown
      BY <2>1, <2>2 DEF CheckRoot, Goto, Within, StillFiles
    <3>2. ShownInside(names)' = ShownInside(names)
      BY <3>1 DEF ShownInside, FileAt, RealPath
    <3> QED BY <3>1, <3>2
            DEF FileInv, Calling, CanonicalKnown, OpenedKnown, FileReadTrusted
  <2>3. CASE ~(rootResolves /\ Within(reader.canonical))
    <3>1. Refuse("untrusted_output_path") /\ StillFiles
      BY <2>1, <2>3 DEF CheckRoot
    <3> QED BY <3>1, RefusalKeeps
  <2> QED BY <2>2, <2>3
<1>4. CASE Open
  <2> DEFINE f == FileAt(names, reader.canonical)
  <2>1. CASE names[reader.canonical].kind = "link" \/ f = NoFile
    <3>1. Refuse("output_path_read_error") /\ StillFiles
      BY <1>4, <2>1 DEF Open
    <3> QED BY <3>1, RefusalKeeps
  <2>2. CASE ~(names[reader.canonical].kind = "link" \/ f = NoFile)
    <3>1. /\ reader.pc = "open"
          /\ reader' = [reader EXCEPT !.pc = "fstat", !.file = f]
          /\ names' = names /\ changes' = changes /\ shown' = shown
      BY <1>4, <2>2 DEF Open, StillFiles
    <3>2. ShownInside(names)' = ShownInside(names)
      BY <3>1 DEF ShownInside, FileAt, RealPath
    <3>3. reader.canonical \in Inside /\ ShownInside(names) \subseteq shown
      BY <3>1 DEF FileInv, CanonicalKnown, Calling
    <3>4. names[reader.canonical].kind = "file" => f \in shown
      BY <3>3 DEF ShownInside
    <3> HIDE DEF f
    <3> QED BY <3>1, <3>2, <3>4
            DEF FileInv, Calling, CanonicalKnown, OpenedKnown, FileReadTrusted
  <2> QED BY <2>1, <2>2
<1>5. CASE Fstat
  <2>1. CASE reader.file \notin Regular
    <3>1. Refuse("output_path_not_regular") /\ StillFiles
      BY <1>5, <2>1 DEF Fstat
    <3> QED BY <3>1, RefusalKeeps
  <2>2. CASE reader.file \in Regular /\ size[reader.file] > MaxOutputChars
    <3>1. Refuse("output_path_too_large") /\ StillFiles
      BY <1>5, <2>2 DEF Fstat
    <3> QED BY <3>1, RefusalKeeps
  <2>3. CASE reader.file \in Regular /\ ~(size[reader.file] > MaxOutputChars)
    <3>1. /\ reader.pc = "fstat"
          /\ reader' = [reader EXCEPT !.pc = "reresolve"]
          /\ names' = names /\ changes' = changes /\ shown' = shown
      BY <1>5, <2>3 DEF Fstat, Goto, StillFiles
    <3>2. ShownInside(names)' = ShownInside(names)
      BY <3>1 DEF ShownInside, FileAt, RealPath
    <3> QED BY <2>3, <3>1, <3>2
            DEF FileInv, Calling, CanonicalKnown, OpenedKnown, FileReadTrusted
  <2> QED BY <2>1, <2>2, <2>3
<1>6. CASE Reresolve
  <2> DEFINE c == RealPath(names, reader.canonical)
  <2>1. CASE c = Nowhere
    <3>1. Refuse("output_path_read_error") /\ StillFiles
      BY <1>6, <2>1 DEF Reresolve
    <3> QED BY <3>1, RefusalKeeps
  <2>2. CASE c # Nowhere /\ ~Within(c)
    <3>1. Refuse("untrusted_output_path") /\ StillFiles
      BY <1>6, <2>2 DEF Reresolve
    <3> QED BY <3>1, RefusalKeeps
  <2>3. CASE c # Nowhere /\ Within(c)
    <3>1. /\ reader.pc = "reresolve" /\ c \in Inside
          /\ reader' = [reader EXCEPT !.pc = "stat", !.current = c]
          /\ names' = names /\ changes' = changes /\ shown' = shown
      BY <1>6, <2>3 DEF Reresolve, Within, StillFiles
    <3>2. ShownInside(names)' = ShownInside(names)
      BY <3>1 DEF ShownInside, FileAt, RealPath
    <3>3. names \in [Names -> PathEntries] /\ reader.canonical \in Names
      BY <3>1 DEF FileInv, CanonicalKnown
    <3>4. /\ names[c].kind = "file"
          /\ names[reader.canonical].kind # "file" =>
               /\ names[reader.canonical].kind \in {"link", "moved"}
               /\ c = names[reader.canonical].to
      BY <2>3, <3>3, PathsLeadToFiles
    <3> HIDE DEF c
    <3>5. names[reader.canonical].kind = "file"
      BY <3>1, <3>4 DEF FileInv, CanonicalKnown
    <3> QED BY <3>1, <3>2, <3>4, <3>5
            DEF FileInv, Calling, CanonicalKnown, OpenedKnown, FileReadTrusted
  <2> QED BY <2>1, <2>2, <2>3
<1>7. CASE Stat
  <2> DEFINE f == FileAt(names, reader.current)
  <2>1. CASE f = NoFile
    <3>1. Refuse("output_path_read_error") /\ StillFiles
      BY <1>7, <2>1 DEF Stat
    <3> QED BY <3>1, RefusalKeeps
  <2>2. CASE f # NoFile /\ ~SameFile(f, reader.file)
    <3>1. Refuse("untrusted_output_path") /\ StillFiles
      BY <1>7, <2>2 DEF Stat
    <3> QED BY <3>1, RefusalKeeps
  <2>3. CASE f # NoFile /\ SameFile(f, reader.file)
    <3>1. /\ reader.pc = "stat" /\ reader.file = f
          /\ reader' = [reader EXCEPT !.pc = "read"]
          /\ names' = names /\ changes' = changes /\ shown' = shown
      BY <1>7, <2>3 DEF Stat, SameFile, Goto, StillFiles
    <3>2. ShownInside(names)' = ShownInside(names)
      BY <3>1 DEF ShownInside, FileAt, RealPath
    <3>3. reader.current \in Inside /\ ShownInside(names) \subseteq shown
      BY <3>1 DEF FileInv, OpenedKnown, Calling
    <3>4. names[reader.current].kind = "file" => f \in shown
      BY <3>3 DEF ShownInside
    <3> HIDE DEF f
    <3>5. reader.file \in shown
      BY <3>1, <3>4 DEF FileInv, OpenedKnown
    <3> QED BY <3>1, <3>2, <3>5
            DEF FileInv, Calling, CanonicalKnown, OpenedKnown, FileReadTrusted
  <2> QED BY <2>1, <2>2, <2>3
<1>8. CASE ReadChunk
  <2>1. PICK bytesRead \in Nat :
          /\ CASE bytesRead = 0 -> Goto("done")
               [] bytesRead > 0 /\ reader.total + bytesRead > MaxOutputChars ->
                    Refuse("output_path_too_large")
               [] OTHER -> reader' = [reader EXCEPT !.total = @ + bytesRead]
    BY <1>8 DEF ReadChunk
  <2>2. reader.pc = "read" /\ StillFiles
        /\ names' = names /\ changes' = changes /\ shown' = shown
    BY <1>8 DEF ReadChunk, StillFiles
  <2>3. ShownInside(names)' = ShownInside(names)
    BY <2>2 DEF ShownInside, FileAt, RealPath
  <2>4. CASE bytesRead = 0
    <3>1. reader' = [reader EXCEPT !.pc = "done"]
      BY <2>1, <2>4 DEF Goto
    <3> QED BY <2>2, <3>1
            DEF FileInv, Calling, CanonicalKnown, OpenedKnown, FileReadTrusted
  <2>5. CASE bytesRead > 0 /\ reader.total + bytesRead > MaxOutputChars
    <3>1. Refuse("output_path_too_large")
      BY <2>1, <2>5
    <3> QED BY <2>2, <3>1, RefusalKeeps
  <2>6. CASE bytesRead > 0 /\ ~(reader.total + bytesRead > MaxOutputChars)
    <3>1. reader' = [reader EXCEPT !.total = @ + bytesRead]
      BY <2>1, <2>6
    <3> QED BY <2>2, <2>3, <2>6, <3>1
            DEF FileInv, Calling, CanonicalKnown, OpenedKnown, FileReadTrusted
  <2> QED BY <2>4, <2>5, <2>6
<1>9. CASE CallFails
  <2>1. Refuse("output_path_read_error") /\ StillFiles
    BY <1>9 DEF CallFails
  <2> QED BY <2>1, RefusalKeeps
<1> QED BY <1>1, <1>2, <1>3, <1>4, <1>5, <1>6, <1>7, <1>8, <1>9 DEF Reader

(* The file system may do anything to a file, and change names twice.      *)
LEMMA FileSystemKeepsFiles ==
  ASSUME MaxChanges <= 2, MaxChanges \in Nat, FileInv, FileSystem
  PROVE  FileInv'
<1> USE OutputFileAssumption
<1> DEFINE Outside == Names \ Inside
<1>1. ASSUME NEW n \in Inside,
             NEW entry \in {File(f) : f \in Files} \cup {Absent}
                           \cup {Link(k) : k \in Outside} \cup {Moved(k) : k \in Outside},
             Replace(n, entry)
      PROVE  FileInv'
  <2>1. /\ Calling /\ changes < MaxChanges /\ reader' = reader
        /\ names' = [names EXCEPT ![n] = entry]
        /\ changes' = changes + 1
        /\ shown' = shown \cup ShownInside(names')
    BY <1>1 DEF Replace
  <2>2. /\ entry \in PathEntries
        /\ entry.kind \in {"link", "moved"} => entry.to \notin Inside
    <3>1. CASE \E f \in Files : entry = File(f)
      BY <3>1 DEF File, PathEntries
    <3>2. CASE entry = Absent
      BY <3>2 DEF Absent, PathEntries
    <3>3. CASE \E k \in Outside : entry = Link(k)
      BY <3>3 DEF Link, PathEntries
    <3>4. CASE \E k \in Outside : entry = Moved(k)
      BY <3>4 DEF Moved, PathEntries
    <3> QED BY <3>1, <3>2, <3>3, <3>4
  <2>3. names' \in [Names -> PathEntries] /\ names'[n] = entry
        /\ changes \in Nat /\ changes < 2
        /\ \A k \in Names : k # n => names'[k] = names[k]
    <3>1. names \in [Names -> PathEntries] /\ changes \in Nat /\ n \in Names
      BY DEF FileInv
    <3>2. changes < 2
      BY <2>1, <3>1
    <3>3. names' = [names EXCEPT ![n] = entry] /\ entry \in PathEntries
      BY <2>1, <2>2
    <3> HIDE DEF Outside
    <3>4. names'[n] = entry /\ \A k \in Names : k # n => names'[k] = names[k]
      BY <3>1, <3>3
    <3>5. names' \in [Names -> PathEntries]
      BY <3>1, <3>3
    <3> QED BY <3>1, <3>2, <3>4, <3>5
  <2>4. ShownInside(names)' \subseteq shown' /\ shown \subseteq shown'
    BY <2>1 DEF ShownInside, FileAt, RealPath
  <2>5. CanonicalKnown'
    BY <2>1, <2>2, <2>3 DEF FileInv, CanonicalKnown
  <2>6. OpenedKnown'
    BY <2>1, <2>3, <2>4 DEF FileInv, CanonicalKnown, OpenedKnown
  <2> QED BY <2>1, <2>3, <2>4, <2>5, <2>6 DEF FileInv, Calling, FileReadTrusted
<1>2. ASSUME NEW f \in Files, NEW bytes \in {0, MaxSize}, Write(f, bytes)
      PROVE  FileInv'
  <2>1. UNCHANGED <<names, changes, reader, shown>>
    BY <1>2 DEF Write
  <2> QED BY <2>1 DEF FileInv, Calling, ShownInside, FileAt, RealPath, CanonicalKnown,
                      OpenedKnown, FileReadTrusted
<1> QED BY <1>1, <1>2 DEF FileSystem

(* What a read returns comes from one regular file that was at a path      *)
(* within an allowed root during the call, and is no longer than the       *)
(* limit: for every set of paths, files and links, while files grow and    *)
(* shrink at any time and names change twice - the swap and the swap back  *)
(* that the second realpath and stat are there for.                        *)
THEOREM FilesAreTrusted ==
  ASSUME MaxChanges \in 0 .. 2
  PROVE  FileSpec => []FileReadTrusted
<1>1. FileInit => FileInv
  BY OutputFileAssumption DEF FileInit, FileInv, NoRead, Calling, CanonicalKnown, OpenedKnown,
                            FileReadTrusted
<1>2. FileInv /\ [FileNext]_fileVars => FileInv'
  <2> SUFFICES ASSUME FileInv, [FileNext]_fileVars PROVE FileInv'
    OBVIOUS
  <2>1. CASE Reader
    BY <2>1, ReaderKeepsFiles
  <2>2. CASE FileSystem
    BY <2>2, FileSystemKeepsFiles
  <2>3. CASE UNCHANGED fileVars
    BY <2>3 DEF fileVars, FileInv, Calling, ShownInside, FileAt, RealPath, CanonicalKnown,
                OpenedKnown, FileReadTrusted
  <2> QED BY <2>1, <2>2, <2>3 DEF FileNext
<1>3. FileInv => FileReadTrusted
  BY DEF FileInv
<1> QED BY <1>1, <1>2, <1>3, PTL DEF FileSpec
-----------------------------------------------------------------------------
(* The user rules that name a tool, and what decides it: the first of      *)
(* them, else the compatibility rule, else a default.                      *)
NamingRules(input, tool) ==
  {i \in DOMAIN input.rules : tool \in UNION input.rules[i].tools}
StrengthOf(input) ==
  IF input.default.strength = Unset THEN DefaultStrength ELSE input.default.strength
ActionOf(input) ==
  IF input.default.action = Unset THEN Compress ELSE input.default.action
FirstNaming(input, tool) == input.rules[Min(NamingRules(input, tool))]
Listed(skipTools, tool) == skipTools # {} /\ tool \in UNION skipTools

(* What normalizeToolPolicy does not refuse.                               *)
Accepted(input, skipTools) ==
  /\ input.default.action \in {Unset, Preserve, Compress}
  /\ ~DuplicateId(input.rules)
  /\ \A i \in DOMAIN input.rules : ~Rejected(input.rules[i])
  /\ skipTools # {} => ~Rejected(CompatibilityRule(skipTools))

(* normalizeToolPolicy accepts it, and what it makes of it.                *)
LEMMA AcceptedIsValid ==
  ASSUME NEW input, NEW skipTools
  PROVE  /\ ~NormalizeToolPolicy(input, skipTools).invalid <=> Accepted(input, skipTools)
         /\ Accepted(input, skipTools) =>
              /\ NormalizeToolPolicy(input, skipTools).action = ActionOf(input)
              /\ NormalizeToolPolicy(input, skipTools).strength = StrengthOf(input)
              /\ NormalizeToolPolicy(input, skipTools).rules =
                   [i \in DOMAIN input.rules |-> Normalized(input.rules[i], "user")]
                   \o (IF skipTools = {} THEN <<>>
                       ELSE <<Normalized(CompatibilityRule(skipTools), "compatibility")>>)
BY Zenon DEF NormalizeToolPolicy, Invalid, Accepted, ActionOf, StrengthOf, Ordered

(* The rules of a policy that match a tool, and the first of them.         *)
Matching(rules, tool) == {i \in DOMAIN rules : tool \in rules[i].matches}
FirstMatchIs(input, skipTools, tool, rules, matching) ==
  /\ NamingRules(input, tool) # {} =>
       /\ matching # {}
       /\ rules[Min(matching)] = Normalized(FirstNaming(input, tool), "user")
  /\ NamingRules(input, tool) = {} /\ Listed(skipTools, tool) =>
       /\ matching # {}
       /\ rules[Min(matching)] = Normalized(CompatibilityRule(skipTools), "compatibility")
  /\ NamingRules(input, tool) = {} /\ ~Listed(skipTools, tool) => matching = {}

(* The first of them is the one the user or the compatibility rule gives.  *)
LEMMA MatchingRules ==
  ASSUME NEW Rules, NEW input, input.rules \in Seq(Rules), NEW skipTools, NEW tool,
         Accepted(input, skipTools)
  PROVE  FirstMatchIs(input, skipTools, tool, NormalizeToolPolicy(input, skipTools).rules,
                      Matching(NormalizeToolPolicy(input, skipTools).rules, tool))
<1> DEFINE rules == NormalizeToolPolicy(input, skipTools).rules
           matching == Matching(rules, tool)
<1>0. matching = {i \in DOMAIN rules : tool \in rules[i].matches}
  BY DEF Matching
<1> DEFINE n == Len(input.rules)
           user == [i \in 1 .. n |-> Normalized(input.rules[i], "user")]
           last == Normalized(CompatibilityRule(skipTools), "compatibility")
           naming == NamingRules(input, tool)
<1>1. n \in Nat /\ DOMAIN input.rules = 1 .. n
  OBVIOUS
<1> HIDE DEF matching
<1> SUFFICES FirstMatchIs(input, skipTools, tool, rules, matching)
  BY DEF matching
<1>2. rules = user \o (IF skipTools = {} THEN <<>> ELSE <<last>>)
  BY <1>1, AcceptedIsValid
<1> HIDE DEF rules
<1> DEFINE All == {Normalized(input.rules[i], "user") : i \in 1 .. n} \cup {last}
<1>3. user \in Seq(All) /\ Len(user) = n
  <2> HIDE DEF last
  <2>1. user \in [1 .. n -> All]
    OBVIOUS
  <2> HIDE DEF user, All
  <2> QED BY <1>1, <2>1
<1>4. /\ DOMAIN rules = IF skipTools = {} THEN 1 .. n ELSE 1 .. n + 1
      /\ \A i \in 1 .. n : rules[i] = Normalized(input.rules[i], "user")
      /\ skipTools # {} => rules[n + 1] = last
  <2>1. last \in All
    OBVIOUS
  <2>2. \A i \in 1 .. n : user[i] = Normalized(input.rules[i], "user")
    BY Zenon
  <2> HIDE DEF user, last, All, n
  <2>3. CASE skipTools = {}
    <3>1. rules = user
      BY <1>2, <1>3, <2>3
    <3> QED BY <1>3, <2>2, <2>3, <3>1
  <2>4. CASE skipTools # {}
    <3>1. rules = user \o <<last>>
      BY <1>2, <2>4
    <3>2. rules = Append(user, last)
      BY <1>3, <2>1, <3>1
    <3> QED BY <1>1, <1>3, <2>1, <2>2, <2>4, <3>2
  <2> QED BY <2>3, <2>4
<1>5. \A i \in 1 .. n : (i \in matching) = (i \in naming)
  <2> SUFFICES ASSUME NEW i \in 1 .. n PROVE (i \in matching) = (i \in naming)
    OBVIOUS
  <2>1. rules[i].matches = UNION input.rules[i].tools
    <3>1. rules[i] = Normalized(input.rules[i], "user")
      BY <1>4
    <3> QED BY <3>1 DEF Normalized
  <2>2. i \in DOMAIN rules /\ i \in DOMAIN input.rules
    BY <1>1, <1>4
  <2> QED BY <1>0, <2>1, <2>2 DEF NamingRules
<1>6. last.matches = UNION skipTools
  BY DEF Normalized, CompatibilityRule
<1>7. skipTools # {} => (n + 1 \in matching <=> Listed(skipTools, tool))
  <2> HIDE DEF last
  <2> QED BY <1>0, <1>1, <1>4, <1>6 DEF Listed
<1>8. naming \subseteq 1 .. n /\ matching \subseteq 1 .. n + 1
      /\ (skipTools = {} => matching \subseteq 1 .. n)
  BY <1>0, <1>1, <1>4 DEF NamingRules
<1> HIDE DEF n, user, last, naming, All
<1>9. CASE naming # {}
  <2>1. naming \subseteq Nat /\ matching \subseteq Nat
    BY <1>1, <1>8
  <2>2. Min(naming) \in naming /\ \A y \in naming : Min(naming) <= y
    BY <1>9, <2>1, MinIsLeast
  <2>3. Min(naming) \in 1 .. n /\ Min(naming) \in matching
    BY <1>5, <1>8, <2>2
  <2>4. Min(matching) \in matching /\ \A y \in matching : Min(matching) <= y
    BY <2>1, <2>3, MinIsLeast
  <2>5. Min(matching) \in Nat /\ Min(matching) <= Min(naming)
    BY <2>1, <2>3, <2>4
  <2>6. Min(matching) \in 1 .. n
    <3>1. Min(matching) \in 1 .. n + 1
      BY <1>8, <2>4
    <3> QED BY <1>1, <2>3, <2>5, <3>1
  <2>7. Min(naming) <= Min(matching)
    BY <1>5, <2>2, <2>4, <2>6
  <2>8. Min(matching) = Min(naming)
    BY <2>3, <2>5, <2>6, <2>7
  <2> QED BY <1>4, <1>9, <2>3, <2>8 DEF FirstMatchIs, naming, rules, FirstNaming
<1>10. CASE naming = {} /\ Listed(skipTools, tool)
  <2>1. matching = {n + 1}
    <3>1. n + 1 \in matching
      BY <1>7, <1>10 DEF Listed
    <3>2. \A i \in 1 .. n + 1 : i \in 1 .. n \/ i = n + 1
      BY <1>1
    <3>3. \A i \in matching : i = n + 1
      BY <1>5, <1>8, <1>10, <3>2
    <3> QED BY <3>1, <3>3
  <2>2. matching \subseteq Nat /\ matching # {}
    BY <1>1, <2>1
  <2>3. Min(matching) \in matching
    BY <2>2, MinIsLeast
  <2> QED BY <1>4, <1>10, <2>1, <2>3 DEF FirstMatchIs, naming, rules, last, Listed
<1>11. CASE naming = {} /\ ~Listed(skipTools, tool)
  <2>1. matching = {}
    <3>1. skipTools = {} \/ n + 1 \notin matching
      BY <1>7, <1>11
    <3>2. \A i \in 1 .. n + 1 : i \in 1 .. n \/ i = n + 1
      BY <1>1
    <3> QED BY <1>5, <1>8, <1>11, <3>1, <3>2
  <2> QED BY <1>11, <2>1 DEF FirstMatchIs, naming, rules
<1> QED BY <1>9, <1>10, <1>11

(* ... and what it is resolved to.                                         *)
Expected(input, skipTools, tool) ==
  LET builtin(id) == Resolution(id, "builtin", Preserve, StrengthOf(input), Unset)
      first == FirstNaming(input, tool)
      named == NamingRules(input, tool) # {}
  IN  IF tool \in HeadroomTools THEN builtin("safety-headroom-tools")
      ELSE IF named
           THEN Resolution(first.id, "user", first.action,
                           IF first.strength = Unset THEN StrengthOf(input)
                           ELSE first.strength, first.extra)
      ELSE IF Listed(skipTools, tool)
           THEN Resolution("legacy-skip-tools", "compatibility", Preserve, StrengthOf(input),
                           Unset)
      ELSE IF tool \in ContextTools THEN builtin("builtin-context-tools")
      ELSE IF tool \in ExactTools THEN builtin("builtin-exact-content")
      ELSE Resolution("default", "default", ActionOf(input), StrengthOf(input), Unset)
Decides(input, skipTools, tool) ==
  ResolveToolPolicy(tool, NormalizeToolPolicy(input, skipTools)) =
    Expected(input, skipTools, tool)

(* resolveToolPolicy decides what is expected of it.                       *)
LEMMA ResolvedAsExpected ==
  ASSUME NEW Rules, NEW input, input.rules \in Seq(Rules), NEW skipTools, NEW tool,
         Accepted(input, skipTools)
  PROVE  Decides(input, skipTools, tool)
<1> DEFINE policy == NormalizeToolPolicy(input, skipTools)
           rules == policy.rules
           matching == Matching(rules, tool)
           first == rules[Min(matching)]
           builtin(id) == Resolution(id, "builtin", Preserve, policy.strength, Unset)
<1>1. policy.action = ActionOf(input) /\ policy.strength = StrengthOf(input)
  BY AcceptedIsValid
<1>2. /\ NamingRules(input, tool) # {} =>
           matching # {} /\ first = Normalized(FirstNaming(input, tool), "user")
      /\ NamingRules(input, tool) = {} /\ Listed(skipTools, tool) =>
           matching # {} /\ first = Normalized(CompatibilityRule(skipTools), "compatibility")
      /\ NamingRules(input, tool) = {} /\ ~Listed(skipTools, tool) => matching = {}
  <2>1. FirstMatchIs(input, skipTools, tool, rules, matching)
    BY MatchingRules, Zenon
  <2> QED BY <2>1 DEF FirstMatchIs
<1>3. ResolveToolPolicy(tool, policy) =
        IF tool \in HeadroomTools THEN builtin("safety-headroom-tools")
        ELSE IF matching # {}
             THEN Resolution(first.id, first.source, first.action,
                             IF first.strength = Unset THEN policy.strength
                             ELSE first.strength, first.extra)
        ELSE IF tool \in ContextTools THEN builtin("builtin-context-tools")
        ELSE IF tool \in ExactTools THEN builtin("builtin-exact-content")
        ELSE Resolution("default", "default", policy.action, policy.strength, Unset)
  BY Zenon DEF ResolveToolPolicy, Matching
<1> HIDE DEF matching, first, rules, policy
<1>4. CASE tool \in HeadroomTools
  BY <1>1, <1>3, <1>4 DEF Decides, Expected, policy
<1>5. CASE tool \notin HeadroomTools /\ NamingRules(input, tool) # {}
  <2>1. matching # {} /\ first = Normalized(FirstNaming(input, tool), "user")
    BY <1>2, <1>5
  <2>2. /\ first.id = FirstNaming(input, tool).id /\ first.source = "user"
        /\ first.action = FirstNaming(input, tool).action
        /\ first.strength = FirstNaming(input, tool).strength
        /\ first.extra = FirstNaming(input, tool).extra
    BY <2>1 DEF Normalized
  <2> QED BY <1>1, <1>3, <1>5, <2>1, <2>2 DEF Decides, Expected, policy
<1>6. CASE tool \notin HeadroomTools /\ NamingRules(input, tool) = {} /\ Listed(skipTools, tool)
  <2>1. matching # {} /\ first = Normalized(CompatibilityRule(skipTools), "compatibility")
    BY <1>2, <1>6
  <2>2. /\ first.id = "legacy-skip-tools" /\ first.source = "compatibility"
        /\ first.action = Preserve /\ first.strength = Unset /\ first.extra = Unset
    BY <2>1 DEF Normalized, CompatibilityRule
  <2> QED BY <1>1, <1>3, <1>6, <2>1, <2>2 DEF Decides, Expected, policy
<1>7. CASE tool \notin HeadroomTools /\ NamingRules(input, tool) = {} /\ ~Listed(skipTools, tool)
  <2>1. matching = {}
    BY <1>2, <1>7
  <2> QED BY <1>1, <1>3, <1>7, <2>1 DEF Decides, Expected, policy
<1> QED BY <1>4, <1>5, <1>6, <1>7

(* What a decision is made of, by what decides it.                         *)
DecidedBy(input, skipTools, tool, decision) ==
  /\ tool \in HeadroomTools => decision.action = Preserve
  /\ tool \in HeadroomTools \/ NamingRules(input, tool) = {} =>
       /\ decision.extra = Unset /\ decision.strength = StrengthOf(input)
       /\ Listed(skipTools, tool) \/ tool \in HeadroomTools \cup ContextTools \cup ExactTools
            => decision.action = Preserve
       /\ ~Listed(skipTools, tool)
          /\ tool \notin HeadroomTools \cup ContextTools \cup ExactTools =>
            decision.action = ActionOf(input)
  /\ tool \notin HeadroomTools /\ NamingRules(input, tool) # {} =>
       /\ decision.source = "user"
       /\ decision.ruleId = FirstNaming(input, tool).id
       /\ decision.action = FirstNaming(input, tool).action
       /\ decision.extra = FirstNaming(input, tool).extra
       /\ decision.strength = IF FirstNaming(input, tool).strength = Unset
                              THEN StrengthOf(input)
                              ELSE FirstNaming(input, tool).strength

(* An expected decision is one that is decided by what it is made of.      *)
LEMMA ExpectedFields ==
  ASSUME NEW input, NEW skipTools, NEW tool
  PROVE  DecidedBy(input, skipTools, tool, Expected(input, skipTools, tool))
<1> DEFINE decision == Expected(input, skipTools, tool)
<1> SUFFICES DecidedBy(input, skipTools, tool, decision)
  OBVIOUS
<1> DEFINE builtin(id) == Resolution(id, "builtin", Preserve, StrengthOf(input), Unset)
           first == FirstNaming(input, tool)
<1> USE DEF DecidedBy
<1>1. CASE tool \in HeadroomTools
  <2>1. decision = builtin("safety-headroom-tools")
    BY <1>1 DEF Expected
  <2> HIDE DEF decision
  <2> QED BY <1>1, <2>1 DEF Resolution
<1>2. CASE tool \notin HeadroomTools /\ NamingRules(input, tool) # {}
  <2>1. decision = Resolution(first.id, "user", first.action,
                              IF first.strength = Unset THEN StrengthOf(input)
                              ELSE first.strength, first.extra)
    BY <1>2 DEF Expected
  <2> HIDE DEF first, decision
  <2>2. /\ decision.source = "user" /\ decision.ruleId = first.id
        /\ decision.action = first.action /\ decision.extra = first.extra
        /\ decision.strength = IF first.strength = Unset THEN StrengthOf(input)
                               ELSE first.strength
    BY <2>1 DEF Resolution
  <2> QED BY <1>2, <2>2 DEF first
<1>3. CASE tool \notin HeadroomTools /\ NamingRules(input, tool) = {}
  <2>1. CASE Listed(skipTools, tool)
    <3>1. decision = Resolution("legacy-skip-tools", "compatibility", Preserve,
                                StrengthOf(input), Unset)
      BY <1>3, <2>1 DEF Expected
    <3> HIDE DEF decision
    <3> QED BY <1>3, <2>1, <3>1 DEF Resolution
  <2>2. CASE ~Listed(skipTools, tool) /\ tool \in ContextTools
    <3>1. decision = builtin("builtin-context-tools")
      BY <1>3, <2>2 DEF Expected
    <3> HIDE DEF decision
    <3> QED BY <1>3, <2>2, <3>1 DEF Resolution
  <2>3. CASE ~Listed(skipTools, tool) /\ tool \notin ContextTools /\ tool \in ExactTools
    <3>1. decision = builtin("builtin-exact-content")
      BY <1>3, <2>3 DEF Expected
    <3> HIDE DEF decision
    <3> QED BY <1>3, <2>3, <3>1 DEF Resolution
  <2>4. CASE ~Listed(skipTools, tool) /\ tool \notin ContextTools /\ tool \notin ExactTools
    <3>1. decision = Resolution("default", "default", ActionOf(input), StrengthOf(input), Unset)
      BY <1>3, <2>4 DEF Expected
    <3> HIDE DEF decision
    <3> QED BY <1>3, <2>4, <3>1 DEF Resolution
  <2> QED BY <2>1, <2>2, <2>3, <2>4
<1> QED BY <1>1, <1>2, <1>3

(* The first of the rules that name a tool is one of them, and accepted.   *)
LEMMA FirstNamingFirst ==
  ASSUME NEW Rules, NEW input, input.rules \in Seq(Rules), NEW tool,
         NamingRules(input, tool) # {}
  PROVE  /\ Min(NamingRules(input, tool)) \in NamingRules(input, tool)
         /\ \A j \in NamingRules(input, tool) : Min(NamingRules(input, tool)) <= j
<1>1. NamingRules(input, tool) \subseteq Nat
  BY DEF NamingRules
<1> QED BY <1>1, MinIsLeast

(* The compatibility rule as the last of the user rules ...                *)
MovedBehind(input, skipTools) ==
  [input EXCEPT !.rules = Append(@, [CompatibilityRule(skipTools) EXCEPT !.id = "moved"])]
DecidesAlike(input, skipTools, tool) ==
  ResolveToolPolicy(tool, NormalizeToolPolicy(MovedBehind(input, skipTools), {})).action =
    ResolveToolPolicy(tool, NormalizeToolPolicy(input, skipTools)).action

(* ... decides as before.                                                  *)
LEMMA MovedRuleDecidesAlike ==
  ASSUME NEW Rules, NEW Defaults, NEW input \in [rules : Seq(Rules), default : Defaults],
         NEW skipTools, NEW tool,
         Accepted(input, skipTools), skipTools # {},
         \A i \in DOMAIN input.rules : input.rules[i].id # "moved"
  PROVE  DecidesAlike(input, skipTools, tool)
<1> DEFINE rule == [CompatibilityRule(skipTools) EXCEPT !.id = "moved"]
           n == Len(input.rules)
           moved == MovedBehind(input, skipTools)
<1>1. rule = [id |-> "moved", tools |-> skipTools, action |-> Preserve,
              strength |-> Unset, extra |-> Unset]
  BY DEF CompatibilityRule
<1>2. input.rules \in Seq(Rules) /\ n \in Nat /\ DOMAIN input.rules = 1 .. n
  OBVIOUS
<1>3. moved.rules = Append(input.rules, rule) /\ moved.default = input.default
  BY DEF MovedBehind
<1> HIDE DEF rule, n, moved
<1>4. /\ moved.rules \in Seq(Rules \cup {rule}) /\ DOMAIN moved.rules = 1 .. n + 1
      /\ \A i \in 1 .. n : moved.rules[i] = input.rules[i]
      /\ moved.rules[n + 1] = rule
  <2>1. input.rules \in Seq(Rules \cup {rule}) /\ Len(input.rules) = n
    BY <1>2 DEF n
  <2> QED BY <1>2, <1>3, <2>1
<1>5. \A i \in 1 .. n + 1 : i \in 1 .. n \/ i = n + 1
  BY <1>2
<1>6. Accepted(moved, {})
  <2>1. ~Rejected(rule)
    <3>1. ~Rejected(CompatibilityRule(skipTools))
      BY DEF Accepted
    <3> QED BY <1>1, <3>1 DEF Rejected, CompatibilityRule, BlankId
  <2>2. \A i \in DOMAIN moved.rules : ~Rejected(moved.rules[i])
    BY <1>2, <1>4, <1>5, <2>1 DEF Accepted
  <2>3. ~DuplicateId(moved.rules)
    <3>1. rule.id = "moved"
      BY <1>1
    <3>2. \A i, j \in 1 .. n : i # j => input.rules[i].id # input.rules[j].id
      BY <1>2 DEF Accepted, DuplicateId
    <3>3. \A i \in 1 .. n : input.rules[i].id # rule.id
      BY <1>2, <3>1
    <3>4. ASSUME NEW i \in 1 .. n + 1, NEW j \in 1 .. n + 1, i # j
          PROVE  moved.rules[i].id # moved.rules[j].id
      <4>1. CASE i \in 1 .. n /\ j \in 1 .. n
        BY <1>4, <3>2, <3>4, <4>1
      <4>2. CASE i \in 1 .. n /\ j = n + 1
        BY <1>4, <3>3, <4>2
      <4>3. CASE i = n + 1 /\ j \in 1 .. n
        BY <1>4, <3>3, <4>3
      <4> QED BY <1>5, <3>4, <4>1, <4>2, <4>3
    <3> QED BY <1>4, <3>4, Zenon DEF DuplicateId
  <2> QED BY <1>3, <2>2, <2>3 DEF Accepted
<1>7. /\ Decides(input, skipTools, tool) /\ Decides(moved, {}, tool)
  BY <1>2, <1>4, <1>6, ResolvedAsExpected
<1> DEFINE before == Expected(input, skipTools, tool)
           after == Expected(moved, {}, tool)
           naming == NamingRules(input, tool)
           namingMoved == NamingRules(moved, tool)
<1>8. /\ naming \subseteq 1 .. n
      /\ \A i \in 1 .. n : (i \in namingMoved) = (i \in naming)
      /\ (n + 1 \in namingMoved) = (tool \in UNION skipTools)
      /\ namingMoved \subseteq 1 .. n + 1
  <2>1. rule.tools = skipTools
    BY <1>1
  <2>2. n + 1 \in 1 .. n + 1 /\ 1 .. n \subseteq 1 .. n + 1
    BY <1>2
  <2>3. (n + 1 \in namingMoved) = (tool \in UNION skipTools)
    BY <1>4, <2>1, <2>2 DEF NamingRules
  <2>4. \A i \in 1 .. n : (i \in namingMoved) = (i \in naming)
    BY <1>2, <1>4, <2>2 DEF NamingRules
  <2>5. naming \subseteq 1 .. n /\ namingMoved \subseteq 1 .. n + 1
    BY <1>2, <1>4 DEF NamingRules
  <2> QED BY <2>3, <2>4, <2>5
<1>9. ActionOf(moved) = ActionOf(input)
  BY <1>3 DEF ActionOf
<1>10. Listed(skipTools, tool) = (tool \in UNION skipTools) /\ ~Listed({}, tool)
  BY DEF Listed
<1>11. before.action = after.action
  <2>0. DecidedBy(input, skipTools, tool, before) /\ DecidedBy(moved, {}, tool, after)
    BY ExpectedFields
  <2> HIDE DEF before, after
  <2>1. CASE tool \in HeadroomTools
    BY <2>0, <2>1 DEF DecidedBy
  <2>2. CASE tool \notin HeadroomTools /\ naming # {}
    <3> HIDE DEF naming, namingMoved
    <3>1. Min(naming) \in naming /\ \A j \in naming : Min(naming) <= j
      BY <1>2, <2>2, FirstNamingFirst DEF naming
    <3>2. namingMoved # {}
      BY <1>8, <3>1
    <3>3. Min(namingMoved) \in namingMoved /\ \A j \in namingMoved : Min(namingMoved) <= j
      BY <1>4, <3>2, FirstNamingFirst DEF namingMoved
    <3>4. Min(naming) \in 1 .. n /\ Min(naming) \in namingMoved
      BY <1>8, <3>1
    <3>5. Min(namingMoved) \in 1 .. n + 1 /\ Min(namingMoved) <= Min(naming)
      BY <1>8, <3>3, <3>4
    <3>6. Min(namingMoved) \in 1 .. n
      BY <1>2, <3>4, <3>5
    <3>7. Min(naming) <= Min(namingMoved)
      BY <1>8, <3>1, <3>3, <3>6
    <3>8. Min(naming) = Min(namingMoved)
      BY <1>2, <3>4, <3>5, <3>6, <3>7
    <3>9. FirstNaming(moved, tool) = FirstNaming(input, tool)
      BY <1>4, <3>4, <3>8 DEF FirstNaming, naming, namingMoved
    <3>10. before.action = FirstNaming(input, tool).action
      BY <2>0, <2>2 DEF DecidedBy, naming
    <3>11. after.action = FirstNaming(moved, tool).action
      BY <2>0, <2>2, <3>2 DEF DecidedBy, namingMoved
    <3> QED BY <3>9, <3>10, <3>11
  <2>3. CASE tool \notin HeadroomTools /\ naming = {} /\ tool \in UNION skipTools
    <3> HIDE DEF naming, namingMoved
    <3>1. before.action = Preserve
      BY <2>0, <1>10, <2>3 DEF DecidedBy, naming
    <3>2. namingMoved # {}
      BY <1>8, <2>3
    <3>3. Min(namingMoved) \in namingMoved
      BY <1>4, <3>2, FirstNamingFirst DEF namingMoved
    <3>4. Min(namingMoved) = n + 1
      BY <1>5, <1>8, <2>3, <3>3
    <3>5. FirstNaming(moved, tool) = rule
      BY <1>4, <3>4 DEF FirstNaming, namingMoved
    <3>6. after.action = FirstNaming(moved, tool).action
      BY <2>0, <2>3, <3>2 DEF DecidedBy, namingMoved
    <3> QED BY <1>1, <3>1, <3>5, <3>6
  <2>4. CASE tool \notin HeadroomTools /\ naming = {} /\ tool \notin UNION skipTools
    <3> HIDE DEF naming, namingMoved
    <3>1. namingMoved = {}
      BY <1>5, <1>8, <2>4
    <3>2. CASE tool \in ContextTools \cup ExactTools
      <4>1. before.action = Preserve
        BY <2>0, <2>4, <3>2 DEF DecidedBy, naming
      <4>2. after.action = Preserve
        BY <2>0, <2>4, <3>1, <3>2 DEF DecidedBy, namingMoved
      <4> QED BY <4>1, <4>2
    <3>3. CASE tool \notin ContextTools \cup ExactTools
      <4>1. before.action = ActionOf(input)
        BY <2>0, <1>10, <2>4, <3>3 DEF DecidedBy, naming
      <4>2. after.action = ActionOf(moved)
        BY <2>0, <1>10, <2>4, <3>1, <3>3 DEF DecidedBy, namingMoved
      <4> QED BY <1>9, <4>1, <4>2
    <3> QED BY <3>2, <3>3
  <2> QED BY <2>1, <2>2, <2>3, <2>4
<1> QED BY <1>7, <1>11 DEF Decides, DecidesAlike, moved

(* The precedence of tool policies for any number of rules with any        *)
(* patterns, whatever tools the defaults and skipTools name: the first     *)
(* user rule that names a tool decides it, and no other rule lends it      *)
(* anything.  The rule that replaces skipTools needs an id of its own.     *)
THEOREM PoliciesKeepPrecedence ==
  ASSUME NEW Rules, NEW Defaults, NEW input \in [rules : Seq(Rules), default : Defaults],
         NEW skipTools, NEW tool,
         \A i \in DOMAIN input.rules : input.rules[i].id # "moved"
  PROVE  PolicyPrecedenceFor(input, skipTools, tool)
<1> DEFINE policy == NormalizeToolPolicy(input, skipTools)
           decision == ResolveToolPolicy(tool, policy)
           shielded == \/ skipTools # {} /\ tool \in UNION skipTools
                       \/ tool \in ContextTools \cup ExactTools
           naming == {i \in DOMAIN input.rules : tool \in UNION input.rules[i].tools}
           unlisted == NormalizeToolPolicy(input, {})
           moved == NormalizeToolPolicy(
                      [input EXCEPT !.rules = Append(@, [CompatibilityRule(skipTools)
                                                           EXCEPT !.id = "moved"])], {})
<1> SUFFICES ASSUME ~policy.invalid
             PROVE  /\ skipTools # {} => ResolveToolPolicy(tool, moved).action = decision.action
                    /\ skipTools = {HeadroomTools, ContextTools} =>
                         ResolveToolPolicy(tool, unlisted).action = decision.action
                    /\ tool \in HeadroomTools => decision.action = Preserve
                    /\ shielded /\ decision.action = Compress =>
                         decision.source = "user" /\ naming # {}
                    /\ decision.extra # Unset \/ decision.strength # policy.strength =>
                         /\ decision.source = "user" /\ decision.action = Compress
                         /\ \E i \in naming : /\ input.rules[i].id = decision.ruleId
                                              /\ input.rules[i].extra = decision.extra
                                              /\ \A j \in naming : i <= j
  BY Zenon DEF PolicyPrecedenceFor
<1>1. input.rules \in Seq(Rules) /\ Accepted(input, skipTools)
  BY AcceptedIsValid
<1>2. decision = Expected(input, skipTools, tool)
  BY <1>1, ResolvedAsExpected DEF Decides
<1>3. naming = NamingRules(input, tool)
  BY DEF NamingRules
<1>4. policy.strength = StrengthOf(input)
  BY <1>1, AcceptedIsValid
<1>5. skipTools # {} => ResolveToolPolicy(tool, moved).action = decision.action
  <2> SUFFICES ASSUME skipTools # {}
               PROVE  ResolveToolPolicy(tool, moved).action = decision.action
    OBVIOUS
  <2>1. DecidesAlike(input, skipTools, tool)
    BY <1>1, MovedRuleDecidesAlike
  <2> QED BY <2>1, Zenon DEF DecidesAlike, MovedBehind
<1>6. DecidedBy(input, skipTools, tool, decision)
  BY <1>2, ExpectedFields
<1> HIDE DEF decision, policy, moved
<1>7. skipTools = {HeadroomTools, ContextTools} =>
        ResolveToolPolicy(tool, unlisted).action = decision.action
  <2> SUFFICES ASSUME skipTools = {HeadroomTools, ContextTools}
               PROVE  ResolveToolPolicy(tool, unlisted).action = decision.action
    OBVIOUS
  <2>1. Accepted(input, {})
    BY <1>1 DEF Accepted
  <2>2. ResolveToolPolicy(tool, unlisted) = Expected(input, {}, tool)
    BY <1>1, <2>1, ResolvedAsExpected DEF Decides
  <2> DEFINE plain == Expected(input, {}, tool)
  <2>3. DecidedBy(input, {}, tool, plain)
    BY ExpectedFields
  <2>4. Listed(skipTools, tool) = (tool \in HeadroomTools \cup ContextTools)
        /\ ~Listed({}, tool)
    BY DEF Listed
  <2> HIDE DEF plain
  <2>5. plain.action = decision.action
    <3>1. CASE tool \in HeadroomTools
      BY <1>6, <2>3, <3>1 DEF DecidedBy
    <3>2. CASE tool \notin HeadroomTools /\ NamingRules(input, tool) # {}
      BY <1>6, <2>3, <3>2 DEF DecidedBy
    <3>3. CASE tool \notin HeadroomTools /\ NamingRules(input, tool) = {}
               /\ tool \in ContextTools \cup ExactTools
      BY <1>6, <2>3, <3>3 DEF DecidedBy
    <3>4. CASE tool \notin HeadroomTools /\ NamingRules(input, tool) = {}
               /\ tool \notin ContextTools \cup ExactTools
      <4>1. plain.action = ActionOf(input)
        BY <2>3, <2>4, <3>4 DEF DecidedBy
      <4>2. decision.action = ActionOf(input)
        BY <1>6, <2>4, <3>4 DEF DecidedBy
      <4> QED BY <4>1, <4>2
    <3> QED BY <3>1, <3>2, <3>3, <3>4
  <2> QED BY <2>2, <2>5 DEF plain
<1>8. tool \in HeadroomTools => decision.action = Preserve
  BY <1>6 DEF DecidedBy
<1>9. shielded /\ decision.action = Compress => decision.source = "user" /\ naming # {}
  <2> SUFFICES ASSUME shielded, decision.action = Compress
               PROVE  decision.source = "user" /\ naming # {}
    OBVIOUS
  <2>1. decision.action # Preserve
    BY Zenon DEF Compress, Preserve
  <2>2. Listed(skipTools, tool) \/ tool \in ContextTools \cup ExactTools
    BY DEF Listed
  <2> HIDE DEF shielded, naming
  <2> QED BY <1>3, <1>6, <2>1, <2>2 DEF DecidedBy
<1>10. ASSUME decision.extra # Unset \/ decision.strength # policy.strength
       PROVE  /\ decision.source = "user" /\ decision.action = Compress
              /\ \E i \in naming : /\ input.rules[i].id = decision.ruleId
                                   /\ input.rules[i].extra = decision.extra
                                   /\ \A j \in naming : i <= j
  <2> DEFINE k == Min(naming)
             first == input.rules[k]
  <2> HIDE DEF naming
  <2>1. tool \notin HeadroomTools /\ naming # {}
    BY <1>3, <1>4, <1>6, <1>10 DEF DecidedBy
  <2>2. /\ decision.source = "user" /\ decision.ruleId = first.id
        /\ decision.action = first.action /\ decision.extra = first.extra
        /\ decision.strength = IF first.strength = Unset THEN StrengthOf(input)
                               ELSE first.strength
    BY <1>3, <1>6, <2>1 DEF DecidedBy, FirstNaming
  <2>3. k \in naming /\ \A j \in naming : k <= j
    BY <1>1, <1>3, <2>1, FirstNamingFirst
  <2>4. ~Rejected(first)
    BY <1>1, <2>3 DEF Accepted, naming
  <2> HIDE DEF k
  <2>5. first.extra # Unset \/ first.strength # Unset
    BY <1>4, <1>10, <2>2
  <2>6. first.action = Compress
    BY <2>4, <2>5 DEF Rejected
  <2> QED BY <2>2, <2>3, <2>6
<1> QED BY <1>5, <1>7, <1>8, <1>9, <1>10
=============================================================================
