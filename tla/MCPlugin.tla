------------------------------ MODULE MCPlugin ------------------------------
(* The instance of Plugin that TLC checks.                                 *)
EXTENDS Plugin, TLC

CONSTANTS s1, s2, t1, t2, h1

TransformSymmetry == Permutations(Transforms)
MCSessionOf == [c \in Calls |-> IF c = 9 THEN s2 ELSE s1]
MCHookSession == [h \in Hooks |-> s1]
Ending(outcome, reason, saved) == [outcome |-> outcome, reason |-> reason, saved |-> saved]
MCDecisions == {Ending("compressed", "none", 2), Ending("skipped", "engine_error", 0)}
Asked(session, valid, mode, found, header) ==
  [session |-> session, valid |-> valid, mode |-> mode, ranged |-> FALSE, queried |-> FALSE,
   found |-> found, header |-> header, tokens |-> 1]
MCRetrievalCalls ==
  {Asked(s1, FALSE, NotGiven, FALSE, NotGiven), Asked(s2, TRUE, NotGiven, TRUE, NotGiven)}
=============================================================================
