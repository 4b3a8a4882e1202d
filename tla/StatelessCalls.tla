---------------------------- MODULE StatelessCalls ---------------------------
(***************************************************************************)
(* The parts of the plugin that keep no state between calls, side by side: *)
(* a behaviour is one call of one of them.  All but the output-file read   *)
(* are synchronous, so their call is one step; that read takes several     *)
(* while the file system changes.                                          *)
(***************************************************************************)
EXTENDS SpanDedup, RetrievalView, Selection, DiffSelection, ToolPolicy, OutputFile

CONSTANTS SpanRequests,      \* messages of a request, for the span pass
          Retrievals,        \* [entry, request] pairs
          Logs, Searches, Arrays, Objects, Measures,  \* outputs and measures of the sizer
          Diffs,
          Policies, SkipLists, Tools,
          FileSystems        \* what the paths are when a file is read

VARIABLES call,     \* the part called, and with what
          returned

vars == <<call, returned, names, size, changes, reader, shown>>

NoCall == [part |-> "file"]
Calls ==
  [part : {"spans"}, messages : SpanRequests]
  \cup [part : {"retrieve"}, input : Retrievals]
  \cup [part : {"log"}, lines : Logs, measured : Measures]
  \cup [part : {"search"}, matches : Searches, measured : Measures]
  \cup [part : {"array"}, rows : Arrays, measured : Measures]
  \cup [part : {"object"}, fields : Objects]
  \cup [part : {"diff"}, lines : Diffs]
  \cup [part : {"policy"}, input : Policies, skipTools : SkipLists, tool : Tools]

Init ==
  /\ \/ /\ call \in Calls
        /\ names \in {CHOOSE fs \in FileSystems : TRUE}
     \/ call = NoCall /\ names \in FileSystems
  /\ FileInit
  /\ returned = FALSE

Called(part) == ~returned /\ call.part = part
Returned(part) == returned /\ call.part = part
Return(part) ==
  /\ Called(part)
  /\ returned' = TRUE
  /\ UNCHANGED <<call, names, size, changes, reader, shown>>

(* The read of a file returns when its reader is done.                     *)
ReadFile ==
  /\ Called("file")
  /\ FileNext
  /\ returned' = (reader'.pc = "done")
  /\ UNCHANGED call

Next ==
  \/ Return("spans") \/ Return("retrieve")
  \/ Return("log") \/ Return("search") \/ Return("array") \/ Return("object")
  \/ Return("diff") \/ Return("policy")
  \/ ReadFile

Spec == Init /\ [][Next]_vars
-----------------------------------------------------------------------------
(* Span folding loses nothing: see PointersResolveIn.                      *)
PointersResolve == Returned("spans") => PointersResolveIn(call.messages)

(* Span folding is stable over the requests of a session: see              *)
(* ReplayFoldsAlikeIn.                                                     *)
ReplayFoldsAlike == Returned("spans") => ReplayFoldsAlikeIn(call.messages)

(* A retrieval returns what was asked for: see RetrievalExactFor.          *)
RetrievalExact ==
  Returned("retrieve") => RetrievalExactFor(call.input.entry, call.input.request)

(* A compressed log, search result, array or object keeps what its         *)
(* compressor calls required, within its limits otherwise: see             *)
(* LogKeepsRequired, SearchKeepsRequired, ArrayKeepsRequired and           *)
(* ObjectKeepsRequired.                                                    *)
SelectionKeepsRequired ==
  /\ Returned("log") => LogKeepsRequired(call.lines, call.measured)
  /\ Returned("search") => SearchKeepsRequired(call.matches, call.measured)
  /\ Returned("array") => ArrayKeepsRequired(call.rows, call.measured)
  /\ Returned("object") => ObjectKeepsRequired(call.fields)

(* A compressed diff accounts for what it leaves out: see DiffAccountedFor. *)
DiffAccounted == Returned("diff") => DiffAccountedFor(call.lines)

(* Policies are resolved in the documented order: see PolicyPrecedenceFor. *)
PolicyPrecedence ==
  Returned("policy") => PolicyPrecedenceFor(call.input, call.skipTools, call.tool)
=============================================================================
