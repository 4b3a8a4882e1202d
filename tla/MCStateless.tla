----------------------------- MODULE MCStateless -----------------------------
(* Small inputs for each part, and values for the limits of the code.      *)
EXTENDS StatelessCalls

CONSTANTS ka, kb, kz, i1, i2, dir, in, in2, out

(* Spans: numbered and plain lines of two contents, and one trivial line.  *)
Seqs(S, low, high) == UNION {[1 .. n -> S] : n \in low .. high}
Plain(s) == [i \in DOMAIN s |-> [number |-> NoNumber, key |-> s[i]]]
FromLine(n, s) == [i \in DOMAIN s |-> [number |-> n + i - 1, key |-> s[i]]]
Outputs == {Plain(s) : s \in Seqs({ka, kb}, 2, 3)}
           \cup {FromLine(n, s) : n \in {1, 3}, s \in {<<ka, kb>>, <<ka, kb, ka>>}}
           \cup {<<>>, Plain(<<kz, ka, ka>>)}
Part(o, cached, live) ==
  [completed |-> TRUE, output |-> o, cacheControl |-> cached, live |-> live]
MCSpanRequests ==
  {<<<<Part(x, FALSE, TRUE), Part(y, c, TRUE)>>, <<Part(w, FALSE, l)>>>> :
     x, y, w \in Outputs, c, l \in BOOLEAN}
  \cup {<<<<[Part(x, FALSE, TRUE) EXCEPT !.completed = FALSE]>>, <<Part(x, FALSE, TRUE)>>>> :
          x \in Outputs}
MCLineChars == [k \in {ka, kb, kz} |-> 2]

(* Retrievals.                                                             *)
Shown(hit) == [chars |-> IF hit THEN 2 ELSE 1, hit |-> hit]
Text4 == {[i \in 1 .. n |-> Shown(i \in H)] : n \in {1, 4}, H \in {{}, {1}, {1, 2, 4}}}
Text11 == [i \in 1 .. 11 |-> Shown(i \in {1, 6})]
Entries ==
  [lines : Text4 \cup {Text11}, pretty : {<<>>}, mode : {NotGiven, "tail", "full"},
   maxChars : {NotGiven, 9}]
  \cup [lines : {<<Shown(TRUE)>>}, pretty : {[i \in 1 .. 3 |-> Shown(i = 2)]},
        mode : {NotGiven}, maxChars : {NotGiven}]
Requests ==
  [mode : {NotGiven, "full", "query", "range", "head", "tail", "summary"},
   query : {"", "short", "word"}, startLine : {NotGiven, 3, 9}, endLine : {NotGiven, 2},
   lines : {NotGiven, 1}, contextLines : {NotGiven, -1}, maxMatches : {NotGiven},
   maxChars : {NotGiven, 4}]
  \cup [mode : {NotGiven, "full"}, query : {"", "word"}, startLine : {NotGiven, 0},
        endLine : {NotGiven}, lines : {NotGiven}, contextLines : {0}, maxMatches : {1, 2},
        maxChars : {12, 40}]
MCRetrievals == [entry : Entries, request : Requests]

(* Logs, search results, arrays and objects.                               *)
LogLine(level, opens, ends, summary, hit, similar) ==
  [level |-> level, opens |-> opens, ends |-> ends, summary |-> summary, hit |-> hit,
   similar |-> similar]
LogLines ==
  {LogLine("UNKNOWN", Nothing, {"js"}, FALSE, FALSE, 1),
   LogLine("UNKNOWN", "js", {}, FALSE, FALSE, 2),
   LogLine("ERROR", Nothing, {}, FALSE, FALSE, 3),
   LogLine("WARN", Nothing, {"js"}, FALSE, FALSE, 4),
   LogLine("INFO", Nothing, {"js"}, FALSE, TRUE, 5),
   LogLine("FAIL", Nothing, {"js"}, TRUE, FALSE, 6)}
MCLogs == Seqs(LogLines, 5, 5) \cup Seqs(LogLines, 1, 1)
Match(file, line, severe, hits) ==
  [file |-> file, line |-> line, severe |-> severe, hits |-> hits]
Matches ==
  {Match(1, 1, FALSE, 0), Match(1, 2, FALSE, 0), Match(1, 2, TRUE, 0), Match(1, 3, FALSE, 1),
   Match(2, 1, FALSE, 0), Match(2, 1, FALSE, 2), Match(2, 2, FALSE, 1)}
MCSearches == Seqs(Matches, 1, 1) \cup Seqs(Matches, 4, 4)
Row(signature, priority, outlier, information) ==
  [signature |-> signature, priority |-> priority, outlier |-> outlier,
   information |-> information]
MCArrays ==
  Seqs({Row(1, FALSE, FALSE, 0), Row(1, FALSE, FALSE, 1), Row(1, TRUE, FALSE, 0),
        Row(2, FALSE, FALSE, 0), Row(1, FALSE, TRUE, 0)}, 2, 5)
  \cup {[i \in 1 .. 8 |-> Row(1, i = 4, FALSE, n * i)] : n \in {-1, 1}}
MCObjects == Seqs([structured : BOOLEAN, priority : BOOLEAN], 1, 5)
MCMeasures ==
  {[groups |-> 2, knee |-> Nothing, unlike |-> FALSE],
   [groups |-> 4, knee |-> 1, unlike |-> TRUE]}

(* Diffs, as sequences of whole headers and hunks.                         *)
Line(kind, words, signal) == [kind |-> kind, words |-> words, signal |-> signal]
Of(kind) == Line(kind, {}, FALSE)
FileChunks ==
  {<<Of("file")>>, <<Line("file", {"q"}, FALSE), Of("other")>>,
   <<Of("file"), Line("other", {}, TRUE)>>}
HunkChunks ==
  {<<Of("hunk"), Of("add"), Of("context"), Of("context")>>,
   <<Line("hunk", {"q"}, FALSE), Of("context"), Of("context"), Of("del"), Of("other")>>,
   <<Of("hunk"), Line("add", {}, TRUE)>>}
Chunks == FileChunks \cup HunkChunks
MCDiffs ==
  {FlattenSeq(s) : s \in Seqs(Chunks, 4, 4)}
  \cup {f \o FlattenSeq(s) : f \in FileChunks, s \in Seqs(HunkChunks, 4, 4)}
  \cup {<<Of("context")>> \o c \o d : c, d \in Chunks}

(* Policies.                                                               *)
MCTools == {"headroom_stats", "ctx_search", "Read", "Bash"}
Rule(id, tools, action, strength, extra) ==
  [id |-> id, tools |-> tools, action |-> action, strength |-> strength, extra |-> extra]
Rules ==
  {Rule(id, tools, action, strength, extra) :
     id \in {"x", "y"}, tools \in {{MCTools}, {{"Bash"}, {"ctx_search"}}, {{"Read"}}},
     action \in {"preserve", "compress"}, strength \in {Unset, "aggressive"},
     extra \in {Unset, "ttl"}}
  \cup {Rule("", {MCTools}, "preserve", Unset, Unset),
        Rule("x", {}, "preserve", Unset, Unset)}
MCPolicies ==
  [rules : Seqs(Rules, 0, 1) \cup {<<r, s>> : r, s \in {q \in Rules : q.extra = Unset}},
   default : [action : {Unset, "preserve"}, strength : {Unset}]]
MCSkipLists == {{}, {{"headroom_stats"}, {"ctx_search"}}, {{"Bash"}}}

(* Files: one path within the root and one outside, a directory, two files. *)
MCFileSystems ==
  {(in :> e) @@ (in2 :> File(i1)) @@ (out :> File(i2)) :
     e \in {File(i1), File(dir), Absent, Link(out), Moved(out), Link(in2)}}
=============================================================================
