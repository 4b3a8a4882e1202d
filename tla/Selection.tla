------------------------------ MODULE Selection ------------------------------
(***************************************************************************)
(* What the log, search and JSON compressors keep of an output             *)
(* (src/src/compressors/log.ts, search.ts, json.ts) and the adaptive size  *)
(* of the part they may choose (src/src/engine/adaptive-sizer.ts).         *)
(*                                                                         *)
(* Lines, matches and rows are records with what the classifiers say of    *)
(* them; a selection is a set of positions, shown in order.  The measures  *)
(* of the sizer are inputs: `measured' holds the number of unlike groups,  *)
(* the knee of the saturation curve (Nothing if it has none) and whether   *)
(* the compression ratio of the prefix is unlike that of the whole.        *)
(***************************************************************************)
EXTENDS Integers, Sequences, FiniteSets, SequencesExt, FiniteSetsExt, TLC

CONSTANTS Nothing,
          Bias,                \* in tenths
          SmallItems, AnalysisFloor,   \* adaptive-sizer.ts: 8 and 256
          MinLogLines, MinSearchMatches, \* smaller outputs are left whole
          MaxTraceScanLines,
          MaxErrors, MaxStackTraces, StackTraceMaxLines, MaxWarnings,
          MaxTotalLines, ContextLines, \* the log profile
          MaxFiles, MatchesPerFile, MaxMatches,  \* the search profile
          MaxItems, MaxObjectFields    \* the JSON profile

ASSUME SelectionAssumption ==
  /\ {Bias, SmallItems, AnalysisFloor, MinLogLines, MinSearchMatches,
      MaxTraceScanLines, MaxStackTraces, StackTraceMaxLines, MaxWarnings,
      MaxTotalLines, MaxFiles, MatchesPerFile, MaxMatches, MaxItems,
      MaxObjectFields} \subseteq Nat \ {0}
  /\ MaxErrors \in Nat /\ MaxErrors >= 2 /\ ContextLines \in Nat

AtMost(a, b) == Min({a, b})
AtLeast(a, b) == Max({a, b})
Clamp(value, minimum, maximum) == AtMost(maximum, AtLeast(minimum, value))

(* The first k of S when higher scores come first, then lower positions.   *)
Before(i, j, score) == score[i] > score[j] \/ (score[i] = score[j] /\ i < j)
Best(S, k, score) == {i \in S : Cardinality({j \in S : Before(j, i, score)}) < k}
FirstOf(S, k) == {i \in S : Cardinality({j \in S : j < i}) < k}
-----------------------------------------------------------------------------
(* computeOptimalK for n items.                                            *)
ValidateWithZlib(analyzed, k, maxK, unlike) ==
  IF k >= analyzed \/ k >= maxK \/ k = 0 \/ ~unlike THEN k
  ELSE AtMost(maxK, (12 * k) \div 10)

ComputeOptimalK(n, minimum, maximum, measured) ==
  LET maxK == AtMost(n, maximum)
      minK == AtMost(maxK, minimum)
      analyzed == AtMost(n, AtLeast(AnalysisFloor, 4 * maxK))
      groups == AtMost(measured.groups, analyzed)
      diverse == 10 * groups > 7 * analyzed
      floor == AtLeast(minK, (3 * analyzed + 7 * groups) \div 10)
      base == IF measured.knee = Nothing THEN floor
              ELSE LET knee == AtMost(measured.knee, analyzed)
                   IN  IF diverse THEN AtLeast(knee, floor) ELSE knee
  IN  CASE maxK = 0 -> 0
        [] maxK > 0 /\ n <= SmallItems -> maxK
        [] maxK > 0 /\ n > SmallItems /\ groups <= 3 -> Clamp(AtLeast(minK, groups), minK, maxK)
        [] OTHER -> ValidateWithZlib(analyzed, Clamp((base * Bias) \div 10, minK, maxK),
                                     maxK, measured.unlike)

(* The room that required items leave to the others.                       *)
SlotsShared(limit, required) == limit
Slots(limit, required) == AtLeast(0, limit - Cardinality(required))
-----------------------------------------------------------------------------
(* log.ts.  A line has a level, the flavor of the trace it opens (Nothing),  *)
(* the flavors it ends, and whether it is a summary or a query hit; lines  *)
(* with the same `similar' are duplicates.                                 *)
NoTrace == [active |-> Nothing, length |-> 0, flags |-> <<>>]
ClassifyTraces(lines) ==
  LET step(t, l) ==
        CASE t.active # Nothing /\ t.length < MaxTraceScanLines /\ t.active \notin l.ends ->
               [t EXCEPT !.length = @ + 1, !.flags = Append(@, TRUE)]
          [] OTHER ->
               [active |-> l.opens, length |-> IF l.opens = Nothing THEN 0 ELSE 1,
                flags |-> Append(t.flags, l.opens # Nothing)]
  IN  FoldLeft(step, NoTrace, lines).flags

LevelScore == [ERROR |-> 100, FAIL |-> 100, WARN |-> 50, INFO |-> 10, UNKNOWN |-> 10,
               DEBUG |-> 5, TRACE |-> 2]
ScoreLogLines(lines, traced) ==
  [i \in DOMAIN lines |->
     AtMost(100, LevelScore[lines[i].level] + (IF traced[i] THEN 30 ELSE 0)
                 + (IF lines[i].summary THEN 40 ELSE 0))]

SelectWithFirstLast(S, maxCount, score) ==
  IF Cardinality(S) <= maxCount THEN S
  ELSE LET ends == {Min(S), Max(S)}
       IN  ends \cup Best(S \ ends, maxCount - Cardinality(ends), score)

(* stackTraceGroups: the runs of traced lines.                             *)
GroupStarts(traced) == {i \in DOMAIN traced : traced[i] /\ (i = 1 \/ ~traced[i - 1])}
StackLines(traced) ==
  LET start(i) == Max({g \in GroupStarts(traced) : g <= i})
  IN  {i \in DOMAIN traced :
         /\ traced[i]
         /\ start(i) \in FirstOf(GroupStarts(traced), MaxStackTraces)
         /\ i - start(i) < StackTraceMaxLines}

OfLevel(lines, level) == {i \in DOMAIN lines : lines[i].level = level}
RequiredLines(lines) ==
  LET traced == ClassifyTraces(lines)
      score == ScoreLogLines(lines, traced)
  IN  {i \in DOMAIN lines : lines[i].hit \/ lines[i].summary}
      \cup SelectWithFirstLast(OfLevel(lines, "ERROR"), MaxErrors, score)
      \cup SelectWithFirstLast(OfLevel(lines, "FAIL"), MaxErrors, score)
      \cup StackLines(traced)

DedupeSimilar(lines, S) == {i \in S : \A j \in S : lines[j].similar = lines[i].similar => i <= j}
FillerLines(lines, required) ==
  LET warnings == FirstOf(DedupeSimilar(lines, OfLevel(lines, "WARN")), MaxWarnings)
      near == {i \in DOMAIN lines : \E s \in required \cup warnings :
                                      i \in s - ContextLines .. s + ContextLines}
  IN  (warnings \cup near) \ required

SelectLog(lines, measured) ==
  LET required == RequiredLines(lines)
      filler == FillerLines(lines, required)
      slots == Slots(MaxTotalLines, required)
      n == Cardinality(filler)
      k == ComputeOptimalK(n, Min({10, slots, n}), AtMost(slots, n), measured)
  IN  IF Len(lines) < MinLogLines THEN DOMAIN lines
      ELSE required \cup Best(filler, k, ScoreLogLines(lines, ClassifyTraces(lines)))
-----------------------------------------------------------------------------
(* search.ts.  A match has a file, a line number, whether it is severe and *)
(* how many words of the query it contains.  Two matches may have the same *)
(* file and line; the Maps of the code keep the last one set.              *)
KeyOf(m) == <<m.file, m.line>>
MatchScores(matches) ==
  [i \in DOMAIN matches |-> (IF matches[i].severe THEN 10 ELSE 0) + 3 * matches[i].hits]
Important(m) == m.severe \/ m.hits >= 2
LatestByKey(matches, S) ==
  {i \in S : \A j \in S : KeyOf(matches[j]) = KeyOf(matches[i]) => j <= i}
RequiredMatches(matches) ==
  LatestByKey(matches, {i \in DOMAIN matches : Important(matches[i])})

(* Files in order of their best score, then of appearance.                 *)
FirstMatch(matches, file) == Min({i \in DOMAIN matches : matches[i].file = file})
FileScore(matches, file) ==
  Max({MatchScores(matches)[i] : i \in {k \in DOMAIN matches : matches[k].file = file}})
FileBefore(f, g, matches) ==
  \/ FileScore(matches, f) > FileScore(matches, g)
  \/ /\ FileScore(matches, f) = FileScore(matches, g)
     /\ FirstMatch(matches, f) < FirstMatch(matches, g)
FilesOf(matches) == {matches[i].file : i \in DOMAIN matches}
FileRank(matches, file) == Cardinality({f \in FilesOf(matches) : FileBefore(f, file, matches)})

(* The filler of one file: its first and last match, then the best scored  *)
(* lines without a required match, while the file has room.                *)
FillerOfFile(matches, file, requiredKeys) ==
  LET mine == {i \in DOMAIN matches : matches[i].file = file}
      score == MatchScores(matches)
      ranked == [n \in 1 .. Cardinality(mine) |->
                   CHOOSE i \in mine : Cardinality({j \in mine : Before(j, i, score)}) = n - 1]
      needed == {matches[i].line : i \in {k \in mine : KeyOf(matches[k]) \in requiredKeys}}
      ends == (matches[Max(mine)].line :> Max(mine)) @@ (matches[Min(mine)].line :> Min(mine))
      add(chosen, i) ==
        IF Cardinality(needed) + Cardinality(DOMAIN chosen) >= MatchesPerFile
           \/ matches[i].line \in needed
        THEN chosen ELSE (matches[i].line :> i) @@ chosen
      chosen == FoldLeft(add, ends, ranked)
  IN  {chosen[l] : l \in DOMAIN chosen \ needed}

SelectSearch(matches, measured) ==
  LET required == RequiredMatches(matches)
      keys == {KeyOf(matches[i]) : i \in required}
      filler == UNION {FillerOfFile(matches, f, keys) :
                         f \in {g \in FilesOf(matches) : FileRank(matches, g) < MaxFiles}}
      before(i, j) ==
        LET rank(m) == <<-MatchScores(matches)[m], FileRank(matches, matches[m].file),
                         matches[m].line>>
            a == rank(i)
            b == rank(j)
        IN  \E c \in 1 .. 3 : a[c] < b[c] /\ \A d \in 1 .. c - 1 : a[d] = b[d]
      slots == Slots(MaxMatches, required)
      n == Cardinality(filler)
      k == ComputeOptimalK(n, Min({5, slots, n}), AtMost(slots, n), measured)
  IN  IF Len(matches) < MinSearchMatches THEN DOMAIN matches
      ELSE required \cup {i \in filler : Cardinality({j \in filler : before(j, i)}) < k}

OmittedOf(matches, selected, file) ==
  Cardinality({i \in DOMAIN matches : matches[i].file = file})
  - Cardinality({i \in selected : matches[i].file = file})
-----------------------------------------------------------------------------
(* json.ts.  A row has a key signature, whether it has a priority word or  *)
(* a query word, whether a number of it is an outlier, and an information  *)
(* score; a field is structured or a priority.                             *)
DominantSignature(rows) ==
  LET count(s) == Cardinality({i \in DOMAIN rows : rows[i].signature = s})
      first(s) == Min({i \in DOMAIN rows : rows[i].signature = s})
      all == {rows[i].signature : i \in DOMAIN rows}
  IN  CHOOSE s \in all : \A t \in all \ {s} :
        count(s) > count(t) \/ (count(s) = count(t) /\ first(s) < first(t))
RequiredRows(rows) ==
  {1, Len(rows)} \cup {i \in DOMAIN rows : \/ rows[i].signature # DominantSignature(rows)
                                          \/ rows[i].priority
                                          \/ rows[i].outlier}
SummarizeArray(rows, measured) ==
  LET required == RequiredRows(rows)
      filler == DOMAIN rows \ required
      slots == Slots(MaxItems, required)
      n == Cardinality(filler)
      k == ComputeOptimalK(n, Min({3, slots, n}), AtMost(slots, n), measured)
  IN  required \cup Best(filler, k, [i \in DOMAIN rows |-> rows[i].information])

RequiredFields(fields) ==
  {1, Len(fields)} \cup {i \in DOMAIN fields : fields[i].structured \/ fields[i].priority}
(* summarizeObject; an object with few fields is left whole.               *)
SummarizeObject(fields) ==
  LET required == RequiredFields(fields)
  IN  IF Len(fields) <= MaxObjectFields THEN DOMAIN fields
      ELSE required \cup FirstOf(DOMAIN fields \ required, Slots(MaxObjectFields, required))

(* compressJson: arrays with no more than MaxItems rows are left whole.    *)
SelectJson(rows, measured) ==
  IF Len(rows) <= MaxItems THEN DOMAIN rows ELSE SummarizeArray(rows, measured)
-----------------------------------------------------------------------------
(* A selection has everything in `needed', and room taken by nothing else: *)
(* beyond its limit only needed items remain.                              *)
Keeps(selected, needed, limit) ==
  /\ needed \subseteq selected
  /\ Cardinality(selected) <= AtLeast(limit, Cardinality(needed))

(* A log keeps its query hits and summaries, the first and last error and  *)
(* failure, and the opening of its first stack trace; all else it keeps is *)
(* a warning or stands near such a line, a traced line or a warning; and   *)
(* only what is required may exceed the budget (DESIGN.md:199-212).        *)
LogKeepsRequired(lines, measured) ==
  LET kept == SelectLog(lines, measured)
      ends(level) == LET S == OfLevel(lines, level)
                     IN  IF S = {} THEN {} ELSE {Min(S), Max(S)}
      openings == {i \in DOMAIN lines : lines[i].opens # Nothing}
      seeds == {i \in DOMAIN lines : \/ lines[i].hit \/ lines[i].summary
                                     \/ lines[i].level \in {"ERROR", "FAIL", "WARN"}
                                     \/ ClassifyTraces(lines)[i]}
  IN  Len(lines) >= MinLogLines =>
        /\ {i \in DOMAIN lines : lines[i].hit \/ lines[i].summary}
             \cup ends("ERROR") \cup ends("FAIL") \cup FirstOf(openings, 1) \subseteq kept
        /\ Keeps(kept, RequiredLines(lines), MaxTotalLines)
        /\ \A i \in kept : \E s \in seeds : i \in s - ContextLines .. s + ContextLines

(* A search result shows every file and line with an important match, no   *)
(* file and line twice, important matches rather than others for a line    *)
(* that has both, and says for each file how many matches are not shown.   *)
SearchKeepsRequired(matches, measured) ==
  LET shown == SelectSearch(matches, measured)
      important == {i \in DOMAIN matches : Important(matches[i])}
      keys(S) == {KeyOf(matches[i]) : i \in S}
  IN  Len(matches) >= MinSearchMatches =>
        /\ keys(important) \subseteq keys(shown)
        /\ \A i \in shown : KeyOf(matches[i]) \in keys(important) => i \in important
        /\ \A i, j \in shown : i # j => KeyOf(matches[i]) # KeyOf(matches[j])
        /\ Cardinality(shown) <= AtLeast(MaxMatches, Cardinality(keys(important)))
        /\ MapThenSumSet(LAMBDA f : OmittedOf(matches, shown, f), FilesOf(matches))
             = Len(matches) - Cardinality(shown)

(* An array keeps its ends, the rows unlike the majority and the rows with *)
(* a signal, and only rows with a reason may exceed the limit.             *)
ArrayKeepsRequired(rows, measured) ==
  LET kept == SelectJson(rows, measured)
      alike(i) == {j \in DOMAIN rows : rows[j].signature = rows[i].signature}
      majority == UNION {alike(i) : i \in {k \in DOMAIN rows :
                                            2 * Cardinality(alike(k)) > Len(rows)}}
      unlike == IF majority = {} THEN {} ELSE DOMAIN rows \ majority
  IN  /\ {i \in DOMAIN rows : rows[i].priority \/ rows[i].outlier}
           \cup {1, Len(rows)} \cup unlike \subseteq kept
      /\ Keeps(kept, RequiredRows(rows), MaxItems)

(* An object keeps its ends and its structured or signalling fields, and   *)
(* only those may exceed the limit.                                        *)
ObjectKeepsRequired(fields) ==
  Keeps(SummarizeObject(fields), RequiredFields(fields), MaxObjectFields)
=============================================================================
