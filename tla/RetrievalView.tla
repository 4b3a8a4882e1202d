---------------------------- MODULE RetrievalView ----------------------------
(***************************************************************************)
(* What a retrieval shows of a stored original                             *)
(* (src/src/engine/retrieve.ts).                                           *)
(*                                                                         *)
(* A text is a sequence of cells, one per character: cell c of the header, *)
(* of line n in the numbered form "n: ...", of a note or of the cut mark.  *)
(* The lengths of those pieces are constants.  An entry has its lines, the *)
(* lines of the pretty view (none, unless the entry is one line of JSON),  *)
(* and the mode and character limit kept with it.                          *)
(***************************************************************************)
EXTENDS Integers, Sequences, FiniteSets, SequencesExt, FiniteSetsExt

CONSTANTS NotGiven,              \* an argument or a default that is absent
          HeaderChars, NoteChars, SuffixChars,
          DefaultLines, DefaultContextLines, DefaultMaxMatches, DefaultMaxChars

ASSUME RetrievalAssumption ==
  /\ NotGiven \notin Int
  /\ {HeaderChars, NoteChars, SuffixChars, DefaultLines, DefaultMaxMatches,
      DefaultMaxChars} \subseteq Nat \ {0}
  /\ DefaultContextLines \in Nat

Lesser(a, b) == IF a < b THEN a ELSE b
Greater(a, b) == IF a > b THEN a ELSE b

(* clampInteger: integers stand for the floor of the number passed.        *)
ClampInteger(value, fallback) == IF value = NotGiven THEN fallback ELSE Greater(1, value)
-----------------------------------------------------------------------------
(* normalizeRetrieveRequest: a request is a record, or a bare query with   *)
(* plain |-> TRUE; query is "" (blank), "short" (no word of it is searched *)
(* for) or "word".                                                         *)
EntryMode(entry) == IF entry.mode = NotGiven THEN "summary" ELSE entry.mode
EntryMaxChars(entry) ==
  IF entry.maxChars # NotGiven THEN ClampInteger(entry.maxChars, DefaultMaxChars)
  ELSE IF EntryMode(entry) = "full" THEN NotGiven ELSE DefaultMaxChars

HasRange(r) == r.startLine # NotGiven \/ r.endLine # NotGiven
HasQuery(r) == r.query # ""
ModeOf(r, entry) ==
  CASE r.mode # NotGiven -> r.mode
    [] r.mode = NotGiven /\ HasRange(r) -> "range"
    [] r.mode = NotGiven /\ ~HasRange(r) /\ HasQuery(r) -> "query"
    [] OTHER -> EntryMode(entry)
MaxCharsOf(r, entry) ==
  LET usesEntryDefault == r.mode = NotGiven /\ ~HasRange(r) /\ ~HasQuery(r)
  IN  CASE r.maxChars # NotGiven -> ClampInteger(r.maxChars, 1)
        [] r.maxChars = NotGiven /\ usesEntryDefault -> EntryMaxChars(entry)
        [] OTHER -> IF ModeOf(r, entry) = "full" THEN NotGiven ELSE DefaultMaxChars
-----------------------------------------------------------------------------
(* Cells, and what joins pieces with newlines.                             *)
Piece(kind, n, chars) == [c \in 1 .. chars |-> [kind |-> kind, n |-> n, c |-> c]]
Newline == Piece("newline", 0, 1)
Join(pieces) ==
  FoldLeft(LAMBDA text, p : IF text = <<>> THEN p ELSE text \o Newline \o p, <<>>, pieces)
Header == Piece("header", 0, HeaderChars)
Note == Piece("note", 0, NoteChars)
Ascending(S, n) == SelectSeq([k \in 1 .. n |-> k], LAMBDA k : k \in S)
NumberedLine(view, n) == Piece("line", n, view[n].chars + 3)

(* retrievalView.                                                          *)
View(entry) == IF Len(entry.pretty) > 1 THEN entry.pretty ELSE entry.lines

(* lineRange: at least one line, of a view that has at least one.          *)
LineRange(view, startLine, endLine) ==
  LET start == Greater(1, Lesser(startLine, Len(view)))
      end == Greater(start, Lesser(endLine, Len(view)))
  IN  Join([i \in 1 .. end - start + 1 |-> NumberedLine(view, start + i - 1)])

(* clip: the mark starts with a newline, which goes when the mark alone is *)
(* too long.                                                               *)
Suffix == Newline \o Piece("mark", 0, SuffixChars - 1)
Clip(text, maxChars) ==
  IF maxChars = NotGiven \/ Len(text) <= maxChars THEN text
  ELSE IF Len(Suffix) >= maxChars THEN SubSeq(Tail(Suffix), 1, Lesser(maxChars, Len(Suffix) - 1))
  ELSE SubSeq(text, 1, maxChars - Len(Suffix)) \o Suffix
-----------------------------------------------------------------------------
(* The text of each mode, before it is clipped.                            *)
RetrieveFull(entry) ==
  Join([n \in DOMAIN entry.lines |-> Piece("original", n, entry.lines[n].chars)])

RetrieveSummary(view) ==
  LET n == Len(view)
      preview == LineRange(view, 1, Lesser(5, n))
  IN  Join(<<Header, Note, preview>>
           \o IF n > 10 THEN <<Note, LineRange(view, Greater(1, n - 4), n)>> ELSE <<>>)

(* The first maxMatches matching lines, with contextLines around each.     *)
QuerySelected(view, query, maxMatches, contextLines) ==
  LET matching == {n \in DOMAIN view : query = "word" /\ view[n].hit}
      taken == {n \in matching : Cardinality({k \in matching : k < n}) < maxMatches}
  IN  {k \in DOMAIN view : \E n \in taken : k \in n - contextLines .. n + contextLines}
RetrieveQuery(view, r) ==
  LET contextLines == IF r.contextLines = NotGiven THEN DefaultContextLines
                      ELSE Greater(0, r.contextLines)
      selected == QuerySelected(view, r.query, ClampInteger(r.maxMatches, DefaultMaxMatches),
                                contextLines)
      body == Ascending(selected, Len(view))
  IN  IF selected = {} THEN Join(<<Header, Note>>)
      ELSE Join(<<Header>> \o [i \in DOMAIN body |-> NumberedLine(view, body[i])])

RetrieveRange(view, r, lines) ==
  LET start == ClampInteger(r.startLine, 1)
      end == ClampInteger(r.endLine, start + lines - 1)
  IN  Join(<<Header, LineRange(view, start, end)>>)
RetrieveHead(view, lines) == Join(<<Header, LineRange(view, 1, Lesser(lines, Len(view)))>>)
TailStartEarly(n, lines) == Greater(1, n - lines)
TailStart(n, lines) == Greater(1, n - lines + 1)
RetrieveTail(view, lines) ==
  Join(<<Header, LineRange(view, TailStart(Len(view), lines), Len(view))>>)

(* retrieveEntry.                                                          *)
RetrieveEntry(entry, r) ==
  LET mode == ModeOf(r, entry)
      view == View(entry)
      lines == ClampInteger(r.lines, DefaultLines)
  IN  Clip(CASE mode = "full" -> RetrieveFull(entry)
             [] mode = "summary" -> RetrieveSummary(view)
             [] mode = "query" -> RetrieveQuery(view, r)
             [] mode = "range" -> RetrieveRange(view, r, lines)
             [] mode = "head" -> RetrieveHead(view, lines)
             [] mode = "tail" -> RetrieveTail(view, lines),
           MaxCharsOf(r, entry))
-----------------------------------------------------------------------------
(* What a caller relies on, said without the rendering: the lines a        *)
(* request selects of a view of n lines.                                   *)
Wanted(view, r, mode) ==
  LET n == Len(view)
      lines == IF r.lines = NotGiven THEN DefaultLines ELSE Greater(1, r.lines)
      matches == {k \in DOMAIN view : view[k].hit /\ r.query = "word"}
      near(k, m) == LET d == IF r.contextLines = NotGiven THEN DefaultContextLines ELSE r.contextLines
                    IN  m - k <= Greater(0, d) /\ k - m <= Greater(0, d)
      limit == IF r.maxMatches = NotGiven THEN DefaultMaxMatches ELSE Greater(1, r.maxMatches)
      first == IF r.startLine = NotGiven THEN 1 ELSE Greater(1, r.startLine)
      last == IF r.endLine = NotGiven THEN first + lines - 1 ELSE Greater(1, r.endLine)
  IN  CASE mode = "head" -> {k \in DOMAIN view : k <= lines}
        [] mode = "tail" -> {k \in DOMAIN view : k > n - lines}
        [] mode = "summary" -> {k \in DOMAIN view : k <= 5 \/ (n > 10 /\ k > n - 5)}
        [] mode = "query" -> {k \in DOMAIN view :
             \E m \in matches : near(k, m) /\ Cardinality({j \in matches : j <= m}) <= limit}
        [] mode = "range" -> LET asked == {k \in DOMAIN view : first <= k /\ k <= last}
                             IN  IF asked # {} THEN asked
                                 ELSE {Lesser(n, first)}

(* A retrieval is what its request promises (DESIGN.md:415-428): an        *)
(* explicit mode wins, then line bounds, then a query, then the default    *)
(* kept with the entry; the limit bounds the whole answer, mark included;  *)
(* an uncut answer has the selected lines under their numbers in the view, *)
(* each once, whole and in order, and the lines of a cut one are the first *)
(* of those; and an explicit mode full without a limit is the original.    *)
RetrievalExactFor(entry, r) ==
  LET answer == RetrieveEntry(entry, r)
      view == View(entry)
      asked == <<r.mode, IF HasRange(r) THEN "range" ELSE NotGiven,
                 IF HasQuery(r) THEN "query" ELSE NotGiven, entry.mode, "summary">>
      mode == asked[Min({i \in DOMAIN asked : asked[i] # NotGiven})]
      limit == MaxCharsOf(r, entry)
      wanted == Ascending(Wanted(view, r, mode), Len(view))
      shown == LET whole == SelectSeq(answer, LAMBDA x : x.kind = "line" /\ x.c = 1)
               IN  [i \in DOMAIN whole |-> whole[i].n]
      cells(n) == {i \in DOMAIN answer : answer[i].kind = "line" /\ answer[i].n = n}
      cut == \E i \in DOMAIN answer : answer[i].kind = "mark"
  IN  /\ limit # NotGiven => Len(answer) <= limit
      /\ r.mode = "full" /\ r.maxChars = NotGiven => answer = RetrieveFull(entry)
      /\ mode # "full" =>
           IF cut THEN IsPrefix(shown, wanted)
           ELSE /\ shown = wanted
                /\ \A n \in ToSet(shown) : Cardinality(cells(n)) = view[n].chars + 3
=============================================================================
