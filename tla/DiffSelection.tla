---------------------------- MODULE DiffSelection ----------------------------
(***************************************************************************)
(* What the diff compressor keeps of a diff                                *)
(* (src/src/compressors/diff.ts).  A line is "file" (a file header),       *)
(* "hunk" (a hunk header), "add", "del", "context" or "other" (index and   *)
(* mode lines, the "\ No newline" mark), with the query words in it and    *)
(* whether it has a priority signal.  A file or a hunk is the position of  *)
(* its header; a selection is a set of positions, shown in order.          *)
(***************************************************************************)
EXTENDS Integers, Sequences, FiniteSets, FiniteSetsExt

CONSTANTS MinDiffLines, MaxDiffFiles, MaxHunksPerFile, MaxContextLines

ASSUME DiffAssumption ==
  /\ {MinDiffLines, MaxDiffFiles} \subseteq Nat \ {0} /\ MaxContextLines \in Nat
  /\ MaxHunksPerFile \in Nat /\ MaxHunksPerFile >= 2

KindOf(d, kind) == {i \in DOMAIN d : d[i].kind = kind}
(* parseDiff: the lines before the first file are a prelude; the lines of  *)
(* a file before its first hunk are its header.                            *)
Prelude(d) == {i \in DOMAIN d : \A f \in KindOf(d, "file") : i < f}
DiffFiles(d) == KindOf(d, "file")
LinesOfFile(d, f) == {i \in DOMAIN d : f <= i /\ \A g \in DiffFiles(d) : g <= f \/ i < g}
HunksOf(d, f) == LinesOfFile(d, f) \cap KindOf(d, "hunk")
HeaderOf(d, f) == {i \in LinesOfFile(d, f) : \A h \in HunksOf(d, f) : i < h}
LinesOfHunk(d, f, h) ==
  {i \in LinesOfFile(d, f) : h < i /\ \A g \in HunksOf(d, f) : g <= h \/ i < g}
Parses(d) == \E f \in DiffFiles(d) : HunksOf(d, f) # {}

Changes(d, S) == {i \in S : d[i].kind \in {"add", "del"}}
HunkLines(d, f) == UNION {LinesOfHunk(d, f, h) : h \in HunksOf(d, f)}
Relevance(d, S) == Cardinality(UNION {d[i].words : i \in S})
Priority(d, S) == IF \E i \in S : d[i].signal THEN 1 ELSE 0

(* The first k by ranks that are compared component by component, then by  *)
(* position.                                                               *)
Outranks(a, b) == \E c \in DOMAIN a : a[c] > b[c] /\ \A e \in 1 .. c - 1 : a[e] = b[e]
TopRanked(S, k, rank) ==
  {x \in S : Cardinality({y \in S : \/ Outranks(rank[y], rank[x])
                                    \/ rank[y] = rank[x] /\ y < x}) < k}
-----------------------------------------------------------------------------
FileRankByQuery(d, f) ==
  <<Relevance(d, LinesOfFile(d, f)), Priority(d, LinesOfFile(d, f)),
    Cardinality(Changes(d, HunkLines(d, f)))>>
FileRankOf(d, f) ==
  <<Priority(d, LinesOfFile(d, f)), Relevance(d, LinesOfFile(d, f)),
    Cardinality(Changes(d, HunkLines(d, f)))>>
SelectFiles(d) ==
  TopRanked(DiffFiles(d), MaxDiffFiles, [f \in DiffFiles(d) |-> FileRankOf(d, f)])

(* scoreHunk, in hundredths; the first and the last hunk always stay.      *)
ScoreHunk(d, S) ==
  Min({100, Min({30, 3 * Cardinality(Changes(d, S))}) + 20 * Relevance(d, S)
            + 30 * Priority(d, S)})
SelectHunks(d, f) ==
  LET hunks == HunksOf(d, f)
      ends == {Min(hunks), Max(hunks)}
      rank == [h \in hunks |-> LET S == {h} \cup LinesOfHunk(d, f, h)
                               IN  <<Priority(d, S), ScoreHunk(d, S)>>]
  IN  IF Cardinality(hunks) <= MaxHunksPerFile THEN hunks
      ELSE ends \cup TopRanked(hunks \ ends, MaxHunksPerFile - 2, rank)

(* trimHunkContext: the lines near a change, or the first ones of a hunk   *)
(* without changes, and whatever is neither a change nor context.          *)
NearChange(d, S) ==
  {i \in S : \E c \in Changes(d, S) : i \in c - MaxContextLines .. c + MaxContextLines}
TrimHunkContext(d, h, S) ==
  (IF Changes(d, S) = {} THEN {i \in S : i <= h + MaxContextLines} ELSE NearChange(d, S))
  \cup {i \in S : d[i].kind = "other"}

(* compressDiff: the lines kept and the counts of the summary line; Whole  *)
(* if the diff is short or not a diff.  (Whether the result is short       *)
(* enough to be used is decided after that, on its size.)                  *)
Whole == [kept |-> {}, whole |-> TRUE]
CompressDiff(d) ==
  LET files == SelectFiles(d)
      hunks(f) == SelectHunks(d, f)
      original == UNION {UNION {LinesOfHunk(d, f, h) : h \in hunks(f)} : f \in files}
      trimmed(f) == UNION {{h} \cup TrimHunkContext(d, h, LinesOfHunk(d, f, h)) : h \in hunks(f)}
  IN  IF Len(d) < MinDiffLines \/ ~Parses(d) THEN Whole
      ELSE [whole |-> FALSE,
            kept |-> Prelude(d) \cup UNION {HeaderOf(d, f) \cup trimmed(f) : f \in files},
            additions |-> Cardinality(original \cap KindOf(d, "add")),
            deletions |-> Cardinality(original \cap KindOf(d, "del")),
            filesChanged |-> Cardinality(files),
            filesOmitted |-> Cardinality(DiffFiles(d)) - Cardinality(files),
            hunksOmitted |-> MapThenSumSet(LAMBDA f : Cardinality(HunksOf(d, f))
                                                      - Cardinality(hunks(f)), files)]
-----------------------------------------------------------------------------
(* The summary line tells the truth about what is shown: as many added and *)
(* removed lines as it says stand below a hunk header, every change of a   *)
(* shown hunk stands with two lines of context on each side, no line of a  *)
(* file or hunk stands without its header, omitted files and hunks add up, *)
(* and a file or hunk with a signal is dropped only for others with one    *)
(* (DESIGN.md:159-167).                                                    *)
DiffAccountedFor(d) ==
  LET r == CompressDiff(d)
      inHunk == {i \in r.kept : \E f \in DiffFiles(d) : i \in HunkLines(d, f)}
      shownFiles == r.kept \cap DiffFiles(d)
      signalled(f) == Priority(d, LinesOfFile(d, f)) = 1
  IN  ~r.whole =>
        /\ r.additions = Cardinality(inHunk \cap KindOf(d, "add"))
        /\ r.deletions = Cardinality(inHunk \cap KindOf(d, "del"))
        /\ r.filesChanged = Cardinality(shownFiles)
        /\ r.filesChanged + r.filesOmitted = Cardinality(DiffFiles(d))
        /\ r.hunksOmitted = MapThenSumSet(LAMBDA f : Cardinality(HunksOf(d, f) \ r.kept), shownFiles)
        /\ \A f \in DiffFiles(d) \ r.kept :
             /\ LinesOfFile(d, f) \cap r.kept = {}
             /\ signalled(f) => \A g \in shownFiles : signalled(g)
        /\ \A f \in shownFiles : \A h \in HunksOf(d, f) :
             LET S == LinesOfHunk(d, f, h)
                 middle == (HunksOf(d, f) \cap r.kept) \ {Min(HunksOf(d, f)), Max(HunksOf(d, f))}
             IN  IF h \in r.kept THEN Changes(d, S) \cup NearChange(d, S) \subseteq r.kept
                 ELSE /\ S \cap r.kept = {}
                      /\ Priority(d, S \cup {h}) = 1 =>
                           \A g \in middle : Priority(d, {g} \cup LinesOfHunk(d, f, g)) = 1
=============================================================================
