------------------------------ MODULE SpanDedup ------------------------------
(***************************************************************************)
(* Repeated-span folding (src/src/session/span-dedup.ts) over the completed *)
(* tool outputs of a request (src/src/session/message-dedup.ts).           *)
(*                                                                         *)
(* A line is a number (NoNumber if it has no "12:" or tab prefix) and a    *)
(* key, what follows the number.  A pointer that stands for a folded span  *)
(* is an unnumbered line whose key holds the turn, the length, the shift   *)
(* of the line numbers and the anchor.  Text sizes come from LineChars and *)
(* PointerChars.                                                           *)
(***************************************************************************)
EXTENDS Integers, Sequences, FiniteSets, SequencesExt, FiniteSetsExt

CONSTANTS Keys, Trivial,      \* what a line says, and what is never an anchor
          NoNumber, Null,
          LineChars, PointerChars,
          MinLines, MinChars, MaxAnchorCandidates

ASSUME SpanDedupAssumption ==
  /\ Trivial \subseteq Keys /\ NoNumber \notin Nat
  /\ LineChars \in [Keys -> Nat] /\ PointerChars \in Nat
  /\ {MinLines, MinChars, MaxAnchorCandidates} \subseteq Nat \ {0}

Text(lines) == FoldLeft(LAMBDA n, l : n + LineChars[l.key] + 1, -1, lines)
Pointer(span, turn, delta) ==
  [number |-> NoNumber,
   key |-> [turn |-> turn, length |-> Len(span), delta |-> delta, anchor |-> span[1].key]]
-----------------------------------------------------------------------------
(* indexLines and the anchors map: an anchor holds the first non-trivial   *)
(* lines with its key in the blocks indexed so far, no more than           *)
(* MaxAnchorCandidates.  A corpus is what each earlier block left verbatim, *)
(* Null for a folded line.                                                 *)
Anchored(lines, key) ==
  SelectSeq([i \in DOMAIN lines |-> i],
            LAMBDA i : lines[i] # Null /\ lines[i].key = key /\ key \notin Trivial)
Candidates(corpus, key) ==
  LET of(b) == LET at == Anchored(corpus[b], key)
               IN  [n \in DOMAIN at |-> [block |-> b, line |-> at[n]]]
      all == FlattenSeq([b \in DOMAIN corpus |-> of(b)])
  IN  SubSeq(all, 1, Min({Len(all), MaxAnchorCandidates}))

(* A run of lines that agree with those of an earlier block: it ends at    *)
(* the first pair that differs, or whose numbers are shifted otherwise.    *)
Numbered(l) == l.number # NoNumber
Agree(run, left, right) ==
  /\ run.open
  /\ right # Null
  /\ left.key = right.key
  /\ IF Numbered(left) /\ Numbered(right)
     THEN run.delta \in {NoNumber, left.number - right.number}
     ELSE left = right
Extend(run, left, right) ==
  IF ~Agree(run, left, right) THEN [run EXCEPT !.open = FALSE]
  ELSE [run EXCEPT !.length = @ + 1,
                   !.delta = IF Numbered(left) /\ Numbered(right)
                             THEN left.number - right.number ELSE @]

(* The run from line `start' of current and a line of block b.             *)
NoMatch == [block |-> 0, open |-> TRUE, length |-> 0, delta |-> NoNumber]
RunFrom(current, start, earlier, line, b) ==
  LET room == 1 + Min({Len(current) - start, Len(earlier) - line})
  IN  FoldLeft(LAMBDA run, i : Extend(run, current[start + i - 1], earlier[line + i - 1]),
               [NoMatch EXCEPT !.block = b], [i \in 1 .. room |-> i])

Longer(best, run) == IF run.length > best.length THEN run ELSE best
LongestMatch(current, start, corpus) ==
  FoldLeft(LAMBDA best, c : Longer(best, RunFrom(current, start, corpus[c.block], c.line, c.block)),
           NoMatch, Candidates(corpus, current[start].key))
-----------------------------------------------------------------------------
(* What a folded span leaves in the corpus.                                *)
VacatedKept(span) == span

Vacated(span) == [i \in DOMAIN span |-> Null]
(* One line of a block: the step of the loop at line i, given the longest  *)
(* match there.  acc.next is the line to go on from.                       *)
Folds(span, match) ==
  /\ match.length >= MinLines
  /\ Text(span) >= MinChars
  /\ PointerChars < Text(span)
FoldLine(acc, line, i, span, match, turn) ==
  CASE i < acc.next -> acc
    [] i >= acc.next /\ Folds(span, match) ->
         [next |-> i + match.length,
          emitted |-> Append(acc.emitted,
                             Pointer(span, turn, IF match.delta = NoNumber THEN 0 ELSE match.delta)),
          verbatim |-> acc.verbatim \o Vacated(span)]
    [] OTHER -> [next |-> i + 1, emitted |-> Append(acc.emitted, line),
                 verbatim |-> Append(acc.verbatim, line)]

TurnOf(blocks, b) == IF b = 0 THEN 0 ELSE blocks[b].turn
FoldAt(acc, lines, i, match, blocks) ==
  FoldLine(acc, lines[i], i, SubSeq(lines, i, i + match.length - 1), match,
           TurnOf(blocks, match.block))
FoldBlock(lines, corpus, blocks) ==
  FoldLeft(LAMBDA acc, i : FoldAt(acc, lines, i, LongestMatch(lines, i, corpus), blocks),
           [next |-> 1, emitted |-> <<>>, verbatim |-> <<>>], [i \in DOMAIN lines |-> i])

(* What a protected block adds to the corpus.                              *)
ProtectedUnread(block) == Vacated(block.lines)

ProtectedLines(block) == block.lines
AddProtected(acc, block) ==
  [corpus |-> Append(acc.corpus, ProtectedLines(block)),
   output |-> Append(acc.output, block.lines)]
AddFolded(acc, folded) ==
  [corpus |-> Append(acc.corpus, folded.verbatim),
   output |-> Append(acc.output, folded.emitted)]
DeduplicateSpans(blocks) ==
  FoldLeft(LAMBDA acc, block :
             IF block.protected THEN AddProtected(acc, block)
             ELSE AddFolded(acc, FoldBlock(block.lines, acc.corpus, blocks)),
           [corpus |-> <<>>, output |-> <<>>], blocks).output
-----------------------------------------------------------------------------
(* The blocks of a request: its non-empty completed tool outputs, protected *)
(* when cached by the provider or no longer live.                          *)
MessageBlocks(messages) ==
  LET blocksOf(m) ==
        LET kept == SelectSeq(messages[m], LAMBDA p : p.completed /\ p.output # <<>>)
        IN  [i \in DOMAIN kept |-> [lines |-> kept[i].output, turn |-> m,
                                    protected |-> kept[i].cacheControl \/ ~kept[i].live]]
  IN  FlattenSeq([m \in DOMAIN messages |-> blocksOf(m)])

DeduplicateMessageToolOutputs(messages) == DeduplicateSpans(MessageBlocks(messages))
-----------------------------------------------------------------------------
IsPointer(l) == l.key \notin Keys

(* What pointer p may stand for in an emitted block: p.length verbatim      *)
(* lines that start with its anchor, their numbers shifted.                *)
Shift(l, delta) == IF Numbered(l) THEN [l EXCEPT !.number = @ + delta] ELSE l
ShownAt(shown, from, p) ==
  /\ from + p.length - 1 <= Len(shown)
  /\ shown[from].key = p.anchor
  /\ \A i \in from .. from + p.length - 1 : ~IsPointer(shown[i])
SpansIn(shown, p) ==
  {[i \in 1 .. p.length |-> Shift(shown[from + i - 1], p.delta)] :
     from \in {f \in DOMAIN shown : ShownAt(shown, f, p)}}

(* An emitted block stands for the original when its pointers can be       *)
(* replaced by lines still shown in an earlier block of the turn they name. *)
Restores(emitted, original, earlier) ==
  LET spans(p) == UNION {SpansIn(b.shown, p) : b \in {e \in earlier : e.turn = p.turn}}
      reads[i \in 0 .. Len(emitted)] ==
        IF i = 0 THEN {<<>>}
        ELSE LET l == emitted[i]
                 tails == IF IsPointer(l) THEN spans(l.key) ELSE {<<l>>}
             IN  {head \o tail : head \in reads[i - 1], tail \in tails}
  IN  original \in reads[Len(emitted)]

(* Every pointer of a folded output leads, by its turn, length, shift and  *)
(* anchor alone, to lines that are still shown verbatim in an earlier      *)
(* block, and reading them in its place gives back the original output: a  *)
(* span is never folded into one that was itself folded (span-dedup.ts     *)
(* writes null for those lines).  It still does when the commit of the     *)
(* window rolls some of the earlier outputs back to their originals.       *)
ShownBefore(b, blocks, output, rolledBack) ==
  {[turn |-> blocks[e].turn,
    shown |-> IF e \in rolledBack THEN blocks[e].lines ELSE output[e]] : e \in 1 .. b - 1}
Resolves(blocks, output) ==
  \A b \in DOMAIN blocks : \A rolledBack \in SUBSET (1 .. b - 1) :
    Restores(output[b], blocks[b].lines, ShownBefore(b, blocks, output, rolledBack))
PointersResolveIn(messages) ==
  Resolves(MessageBlocks(messages), DeduplicateMessageToolOutputs(messages))

(* A later request replays the outputs already sent, which are frozen and  *)
(* so protected.  What was sent is then a prefix of what is sent, and the  *)
(* outputs that follow fold as if the whole session was folded afresh.     *)
Replayed(blocks, output, k) ==
  [b \in DOMAIN blocks |->
     IF b <= k THEN [blocks[b] EXCEPT !.lines = output[b], !.protected = TRUE] ELSE blocks[b]]
Stable(blocks, output) ==
  \A k \in DOMAIN blocks : DeduplicateSpans(Replayed(blocks, output, k)) = output
ReplayFoldsAlikeIn(messages) ==
  Stable(MessageBlocks(messages), DeduplicateMessageToolOutputs(messages))
=============================================================================
