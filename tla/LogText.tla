------------------------------ MODULE LogText -------------------------------
(***************************************************************************)
(* What artifact.rs does with the text of a job log: slicing, grepping,    *)
(* scanning for markers, and the context of a died test.                   *)
(*                                                                         *)
(* A text is the sequence of its lines, and a line is its class: which of  *)
(* the marker sets it matches and whether os-autoinst stamped it.          *)
(***************************************************************************)
EXTENDS Naturals, Sequences, FiniteSets, FiniteSetsExt, SequencesExt, Arranged

Classes == {"plain", "tap", "died", "noise", "step", "trace", "frame"}
TapMarkers == {"tap"}
FatalMarkers == {"died"}
NoiseMarkers == {"noise"}
Timestamped == {"plain", "noise", "step"}

Least(a, b) == IF a < b THEN a ELSE b
Greatest(a, b) == IF a < b THEN b ELSE a

(* last_n_lines: the lines kept, as an interval of their numbers.          *)
LastLines(first, last, n) == Greatest(first, last + 1 - Least(n, last + 1))..last

Matching(text, marks) == {i \in DOMAIN text : text[i] \in marks}
FirstOf(S, n) == {i \in S : Cardinality({j \in S : j <= i}) <= n}

(* Mutant. *)
AroundUnclamped(text, i, context) == Greatest(1, i - Least(i, context))..i + context

Around(text, i, context) ==
  Greatest(1, i - Least(i, context))..Least(i + context, Len(text))

(* grep_lines: each match with its context; overlaps are emitted again.    *)
GrepLines(text, marks, context, max) ==
  LET found == Matching(text, marks)
  IN [hits      |-> FlattenSeq([k \in 1..Cardinality(FirstOf(found, max)) |->
                       Ascending(Around(text, Ascending(found)[k], context))]),
      total     |-> Cardinality(found),
      truncated |-> Cardinality(found) > max]

(* Mutant. *)
ScanMarkersOverlapping(text, marks, context, max) ==   \* the last_emitted guard is gone
  LET grep == GrepLines(text, marks, context, max)
  IN [hits |-> grep.hits, count |-> grep.total, more |-> grep.truncated, total |-> Len(text)]

(* scan_markers: a match adds only the lines after the last one emitted.   *)
ScanMarkers(text, marks, context, max) ==
  LET found == Matching(text, marks)
      Emit(hits, i) ==
        LET last == IF hits = <<>> THEN 0 ELSE Last(hits)
        IN hits \o Ascending({l \in Around(text, i, context) : l > last})
  IN [hits  |-> FoldLeft(Emit, <<>>, Ascending(FirstOf(found, max))),
      count |-> Cardinality(found),
      more  |-> Cardinality(found) > max,
      total |-> Len(text)]

(* tail_hits, as the tail tier reports them.                               *)
TailHits(text, n) ==
  [hits |-> Ascending(LastLines(1, Len(text), n)), count |-> 0, more |-> FALSE,
   total |-> Len(text)]

(* died_context, for the first fatal line: the step that was running (0 if *)
(* none) and the frames behind the next stack trace.                       *)
DiedContext(text, hit, maxFrames) ==
  LET steps  == {i \in 1..hit - 1 : text[i] = "step"}
      traces == {i \in hit..Len(text) : text[i] = "trace"}
      next(i) == {j \in i + 1..Len(text) : text[j] \in Timestamped} \cup {Len(text) + 1}
  IN [step  |-> IF steps = {} THEN 0 ELSE Max(steps),
      stack |-> IF traces = {} THEN {}
                ELSE LET t == Min(traces)
                     IN t + 1..Least(Min(next(t)) - 1, t + maxFrames)]
=============================================================================
