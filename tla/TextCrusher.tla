----------------------------- MODULE TextCrusher -----------------------------
(***************************************************************************)
(* src/compressors/text.rs: the segments of a prose text that say most,    *)
(* within a target length and in their order.                              *)
(***************************************************************************)
EXTENDS Lines

CONSTANTS
  Segment,          \* what is told of a segment, by its name: terms, chars, and
                    \* in hundredths its salience and its score for the query
  MIN_SEGMENTS, MIN_TARGET_CHARS, TARGET_PERCENT, SIMILAR_PERCENT, DUPLICATE_PRESSURE

-----------------------------------------------------------------------------
Similar(a, b) ==
  /\ a # {} /\ b # {}
  /\ 100 * Cardinality(a \cap b) >= SIMILAR_PERCENT * Cardinality(a \cup b)

\* Taken in this order, the ones that are not similar to one taken before.
Distinct(text, order) ==
  FoldLeft(LAMBDA s, i :
             IF \E t \in s : Similar(Segment[text[t]].terms, Segment[text[i]].terms)
             THEN s ELSE s \cup {i}, {}, order)

duplicate_pressure(text) == Len(text) - Cardinality(Distinct(text, [i \in DOMAIN text |-> i]))

segment_score(text, query, i) ==
  2 * Segment[text[i]].salience
    + (IF query THEN (5 * (Min({Segment[text[i]].bm25, 400}) \div 4)) \div 2 ELSE 0)
    + (35 * i) \div Len(text)

has_signal(text, query) ==
  \/ query
  \/ duplicate_pressure(text) >= DUPLICATE_PRESSURE
  \/ \E i \in DOMAIN text : Segment[text[i]].salience >= 50

\* max_inline_chars is 0 when the caller sets no limit.
target_chars(content, max_inline_chars) ==
  LET ratio_target == (content * TARGET_PERCENT) \div 100
      asked == IF max_inline_chars = 0 THEN ratio_target ELSE max_inline_chars
  IN  Min({asked, Max({ratio_target, MIN_TARGET_CHARS}), content - 1})

-----------------------------------------------------------------------------
(***************************************************************************)
(* The greedy choice: by score, the first one whatever its length, nothing *)
(* that no longer fits and nothing like what was chosen.                   *)
(***************************************************************************)
Ranked(text, query) ==
  SortSeq([i \in DOMAIN text |-> i],
          LAMBDA i, j : LET a == segment_score(text, query, i)
                            b == segment_score(text, query, j)
                        IN  a > b \/ (a = b /\ i < j))

Used(text, selected) == MapThenSumSet(LAMBDA i : Segment[text[i]].chars + 1, selected)

Selected(text, query, target) ==
  FoldLeft(LAMBDA chosen, i :
             IF \/ /\ Used(text, chosen) + Segment[text[i]].chars + 1 > target
                   /\ chosen # {}
                \/ \E j \in chosen : Similar(Segment[text[j]].terms, Segment[text[i]].terms)
             THEN chosen ELSE chosen \cup {i}, {}, Ranked(text, query))

\* Two line ends between the segments of the content, one between those kept.
compress_textcrusher(text, query, max_inline_chars) ==
  LET content == MapThenSumSet(LAMBDA i : Segment[text[i]].chars + 2, DOMAIN text)
      target == target_chars(content, max_inline_chars)
      selected == Selected(text, query, target)
      out == InOrder(selected, Len(text))
  IN  IF \/ Len(text) < MIN_SEGMENTS
         \/ ~has_signal(text, query)
         \/ target = 0
         \/ selected = DOMAIN text
         \/ Used(text, selected) >= content
      THEN None ELSE Lossy([k \in DOMAIN out |-> Line(out[k])])
=============================================================================
