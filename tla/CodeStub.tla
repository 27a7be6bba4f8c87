------------------------------ MODULE CodeStub ------------------------------
(***************************************************************************)
(* src/compressors/code.rs without a grammar: bodies told by the depth of  *)
(* their braces.  A line is a name; Code tells its braces, whether it has  *)
(* a keep marker, and the symbol it declares.                              *)
(***************************************************************************)
EXTENDS Lines

CONSTANTS
  Code,                          \* opens, closes, keep, symbol, public, by line
  MIN_BODY_LINES_TO_COLLAPSE, LEAST_CODE_LINES, \* 4 and 12
  CodeBytes, PlaceholderBytes    \* the length of a line, and of what replaces some

NotNegative(n) == IF n < 0 THEN 0 ELSE n

\* The depth after a line that starts at this one.
NextDepth(line, depth) == NotNegative(depth + Code[line].opens - Code[line].closes)

-----------------------------------------------------------------------------
(***************************************************************************)
(* compress_heuristic: a run of lines in a body that have no keep marker   *)
(* is collapsed when it is long enough.                                    *)
(***************************************************************************)
DepthBefore(lines, i) ==
  FoldLeft(LAMBDA depth, line : NextDepth(line, depth), 0, SubSeq(lines, 1, i - 1))

InBody(lines, i) == i \in DOMAIN lines /\ DepthBefore(lines, i) > 0 /\ ~Code[lines[i]].keep

compress_heuristic(lines) ==
  LET body == {i \in DOMAIN lines : InBody(lines, i)}
      Run(i) == {j \in body : Min({i, j})..Max({i, j}) \subseteq body}
      Written(i) ==
        IF i \notin body \/ Cardinality(Run(i)) < MIN_BODY_LINES_TO_COLLAPSE THEN <<Line(i)>>
        ELSE IF i = Min(Run(i)) THEN <<Omitted(Cardinality(Run(i)))>> ELSE <<>>
      out == FlattenSeq([i \in DOMAIN lines |-> Written(i)])
  IN  IF \/ Len(lines) < LEAST_CODE_LINES
         \/ Length(out, LAMBDA i : CodeBytes, PlaceholderBytes) >= CodeBytes * Len(lines)
      THEN None ELSE Lossy(out)

-----------------------------------------------------------------------------
(***************************************************************************)
(* stub_heuristic, line by line.  The mode is [is |-> "signatures"],       *)
(* "public", "symbols" with their names, or "around" with line numbers.    *)
(***************************************************************************)
Elision(first, last) == [start_line |-> first, end_line |-> last]

Elided(first, last) == [what |-> "elided", start_line |-> first, end_line |-> last]

StubStart ==
  [out |-> <<>>, elisions |-> <<>>, depth |-> 0, collapsed |-> <<>>,
   skipped_private_start |-> 0, expanding_body |-> FALSE]

Written(stub, entries) == [stub EXCEPT !.out = @ \o entries]

Elide(stub, first, last) ==
  [stub EXCEPT !.out = Append(@, Elided(first, last)),
               !.elisions = Append(@, Elision(first, last))]

Verbatim(lines) == [k \in DOMAIN lines |-> Line(lines[k])]

flush_verbatim(stub) == [Written(stub, Verbatim(stub.collapsed)) EXCEPT !.collapsed = <<>>]

flush(stub) ==
  IF Len(stub.collapsed) < MIN_BODY_LINES_TO_COLLAPSE THEN flush_verbatim(stub)
  ELSE [Elide(stub, Head(stub.collapsed), Last(stub.collapsed)) EXCEPT !.collapsed = <<>>]

should_expand_heuristic_symbol(mode, line, i) ==
  \/ mode.is = "symbols" /\ Code[line].symbol \in mode.names
  \/ mode.is = "around" /\ i \in mode.lines

should_expand_heuristic_line(mode, i) == mode.is = "around" /\ i \in mode.lines

SkipPrivate(stub, i, next_depth) ==
  IF next_depth # 0 THEN stub
  ELSE [Elide(stub, stub.skipped_private_start, i) EXCEPT !.skipped_private_start = 0]

ExpandBody(stub, i, next_depth) ==
  [Written(stub, <<Line(i)>>) EXCEPT !.expanding_body = next_depth # 0]

\* A line outside of a body, or with a keep marker.
Signature(stub, line, i, mode, next_depth) ==
  LET flushed == flush(stub)
      symbol == Code[line].symbol # "none"
  IN  IF symbol /\ mode.is = "public" /\ ~Code[line].public
      THEN IF next_depth = 0 THEN Elide(flushed, i, i)
           ELSE [flushed EXCEPT !.skipped_private_start = i]
      ELSE [Written(flushed, <<Line(i)>>) EXCEPT
              !.expanding_body = symbol /\ next_depth > 0
                                   /\ should_expand_heuristic_symbol(mode, line, i)]

BodyLine(stub, i, mode, next_depth) ==
  IF should_expand_heuristic_line(mode, i)
  THEN [Written(flush_verbatim(stub), <<Line(i)>>) EXCEPT !.expanding_body = next_depth > 0]
  ELSE [stub EXCEPT !.collapsed = Append(@, i)]

StubLine(stub, line, i, mode) ==
  LET next_depth == NextDepth(line, stub.depth)
      next == IF stub.skipped_private_start # 0 THEN SkipPrivate(stub, i, next_depth)
              ELSE IF stub.expanding_body THEN ExpandBody(stub, i, next_depth)
              ELSE IF stub.depth = 0 \/ Code[line].keep
              THEN Signature(stub, line, i, mode, next_depth)
              ELSE BodyLine(stub, i, mode, next_depth)
  IN  [next EXCEPT !.depth = next_depth]

stub_heuristic(lines, mode) ==
  LET read == FoldLeft(LAMBDA stub, i : StubLine(stub, lines[i], i, mode), StubStart,
                       [i \in DOMAIN lines |-> i])
      ended == IF read.skipped_private_start = 0 THEN read
               ELSE Elide(read, read.skipped_private_start, Len(lines))
      stub == flush(ended)
  IN  [text |-> stub.out, elisions |-> stub.elisions]

\* max_lines stands for the bytes; the marker takes two of its places.
enforce_stub_budget(stub, max_lines) ==
  LET total_lines == Len(stub.text)
      kept_lines == Min({total_lines, NotNegative(max_lines - 2)})
  IN  IF max_lines = 0 \/ total_lines <= max_lines THEN stub
      ELSE [text |-> Append(SubSeq(stub.text, 1, kept_lines), [what |-> "truncated"]),
            elisions |-> Append(stub.elisions, Elision(kept_lines + 1, total_lines))]

stub_code(lines, mode, max_lines) == enforce_stub_budget(stub_heuristic(lines, mode), max_lines)
=============================================================================
