------------------------------ MODULE Inspect ------------------------------
(***************************************************************************)
(* src/repl: the small operations a host runs over a stored output, on the *)
(* whole text or on a slice of its lines.  A text is a sequence of lines,  *)
(* a pattern is what Row says of a line.  Scripts are taken as parsed.     *)
(***************************************************************************)
EXTENDS Lines

CONSTANTS
  Row,                  \* of a line: patterns it matches, how often, level, fence, link, score
  max_hits, max_lines, max_output_hits,  \* ReplLimits, the last in hits that fit a result
  SEARCH_WINDOW_LINES

ASSUME RowAssumption ==
  \A row \in DOMAIN Row :
    Row[row].times \in Nat /\ Row[row].score \in Nat /\ Row[row].chars \in Nat

ASSUME LimitsAssumption ==
  /\ max_hits \in Nat /\ max_lines \in Nat /\ max_output_hits \in Nat
  /\ SEARCH_WINDOW_LINES \in Nat \ {0}

Hit(line, row) == [line |-> line, row |-> row]
Hits(hits, truncated) == [hits |-> hits, truncated |-> truncated]
MatchingLines(text, pattern) == {i \in DOMAIN text : pattern \in Row[text[i]].patterns}

\* A match beyond max_hits is counted, also when it is near another one.
grep(text, pattern, asked_context) ==
  LET context == Min({asked_context, max_lines})
      matching == MatchingLines(text, pattern)
      kept == FirstOf(matching, max_hits)
      near == {i \in DOMAIN text : \E j \in kept : i \in (j - context)..(j + context)}
      reserved == FirstOf(kept, max_lines)
      Step(r, i) ==
        LET remaining == IF i \in reserved THEN r.remaining - 1 ELSE r.remaining
        IN  IF \/ Len(r.hits) + remaining >= max_lines /\ i \notin reserved
               \/ Len(r.hits) >= max_lines
            THEN [r EXCEPT !.remaining = remaining, !.truncated = @ + 1]
            ELSE [r EXCEPT !.remaining = remaining, !.hits = Append(@, Hit(i, text[i]))]
      walk == FoldLeft(Step, [hits |-> <<>>, truncated |-> Cardinality(matching \ kept),
                              remaining |-> Cardinality(reserved)], InOrder(near, Len(text)))
  IN  Hits(walk.hits, walk.truncated)

\* Every match of every line, up to max_hits.
regex_matches(text, pattern) ==
  LET all == FlattenSeq([i \in DOMAIN text |->
               IF pattern \in Row[text[i]].patterns
               THEN [k \in 1..Row[text[i]].times |-> Hit(i, text[i])] ELSE <<>>])
      shown == Min({Len(all), max_hits})
  IN  Hits(SubSeq(all, 1, shown), Len(all) - shown)

Windows(text) == (Len(text) + SEARCH_WINDOW_LINES - 1) \div SEARCH_WINDOW_LINES
WindowStart(w) == (w - 1) * SEARCH_WINDOW_LINES + 1
WindowLines(text, w) ==
  SubSeq(text, WindowStart(w), Min({w * SEARCH_WINDOW_LINES, Len(text)}))
WindowScore(text, w) == FoldLeft(LAMBDA n, row : n + Row[row].score, 0, WindowLines(text, w))

\* The best windows of lines first.
search_windows(text, top_k) ==
  LET scored == {w \in 1..Windows(text) : WindowScore(text, w) > 0}
      Score(w) == WindowScore(text, w)
      better == {p \in scored \X scored :
                   Score(p[1]) > Score(p[2]) \/ (Score(p[1]) = Score(p[2]) /\ p[1] < p[2])}
      best == Sorted(scored, better)
      shown == Min({Len(best), top_k, max_hits})
  IN  Hits([k \in 1..shown |-> Hit(WindowStart(best[k]), text[WindowStart(best[k])])],
           Len(best) - shown)

\* Headings outside of fenced code.
extract_headings(text) ==
  LET Step(r, i) ==
        IF Row[text[i]].fence THEN [r EXCEPT !.fenced = ~@]
        ELSE IF r.fenced \/ Row[text[i]].level \notin 1..6 THEN r
        ELSE IF Len(r.hits) >= max_hits THEN [r EXCEPT !.truncated = @ + 1]
        ELSE [r EXCEPT !.hits = Append(@, Hit(i, text[i]))]
      read == FoldLeft(Step, [hits |-> <<>>, truncated |-> 0, fenced |-> FALSE],
                       [i \in DOMAIN text |-> i])
  IN  Hits(read.hits, read.truncated)

\* Each link once; a link has no line number, its hits are all at 0.
extract_links(text) ==
  LET Step(r, row) ==
        LET link == Row[row].link
        IN  IF link = "none" \/ link \in r.seen THEN r
            ELSE IF Len(r.hits) >= max_hits
            THEN [r EXCEPT !.seen = @ \cup {link}, !.truncated = @ + 1]
            ELSE [r EXCEPT !.seen = @ \cup {link}, !.hits = Append(@, Hit(0, row))]
      read == FoldLeft(Step, [hits |-> <<>>, truncated |-> 0, seen |-> {}], text)
  IN  Hits(read.hits, read.truncated)

-----------------------------------------------------------------------------
\* sed: an address is [at |-> "line", n], [at |-> "last"], [at |-> "re", re] or "none".
addr_matches(a, n, last, row) ==
  CASE a.at = "line" -> a.n = n
    [] a.at = "last" -> last
    [] OTHER -> a.re \in Row[row].patterns

\* Whether a command picks line n, and whether its range goes on after it.
selected(cmd, active, n, last, row) ==
  LET starts == ~active /\ addr_matches(cmd.a1, n, last, row)
      hit == CASE cmd.a1.at = "none" -> TRUE
               [] cmd.a1.at # "none" /\ cmd.a2.at = "none" -> addr_matches(cmd.a1, n, last, row)
               [] OTHER -> active \/ starts
      goes_on == /\ cmd.a1.at # "none" /\ cmd.a2.at # "none"
                 /\ IF active THEN ~addr_matches(cmd.a2, n, last, row)
                    ELSE starts /\ ~(cmd.a2.at = "line" /\ cmd.a2.n <= n)
  IN  [picked |-> hit # cmd.negate, active |-> goes_on]

\* The commands run on one line; a deleted line skips the rest of them.
SedLine(cmds, text, n, quiet, before) ==
  LET Step(r, k) ==
        LET cmd == cmds[k]
            s == selected(cmd, r.active[k], n, n = Len(text), r.row)
            seen == [r EXCEPT !.active[k] = s.active]
        IN  CASE r.deleted -> r
              [] ~r.deleted /\ ~s.picked -> seen
              [] ~r.deleted /\ s.picked /\ cmd.kind = "p" ->
                   [seen EXCEPT !.out = Append(@, Hit(n, r.row))]
              [] ~r.deleted /\ s.picked /\ cmd.kind = "d" -> [seen EXCEPT !.deleted = TRUE]
              [] OTHER ->
                   IF cmd.re \in Row[r.row].patterns
                   THEN [seen EXCEPT !.row = cmd.repl,
                                     !.out = IF cmd.print THEN Append(@, Hit(n, cmd.repl)) ELSE @]
                   ELSE seen
      ran == FoldLeft(Step, [before EXCEPT !.row = text[n], !.deleted = FALSE],
                      [k \in DOMAIN cmds |-> k])
  IN  IF quiet \/ ran.deleted THEN ran ELSE [ran EXCEPT !.out = Append(@, Hit(n, ran.row))]

sed(text, cmds, quiet) ==
  LET idle == [row |-> "", deleted |-> FALSE, out |-> <<>>, active |-> [k \in DOMAIN cmds |-> FALSE]]
      read == FoldLeft(LAMBDA r, n : SedLine(cmds, text, n, quiet, r), idle,
                       [n \in DOMAIN text |-> n])
      shown == Min({Len(read.out), max_lines})
  IN  Hits(SubSeq(read.out, 1, shown), Len(read.out) - shown)

\* awk: one rule that picks lines by their number or by a pattern.
AwkTest(test, n, row) ==
  CASE test.is = "all" -> TRUE
    [] test.is = "re" -> (test.re \in Row[row].patterns) # test.negate
    [] test.is = "NR >=" -> n >= test.n
    [] OTHER -> n = test.n

awk(text, test) ==
  LET picked == {n \in DOMAIN text : AwkTest(test, n, text[n])}
      shown == InOrder(FirstOf(picked, max_lines), Len(text))
  IN  Hits([k \in DOMAIN shown |-> Hit(shown[k], text[shown[k]])],
             Cardinality(picked) - Len(shown))

-----------------------------------------------------------------------------
\* The overview: the outline, then lines from the start and the end in half the budget each.
Longest(lines, text, budget) ==
  LET Chars(k) == FoldLeft(LAMBDA n, i : n + Row[text[i]].chars + 1, 0, SubSeq(lines, 1, k))
  IN  Max({k \in 0..Len(lines) : Chars(k) <= budget})

summarize_text(text, max_chars) ==
  LET outline == extract_headings(text).hits
      body == InOrder({i \in DOMAIN text : Row[text[i]].chars > 0}, Len(text))
      half == (Max({0, max_chars - Len(outline)})) \div 2
      head == Longest(body, text, half)
      rest == SubSeq(body, head + 1, Len(body))
      tail == Longest(Reverse(rest), text, half)
      shown == SubSeq(body, 1, head) \o SubSeq(rest, Len(rest) - tail + 1, Len(rest))
  IN  Hits([k \in DOMAIN shown |-> Hit(shown[k], text[shown[k]])], 0)

-----------------------------------------------------------------------------
\* scope.rs: a slice with the semantics of Python; <<>> is an open bound.
Fixed(bound, default, len) ==
  IF bound = <<>> THEN default
  ELSE IF bound[1] < 0 THEN Max({len + bound[1], 0}) ELSE Min({bound[1], len})

resolve(scope, len) ==
  LET start == Fixed(scope.from, 0, len)
  IN  [start |-> start, end |-> Max({start, Fixed(scope.to, len, len)})]

\* The scoped text and the number of lines before it.
apply_scope(text, scope) ==
  LET r == resolve(scope, Len(text))
  IN  [text |-> SubSeq(text, r.start + 1, r.end), offset |-> r.start]

\* Seeded fault: the lines are counted from the start of the slice.
ShiftNothing(out, by) == out

shift_lines(out, by) ==
  LET Shifted(hit) == IF hit.line = 0 THEN hit ELSE [hit EXCEPT !.line = @ + by]
  IN  Hits([k \in DOMAIN out.hits |-> Shifted(out.hits[k])], out.truncated)

\* Trailing hits are dropped, and counted, until the result fits; one always stays.
cap(out) ==
  LET fit == Min({Len(out.hits), max_output_hits})
  IN  Hits(SubSeq(out.hits, 1, fit), out.truncated + Len(out.hits) - fit)

run_scoped(text, op) ==
  CASE op.is = "grep" -> grep(text, op.pattern, op.context)
    [] op.is = "find" -> grep(text, op.pattern, 0)
    [] op.is = "regex" -> regex_matches(text, op.pattern)
    [] op.is = "rank" -> search_windows(text, op.top_k)
    [] op.is = "sed" -> sed(text, op.cmds, op.quiet)
    [] op.is = "awk" -> awk(text, op.test)
    [] op.is = "headings" -> extract_headings(text)
    [] op.is = "links" -> extract_links(text)
    [] OTHER -> summarize_text(text, op.max_chars)

\* An open scope is the whole text; the overview is text and is not cut by hits.
run_on_text(text, op, scope) ==
  LET scoped == apply_scope(text, scope)
      out == shift_lines(run_scoped(scoped.text, op), scoped.offset)
  IN  IF op.is = "summarize" THEN out ELSE cap(out)
=============================================================================
