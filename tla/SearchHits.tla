------------------------------ MODULE SearchHits ------------------------------
(***************************************************************************)
(* src/compressors/search.rs: the best matches of every file, and the      *)
(* windows of a file's lines that are read around its matches.             *)
(***************************************************************************)
EXTENDS Lines

CONSTANTS
  MIN_MATCHES, TOP_K_PER_FILE,
  Relevance,          \* of a body: bm25 for the query, line_score, its length
  MatchBytes, MarkerBytes

-----------------------------------------------------------------------------
(***************************************************************************)
(* A line is [path, line_no, body]; one that is no match has no path.      *)
(* Scores are in hundredths.                                               *)
(***************************************************************************)
Matches(lines) == {i \in DOMAIN lines : lines[i].path # ""}

score_match(body, query) ==
  LET r == Relevance[body]
  IN  IF query THEN Max({r.bm25, r.importance \div 4})
      ELSE Max({r.importance, 20 + (80 * Min({r.length, 80})) \div 80})

InFile(lines, path) == {i \in Matches(lines) : lines[i].path = path}

\* Seeded fault: the matches found first.
RanksByPlace(lines, query, i, j) == i < j

\* Ranked by score; the sort is stable, so equal ones stay in the order found.
Ranks(lines, query, i, j) ==
  LET a == score_match(lines[i].body, query)
      b == score_match(lines[j].body, query)
  IN  a > b \/ (a = b /\ i < j)

Kept(lines, query, path) ==
  Best(InFile(lines, path), TOP_K_PER_FILE, LAMBDA i, j : Ranks(lines, query, i, j))

\* Within a file by line number, again a stable sort.
ByLineNumber(lines, S) ==
  SortSeq(InOrder(S, Len(lines)), LAMBDA i, j : lines[i].line_no < lines[j].line_no
                                    \/ (lines[i].line_no = lines[j].line_no /\ i < j))

More(path, n) == [what |-> "more", path |-> path, n |-> n]

compress_search(lines, query) ==
  LET matches == Matches(lines)
      preamble == {i \in DOMAIN lines : 1..i \cap matches = {}}
      firsts == {i \in matches : \A j \in matches : j < i => lines[j].path # lines[i].path}
      Rest(path) == Cardinality(InFile(lines, path)) - Cardinality(Kept(lines, query, path))
      Written(path) ==
        LET shown == ByLineNumber(lines, Kept(lines, query, path))
        IN  [k \in DOMAIN shown |-> Line(shown[k])]
              \o (IF Rest(path) > 0 THEN <<More(path, Rest(path))>> ELSE <<>>)
      total == MapThenSumSet(LAMBDA i : Rest(lines[i].path), firsts)
      out == [k \in DOMAIN InOrder(preamble, Len(lines)) |-> Line(k)]
               \o <<[what |-> "header", n |-> Cardinality(matches)]>>
               \o FoldLeft(LAMBDA o, i : o \o Written(lines[i].path), <<>>,
                           InOrder(firsts, Len(lines)))
               \o OmittedIfAny(total)
  IN  IF \/ Cardinality(matches) < MIN_MATCHES \/ matches = {}
         \/ Length(out, LAMBDA i : MatchBytes, MarkerBytes) >= MatchBytes * Len(lines)
      THEN None ELSE Lossy(out)

-----------------------------------------------------------------------------
(***************************************************************************)
(* select_snippet_windows: a window around every match, merged where they  *)
(* touch, the first max_snippets of them.                                  *)
(***************************************************************************)
select_snippet_windows(match_lines, context, max_line, max_snippets) ==
  LET matched == ToSet(match_lines) \ {0}
      Window(l) == Max({1, l - context})..Min({l + context, max_line})
      covered == UNION {Window(l) : l \in matched}
      starts == {l \in covered : l - 1 \notin covered}
      End(s) == Max({l \in covered : s..l \subseteq covered})
      shown == InOrder(FirstOf(starts, max_snippets), max_line)
      kept_end == End(shown[Len(shown)])
  IN  IF max_snippets = 0 \/ match_lines = <<>> \/ max_line = 0
      THEN [windows |-> <<>>, omitted_matches |-> Len(match_lines)]
      ELSE [windows |-> [k \in DOMAIN shown |-> shown[k]..End(shown[k])],
            omitted_matches |->
              IF Cardinality(starts) > max_snippets
              THEN Len(SelectSeq(match_lines, LAMBDA l : l > kept_end)) ELSE 0]
=============================================================================
