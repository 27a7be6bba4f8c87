----------------------------- MODULE RuleEngine -----------------------------
(***************************************************************************)
(* src/reduce.rs, classify.rs, rules/compiler.rs and text/process.rs: the  *)
(* output of a command, rewritten by the best rule for it.                 *)
(*                                                                         *)
(* A line is [is, of]: what kind of line it is and the words it is made    *)
(* of.  In an answer it is [what |-> "line", n, text] with its place in    *)
(* the output; the other entries are the lines the code makes up.  Colour  *)
(* escapes are not modelled: the output is taken as stripped.              *)
(***************************************************************************)
EXTENDS ShellPolicy

CONSTANTS
  Pattern,              \* the patterns that compile, each the set of lines it matches
  WordChars,            \* of a word
  MarkerChars,          \* of a line the code makes up
  TINY_OUTPUT_MAX_CHARS,
  HEAD, TAIL, FAILURE_TAIL  \* the lines kept where a rule does not say (6, 6 and 12)

Blank == [is |-> "blank", of |-> <<>>]
Numbered(lines) == [n \in DOMAIN lines |-> [what |-> "line", n |-> n, text |-> lines[n]]]
Made(what) == [what |-> what]
LinesOf(entries) == SelectSeq(entries, LAMBDA e : e.what = "line")

Chars(e) == IF e.what = "line" THEN WordChars * Len(e.text.of) ELSE MarkerChars
CharsUpTo(entries, k) ==
  IF k = 0 THEN 0 ELSE MapThenSumSet(LAMBDA i : Chars(entries[i]), 1..k) + k - 1
count_text_chars(entries) == CharsUpTo(entries, Len(entries))

-----------------------------------------------------------------------------
\* classify.rs
normalize_execution_input(input) ==
  IF input.argv # <<>> THEN input ELSE [input EXCEPT !.argv = tokenize_command(input.command)]

includes_all(argv, group) == \A k \in DOMAIN group : <<group[k]>> \in ToSet(argv)

\* A filter a rule does not have is the empty sequence.
matches_rule(rule, input) ==
  LET argv == input.argv
      words == IF input.command # <<>> THEN ToSet(input.command) ELSE UNION {ToSet(t) : t \in ToSet(argv)}
      match == rule.match
  IN  /\ match.tool_names # <<>> => input.tool_name \in ToSet(match.tool_names)
      /\ match.argv0 # <<>> => argv # <<>> /\ argv[1] \in {<<w>> : w \in ToSet(match.argv0)}
      /\ \A k \in DOMAIN match.argv_includes : includes_all(argv, match.argv_includes[k])
      /\ match.argv_includes_any # <<>> =>
           \E k \in DOMAIN match.argv_includes_any : includes_all(argv, match.argv_includes_any[k])
      /\ ToSet(match.command_includes) \subseteq words
      /\ match.command_includes_any # <<>> => ToSet(match.command_includes_any) \cap words # {}

WordsIn(groups) == FoldLeft(LAMBDA n, g : n + Len(g), 0, groups)

score_rule(rule) ==
  LET match == rule.match
  IN  rule.priority * 1000 + Len(match.argv0) * 100 + WordsIn(match.argv_includes) * 40
        + WordsIn(match.argv_includes_any) * 35 + Len(match.command_includes) * 25
        + Len(match.command_includes_any) * 20 + Len(match.tool_names) * 10

Ids(rules) == {rules[k].id : k \in DOMAIN rules}
RuleWithId(rules, id) == rules[CHOOSE k \in DOMAIN rules : rules[k].id = id]
Generic == [family |-> "generic", reducer |-> "none"]
Classified(rule) == [family |-> rule.family, reducer |-> rule.id]

\* `order` is the place of an id among the sorted ids.
Beats(a, b, order) ==
  score_rule(a) > score_rule(b) \/ (score_rule(a) = score_rule(b) /\ order[a.id] <= order[b.id])

classify_execution(input, rules, forced, order) ==
  LET matched == SelectSeq(rules, LAMBDA r : matches_rule(r, input))
  IN  IF forced \in Ids(rules) THEN Classified(RuleWithId(rules, forced))
      ELSE IF matched = <<>> THEN Generic
      ELSE Classified(FoldLeft(LAMBDA best, r : IF Beats(best, r, order) THEN best ELSE r,
                               matched[1], matched))

-----------------------------------------------------------------------------
\* text/process.rs
IsBlank(e) == e.what = "line" /\ e.text = Blank

trim_empty_edges(entries) ==
  LET told == {k \in DOMAIN entries : ~IsBlank(entries[k])}
  IN  IF told = {} THEN <<>> ELSE SubSeq(entries, Min(told), Max(told))

dedupe_adjacent(entries) ==
  FoldLeft(LAMBDA out, e : IF out # <<>> /\ Last(out).text = e.text THEN out ELSE Append(out, e),
           <<>>, entries)

head_tail(entries, head, tail) ==
  IF Len(entries) <= head + tail THEN entries
  ELSE SubSeq(entries, 1, head)
       \o <<[what |-> "omitted", n |-> Len(entries) - head - tail]>>
       \o SubSeq(entries, Len(entries) - tail + 1, Len(entries))

Sub(a, b) == IF a >= b THEN a - b ELSE 0
HalfUp(n) == (n + 1) \div 2
Part == <<Made("part")>>

\* The first `chars` characters, cut at a line end unless that is in their first half.
HeadPart(entries, chars) ==
  LET whole == {k \in DOMAIN entries : k < Len(entries) /\ CharsUpTo(entries, k) < chars}
      last == Max(whole \cup {0})
  IN  IF chars = 0 THEN <<>>
      ELSE IF whole # {} /\ CharsUpTo(entries, last) >= chars \div 2 THEN SubSeq(entries, 1, last)
      ELSE SubSeq(entries, 1, last) \o Part

TailPart(entries, chars) ==
  LET back == Reverse(entries)
      whole == {k \in DOMAIN back : k < Len(back) /\ CharsUpTo(back, k) < chars}
      first == Max(whole \cup {0})
  IN  IF chars = 0 THEN <<>>
      ELSE IF whole # {} /\ chars - CharsUpTo(back, first) - 1 <= HalfUp(chars)
      THEN Reverse(SubSeq(back, 1, first))
      ELSE Part \o Reverse(SubSeq(back, 1, first))

clamp_text(entries, max) ==
  IF count_text_chars(entries) <= max THEN entries
  ELSE HeadPart(entries, Sub(max, MarkerChars)) \o <<Made("truncated")>>

clamp_text_middle(entries, max) ==
  IF count_text_chars(entries) <= max THEN entries
  ELSE LET body == Sub(max, MarkerChars)
           head == (body * 7 + 9) \div 10
       IN  HeadPart(entries, head) \o <<Made("clamped")>> \o TailPart(entries, body - head)

-----------------------------------------------------------------------------
\* What git status prints, and its short form.
GitChange == [modified |-> "M", newfile |-> "A", deleted |-> "D", renamed |-> "R"]
Porcelain == (" M" :> "M") @@ ("AM" :> "A") @@ ("??" :> "??") @@ ("UU" :> "U")
GitSections == {"unstaged", "staged", "untracked"}
GitAsides == {"branch", "diverged", "nothing", "hint"}
Indented == {"path", " M"}  \* neither a change nor a hint

rewrite_git_status_line(text) ==
  CASE text.is \in GitAsides -> {}
    [] text.is \in DOMAIN GitChange -> {[is |-> GitChange[text.is], of |-> text.of]}
    [] text.is \in DOMAIN Porcelain -> {[is |-> Porcelain[text.is], of |-> text.of]}
    [] OTHER -> {text}

GitSection(section, text) == IF text.is \in GitSections THEN text.is ELSE section

rewrite_git_status_lines(entries) ==
  LET Rewritten(section, text) ==
        IF section = "untracked" /\ text.is \in Indented
        THEN {[is |-> "??", of |-> text.of]}
        ELSE rewrite_git_status_line(text)
      Step(r, e) ==
        LET section == GitSection(r.section, e.text)
            texts == Rewritten(section, e.text)
            again == texts = {Blank} /\ r.out # <<>> /\ IsBlank(Last(r.out))
        IN  [section |-> section,
             out |-> IF texts = {} \/ again THEN r.out
                     ELSE Append(r.out, [e EXCEPT !.text = CHOOSE t \in texts : TRUE])]
  IN  FoldLeft(Step, [section |-> "none", out |-> <<>>], entries).out

\* A record of gh is the sequence of its fields, title first; one it lacks is "".
format_gh_json_record(text) ==
  LET title == text.of[1]
      rest == SelectSeq(Tail(text.of), LAMBDA field : field # "")
  IN  IF title = "" THEN {} ELSE {[is |-> "gh", of |-> <<title>> \o rest]}

\* number title ... state  becomes  #number title [state] (...).
format_gh_table_line(text) ==
  IF text.is # "row" \/ Len(text.of) < 4 THEN text
  ELSE [is |-> "gh", of |-> SubSeq(text.of, 1, 2) \o <<Last(text.of)>>
                              \o SubSeq(text.of, 3, Len(text.of) - 1)]

rewrite_gh_lines(entries, input) ==
  LET told == SelectSeq(entries, LAMBDA e : ~IsBlank(e))
      records == SelectSeq(told, LAMBDA e : format_gh_json_record(e.text) # {})
      formatted == [k \in DOMAIN records |->
        [records[k] EXCEPT !.text = CHOOSE t \in format_gh_json_record(@) : TRUE]]
  IN  IF told = <<>> THEN <<>>
      ELSE IF (\A k \in DOMAIN told : told[k].text.is = "json") /\ records # <<>> THEN formatted
      ELSE IF input.argv # <<>> /\ input.argv[1] = <<"gh">>
           THEN [k \in DOMAIN entries |-> [entries[k] EXCEPT !.text = format_gh_table_line(@)]]
      ELSE entries

-----------------------------------------------------------------------------
\* reduce.rs: the pipeline of a rule.
build_raw_text(input) == IF input.combined # <<>> THEN input.combined ELSE input.stdout \o input.stderr

pretty_print_json_if_possible(lines) ==
  IF Len(lines) = 1 /\ lines[1].is = "document"
  THEN [k \in DOMAIN lines[1].of |-> [is |-> "member", of |-> <<lines[1].of[k]>>]]
  ELSE lines

\* A pattern that does not compile is dropped from its rule.
compile_rule(rule) ==
  LET Compiles(p) == p \in DOMAIN Pattern
      Named(p) == p.pattern \in DOMAIN Pattern
  IN  [rule EXCEPT !.skip = SelectSeq(@, Compiles), !.keep = SelectSeq(@, Compiles),
                   !.counters = SelectSeq(@, Named), !.output_matches = SelectSeq(@, Named)]

IsMatch(patterns, e) == \E p \in ToSet(patterns) : e.text \in Pattern[p]
Count(counter, entries) == Len(SelectSeq(entries, LAMBDA e : e.text \in Pattern[counter.pattern]))

Filtered(rule, input, lines) ==
  LET unskipped == SelectSeq(Numbered(lines), LAMBDA e : ~IsMatch(rule.skip, e))
      matching == SelectSeq(unskipped, LAMBDA e : IsMatch(rule.keep, e))
      kept == IF matching = <<>> THEN unskipped ELSE matching
      trimmed == IF rule.trim THEN trim_empty_edges(kept) ELSE kept
      deduped == IF rule.dedupe THEN dedupe_adjacent(trimmed) ELSE trimmed
  IN  [unskipped |-> unskipped,
       lines |-> CASE rule.id = "git/status" -> rewrite_git_status_lines(deduped)
                   [] rule.id = "cloud/gh" -> rewrite_gh_lines(deduped, input)
                   [] OTHER -> deduped]

Failed(input) == input.exit_code # 0

HeadAndTail(rule, failed) ==
  IF failed /\ rule.failure.preserve
  THEN [head |-> IF rule.failure.head < 0 THEN HEAD ELSE rule.failure.head,
        tail |-> IF rule.failure.tail < 0 THEN FAILURE_TAIL ELSE rule.failure.tail]
  ELSE [head |-> IF rule.head < 0 THEN HEAD ELSE rule.head,
        tail |-> IF rule.tail < 0 THEN TAIL ELSE rule.tail]

OutputMatched(rule, lines) ==
  \E m \in ToSet(rule.output_matches) : \E k \in DOMAIN lines : lines[k] \in Pattern[m.pattern]

Summarized(rule, shape, filtered) ==
  LET counted == IF rule.pre_keep THEN filtered.unskipped ELSE filtered.lines
      shown == trim_empty_edges(head_tail(filtered.lines, shape.head, shape.tail))
  IN  [summary |-> IF filtered.lines = <<>> /\ rule.on_empty THEN <<Made("message")>> ELSE shown,
       facts |-> {c.name : c \in {d \in ToSet(rule.counters) : Count(d, counted) > 0}}]

Applied(rule, input, lines) ==
  IF OutputMatched(rule, lines) THEN [summary |-> <<Made("message")>>, facts |-> {}]
  ELSE Summarized(rule, HeadAndTail(rule, Failed(input)), Filtered(rule, input, lines))

apply_rule(rule, input, raw_text) ==
  LET given == IF raw_text = <<>> THEN <<Blank>> ELSE raw_text
  IN  Applied(rule, input, IF rule.pretty THEN pretty_print_json_if_possible(given) ELSE given)

ExitLine(input) == IF Failed(input) THEN <<Made("exit")>> ELSE <<>>
OrEmpty(summary) == IF summary = <<>> THEN <<Made("no output")>> ELSE summary

build_passthrough_text(input, raw_text) ==
  LET normalized == trim_empty_edges(Numbered(raw_text))
  IN  IF normalized = <<>> /\ Failed(input) THEN <<Made("exit")>>
      ELSE ExitLine(input) \o OrEmpty(normalized)

format_inline(family, input, applied) ==
  LET summary == OrEmpty(applied.summary)
      omits == \E k \in DOMAIN summary : summary[k].what = "omitted"
      include_facts == \/ family = "search"
                       \/ family \notin {"git-status", "help"} /\ omits
                       \/ family = "test-results" /\ Failed(input)
  IN  ExitLine(input) \o (IF include_facts /\ applied.facts # {} THEN <<Made("facts")>> ELSE <<>>) \o summary

select_inline_text(family, input, raw_text, compact, max) ==
  LET passthrough == build_passthrough_text(input, raw_text)
      raw == count_text_chars(Numbered(raw_text))
      limit == IF family = "help" THEN max ELSE TINY_OUTPUT_MAX_CHARS
  IN  CASE family = "git-status" -> compact
        [] family # "git-status" /\ count_text_chars(passthrough) > limit -> compact
        [] OTHER ->
             IF \/ raw <= max /\ count_text_chars(compact) >= raw
                \/ count_text_chars(passthrough) <= count_text_chars(compact)
             THEN passthrough ELSE compact

Reduced(inline, classification, why, token) ==
  [inline |-> inline, classification |-> classification, why |-> why, ccr_token |-> token]

Clamped(family, selected, max) ==
  IF family = "help" \/ Len(selected) > 1 THEN clamp_text_middle(selected, max)
  ELSE clamp_text(selected, max)

InlineOf(rule, family, input, raw_text, max) ==
  select_inline_text(family, input, raw_text,
                     format_inline(family, input, apply_rule(compile_rule(rule), input, raw_text)), max)

\* The text is offloaded when it got shorter.
Delivered(selected, inline, classification, raw_text, offloaded) ==
  Reduced(inline, classification, IF inline = selected THEN "whole" ELSE "clamped",
          offloaded /\ count_text_chars(inline) < count_text_chars(Numbered(raw_text)))

ReducedBy(classification, rule, input, raw_text, max, offloaded) ==
  LET Outcome(selected) == Delivered(selected, Clamped(classification.family, selected, max),
                                     classification, raw_text, offloaded)
  IN  Outcome(InlineOf(rule, classification.family, input, raw_text, max))

RuleOf(rules, classification) ==
  RuleWithId(rules, IF classification.reducer \in Ids(rules) THEN classification.reducer
                    ELSE "generic/fallback")

(***************************************************************************)
(* `retained` is what the store answers to the offload.  The rule set      *)
(* holds generic/fallback (RulesAssumption of the module that calls this). *)
(***************************************************************************)
reduce_execution_with_rules(given, rules, order, opts, retained) ==
  LET input == normalize_execution_input(given)
      raw_text == build_raw_text(input)
      Outcome(classification) ==
        ReducedBy(classification, RuleOf(rules, classification), input, raw_text, opts.max,
                  opts.store /\ retained)
      classification == classify_execution(input, rules, opts.classifier, order)
  IN  IF opts.raw \/ apply_shell_compaction_policy(input, "AllowSafeInventory") # "Compact"
      THEN Reduced(Numbered(raw_text), classification, "raw", FALSE)
      ELSE Outcome(classification)
=============================================================================
