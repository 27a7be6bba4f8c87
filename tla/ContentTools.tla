---------------------------- MODULE ContentTools ----------------------------
(***************************************************************************)
(* What TinyJuice does with a text in one call: the compressors of         *)
(* src/compressors, the rule engine and its rules, the shell policy, the   *)
(* operations over a stored output, the live zone of a prompt and the      *)
(* hand-off of a delegated agent.  A call is asked with a text and         *)
(* answered once; nothing is kept between calls, so a behaviour is one     *)
(* call.                                                                   *)
(***************************************************************************)
EXTENDS LogLines, DiffHunks, SearchHits, TextCrusher, JsonTable, CodeStub, HtmlPage,
        RuleEngine, Inspect, LiveZone, Handoff, RuleLayers

CONSTANTS
  Logs, TemplateLogs, Diffs, Searches, Snippets, Texts, Arrays, Sources, Pages, \* inputs
  StubModes, StubBudgets, Queries,
  Scripts,              \* commands, each with the words it is written with
  Runs, Rules, Order,   \* outputs of commands, the rules and the order of their ids
  Looks,                \* operations over a stored text
  Splices, FrozenPrefixes,    \* replacements in a prompt, and frozen prefixes to look through
  Transcripts,          \* of delegated agents, with the limits of the hand-off
  Layers                \* directories of rules

ASSUME RulesAssumption == "generic/fallback" \in Ids(Rules)

\* A word that ends where the marks around it say, for a shell.
EndsAsMarked(word) ==
  /\ word.text \notin Spaces
  /\ word.as = "bare" => word.text \notin QuoteMarks \cup {"\\"}
  /\ word.as \in QuoteMarks => word.text # word.as
  /\ word.as = DoubleQuote => word.text # "\\"

\* The cd that a command may start with is told by cd.
ASSUME ScriptsAssumption ==
  \A script \in Scripts :
    /\ script.cd \in BOOLEAN
    /\ script.words \in Seq([text : STRING, as : {"bare", "escaped"} \cup QuoteMarks])
    /\ \A k \in DOMAIN script.words : EndsAsMarked(script.words[k])
    /\ script.words # <<>> => script.words[1].text # "cd"

\* The operations, a bound of a scope, which is open or a number, and an address of sed.
Ops == {"grep", "find", "regex", "rank", "sed", "awk", "headings", "links", "summarize"}

IsBound(bound) == bound = <<>> \/ bound[1] \in Int

IsAddress(a) == a.at \in {"none", "line", "last", "re"} /\ (a.at = "line" => a.n \in Nat)

IsPrint(cmd) ==
  /\ IsAddress(cmd.a1) /\ IsAddress(cmd.a2) /\ cmd.negate \in BOOLEAN
  /\ cmd.a1.at = "none" => cmd.a2.at = "none"

ASSUME LooksAssumption ==
  \A look \in Looks :
    /\ look.text \in Seq(DOMAIN Row) /\ IsBound(look.scope.from) /\ IsBound(look.scope.to)
    /\ look.op.is \in Ops
    /\ look.op.is = "rank" => look.op.top_k \in Nat
    /\ look.op.is = "summarize" => look.op.max_chars \in Nat
    /\ look.op.is = "sed" =>
         /\ look.op.quiet \in BOOLEAN
         /\ Len(look.op.cmds) \in Nat /\ DOMAIN look.op.cmds = 1..Len(look.op.cmds)
         /\ \A k \in DOMAIN look.op.cmds :
              look.op.cmds[k].kind = "p" => IsPrint(look.op.cmds[k])

\* An expression matches something, inside of the frozen range, and goes on behind it.
ASSUME FrozenAssumption ==
  \A call \in FrozenPrefixes :
    /\ {"input", "frozen_range", "matches"} \subseteq DOMAIN call
    /\ call.frozen_range \in [start : Nat, end : Nat]
    /\ \A kind \in ToSet(VolatileKinds) :
         /\ call.matches[kind] \in Seq([start : Nat, end : Nat])
         /\ \A k \in DOMAIN call.matches[kind] :
              /\ call.matches[kind][k].start < call.matches[kind][k].end
              /\ call.matches[kind][k].end <= call.frozen_range.end - call.frozen_range.start
              /\ k > 1 => call.matches[kind][k - 1].end <= call.matches[kind][k].start

\* A prompt and a replacement are bytes; places in them are not negative.
ASSUME SplicesAssumption ==
  \A call \in Splices :
    /\ {"input", "zone", "replacements"} \subseteq DOMAIN call
    /\ call.input \in Seq(STRING)
    /\ call.zone.frozen_prefix \in [start : Nat, end : Nat]
    /\ call.replacements \in Seq([range : [start : Nat, end : Nat], text : Seq(STRING)])

ASSUME TranscriptsAssumption ==
  \A input \in Transcripts :
    /\ input.transcript \in Seq([role : STRING, content : Seq(DOMAIN Said), tool : STRING,
                                path : STRING, at : Nat, bad : BOOLEAN])
    /\ input.policy.max_findings \in Nat /\ input.policy.max_evidence \in Nat
    /\ input.policy.max_open_questions \in Nat

VARIABLES asked, answer

calls == <<asked, answer>>

Nothing == [tool |-> "none"]

CallInit == asked = Nothing /\ answer = None

Asked(tool, inputs) ==
  \E input \in inputs :
    asked' = [f \in {"tool"} \cup DOMAIN input |-> IF f = "tool" THEN tool ELSE input[f]]

Ask ==
  /\ asked = Nothing
  /\ \/ Asked("signal", [lines : Logs])
     \/ Asked("templates", [lines : TemplateLogs])
     \/ Asked("diff", [lines : Diffs, drop : BOOLEAN])
     \/ Asked("search", [lines : Searches, query : BOOLEAN])
     \/ Asked("snippets", [s : Snippets])
     \/ Asked("text", [text : Texts, query : BOOLEAN, max : {0, 12}])
     \/ Asked("json", [rows : Arrays, query : Queries])
     \/ Asked("code", [lines : Sources])
     \/ Asked("stub", [lines : Sources, mode : StubModes, max : StubBudgets])
     \/ Asked("html", [page : Pages])
     \/ Asked("markdown", [page : Pages])
     \/ Asked("policy", [script : Scripts])
     \/ Asked("reduce", [run : Runs])
     \/ Asked("look", [look : Looks])
     \/ Asked("splice", Splices)
     \/ Asked("volatile", FrozenPrefixes)
     \/ Asked("handoff", [input : Transcripts])
     \/ Asked("rules", Layers)
  /\ UNCHANGED answer

Reply(tool, result) ==
  asked.tool = tool /\ answer = None /\ answer' = result /\ UNCHANGED asked

SignalLog == Reply("signal", compress_signal(asked.lines))
LogTemplates == Reply("templates", compress_templates(asked.lines))
Diff == Reply("diff", compress_with_options(asked.lines, asked.drop))
Search == Reply("search", compress_search(asked.lines, asked.query))
SnippetWindows ==
  Reply("snippets", select_snippet_windows(asked.s.match_lines, asked.s.context,
                                            asked.s.max_line, asked.s.max_snippets))
TextCrush == Reply("text", compress_textcrusher(asked.text, asked.query, asked.max))
SmartCrush == Reply("json", compress_with_query(asked.rows, asked.query))
CodeOutline == Reply("code", compress_heuristic(asked.lines))
CodeStubRead == Reply("stub", stub_code(asked.lines, asked.mode, asked.max))
HtmlText == Reply("html", compress_html(asked.page))
HtmlMarkdown == Reply("markdown", Lossy(html_to_markdown(asked.page)))

\* A word is written bare, in quotes or with a backslash.
WrittenAs(word) ==
  CASE word.as = "bare" -> <<word.text>>
    [] word.as = "escaped" -> <<"\\", word.text>>
    [] OTHER -> <<word.as, word.text, word.as>>

Bare(text) == [text |-> text, as |-> "bare"]
AllWords(script) ==
  (IF script.cd THEN <<Bare("cd"), Bare("repo"), Bare("&&")>> ELSE <<>>) \o script.words

WrittenOut(words) ==
  FlattenSeq([k \in DOMAIN words |-> (IF k = 1 THEN <<>> ELSE <<Space>>) \o WrittenAs(words[k])])

CommandOf(script) == WrittenOut(AllWords(script))

ShellOutput ==
  Reply("policy", [decision |-> apply_shell_compaction_policy(
                      [command |-> CommandOf(asked.script), argv |-> <<>>], "AllowSafeInventory")])

ReduceExecution ==
  \E retained \in BOOLEAN :
    Reply("reduce", reduce_execution_with_rules(asked.run.input, Rules, Order, asked.run.opts, retained))

SpliceZone ==
  Reply("splice", splice_live_zone_replacements(asked.input, asked.zone, asked.replacements))

DetectVolatile ==
  Reply("volatile",
         [findings |-> detect_volatile_cache_values(asked.input, asked.frozen_range, asked.matches)])

SummarizeSubagent == Reply("handoff", summarize_subagent_transcript(asked.input))
LoadRules == Reply("rules", [rules |-> load_rules(asked.opts, asked.builtin, Order)])

RunOp == Reply("look", run_on_text(asked.look.text, asked.look.op, asked.look.scope))

CallNext ==
  \/ Ask
  \/ SignalLog \/ LogTemplates \/ Diff \/ Search \/ SnippetWindows \/ TextCrush \/ SmartCrush
  \/ CodeOutline \/ CodeStubRead \/ HtmlText \/ HtmlMarkdown
  \/ ShellOutput \/ ReduceExecution \/ RunOp
  \/ SpliceZone \/ DetectVolatile \/ SummarizeSubagent \/ LoadRules

CallSpec == CallInit /\ [][CallNext]_calls

-----------------------------------------------------------------------------
Answered(tool) == asked.tool = tool /\ answer # None

\* Read from above, the place every entry is at; -1 after a line at a wrong one.
Places(entries) ==
  FoldLeft(LAMBDA at, e :
             IF at < 0 \/ (e.what = "line" /\ e.n # at + 1) THEN -1
             ELSE IF e.what = "line" THEN at + 1 ELSE at + e.n, 0, entries)

SumOf(entries, what, Value(_)) ==
  MapThenSumSet(LAMBDA k : IF entries[k].what = what THEN Value(entries[k]) ELSE 0,
                DOMAIN entries)

Ascending(entries) ==
  \A j, k \in DOMAIN entries :
    j < k /\ entries[j].what = "line" /\ entries[k].what = "line" => entries[j].n < entries[k].n

DiffIsAccounted(lines, entries) ==
  LET hidden == DOMAIN lines \ LinesShown(entries)
      Noise(e) == e.added + e.removed + e.context
      N(e) == e.n
  IN  /\ Ascending(entries)
      /\ Cardinality({i \in hidden : lines[i] \notin {"---", "\\"}})
           = SumOf(entries, "omitted", N) + SumOf(entries, "noise", Noise)

SearchIsAccounted(lines, entries) ==
  LET N(e) == e.n
      hidden == Matches(lines) \ LinesShown(entries)
  IN  /\ SumOf(entries, "more", N) = Cardinality(hidden)
      /\ SumOf(entries, "omitted", N) = Cardinality(hidden)
      /\ SumOf(entries, "header", N) = Cardinality(Matches(lines))

SnippetsAreAccounted(s, selection) ==
  LET windows == UNION ToSet(selection.windows)
  IN  /\ Len(SelectSeq(s.match_lines, LAMBDA l : l \notin windows)) = selection.omitted_matches
      /\ Len(selection.windows) <= s.max_snippets

StubIsAccounted(lines, stub) ==
  \A i \in DOMAIN lines :
    LET elided == {k \in DOMAIN stub.elisions :
                     i \in stub.elisions[k].start_line..stub.elisions[k].end_line}
    IN  IF i \in LinesShown(stub.text) THEN elided = {} ELSE Cardinality(elided) = 1

\* The fallback rule drops a line like the one before it without a word (its
\* dedupeAdjacent) and counts every other one that it does not show.
RunIsAccounted(run, result) ==
  LET N(e) == e.n
      shown == LinesShown(result.inline)
      lines == build_raw_text(run.input)
      told == {i \in DOMAIN lines : lines[i] # Blank}
      Repeats(i) == i - 1 \in DOMAIN lines /\ lines[i] = lines[i - 1]
      distinct == {i \in Min(told)..Max(told) : ~Repeats(i)}
  IN  /\ \A j, k \in DOMAIN LinesOf(result.inline) :
           j < k => LinesOf(result.inline)[j].n < LinesOf(result.inline)[k].n
      /\ result.why = "whole" /\ result.classification.family = "generic" =>
           \/ told \subseteq shown /\ SumOf(result.inline, "omitted", N) = 0
           \/ /\ shown \subseteq distinct
              /\ SumOf(result.inline, "omitted", N) = Cardinality(distinct \ shown)

Scoped(look) ==
  LET r == resolve(look.scope, Len(look.text)) IN (r.start + 1)..r.end

\* What an operation has to show or count in its slice.
Found(look) ==
  LET op == look.op
      rows == [i \in Scoped(look) |-> Row[look.text[i]]]
  IN  CASE op.is = "find" -> Cardinality({i \in Scoped(look) : op.pattern \in rows[i].patterns})
        [] op.is = "regex" -> MapThenSumSet(LAMBDA i :
             IF op.pattern \in rows[i].patterns THEN rows[i].times ELSE 0, Scoped(look))
        [] op.is = "links" -> Cardinality({rows[i].link : i \in Scoped(look)} \ {"none"})
        [] OTHER -> Cardinality({i \in Scoped(look) : rows[i].level \in 1..6})

LookIsAccounted(look, out) ==
  \/ look.op.is \notin {"find", "regex", "links", "headings"}
  \/ look.op.is = "headings" /\ \E i \in Scoped(look) : Row[look.text[i]].fence
  \/ Len(out.hits) + out.truncated = Found(look)

\* What the policy lets through is shown, or counted as omitted for want of bytes.
HandoffIsAccounted(input, out) ==
  LET last == LastEvent(input.transcript, LAMBDA e : e.role = "assistant")
      findings == IF last = None THEN Len(SelectSeq(input.transcript, LAMBDA e : e.bad))
                  ELSE Len(AllFindings(last))
      Told(all, max, items, omitted) == Len(items) + omitted = Min({all, max})
  IN  input.max_bytes > 0 =>
        /\ Told(findings, input.policy.max_findings, out.findings, out.omitted.findings)
        /\ Told(Len(AllEvidence(input.transcript)), input.policy.max_evidence,
                out.evidence, out.omitted.evidence)
        /\ Told(Len(AllQuestions(input.transcript)), input.policy.max_open_questions,
                out.open_questions, out.omitted.open_questions)
        /\ format_subagent_summary_markdown(out) > input.max_bytes =>
             out.findings = <<>> /\ out.evidence = <<>> /\ out.open_questions = <<>>

(***************************************************************************)
(* What is left out is told: the shown lines and the numbers in the        *)
(* markers account for every line, row and match, each at its own place,   *)
(* the elisions of a stub name the very source lines it does not show, the *)
(* fallback rule leaves only repeated lines uncounted, and a hand-off      *)
(* counts what its bytes had no room for.  (WithGaps of log.rs and         *)
(* json.rs, diff.rs, search.rs, code.rs, dedupe_adjacent and head_tail of  *)
(* text/process.rs with generic__fallback.json, repl/ops.rs,               *)
(* enforce_byte_budget of conversation/subagent.rs)                        *)
(***************************************************************************)
LinesAreAccounted ==
  /\ Answered("signal") => Places(answer.entries) = Len(asked.lines)
  /\ Answered("code") => Places(answer.entries) = Len(asked.lines)
  /\ Answered("diff") => DiffIsAccounted(asked.lines, answer.entries)
  /\ Answered("search") => SearchIsAccounted(asked.lines, answer.entries)
  /\ Answered("snippets") => SnippetsAreAccounted(asked.s, answer)
  /\ Answered("json") => \A t \in ToSet(answer.entries) : Places(t.rows) = Len(t.indices)
  /\ Answered("stub") /\ "truncated" \notin {e.what : e \in ToSet(answer.text)}
       => StubIsAccounted(asked.lines, answer)
  /\ Answered("reduce") => RunIsAccounted(asked.run, answer)
  /\ Answered("look") => LookIsAccounted(asked.look, answer)
  /\ Answered("handoff") => HandoffIsAccounted(asked.input, answer)

-----------------------------------------------------------------------------
LogSignalSurvives(lines, shown) ==
  Cardinality(Errors(lines)) <= MAX_ERRORS /\ Cardinality(Signals(lines)) <= MAX_TOTAL_LINES
    => Errors(lines) \subseteq shown

ChangesSurvive(lines, shown, drop) ==
  \A i \in DOMAIN lines \ shown :
    lines[i] \in Added \cup Removed => \E h \in shown : i \in HunkBody(lines, h) /\ Noisy(lines, h, drop)

\* A row of the array is at its place in the table that holds it.
RowShown(tables, i) ==
  \E t \in ToSet(tables) : \E k \in LinesShown(t.rows) : t.indices[k] = i

ValueTold(rows, tables, key, i) ==
  \/ \E j \in DOMAIN rows : /\ RowShown(tables, j) /\ key \in DOMAIN rows[j]
                            /\ render_cell(rows[j][key]) = render_cell(rows[i][key])
  \/ \E t \in ToSet(tables) : i \in ToSet(t.indices) /\ key \in t.shape.constants

RowsSurvive(rows, tables) ==
  /\ \A i \in ErrorRows(rows) : RowShown(tables, i)
  /\ \A key \in Fields(rows) : is_discriminator_field(rows, key)
       => \A i \in DOMAIN rows : ValueTold(rows, tables, key, i)

\* The exit code leads, unless max_inline_chars has no room for two lines.
ExitIsTold(run, result) ==
  result.why # "raw" /\ Failed(run.input) /\ run.opts.max >= 4 * MarkerChars
    => result.inline # <<>> /\ result.inline[1].what = "exit"

\* The letter a line of git status stands for, by the section it is in.
GitLetters(lines, i) ==
  LET headers == {j \in 1..i : lines[j].is \in GitSections}
  IN  IF lines[i].is \in DOMAIN GitChange THEN {GitChange[lines[i].is]}
      ELSE IF lines[i].is = "path" /\ headers # {} /\ lines[Max(headers)].is = "untracked" THEN {"??"}
      ELSE {}

\* A path goes only from the middle of a status longer than its rule keeps, and is counted
\* there: the lines shown are those the rule keeps, but for a blank one at an end.
GitPathsAreTold(run, result) ==
  LET N(e) == e.n
      lines == build_raw_text(run.input)
      rule == RuleWithId(Rules, "git/status")
      shown == LinesOf(result.inline)
      States(i) == {[is |-> letter, of |-> lines[i].of] : letter \in GitLetters(lines, i)}
      untold == {i \in DOMAIN lines : ~(States(i) \subseteq {e.text : e \in ToSet(shown)})}
      gaps == {k \in DOMAIN result.inline : result.inline[k].what = "omitted"}
      Between(k, i) == \A j \in DOMAIN result.inline : result.inline[j].what = "line" =>
                         (j < k <=> result.inline[j].n < i)
  IN  result.why = "whole" /\ result.classification.reducer = "git/status" /\ untold # {} =>
        /\ \A i \in untold : \E k \in gaps : Between(k, i)
        /\ Cardinality(UNION {States(i) : i \in untold}) <= SumOf(result.inline, "omitted", N)
        /\ Len(shown) >= rule.head + rule.tail - 1

\* "Reserve slots for matching lines before filling them with context." (repl/ops.rs:87)
MatchesBeforeContext(look, out) ==
  LET matching == {i \in Scoped(look) : look.op.pattern \in Row[look.text[i]].patterns}
      shown == {h.line : h \in ToSet(out.hits)}
  IN  Len(out.hits) < max_output_hits /\ shown \ matching # {}
        => FirstOf(matching, max_hits) \subseteq shown

\* The last answer of the agent leads the hand-off, cut only where nothing else is left.
FinalAnswerSurvives(input, out) ==
  LET answers == {k \in DOMAIN input.transcript :
                    /\ input.transcript[k].role = "assistant"
                    /\ \E line \in ToSet(input.transcript[k].content) : Said[line].bytes > 0}
      final == clean_block(input.transcript[Max(answers)].content)
  IN  input.max_bytes > 0 /\ answers # {} =>
        /\ out.conclusion.of = final
        /\ out.conclusion.bytes >= Min({TextBytes(final), LEAST_CONCLUSION})
        /\ out.conclusion.bytes < TextBytes(final) =>
             out.findings = <<>> /\ out.evidence = <<>> /\ out.open_questions = <<>>

(***************************************************************************)
(* What a reader looks for survives: the errors of a log within its        *)
(* limits, every change of a file that is not noise, every row with an     *)
(* error and one of each value of a telling column, also when the rows are *)
(* split by shape, every code line with a keep marker, the exit code of a  *)
(* command that failed, the state of every path of a git status but those  *)
(* counted in the middle of one longer than its rule keeps, the lines that *)
(* match ahead of those around them, and the last answer of a delegated    *)
(* agent.  (log.rs, diff.rs, json.rs plan_rows, code.rs KEEP_MARKERS,      *)
(* reduce.rs with git__status.json, repl/ops.rs grep,                      *)
(* conversation/subagent.rs)                                               *)
(***************************************************************************)
SignalSurvives ==
  /\ Answered("signal") => LogSignalSurvives(asked.lines, LinesShown(answer.entries))
  /\ Answered("diff") => ChangesSurvive(asked.lines, LinesShown(answer.entries), asked.drop)
  /\ Answered("json") => RowsSurvive(asked.rows, answer.entries)
  /\ Answered("code") => {i \in DOMAIN asked.lines : Code[asked.lines[i]].keep}
                           \subseteq LinesShown(answer.entries)
  /\ Answered("reduce") => ExitIsTold(asked.run, answer) /\ GitPathsAreTold(asked.run, answer)
  /\ Answered("look") /\ asked.look.op.is = "grep" => MatchesBeforeContext(asked.look, answer)
  /\ Answered("handoff") => FinalAnswerSurvives(asked.input, answer)

-----------------------------------------------------------------------------
BestMatchesShown(lines, query, shown) ==
  \A i, j \in Matches(lines) :
    /\ lines[i].path = lines[j].path
    /\ score_match(lines[i].body, query) > score_match(lines[j].body, query)
    /\ j \in shown
    => i \in shown

\* Left out for want of room beside better ones, or as much like one of them.
BestSegmentsShown(text, query, max, shown) ==
  LET content == MapThenSumSet(LAMBDA i : Segment[text[i]].chars + 2, DOMAIN text)
      Better(i) == {j \in shown : segment_score(text, query, j) > segment_score(text, query, i)
                      \/ (segment_score(text, query, j) = segment_score(text, query, i) /\ j < i)}
  IN  \A i \in DOMAIN text \ shown :
        \/ Used(text, Better(i) \cup {i}) > target_chars(content, max)
        \/ \E j \in Better(i) : Similar(Segment[text[j]].terms, Segment[text[i]].terms)

\* The rule asked for, or the most specific one that matches, whatever order they came in.
BestRuleIsUsed(run, result) ==
  LET input == normalize_execution_input(run.input)
      used == result.classification.reducer
  IN  IF run.opts.classifier \in Ids(Rules) THEN used = run.opts.classifier
      ELSE /\ \A k \in DOMAIN Rules : matches_rule(Rules[k], input) =>
                used \in Ids(Rules) /\ Beats(RuleWithId(Rules, used), Rules[k], Order)
           /\ used \in Ids(Rules) => matches_rule(RuleWithId(Rules, used), input)
           /\ classify_execution(input, Reverse(Rules), run.opts.classifier, Order)
                = result.classification

BestWindowsShown(look, out) ==
  LET text == SubSeq(look.text, Min(Scoped(look)), Max(Scoped(look)))
      Starts(w) == WindowStart(w) + Min(Scoped(look)) - 1
      shown == {w \in 1..Windows(text) : \E h \in ToSet(out.hits) : h.line = Starts(w)}
  IN  Scoped(look) # {} => \A v \in shown, w \in (1..Windows(text)) \ shown :
        WindowScore(text, v) >= WindowScore(text, w)

\* The rules that can be read in the directory of a layer that counts.
RulesThere(place) ==
  LET files == CASE place.custom # {} -> UNION {ToSet(dir.files) : dir \in place.custom}
                 [] place.custom = {} /\ place.new.there -> ToSet(place.new.files)
                 [] OTHER -> ToSet(place.legacy.files)
  IN  {file.id : file \in {f \in files : f.kind = "rule"}}

\* Every id once, from the highest layer that has a readable rule of it, the fallback last.
HighestLayerWins(layers, rules) ==
  LET opts == layers.opts
      project == IF opts.exclude_project THEN {} ELSE RulesThere(opts.project)
      user == IF opts.exclude_user THEN {} ELSE RulesThere(opts.user)
      builtin == {file.id : file \in ToSet(layers.builtin.files)}
      Origin(id) ==
        CASE id \in project -> "project" [] id \in user \ project -> "user" [] OTHER -> "builtin"
  IN  /\ {<<rule.id, rule.origin>> : rule \in ToSet(rules)}
           = {<<id, Origin(id)>> : id \in project \cup user \cup builtin}
      /\ \A j, k \in DOMAIN rules : j < k =>
           /\ rules[j].id # "generic/fallback"
           /\ rules[k].id = "generic/fallback" \/ Order[rules[j].id] < Order[rules[k].id]

(***************************************************************************)
(* Nothing better is left out: a match that is shown has no better one of  *)
(* its file among those that are not, a segment that is not chosen did not *)
(* fit beside the better ones or repeats one, a window of lines has no     *)
(* better one that is not shown, no rule that matches a command is more    *)
(* specific than the one used, and a rule of the project or the user       *)
(* stands before the one of its name below, unless it cannot be read.      *)
(* (search.rs compress, text.rs compress_textcrusher, repl/ops.rs search,  *)
(* classify.rs, rules/loader.rs)                                           *)
(***************************************************************************)
NothingBetterIsLeftOut ==
  /\ Answered("search") => BestMatchesShown(asked.lines, asked.query, LinesShown(answer.entries))
  /\ Answered("text") =>
       BestSegmentsShown(asked.text, asked.query, asked.max, LinesShown(answer.entries))
  /\ Answered("look") /\ asked.look.op.is = "rank" => BestWindowsShown(asked.look, answer)
  /\ Answered("reduce") => BestRuleIsUsed(asked.run, answer)
  /\ Answered("rules") => HighestLayerWins(asked, answer.rules)

-----------------------------------------------------------------------------
\* What a reader of the page sees: text outside of scripts, comments and tags.
Readable(page, nested) ==
  LET read == FoldLeft(LAMBDA r, i :
        CASE r.comment -> [r EXCEPT !.comment = page[i].is # "-->"]
          [] ~r.comment /\ page[i] = Open("script") -> [r EXCEPT !.script = IF nested THEN @ + 1 ELSE 1]
          [] ~r.comment /\ page[i] = Close("script") -> [r EXCEPT !.script = IF @ = 0 THEN 0 ELSE @ - 1]
          [] ~r.comment /\ r.script = 0 /\ page[i].is = "<!--" -> [r EXCEPT !.comment = TRUE]
          [] ~r.comment /\ r.script = 0 /\ page[i] = Word -> [r EXCEPT !.words = @ \cup {i}]
          [] OTHER -> r,
        [comment |-> FALSE, script |-> 0, words |-> {}], [i \in DOMAIN page |-> i])
  IN  read.words

WordsShown(page, out) == {i \in LinesShown(out) : page[i] = Word}

WellFormed(page) == \A i \in DOMAIN page : page[i].is = "<!--" => CommentEndAfter(page, i) # 0

\* How far the replacements before a byte of a prompt move it.
Shift(replacements, p) ==
  MapThenSumSet(LAMBDA k : IF replacements[k].range.end > p THEN 0
                           ELSE Len(replacements[k].text) - Cardinality(Bytes(replacements[k].range)),
                DOMAIN replacements)

MayReplace(input, zone, replacements) ==
  /\ \A range \in {zone.frozen_prefix} \cup zone.mutable_blocks : IsValidFor(range, input)
  /\ \A k \in DOMAIN replacements :
       LET range == replacements[k].range
       IN  /\ IsValidFor(range, input) /\ ~Overlaps(range, zone.frozen_prefix)
           /\ \E block \in zone.mutable_blocks : Holds(block, range)
           /\ \A j \in 1..(k - 1) : ~Overlaps(replacements[j].range, range)

\* An empty replacement listed after one that starts where it does.
EmptyAfter(replacements) ==
  \E j, k \in DOMAIN replacements :
    /\ j < k /\ replacements[j].range.start = replacements[k].range.start
    /\ Bytes(replacements[j].range) # {} /\ Bytes(replacements[k].range) = {}

SpliceIsFaithful(call, out) ==
  LET input == call.input
      given == call.replacements
      kept == DOMAIN input \ {p + 1 : p \in UNION {Bytes(given[k].range) : k \in DOMAIN given}}
  IN  /\ MayReplace(input, call.zone, given) => out.what # "error"
      /\ out.what = "panic" => EmptyAfter(given)
      /\ out.what = "rewrite" =>
           /\ MayReplace(input, call.zone, given)
           /\ Len(out.text) = Len(input) + Shift(given, Len(input))
           /\ \A p \in kept : out.text[p + Shift(given, p - 1)] = input[p]
           /\ (\A k \in DOMAIN given : given[k].range.end > call.zone.frozen_prefix.start)
                => out.frozen_prefix_preserved

(***************************************************************************)
(* A reformat keeps what it says it keeps: the lines of a template block   *)
(* can be written out again, the text and the Markdown of a page have the  *)
(* words a reader sees, in order, and a prompt with replacements has every *)
(* other byte where they leave it, none of its frozen prefix changed.      *)
(* Lines with a literal "{}", in plain text a "<" that starts no tag, and  *)
(* an empty replacement listed after one at its place are not covered, see *)
(* the README.  (log.rs compress_templates, html.rs html_to_text and       *)
(* html_to_markdown, live_zone.rs splice_live_zone_replacements)           *)
(***************************************************************************)
ReformatIsFaithful ==
  /\ Answered("templates") /\ (\A i \in DOMAIN asked.lines : "{}" \notin ToSet(asked.lines[i]))
       => Expanded(asked.lines, answer.entries) = asked.lines
  /\ Answered("html") /\ WellFormed(asked.page) /\ LessThan \notin ToSet(asked.page)
       => /\ WordsShown(asked.page, answer.entries) = Readable(asked.page, FALSE)
          /\ Ascending(answer.entries)
  /\ Answered("markdown") /\ WellFormed(asked.page)
       => /\ WordsShown(asked.page, answer.entries) = Readable(asked.page, TRUE)
          /\ Ascending(answer.entries)
  /\ Answered("splice") => SpliceIsFaithful(asked, answer)

-----------------------------------------------------------------------------
\* The lines a,b of sed: from one that starts to one that ends, or to line b.  No line is 0.
SedRange(cmd, text) ==
  LET Is(a, i) == addr_matches(a, i, i = Len(text), text[i])
      started == {n \in DOMAIN text : Is(cmd.a1, n)}
      Ended(s, n) == IF cmd.a2.at = "line" THEN n > Max({s, cmd.a2.n})
                     ELSE \E e \in (s + 1)..(n - 1) : Is(cmd.a2, e)
  IN  CASE cmd.a1.at = "none" -> DOMAIN text
        [] cmd.a1.at # "none" /\ cmd.a2.at = "none" -> started
        [] OTHER -> {n \in DOMAIN text : \E s \in started : s <= n /\ ~Ended(s, n)}

\* A script that only prints, by addresses that no line of the text matches both of.
PrintsOnly(op, text) ==
  /\ op.is = "sed" /\ op.quiet /\ Len(op.cmds) = 1 /\ op.cmds[1].kind = "p"
  /\ op.cmds[1].a1.at = "re" /\ op.cmds[1].a2.at = "re" =>
       \A n \in DOMAIN text :
         ~({op.cmds[1].a1.re, op.cmds[1].a2.re} \subseteq Row[text[n]].patterns)

LookIsInPlace(look, out) ==
  LET op == look.op
      hits == out.hits
      scoped == apply_scope(look.text, look.scope)
  IN  /\ op.is \notin {"sed", "links"} => \A k \in DOMAIN hits :
           hits[k].line \in Scoped(look) /\ look.text[hits[k].line] = hits[k].row
      /\ op.is \in {"find", "grep", "awk", "summarize"} =>
           \A j, k \in DOMAIN hits : j < k => hits[j].line < hits[k].line
      /\ PrintsOnly(op, scoped.text) =>
           LET lines == {scoped.offset + n : n \in
                           {m \in DOMAIN scoped.text :
                              (m \in SedRange(op.cmds[1], scoped.text)) # op.cmds[1].negate}}
           IN  /\ Len(hits) + out.truncated = Cardinality(lines)
               /\ \A k \in DOMAIN hits : hits[k].line \in lines /\ hits[k].row = look.text[hits[k].line]

\* Every match is told or overlaps one that is, and no two that are told overlap.
FindingsAreInPlace(call, findings) ==
  LET frozen == call.frozen_range
      told == {Bytes(f.range) : f \in ToSet(findings)}
      Matched(kind) == {{frozen.start + p : p \in Bytes(m)} : m \in ToSet(call.matches[kind])}
  IN  IF ~IsValidFor(frozen, call.input) THEN findings = <<>>
      ELSE /\ \A j, k \in DOMAIN findings : j < k => findings[j].range.end <= findings[k].range.start
           /\ UNION told \subseteq Bytes(frozen)
           /\ Matched("jwt") \subseteq told
           /\ \A kind \in ToSet(VolatileKinds) : \A m \in Matched(kind) : \E t \in told : m \cap t # {}

\* The numbers after a finding are those of the evidence it names, unless bytes were short.
EvidenceIsInPlace(out) ==
  \A f \in ToSet(out.findings) :
    /\ f.evidence \subseteq DOMAIN out.evidence \/ out.omitted.byte_truncated
    /\ \A k \in DOMAIN out.evidence :
         k \in f.evidence <=> \E line \in ToSet(f.text) : out.evidence[k].path \in Said[line].mentions

(***************************************************************************)
(* A hit is where it says it is: a line shown under any slice is at that   *)
(* number of the whole text, "line numbers in the result still refer to    *)
(* the original" (repl/mod.rs:235), in order and once in the overview; sed *)
(* prints the lines of its addresses and no others; the values found in a  *)
(* frozen prefix are apart and inside it; and the numbers after a finding  *)
(* are those of its evidence.  (repl/mod.rs shift_lines, scope.rs, ops.rs, *)
(* sed.rs, awk.rs, live_zone.rs, attach_evidence_indices of                *)
(* conversation/subagent.rs)                                               *)
(***************************************************************************)
HitsAreInPlace ==
  /\ Answered("look") => LookIsInPlace(asked.look, answer)
  /\ Answered("volatile") => FindingsAreInPlace(asked, answer.findings)
  /\ Answered("handoff") => EvidenceIsInPlace(answer)

-----------------------------------------------------------------------------
\* What ends a command for a shell, so that another one may follow.
ShellSeparators == {";", "\n", "&&", "||", "&"}

\* The words of a script between its bare operators.
IsBare(script, k, texts) == script.words[k].as = "bare" /\ script.words[k].text \in texts

\* A backslash in single quotes, which a shell takes as it is and the code as an escape.
HasBareBackslash(script) ==
  \E k \in DOMAIN script.words : script.words[k].as = "'" /\ script.words[k].text = "\\"

Starts(script, k) == \/ k = 1
                     \/ IsBare(script, k - 1, {"|"})

\* Word j is an argument of the command that word k starts.
IsArgument(script, k, j) == k < j /\ \A i \in k..j : ~IsBare(script, i, {"|"})

SafeScript(script, redirects) ==
  LET words == script.words
      TextAt(k) == words[k].text
      firsts == {k \in DOMAIN words : ~IsBare(script, k, {"|"}) /\ Starts(script, k)}
      Acts(k, command, actions) ==
        TextAt(k) = command /\ \E j \in DOMAIN words : IsArgument(script, k, j) /\ TextAt(j) \in actions
  IN  /\ \A k \in DOMAIN words : ~IsBare(script, k, ShellSeparators) /\ k \notin redirects
      /\ \A k \in firsts :
           /\ TextAt(k) \notin Changers
           /\ ~Acts(k, "find", FindActions) /\ ~Acts(k, "fd", FdActions)
           /\ TextAt(k) = "git" /\ k < Len(words) => TextAt(k + 1) \notin GitActions
      /\ firsts # {} => TextAt(Min(firsts)) \notin ContentReaders

(***************************************************************************)
(* The policy reads a command as a shell does: after any cd, output is     *)
(* summarised only for one pipeline of commands, none of those it lists as *)
(* changing something, whose first one is no reader of files; operators in *)
(* quotes or behind a backslash are no operators.  A quoted "<" or ">" may *)
(* be taken for a redirection, never the other way round.  It does so but  *)
(* for two things: a single "&" is no operator to it, so that what comes   *)
(* after one is let through, and a backslash in single quotes is an escape *)
(* that can hide an operator.  (policy/shell.rs)                           *)
(***************************************************************************)
PolicyReadsTheCommand ==
  Answered("policy") /\ ~HasBareBackslash(asked.script) =>
    LET script == asked.script
        angles == {k \in DOMAIN script.words : script.words[k].text \in Redirects}
        bare == {k \in angles : script.words[k].as = "bare"}
        background == {k \in DOMAIN script.words : IsBare(script, k, {"&"})}
    IN  /\ answer.decision = "Compact" /\ background = {} => SafeScript(script, bare)
        /\ SafeScript(script, angles) => answer.decision = "Compact"
=============================================================================
