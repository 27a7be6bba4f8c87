------------------------------ MODULE LogLines ------------------------------
(***************************************************************************)
(* src/compressors/log.rs for a log that is not the output of a command:   *)
(* the reformat into templates, and the selection of the lines that carry  *)
(* a signal when that has nothing to do.                                   *)
(***************************************************************************)
EXTENDS Lines

CONSTANTS
  LogBytes,         \* the length of a log line, by kind, and of a marker
  MAX_ERRORS, MAX_WARNINGS, MAX_STACK_TRACES, STACK_TRACE_MAX_LINES, MAX_TOTAL_LINES,
  TemplateBytes,    \* the length of a word or number, and of a block's two ends
  TEMPLATE_MIN_RUN, TEMPLATE_MIN_CONSTANT_TOKENS

-----------------------------------------------------------------------------
(***************************************************************************)
(* What is told of a line.  A line that says how the build ended can be an *)
(* error at the same time; two warnings may differ in their digits only.   *)
(***************************************************************************)
LogKinds == {"error", "warning 1", "warning 2", "warning b", "frame", "passed", "failed", "plain"}

severity(line) ==
  CASE line \in {"error", "failed"} -> "Error"
    [] line \in {"warning 1", "warning 2", "warning b"} -> "Warning"
    [] OTHER -> "Other"

is_summary_line(line) == line \in {"passed", "failed"}

is_stack_frame(line) == line = "frame"

normalize_for_dedupe(line) == IF line \in {"warning 1", "warning 2"} THEN "warning #" ELSE line

-----------------------------------------------------------------------------
(***************************************************************************)
(* compress_signal: what is kept, and the rendering with exact gaps.       *)
(***************************************************************************)
select_first_last(idx, cap) ==
  LET head == (cap + 1) \div 2 IN FirstOf(idx, head) \cup LastOf(idx, cap - head)

Errors(lines) == {i \in DOMAIN lines : severity(lines[i]) = "Error"}

Summaries(lines) == {i \in DOMAIN lines : is_summary_line(lines[i])}

\* Of equal warnings the first one.
DistinctWarnings(lines) ==
  {i \in DOMAIN lines :
     /\ severity(lines[i]) = "Warning"
     /\ \A j \in 1..(i - 1) : severity(lines[j]) = "Warning"
          => normalize_for_dedupe(lines[j]) # normalize_for_dedupe(lines[i])}

\* The frames of the first stack traces, each from its top.
TopFrames(lines) ==
  LET frames == {i \in DOMAIN lines : is_stack_frame(lines[i])}
      tops == {i \in frames : i - 1 \notin frames}
  IN  {i \in frames : \E top \in FirstOf(tops, MAX_STACK_TRACES) :
         top..i \subseteq frames /\ i - top < STACK_TRACE_MAX_LINES}

Signals(lines) ==
  Summaries(lines) \cup select_first_last(Errors(lines), MAX_ERRORS)
    \cup FirstOf(DistinctWarnings(lines), MAX_WARNINGS) \cup TopFrames(lines)

LogLength(lines, entries) ==
  Length(entries, LAMBDA i : LogBytes[lines[i]], LogBytes["marker"])

compress_signal(lines) ==
  LET out == WithGaps(select_first_last(Signals(lines), MAX_TOTAL_LINES), Len(lines))
      content == MapThenSumSet(LAMBDA i : LogBytes[lines[i]], DOMAIN lines)
  IN  IF \/ Len(lines) <= MAX_TOTAL_LINES
         \/ Signals(lines) = {}
         \/ LogLength(lines, out) >= content
      THEN None ELSE Lossy(out)

-----------------------------------------------------------------------------
(***************************************************************************)
(* compress_templates.  A line is a sequence of words and numbers; a       *)
(* number's place is "{}" in the template, which a line may also hold.     *)
(***************************************************************************)
Numbers == {"1", "2"}

line_template(line) ==
  [template |-> [i \in DOMAIN line |-> IF line[i] \in Numbers THEN "{}" ELSE line[i]],
   captures |-> SelectSeq(line, LAMBDA token : token \in Numbers)]

Constant(token) == token \notin Numbers \cup {"{}"}

HasTemplate(line) ==
  /\ Len(line_template(line).captures) >= 2
  /\ Len(SelectSeq(line, Constant)) >= TEMPLATE_MIN_CONSTANT_TOKENS

\* Seeded fault: lines with as many words and numbers are of one template.
SameTemplateByLength(a, b) ==
  /\ HasTemplate(a) /\ HasTemplate(b)
  /\ Len(a) = Len(b)
  /\ Len(line_template(a).captures) = Len(line_template(b).captures)

SameTemplate(a, b) ==
  /\ HasTemplate(a) /\ HasTemplate(b)
  /\ line_template(a).template = line_template(b).template
  /\ Len(line_template(a).captures) = Len(line_template(b).captures)

\* The last line of the run that starts with line i.
RunEnd(lines, i) ==
  Max({j \in i..Len(lines) : \A k \in i..j : k = i \/ SameTemplate(lines[i], lines[k])})

\* A run starts where the one before it ended; a line without a template is one.
RunStarts(lines) ==
  FoldLeft(LAMBDA starts, i :
             IF \E s \in starts : i > s /\ i <= RunEnd(lines, s) THEN starts
             ELSE starts \cup {i},
           {}, [i \in DOMAIN lines |-> i])

Repetitive(lines, i) == RunEnd(lines, i) - i + 1 >= TEMPLATE_MIN_RUN

TemplateBlock(lines, first, last) ==
  [what |-> "template", template |-> line_template(lines[first]).template,
   rows |-> [k \in 1..(last - first + 1) |-> line_template(lines[first + k - 1]).captures]]

BlockLength(block) ==
  TemplateBytes["ends"] + TemplateBytes["token"] * Len(block.template)
    + TemplateBytes["token"] * Len(FlattenSeq(block.rows))

compress_templates(lines) ==
  LET Written(i) ==
        IF Repetitive(lines, i) THEN <<TemplateBlock(lines, i, RunEnd(lines, i))>>
        ELSE [k \in 1..(RunEnd(lines, i) - i + 1) |-> Line(i + k - 1)]
      out == FoldLeft(LAMBDA o, i : o \o Written(i), <<>>,
                      InOrder(RunStarts(lines), Len(lines)))
      Width(i) == TemplateBytes["token"] * Len(lines[i])
      written == MapThenSumSet(LAMBDA k : IF out[k].what = "line" THEN Width(out[k].n)
                                          ELSE BlockLength(out[k]), DOMAIN out)
  IN  IF \/ Len(lines) < TEMPLATE_MIN_RUN
         \/ \A s \in RunStarts(lines) : ~Repetitive(lines, s)
         \/ written >= MapThenSumSet(Width, DOMAIN lines)
      THEN None ELSE Reformatted(out)

-----------------------------------------------------------------------------
(***************************************************************************)
(* Reading a block: the captures of a row go into the places of its        *)
(* template from left to right.                                            *)
(***************************************************************************)
Filled(template, row) ==
  FoldLeft(LAMBDA acc, token :
             IF token = "{}" /\ acc.row # <<>>
             THEN [line |-> Append(acc.line, Head(acc.row)), row |-> Tail(acc.row)]
             ELSE [acc EXCEPT !.line = Append(@, token)],
           [line |-> <<>>, row |-> row], template).line

Expanded(lines, out) ==
  FlattenSeq([k \in DOMAIN out |->
    IF out[k].what = "line" THEN <<lines[out[k].n]>>
    ELSE [r \in DOMAIN out[k].rows |-> Filled(out[k].template, out[k].rows[r])]])
=============================================================================
