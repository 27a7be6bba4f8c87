------------------------------ MODULE Handoff ------------------------------
(***************************************************************************)
(* src/conversation/subagent.rs: what a delegated agent hands back, taken  *)
(* from its transcript without calling a model.                            *)
(*                                                                         *)
(* An event is [role, content, tool, path, at, bad]: content is a sequence *)
(* of lines, path and at are its metadata, bad is a call that failed or    *)
(* ended with a code other than 0.  What the code reads in a line, once    *)
(* its bullet is gone, is Said of it.                                      *)
(***************************************************************************)
EXTENDS Lines

CONSTANTS
  Said,                 \* of a line: bytes (0 for a blank one), heading, finding, uncertain,
                        \* question, ref (path and line, or NoRef), mentions (paths named in
                        \* it) and snippet (the line cut to max_snippet_chars)
  HeadingBytes, ItemBytes, \* of the heading of a part, and of what is put around an item
  RefBytes,             \* of the number of an evidence
  BUDGET_OVERHEAD, LEAST_CONCLUSION  \* 96 and 24

NoRef == [path |-> "none", at |-> 0]

clean_block(content) == ItemsAt(content, {k \in DOMAIN content : Said[content[k]].bytes > 0})

TextBytes(text) ==
  IF text = <<>> THEN 0 ELSE FoldLeft(LAMBDA n, line : n + Said[line].bytes, Len(text) - 1, text)

LastEvent(transcript, Is(_)) ==
  LET events == {k \in DOMAIN transcript : Is(transcript[k])}
  IN  IF events = {} THEN None ELSE transcript[Max(events)]

-----------------------------------------------------------------------------
\* The first `bytes` bytes of a text; white space at the cut is not modelled.
extract_conclusion(input) ==
  LET event == LastEvent(input.transcript,
                         LAMBDA e : e.role = "assistant" /\ clean_block(e.content) # <<>>)
      text == IF event = None THEN <<>> ELSE clean_block(event.content)
  IN  [of |-> text, bytes |-> TextBytes(text)]

Finding(text, failure) == [text |-> text, failure |-> failure, evidence |-> {}]

failure_text(event) == Finding(clean_block(event.content), TRUE)

fallback_findings(input, policy) ==
  FoldLeft(LAMBDA r, event :
             LET out == IF event.bad THEN Append(r.out, failure_text(event)) ELSE r.out
             IN  IF r.done THEN r ELSE [out |-> out, done |-> Len(out) >= policy.max_findings],
           [out |-> <<>>, done |-> FALSE], input.transcript).out

\* Every finding of the last answer, which need not be the one that concludes.
AllFindings(event) ==
  LET Tells(line) == Said[line].bytes > 0 /\ ~Said[line].heading /\ Said[line].finding
      told == ItemsAt(event.content, {k \in DOMAIN event.content : Tells(event.content[k])})
  IN  IF told = <<>> THEN <<Finding(clean_block(event.content), FALSE)>>
      ELSE [k \in DOMAIN told |-> Finding(<<told[k]>>, FALSE)]

Truncated(items, n) == SubSeq(items, 1, Min({n, Len(items)}))

extract_findings(input, policy) ==
  LET last == LastEvent(input.transcript, LAMBDA e : e.role = "assistant")
  IN  IF last = None THEN fallback_findings(input, policy)
      ELSE Truncated(AllFindings(last), policy.max_findings)

Evidence(ref, event, line) ==
  [path |-> ref.path, at |-> ref.at, tool |-> event.tool,
   snippet |-> IF line = "none" THEN "none" ELSE Said[line].snippet]

evidence_from_metadata(event) ==
  LET lines == clean_block(event.content)
  IN  Evidence(event, event, IF lines = <<>> THEN "none" ELSE lines[1])

\* Evidence is the same in path, line and snippet, whichever tool it is from.
push_unique_evidence(out, evidence) ==
  IF \E e \in ToSet(out) : [e EXCEPT !.tool = evidence.tool] = evidence
  THEN out ELSE Append(out, evidence)

FromLine(out, event, line) ==
  CASE Said[line].ref # NoRef -> push_unique_evidence(out, Evidence(Said[line].ref, event, line))
    [] Said[line].ref = NoRef /\ (event.bad \/ Said[line].uncertain) ->
         push_unique_evidence(out, Evidence(event, event, line))
    [] OTHER -> out

AllEvidence(transcript) ==
  FoldLeft(LAMBDA out, event :
             FoldLeft(LAMBDA o, line : FromLine(o, event, line),
                      IF event.path = "none" THEN out
                      ELSE push_unique_evidence(out, evidence_from_metadata(event)),
                      clean_block(event.content)),
           <<>>, transcript)

push_unique_string(out, value) == IF value \in ToSet(out) THEN out ELSE Append(out, value)

AllQuestions(transcript) ==
  LET lines == FlattenSeq([k \in DOMAIN transcript |-> clean_block(transcript[k].content)])
      asking == ItemsAt(lines, {k \in DOMAIN lines : Said[lines[k]].uncertain \/ Said[lines[k]].question})
  IN  FoldLeft(LAMBDA out, line : push_unique_string(out, Said[line].snippet), <<>>, asking)

\* The numbers of the evidence whose path or file name the finding has in it.
Mentions(finding, evidence) ==
  {k \in DOMAIN evidence : \E line \in ToSet(finding.text) : evidence[k].path \in Said[line].mentions}

attach_evidence_indices(findings, evidence) ==
  [k \in DOMAIN findings |-> [findings[k] EXCEPT !.evidence = Mentions(findings[k], evidence)]]

-----------------------------------------------------------------------------
events_represented(o) ==
  (IF o.conclusion.bytes > 0 THEN 1 ELSE 0)
    + Len(o.findings) + Len(o.evidence) + Len(o.open_questions)

Over(items, n) == Max({0, Len(items) - n})

apply_policy_bounds(o, input, policy) ==
  [o EXCEPT !.findings = Truncated(@, policy.max_findings),
            !.evidence = Truncated(@, policy.max_evidence),
            !.open_questions = Truncated(@, policy.max_open_questions),
            !.omitted = [events |-> Max({0, Len(input.transcript) - events_represented(o)}),
                         findings |-> Over(o.findings, policy.max_findings),
                         evidence |-> Over(o.evidence, policy.max_evidence),
                         open_questions |-> Over(o.open_questions, policy.max_open_questions),
                         byte_truncated |-> FALSE]]

NothingOmitted ==
  [events |-> 0, findings |-> 0, evidence |-> 0, open_questions |-> 0, byte_truncated |-> FALSE]

PartBytes(items, BytesOf(_)) ==
  IF items = <<>> THEN 0
  ELSE FoldLeft(LAMBDA n, item : n + ItemBytes + BytesOf(item), HeadingBytes, items)

\* The length of what the model is handed.
format_subagent_summary_markdown(o) ==
  LET told == {part \in DOMAIN o.omitted : o.omitted[part] # NothingOmitted[part]}
      FindingBytes(f) == TextBytes(f.text) + (IF f.failure THEN ItemBytes ELSE 0)
                           + RefBytes * Cardinality(f.evidence)
      SnippetBytes(line) == IF line = "none" THEN 0 ELSE Said[line].bytes
  IN  HeadingBytes + (IF o.conclusion.bytes = 0 THEN ItemBytes ELSE o.conclusion.bytes)
        + PartBytes(o.findings, FindingBytes)
        + PartBytes(o.evidence, LAMBDA e : SnippetBytes(e.snippet) + (IF e.path = "none" THEN 0 ELSE RefBytes))
        + PartBytes(o.open_questions, SnippetBytes)
        + (IF told = {} THEN 0 ELSE HeadingBytes + ItemBytes * Cardinality(told))

\* One round of the budget: evidence goes first, then findings, then questions.
Popped(o, part) ==
  [o EXCEPT ![part] = Front(@), !.omitted[part] = @ + 1, !.omitted.byte_truncated = TRUE]

Cut(o, max_bytes) ==
  [o EXCEPT !.conclusion.bytes = Min({@, Max({LEAST_CONCLUSION, max_bytes - BUDGET_OVERHEAD})}),
            !.omitted.byte_truncated = TRUE]

\* Every round leaves one item out, so there are as many as there are items.
Fitted(o, max_bytes) ==
  LET Fits(x) == format_subagent_summary_markdown(x) <= max_bytes
      Round(x, k) ==
        CASE Fits(x) -> x
          [] ~Fits(x) /\ x.evidence # <<>> -> Popped(x, "evidence")
          [] ~Fits(x) /\ x.evidence = <<>> /\ x.findings # <<>> -> Popped(x, "findings")
          [] OTHER -> Popped(x, "open_questions")
      rounds == Len(o.evidence) + Len(o.findings) + Len(o.open_questions)
      spent == FoldLeft(Round, o, [k \in 1..rounds |-> k])
  IN  IF Fits(spent) THEN spent ELSE Cut(spent, max_bytes)

enforce_byte_budget(o, max_bytes) ==
  IF max_bytes = 0
  THEN [o EXCEPT !.conclusion = [of |-> <<>>, bytes |-> 0], !.findings = <<>>, !.evidence = <<>>,
                 !.open_questions = <<>>, !.omitted.byte_truncated = TRUE]
  ELSE Fitted(o, max_bytes)

summarize_subagent_transcript(input) ==
  LET policy == input.policy
      evidence == Truncated(AllEvidence(input.transcript), policy.max_evidence)
      extracted ==
        [conclusion |-> extract_conclusion(input),
         findings |-> attach_evidence_indices(extract_findings(input, policy), evidence),
         evidence |-> evidence,
         open_questions |-> Truncated(AllQuestions(input.transcript), policy.max_open_questions),
         omitted |-> NothingOmitted]
  IN  enforce_byte_budget(apply_policy_bounds(extracted, input, policy), input.max_bytes)
=============================================================================
