------------------------------ MODULE DiffHunks ------------------------------
(***************************************************************************)
(* src/compressors/diff.rs: a unified diff without the middle of its long  *)
(* runs of context and without the hunks of files nobody reads.            *)
(***************************************************************************)
EXTENDS Lines

CONSTANTS
  DiffBytes,                 \* the length of a line, by kind, and of a marker
  CONTEXT_ANCHOR, CONTEXT_COLLAPSE_THRESHOLD,
  noisy_paths                \* the headers that name a lockfile, bundle, ...

ASSUME AnchorsAssumption == 2 * CONTEXT_ANCHOR <= CONTEXT_COLLAPSE_THRESHOLD

-----------------------------------------------------------------------------
(***************************************************************************)
(* A line is told by how it starts.  Two bodies, up to white space, are    *)
(* enough to tell a hunk that changes only that; a body that starts with   *)
(* the sign once more looks like the header of a file.                     *)
(***************************************************************************)
Headers == {"diff --git src", "diff --git lock"}
Added == {"+a", "+b"}
Removed == {"-a", "-b"}
DiffKinds == Headers \cup Added \cup Removed \cup {"---", "@@", " ", "\\"}

is_context(line) == line = " "

Body(line) == IF line \in {"+a", "-a"} THEN "a" ELSE IF line \in {"+b", "-b"} THEN "b" ELSE "--"

diff_noise_reason(header) == header \in noisy_paths

\* The header of the file that line i belongs to, 0 when there is none yet.
FileOf(lines, i) == Max({j \in 1..i : lines[j] \in Headers} \cup {0})

\* The lines of the hunk that line h opens.
HunkBody(lines, h) ==
  {i \in (h + 1)..Len(lines) : \A j \in (h + 1)..i : lines[j] \notin Headers \cup {"@@"}}

summarize_hunk_body(lines, body) ==
  [what |-> "noise",
   added |-> Cardinality({i \in body : lines[i] \in Added}),
   removed |-> Cardinality({i \in body : lines[i] \in Removed}),
   context |-> Cardinality({i \in body : is_context(lines[i])})]

hunk_is_whitespace_only(lines, body) ==
  LET Bodies(kinds) ==
        LET changed == SelectSeq(InOrder(body, Len(lines)), LAMBDA i : lines[i] \in kinds)
        IN  [k \in DOMAIN changed |-> Body(lines[changed[k]])]
  IN  /\ Bodies(Removed \cup {"---"}) # <<>>
      /\ Bodies(Removed \cup {"---"}) = Bodies(Added)

Noisy(lines, h, drop_whitespace_only_hunks) ==
  \/ FileOf(lines, h) # 0 /\ diff_noise_reason(lines[FileOf(lines, h)])
  \/ drop_whitespace_only_hunks /\ hunk_is_whitespace_only(lines, HunkBody(lines, h))

-----------------------------------------------------------------------------
(***************************************************************************)
(* Long runs of context keep their two ends.                               *)
(***************************************************************************)
ContextRun(lines, i) ==
  {j \in DOMAIN lines : \A k \in DOMAIN lines : (j <= k /\ k <= i) \/ (i <= k /\ k <= j)
                          => is_context(lines[k])}

Collapsed(lines, i) ==
  LET run == ContextRun(lines, i)
  IN  /\ is_context(lines[i])
      /\ Cardinality(run) > CONTEXT_COLLAPSE_THRESHOLD
      /\ i \in (Min(run) + CONTEXT_ANCHOR)..(Max(run) - CONTEXT_ANCHOR)

compress_with_options(lines, drop_whitespace_only_hunks) ==
  LET hunks == {i \in DOMAIN lines : lines[i] = "@@"}
      noisy == {h \in hunks : Noisy(lines, h, drop_whitespace_only_hunks)}
      hidden == UNION {HunkBody(lines, h) : h \in noisy}
      Written(i) ==
        IF i \in noisy
        THEN <<Line(i), summarize_hunk_body(lines, HunkBody(lines, i))>>
        ELSE IF i \in hidden THEN <<>>
        ELSE IF ~Collapsed(lines, i) THEN <<Line(i)>>
        ELSE IF ~Collapsed(lines, i - 1)
        THEN <<Omitted(Cardinality(ContextRun(lines, i)) - 2 * CONTEXT_ANCHOR)>>
        ELSE <<>>
      out == FlattenSeq([i \in DOMAIN lines |-> Written(i)])
      content == MapThenSumSet(LAMBDA i : DiffBytes[lines[i]], DOMAIN lines)
  IN  IF \/ hunks = {}
         \/ Length(out, LAMBDA i : DiffBytes[lines[i]], DiffBytes["marker"]) >= content
      THEN None ELSE Lossy(out)
=============================================================================
