---------------------------- MODULE ShellPolicy ----------------------------
(***************************************************************************)
(* src/policy/shell.rs: which command's output may be summarised.  A       *)
(* command is a sequence of characters; a run of letters is one of them,   *)
(* and so are "&&" and "||".                                               *)
(***************************************************************************)
EXTENDS Lines

Space == " "
DoubleQuote == "\""
QuoteMarks == {"'", DoubleQuote}
Spaces == {Space, "\n"}
SequenceOperators == {";", "\n", "&&", "||"}
Redirects == {"<", ">"}
ContentReaders == {"cat", "nl", "bat", "batcat", "jq", "yq", "head", "tail", "sed"}
Changers == {"rm", "mv", "cp", "install", "chmod", "chown", "ln", "mkdir", "rmdir"}
FindActions == {"-exec", "-execdir", "-ok", "-okdir", "-delete"}
FdActions == {"-x", "-X", "--exec", "--exec-batch", "--batch-size"}
GitActions == {"checkout", "switch", "reset", "clean", "restore", "apply", "am", "merge",
               "rebase", "commit"}

\* Seeded fault: a scanner that knows quotes but not escapes.
QuotingWithoutEscapes(s) ==
  LET Step(q, i) ==
        CASE q.quote # "none" -> IF s[i] = q.quote THEN [q EXCEPT !.quote = "none"]
                             ELSE [q EXCEPT !.literal = @ \cup {i}]
          [] q.quote = "none" /\ s[i] \in QuoteMarks -> [q EXCEPT !.quote = s[i]]
          [] OTHER -> [q EXCEPT !.plain = @ \cup {i}]
  IN  FoldLeft(Step, [quote |-> "none", escaping |-> FALSE, plain |-> {}, literal |-> {}],
               [i \in DOMAIN s |-> i])

(***************************************************************************)
(* The automaton that tokenize_command and the four scanners share: a      *)
(* character is plain, literal (quoted or escaped) or the quoting itself.  *)
(***************************************************************************)
Quoting(s) ==
  LET Step(q, i) ==
        CASE q.escaping -> [q EXCEPT !.escaping = FALSE, !.literal = @ \cup {i}]
          [] ~q.escaping /\ s[i] = "\\" -> [q EXCEPT !.escaping = TRUE]
          [] ~q.escaping /\ s[i] # "\\" /\ q.quote # "none" ->
               IF s[i] = q.quote THEN [q EXCEPT !.quote = "none"]
               ELSE [q EXCEPT !.literal = @ \cup {i}]
          [] ~q.escaping /\ q.quote = "none" /\ s[i] \in QuoteMarks -> [q EXCEPT !.quote = s[i]]
          [] OTHER -> [q EXCEPT !.plain = @ \cup {i}]
  IN  FoldLeft(Step, [quote |-> "none", escaping |-> FALSE, plain |-> {}, literal |-> {}],
               [i \in DOMAIN s |-> i])

Plain(s, wanted) == {i \in Quoting(s).plain : s[i] \in wanted}

\* A token is the sequence of characters it is made of.
Tokens(s, q) ==
  LET Flush(t) == IF t.current = <<>> THEN t.tokens ELSE Append(t.tokens, t.current)
      Step(t, i) ==
        IF i \in q.plain /\ s[i] \in Spaces THEN [tokens |-> Flush(t), current |-> <<>>]
        ELSE IF i \in q.plain \cup q.literal THEN [t EXCEPT !.current = Append(@, s[i])]
        ELSE t
      read == FoldLeft(Step, [tokens |-> <<>>, current |-> <<>>], [i \in DOMAIN s |-> i])
  IN  IF q.escaping THEN Append(read.tokens, Append(read.current, "\\")) ELSE Flush(read)

tokenize_command(s) == Tokens(s, Quoting(s))

Trim(s) ==
  LET told == {i \in DOMAIN s : s[i] \notin Spaces}
  IN  IF told = {} THEN <<>> ELSE SubSeq(s, Min(told), Max(told))

\* The pieces of s between the places of a set.
Pieces(s, cuts) ==
  LET ends == InOrder(cuts \cup {Len(s) + 1}, Len(s) + 1)
  IN  [k \in DOMAIN ends |-> SubSeq(s, IF k = 1 THEN 1 ELSE ends[k - 1] + 1, ends[k] - 1)]

split_unquoted_pipes(s) == Pieces(s, Plain(s, {"|"}))

IsCd(tokens) == Len(tokens) >= 2 /\ tokens[1] = <<"cd">>

\* What follows the leading pieces that are a cd with an argument.
AfterCds(s, pieces) ==
  LET cds == Max({k \in 0..(Len(pieces) - 1) : \A j \in 1..k : IsCd(tokenize_command(pieces[j]))})
      start == FoldLeft(LAMBDA n, piece : n + Len(piece) + 1, 1, SubSeq(pieces, 1, cds))
  IN  Trim(SubSeq(s, start, Len(s)))

strip_leading_cd_prefix(s) == AfterCds(s, Pieces(s, Plain(s, {"&&"})))

contains_sequence_operator(s) == Plain(s, SequenceOperators) # {}
contains_unquoted_redirect(s) == Plain(s, Redirects) # {}
is_redirect_token(token) == ToSet(token) \cap Redirects # {}

NoCommand == [segments |-> <<>>, mixed |-> FALSE, redirect |-> FALSE]

Parsed(stripped, pieces) ==
  LET told == InOrder({k \in DOMAIN pieces : tokenize_command(pieces[k]) # <<>>}, Len(pieces))
      segments == [k \in DOMAIN told |-> tokenize_command(pieces[told[k]])]
  IN  IF segments = <<>> THEN NoCommand
      ELSE [segments |-> segments, mixed |-> contains_sequence_operator(stripped),
            redirect |-> contains_unquoted_redirect(stripped)]

PiecesParsed(stripped) == Parsed(stripped, split_unquoted_pipes(stripped))
parse_command(command) == PiecesParsed(strip_leading_cd_prefix(Trim(command)))

command_parts(input) ==
  IF Trim(input.command) # <<>> THEN parse_command(input.command)
  ELSE IF input.argv = <<>> THEN NoCommand
  ELSE [segments |-> <<input.argv>>, mixed |-> FALSE,
        redirect |-> \E k \in DOMAIN input.argv : is_redirect_token(input.argv[k])]

\* The file name of a path: what follows the last "dir/".
argv0(tokens) ==
  LET dirs == {i \in DOMAIN tokens[1] : tokens[1][i] = "dir/"}
  IN  IF dirs = {} THEN tokens[1] ELSE SubSeq(tokens[1], Max(dirs) + 1, Len(tokens[1]))

is_file_content_read(tokens) == argv0(tokens) \in {<<c>> : c \in ContentReaders}

HasArgument(tokens, words) == \E k \in 2..Len(tokens) : tokens[k] \in {<<w>> : w \in words}

contains_unsafe_action(tokens) ==
  \/ \E k \in DOMAIN tokens : is_redirect_token(tokens[k])
  \/ argv0(tokens) = <<"find">> /\ HasArgument(tokens, FindActions)
  \/ argv0(tokens) = <<"fd">> /\ HasArgument(tokens, FdActions)
  \/ argv0(tokens) \in {<<c>> : c \in Changers}
  \/ argv0(tokens) = <<"git">> /\ Len(tokens) > 1 /\ tokens[2] \in {<<a>> : a \in GitActions}

contains_file_content_read(parts) == is_file_content_read(parts.segments[1])
has_unsafe_action(parts) ==
  parts.redirect \/ \E k \in DOMAIN parts.segments : contains_unsafe_action(parts.segments[k])

Decision(parts, policy) ==
  LET Reads == parts # NoCommand /\ contains_file_content_read(parts)
  IN  CASE policy = "CompactAll" -> "Compact"
        [] policy = "SkipAll" -> "SkipAll"
        [] policy = "SkipFileContent" -> IF Reads THEN "SkipFileContent" ELSE "Compact"
        [] OTHER -> CASE parts = NoCommand -> "Compact"
                      [] parts # NoCommand /\ parts.mixed -> "SkipMixedShell"
                      [] ~parts.mixed /\ has_unsafe_action(parts) -> "SkipUnsafeAction"
                      [] OTHER -> IF Reads THEN "SkipFileContent" ELSE "Compact"

apply_shell_compaction_policy(input, policy) == Decision(command_parts(input), policy)
=============================================================================
