--------------------------- MODULE MCContentTools ---------------------------
EXTENDS ContentTools

UpTo(S, least, most) == UNION {[1..n -> S] : n \in least..most}

MCLogBytes == [k \in LogKinds \cup {"marker"} |-> IF k = "marker" THEN 3 ELSE 4]
MCLogs == [1..5 -> LogKinds \ {"frame"}] \cup [1..5 -> {"error", "warning b", "frame", "plain", "failed"}]

MCTemplateBytes == [token |-> 2, ends |-> 2]
MCTemplateLogs ==
  UpTo({<<"w", "w", "1", "2">>, <<"w", "w", "2", "2">>, <<"w", "1", "w", "2">>, <<"w", "1">>,
        <<"{}", "w", "1", "2">>}, 1, 4)

MCDiffBytes == [k \in DiffKinds \cup {"marker"} |-> 2]
MCDiffs ==
  {<<f>> \o head \o <<"@@">> \o body : f \in Headers, head \in {<<>>, <<"---">>},
     body \in UpTo(DiffKinds, 1, 3)}
  \cup {<<"@@", a>> \o [k \in 1..n |-> " "] \o <<b, c>> :
          n \in 3..5, a \in {"+a", " "}, b \in DiffKinds, c \in DiffKinds}

MCRelevance ==
  [b \in {"short", "long", "todo"} |->
     CASE b = "short" -> [bm25 |-> 90, importance |-> 10, length |-> 10]
       [] b = "long" -> [bm25 |-> 0, importance |-> 10, length |-> 70]
       [] OTHER -> [bm25 |-> 30, importance |-> 100, length |-> 10]]
MCMatches == [path : {"a", "b"}, line_no : {1, 2}, body : DOMAIN MCRelevance]
NoMatch == [path |-> "", line_no |-> 0, body |-> "short"]
MCSearches ==
  [1..3 -> MCMatches]
  \cup {<<NoMatch, m, [m EXCEPT !.body = b]>> \o s \o <<NoMatch>> :
          m \in MCMatches, b \in DOMAIN MCRelevance, s \in [1..2 -> MCMatches]}

MCSnippets ==
  [match_lines : UpTo(1..6, 0, 3), context : 0..1, max_line : {6}, max_snippets : 0..2]

MCSegment ==
  [s \in {"error", "error again", "number", "prose", "query"} |->
     CASE s = "error" -> [terms |-> 1..5, chars |-> 6, salience |-> 100, bm25 |-> 0]
       [] s = "error again" -> [terms |-> 1..6, chars |-> 7, salience |-> 135, bm25 |-> 0]
       [] s = "number" -> [terms |-> {7, 8, 9}, chars |-> 3, salience |-> 35, bm25 |-> 80]
       [] s = "query" -> [terms |-> {10, 11, 12}, chars |-> 4, salience |-> 0, bm25 |-> 500]
       [] OTHER -> [terms |-> {13, 14, 15}, chars |-> 2, salience |-> 0, bm25 |-> 0]]
MCTexts == [1..4 -> DOMAIN MCSegment]

MCCell ==
  [c \in {"1", "2", "9", "'1", "ok", "down", "error"} |->
     [shows |-> IF c = "'1" THEN "1" ELSE c,
      type |-> IF c \in {"1", "2", "9"} THEN "number" ELSE "string",
      number |-> CASE c = "1" -> 1 [] c = "2" -> 2 [] c = "9" -> 9 [] OTHER -> 0,
      error |-> c = "error",
      words |-> IF c \in {"1", "2", "9", "'1"} THEN {} ELSE {c},
      bytes |-> 2]]
MCBm25 == [c \in DOMAIN MCCell |-> IF c = "down" THEN 5 ELSE 0]

\* A long array of like rows with two that stand out anywhere in it.
Base(k) == [id |-> IF k % 2 = 0 THEN "1" ELSE "2", state |-> "ok"]
Special ==
  {[id |-> "9", state |-> "ok"], [id |-> "1", state |-> "error"], [id |-> "2", state |-> "down"],
   [id |-> "2", state |-> "ok", note |-> "down"]}
\* Rows of two shapes that have two keys in common.
Shape(k, id, state) ==
  IF k % 2 = 0 THEN [id |-> id, state |-> state, a |-> "1", b |-> "ok", c |-> "9"]
  ELSE [id |-> id, state |-> state, d |-> "2", e |-> "down", f |-> "9"]
MCArrays ==
  {[k \in 1..n |-> IF k = i THEN Shape(k, "9", a) ELSE IF k = j THEN Shape(k, "1", b)
                   ELSE Shape(k, IF k < 4 THEN "1" ELSE "2", c)] :
     n \in {8, 10}, i \in {1, 4, 7, 10}, j \in {2, 5, 9},
     a \in {"ok", "down", "error"}, b \in {"ok", "down"}, c \in {"ok", "error"}}
  \cup
  {[k \in 1..n |-> IF k = i THEN a ELSE IF k = j THEN b ELSE Base(k)] :
     n \in {4, 10}, i \in {1, 3, 6, 9}, j \in {4, 5, 8, 10}, a \in Special, b \in Special}
  \cup {[k \in 1..n |-> IF k % 2 = 0 THEN a ELSE IF k = i THEN b ELSE Base(k)] :
          n \in {6, 9, 10}, i \in {1, 3, 5}, a \in Special, b \in Special}

MCCode ==
  [l \in {"pub fn {", "fn {", "body", "todo", "let error {", "}", "const"} |->
     [opens |-> IF l \in {"pub fn {", "fn {", "let error {"} THEN 1 ELSE 0,
      closes |-> IF l = "}" THEN 1 ELSE 0,
      keep |-> l \in {"todo", "let error {"},
      symbol |-> CASE l = "pub fn {" -> "f" [] l = "fn {" -> "g" [] l = "let error {" -> "e"
                   [] l = "const" -> "c" [] OTHER -> "none",
      public |-> l = "pub fn {"]]
MCSources == {<<"pub fn {">> \o s : s \in [1..5 -> {"fn {", "body", "todo", "let error {", "}"}]}
  \cup {<<"fn {", "body">> \o s : s \in [1..4 -> DOMAIN MCCode]}
MCStubModes ==
  {[is |-> "signatures"], [is |-> "public"], [is |-> "symbols", names |-> {"g"}],
   [is |-> "around", lines |-> {4}]}

MCPages ==
  UpTo({Word, LessThan, Quote, CommentStart, CommentEnd, Open("p"), Open("script"), Close("script")}, 1, 4)
  \cup {<<Word>> \o p \o <<Word>> :
          p \in UpTo({Word, LessThan, Open("b"), Close("b"), Open("a"), Close("a"), Open("chrome"),
                      Open("pre"), Close("pre"), Open("ul"), Open("li"), Open("x"), Open("embed"),
                      CdataStart, CdataEnd}, 1, 3)}

-----------------------------------------------------------------------------
\* Commands of up to three words, each in any of the ways to write it.
ShellOperators == {";", "|", ">", "&&", "&"}
MCWords ==
  [text : {"ls", "rm", "cat", "git", "reset", "find", "-delete"} \cup ShellOperators, as : {"bare", "'"}]
  \cup [text : ShellOperators \cup {"'"}, as : {"escaped", "\""}]
  \cup [text : {"\\"}, as : {"escaped", "'"}]
MCScripts ==
  [cd : {FALSE}, words : UpTo(MCWords, 1, 3)] \cup [cd : {TRUE}, words : UpTo(MCWords, 1, 2)]

T(is, word) == [is |-> is, of |-> <<word>>]
MCPattern ==
  [p \in {"warnings", "failures", "ok", "asides"} |->
     CASE p = "warnings" -> {T("warning", "w")} [] p = "failures" -> {T("failure", "f")}
       [] p = "asides" -> {T("branch", "main"), T("upstream", "main"), T("nothing", ""), T("clean", "")}
       [] OTHER -> {T("plain", "ok")}]

AnyCommand ==
  [tool_names |-> <<>>, argv0 |-> <<>>, argv_includes |-> <<>>, argv_includes_any |-> <<>>,
   command_includes |-> <<>>, command_includes_any |-> <<>>]
\* A stand-in for any other rule.
RuleFor(id, family, match) ==
  [id |-> id, family |-> family, priority |-> 0, match |-> match,
   pretty |-> FALSE, trim |-> TRUE, dedupe |-> FALSE, pre_keep |-> FALSE, on_empty |-> FALSE,
   skip |-> <<>>, keep |-> <<>>, counters |-> <<>>, output_matches |-> <<>>,
   head |-> 2, tail |-> 1, failure |-> [preserve |-> FALSE, head |-> -1, tail |-> -1]]
\* generic__fallback.json, git__status.json and cloud__gh.json as shipped, their limits
\* scaled down: 8 and 8 (12 and 20 after a failure), 10 and 4 (12 and 12), 10 and 8.
Fallback ==
  [RuleFor("generic/fallback", "generic", AnyCommand) EXCEPT
     !.priority = -1, !.dedupe = TRUE, !.head = 1, !.tail = 1,
     !.failure = [preserve |-> TRUE, head |-> 1, tail |-> 2],
     !.counters = <<[name |-> "error", pattern |-> "failures"],
                    [name |-> "warning", pattern |-> "warnings"]>>]
GitStatus ==
  [RuleFor("git/status", "git-status",
           [AnyCommand EXCEPT !.argv0 = <<"git">>, !.argv_includes = <<<<"status">>>>]) EXCEPT
     !.dedupe = TRUE, !.on_empty = TRUE, !.skip = <<"asides">>, !.head = 4, !.tail = 2,
     !.failure = [preserve |-> TRUE, head |-> 4, tail |-> 4]]
CloudGh ==
  [RuleFor("cloud/gh", "developer-cli",
           [AnyCommand EXCEPT !.tool_names = <<"exec">>, !.argv0 = <<"gh">>]) EXCEPT
     !.dedupe = TRUE, !.counters = <<[name |-> "error", pattern |-> "failures"]>>,
     !.failure = [preserve |-> TRUE, head |-> 2, tail |-> 2]]
MCRules ==
  <<[RuleFor("test/b", "test-results", [AnyCommand EXCEPT !.argv0 = <<"make">>]) EXCEPT
       !.skip = <<"ok">>, !.keep = <<"failures", "(broken">>, !.failure.preserve = TRUE,
       !.counters = <<[name |-> "failure", pattern |-> "failures"]>>, !.on_empty = TRUE],
    [RuleFor("test/c", "build", [AnyCommand EXCEPT !.argv0 = <<"make">>, !.tool_names = <<"task">>])
       EXCEPT !.head = -1, !.tail = -1, !.pretty = TRUE],
    RuleFor("test/a", "build", [AnyCommand EXCEPT !.argv_includes = <<<<"all">>>>, !.argv0 = <<"make">>]),
    RuleFor("test/d", "build", [AnyCommand EXCEPT !.argv0 = <<"make">>]),
    GitStatus,
    CloudGh,
    [RuleFor("search/rg", "search", [AnyCommand EXCEPT !.command_includes_any = <<"rg">>]) EXCEPT
       !.counters = <<[name |-> "match", pattern |-> "ok"]>>, !.dedupe = TRUE],
    [RuleFor("lint", "lint", [AnyCommand EXCEPT !.tool_names = <<"lint">>]) EXCEPT
       !.pre_keep = TRUE, !.keep = <<"warnings">>,
       !.output_matches = <<[name |-> "clean", pattern |-> "failures"]>>,
       !.counters = <<[name |-> "warning", pattern |-> "warnings"]>>],
    RuleFor("help", "help", [AnyCommand EXCEPT !.argv_includes_any = <<<<"help">>>>]),
    Fallback>>
MCOrder ==
  [id \in Ids(MCRules) |->
     CASE id = "cloud/gh" -> 1 [] id = "generic/fallback" -> 2 [] id = "git/status" -> 3
       [] id = "help" -> 4 [] id = "lint" -> 5 [] id = "search/rg" -> 6 [] id = "test/a" -> 7
       [] id = "test/b" -> 8 [] id = "test/c" -> 9 [] OTHER -> 10]

Command(words) ==
  FoldLeft(LAMBDA s, word : s \o <<" ", word>>, <<words[1]>>, Tail(words))
MCInput(tool, words, lines, code) ==
  [tool_name |-> tool, command |-> Command(words), argv |-> <<>>, combined |-> <<>>,
   stdout |-> SubSeq(lines, 1, Len(lines) - 1),
   stderr |-> IF lines = <<>> THEN <<>> ELSE <<Last(lines)>>,
   exit_code |-> code]
MCOpts == [raw |-> FALSE, classifier |-> "none", max |-> 60, store |-> TRUE]
MCOutputs == UpTo({T("plain", "ok"), T("failure", "f"), T("warning", "w"), Blank}, 0, 5)
GitOutputs ==
  {<<T("branch", "main"), T("staged", "")>> \o a \o <<Blank, T("untracked", ""), T("hint", "use")>>
     \o b \o c : a \in UpTo({T("modified", "f"), T("newfile", "g"), T("deleted", "h")}, 0, 3),
                 b \in UpTo({T("path", "u"), T("path", "v"), T("path", "w")}, 1, 3),
                 c \in {<<>>, <<Blank, T("nothing", "")>>}}
  \cup {<<T("branch", "main"), T("upstream", "main"), T("hint", "use"), Blank, T("clean", "")>>}
GhOutputs ==
  UpTo({[is |-> "row", of |-> <<"1", "title", "branch", "open">>],
        [is |-> "row", of |-> <<"2", "title">>],
        [is |-> "json", of |-> <<"title", "7", "", "open">>],
        [is |-> "json", of |-> <<"", "7">>],
        [is |-> "document", of |-> <<"k", "v", "k", "v", "k">>]}, 1, 3)
MCRuns ==
  [input : {MCInput("shell", <<"ls">>, lines, code) : lines \in MCOutputs, code \in {0, 2}},
   opts : {[MCOpts EXCEPT !.max = n] : n \in {8, 14, 60}}]
  \cup
  [input : {MCInput(tool, words, lines, code) :
              tool \in {"shell", "lint"},
              words \in {<<"make">>, <<"make", "all">>, <<"rg", "x">>, <<"x", "help">>},
              lines \in UpTo({T("plain", "ok"), T("failure", "f"), T("warning", "w")}, 0, 4),
              code \in {0, 2}},
   opts : {MCOpts, [MCOpts EXCEPT !.classifier = "test/b"], [MCOpts EXCEPT !.raw = TRUE]}]
  \cup
  [input : {MCInput("shell", <<"git", "status">>, lines, 0) : lines \in GitOutputs}
             \cup {MCInput("exec", <<"gh", "pr">>, lines, 0) : lines \in GhOutputs}
             \cup {MCInput("task", <<"make">>, lines, 0) : lines \in GhOutputs}
             \cup {MCInput("shell", <<"cat", "f">>, lines, 2) : lines \in GhOutputs},
   opts : {MCOpts}]

-----------------------------------------------------------------------------
MCRow ==
  [r \in {"hit", "twice", "plain", "blank", "# one", "## two", "fence", "link"} |->
     [patterns |-> CASE r \in {"hit", "twice"} -> {"a"} [] r = "plain" -> {"b"} [] OTHER -> {},
      times |-> IF r = "twice" THEN 2 ELSE 1,
      level |-> CASE r = "# one" -> 1 [] r = "## two" -> 2 [] OTHER -> 0,
      fence |-> r = "fence",
      link |-> IF r \in {"link", "hit"} THEN r ELSE "none",
      score |-> CASE r = "hit" -> 3 [] r = "twice" -> 5 [] OTHER -> 0,
      chars |-> CASE r = "blank" -> 0 [] r = "plain" -> 4 [] OTHER -> 2]]

At(n) == [at |-> "line", n |-> n]
AtLast == [at |-> "last"]
AtRe(p) == [at |-> "re", re |-> p]
NoAddress == [at |-> "none"]
Cmd(a1, a2, kind) == [a1 |-> a1, a2 |-> a2, negate |-> FALSE, kind |-> kind]
Subst(re, repl, print) ==
  [a1 |-> NoAddress, a2 |-> NoAddress, negate |-> FALSE, kind |-> "s", re |-> re, repl |-> repl,
   print |-> print]
Sed(cmds, quiet) == [is |-> "sed", cmds |-> cmds, quiet |-> quiet]
MCSed ==
  {Sed(<<[Cmd(a1, a2, "p") EXCEPT !.negate = n]>>, TRUE) :
     a1 \in {At(0), At(1), At(3), AtRe("a"), AtLast}, a2 \in {NoAddress, At(2), At(4), AtRe("b"), AtLast},
     n \in BOOLEAN}
  \cup {Sed(<<[Cmd(NoAddress, NoAddress, "p") EXCEPT !.negate = n]>>, TRUE) : n \in BOOLEAN}
  \cup {Sed(<<Cmd(At(2), NoAddress, "d"), Subst("a", "plain", p), Cmd(At(1), At(2), "p")>>, q) :
          p \in BOOLEAN, q \in BOOLEAN}
MCOps ==
  [is : {"grep"}, pattern : {"a"}, context : 0..2]
  \cup [is : {"find", "regex"}, pattern : {"a"}]
  \cup [is : {"rank"}, top_k : 1..2]
  \cup [is : {"awk"}, test : {[is |-> "all"], [is |-> "re", re |-> "a", negate |-> TRUE],
                              [is |-> "NR >=", n |-> 2], [is |-> "NR ==", n |-> 2]}]
  \cup MCSed
MCScopes == [from : {<<>>, <<2>>, <<-3>>}, to : {<<>>, <<4>>, <<-1>>}]
MCLooks ==
  [text : UpTo({"hit", "twice", "plain"}, 0, 4) \cup [1..5 -> {"hit", "plain"}], op : MCOps,
   scope : MCScopes]
  \cup [text : UpTo({"# one", "## two", "fence", "link", "hit", "blank", "plain"}, 1, 4),
        op : {[is |-> "headings"], [is |-> "links"]} \cup [is : {"summarize"}, max_chars : {6, 14}],
        scope : MCScopes]
-----------------------------------------------------------------------------
\* A prompt with a frozen a, b, and a character of two bytes in what may change.
MCPrompt == <<"a", "b", "c", "more", "d", "e">>
R(start, end) == ByteRange(start, end)
MCZones ==
  {[frozen_prefix |-> f, mutable_blocks |-> b] :
     f \in {R(0, 2), R(1, 2), R(2, 2)}, b \in {{R(2, 6)}, {R(0, 1), R(2, 4), R(4, 6)}}}
  \cup {[frozen_prefix |-> R(0, 3), mutable_blocks |-> {R(4, 6)}],
        [frozen_prefix |-> R(0, 2), mutable_blocks |-> {R(2, 7)}]}
MCReplacements ==
  [range : {R(s, e) : s \in 0..6, e \in 1..6}, text : {<<"x", "y">>}]
  \cup [range : {R(2, 2), R(4, 4), R(0, 0), R(4, 5), R(5, 7)}, text : {<<>>, <<"x">>}]
MCSplices ==
  [input : {MCPrompt}, zone : MCZones, replacements : UpTo(MCReplacements, 0, 2)]
  \cup [input : {MCPrompt}, zone : {[frozen_prefix |-> R(0, 2), mutable_blocks |-> {R(2, 6)}]},
        replacements : [1..3 -> [range : {R(2, 4), R(2, 2), R(4, 5), R(5, 6), R(4, 4)},
                                 text : {<<>>, <<"x">>}]]]

MCHashKinds ==
  [n \in {1, 2, 3} |-> CASE n = 1 -> "md5_hex" [] n = 2 -> "sha1_hex" [] OTHER -> "sha256_hex"]
MCMatchRanges == {<<>>, <<R(0, 2)>>, <<R(1, 3)>>, <<R(0, 1), R(2, 4)>>, <<R(1, 2), R(3, 4)>>}
MCFrozenPrefixes ==
  [input : {<<"a", "b", "c", "d", "e", "f", "more">>}, frozen_range : {R(0, 4), R(1, 5), R(2, 6)},
   matches : [ToSet(VolatileKinds) -> MCMatchRanges]]

\* What is read in a line; "long ref" is cut to "ref" in a snippet.
Read ==
  [bytes |-> 4, heading |-> FALSE, finding |-> FALSE, uncertain |-> FALSE, question |-> FALSE,
   ref |-> NoRef, mentions |-> {}]
MCSaid ==
  [line \in {"plain", "blank", "heading", "finding", "ref", "long ref", "uncertain", "question"} |->
     (CASE line = "blank" -> [bytes |-> 0]
        [] line = "heading" -> [heading |-> TRUE, finding |-> TRUE]
        [] line = "finding" -> [finding |-> TRUE, mentions |-> {"p"}]
        [] line = "ref" -> [finding |-> TRUE, ref |-> [path |-> "q", at |-> 1], mentions |-> {"q"}]
        [] line = "long ref" -> [bytes |-> 9, finding |-> TRUE, ref |-> [path |-> "q", at |-> 1],
                                 mentions |-> {"p", "q"}]
        [] line = "uncertain" -> [uncertain |-> TRUE]
        [] line = "question" -> [question |-> TRUE]
        [] OTHER -> [bytes |-> 4])
     @@ [snippet |-> IF line = "long ref" THEN "ref" ELSE line] @@ Read]
MCEvents ==
  [role : {"assistant"}, content : {<<"blank">>, <<"plain", "uncertain">>, <<"heading", "finding", "ref">>,
                                    <<"long ref", "ref", "question">>},
   tool : {"none"}, path : {"none"}, at : {0}, bad : {FALSE}]
  \cup [role : {"tool"}, content : {<<>>, <<"plain">>, <<"question", "ref">>}, tool : {"t"},
        path : {"p"}, at : {0, 2}, bad : BOOLEAN]
  \cup [role : {"tool"}, content : {<<>>, <<"plain">>, <<"question", "ref">>}, tool : {"t"},
        path : {"none"}, at : {0}, bad : BOOLEAN]
MCPolicy(findings, evidence, questions) ==
  [max_findings |-> findings, max_evidence |-> evidence, max_open_questions |-> questions]
MCTranscripts ==
  [transcript : UpTo(MCEvents, 0, 3), policy : {MCPolicy(2, 2, 1), MCPolicy(1, 3, 2)},
   max_bytes : {0, 12, 30, 200}]

MCDir(files) == [there |-> TRUE, files |-> files]
MCNoDir == [there |-> FALSE, files |-> <<>>]
MCFile(kind, id) == [kind |-> kind, id |-> id]
MCRuleFiles ==
  {MCFile("rule", "help"), MCFile("rule", "generic/fallback"), MCFile("rule", "lint"),
   MCFile("broken", "help"), MCFile("symlink", "help")}
MCDirs == {MCNoDir} \cup {MCDir(files) : files \in UpTo(MCRuleFiles, 0, 2)}
MCLegacy == {MCNoDir, MCDir(<<MCFile("rule", "test/a"), MCFile("other", "help")>>)}
MCLayers ==
  [builtin : {MCDir(<<MCFile("rule", "generic/fallback"), MCFile("rule", "help")>>)},
   opts : [user : [custom : {{}}, new : MCDirs, legacy : MCLegacy],
           project : [custom : {{}}, new : {MCNoDir, MCDir(<<>>), MCDir(<<MCFile("rule", "help")>>)},
                      legacy : MCLegacy],
           exclude_user : BOOLEAN, exclude_project : BOOLEAN]
          \cup [user : [custom : {{}, {MCNoDir}, {MCDir(<<MCFile("rule", "lint")>>)}}, new : MCLegacy,
                        legacy : {MCNoDir}],
                project : [custom : {{MCNoDir}, {MCDir(<<MCFile("rule", "help")>>)}}, new : MCDirs,
                           legacy : {MCNoDir}],
                exclude_user : {FALSE}, exclude_project : {FALSE}]]
=============================================================================
