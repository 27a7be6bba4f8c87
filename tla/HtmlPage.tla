------------------------------ MODULE HtmlPage ------------------------------
(***************************************************************************)
(* src/compressors/html.rs: the readable text of a page, and the page as   *)
(* Markdown.  A page is a sequence of tokens: words, quotes, a "<" that    *)
(* starts no tag, whole tags, and the delimiters of comments and CDATA.    *)
(***************************************************************************)
EXTENDS Lines

Open(name) == [is |-> "tag", name |-> name, close |-> FALSE]
Close(name) == [is |-> "tag", name |-> name, close |-> TRUE]
Text(is) == [is |-> is, name |-> "", close |-> FALSE]

Word == Text("word")
LessThan == Text("<")     \* followed by a space
Quote == Text("quote")
CommentStart == Text("<!--")
CommentEnd == Text("-->")
CdataStart == Text("<![CDATA[")
CdataEnd == Text("]]>")

Tags == {"p", "b", "x", "script", "pre", "a", "chrome", "ul", "li", "embed"}

DROP_BODY_TAGS == {"script"}
BLOCK_TAGS == {"p", "pre", "ul", "li"}
INLINE_TAGS == {"b", "a", "chrome"}

-----------------------------------------------------------------------------
(***************************************************************************)
(* Both scanners read from the left; `next` is where they go on.           *)
(***************************************************************************)
EndsTag(page, j) == page[j].is \in {"tag", "-->", "]]>"}

Quotes(page, from, to) == {q \in from..to : page[q].is = "quote"}

Even(n) == n % 2 = 0

(***************************************************************************)
(* find_tag_end for a "<" at i: the first ">" outside of quotes; when a    *)
(* quote is not closed, the first one at all.  0 when there is none.       *)
(***************************************************************************)
find_tag_end(page, i) ==
  LET raw == {j \in (i + 1)..Len(page) : EndsTag(page, j)}
      outside == {j \in raw : Even(Cardinality(Quotes(page, i + 1, j)))}
      all == IF outside = {} /\ ~Even(Cardinality(Quotes(page, i + 1, Len(page))))
             THEN raw ELSE outside
  IN  IF page[i].is = "tag" THEN i ELSE IF all = {} THEN 0 ELSE Min(all)

\* The end of the comment that starts at i, 0 when it is not closed.
CommentEndAfter(page, i) ==
  LET ends == {j \in (i + 1)..Len(page) : page[j].is = "-->"} IN IF ends = {} THEN 0 ELSE Min(ends)

\* Nothing is read from here on.
Stopped(page, scan) == [scan EXCEPT !.next = Len(page) + 1]

GoOn(page, scan, end) == IF end = 0 THEN Stopped(page, scan) ELSE [scan EXCEPT !.next = end + 1]

-----------------------------------------------------------------------------
(***************************************************************************)
(* html_to_text.                                                           *)
(***************************************************************************)
TextStart == [next |-> 1, skip_until |-> "", cdata_depth |-> 0, out |-> <<>>]

Mark(what) == [what |-> what, n |-> 0]

EndsWith(out, marks) == out # <<>> /\ Last(out).what \in marks

\* The separator a tag leaves; "<" and a space is a tag without a name.
Separated(out, name) ==
  IF name \in BLOCK_TAGS
  THEN IF EndsWith(out, {"newline"}) THEN out ELSE Append(out, Mark("newline"))
  ELSE IF name \in INLINE_TAGS \/ out = <<>> \/ EndsWith(out, {"newline", "space"}) THEN out
  ELSE Append(out, Mark("space"))

TextTag(page, scan, i) ==
  IF find_tag_end(page, i) = 0 THEN Stopped(page, scan)
  ELSE IF page[i].name \in DROP_BODY_TAGS /\ ~page[i].close
  THEN [scan EXCEPT !.skip_until = page[i].name, !.next = i + 1]
  ELSE [scan EXCEPT !.out = Separated(@, page[i].name), !.next = find_tag_end(page, i) + 1]

TextToken(page, scan, i) ==
  CASE scan.skip_until # "" ->
         [scan EXCEPT !.next = i + 1, !.skip_until = IF page[i] = Close(@) THEN "" ELSE @]
    [] scan.skip_until = "" /\ page[i].is = "<!--" -> GoOn(page, scan, CommentEndAfter(page, i))
    [] scan.skip_until = "" /\ page[i].is = "<![CDATA[" ->
         [scan EXCEPT !.cdata_depth = @ + 1, !.next = i + 1]
    [] scan.skip_until = "" /\ page[i].is \in {"tag", "<"} -> TextTag(page, scan, i)
    [] scan.skip_until = "" /\ page[i].is = "]]>" /\ scan.cdata_depth > 0 ->
         [scan EXCEPT !.cdata_depth = @ - 1, !.next = i + 1]
    [] OTHER -> [scan EXCEPT !.out = Append(@, Line(i)), !.next = i + 1]

Scanned(page, start, Token(_, _, _)) ==
  FoldLeft(LAMBDA scan, i : IF i < scan.next THEN scan ELSE Token(page, scan, i),
           start, [i \in DOMAIN page |-> i])

html_to_text(page) == Scanned(page, TextStart, TextToken).out

\* compress: shorter when there was any markup, and told as faithful.
compress_html(page) ==
  LET out == html_to_text(page)
  IN  IF LinesShown(out) \in {{}, DOMAIN page} THEN None ELSE Reformatted(out)

-----------------------------------------------------------------------------
(***************************************************************************)
(* html_to_markdown: the same scan, with nested dropped bodies, verbatim   *)
(* <pre> text, and the stacks of what is open.                             *)
(***************************************************************************)
MarkdownStart ==
  [next |-> 1, skip_until |-> "", skip_depth |-> 0, cdata_depth |-> 0, out |-> <<>>,
   links |-> <<>>, list_depth |-> 0, pre_depth |-> 0, pre_buffer |-> <<>>, emphasis |-> <<>>]

md_break(out) ==
  IF out = <<>> \/ EndsWith(out, {"newline"}) THEN out ELSE Append(out, Mark("newline"))

flush_pre_block(scan) ==
  [scan EXCEPT !.out = md_break(@) \o <<Mark("fence")>> \o scan.pre_buffer
                         \o <<Mark("newline"), Mark("fence"), Mark("newline")>>,
               !.pre_buffer = <<>>]

\* A close undoes its own marker when nothing came between.
md_toggle_emphasis(scan, close) ==
  LET start == Last(scan.emphasis)
      closed == [scan EXCEPT !.emphasis = Front(@)]
  IN  IF ~close
      THEN [scan EXCEPT !.emphasis = Append(@, Len(scan.out)), !.out = Append(@, Mark("**"))]
      ELSE IF scan.emphasis = <<>> THEN scan
      ELSE IF start > Len(scan.out) THEN closed
      ELSE IF Len(scan.out) = start + 1 /\ Last(scan.out).what = "**"
      THEN [closed EXCEPT !.out = Front(@)]
      ELSE [closed EXCEPT !.out = Append(@, Mark("**"))]

\* White space at its edges stays outside of a link; one without text or with a
\* target of no use leaves its words only.
md_close_link(scan) ==
  LET link == Last(scan.links)
      closed == [scan EXCEPT !.links = Front(@)]
      text == {k \in (link.start + 1)..Len(scan.out) : scan.out[k].what \notin {"newline", "space"}}
  IN  IF scan.links = <<>> THEN scan
      ELSE IF link.start > Len(scan.out) \/ text = {} \/ ~link.useful THEN closed
      ELSE [closed EXCEPT !.out =
              SubSeq(@, 1, Min(text) - 1) \o <<Mark("[")>> \o SubSeq(@, Min(text), Max(text))
                \o <<Mark("](href)")>> \o SubSeq(@, Max(text) + 1, Len(@))]

emit_markdown_tag(scan, tag) ==
  CASE tag.name = "b" -> md_toggle_emphasis(scan, tag.close)
    [] tag.name \in {"a", "chrome"} ->
         IF tag.close THEN md_close_link(scan)
         ELSE [scan EXCEPT !.links =
                 Append(@, [start |-> Len(scan.out), useful |-> tag.name = "a"])]
    [] tag.name = "ul" ->
         [scan EXCEPT !.out = md_break(@),
            !.list_depth = IF ~tag.close THEN @ + 1 ELSE IF @ = 0 THEN 0 ELSE @ - 1]
    [] tag.name = "li" ->
         IF tag.close THEN scan ELSE [scan EXCEPT !.out = Append(md_break(@), Mark("- "))]
    [] tag.name = "p" ->
         IF EndsWith(scan.out, {"- "}) THEN scan ELSE [scan EXCEPT !.out = md_break(@)]
    [] OTHER -> [scan EXCEPT !.out = Separated(@, tag.name)]

MarkdownPre(scan, close) ==
  IF ~close THEN [scan EXCEPT !.pre_depth = @ + 1]
  ELSE IF scan.pre_depth = 0 THEN scan
  ELSE LET ended == [scan EXCEPT !.pre_depth = @ - 1]
       IN  IF ended.pre_depth = 0 THEN flush_pre_block(ended) ELSE ended

MarkdownTag(page, scan, i) ==
  LET tag == page[i]
      seen == [scan EXCEPT !.next = i + 1]
  IN  CASE tag.name = "embed" /\ ~tag.close -> seen
        [] tag.name \in DROP_BODY_TAGS /\ ~tag.close ->
             [seen EXCEPT !.skip_until = tag.name, !.skip_depth = 0]
        [] tag.name = "pre" -> MarkdownPre(seen, tag.close)
        [] tag.name \notin DROP_BODY_TAGS \cup {"pre"} /\ scan.pre_depth > 0 -> seen
        [] OTHER -> emit_markdown_tag(seen, tag)

MarkdownSkipped(page, scan, i) ==
  LET seen == [scan EXCEPT !.next = i + 1]
  IN  CASE page[i] = Close(scan.skip_until) /\ scan.skip_depth = 0 ->
             [seen EXCEPT !.skip_until = ""]
        [] page[i] = Close(scan.skip_until) /\ scan.skip_depth > 0 ->
             [seen EXCEPT !.skip_depth = @ - 1]
        [] page[i] = Open(scan.skip_until) -> [seen EXCEPT !.skip_depth = @ + 1]
        [] OTHER -> seen

\* Text, which a "<" that starts no tag is as well.
MarkdownText(scan, i) ==
  IF scan.pre_depth > 0 THEN [scan EXCEPT !.pre_buffer = Append(@, Line(i)), !.next = i + 1]
  ELSE [scan EXCEPT !.out = Append(@, Line(i)), !.next = i + 1]

MarkdownToken(page, scan, i) ==
  CASE scan.skip_until # "" -> MarkdownSkipped(page, scan, i)
    [] scan.skip_until = "" /\ page[i].is = "<!--" -> GoOn(page, scan, CommentEndAfter(page, i))
    [] scan.skip_until = "" /\ page[i].is = "<![CDATA[" ->
         [scan EXCEPT !.cdata_depth = @ + 1, !.next = i + 1]
    [] scan.skip_until = "" /\ page[i].is = "tag" -> MarkdownTag(page, scan, i)
    [] scan.skip_until = "" /\ page[i].is = "]]>" /\ scan.cdata_depth > 0 ->
         [scan EXCEPT !.cdata_depth = @ - 1, !.next = i + 1]
    [] OTHER -> MarkdownText(scan, i)

\* A bullet with nothing after it is a leftover of stripped markup.
collapse_markdown(out) ==
  LET Leftover(k) == out[k].what = "- " /\ (k = Len(out) \/ out[k + 1].what = "newline")
      kept == SelectSeq([k \in DOMAIN out |-> k], LAMBDA k : ~Leftover(k))
  IN  [k \in DOMAIN kept |-> out[kept[k]]]

html_to_markdown(page) ==
  LET scan == Scanned(page, MarkdownStart, MarkdownToken)
  IN  collapse_markdown(IF scan.pre_depth > 0 /\ scan.pre_buffer # <<>>
                        THEN flush_pre_block(scan).out ELSE scan.out)
=============================================================================
