---------------------------- MODULE ContentNotions ----------------------------
(***************************************************************************)
(* The notions in which ToolOutputProofs speaks of the calls of            *)
(* ContentTools: what a fold, a sorted sequence and a sum are, what it is  *)
(* for a text to spell words, for hits to be those of a text, and for      *)
(* replacements to follow one another.  Nothing here models the program.   *)
(***************************************************************************)
EXTENDS ContentTools

-----------------------------------------------------------------------------
(***************************************************************************)
(* The tools of ContentTools.  Places in a text are numbers from 1: a set  *)
(* of them has a first and a last, and Rank numbers it 1, 2, ... in order. *)
(***************************************************************************)
Rank(S, i) == Cardinality({j \in S : j <= i})

(* A sequence of everything in a set of places, in order.                  *)
Enumerates(o, S) ==
  /\ Cardinality(S) \in Nat /\ o \in [1 .. Cardinality(S) -> S]
  /\ \A j, k \in 1 .. Cardinality(S) : j < k => o[j] < o[k]
  /\ \A i \in S : \E k \in 1 .. Cardinality(S) : o[k] = i

-----------------------------------------------------------------------------
(***************************************************************************)
(* Folds.  FoldLeft is a function on the sets of places; one that exists   *)
(* for a function F of states and places exists for the step it stands     *)
(* for, and read along the prefixes of the sequence it is a run of steps.  *)
(***************************************************************************)
Folds(it, n, base, F) ==
  it = [s \in SUBSET (1 .. n) |-> IF s = {} THEN base ELSE F[<<it[s \ {Max(s)}], Max(s)>>]]

-----------------------------------------------------------------------------
(***************************************************************************)
(* The quoting of a command, place by place.                               *)
(***************************************************************************)
Unquoted == [quote |-> "none", escaping |-> FALSE, plain |-> {}, literal |-> {}]

(* One letter more, and the letters up to it.                              *)
QuoteStep(s, q, i) ==
  CASE q.escaping -> [q EXCEPT !.escaping = FALSE, !.literal = @ \cup {i}]
    [] ~q.escaping /\ s[i] = "\\" -> [q EXCEPT !.escaping = TRUE]
    [] ~q.escaping /\ s[i] # "\\" /\ q.quote # "none" ->
         IF s[i] = q.quote THEN [q EXCEPT !.quote = "none"]
         ELSE [q EXCEPT !.literal = @ \cup {i}]
    [] ~q.escaping /\ q.quote = "none" /\ s[i] \in QuoteMarks -> [q EXCEPT !.quote = s[i]]
    [] OTHER -> [q EXCEPT !.plain = @ \cup {i}]

(* What is known of n letters.                                             *)
QuoteStates(n) ==
  [quote : QuoteMarks \cup {"none"}, escaping : BOOLEAN,
   plain : SUBSET (1 .. n), literal : SUBSET (1 .. n)]

(* The scan of a text, letter by letter.                                   *)
QuoteRun(g, s, n) == g[0] = Unquoted /\ \A i \in 1 .. n : g[i] = QuoteStep(s, g[i - 1], i)

-----------------------------------------------------------------------------
(***************************************************************************)
(* A text that spells m words: word k is written from place pos[k] on, and *)
(* all other places are blank.                                             *)
(***************************************************************************)
Letters == STRING \cup QuoteMarks \cup Spaces \cup {"\\", "cd", "repo", "&&"}

(* A word as a script has it.                                              *)
IsWord(word) ==
  /\ word \in [text : Letters, as : {"bare", "escaped"} \cup QuoteMarks]
  /\ EndsAsMarked(word) /\ ~(word.as = "'" /\ word.text = "\\")
Width(word) == CASE word.as = "bare" -> 1 [] word.as = "escaped" -> 2 [] OTHER -> 3

(* A word written from p on has place i.                                   *)
Covers(word, p, i) == p <= i /\ i < p + Width(word)
SpelledAt(x, word, p) ==
  CASE word.as = "bare" -> x[p] = word.text
    [] word.as = "escaped" -> x[p] = "\\" /\ x[p + 1] = word.text
    [] OTHER -> x[p] = word.as /\ x[p + 1] = word.text /\ x[p + 2] = word.as
Spells(x, w, m, pos) ==
  /\ x \in Seq(Letters) /\ m \in Nat /\ pos \in [1 .. m -> Nat \ {0}]
  /\ \A k \in 1 .. m : /\ IsWord(w[k]) /\ SpelledAt(x, w[k], pos[k])
                       /\ pos[k] + Width(w[k]) <= Len(x) + 1
  /\ \A j, k \in 1 .. m : j < k => pos[j] + Width(w[j]) < pos[k]
  /\ \A i \in 1 .. Len(x) : (\A k \in 1 .. m : ~Covers(w[k], pos[k], i)) => x[i] = Space

(* What is plain and what is literal in such a text.                       *)
PlainAt(x, w, m, pos) ==
  {i \in 1 .. Len(x) : \/ \A k \in 1 .. m : ~Covers(w[k], pos[k], i)
                       \/ \E k \in 1 .. m : w[k].as = "bare" /\ pos[k] = i}
LiteralAt(x, w, m, pos) ==
  {i \in 1 .. Len(x) : \E k \in 1 .. m : w[k].as # "bare" /\ pos[k] + 1 = i}

(* What the scan knows after i places.                                     *)
QuotesTo(q, x, w, m, pos, i) ==
  /\ q \in QuoteStates(Len(x))
  /\ q.plain = {j \in PlainAt(x, w, m, pos) : j <= i}
  /\ q.literal = {j \in LiteralAt(x, w, m, pos) : j <= i}
  /\ q.escaping <=> \E k \in 1 .. m : w[k].as = "escaped" /\ pos[k] = i
  /\ \A k \in 1 .. m : w[k].as \in QuoteMarks /\ pos[k] <= i /\ i < pos[k] + 2 => q.quote = w[k].as
  /\ (\A k \in 1 .. m : ~(w[k].as \in QuoteMarks /\ pos[k] <= i /\ i < pos[k] + 2)) => q.quote = "none"

-----------------------------------------------------------------------------
(***************************************************************************)
(* The tokens of a text that spells some words are those words.            *)
(***************************************************************************)
FlushToken(t) == IF t.current = <<>> THEN t.tokens ELSE Append(t.tokens, t.current)
TokenStep(s, q, t, i) ==
  IF i \in q.plain /\ s[i] \in Spaces THEN [tokens |-> FlushToken(t), current |-> <<>>]
  ELSE IF i \in q.plain \cup q.literal THEN [t EXCEPT !.current = Append(@, s[i])]
  ELSE t

(* The words told and the one being read.                                  *)
TokenStates == [tokens : Seq(Seq(Letters)), current : Seq(Letters)]
NoTokens == [tokens |-> <<>>, current |-> <<>>]

(* The second scan, in the states it stays in.                             *)
TokenRun(g, s, q, n) ==
  /\ g[0] = NoTokens /\ \A i \in 1 .. n : g[i] = TokenStep(s, q, g[i - 1], i)
  /\ \A i \in 0 .. n : g[i] \in TokenStates

(* Where the text of a word is.                                            *)
TextPlace(word, p) == IF word.as = "bare" THEN p ELSE p + 1

(* After i places c words are told, and the next one has begun or not.     *)
TokensTo(t, w, m, pos, i, c, begun) ==
  /\ c \in 0 .. m /\ t.tokens = [k \in 1 .. c |-> <<w[k].text>>]
  /\ \A k \in 1 .. c : pos[k] + Width(w[k]) <= i
  /\ IF begun THEN /\ c < m /\ t.current = <<w[c + 1].text>>
                   /\ TextPlace(w[c + 1], pos[c + 1]) <= i
                   /\ i < pos[c + 1] + Width(w[c + 1])
     ELSE t.current = <<>> /\ \A k \in c + 1 .. m : i < TextPlace(w[k], pos[k])

(* The places from p to r hold words c + 1 to c + e and no part of another.*)
Within(w, m, pos, c, e, p, r) ==
  \A k \in 1 .. m : /\ k <= c => pos[k] + Width(w[k]) <= p
                    /\ c < k /\ k <= c + e => p <= pos[k] /\ pos[k] + Width(w[k]) <= r + 1
                    /\ c + e < k => r < pos[k]

(* The e words after word c of w, numbered from 1.                         *)
Follow(v, w, c, e) == \A k \in 1 .. e : v[k] = w[c + k]

-----------------------------------------------------------------------------
(***************************************************************************)
(* The pieces of such a text between the words of C: there are q of them,  *)
(* piece j holds the words between d[j - 1] and d[j].                      *)
(***************************************************************************)
CutAt(C, m, q, d) ==
  /\ q \in Nat \ {0} /\ d \in [0 .. q -> 0 .. m + 1] /\ d[0] = 0 /\ d[q] = m + 1
  /\ \A j, k \in 0 .. q : j < k => d[j] < d[k]
  /\ \A j \in 1 .. q - 1 : d[j] \in C
  /\ \A k \in C : \E j \in 1 .. q - 1 : d[j] = k
Spelling(x, v, e) == \E to : Spells(x, v, e, to)

(* Where words are, and a text cut at those of C into pieces that spell.   *)
PlacesOf(pos, C) == {pos[k] : k \in C}
BareWords(C, w, m) == C \subseteq {l \in 1 .. m : w[l].as = "bare"}
CutInto(P, w, m, pos, C, q, d) ==
  /\ CutAt(C, m, q, d) /\ P \in Seq(Seq(Letters)) /\ Len(P) = q
  /\ \A j \in 1 .. q : \A v :
       Follow(v, w, d[j - 1], d[j] - d[j - 1] - 1) => Spelling(P[j], v, d[j] - d[j - 1] - 1)
  /\ q > 1 => Len(P[1]) = pos[d[1]] - 1

(* The pipes of a command, what begins a segment, and the segments.        *)
PipesOf(w, m) == {l \in 1 .. m : w[l].as = "bare" /\ w[l].text \in {"|"}}
Begins(w, m) ==
  {k \in 1 .. m : k \notin PipesOf(w, m) /\ (k = 1 \/ k - 1 \in PipesOf(w, m))}
WordsFrom(seg, w, m, k) ==
  \E e \in k + 1 .. m + 1 :
    /\ e = m + 1 \/ e \in PipesOf(w, m)
    /\ \A i \in k .. e - 1 : i \notin PipesOf(w, m)
    /\ seg = [i \in 1 .. e - k |-> <<w[k + i - 1].text>>]
Segmented(segs, w, m) ==
  \E t \in Nat :
    /\ DOMAIN segs = 1 .. t /\ (segs = <<>> <=> t = 0)
    /\ \A j \in 1 .. t : \E k \in Begins(w, m) : WordsFrom(segs[j], w, m, k)
    /\ \A k \in Begins(w, m) : \E j \in 1 .. t : WordsFrom(segs[j], w, m, k)
    /\ \A k \in Begins(w, m) : (\A l \in Begins(w, m) : k <= l) => t > 0 /\ WordsFrom(segs[1], w, m, k)

-----------------------------------------------------------------------------
(***************************************************************************)
(* What is left of a command after its cd spells the words of the script.  *)
(***************************************************************************)
StartAfter(P, cds) == FoldLeft(LAMBDA n, piece : n + Len(piece) + 1, 1, SubSeq(P, 1, cds))

(* The words a cd is written with, and where a command is cut behind it.   *)
CdWords == <<Bare("cd"), Bare("repo"), Bare("&&")>>
CdCuts(w, m) == {l \in 1 .. m : w[l].as = "bare" /\ w[l].text \in {"&&"}}

(* What is asked of the policy, and what it takes the command apart into.  *)
PlainScripts == {script \in Scripts : ~HasBareBackslash(script)}
InventoryInput(script) == [command |-> CommandOf(script), argv |-> <<>>]
SomeBare(script, texts) == \E k \in 1 .. Len(script.words) : IsBare(script, k, texts)
PartsOf(script, segs) ==
  IF segs = <<>> THEN NoCommand
  ELSE [segments |-> segs, mixed |-> SomeBare(script, SequenceOperators),
        redirect |-> SomeBare(script, Redirects)]

-----------------------------------------------------------------------------
(***************************************************************************)
(* A segment is judged by its first word and by what follows it.           *)
(***************************************************************************)
FirstsOf(script) ==
  {k \in DOMAIN script.words : ~IsBare(script, k, {"|"}) /\ Starts(script, k)}
ActsAt(script, k, command, actions) ==
  /\ script.words[k].text = command
  /\ \E j \in DOMAIN script.words : IsArgument(script, k, j) /\ script.words[j].text \in actions
UnsafeAt(script, k) ==
  \/ script.words[k].text \in Changers
  \/ ActsAt(script, k, "find", FindActions) \/ ActsAt(script, k, "fd", FdActions)
  \/ /\ script.words[k].text = "git" /\ k < Len(script.words)
     /\ script.words[k + 1].text \in GitActions

(* A segment that begins at word k goes up to word e.                      *)
SegmentEnds(script, k, seg, e) ==
  /\ \A j \in 1 .. Len(script.words) : IsArgument(script, k, j) <=> k < j /\ j < e
  /\ e <= Len(script.words) => script.words[e].text = "|"
  /\ Len(seg) = e - k /\ DOMAIN seg = 1 .. e - k
  /\ \A i \in 1 .. e - k : seg[i] = <<script.words[k + i - 1].text>>

(* The redirections of a script, and those that are not quoted.            *)
AnglesOf(script) == {k \in DOMAIN script.words : script.words[k].text \in Redirects}
BareAnglesOf(script) == {k \in AnglesOf(script) : script.words[k].as = "bare"}

(* A fold whose steps stay in a set of states is a run of its steps.       *)
Stays(F, A, n) == \A a \in A : \A i \in 1 .. n : F[<<a, i>>] \in A
Follows(it, n, A, base, F) ==
  /\ it[{}] = base
  /\ \A p \in SUBSET (1 .. n) :
       p # {} /\ it[p \ {Max(p)}] \in A => it[p] = F[<<it[p \ {Max(p)}], Max(p)>>]
IsRun(g, n, base, F) == g[0] = base /\ \A i \in 1 .. n : g[i] = F[<<g[i - 1], i>>]

(* A set of places in any strict order of them.                            *)
Orders(R, S) ==
  /\ \A i \in S : <<i, i>> \notin R
  /\ \A i, j, k \in S : <<i, j>> \in R /\ <<j, k>> \in R => <<i, k>> \in R
  /\ \A i, j \in S : i # j => <<i, j>> \in R \/ <<j, i>> \in R

(* What comes before i.                                                    *)
Below(S, R, i) == {j \in S : <<j, i>> \in R}

(* The sequence of a set in that order.                                    *)
Sorts(o, S, R) ==
  /\ Cardinality(S) \in Nat /\ o \in [1 .. Cardinality(S) -> S]
  /\ \A j, k \in 1 .. Cardinality(S) : j < k => <<o[j], o[k]>> \in R
  /\ \A i \in S : \E k \in 1 .. Cardinality(S) : o[k] = i

-----------------------------------------------------------------------------
(***************************************************************************)
(* The hand-off of a delegated agent, of a transcript of any length.       *)
(***************************************************************************)
Terms == DOMAIN Said \cup {"none"}
Events == [role : STRING, content : Seq(DOMAIN Said), tool : STRING, path : STRING, at : Nat,
           bad : BOOLEAN]
Refs == Events \cup {Said[line].ref : line \in DOMAIN Said}
AnyEvidence == UNION {{Evidence(ref, event, line) : event \in Events, line \in Terms} : ref \in Refs}
SomeFindings == [text : Seq(DOMAIN Said), failure : BOOLEAN, evidence : {{}}]

(* What the lines of an agent say.                                         *)
Says == {Said[line].snippet : line \in DOMAIN Said}

-----------------------------------------------------------------------------
(***************************************************************************)
(* What the rounds of the budget leave of a hand-off: findings that were   *)
(* there, and the first of the evidence, all of it unless that is told.    *)
(***************************************************************************)
Omissions(n) == [events : {n}, findings : Int, evidence : Int, open_questions : Int,
                 byte_truncated : BOOLEAN]
Handed(c, F, E, Q, n) ==
  {o \in [conclusion : {c}, findings : Seq(F), evidence : {SubSeq(E, 1, k) : k \in 0 .. Len(E)},
          open_questions : Seq(Q), omitted : Omissions(n)] :
     o.omitted.byte_truncated \/ o.evidence = E}

(* Findings with the evidence they mention.                                *)
Attached(E) == {[f EXCEPT !.evidence = Mentions(f, E)] : f \in SomeFindings}

-----------------------------------------------------------------------------
(***************************************************************************)
(* The values of a frozen prefix.  Those collected are inside of it and    *)
(* apart, and each match is among them or overlaps one of them.            *)
(***************************************************************************)
Moved(offset, r) == ByteRange(offset + r.start, offset + r.end)
Value(offset, kind, r) ==
  LET named == IF kind = "hash" THEN HashKind(r) ELSE kind
  IN  [kind |-> named, range |-> Moved(offset, r), redacted_sample |-> redacted_sample(named)]

(* The values after one match more, and those there can be.                *)
AddValue(found, offset, kind, r) ==
  IF \E f \in ToSet(found) : Overlaps(f.range, Moved(offset, r)) THEN found
  ELSE Append(found, Value(offset, kind, r))
Spans(room) == {r \in [start : Nat, end : Nat] : r.start < r.end /\ r.end <= room}
Values(offset, room) == {Value(offset, x[1], x[2]) : x \in ToSet(VolatileKinds) \X Spans(room)}
Apart(found) ==
  \A j, k \in DOMAIN found : j # k => ~Overlaps(found[j].range, found[k].range)
Founds(offset, room) == {s \in Seq(Values(offset, room)) : Apart(s)}

(* Matches one after the other; a match overlaps a value, or is one.       *)
Ahead(ranges) == \A k \in DOMAIN ranges : k > 1 => ranges[k - 1].end <= ranges[k].start
Touched(found, offset, r) == \E f \in ToSet(found) : Overlaps(f.range, Moved(offset, r))
Shows(found, offset, r) == \E f \in ToSet(found) : f.range = Moved(offset, r)

(* What is collected for all the kinds, those of the first one first.      *)
Collected(offset, matches) ==
  FoldLeft(LAMBDA findings, kind : Collect(findings, offset, kind, matches[kind]),
           <<>>, VolatileKinds)

-----------------------------------------------------------------------------
(***************************************************************************)
(* Hits.  A hit of a text names one of its lines by number and by what it  *)
(* holds; shifted and cut to a result it does the same of the whole text.  *)
(***************************************************************************)
HitsOf(text) == {Hit(i, text[i]) : i \in DOMAIN text}

(* Hits in the order of their lines.                                       *)
Rising(hits) == \A j, k \in DOMAIN hits : j < k => hits[j].line < hits[k].line

(* The hits h, moved by some lines.                                        *)
IsShift(got, h, t, S, by) ==
  /\ got.truncated = t /\ got.hits \in Seq([line : Nat, row : S]) /\ Len(got.hits) = Len(h)
  /\ \A k \in 1 .. Len(h) : got.hits[k].line = h[k].line + by /\ got.hits[k].row = h[k].row

(* What an operation finds: hits of the text, for some of them in order.   *)
Finds(got, text) == \E h \in Seq(HitsOf(text)) : \E t \in Int : got = Hits(h, t)
FindsInOrder(got, text) ==
  \E h \in Seq(HitsOf(text)) : \E t \in Int : got = Hits(h, t) /\ Rising(h)

-----------------------------------------------------------------------------
(***************************************************************************)
(* What sed prints.  Whether the range of a command is open behind a line  *)
(* is told by the lines up to it, and so is what the command picks.        *)
(***************************************************************************)
Fits(a, text, i) == addr_matches(a, i, i = Len(text), text[i])

(* A range opened at s is still open behind i.                             *)
GoesOn(cmd, text, s, i) ==
  IF cmd.a2.at = "line" THEN i < cmd.a2.n
  ELSE \A e \in 1 .. i : e > s => ~Fits(cmd.a2, text, e)
OpenAfter(cmd, text, i) == \E s \in 1 .. i : Fits(cmd.a1, text, s) /\ GoesOn(cmd, text, s, i)
InRange(cmd, text, i) == OpenAfter(cmd, text, i - 1) \/ Fits(cmd.a1, text, i)

(* No line of the text ends a range where it begins.                       *)
Apart2(cmd, text) ==
  cmd.a1.at = "re" /\ cmd.a2.at = "re" =>
    \A i \in DOMAIN text : ~({cmd.a1.re, cmd.a2.re} \subseteq Row[text[i]].patterns)

(* A script of one command that only prints, read at one line.             *)
Reads(R, text) ==
  [row : R, deleted : BOOLEAN, out : Seq(HitsOf(text)), active : [1 .. 1 -> BOOLEAN]]

(* A line is printed once by what matches it.                              *)
Sees(was, did, R, H, on, x, b) ==
  /\ was \in [row : R, deleted : BOOLEAN, out : Seq(H), active : [1 .. 1 -> BOOLEAN]]
  /\ was.out = b.out /\ was.active[1] = on
  /\ did \in [row : R, deleted : BOOLEAN, out : Seq(H), active : [1 .. 1 -> BOOLEAN]]
  /\ did.out = Append(b.out, x) /\ did.active[1] = on

(* One line more of a print.                                               *)
Prints(cmds, text, n, b, r) ==
  LET s == selected(cmds[1], b.active[1], n, n = Len(text), text[n])
  IN  /\ r.active[1] = s.active
      /\ r.out = IF s.picked THEN Append(b.out, Hit(n, text[n])) ELSE b.out

(* What the addresses of a command say of line i.                          *)
Selects(cmd, text, i, active, s) ==
  /\ s.active \in BOOLEAN
  /\ cmd.a1.at = "none" => (s.picked <=> ~cmd.negate)
  /\ cmd.a1.at # "none" /\ cmd.a2.at = "none" =>
       (s.picked <=> (Fits(cmd.a1, text, i) # cmd.negate))
  /\ cmd.a1.at # "none" /\ cmd.a2.at # "none" =>
       /\ s.picked <=> ((active \/ Fits(cmd.a1, text, i)) # cmd.negate)
       /\ s.active <=> IF active THEN ~Fits(cmd.a2, text, i)
                       ELSE /\ Fits(cmd.a1, text, i)
                            /\ ~(cmd.a2.at = "line" /\ cmd.a2.n <= i)

-----------------------------------------------------------------------------
(***************************************************************************)
(* Replacements in a prompt.  First what sorting makes of them: the same   *)
(* ones in another order, those that start at one place as they were.      *)
(***************************************************************************)
Edits == [range : [start : Nat, end : Nat], text : Seq(STRING)]

(* s is given, sorted, and o says where each one was.                      *)
Arranged(s, given, o) ==
  /\ DOMAIN s = 1 .. Len(given) /\ o \in [1 .. Len(given) -> 1 .. Len(given)]
  /\ \A k \in 1 .. Len(given) : s[k] = given[o[k]] /\ s[k] \in Edits
  /\ \A i \in 1 .. Len(given) : \E k \in 1 .. Len(given) : o[k] = i
  /\ \A j, k \in 1 .. Len(given) : j < k =>
       \/ s[j].range.start < s[k].range.start
       \/ s[j].range.start = s[k].range.start /\ o[j] < o[k]

-----------------------------------------------------------------------------
(***************************************************************************)
(* Sums.  What is summed over a set in any order is the total of a         *)
(* sequence that has every member once.                                    *)
(***************************************************************************)
Totals(h, n, F) ==
  /\ h \in [0 .. n -> Int] /\ h[0] = 0
  /\ \A i \in 1 .. n : h[i] = h[i - 1] + F[i]

(* The same sum over the members of a set, in some order of them.          *)
Only(o, n, F, p) == [i \in 1 .. n |-> IF o[i] \in p THEN F[o[i]] ELSE 0]
AnyOf(p) == CHOOSE x \in p : TRUE

(* The sum that picks any member first.                                    *)
Sums(it, n, F) ==
  it = [p \in SUBSET (1 .. n) |-> IF p = {} THEN 0 ELSE F[AnyOf(p)] + it[p \ {AnyOf(p)}]]

(* An order of all the places.                                             *)
Counts(o, n) ==
  /\ o \in [1 .. n -> 1 .. n] /\ \A i \in 1 .. n : \E k \in 1 .. n : o[k] = i
  /\ \A j, k \in 1 .. n : j # k => o[j] # o[k]
TotalOf(o, n, F, p) == (CHOOSE h : Totals(h, n, Only(o, n, F, p)))[n]

(* A total that any member can be taken from.                              *)
Splits(T, n, F) ==
  T[{}] = 0 /\ \A p \in SUBSET (1 .. n) : \A x \in p : T[p] = F[x] + T[p \ {x}]
Ways(o, n, F) == [p \in SUBSET (1 .. n) |-> TotalOf(o, n, F, p)]

(* How far a replacement before a byte moves it.                           *)
Moves(e, p) == IF e.range.end > p THEN 0 ELSE Len(e.text) - Cardinality(Bytes(e.range))

-----------------------------------------------------------------------------
(***************************************************************************)
(* The rewritten prompt: what is between the replacements, each behind the *)
(* end of the last one, and the replacements.                              *)
(***************************************************************************)
CursorAt(s, k) == IF k = 1 THEN 0 ELSE s[k - 1].range.end

(* Replacements one behind the other, in a prompt of some length.          *)
Chained(s, n, len) ==
  /\ DOMAIN s = 1 .. n
  /\ \A k \in 1 .. n : /\ s[k] \in Edits /\ CursorAt(s, k) <= s[k].range.start
                       /\ s[k].range.start <= s[k].range.end /\ s[k].range.end <= len

(* The text before the k-th replacement, for each k.                       *)
Pasted(g, s, n, input) ==
  /\ g \in [0 .. n -> Seq(STRING)] /\ g[0] = <<>>
  /\ \A i \in 1 .. n :
       g[i] = g[i - 1] \o SubSeq(input, CursorAt(s, i) + 1, s[i].range.start) \o s[i].text
Spliced(s, input) ==
  FoldLeft(LAMBDA made, k : made \o SubSeq(input, CursorAt(s, k) + 1, s[k].range.start) \o s[k].text,
           <<>>, [k \in DOMAIN s |-> k])

(* Where a byte ends up: as much further on as was gained before it.       *)
Gain(e) == Len(e.text) - (e.range.end - e.range.start)

(* Place q is behind the m-th replacement and before the next.             *)
LiesBetween(s, n, m, q) == CursorAt(s, m + 1) < q /\ (m < n => q <= s[m + 1].range.start)
Placed(text, s, n, h, input, i) ==
  \A m \in 0 .. n : \A q \in 1 .. Len(input) :
    m < i /\ LiesBetween(s, n, m, q) => q + h[m] \in 1 .. Len(text) /\ text[q + h[m]] = input[q]

-----------------------------------------------------------------------------
(***************************************************************************)
(* A byte that no replacement has lies between two of them; those before   *)
(* it are the first ones, and their gains are how far it is moved.         *)
(***************************************************************************)
InRow(s, n) == \A j, k \in 1 .. n : j < k => s[j].range.end <= s[k].range.start

(* Those that end by p are the first m.                                    *)
EndsBy(s, n, m, p) == \A k \in 1 .. n : s[k].range.end <= p <=> k <= m

-----------------------------------------------------------------------------
(***************************************************************************)
(* The replacements of a call: a rewrite has no problem with any of them,  *)
(* and where none is wrong there is no error.                              *)
(***************************************************************************)
Clean(input, zone, s, n) ==
  \A k \in 1 .. n :
    /\ IsValidFor(s[k].range, input) /\ ~Overlaps(s[k].range, zone.frozen_prefix)
    /\ \E block \in zone.mutable_blocks : Holds(block, s[k].range)
    /\ k > 1 => ~Overlaps(s[k - 1].range, s[k].range)

(* The zone of a call lies in its prompt.                                  *)
ZoneIsValid(input, zone) ==
  \A range \in {zone.frozen_prefix} \cup zone.mutable_blocks : IsValidFor(range, input)

-----------------------------------------------------------------------------
(***************************************************************************)
(* What the splice answers: refused, a panic, or rewritten.                *)
(***************************************************************************)
Rewritten(s, input) == Spliced(s, input) \o SubSeq(input, CursorAt(s, Len(s) + 1) + 1, Len(input))

(* A range is as it was.                                                   *)
Preserves(input, text, range) == BytesAt(input, range) = BytesAt(text, range)
===============================================================================
