-------------------------------- MODULE Lines --------------------------------
(***************************************************************************)
(* What the line compressors share.  A text is a sequence of lines, a      *)
(* compressed one a sequence of entries: a line of the text by its number, *)
(* or a marker with what it says.                                          *)
(***************************************************************************)
EXTENDS Integers, FiniteSetsExt, SequencesExt

\* CompressOutput (types.rs): whether something was dropped, and the text.
None == [form |-> "none", entries |-> <<>>]
Lossy(entries) == [form |-> "lossy", entries |-> entries]
Reformatted(entries) == [form |-> "reformatted", entries |-> entries]

Line(n) == [what |-> "line", n |-> n]
Omitted(n) == [what |-> "omitted", n |-> n]

FirstOf(S, n) == {i \in S : Cardinality({j \in S : j <= i}) <= n}
LastOf(S, n) == {i \in S : Cardinality({j \in S : j >= i}) <= n}

\* The n first of a set in an order.
Best(S, n, Before(_, _)) == {i \in S : Cardinality({j \in S : Before(j, i)}) < n}

Nth(S, k) == CHOOSE i \in S : Cardinality({j \in S : j <= i}) = k

InOrder(keep, n) ==
  LET kept == keep \cap (1..n) IN [k \in 1..Cardinality(kept) |-> Nth(kept, k)]

\* The items of a sequence that are at a set of places.
ItemsAt(s, places) ==
  LET order == InOrder(places, Len(s)) IN [k \in DOMAIN order |-> s[order[k]]]

\* A set in an order, which is given as a set of pairs.
Sorted(S, before) ==
  [k \in 1..Cardinality(S) |->
     CHOOSE i \in S : Cardinality({j \in S : <<j, i>> \in before}) = k - 1]

\* The last of the kept lines before line i, 0 when there is none.
Previous(keep, i) == Max({j \in keep : j < i} \cup {0})

OmittedIfAny(n) == IF n > 0 THEN <<Omitted(n)>> ELSE <<>>

\* Seeded fault: the lines after the last kept one are not counted.
WithGapsUpToLast(keep, n) ==
  LET Shown(i) == OmittedIfAny(i - Previous(keep, i) - 1) \o <<Line(i)>>
  IN  FoldLeft(LAMBDA out, i : out \o Shown(i), <<>>, InOrder(keep, n))

(***************************************************************************)
(* The kept ones of n lines in order, and a marker with the number of      *)
(* lines wherever some were left out.                                      *)
(***************************************************************************)
WithGaps(keep, n) ==
  LET Shown(i) == OmittedIfAny(i - Previous(keep, i) - 1) \o <<Line(i)>>
  IN  FoldLeft(LAMBDA out, i : out \o Shown(i), <<>>, InOrder(keep, n))
        \o OmittedIfAny(n - Previous(keep, n + 1))

LinesShown(entries) == {e.n : e \in {x \in ToSet(entries) : x.what = "line"}}

\* The length of a text of these entries: its lines, and what it says besides.
Length(entries, LineLength(_), OtherLength) ==
  MapThenSumSet(LAMBDA i : IF entries[i].what = "line" THEN LineLength(entries[i].n)
                           ELSE OtherLength, DOMAIN entries)
=============================================================================
