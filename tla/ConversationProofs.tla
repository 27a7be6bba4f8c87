--------------------------- MODULE ConversationProofs ---------------------------
(***************************************************************************)
(* For every length of conversation, every number of rounds and every      *)
(* place a round may cut at: nothing said is forgotten unless the host has *)
(* consented, no result is parted from its call, and there is one summary. *)
(*                                                                         *)
(* The proofs do not compute where a cut falls.  That it falls on a place  *)
(* between two messages is enough: what sanitising and the upsert make of  *)
(* the parts is related to the transcript by an order-preserving map of    *)
(* places (Within), along which the invariants carry over.                 *)
(***************************************************************************)
EXTENDS Conversation, FiniteSetTheorems, TLAPS

(***************************************************************************)
(* Rank numbers the elements of a finite set of naturals 1, 2, ... in      *)
(* order: it is a bijection onto 1 .. Cardinality(S).                      *)
(***************************************************************************)
LEMMA RankRange ==
  ASSUME NEW n \in Nat, NEW S, S \subseteq 1 .. n, NEW i \in S
  PROVE  /\ IsFiniteSet(S)
         /\ Cardinality(S) \in Nat
         /\ Cardinality(S) <= n
         /\ Rank(S, i) \in 1 .. Cardinality(S)
<1> DEFINE B == {k \in S : k <= i}
<1>1. IsFiniteSet(1 .. n) /\ Cardinality(1 .. n) = n
  BY FS_Interval
<1>2. IsFiniteSet(S) /\ Cardinality(S) \in Nat /\ Cardinality(S) <= n
  BY <1>1, FS_Subset, FS_CardinalityType
<1>3. B \subseteq S
  OBVIOUS
<1>4. IsFiniteSet(B) /\ Cardinality(B) \in Nat /\ Cardinality(B) <= Cardinality(S)
  BY <1>2, <1>3, FS_Subset, FS_CardinalityType
<1>5. i \in B
  OBVIOUS
<1>6. Cardinality(B) # 0
  BY <1>4, <1>5, FS_EmptySet
<1> QED BY <1>2, <1>4, <1>6 DEF Rank

LEMMA RankInjective ==
  ASSUME NEW n \in Nat, NEW S, S \subseteq 1 .. n, NEW i \in S, NEW j \in S, i < j
  PROVE  Rank(S, i) < Rank(S, j)
<1> DEFINE Up(k) == {x \in S : x <= k}
<1>1. IsFiniteSet(S)
  BY RankRange
<1>2. IsFiniteSet(Up(j))
  <2>1. Up(j) \subseteq S
    OBVIOUS
  <2> QED BY <1>1, <2>1, FS_Subset
<1>3. Up(i) \subseteq Up(j) /\ Up(i) # Up(j)
  <2>1. j \in Up(j) /\ j \notin Up(i)
    OBVIOUS
  <2>2. ASSUME NEW x \in S, x <= i
        PROVE  x <= j
    <3>1. x \in Int /\ i \in Int /\ j \in Int
      OBVIOUS
    <3> QED BY <2>2, <3>1
  <2> QED BY <2>1, <2>2
<1>4. /\ Cardinality(Up(i)) <= Cardinality(Up(j))
      /\ Cardinality(Up(i)) = Cardinality(Up(j)) => Up(i) = Up(j)
      /\ Cardinality(Up(i)) \in Nat /\ Cardinality(Up(j)) \in Nat
  <2> HIDE DEF Up
  <2> QED BY <1>2, <1>3, FS_Subset, FS_CardinalityType
<1>5. Cardinality(Up(i)) < Cardinality(Up(j))
  BY <1>3, <1>4
<1> QED BY <1>5 DEF Rank

LEMMA RankOnto ==
  ASSUME NEW n \in Nat, NEW S, S \subseteq 1 .. n, NEW j \in 1 .. Cardinality(S)
  PROVE  \E i \in S : Rank(S, i) = j
<1> SUFFICES ASSUME \A i \in S : Rank(S, i) # j
             PROVE  FALSE
  OBVIOUS
<1> DEFINE c == Cardinality(S)
           T == (1 .. c) \ {j}
           f == [i \in S |-> Rank(S, i)]
<1>1. IsFiniteSet(S) /\ c \in Nat
  <2>1. S # {}
    BY FS_EmptySet
  <2> QED BY <2>1, RankRange
<1>2. f \in [S -> T]
  BY RankRange
<1>3. IsFiniteSet(1 .. c) /\ Cardinality(1 .. c) = c
  BY <1>1, FS_Interval
<1>4. IsFiniteSet(T) /\ Cardinality(T) = c - 1
  BY <1>3, FS_RemoveElement
<1>5. Cardinality(T) < Cardinality(S)
  BY <1>1, <1>4
<1>6. \E x, y \in S : x # y /\ f[x] = f[y]
  <2> HIDE DEF T, f, c
  <2> QED BY <1>1, <1>2, <1>4, <1>5, FS_PigeonHole
<1>7. PICK x \in S, y \in S : x # y /\ Rank(S, x) = Rank(S, y)
  BY <1>6
<1>8. Rank(S, x) \in Nat /\ Rank(S, y) \in Nat
  <2>1. /\ Rank(S, x) \in 1 .. Cardinality(S)
        /\ Rank(S, y) \in 1 .. Cardinality(S)
    BY RankRange
  <2> QED BY <2>1
<1>9. x < y \/ y < x
  BY <1>7
<1>10. CASE x < y
  <2>1. Rank(S, x) < Rank(S, y)
    BY <1>10, RankInjective
  <2> QED BY <1>7, <1>8, <2>1
<1>11. CASE y < x
  <2>1. Rank(S, y) < Rank(S, x)
    BY <1>11, RankInjective
  <2> QED BY <1>7, <1>8, <2>1
<1> QED BY <1>9, <1>10, <1>11

(* The first and the last of a set of places.                              *)
LEMMA MinOfPlaces ==
  ASSUME NEW n \in Nat, NEW S, S \subseteq 1 .. n, S # {}
  PROVE  Min(S) \in S /\ \A y \in S : Min(S) <= y
<1>1. IsFiniteSet(S) /\ Cardinality(S) \in Nat /\ 1 \in 1 .. Cardinality(S)
  <2>1. PICK i \in S : TRUE
    OBVIOUS
  <2>2. Rank(S, i) \in 1 .. Cardinality(S) /\ IsFiniteSet(S) /\ Cardinality(S) \in Nat
    BY RankRange
  <2> QED BY <2>2
<1>2. PICK x \in S : Rank(S, x) = 1
  BY <1>1, RankOnto
<1>3. \A y \in S : x <= y
  <2> TAKE y \in S
  <2> SUFFICES ASSUME y < x PROVE FALSE
    BY DEF Rank
  <2>1. Rank(S, y) < Rank(S, x)
    BY RankInjective
  <2>2. Rank(S, y) \in 1 .. Cardinality(S)
    BY RankRange
  <2> QED BY <1>1, <1>2, <2>1, <2>2
<1> QED BY <1>3 DEF Min

LEMMA MaxOfPlaces ==
  ASSUME NEW n \in Nat, NEW S, S \subseteq 1 .. n, S # {}
  PROVE  Max(S) \in S /\ \A y \in S : y <= Max(S)
<1>1. IsFiniteSet(S) /\ Cardinality(S) \in Nat /\ Cardinality(S) \in 1 .. Cardinality(S)
  <2>1. PICK i \in S : TRUE
    OBVIOUS
  <2>2. Rank(S, i) \in 1 .. Cardinality(S) /\ IsFiniteSet(S) /\ Cardinality(S) \in Nat
    BY RankRange
  <2> QED BY <2>2
<1>2. PICK x \in S : Rank(S, x) = Cardinality(S)
  BY <1>1, RankOnto
<1>3. \A y \in S : y <= x
  <2> TAKE y \in S
  <2> SUFFICES ASSUME x < y PROVE FALSE
    BY DEF Rank
  <2>1. Rank(S, x) < Rank(S, y)
    BY RankInjective
  <2>2. Rank(S, y) \in 1 .. Cardinality(S)
    BY RankRange
  <2> QED BY <1>1, <1>2, <2>1, <2>2
<1> QED BY <1>3 DEF Max

-----------------------------------------------------------------------------
(***************************************************************************)
(* Sequences of whatever they hold.                                        *)
(***************************************************************************)
IsSeq(s) == s \in Seq(ToSet(s))

LEMMA SeqFacts ==
  ASSUME NEW s, IsSeq(s)
  PROVE  /\ Len(s) \in Nat /\ DOMAIN s = 1 .. Len(s)
         /\ ToSet(s) = {s[i] : i \in 1 .. Len(s)}
         /\ s = [i \in 1 .. Len(s) |-> s[i]]
  BY DEF IsSeq, ToSet

LEMMA SeqIs ==
  ASSUME NEW n \in Nat, NEW s, s = [i \in 1 .. n |-> s[i]]
  PROVE  IsSeq(s) /\ Len(s) = n
<1>1. DOMAIN s = 1 .. n
  OBVIOUS
<1>2. \A i \in 1 .. n : s[i] \in ToSet(s)
  BY <1>1 DEF ToSet
<1>3. s \in [1 .. n -> ToSet(s)]
  <2> DEFINE S == ToSet(s)
  <2>1. \A i \in 1 .. n : s[i] \in S
    BY <1>2
  <2> HIDE DEF S
  <2>2. s \in [1 .. n -> S]
    BY <2>1
  <2> QED BY <2>2 DEF S
<1>4. s \in Seq(ToSet(s))
  <2> DEFINE S == ToSet(s)
  <2>1. s \in [1 .. n -> S]
    BY <1>3
  <2> HIDE DEF S
  <2>2. s \in Seq(S)
    BY <2>1
  <2> QED BY <2>2 DEF S
<1>5. Len(s) = n
  BY <1>1, <1>4
<1> QED BY <1>4, <1>5 DEF IsSeq

LEMMA SeqOver ==
  ASSUME NEW U, NEW s \in Seq(U)
  PROVE  IsSeq(s)
<1> DEFINE n == Len(s)
<1>1. s = [i \in 1 .. n |-> s[i]] /\ n \in Nat
  OBVIOUS
<1> HIDE DEF n
<1> QED BY <1>1, SeqIs

LEMMA SeqEmpty ==
  ASSUME NEW s, IsSeq(s)
  PROVE  s # <<>> <=> 1 \in DOMAIN s
<1>1. Len(s) \in Nat /\ DOMAIN s = 1 .. Len(s) /\ s = [i \in 1 .. Len(s) |-> s[i]]
  BY SeqFacts
<1>2. CASE Len(s) = 0
  <2>1. s = [i \in 1 .. 0 |-> s[i]]
    BY <1>1, <1>2
  <2>2. s = <<>> /\ DOMAIN s = {}
    BY <2>1
  <2> QED BY <2>2
<1>3. CASE Len(s) # 0
  <2>1. 1 \in DOMAIN s
    BY <1>1, <1>3
  <2> QED BY <2>1
<1> QED BY <1>2, <1>3

(* What is picked of a sequence, and where it was.                         *)
LEMMA PickedFacts ==
  ASSUME NEW s, IsSeq(s), NEW S, S \subseteq DOMAIN s
  PROVE  /\ IsSeq(Picked(s, S))
         /\ \E at \in [DOMAIN Picked(s, S) -> S] :
              /\ \A j \in DOMAIN Picked(s, S) : Picked(s, S)[j] = s[at[j]]
              /\ \A i, j \in DOMAIN Picked(s, S) : i < j => at[i] < at[j]
              /\ \A i \in S : \E j \in DOMAIN Picked(s, S) : at[j] = i
              /\ \A j \in DOMAIN Picked(s, S) : 1 .. j \subseteq S => at[j] = j
<1> DEFINE n == Len(s)
           c == Cardinality(S)
           place(j) == CHOOSE i \in S : Rank(S, i) = j
           at == [j \in 1 .. c |-> place(j)]
           p == Picked(s, S)
<1>1. n \in Nat /\ S \subseteq 1 .. n
  BY SeqFacts
<1> HIDE DEF n
<1>2. \A i \in S : i \in Int
  BY <1>1
<1>3. c \in Nat
  <2>1. IsFiniteSet(1 .. n)
    BY <1>1, FS_Interval
  <2> QED BY <1>1, <2>1, FS_Subset, FS_CardinalityType
<1>4. \A j \in 1 .. c : place(j) \in S /\ Rank(S, place(j)) = j
  BY <1>1, RankOnto
<1>5. \A i \in S : Rank(S, i) \in 1 .. c
  BY <1>1, RankRange
<1>6. \A i, j \in S : i < j => Rank(S, i) < Rank(S, j)
  BY <1>1, RankInjective
<1>7. p = [j \in 1 .. c |-> s[place(j)]]
  BY DEF Picked
<1> HIDE DEF place, c
<1>8. DOMAIN p = 1 .. c /\ \A j \in 1 .. c : p[j] = s[place(j)]
  BY <1>7
<1>9. IsSeq(p)
  <2> HIDE DEF p
  <2>1. p = [j \in 1 .. c |-> p[j]]
    BY <1>7
  <2> QED BY <1>3, <2>1, SeqIs
<1>10. \A i, j \in 1 .. c : i < j => place(i) < place(j)
  <2> TAKE i, j \in 1 .. c
  <2> HAVE i < j
  <2>1. /\ place(i) \in S /\ place(j) \in S
        /\ Rank(S, place(i)) = i /\ Rank(S, place(j)) = j
    BY <1>4
  <2>2. place(i) # place(j)
    BY <2>1
  <2>3. ~(place(j) < place(i))
    BY <1>3, <1>6, <2>1
  <2>4. place(i) \in Int /\ place(j) \in Int
    BY <1>2, <2>1
  <2> QED BY <2>2, <2>3, <2>4
<1>11. \A i, j \in S : Rank(S, i) = Rank(S, j) => i = j
  <2> TAKE i, j \in S
  <2> HAVE Rank(S, i) = Rank(S, j)
  <2>1. Rank(S, i) \in Int /\ i \in Int /\ j \in Int
    BY <1>2, <1>3, <1>5
  <2>2. ~(i < j) /\ ~(j < i)
    BY <1>6, <2>1
  <2> QED BY <2>1, <2>2
<1>12. \A i \in S : \E j \in 1 .. c : place(j) = i
  BY <1>4, <1>5, <1>11
<1>13. \A j \in 1 .. c : 1 .. j \subseteq S => place(j) = j
  <2> TAKE j \in 1 .. c
  <2> HAVE 1 .. j \subseteq S
  <2>1. j \in Nat /\ j \in S
    BY <1>3
  <2>2. {k \in S : k <= j} = 1 .. j
    <3>1. \A k \in S : k <= j => k \in 1 .. j
      BY <1>1, <2>1
    <3> QED BY <2>1, <3>1
  <2>3. Rank(S, j) = j
    <3>1. Cardinality(1 .. j) = j
      BY <2>1, FS_Interval
    <3> QED BY <2>2, <3>1 DEF Rank
  <2> QED BY <1>4, <1>11, <2>1, <2>3
<1> QED
  <2>1. at \in [DOMAIN p -> S]
    BY <1>4, <1>8
  <2>2. \A j \in 1 .. c : at[j] = place(j)
    OBVIOUS
  <2> HIDE DEF at, p
  <2>3. /\ \A j \in DOMAIN p : p[j] = s[at[j]]
        /\ \A i, j \in DOMAIN p : i < j => at[i] < at[j]
    BY <1>8, <1>10, <2>2
  <2>4. \A i \in S : \E j \in DOMAIN p : at[j] = i
    BY <1>8, <1>12, <2>2
  <2>5. \A j \in DOMAIN p : 1 .. j \subseteq S => at[j] = j
    BY <1>8, <1>13, <2>2
  <2>6. \E f \in [DOMAIN p -> S] :
          /\ \A j \in DOMAIN p : p[j] = s[f[j]]
          /\ \A i, j \in DOMAIN p : i < j => f[i] < f[j]
          /\ \A i \in S : \E j \in DOMAIN p : f[j] = i
          /\ \A j \in DOMAIN p : 1 .. j \subseteq S => f[j] = j
    BY <2>1, <2>3, <2>4, <2>5
  <2> QED BY <1>9, <2>6 DEF p

LEMMA PickedAll ==
  ASSUME NEW s, IsSeq(s)
  PROVE  Picked(s, DOMAIN s) = s
<1> DEFINE n == Len(s)
           p == Picked(s, DOMAIN s)
<1>1. n \in Nat /\ DOMAIN s = 1 .. n /\ s = [i \in 1 .. n |-> s[i]]
  BY SeqFacts
<1>2. IsSeq(p)
  BY PickedFacts
<1>3. PICK at \in [DOMAIN p -> DOMAIN s] :
        /\ \A j \in DOMAIN p : p[j] = s[at[j]]
        /\ \A i, j \in DOMAIN p : i < j => at[i] < at[j]
        /\ \A i \in DOMAIN s : \E j \in DOMAIN p : at[j] = i
        /\ \A j \in DOMAIN p : 1 .. j \subseteq DOMAIN s => at[j] = j
  <2> DEFINE S == DOMAIN s
  <2>1. S \subseteq DOMAIN s
    OBVIOUS
  <2> QED BY <2>1, PickedFacts
<1> HIDE DEF n, p
<1>4. DOMAIN p = 1 .. Len(p) /\ Len(p) \in Nat /\ p = [i \in 1 .. Len(p) |-> p[i]]
  BY <1>2, SeqFacts
<1>5. DOMAIN p = 1 .. n /\ \A j \in 1 .. n : p[j] = s[j]
  <2> DEFINE m == Len(p)
  <2>1. m \in Nat /\ DOMAIN p = 1 .. m
    BY <1>4
  <2> HIDE DEF m
  <2>2. \A j \in DOMAIN p : j <= n => at[j] = j
    <3> TAKE j \in DOMAIN p
    <3> HAVE j <= n
    <3>1. 1 .. j \subseteq 1 .. n
      BY <1>1, <2>1
    <3> QED BY <1>1, <1>3, <3>1
  <2>3. m <= n
    <3> SUFFICES ASSUME n < m PROVE FALSE
      BY <1>1, <2>1
    <3>1. at[n + 1] \in 1 .. n /\ n + 1 \in 1 .. m
      BY <1>1, <1>3, <2>1
    <3>2. n \in 1 .. m /\ n < n + 1 /\ n <= n
      BY <1>1, <2>1, <3>1
    <3>3. at[n] = n /\ at[n] < at[n + 1]
      BY <1>3, <2>1, <2>2, <3>1, <3>2
    <3> QED BY <1>1, <3>1, <3>3
  <2>4. n <= m
    <3> SUFFICES ASSUME m < n PROVE FALSE
      BY <1>1, <2>1
    <3>1. n \in 1 .. n
      BY <1>1, <2>1
    <3>2. PICK j \in 1 .. m : at[j] = n
      BY <1>1, <1>3, <2>1, <3>1
    <3>3. at[j] = j
      BY <1>1, <2>1, <2>2, <3>2
    <3> QED BY <1>1, <2>1, <3>2, <3>3
  <2>5. m = n
    BY <1>1, <2>1, <2>3, <2>4
  <2>6. \A j \in 1 .. n : at[j] = j
    BY <1>1, <2>1, <2>2, <2>5
  <2> QED BY <1>3, <2>1, <2>5, <2>6
<1>6. p = s
  BY <1>1, <1>4, <1>5
<1> QED BY <1>6 DEF p

-----------------------------------------------------------------------------
(***************************************************************************)
(* Messages as the host and the library make them.                         *)
(***************************************************************************)
IsContent(c) ==
  /\ c = [says |-> c.says, digest |-> c.digest]
  /\ c.says \in Contents /\ IsSeq(c.digest)

IsAnswer(x) == x = [id |-> x.id, content |-> x.content] /\ IsContent(x.content)

Proper(m) ==
  /\ m.kind \in {"chat", "calls", "results"}
  /\ m.kind = "chat" =>
       /\ m.n \in Nat /\ m.is_compaction_summary \in BOOLEAN
       /\ m.is_compaction_summary => m.n = 0 /\ m.role = "system"
  /\ m.kind = "calls" => m \in [kind : {"calls"}, ids : SUBSET Nat, n : Nat]
  /\ m.kind = "results" =>
       /\ m = ToolResults(m.results) /\ IsSeq(m.results)
       /\ \A j \in DOMAIN m.results : IsAnswer(m.results[j])

Formed(ms) == IsSeq(ms) /\ \A i \in DOMAIN ms : Proper(ms[i])

(* No call comes after one of its results.                                 *)
Ordered(ms) ==
  \A i, j \in DOMAIN ms :
    /\ ms[i].kind = "calls" /\ ms[j].kind = "results"
    /\ ms[i].ids \cap ResultIds(ms[j]) # {}
    => i < j

Filled(ms) == \A i \in DOMAIN ms : ms[i].kind = "results" => ms[i].results # <<>>

(* Nothing but the system's messages comes before a summary.               *)
Seated(ms) ==
  \A i \in SummariesOf(ms) : \A j \in DOMAIN ms :
    j < i => ms[j].kind = "chat" /\ ms[j].role = "system"

(***************************************************************************)
(* What sanitising leaves of a message, and a transcript made of messages  *)
(* of another, or of what is left of them, in their order.                 *)
(***************************************************************************)
Part(m, of) ==
  /\ m.kind = of.kind
  /\ m.kind = "chat" => m = of
  /\ m.kind = "calls" => m.n = of.n /\ m.ids \subseteq of.ids
  /\ m.kind = "results" => ResultIds(m) \subseteq ResultIds(of)

Along(v, u, at) ==
  /\ at \in [DOMAIN v -> DOMAIN u]
  /\ \A i, j \in DOMAIN v : i < j => at[i] < at[j]
  /\ \A i \in DOMAIN v : Part(v[i], u[at[i]])

Within(v, u) == \E at : Along(v, u, at)

LEMMA FormedFacts ==
  ASSUME NEW ms, Formed(ms)
  PROVE  /\ Len(ms) \in Nat /\ DOMAIN ms = 1 .. Len(ms)
         /\ \A i \in DOMAIN ms : Proper(ms[i])
         /\ \A i \in DOMAIN ms : i \in Int
<1>1. Len(ms) \in Nat /\ DOMAIN ms = 1 .. Len(ms)
  BY SeqFacts DEF Formed
<1>2. \A i \in 1 .. Len(ms) : i \in Int
  OBVIOUS
<1> QED BY <1>1, <1>2 DEF Formed

LEMMA IdsOf ==
  ASSUME NEW ms
  PROVE  /\ \A id : id \in call_ids(ms) <=>
               \E i \in DOMAIN ms : ms[i].kind = "calls" /\ id \in ms[i].ids
         /\ \A id : id \in result_ids(ms) <=>
               \E i \in DOMAIN ms : ms[i].kind = "results" /\ id \in ResultIds(ms[i])
         /\ \A n : n \in Texts(ms) <=>
               n # 0 /\ \E i \in DOMAIN ms : ms[i].kind # "results" /\ ms[i].n = n
<1>1. \A id : id \in call_ids(ms) <=>
        \E i \in DOMAIN ms : ms[i].kind = "calls" /\ id \in ms[i].ids
  BY DEF call_ids
<1>2. \A id : id \in result_ids(ms) <=>
        \E i \in DOMAIN ms : ms[i].kind = "results" /\ id \in ResultIds(ms[i])
  BY DEF result_ids
<1>3. \A n : n \in Texts(ms) <=>
        n # 0 /\ \E i \in DOMAIN ms : ms[i].kind # "results" /\ ms[i].n = n
  BY DEF Texts, ToSet
<1> QED BY <1>1, <1>2, <1>3

(* A prompt shows a line of every text there is in what it is made from.   *)
LEMMA ShownLines ==
  ASSUME NEW ms, NEW n \in Texts(ms)
  PROVE  Line(n) \subseteq Shown(ms)
<1>1. PICK m \in ToSet(ms) : m.kind # "results" /\ m.n = n /\ n # 0
  BY DEF Texts
<1>2. Line(n) \subseteq Rendered(m)
  BY <1>1 DEF Rendered
<1>3. Rendered(m) \subseteq Shown(ms)
  BY <1>1 DEF Shown
<1> QED BY <1>2, <1>3

LEMMA WithinIds ==
  ASSUME NEW v, NEW u, Formed(v), Within(v, u)
  PROVE  /\ call_ids(v) \subseteq call_ids(u)
         /\ result_ids(v) \subseteq result_ids(u)
         /\ Texts(v) \subseteq Texts(u)
<1>1. PICK at : Along(v, u, at)
  BY DEF Within
<1>2. /\ \A i \in DOMAIN v : at[i] \in DOMAIN u
      /\ \A i \in DOMAIN v : Part(v[i], u[at[i]])
  BY <1>1 DEF Along
<1>3. ASSUME NEW id \in call_ids(v) PROVE id \in call_ids(u)
  BY <1>2, IdsOf DEF Part
<1>4. ASSUME NEW id \in result_ids(v) PROVE id \in result_ids(u)
  BY <1>2, IdsOf DEF Part
<1>5. ASSUME NEW n \in Texts(v) PROVE n \in Texts(u)
  <2>1. PICK i \in DOMAIN v : v[i].kind # "results" /\ v[i].n = n
    BY IdsOf
  <2>2. v[i].kind \in {"chat", "calls"}
    BY <2>1, FormedFacts DEF Proper
  <2>3. u[at[i]].kind # "results" /\ u[at[i]].n = n
    BY <1>2, <2>1, <2>2 DEF Part
  <2>4. n # 0 /\ at[i] \in DOMAIN u
    BY <1>2, IdsOf
  <2> QED BY <2>3, <2>4, IdsOf
<1> QED BY <1>3, <1>4, <1>5

LEMMA WithinKeepsOrder ==
  ASSUME NEW v, NEW u, Formed(v), Formed(u), Within(v, u), Ordered(u)
  PROVE  Ordered(v)
<1>1. PICK at : Along(v, u, at)
  BY DEF Within
<1>2. /\ \A i \in DOMAIN v : at[i] \in DOMAIN u
      /\ \A i \in DOMAIN v : Part(v[i], u[at[i]])
      /\ \A i, j \in DOMAIN v : i < j => at[i] < at[j]
  BY <1>1 DEF Along
<1>3. SUFFICES ASSUME NEW i \in DOMAIN v, NEW j \in DOMAIN v,
                      v[i].kind = "calls", v[j].kind = "results",
                      v[i].ids \cap ResultIds(v[j]) # {}
               PROVE  i < j
  BY DEF Ordered
<1>4. /\ u[at[i]].kind = "calls" /\ u[at[j]].kind = "results"
      /\ u[at[i]].ids \cap ResultIds(u[at[j]]) # {}
  BY <1>2, <1>3 DEF Part
<1>5. at[i] < at[j]
  BY <1>2, <1>4 DEF Ordered
<1>6. i \in Int /\ j \in Int /\ at[i] \in Int /\ at[j] \in Int
  BY <1>2, FormedFacts
<1>7. ~(j < i) /\ i # j
  BY <1>2, <1>5, <1>6
<1> QED BY <1>6, <1>7

LEMMA WithinKeepsSeat ==
  ASSUME NEW v, NEW u, Within(v, u), Seated(u)
  PROVE  Seated(v)
<1>1. PICK at : Along(v, u, at)
  BY DEF Within
<1>2. /\ \A i \in DOMAIN v : at[i] \in DOMAIN u
      /\ \A i \in DOMAIN v : Part(v[i], u[at[i]])
      /\ \A i, j \in DOMAIN v : i < j => at[i] < at[j]
  BY <1>1 DEF Along
<1>3. SUFFICES ASSUME NEW i \in SummariesOf(v), NEW j \in DOMAIN v, j < i
               PROVE  v[j].kind = "chat" /\ v[j].role = "system"
  BY DEF Seated
<1>4. i \in DOMAIN v /\ at[i] \in SummariesOf(u) /\ at[j] < at[i]
  BY <1>2, <1>3 DEF SummariesOf, is_compaction_summary_message, Part
<1>5. u[at[j]].kind = "chat" /\ u[at[j]].role = "system"
  BY <1>2, <1>4 DEF Seated
<1> QED BY <1>2, <1>5 DEF Part

LEMMA WithinChains ==
  ASSUME NEW v, NEW w, NEW u, Within(v, w), Within(w, u)
  PROVE  Within(v, u)
<1>1. PICK a : Along(v, w, a)
  BY DEF Within
<1>2. PICK b : Along(w, u, b)
  BY DEF Within
<1> DEFINE c == [i \in DOMAIN v |-> b[a[i]]]
<1>3. /\ \A i \in DOMAIN v : a[i] \in DOMAIN w /\ Part(v[i], w[a[i]])
      /\ \A i, j \in DOMAIN v : i < j => a[i] < a[j]
  BY <1>1 DEF Along
<1>4. /\ \A i \in DOMAIN w : b[i] \in DOMAIN u /\ Part(w[i], u[b[i]])
      /\ \A i, j \in DOMAIN w : i < j => b[i] < b[j]
  BY <1>2 DEF Along
<1>5. c \in [DOMAIN v -> DOMAIN u] /\ \A i \in DOMAIN v : c[i] = b[a[i]]
  BY <1>3, <1>4
<1> HIDE DEF c
<1>6. \A i, j \in DOMAIN v : i < j => c[i] < c[j]
  BY <1>3, <1>4, <1>5
<1>7. \A i \in DOMAIN v : Part(v[i], u[c[i]])
  <2> TAKE i \in DOMAIN v
  <2>1. Part(v[i], w[a[i]]) /\ Part(w[a[i]], u[c[i]])
    BY <1>3, <1>4, <1>5
  <2> QED BY <2>1 DEF Part
<1>8. Along(v, u, c)
  BY <1>5, <1>6, <1>7 DEF Along
<1> QED BY <1>8 DEF Within

-----------------------------------------------------------------------------
(***************************************************************************)
(* sanitize_orphan_tool_messages.                                          *)
(***************************************************************************)
Cleaned(ms, m) ==
  CASE m.kind = "chat"  -> m
    [] m.kind = "calls" -> [m EXCEPT !.ids = @ \cap result_ids(ms)]
    [] OTHER -> ToolResults(Picked(m.results,
                  {j \in DOMAIN m.results : m.results[j].id \in call_ids(ms)}))

Stays(m) ==
  CASE m.kind = "chat"  -> TRUE
    [] m.kind = "calls" -> m.ids # {} \/ m.n # 0
    [] OTHER -> m.results # <<>>

LEMMA SanitizeIs ==
  ASSUME NEW ms
  PROVE  Sanitize(ms) = Picked([i \in DOMAIN ms |-> Cleaned(ms, ms[i])],
                               {i \in DOMAIN ms : Stays(Cleaned(ms, ms[i]))})
  BY DEF Sanitize, Cleaned, Stays

LEMMA CleanedFacts ==
  ASSUME NEW ms, NEW m, Proper(m)
  PROVE  /\ Proper(Cleaned(ms, m)) /\ Part(Cleaned(ms, m), m)
         /\ m.kind = "chat" => Stays(Cleaned(ms, m))
         /\ m.kind = "calls" =>
              /\ Cleaned(ms, m).ids = m.ids \cap result_ids(ms)
              /\ Stays(Cleaned(ms, m)) <=> Cleaned(ms, m).ids # {} \/ Cleaned(ms, m).n # 0
         /\ m.kind = "results" =>
              /\ ResultIds(Cleaned(ms, m)) = ResultIds(m) \cap call_ids(ms)
              /\ Stays(Cleaned(ms, m)) <=> Cleaned(ms, m).results # <<>>
<1> DEFINE c == Cleaned(ms, m)
<1>1. CASE m.kind = "chat"
  <2>1. c = m
    BY <1>1 DEF Cleaned
  <2> HIDE DEF c
  <2> QED BY <1>1, <2>1 DEF c, Part, Stays
<1>2. CASE m.kind = "calls"
  <2>1. m \in [kind : {"calls"}, ids : SUBSET Nat, n : Nat]
    BY <1>2 DEF Proper
  <2>2. c = [m EXCEPT !.ids = @ \cap result_ids(ms)]
    BY <1>2 DEF Cleaned
  <2>3. /\ c \in [kind : {"calls"}, ids : SUBSET Nat, n : Nat]
        /\ c.kind = "calls" /\ c.n = m.n /\ c.ids = m.ids \cap result_ids(ms)
    <3> HIDE DEF c
    <3> QED BY <2>1, <2>2
  <2> HIDE DEF c
  <2>4. Proper(c) /\ Part(c, m)
    BY <1>2, <2>3 DEF Proper, Part
  <2>5. Stays(c) <=> c.ids # {} \/ c.n # 0
    BY <2>3 DEF Stays
  <2> QED BY <1>2, <2>3, <2>4, <2>5 DEF c
<1>3. CASE m.kind = "results"
  <2> DEFINE S == {j \in DOMAIN m.results : m.results[j].id \in call_ids(ms)}
             p == Picked(m.results, S)
  <2>1. c = ToolResults(p) /\ IsSeq(m.results)
    BY <1>3 DEF Cleaned, Proper
  <2>2. c.kind = "results" /\ c.results = p
    <3> HIDE DEF p, c
    <3> QED BY <2>1 DEF ToolResults
  <2>3. IsSeq(p)
    BY <2>1, PickedFacts
  <2>4. PICK at \in [DOMAIN p -> S] :
          /\ \A j \in DOMAIN p : p[j] = m.results[at[j]]
          /\ \A i \in S : \E j \in DOMAIN p : at[j] = i
    <3>1. S \subseteq DOMAIN m.results
      OBVIOUS
    <3> HIDE DEF S
    <3> QED BY <2>1, <3>1, PickedFacts
  <2>8. \A j \in DOMAIN p : IsAnswer(p[j])
    <3>1. S \subseteq DOMAIN m.results /\ \A i \in DOMAIN m.results : IsAnswer(m.results[i])
      BY <1>3 DEF Proper
    <3> HIDE DEF S, p
    <3> QED BY <2>4, <3>1
  <2>5. ResultIds(c) = ResultIds(m) \cap call_ids(ms)
    <3>1. ASSUME NEW id \in ResultIds(c) PROVE id \in ResultIds(m) \cap call_ids(ms)
      <4>1. PICK j \in DOMAIN p : p[j].id = id
        <5> HIDE DEF p, c
        <5> QED BY <2>2 DEF ResultIds, ToSet
      <4>2. at[j] \in S /\ p[j] = m.results[at[j]]
        <5> HIDE DEF p, S
        <5> QED BY <2>4
      <4>3. at[j] \in DOMAIN m.results /\ m.results[at[j]].id \in call_ids(ms)
        BY <4>2
      <4> QED BY <4>1, <4>2, <4>3 DEF ResultIds, ToSet
    <3>2. ASSUME NEW id \in ResultIds(m) \cap call_ids(ms) PROVE id \in ResultIds(c)
      <4>1. PICK i \in DOMAIN m.results : m.results[i].id = id
        BY DEF ResultIds, ToSet
      <4>2. i \in S
        BY <4>1
      <4>3. PICK j \in DOMAIN p : at[j] = i
        <5> HIDE DEF p, S
        <5> QED BY <2>4, <4>2
      <4>4. p[j] = m.results[i]
        <5> HIDE DEF p, S
        <5> QED BY <2>4, <4>3
      <4> HIDE DEF p, c
      <4> QED BY <2>2, <4>1, <4>4 DEF ResultIds, ToSet
    <3> QED BY <3>1, <3>2
  <2> HIDE DEF c, p
  <2>9. c = ToolResults(c.results)
    BY <2>1, <2>2
  <2>6. Proper(c) /\ Part(c, m)
    BY <1>3, <2>2, <2>3, <2>5, <2>8, <2>9 DEF Proper, Part
  <2>7. Stays(c) <=> c.results # <<>>
    BY <2>2 DEF Stays
  <2> QED BY <1>3, <2>5, <2>6, <2>7 DEF c
<1> QED BY <1>1, <1>2, <1>3 DEF Proper

(* Sanitising keeps every text, and leaves the calls that have a result    *)
(* and the results that have a call.                                       *)
LEMMA SanitizeFacts ==
  ASSUME NEW ms, Formed(ms)
  PROVE  /\ Formed(Sanitize(ms)) /\ Within(Sanitize(ms), ms)
         /\ Texts(Sanitize(ms)) = Texts(ms)
         /\ call_ids(Sanitize(ms)) = result_ids(Sanitize(ms))
         /\ \A i \in DOMAIN Sanitize(ms) :
              /\ Sanitize(ms)[i].kind = "calls" =>
                   Sanitize(ms)[i].ids # {} \/ Sanitize(ms)[i].n # 0
              /\ Sanitize(ms)[i].kind = "results" => Sanitize(ms)[i].results # <<>>
<1> DEFINE q == [i \in DOMAIN ms |-> Cleaned(ms, ms[i])]
           S == {i \in DOMAIN ms : Stays(Cleaned(ms, ms[i]))}
           v == Sanitize(ms)
<1>1. IsSeq(q) /\ DOMAIN q = DOMAIN ms
  <2>1. Len(ms) \in Nat /\ DOMAIN ms = 1 .. Len(ms)
    BY FormedFacts
  <2>2. q = [i \in 1 .. Len(ms) |-> q[i]]
    BY <2>1
  <2> HIDE DEF q
  <2> QED BY <2>1, <2>2, SeqIs
<1>2. v = Picked(q, S) /\ S \subseteq DOMAIN q
  BY <1>1, SanitizeIs
<1>3. \A i \in DOMAIN ms : q[i] = Cleaned(ms, ms[i]) /\ Proper(ms[i])
  BY FormedFacts
<1>4. \A i \in DOMAIN ms : i \in S <=> Stays(q[i])
  OBVIOUS
<1> HIDE DEF q, S, v
<1>5. PICK at \in [DOMAIN v -> S] :
        /\ \A j \in DOMAIN v : v[j] = q[at[j]]
        /\ \A i, j \in DOMAIN v : i < j => at[i] < at[j]
        /\ \A i \in S : \E j \in DOMAIN v : at[j] = i
  BY <1>1, <1>2, PickedFacts
<1>6. \A j \in DOMAIN v :
        /\ at[j] \in DOMAIN ms /\ v[j] = Cleaned(ms, ms[at[j]]) /\ Proper(ms[at[j]])
        /\ Stays(v[j])
  BY <1>1, <1>2, <1>3, <1>4, <1>5
<1>7. \A j \in DOMAIN v : Proper(v[j]) /\ Part(v[j], ms[at[j]])
  BY <1>6, CleanedFacts
<1>8. Formed(v)
  <2>1. IsSeq(v)
    BY <1>1, <1>2, PickedFacts
  <2> QED BY <1>7, <2>1 DEF Formed
<1>9. Within(v, ms)
  <2>1. at \in [DOMAIN v -> DOMAIN ms]
    BY <1>1, <1>2
  <2>2. Along(v, ms, at)
    BY <1>5, <1>7, <2>1 DEF Along
  <2> QED BY <2>2 DEF Within
<1>10. ASSUME NEW i \in DOMAIN ms, Stays(Cleaned(ms, ms[i]))
       PROVE  \E j \in DOMAIN v : v[j] = Cleaned(ms, ms[i])
  <2>1. i \in S
    BY <1>3, <1>4, <1>10
  <2>2. PICK j \in DOMAIN v : at[j] = i
    BY <1>5, <2>1
  <2> QED BY <1>6, <2>2
<1>11. Texts(v) = Texts(ms)
  <2>1. Texts(v) \subseteq Texts(ms)
    BY <1>8, <1>9, WithinIds
  <2>2. ASSUME NEW n \in Texts(ms) PROVE n \in Texts(v)
    <3>1. PICK i \in DOMAIN ms : ms[i].kind # "results" /\ ms[i].n = n
      BY IdsOf
    <3>2. n # 0
      BY IdsOf
    <3>3. ms[i].kind \in {"chat", "calls"} /\ Proper(ms[i])
      BY <1>3, <3>1 DEF Proper
    <3>4. /\ Cleaned(ms, ms[i]).kind = ms[i].kind /\ Cleaned(ms, ms[i]).n = n
          /\ Stays(Cleaned(ms, ms[i]))
      BY <3>1, <3>2, <3>3, CleanedFacts DEF Part
    <3>5. PICK j \in DOMAIN v : v[j] = Cleaned(ms, ms[i])
      BY <1>10, <3>4
    <3> QED BY <3>1, <3>2, <3>4, <3>5, IdsOf
  <2> QED BY <2>1, <2>2
<1>12. ASSUME NEW id PROVE id \in call_ids(v) <=> id \in call_ids(ms) \cap result_ids(ms)
  <2>1. ASSUME id \in call_ids(v) PROVE id \in call_ids(ms) \cap result_ids(ms)
    <3>1. PICK j \in DOMAIN v : v[j].kind = "calls" /\ id \in v[j].ids
      BY <2>1, IdsOf
    <3>2. ms[at[j]].kind = "calls" /\ v[j].ids = ms[at[j]].ids \cap result_ids(ms)
      BY <1>6, <1>7, <3>1, CleanedFacts DEF Part
    <3> QED BY <1>6, <3>1, <3>2, IdsOf
  <2>2. ASSUME id \in call_ids(ms) \cap result_ids(ms) PROVE id \in call_ids(v)
    <3>1. PICK i \in DOMAIN ms : ms[i].kind = "calls" /\ id \in ms[i].ids
      BY <2>2, IdsOf
    <3>2. /\ Cleaned(ms, ms[i]).kind = "calls" /\ id \in Cleaned(ms, ms[i]).ids
          /\ Stays(Cleaned(ms, ms[i]))
      BY <1>3, <2>2, <3>1, CleanedFacts DEF Part
    <3>3. PICK j \in DOMAIN v : v[j] = Cleaned(ms, ms[i])
      BY <1>10, <3>2
    <3> QED BY <3>2, <3>3, IdsOf
  <2> QED BY <2>1, <2>2
<1>13. ASSUME NEW id PROVE id \in result_ids(v) <=> id \in call_ids(ms) \cap result_ids(ms)
  <2>1. ASSUME id \in result_ids(v) PROVE id \in call_ids(ms) \cap result_ids(ms)
    <3>1. PICK j \in DOMAIN v : v[j].kind = "results" /\ id \in ResultIds(v[j])
      BY <2>1, IdsOf
    <3>2. ms[at[j]].kind = "results" /\ ResultIds(v[j]) = ResultIds(ms[at[j]]) \cap call_ids(ms)
      BY <1>6, <1>7, <3>1, CleanedFacts DEF Part
    <3> QED BY <1>6, <3>1, <3>2, IdsOf
  <2>2. ASSUME id \in call_ids(ms) \cap result_ids(ms) PROVE id \in result_ids(v)
    <3>1. PICK i \in DOMAIN ms : ms[i].kind = "results" /\ id \in ResultIds(ms[i])
      BY <2>2, IdsOf
    <3>2. Cleaned(ms, ms[i]).kind = "results" /\ id \in ResultIds(Cleaned(ms, ms[i]))
      BY <1>3, <2>2, <3>1, CleanedFacts DEF Part
    <3>3. Cleaned(ms, ms[i]).results # <<>>
      BY <3>2 DEF ResultIds, ToSet
    <3>4. Stays(Cleaned(ms, ms[i]))
      BY <1>3, <3>1, <3>3, CleanedFacts
    <3>5. PICK j \in DOMAIN v : v[j] = Cleaned(ms, ms[i])
      BY <1>10, <3>4
    <3> QED BY <3>2, <3>5, IdsOf
  <2> QED BY <2>1, <2>2
<1>14. call_ids(v) = result_ids(v)
  BY <1>12, <1>13
<1>15. \A i \in DOMAIN v :
         /\ v[i].kind = "calls" => v[i].ids # {} \/ v[i].n # 0
         /\ v[i].kind = "results" => v[i].results # <<>>
  BY <1>6 DEF Stays
<1> QED BY <1>8, <1>9, <1>11, <1>14, <1>15 DEF v

-----------------------------------------------------------------------------
(***************************************************************************)
(* upsert_compaction_summary.                                              *)
(***************************************************************************)
LEMMA WithoutSummariesFacts ==
  ASSUME NEW ms, Formed(ms)
  PROVE  /\ Formed(WithoutSummaries(ms)) /\ Within(WithoutSummaries(ms), ms)
         /\ SummariesOf(WithoutSummaries(ms)) = {}
         /\ Texts(WithoutSummaries(ms)) = Texts(ms)
         /\ call_ids(WithoutSummaries(ms)) = call_ids(ms)
         /\ result_ids(WithoutSummaries(ms)) = result_ids(ms)
         /\ \A i \in DOMAIN WithoutSummaries(ms) : \E j \in DOMAIN ms :
              WithoutSummaries(ms)[i] = ms[j]
         /\ \A j \in DOMAIN WithoutSummaries(ms) :
              1 .. j \subseteq DOMAIN ms \ SummariesOf(ms) => WithoutSummaries(ms)[j] = ms[j]
<1> DEFINE S == {i \in DOMAIN ms : ~is_compaction_summary_message(ms[i])}
           w == WithoutSummaries(ms)
<1>1. w = Picked(ms, S) /\ IsSeq(ms) /\ S \subseteq DOMAIN ms
  BY DEF WithoutSummaries, Formed
<1>2. S = DOMAIN ms \ SummariesOf(ms)
  BY DEF SummariesOf
<1> HIDE DEF S, w
<1>3. PICK at \in [DOMAIN w -> S] :
        /\ \A j \in DOMAIN w : w[j] = ms[at[j]]
        /\ \A i, j \in DOMAIN w : i < j => at[i] < at[j]
        /\ \A i \in S : \E j \in DOMAIN w : at[j] = i
        /\ \A j \in DOMAIN w : 1 .. j \subseteq S => at[j] = j
  BY <1>1, PickedFacts
<1>4. \A j \in DOMAIN w :
        at[j] \in DOMAIN ms /\ w[j] = ms[at[j]] /\ Proper(ms[at[j]])
        /\ ~is_compaction_summary_message(w[j])
  BY <1>1, <1>2, <1>3, FormedFacts DEF SummariesOf
<1>5. Formed(w)
  <2>1. IsSeq(w)
    BY <1>1, PickedFacts
  <2> QED BY <1>4, <2>1 DEF Formed
<1>6. Within(w, ms)
  <2>1. at \in [DOMAIN w -> DOMAIN ms]
    BY <1>1
  <2>2. \A j \in DOMAIN w : Part(w[j], ms[at[j]])
    BY <1>4 DEF Part
  <2>3. Along(w, ms, at)
    BY <1>3, <2>1, <2>2 DEF Along
  <2> QED BY <2>3 DEF Within
<1>7. SummariesOf(w) = {}
  BY <1>4 DEF SummariesOf
<1>8. ASSUME NEW i \in DOMAIN ms, ~is_compaction_summary_message(ms[i])
      PROVE  \E j \in DOMAIN w : w[j] = ms[i]
  <2>1. i \in S
    BY <1>2, <1>8 DEF SummariesOf
  <2> QED BY <1>3, <2>1
<1>9. /\ Texts(w) \subseteq Texts(ms) /\ call_ids(w) \subseteq call_ids(ms)
      /\ result_ids(w) \subseteq result_ids(ms)
  BY <1>5, <1>6, WithinIds
<1>10. ASSUME NEW n \in Texts(ms) PROVE n \in Texts(w)
  <2>1. PICK i \in DOMAIN ms : ms[i].kind # "results" /\ ms[i].n = n
    BY IdsOf
  <2>2. n # 0 /\ Proper(ms[i])
    BY IdsOf, FormedFacts
  <2>3. ~is_compaction_summary_message(ms[i])
    BY <2>1, <2>2 DEF Proper, is_compaction_summary_message
  <2>4. PICK j \in DOMAIN w : w[j] = ms[i]
    BY <1>8, <2>3
  <2> QED BY <2>1, <2>2, <2>4, IdsOf
<1>11. ASSUME NEW id \in call_ids(ms) PROVE id \in call_ids(w)
  <2>1. PICK i \in DOMAIN ms : ms[i].kind = "calls" /\ id \in ms[i].ids
    BY IdsOf
  <2>2. PICK j \in DOMAIN w : w[j] = ms[i]
    BY <1>8, <2>1 DEF is_compaction_summary_message
  <2> QED BY <2>1, <2>2, IdsOf
<1>12. ASSUME NEW id \in result_ids(ms) PROVE id \in result_ids(w)
  <2>1. PICK i \in DOMAIN ms : ms[i].kind = "results" /\ id \in ResultIds(ms[i])
    BY IdsOf
  <2>2. PICK j \in DOMAIN w : w[j] = ms[i]
    BY <1>8, <2>1 DEF is_compaction_summary_message
  <2> QED BY <2>1, <2>2, IdsOf
<1>13. \A j \in DOMAIN w : 1 .. j \subseteq DOMAIN ms \ SummariesOf(ms) => w[j] = ms[j]
  BY <1>2, <1>3
<1>14. Texts(w) = Texts(ms) /\ call_ids(w) = call_ids(ms) /\ result_ids(w) = result_ids(ms)
  BY <1>9, <1>10, <1>11, <1>12
<1> QED BY <1>4, <1>5, <1>6, <1>7, <1>13, <1>14 DEF w

(* The messages up to the first that fails a test pass it.                 *)
LEMMA LeadingSystemFacts ==
  ASSUME NEW ms, IsSeq(ms)
  PROVE  /\ LeadingSystem(ms) \in 0 .. Len(ms)
         /\ \A j \in 1 .. LeadingSystem(ms) : ms[j].kind = "chat" /\ ms[j].role = "system"
<1> DEFINE n == Len(ms)
           I == {i \in 1 .. n : ms[i].kind # "chat" \/ ms[i].role # "system"
                                \/ ms[i].is_compaction_summary}
<1>1. n \in Nat
  BY SeqFacts
<1>2. LeadingSystem(ms) = IF I = {} THEN n ELSE IF Min(I) = 0 THEN n ELSE Min(I) - 1
  <2> DEFINE k == IF I # {} THEN Min(I) ELSE 0
  <2>1. LeadingSystem(ms) = IF k = 0 THEN n ELSE k - 1
    BY DEF LeadingSystem, SelectInSeq
  <2> HIDE DEF I, n
  <2> QED BY <2>1
<1>3. \A j \in 1 .. n : j \notin I => ms[j].kind = "chat" /\ ms[j].role = "system"
  OBVIOUS
<1>4. I \subseteq 1 .. n
  OBVIOUS
<1> HIDE DEF I, n
<1>5. CASE I = {}
  BY <1>1, <1>2, <1>3, <1>5 DEF n
<1>6. CASE I # {}
  <2>1. Min(I) \in 1 .. n /\ \A y \in I : Min(I) <= y
    BY <1>1, <1>4, <1>6, MinOfPlaces
  <2>2. LeadingSystem(ms) = Min(I) - 1
    BY <1>1, <1>2, <1>6, <2>1
  <2>3. \A j \in 1 .. Min(I) - 1 : j \in 1 .. n /\ j \notin I
    BY <1>1, <2>1
  <2> QED BY <1>1, <1>3, <2>1, <2>2, <2>3 DEF n
<1> QED BY <1>5, <1>6

LEMMA InsertFacts ==
  ASSUME NEW s, IsSeq(s), NEW k \in 1 .. Len(s) + 1, NEW e
  PROVE  /\ IsSeq(InsertAt(s, k, e)) /\ Len(InsertAt(s, k, e)) = Len(s) + 1
         /\ InsertAt(s, k, e)[k] = e
         /\ \A i \in 1 .. Len(s) + 1 :
              /\ i < k => i \in DOMAIN s /\ InsertAt(s, k, e)[i] = s[i]
              /\ i > k => i - 1 \in DOMAIN s /\ InsertAt(s, k, e)[i] = s[i - 1]
<1> DEFINE U == ToSet(s) \cup {e}
           n == Len(s)
           a == SubSeq(s, 1, k - 1)
           b == SubSeq(s, k, Len(s))
           u == InsertAt(s, k, e)
<1>1. s \in Seq(U) /\ n \in Nat /\ DOMAIN s = 1 .. n /\ e \in U
  <2>1. s = [i \in 1 .. n |-> s[i]] /\ n \in Nat /\ DOMAIN s = 1 .. n
    BY SeqFacts
  <2>2. \A i \in 1 .. n : s[i] \in U
    BY <2>1 DEF ToSet
  <2> HIDE DEF U, n
  <2>3. s \in [1 .. n -> U]
    BY <2>1, <2>2
  <2>4. s \in Seq(U)
    BY <2>1, <2>3
  <2> QED BY <2>1, <2>4 DEF U
<1> HIDE DEF U
<1>2. a \in Seq(U) /\ Len(a) = k - 1 /\ \A i \in 1 .. k - 1 : a[i] = s[i]
  BY <1>1
<1>3. b \in Seq(U) /\ Len(b) = n - k + 1 /\ \A i \in 1 .. n - k + 1 : b[i] = s[k + i - 1]
  BY <1>1
<1>4. u = (a \o <<e>>) \o b
  BY DEF InsertAt
<1> HIDE DEF a, b, u
<1> DEFINE c == a \o <<e>>
<1>5. /\ c \in Seq(U) /\ Len(c) = k
      /\ \A i \in 1 .. k - 1 : c[i] = s[i]
      /\ c[k] = e
  BY <1>1, <1>2
<1> HIDE DEF c
<1>6. u = c \o b
  BY <1>4 DEF c
<1>7. /\ u \in Seq(U) /\ Len(u) = n + 1
      /\ \A i \in 1 .. k : u[i] = c[i]
      /\ \A i \in k + 1 .. n + 1 : u[i] = b[i - k]
  <2> HIDE DEF n
  <2> QED BY <1>1, <1>3, <1>5, <1>6
<1>8. IsSeq(u)
  BY <1>7, SeqOver
<1>9. ASSUME NEW i \in 1 .. n + 1, i < k PROVE i \in 1 .. n /\ u[i] = s[i]
  <2>1. i \in 1 .. k - 1 /\ i \in 1 .. k /\ i \in 1 .. n
    BY <1>1, <1>9
  <2> QED BY <1>5, <1>7, <2>1
<1>10. ASSUME NEW i \in 1 .. n + 1, i > k PROVE i - 1 \in 1 .. n /\ u[i] = s[i - 1]
  <2>1. i \in k + 1 .. n + 1 /\ i - k \in 1 .. n - k + 1 /\ i - 1 \in 1 .. n
    BY <1>1, <1>10
  <2>2. k + (i - k) - 1 = i - 1
    BY <1>1
  <2>3. u[i] = b[i - k] /\ b[i - k] = s[k + (i - k) - 1]
    BY <1>3, <1>7, <2>1
  <2> QED BY <2>1, <2>2, <2>3
<1>11. u[k] = e
  BY <1>1, <1>5, <1>7
<1> QED BY <1>1, <1>7, <1>8, <1>9, <1>10, <1>11 DEF u

LEMMA FirstSummary ==
  ASSUME NEW ms, Formed(ms)
  PROVE  /\ SelectInSeq(ms, is_compaction_summary_message) =
              IF SummariesOf(ms) = {} THEN 0 ELSE Min(SummariesOf(ms))
         /\ SummariesOf(ms) # {} =>
              /\ Min(SummariesOf(ms)) \in SummariesOf(ms)
              /\ \A i \in SummariesOf(ms) : Min(SummariesOf(ms)) <= i
<1>1. Len(ms) \in Nat /\ SummariesOf(ms) \subseteq 1 .. Len(ms)
  BY FormedFacts DEF SummariesOf
<1>2. SummariesOf(ms) = {i \in 1 .. Len(ms) : is_compaction_summary_message(ms[i])}
  BY FormedFacts DEF SummariesOf
<1>3. SelectInSeq(ms, is_compaction_summary_message) =
        IF SummariesOf(ms) = {} THEN 0 ELSE Min(SummariesOf(ms))
  BY <1>2 DEF SelectInSeq
<1> QED BY <1>1, <1>3, MinOfPlaces


(* An upsert leaves one summary, where the first was, or after the         *)
(* system's messages, and everything else as it was.                       *)
LEMMA UpsertFacts ==
  ASSUME NEW ms, Formed(ms), NEW summary
  PROVE  LET u == upsert_compaction_summary(ms, summary)
         IN  /\ Formed(u)
             /\ \E k \in DOMAIN u : SummariesOf(u) = {k}
             /\ rehydrate_summary(u) = summary
             /\ Texts(u) = Texts(ms)
             /\ call_ids(u) = call_ids(ms) /\ result_ids(u) = result_ids(ms)
             /\ Ordered(ms) => Ordered(u)
             /\ Seated(ms) => Seated(u)
             /\ \A i \in DOMAIN u : u[i].kind # "chat" => \E j \in DOMAIN ms : u[i] = ms[j]
<1> DEFINE first == SelectInSeq(ms, is_compaction_summary_message)
           rest == WithoutSummaries(ms)
           n == Len(rest)
           index == IF first = 0 THEN LeadingSystem(rest) ELSE first - 1
           k == Earlier(index, n) + 1
           e == SummaryMessage(summary)
           u == upsert_compaction_summary(ms, summary)
<1>1. /\ Formed(rest) /\ Within(rest, ms) /\ SummariesOf(rest) = {}
      /\ Texts(rest) = Texts(ms)
      /\ call_ids(rest) = call_ids(ms) /\ result_ids(rest) = result_ids(ms)
      /\ \A i \in DOMAIN rest : \E j \in DOMAIN ms : rest[i] = ms[j]
      /\ \A j \in DOMAIN rest : 1 .. j \subseteq DOMAIN ms \ SummariesOf(ms) => rest[j] = ms[j]
  BY WithoutSummariesFacts
<1>2. u = InsertAt(rest, k, e)
  BY DEF upsert_compaction_summary
<1> HIDE DEF rest, u
<1>3. /\ n \in Nat /\ DOMAIN rest = 1 .. n /\ IsSeq(rest)
      /\ \A i \in DOMAIN rest : Proper(rest[i])
  BY <1>1, FormedFacts DEF Formed
<1>4. \/ /\ first = 0 /\ SummariesOf(ms) = {}
         /\ index = LeadingSystem(rest)
         /\ index \in 0 .. n
         /\ \A j \in 1 .. index : rest[j].kind = "chat" /\ rest[j].role = "system"
      \/ /\ first \in SummariesOf(ms)
         /\ \A i \in SummariesOf(ms) : first <= i
         /\ index = first - 1 /\ first \in 1 .. Len(ms) /\ DOMAIN ms = 1 .. Len(ms)
         /\ Len(ms) \in Nat
  <2>1. Len(ms) \in Nat /\ DOMAIN ms = 1 .. Len(ms) /\ SummariesOf(ms) \subseteq 1 .. Len(ms)
    BY FormedFacts DEF SummariesOf
  <2>2. /\ first = IF SummariesOf(ms) = {} THEN 0 ELSE Min(SummariesOf(ms))
        /\ SummariesOf(ms) # {} =>
             /\ Min(SummariesOf(ms)) \in SummariesOf(ms)
             /\ \A i \in SummariesOf(ms) : Min(SummariesOf(ms)) <= i
    BY FirstSummary
  <2>3. /\ LeadingSystem(rest) \in 0 .. n
        /\ \A j \in 1 .. LeadingSystem(rest) : rest[j].kind = "chat" /\ rest[j].role = "system"
    BY <1>3, LeadingSystemFacts
  <2> HIDE DEF first, n
  <2>4. CASE SummariesOf(ms) = {}
    BY <2>2, <2>3, <2>4
  <2>5. CASE SummariesOf(ms) # {}
    <3>1. first \in SummariesOf(ms) /\ \A i \in SummariesOf(ms) : first <= i
      BY <2>2, <2>5
    <3>2. first \in 1 .. Len(ms) /\ first # 0
      BY <2>1, <3>1
    <3> QED BY <2>1, <3>1, <3>2
  <2> QED BY <2>4, <2>5
<1> HIDE DEF n, first, index
<1>5. k \in 1 .. n + 1 /\ k - 1 <= index /\ index \in Nat
  <2>1. index \in Nat
    BY <1>3, <1>4
  <2> HIDE DEF index
  <2> QED BY <1>3, <2>1 DEF Earlier
<1> HIDE DEF k
<1>6. /\ IsSeq(u) /\ Len(u) = n + 1 /\ DOMAIN u = 1 .. n + 1
      /\ u[k] = e
      /\ \A i \in 1 .. n + 1 :
           /\ i < k => i \in 1 .. n /\ u[i] = rest[i]
           /\ i > k => i - 1 \in 1 .. n /\ u[i] = rest[i - 1]
  <2>1. k \in 1 .. Len(rest) + 1
    BY <1>5 DEF n
  <2> HIDE DEF e
  <2>2. /\ IsSeq(u) /\ Len(u) = n + 1
        /\ u[k] = e
        /\ \A i \in 1 .. n + 1 :
             /\ i < k => i \in DOMAIN rest /\ u[i] = rest[i]
             /\ i > k => i - 1 \in DOMAIN rest /\ u[i] = rest[i - 1]
    BY <1>2, <1>3, <2>1, InsertFacts DEF n
  <2>3. DOMAIN u = 1 .. n + 1
    BY <2>2, SeqFacts
  <2> QED BY <1>3, <2>2, <2>3
<1> DEFINE was(i) == IF i < k THEN i ELSE i - 1
<1>7. \A i \in DOMAIN u : i # k => was(i) \in DOMAIN rest /\ u[i] = rest[was(i)]
  BY <1>3, <1>5, <1>6
<1>8. \A j \in DOMAIN rest : \E i \in DOMAIN u : i # k /\ u[i] = rest[j]
  <2> TAKE j \in DOMAIN rest
  <2>1. CASE j < k
    <3>1. j \in DOMAIN u /\ j # k /\ u[j] = rest[j]
      BY <1>3, <1>5, <1>6, <2>1
    <3> QED BY <3>1
  <2>2. CASE ~(j < k)
    <3>1. j + 1 \in 1 .. n + 1 /\ j + 1 > k /\ j + 1 # k /\ (j + 1) - 1 = j
      BY <1>3, <1>5, <2>2
    <3>2. u[j + 1] = rest[j]
      BY <1>6, <3>1
    <3> QED BY <1>6, <3>1, <3>2
  <2> QED BY <2>1, <2>2
<1>9. \A i, j \in DOMAIN u : was(i) < was(j) => i < j
  BY <1>5, <1>6
<1> HIDE DEF was
<1>10. /\ Proper(e) /\ e.kind = "chat" /\ e.n = 0 /\ is_compaction_summary_message(e)
       /\ e.summary = summary
  BY DEF SummaryMessage, Proper, is_compaction_summary_message
<1> HIDE DEF e
<1>11. k \in DOMAIN u
  BY <1>5, <1>6
<1>12. Formed(u)
  <2>1. \A i \in DOMAIN u : Proper(u[i])
    BY <1>3, <1>6, <1>7, <1>10
  <2> QED BY <1>6, <2>1 DEF Formed
<1>13. SummariesOf(u) = {k}
  <2>1. \A i \in DOMAIN u : i # k => ~is_compaction_summary_message(u[i])
    BY <1>1, <1>7 DEF SummariesOf
  <2> QED BY <1>6, <1>10, <1>11, <2>1 DEF SummariesOf
<1>14. rehydrate_summary(u) = summary
  <2>1. {x \in ToSet(u) : is_compaction_summary_message(x)} = {e}
    <3>1. \A i \in DOMAIN u : is_compaction_summary_message(u[i]) <=> i = k
      BY <1>13 DEF SummariesOf
    <3> QED BY <1>6, <1>11, <3>1 DEF ToSet
  <2> QED BY <1>10, <2>1 DEF rehydrate_summary
<1>15. Texts(u) = Texts(ms)
  <2>1. \A t : t \in Texts(u) <=> t \in Texts(rest)
    BY <1>6, <1>7, <1>8, <1>10, IdsOf
  <2> QED BY <1>1, <2>1
<1>16. call_ids(u) = call_ids(ms)
  <2>1. \A t : t \in call_ids(u) <=> t \in call_ids(rest)
    BY <1>6, <1>7, <1>8, <1>10, IdsOf
  <2> QED BY <1>1, <2>1
<1>17. result_ids(u) = result_ids(ms)
  <2>1. \A t : t \in result_ids(u) <=> t \in result_ids(rest)
    BY <1>6, <1>7, <1>8, <1>10, IdsOf
  <2> QED BY <1>1, <2>1
<1>18. ASSUME Ordered(ms) PROVE Ordered(u)
  <2>1. Ordered(rest)
    BY <1>1, <1>18, WithinKeepsOrder
  <2> SUFFICES ASSUME NEW i \in DOMAIN u, NEW j \in DOMAIN u,
                      u[i].kind = "calls", u[j].kind = "results",
                      u[i].ids \cap ResultIds(u[j]) # {}
               PROVE  i < j
    BY DEF Ordered
  <2>2. i # k /\ j # k
    BY <1>6, <1>10
  <2>3. /\ was(i) \in DOMAIN rest /\ was(j) \in DOMAIN rest
        /\ u[i] = rest[was(i)] /\ u[j] = rest[was(j)]
    BY <1>7, <2>2
  <2>4. was(i) < was(j)
    BY <2>1, <2>3 DEF Ordered
  <2> QED BY <1>9, <2>4
<1>19. ASSUME Seated(ms) PROVE Seated(u)
  <2> SUFFICES ASSUME NEW j \in DOMAIN u, j < k
               PROVE  u[j].kind = "chat" /\ u[j].role = "system"
    BY <1>13 DEF Seated
  <2>1. j \in DOMAIN rest /\ u[j] = rest[j] /\ j \in 1 .. index /\ j \in Nat
    BY <1>3, <1>5, <1>6
  <2>2. CASE first = 0 /\ SummariesOf(ms) = {} /\ index \in 0 .. n
             /\ \A i \in 1 .. index : rest[i].kind = "chat" /\ rest[i].role = "system"
    BY <2>1, <2>2
  <2>3. CASE /\ first \in SummariesOf(ms)
             /\ \A i \in SummariesOf(ms) : first <= i
             /\ index = first - 1 /\ first \in 1 .. Len(ms) /\ DOMAIN ms = 1 .. Len(ms)
             /\ Len(ms) \in Nat
    <3>1. j < first /\ j \in DOMAIN ms
      BY <2>1, <2>3
    <3>2. 1 .. j \subseteq DOMAIN ms \ SummariesOf(ms)
      <4>1. \A i \in 1 .. j : i \in DOMAIN ms /\ ~(first <= i)
        BY <2>1, <2>3, <3>1
      <4> QED BY <2>3, <4>1
    <3>3. rest[j] = ms[j]
      BY <1>1, <2>1, <3>2
    <3>4. ms[j].kind = "chat" /\ ms[j].role = "system"
      BY <1>19, <2>3, <3>1 DEF Seated
    <3> QED BY <2>1, <3>3, <3>4
  <2> QED BY <1>4, <2>2, <2>3
<1>20. \A i \in DOMAIN u : u[i].kind # "chat" => \E j \in DOMAIN ms : u[i] = ms[j]
  BY <1>1, <1>6, <1>7, <1>10
<1> QED BY <1>11, <1>12, <1>13, <1>14, <1>15, <1>16, <1>17, <1>18, <1>19, <1>20 DEF u

-----------------------------------------------------------------------------
(***************************************************************************)
(* A round: wherever it cuts, what it leaves of the transcript is in its   *)
(* order, and a text that is not left is in the middle.                    *)
(***************************************************************************)
(* Where the parts of a split are in the transcript.                       *)
Cut(ms, head_end, tail_start) ==
  Later(Earlier(head_end, Len(ms)), Earlier(tail_start, Len(ms)))

LEMMA SplitPlaces ==
  ASSUME NEW ms, Formed(ms), NEW head_end \in Nat, NEW tail_start \in Int
  PROVE  LET split == split_partial_conversation(ms, head_end, tail_start)
             joined == split.head \o <<>> \o split.tail
             n == Len(ms)
             h == Earlier(head_end, n)
             t == Cut(ms, head_end, tail_start)
         IN  /\ n \in Nat /\ h \in Nat /\ t \in Nat /\ h <= t /\ t <= n
             /\ IsSeq(split.head) /\ DOMAIN split.head = 1 .. h
             /\ \A i \in 1 .. h : split.head[i] = ms[i]
             /\ IsSeq(split.middle) /\ DOMAIN split.middle = 1 .. t - h
             /\ \A i \in 1 .. t - h : split.middle[i] = ms[h + i]
             /\ IsSeq(joined) /\ DOMAIN joined = 1 .. h + (n - t)
             /\ \A i \in 1 .. h + (n - t) :
                  /\ (IF i <= h THEN i ELSE i - h + t) \in DOMAIN ms
                  /\ joined[i] = ms[IF i <= h THEN i ELSE i - h + t]
<1> DEFINE n == Len(ms)
           U == ToSet(ms)
           h == Earlier(head_end, n)
           t == Cut(ms, head_end, tail_start)
           head == SubSeq(ms, 1, h)
           middle == SubSeq(ms, h + 1, t)
           tail == SubSeq(ms, t + 1, n)
           joined == head \o <<>> \o tail
<1>1. LET split == split_partial_conversation(ms, head_end, tail_start)
      IN  split.head = head /\ split.middle = middle /\ split.tail = tail
  BY DEF split_partial_conversation, After, Cut
<1>2. n \in Nat /\ DOMAIN ms = 1 .. n /\ ms \in Seq(U)
  BY FormedFacts DEF Formed, IsSeq
<1> HIDE DEF U, n
<1>3. h \in Nat /\ t \in Nat /\ h <= t /\ t <= n
  BY <1>2 DEF Earlier, Later, Cut, n
<1> HIDE DEF h, t
<1>4. /\ head \in Seq(U) /\ Len(head) = h /\ \A i \in 1 .. h : head[i] = ms[i]
      /\ middle \in Seq(U) /\ Len(middle) = t - h
      /\ \A i \in 1 .. t - h : middle[i] = ms[h + i]
      /\ tail \in Seq(U) /\ Len(tail) = n - t /\ \A i \in 1 .. n - t : tail[i] = ms[t + i]
  <2>1. head \in Seq(U) /\ Len(head) = h /\ \A i \in 1 .. h : head[i] = ms[i]
    BY <1>2, <1>3 DEF n
  <2>2. middle \in Seq(U) /\ Len(middle) = t - h
    BY <1>2, <1>3 DEF n
  <2>3. \A i \in 1 .. t - h : middle[i] = ms[h + i]
    <3> TAKE i \in 1 .. t - h
    <3>1. middle[i] = ms[(h + 1) + i - 1] /\ (h + 1) + i - 1 = h + i
      BY <1>2, <1>3 DEF n
    <3> QED BY <3>1
  <2>4. tail \in Seq(U) /\ Len(tail) = n - t
    <3>1. t + 1 \in 1 .. n + 1 /\ Len(ms) = n
      BY <1>2, <1>3 DEF n
    <3>2. tail \in Seq(U)
      BY <1>2, <3>1
    <3>3. Len(tail) = IF t + 1 <= n THEN n - (t + 1) + 1 ELSE 0
      BY <1>2, <3>1
    <3> HIDE DEF tail
    <3> QED BY <1>2, <1>3, <3>2, <3>3
  <2>5. \A i \in 1 .. n - t : tail[i] = ms[t + i]
    <3> TAKE i \in 1 .. n - t
    <3>1. tail[i] = ms[(t + 1) + i - 1] /\ (t + 1) + i - 1 = t + i
      BY <1>2, <1>3 DEF n
    <3> QED BY <3>1
  <2> QED BY <2>1, <2>2, <2>3, <2>4, <2>5
<1> HIDE DEF head, middle, tail
<1>5. joined = head \o tail
  <2>1. <<>> \in Seq(U) /\ head \o <<>> = head
    BY <1>4
  <2> QED BY <2>1
<1> DEFINE c == h + (n - t)
           at(i) == IF i <= h THEN i ELSE i - h + t
<1>6. /\ joined \in Seq(U) /\ Len(joined) = c /\ c \in Nat /\ DOMAIN joined = 1 .. c
      /\ \A i \in 1 .. c : joined[i] = IF i <= h THEN head[i] ELSE tail[i - h]
  <2>1. c \in Nat
    BY <1>2, <1>3
  <2> DEFINE both == head \o tail
  <2>2. both \in Seq(U) /\ Len(both) = Len(head) + Len(tail)
    <3>1. head \in Seq(U) /\ tail \in Seq(U)
      BY <1>4
    <3>2. both \in Seq(U)
      BY <3>1
    <3>3. Len(both) = Len(head) + Len(tail)
      BY <3>1
    <3> QED BY <3>2, <3>3
  <2>3. \A i \in 1 .. Len(head) + Len(tail) :
          both[i] = IF i <= Len(head) THEN head[i] ELSE tail[i - Len(head)]
    BY <1>4
  <2>4. joined = both
    BY <1>5
  <2> HIDE DEF both, joined
  <2>5. Len(both) = c /\ DOMAIN both = 1 .. c
    BY <1>3, <1>4, <2>2
  <2>6. \A i \in 1 .. c : both[i] = IF i <= h THEN head[i] ELSE tail[i - h]
    BY <1>4, <2>3
  <2> QED BY <2>1, <2>2, <2>4, <2>5, <2>6
<1> HIDE DEF joined
<1>7. \A i \in 1 .. c : at(i) \in DOMAIN ms /\ joined[i] = ms[at(i)]
  <2> TAKE i \in 1 .. c
  <2>1. CASE i <= h
    <3>1. i \in 1 .. h /\ at(i) = i /\ i \in 1 .. n
      BY <1>2, <1>3, <2>1
    <3>2. joined[i] = head[i]
      BY <1>6, <2>1
    <3> QED BY <1>2, <1>4, <3>1, <3>2
  <2>2. CASE ~(i <= h)
    <3>1. i - h \in 1 .. n - t /\ at(i) = t + (i - h) /\ t + (i - h) \in 1 .. n
      BY <1>2, <1>3, <2>2
    <3>2. joined[i] = tail[i - h]
      BY <1>6, <2>2
    <3>3. tail[i - h] = ms[t + (i - h)]
      BY <1>4, <3>1
    <3> QED BY <1>2, <3>1, <3>2, <3>3
  <2> QED BY <2>1, <2>2
<1>8. IsSeq(head) /\ IsSeq(middle) /\ IsSeq(joined)
  BY <1>4, <1>6, SeqOver
<1>9. DOMAIN head = 1 .. h /\ DOMAIN middle = 1 .. t - h
  BY <1>3, <1>4
<1> DEFINE split == split_partial_conversation(ms, head_end, tail_start)
           both == split.head \o <<>> \o split.tail
<1>10. split.head = head /\ split.middle = middle /\ both = joined
  BY <1>1 DEF joined
<1>11. /\ IsSeq(split.head) /\ DOMAIN split.head = 1 .. h
       /\ \A i \in 1 .. h : split.head[i] = ms[i]
       /\ IsSeq(split.middle) /\ DOMAIN split.middle = 1 .. t - h
       /\ \A i \in 1 .. t - h : split.middle[i] = ms[h + i]
       /\ IsSeq(both) /\ DOMAIN both = 1 .. c
       /\ \A i \in 1 .. c : at(i) \in DOMAIN ms /\ both[i] = ms[at(i)]
  <2> HIDE DEF split, both, c, at
  <2> QED BY <1>4, <1>6, <1>7, <1>8, <1>9, <1>10
<1> HIDE DEF split, both
<1> QED BY <1>2, <1>3, <1>11 DEF n, h, t, split, both

LEMMA SplitFacts ==
  ASSUME NEW ms, Formed(ms), NEW head_end \in Nat, NEW tail_start \in Int
  PROVE  LET split == split_partial_conversation(ms, head_end, tail_start)
             joined == split.head \o <<>> \o split.tail
         IN  /\ Formed(split.middle)
             /\ Formed(joined) /\ Within(joined, ms)
             /\ Texts(ms) \subseteq Texts(joined) \cup Texts(split.middle)
<1> DEFINE split == split_partial_conversation(ms, head_end, tail_start)
           joined == split.head \o <<>> \o split.tail
           middle == split.middle
           n == Len(ms)
           h == Earlier(head_end, n)
           t == Cut(ms, head_end, tail_start)
           c == h + (n - t)
           at == [i \in 1 .. c |-> IF i <= h THEN i ELSE i - h + t]
<1>1. /\ n \in Nat /\ h \in Nat /\ t \in Nat /\ h <= t /\ t <= n
      /\ IsSeq(middle) /\ DOMAIN middle = 1 .. t - h
      /\ \A i \in 1 .. t - h : middle[i] = ms[h + i]
      /\ IsSeq(joined) /\ DOMAIN joined = 1 .. c
      /\ \A i \in 1 .. c : at[i] \in DOMAIN ms /\ joined[i] = ms[at[i]]
  <2> DEFINE to(i) == IF i <= h THEN i ELSE i - h + t
  <2>1. /\ n \in Nat /\ h \in Nat /\ t \in Nat /\ h <= t /\ t <= n
        /\ IsSeq(middle) /\ DOMAIN middle = 1 .. t - h
        /\ \A i \in 1 .. t - h : middle[i] = ms[h + i]
        /\ IsSeq(joined) /\ DOMAIN joined = 1 .. c
        /\ \A i \in 1 .. c : to(i) \in DOMAIN ms /\ joined[i] = ms[to(i)]
    BY SplitPlaces, ZenonT(60)
  <2>2. \A i \in 1 .. c : at[i] = to(i)
    OBVIOUS
  <2> HIDE DEF at, c, to, n, h, t, joined, middle
  <2> QED BY <2>1, <2>2
<1>2. DOMAIN ms = 1 .. n
  BY FormedFacts
<1> HIDE DEF split, joined, middle, n, h, t
<1>8. \A i, j \in 1 .. c : i < j => at[i] < at[j]
  BY <1>1
<1>9. \A i \in 1 .. n : \/ \E j \in 1 .. c : at[j] = i
                        \/ i - h \in 1 .. t - h
  <2> TAKE i \in 1 .. n
  <2>1. CASE i <= h
    <3>1. i \in 1 .. c /\ at[i] = i
      BY <1>1, <2>1
    <3> QED BY <3>1
  <2>2. CASE i > t
    <3>1. i - t + h \in 1 .. c /\ at[i - t + h] = i
      BY <1>1, <2>2
    <3> QED BY <3>1
  <2>3. CASE h < i /\ i <= t
    BY <1>1, <2>3
  <2> QED BY <1>1, <2>1, <2>2, <2>3
<1> HIDE DEF at, c
<1>10. \A i \in DOMAIN ms : Proper(ms[i])
  BY DEF Formed
<1>11. Formed(joined)
  <2>1. IsSeq(joined)
    BY <1>1
  <2>2. \A i \in DOMAIN joined : Proper(joined[i])
    BY <1>1, <1>10
  <2> QED BY <2>1, <2>2 DEF Formed
<1>12. Within(joined, ms)
  <2>1. at \in [DOMAIN joined -> DOMAIN ms]
    <3>1. at = [i \in 1 .. c |-> at[i]]
      BY DEF at
    <3> QED BY <1>1, <3>1
  <2>2. \A i \in DOMAIN joined : Part(joined[i], ms[at[i]])
    BY <1>1 DEF Part
  <2>3. Along(joined, ms, at)
    BY <1>1, <1>8, <2>1, <2>2 DEF Along
  <2> QED BY <2>3 DEF Within
<1>14. Formed(middle)
  <2>1. IsSeq(middle)
    BY <1>1
  <2>2. \A i \in 1 .. t - h : h + i \in DOMAIN ms
    BY <1>2, <1>1
  <2>3. \A i \in DOMAIN middle : Proper(middle[i])
    BY <1>10, <1>1, <2>2
  <2> QED BY <2>1, <2>3 DEF Formed
<1>15. ASSUME NEW x \in Texts(ms) PROVE x \in Texts(joined) \cup Texts(middle)
  <2>1. PICK i \in DOMAIN ms : ms[i].kind # "results" /\ ms[i].n = x
    BY IdsOf
  <2>2. x # 0 /\ i \in 1 .. n
    BY <1>2, IdsOf
  <2>3. CASE \E j \in 1 .. c : at[j] = i
    <3>1. \E j \in DOMAIN joined : joined[j].kind # "results" /\ joined[j].n = x
      BY <1>1, <2>1, <2>3
    <3>2. x \in Texts(joined)
      BY <2>2, <3>1, IdsOf
    <3> QED BY <3>2
  <2>4. CASE i - h \in 1 .. t - h
    <3>1. h + (i - h) = i
      BY <1>1, <2>2
    <3>2. middle[i - h] = ms[i]
      BY <1>1, <2>4, <3>1
    <3>3. \E j \in DOMAIN middle : middle[j].kind # "results" /\ middle[j].n = x
      BY <1>1, <2>1, <2>4, <3>2
    <3>4. x \in Texts(middle)
      BY <2>2, <3>3, IdsOf
    <3> QED BY <3>4
  <2> QED BY <1>9, <2>2, <2>3, <2>4
<1> QED BY <1>11, <1>12, <1>14, <1>15 DEF joined, middle, split

-----------------------------------------------------------------------------
(***************************************************************************)
(* The invariant: the shape of the transcript, where its ids and texts     *)
(* come from, and one summary from the first round on, with nothing but    *)
(* the system's messages before it.                                        *)
(***************************************************************************)
Transcript ==
  /\ Formed(messages) /\ Filled(messages) /\ Ordered(messages) /\ Seated(messages)
  /\ said \in Nat /\ called \in Nat
  /\ Texts(messages) \subseteq 1 .. said
  /\ call_ids(messages) \subseteq 1 .. called
  /\ result_ids(messages) \subseteq 1 .. called
  /\ pending \subseteq 1 .. called

Rounds ==
  /\ compaction_count \in 0 .. MaxRounds
  /\ digested \in 0 .. MaxDigests
  /\ protection \in Protections
  /\ compaction_count = 0 => SummariesOf(messages) = {}
  /\ compaction_count # 0 => \E k \in DOMAIN messages : SummariesOf(messages) = {k}

IInv == Transcript /\ Rounds /\ NothingIsForgotten

(* A message the host appends is no summary, and has no call of an earlier *)
(* result.                                                                 *)
LEMMA AppendFacts ==
  ASSUME NEW ms, Formed(ms), NEW m, Proper(m), ~is_compaction_summary_message(m),
         m.kind = "calls" => m.ids \cap result_ids(ms) = {}
  PROVE  LET u == Append(ms, m)
         IN  /\ Formed(u)
             /\ Filled(ms) /\ (m.kind = "results" => m.results # <<>>) => Filled(u)
             /\ Ordered(ms) => Ordered(u)
             /\ Seated(ms) => Seated(u)
             /\ SummariesOf(u) = SummariesOf(ms) /\ DOMAIN ms \subseteq DOMAIN u
             /\ rehydrate_summary(u) = rehydrate_summary(ms)
             /\ Texts(u) = Texts(ms) \cup (IF m.kind = "results" THEN {} ELSE {m.n} \ {0})
             /\ call_ids(u) = call_ids(ms) \cup (IF m.kind = "calls" THEN m.ids ELSE {})
             /\ result_ids(u) =
                  result_ids(ms) \cup (IF m.kind = "results" THEN ResultIds(m) ELSE {})
<1> DEFINE U == ToSet(ms) \cup {m}
           n == Len(ms)
           u == Append(ms, m)
<1>1. n \in Nat /\ DOMAIN ms = 1 .. n /\ \A i \in 1 .. n : Proper(ms[i])
  BY FormedFacts
<1>2. u \in Seq(U) /\ Len(u) = n + 1 /\ u[n + 1] = m /\ \A i \in 1 .. n : u[i] = ms[i]
  <2>1. ms = [i \in 1 .. n |-> ms[i]]
    BY SeqFacts DEF Formed
  <2>2. \A i \in 1 .. n : ms[i] \in U
    BY <1>1 DEF ToSet
  <2>3. m \in U
    OBVIOUS
  <2> HIDE DEF U, n
  <2>4. ms \in [1 .. n -> U]
    BY <2>1, <2>2
  <2>5. ms \in Seq(U) /\ Len(ms) = n
    BY <1>1, <2>4 DEF n
  <2> QED BY <2>3, <2>5
<1> HIDE DEF U, n
<1>3. IsSeq(u)
  BY <1>2, SeqOver
<1> HIDE DEF u
<1>4. DOMAIN u = 1 .. n + 1
  BY <1>2, <1>3, SeqFacts
<1>5. /\ \A i \in DOMAIN ms : i \in DOMAIN u /\ u[i] = ms[i]
      /\ n + 1 \in DOMAIN u
      /\ \A i \in DOMAIN u : i \notin DOMAIN ms => i = n + 1 /\ u[i] = m
  BY <1>1, <1>2, <1>4
<1>6. \A i \in DOMAIN ms : i < n + 1 /\ ~(n + 1 < i)
  BY <1>1
<1>7. Formed(u)
  <2>1. \A i \in DOMAIN u : Proper(u[i])
    BY <1>1, <1>5
  <2> QED BY <1>3, <2>1 DEF Formed
<1>8. SummariesOf(u) = SummariesOf(ms)
  BY <1>5 DEF SummariesOf
<1>9. ASSUME Ordered(ms) PROVE Ordered(u)
  <2> SUFFICES ASSUME NEW i \in DOMAIN u, NEW j \in DOMAIN u,
                      u[i].kind = "calls", u[j].kind = "results",
                      u[i].ids \cap ResultIds(u[j]) # {}
               PROVE  i < j
    BY DEF Ordered
  <2>1. CASE i \in DOMAIN ms /\ j \in DOMAIN ms
    BY <1>5, <1>9, <2>1 DEF Ordered
  <2>2. CASE i \in DOMAIN ms /\ j \notin DOMAIN ms
    BY <1>5, <1>6, <2>2
  <2>3. CASE i \notin DOMAIN ms
    <3>1. u[i] = m
      BY <1>5, <2>3
    <3>2. j \in DOMAIN ms /\ u[j] = ms[j]
      BY <1>5, <3>1
    <3>3. ResultIds(ms[j]) \subseteq result_ids(ms)
      BY <3>2, IdsOf
    <3> QED BY <3>1, <3>2, <3>3
  <2> QED BY <2>1, <2>2, <2>3
<1>10. ASSUME Seated(ms) PROVE Seated(u)
  <2> SUFFICES ASSUME NEW i \in SummariesOf(ms), NEW j \in DOMAIN u, j < i
               PROVE  u[j].kind = "chat" /\ u[j].role = "system"
    BY <1>8 DEF Seated
  <2>1. i \in DOMAIN ms
    BY DEF SummariesOf
  <2>2. j \in DOMAIN ms
    BY <1>5, <1>6, <2>1
  <2> QED BY <1>5, <1>10, <2>2 DEF Seated
<1>11. rehydrate_summary(u) = rehydrate_summary(ms)
  <2>1. \A x : x \in ToSet(u) /\ is_compaction_summary_message(x) <=>
               x \in ToSet(ms) /\ is_compaction_summary_message(x)
    BY <1>5 DEF ToSet
  <2>2. {x \in ToSet(u) : is_compaction_summary_message(x)} =
        {x \in ToSet(ms) : is_compaction_summary_message(x)}
    BY <2>1
  <2> QED BY <2>2 DEF rehydrate_summary
<1>12. Texts(u) = Texts(ms) \cup (IF m.kind = "results" THEN {} ELSE {m.n} \ {0})
  <2>1. \A t : t \in Texts(u) <=>
               t \in Texts(ms) \/ (m.kind # "results" /\ t = m.n /\ t # 0)
    <3> TAKE t
    <3>1. ASSUME t \in Texts(u) PROVE t \in Texts(ms) \/ (m.kind # "results" /\ t = m.n /\ t # 0)
      <4>1. PICK i \in DOMAIN u : u[i].kind # "results" /\ u[i].n = t
        BY <3>1, IdsOf
      <4>2. CASE i \in DOMAIN ms
        <5>1. t \in Texts(ms)
          BY <1>5, <3>1, <4>1, <4>2, IdsOf
        <5> QED BY <5>1
      <4>3. CASE i \notin DOMAIN ms
        BY <1>5, <3>1, <4>1, <4>3, IdsOf
      <4> QED BY <4>2, <4>3
    <3>2. ASSUME t \in Texts(ms) PROVE t \in Texts(u)
      <4>1. PICK i \in DOMAIN ms : ms[i].kind # "results" /\ ms[i].n = t
        BY <3>2, IdsOf
      <4>2. i \in DOMAIN u /\ u[i] = ms[i]
        BY <1>5
      <4> QED BY <3>2, <4>1, <4>2, IdsOf
    <3>3. ASSUME m.kind # "results" /\ t = m.n /\ t # 0 PROVE t \in Texts(u)
      <4>1. n + 1 \in DOMAIN u /\ u[n + 1].kind # "results" /\ u[n + 1].n = t
        BY <1>2, <1>5, <3>3
      <4> QED BY <3>3, <4>1, IdsOf
    <3> QED BY <3>1, <3>2, <3>3
  <2> QED BY <2>1
<1>13. call_ids(u) = call_ids(ms) \cup (IF m.kind = "calls" THEN m.ids ELSE {})
  <2>1. \A t : t \in call_ids(u) <=>
               t \in call_ids(ms) \/ (m.kind = "calls" /\ t \in m.ids)
    <3> TAKE t
    <3>1. ASSUME t \in call_ids(u) PROVE t \in call_ids(ms) \/ (m.kind = "calls" /\ t \in m.ids)
      <4>1. PICK i \in DOMAIN u : u[i].kind = "calls" /\ t \in u[i].ids
        BY <3>1, IdsOf
      <4>2. CASE i \in DOMAIN ms
        <5>1. t \in call_ids(ms)
          BY <1>5, <3>1, <4>1, <4>2, IdsOf
        <5> QED BY <5>1
      <4>3. CASE i \notin DOMAIN ms
        BY <1>5, <3>1, <4>1, <4>3, IdsOf
      <4> QED BY <4>2, <4>3
    <3>2. ASSUME t \in call_ids(ms) PROVE t \in call_ids(u)
      <4>1. PICK i \in DOMAIN ms : ms[i].kind = "calls" /\ t \in ms[i].ids
        BY <3>2, IdsOf
      <4>2. i \in DOMAIN u /\ u[i] = ms[i]
        BY <1>5
      <4> QED BY <3>2, <4>1, <4>2, IdsOf
    <3>3. ASSUME m.kind = "calls" /\ t \in m.ids PROVE t \in call_ids(u)
      <4>1. n + 1 \in DOMAIN u /\ u[n + 1].kind = "calls" /\ t \in u[n + 1].ids
        BY <1>2, <1>5, <3>3
      <4> QED BY <3>3, <4>1, IdsOf
    <3> QED BY <3>1, <3>2, <3>3
  <2> QED BY <2>1
<1>14. result_ids(u) = result_ids(ms) \cup (IF m.kind = "results" THEN ResultIds(m) ELSE {})
  <2>1. \A t : t \in result_ids(u) <=>
               t \in result_ids(ms) \/ (m.kind = "results" /\ t \in ResultIds(m))
    <3> TAKE t
    <3>1. ASSUME t \in result_ids(u) PROVE t \in result_ids(ms) \/ (m.kind = "results" /\ t \in ResultIds(m))
      <4>1. PICK i \in DOMAIN u : u[i].kind = "results" /\ t \in ResultIds(u[i])
        BY <3>1, IdsOf
      <4>2. CASE i \in DOMAIN ms
        <5>1. t \in result_ids(ms)
          BY <1>5, <3>1, <4>1, <4>2, IdsOf
        <5> QED BY <5>1
      <4>3. CASE i \notin DOMAIN ms
        BY <1>5, <3>1, <4>1, <4>3, IdsOf
      <4> QED BY <4>2, <4>3
    <3>2. ASSUME t \in result_ids(ms) PROVE t \in result_ids(u)
      <4>1. PICK i \in DOMAIN ms : ms[i].kind = "results" /\ t \in ResultIds(ms[i])
        BY <3>2, IdsOf
      <4>2. i \in DOMAIN u /\ u[i] = ms[i]
        BY <1>5
      <4> QED BY <3>2, <4>1, <4>2, IdsOf
    <3>3. ASSUME m.kind = "results" /\ t \in ResultIds(m) PROVE t \in result_ids(u)
      <4>1. n + 1 \in DOMAIN u /\ u[n + 1].kind = "results" /\ t \in ResultIds(u[n + 1])
        BY <1>2, <1>5, <3>3
      <4> QED BY <3>3, <4>1, IdsOf
    <3> QED BY <3>1, <3>2, <3>3
  <2> QED BY <2>1
<1>15. Filled(ms) /\ (m.kind = "results" => m.results # <<>>) => Filled(u)
  BY <1>5 DEF Filled
<1> QED BY <1>5, <1>7, <1>8, <1>9, <1>10, <1>11, <1>12, <1>13, <1>14, <1>15 DEF u

LEMMA AppendSeq ==
  ASSUME NEW s, IsSeq(s), NEW e
  PROVE  IsSeq(Append(s, e)) /\ Last(Append(s, e)) = e
<1> DEFINE U == ToSet(s) \cup {e}
           n == Len(s)
           u == Append(s, e)
<1>1. n \in Nat /\ DOMAIN s = 1 .. n /\ s = [i \in 1 .. n |-> s[i]]
  BY SeqFacts
<1>2. s \in Seq(U)
  <2>1. \A i \in 1 .. n : s[i] \in U
    BY <1>1 DEF ToSet
  <2> HIDE DEF U, n
  <2>2. s \in [1 .. n -> U]
    BY <1>1, <2>1
  <2> QED BY <1>1, <2>2
<1>3. e \in U
  OBVIOUS
<1> HIDE DEF U
<1>4. u \in Seq(U) /\ Len(u) = n + 1 /\ u[n + 1] = e
  BY <1>2, <1>3
<1> HIDE DEF u
<1> QED BY <1>4, SeqOver DEF Last, u

(* A digest in the place of a content.                                     *)
LEMMA NoteFacts ==
  ASSUME NEW r, IsAnswer(r), NEW newer
  PROVE  /\ IsAnswer(Digest(r, newer)) /\ Digest(r, newer).id = r.id
         /\ Last(Digest(r, newer).content.digest).duplicate_of = newer
<1> DEFINE e == [of |-> r.id, duplicate_of |-> newer]
           d == Append(r.content.digest, e)
           c == [r.content EXCEPT !.digest = d]
<1>1. Digest(r, newer) = [r EXCEPT !.content = c]
  BY DEF Digest
<1>2. r = [id |-> r.id, content |-> r.content]
  BY DEF IsAnswer
<1>3. /\ r.content = [says |-> r.content.says, digest |-> r.content.digest]
      /\ r.content.says \in Contents /\ IsSeq(r.content.digest)
  BY DEF IsAnswer, IsContent
<1>4. IsSeq(d) /\ Last(d) = e
  <2> HIDE DEF e
  <2> QED BY <1>3, AppendSeq
<1>5. e.duplicate_of = newer
  OBVIOUS
<1> HIDE DEF d, e
<1>6. c = [says |-> r.content.says, digest |-> d]
  BY <1>3
<1> HIDE DEF c
<1>7. Digest(r, newer) = [id |-> r.id, content |-> c]
  BY <1>1, <1>2
<1>8. IsContent(c) /\ c.digest = d
  BY <1>3, <1>4, <1>6 DEF IsContent
<1> QED BY <1>4, <1>5, <1>7, <1>8 DEF IsAnswer

(* A digest pass changes what results say, and nothing else.               *)
LEMMA DigestedFacts ==
  ASSUME NEW all, NEW r, IsAnswer(r), NEW serial, NEW options
  PROVE  IsAnswer(Digested(all, r, serial, options)) /\ Digested(all, r, serial, options).id = r.id
<1>1. ASSUME NEW newer
      PROVE  IsAnswer(Digest(r, newer)) /\ Digest(r, newer).id = r.id
  BY NoteFacts
<1>2. \/ Digested(all, r, serial, options) = r
      \/ \E newer : Digested(all, r, serial, options) = Digest(r, newer)
  BY DEF Digested
<1> QED BY <1>1, <1>2

LEMMA DigestFacts ==
  ASSUME NEW ms, Formed(ms), NEW options
  PROVE  LET u == digest_old_tool_results(ms, options)
         IN  /\ Formed(u)
             /\ Filled(ms) => Filled(u)
             /\ Ordered(ms) => Ordered(u)
             /\ Seated(ms) => Seated(u)
             /\ SummariesOf(u) = SummariesOf(ms) /\ DOMAIN u = DOMAIN ms
             /\ rehydrate_summary(u) = rehydrate_summary(ms)
             /\ Texts(u) = Texts(ms)
             /\ call_ids(u) = call_ids(ms)
             /\ result_ids(u) = result_ids(ms)
<1> DEFINE u == digest_old_tool_results(ms, options)
           all == AllResults(ms)
           before(i) == Len(AllResults(SubSeq(ms, 1, i - 1)))
           new(i) == [j \in DOMAIN ms[i].results |->
                        Digested(all, ms[i].results[j], before(i) + j, options)]
<1>1. u = [i \in DOMAIN ms |-> IF ms[i].kind # "results" THEN ms[i] ELSE ToolResults(new(i))]
  BY DEF digest_old_tool_results
<1>2. Len(ms) \in Nat /\ DOMAIN ms = 1 .. Len(ms) /\ \A i \in DOMAIN ms : Proper(ms[i])
  BY FormedFacts
<1>3. ASSUME NEW i \in DOMAIN ms, ms[i].kind = "results"
      PROVE  /\ Proper(ToolResults(new(i)))
             /\ ResultIds(ToolResults(new(i))) = ResultIds(ms[i])
             /\ ms[i].results # <<>> => ToolResults(new(i)).results # <<>>
  <2> DEFINE old == ms[i].results
             w == new(i)
  <2>1. IsSeq(old) /\ \A j \in DOMAIN old : IsAnswer(old[j])
    BY <1>2, <1>3 DEF Proper
  <2>2. DOMAIN w = DOMAIN old /\ \A j \in DOMAIN old : IsAnswer(w[j]) /\ w[j].id = old[j].id
    BY <2>1, DigestedFacts
  <2>3. IsSeq(w)
    <3>1. Len(old) \in Nat /\ w = [j \in 1 .. Len(old) |-> w[j]]
      BY <2>1, SeqFacts
    <3> HIDE DEF w, old
    <3> QED BY <3>1, SeqIs
  <2> HIDE DEF w
  <2>4. ToolResults(w).kind = "results" /\ ToolResults(w).results = w
    BY DEF ToolResults
  <2>5. Proper(ToolResults(w))
    BY <2>2, <2>3, <2>4 DEF Proper
  <2>6. ResultIds(ToolResults(w)) = ResultIds(ms[i])
    <3>1. \A id : id \in ResultIds(ToolResults(w)) <=> id \in ResultIds(ms[i])
      BY <2>2, <2>4 DEF ResultIds, ToSet
    <3> QED BY <3>1
  <2>7. old # <<>> => w # <<>>
    <3>1. old # <<>> => DOMAIN old # {}
      BY <2>1, SeqEmpty
    <3>2. w = <<>> => DOMAIN w = {}
      OBVIOUS
    <3> QED BY <2>2, <3>1, <3>2
  <2> QED BY <2>4, <2>5, <2>6, <2>7 DEF w
<1> HIDE DEF new, u
<1>4. /\ DOMAIN u = DOMAIN ms
      /\ \A i \in DOMAIN ms :
           /\ Proper(u[i]) /\ u[i].kind = ms[i].kind
           /\ ms[i].kind # "results" => u[i] = ms[i]
           /\ ms[i].kind = "results" =>
                /\ ResultIds(u[i]) = ResultIds(ms[i])
                /\ ms[i].results # <<>> => u[i].results # <<>>
  <2>1. DOMAIN u = DOMAIN ms
    BY <1>1
  <2> SUFFICES ASSUME NEW i \in DOMAIN ms
               PROVE  /\ Proper(u[i]) /\ u[i].kind = ms[i].kind
                      /\ ms[i].kind # "results" => u[i] = ms[i]
                      /\ ms[i].kind = "results" =>
                           /\ ResultIds(u[i]) = ResultIds(ms[i])
                           /\ ms[i].results # <<>> => u[i].results # <<>>
    BY <2>1
  <2>2. CASE ms[i].kind # "results"
    BY <1>1, <1>2, <2>2
  <2>3. CASE ms[i].kind = "results"
    <3>1. u[i] = ToolResults(new(i)) /\ ToolResults(new(i)).kind = "results"
      BY <1>1, <2>3 DEF ToolResults
    <3> QED BY <1>3, <2>3, <3>1
  <2> QED BY <2>2, <2>3
<1>5. Formed(u)
  <2>1. u = [i \in 1 .. Len(ms) |-> u[i]]
    BY <1>1, <1>2
  <2>2. IsSeq(u)
    BY <1>2, <2>1, SeqIs
  <2> QED BY <1>4, <2>2 DEF Formed
<1>6. \A i \in DOMAIN ms :
        /\ is_compaction_summary_message(u[i]) <=> is_compaction_summary_message(ms[i])
        /\ ms[i].kind = "chat" => u[i] = ms[i]
  <2> TAKE i \in DOMAIN ms
  <2>1. CASE ms[i].kind = "results"
    BY <1>4, <2>1 DEF is_compaction_summary_message
  <2>2. CASE ms[i].kind # "results"
    BY <1>4, <2>2
  <2> QED BY <2>1, <2>2
<1>7. SummariesOf(u) = SummariesOf(ms)
  BY <1>4, <1>6 DEF SummariesOf
<1>8. ASSUME Ordered(ms) PROVE Ordered(u)
  BY <1>4, <1>8 DEF Ordered
<1>9. ASSUME Seated(ms) PROVE Seated(u)
  BY <1>4, <1>6, <1>7, <1>9 DEF Seated
<1>10. rehydrate_summary(u) = rehydrate_summary(ms)
  <2>1. \A i \in DOMAIN ms : is_compaction_summary_message(ms[i]) => u[i] = ms[i]
    BY <1>6 DEF is_compaction_summary_message
  <2>2. \A x : x \in ToSet(u) /\ is_compaction_summary_message(x) <=>
               x \in ToSet(ms) /\ is_compaction_summary_message(x)
    <3> TAKE x
    <3>1. ASSUME x \in ToSet(u), is_compaction_summary_message(x)
          PROVE  x \in ToSet(ms)
      <4>1. PICK i \in DOMAIN ms : u[i] = x
        BY <1>4, <3>1 DEF ToSet
      <4>2. ms[i] = x
        BY <1>6, <2>1, <3>1, <4>1
      <4> QED BY <4>2 DEF ToSet
    <3>2. ASSUME x \in ToSet(ms), is_compaction_summary_message(x)
          PROVE  x \in ToSet(u)
      <4>1. PICK i \in DOMAIN ms : ms[i] = x
        BY <3>2 DEF ToSet
      <4>2. u[i] = x
        BY <2>1, <3>2, <4>1
      <4> QED BY <1>4, <4>2 DEF ToSet
    <3> QED BY <3>1, <3>2
  <2>3. {x \in ToSet(u) : is_compaction_summary_message(x)} =
        {x \in ToSet(ms) : is_compaction_summary_message(x)}
    BY <2>2
  <2> QED BY <2>3 DEF rehydrate_summary
<1>11. Texts(u) = Texts(ms)
  <2>1. \A i \in DOMAIN ms : \A t :
          u[i].kind # "results" /\ u[i].n = t <=> ms[i].kind # "results" /\ ms[i].n = t
    BY <1>4
  <2>2. \A t : t \in Texts(u) <=> t \in Texts(ms)
    <3> TAKE t
    <3>1. t \in Texts(u) <=> t # 0 /\ \E i \in DOMAIN ms : u[i].kind # "results" /\ u[i].n = t
      BY <1>4, IdsOf
    <3>2. t \in Texts(ms) <=> t # 0 /\ \E i \in DOMAIN ms : ms[i].kind # "results" /\ ms[i].n = t
      BY IdsOf
    <3> QED BY <2>1, <3>1, <3>2
  <2> QED BY <2>2
<1>12. call_ids(u) = call_ids(ms)
  <2>1. \A t : t \in call_ids(u) <=> t \in call_ids(ms)
    <3> TAKE t
    <3>1. t \in call_ids(u) <=> \E i \in DOMAIN ms : u[i].kind = "calls" /\ t \in u[i].ids
      BY <1>4, IdsOf
    <3>2. t \in call_ids(ms) <=> \E i \in DOMAIN ms : ms[i].kind = "calls" /\ t \in ms[i].ids
      BY IdsOf
    <3> QED BY <1>4, <3>1, <3>2
  <2> QED BY <2>1
<1>13. result_ids(u) = result_ids(ms)
  <2>1. \A t : t \in result_ids(u) <=> t \in result_ids(ms)
    <3> TAKE t
    <3>1. t \in result_ids(u) <=>
            \E i \in DOMAIN ms : u[i].kind = "results" /\ t \in ResultIds(u[i])
      BY <1>4, IdsOf
    <3>2. t \in result_ids(ms) <=>
            \E i \in DOMAIN ms : ms[i].kind = "results" /\ t \in ResultIds(ms[i])
      BY IdsOf
    <3> QED BY <1>4, <3>1, <3>2
  <2> QED BY <2>1
<1>14. Filled(ms) => Filled(u)
  BY <1>4 DEF Filled
<1> QED BY <1>4, <1>5, <1>7, <1>8, <1>9, <1>10, <1>11, <1>12, <1>13, <1>14 DEF u

(***************************************************************************)
(* A round.                                                                *)
(***************************************************************************)
Paired(ms) ==
  /\ result_ids(ms) = call_ids(ms)
  /\ \A i, j \in DOMAIN ms, id \in 1 .. called : OneOf(ms, i, j, id) => i < j
  /\ \A m \in ToSet(ms) :
       /\ m.kind = "calls" => m.ids # {} \/ m.n # 0
       /\ m.kind = "results" => m.results # <<>>

LEMMA RejoinFacts ==
  ASSUME NEW ms, Formed(ms), NEW head_end \in Nat, NEW tail_start \in Int, NEW summary
  PROVE  LET split == split_partial_conversation(ms, head_end, tail_start)
             u == upsert_compaction_summary(rejoin_partial_conversation(split, <<>>), summary)
         IN  /\ Formed(u)
             /\ \E k \in DOMAIN u : SummariesOf(u) = {k}
             /\ rehydrate_summary(u) = summary
             /\ Texts(u) \subseteq Texts(ms)
             /\ Texts(ms) \subseteq Texts(u) \cup Texts(split.middle)
             /\ call_ids(u) \subseteq call_ids(ms) /\ result_ids(u) \subseteq result_ids(ms)
             /\ Filled(u)
             /\ Ordered(ms) => Ordered(u) /\ Paired(u)
             /\ Seated(ms) => Seated(u)
             /\ Texts(WithoutSummaries(split.middle)) = Texts(split.middle)
<1> DEFINE split == split_partial_conversation(ms, head_end, tail_start)
           joined == split.head \o <<>> \o split.tail
           v == Sanitize(joined)
           u == upsert_compaction_summary(v, summary)
<1>1. /\ Formed(split.middle)
      /\ Formed(joined) /\ Within(joined, ms)
      /\ Texts(ms) \subseteq Texts(joined) \cup Texts(split.middle)
  BY SplitFacts
<1>2. rejoin_partial_conversation(split, <<>>) = v
  BY DEF rejoin_partial_conversation
<1> HIDE DEF joined, split
<1>3. /\ Formed(v) /\ Within(v, joined)
      /\ Texts(v) = Texts(joined)
      /\ call_ids(v) = result_ids(v)
      /\ \A i \in DOMAIN v :
           /\ v[i].kind = "calls" => v[i].ids # {} \/ v[i].n # 0
           /\ v[i].kind = "results" => v[i].results # <<>>
  BY <1>1, SanitizeFacts
<1> HIDE DEF v
<1>4. /\ Formed(u)
      /\ \E k \in DOMAIN u : SummariesOf(u) = {k}
      /\ rehydrate_summary(u) = summary
      /\ Texts(u) = Texts(v)
      /\ call_ids(u) = call_ids(v) /\ result_ids(u) = result_ids(v)
      /\ Ordered(v) => Ordered(u)
      /\ Seated(v) => Seated(u)
      /\ \A i \in DOMAIN u : u[i].kind # "chat" => \E j \in DOMAIN v : u[i] = v[j]
  BY <1>3, UpsertFacts
<1> HIDE DEF u
<1>5. Within(v, ms)
  BY <1>1, <1>3, WithinChains
<1>6. /\ call_ids(v) \subseteq call_ids(ms) /\ result_ids(v) \subseteq result_ids(ms)
      /\ Texts(v) \subseteq Texts(ms)
  BY <1>3, <1>5, WithinIds
<1>7. Ordered(ms) => Ordered(u)
  BY <1>3, <1>4, <1>5, WithinKeepsOrder
<1>8. Seated(ms) => Seated(u)
  BY <1>4, <1>5, WithinKeepsSeat
<1>9. Ordered(ms) => Paired(u)
  <2> HAVE Ordered(ms)
  <2>1. result_ids(u) = call_ids(u)
    BY <1>3, <1>4
  <2>2. ASSUME NEW i \in DOMAIN u, NEW j \in DOMAIN u, NEW id, OneOf(u, i, j, id)
        PROVE  i < j
    BY <1>7, <2>2 DEF OneOf, Ordered
  <2>3. ASSUME NEW m \in ToSet(u)
        PROVE  /\ m.kind = "calls" => m.ids # {} \/ m.n # 0
               /\ m.kind = "results" => m.results # <<>>
    <3>1. PICK i \in DOMAIN u : u[i] = m
      BY DEF ToSet
    <3>2. m.kind # "chat" => \E j \in DOMAIN v : m = v[j]
      BY <1>4, <3>1
    <3> QED BY <1>3, <3>2
  <2> QED BY <2>1, <2>2, <2>3 DEF Paired
<1>11. Filled(u)
  BY <1>3, <1>4 DEF Filled
<1>10. Texts(WithoutSummaries(split.middle)) = Texts(split.middle)
  BY <1>1, WithoutSummariesFacts
<1> QED BY <1>11, <1>1, <1>2, <1>3, <1>4, <1>6, <1>7, <1>8, <1>9, <1>10 DEF split, u

LEMMA RoundFacts ==
  ASSUME OptionsAssumption, IInv,
         NEW tail_start \in Int, protected_head_end(messages) \in Nat, Round(tail_start)
  PROVE  IInv' /\ (Compacted => Paired(messages'))
<1> DEFINE split == split_partial_conversation(messages, protected_head_end(messages), tail_start)
           made(summary) ==
             upsert_compaction_summary(rejoin_partial_conversation(split, <<>>), summary)
           asked == build_summary_prompt(split.middle, rehydrate_summary(messages))
<1>1. /\ Formed(messages) /\ Filled(messages) /\ Ordered(messages) /\ Seated(messages)
      /\ said \in Nat /\ called \in Nat
      /\ Texts(messages) \subseteq 1 .. said
      /\ call_ids(messages) \subseteq 1 .. called
      /\ result_ids(messages) \subseteq 1 .. called
      /\ pending \subseteq 1 .. called
  BY DEF IInv, Transcript
<1>2. /\ compaction_count \in 0 .. MaxRounds
      /\ digested \in 0 .. MaxDigests /\ protection \in Protections
      /\ MaxRounds \in Nat /\ compaction_count < MaxRounds
  BY DEF IInv, Rounds, OptionsAssumption, Round
<1>3. /\ pending' = pending /\ said' = said /\ called' = called /\ digested' = digested
      /\ protection' = protection /\ allow_lossy_fallback' = allow_lossy_fallback
  BY DEF Round
<1>4. \/ /\ messages' = made(asked)
         /\ compaction_count' = compaction_count + 1
      \/ /\ allow_lossy_fallback
         /\ \E summary : messages' = made(summary)
         /\ compaction_count' = compaction_count + 1
      \/ UNCHANGED <<messages, compaction_count>>
  <2>1. ASSUME NEW kind, decide_summary_failure(kind) = "UseDeterministicFallback"
        PROVE  allow_lossy_fallback
    BY <2>1 DEF decide_summary_failure
  <2> QED BY <2>1 DEF Round
<1>5. ASSUME NEW summary
      PROVE  /\ Formed(made(summary))
             /\ \E k \in DOMAIN made(summary) : SummariesOf(made(summary)) = {k}
             /\ rehydrate_summary(made(summary)) = summary
             /\ Texts(made(summary)) \subseteq Texts(messages)
             /\ Texts(messages) \subseteq Texts(made(summary)) \cup Texts(split.middle)
             /\ call_ids(made(summary)) \subseteq call_ids(messages)
             /\ result_ids(made(summary)) \subseteq result_ids(messages)
             /\ Filled(made(summary))
             /\ Ordered(made(summary)) /\ Seated(made(summary)) /\ Paired(made(summary))
             /\ Texts(WithoutSummaries(split.middle)) = Texts(split.middle)
  BY <1>1, RejoinFacts
<1>6. asked = Shown(WithoutSummaries(split.middle)) \cup rehydrate_summary(messages)
  BY DEF build_summary_prompt
<1> HIDE DEF made, asked, split
<1>7. CASE /\ \E summary : messages' = made(summary)
           /\ compaction_count' = compaction_count + 1
           /\ allow_lossy_fallback \/ messages' = made(asked)
  <2>1. PICK summary : messages' = made(summary)
    BY <1>7
  <2>2. Transcript'
    BY <1>1, <1>3, <1>5, <2>1 DEF Transcript
  <2>3. Rounds'
    <3>1. compaction_count' \in 0 .. MaxRounds /\ compaction_count' # 0
      BY <1>2, <1>7
    <3> QED BY <1>2, <1>3, <1>5, <2>1, <3>1 DEF Rounds
  <2>4. NothingIsForgotten'
    <3> SUFFICES ASSUME ~allow_lossy_fallback, messages' = made(asked), NEW n \in 1 .. said
                 PROVE  n \in Texts(messages') \/ Line(n) \subseteq rehydrate_summary(messages')
      BY <1>3, <1>7 DEF NothingIsForgotten, Line
    <3>1. n \in Texts(messages) \/ Line(n) \subseteq rehydrate_summary(messages)
      BY DEF IInv, NothingIsForgotten
    <3>2. /\ rehydrate_summary(messages') =
               Shown(WithoutSummaries(split.middle)) \cup rehydrate_summary(messages)
          /\ Texts(messages) \subseteq Texts(messages') \cup Texts(split.middle)
          /\ Texts(WithoutSummaries(split.middle)) = Texts(split.middle)
      BY <1>5, <1>6
    <3>3. n \in Texts(split.middle) => Line(n) \subseteq Shown(WithoutSummaries(split.middle))
      BY <3>2, ShownLines
    <3> QED BY <3>1, <3>2, <3>3
  <2> QED BY <1>5, <2>1, <2>2, <2>3, <2>4 DEF IInv
<1>8. CASE UNCHANGED <<messages, compaction_count>>
  <2>1. Transcript' /\ Rounds' /\ NothingIsForgotten'
    BY <1>3, <1>8 DEF IInv, Transcript, Rounds, NothingIsForgotten, Formed, Filled, Ordered,
                      Seated, Texts, call_ids, result_ids, SummariesOf, rehydrate_summary
  <2> QED BY <1>8, <2>1 DEF IInv, Compacted
<1> QED BY <1>4, <1>7, <1>8

-----------------------------------------------------------------------------
(***************************************************************************)
(* Where a round cuts.  Both loops step down until they stop.              *)
(***************************************************************************)
LEMMA LeastPlace ==
  ASSUME NEW n \in Nat, NEW S, S \subseteq 0 .. n, S # {}
  PROVE  \E x \in S : \A y \in S : x <= y
<1> DEFINE T == {x + 1 : x \in S}
<1>1. T \subseteq 1 .. n + 1 /\ T # {} /\ n + 1 \in Nat
  <2>1. \A x \in S : x + 1 \in 1 .. n + 1
    OBVIOUS
  <2>2. T # {} /\ n + 1 \in Nat
    <3>1. PICK x \in S : TRUE
      OBVIOUS
    <3>2. x + 1 \in T
      BY <3>1
    <3> HIDE DEF T
    <3> QED BY <3>2
  <2> QED BY <2>1, <2>2
<1>2. \A x \in S : x \in Int /\ x + 1 \in T
  OBVIOUS
<1>3. Min(T) \in T /\ \A y \in T : Min(T) <= y
  <2> HIDE DEF T
  <2> QED BY <1>1, MinOfPlaces
<1>4. PICK x \in S : Min(T) = x + 1
  BY <1>3
<1> HIDE DEF T
<1>5. \A y \in S : x <= y
  BY <1>2, <1>3, <1>4
<1> QED BY <1>5

StepsDown(f, lo, hi, Stops, next) ==
  f = [s \in lo .. hi |-> IF s \in Stops THEN s ELSE f[next[s]]]

LEMMA StepsDownFacts ==
  ASSUME NEW lo \in Nat, NEW hi \in Nat, NEW Stops, NEW next,
         \A s \in lo .. hi : s \notin Stops => next[s] \in lo .. s - 1
  PROVE  /\ \E f : StepsDown(f, lo, hi, Stops, next)
         /\ \A f : StepsDown(f, lo, hi, Stops, next) =>
              \A s \in lo .. hi : f[s] \in lo .. s /\ f[s] \in Stops
<1>1. ASSUME NEW f, StepsDown(f, lo, hi, Stops, next)
      PROVE  \A s \in lo .. hi : f[s] \in lo .. s /\ f[s] \in Stops
  <2> DEFINE Bad == {s \in lo .. hi : ~(f[s] \in lo .. s /\ f[s] \in Stops)}
  <2> SUFFICES ASSUME Bad # {} PROVE FALSE
    OBVIOUS
  <2>1. Bad \subseteq 0 .. hi
    OBVIOUS
  <2>2. PICK s \in Bad : \A y \in Bad : s <= y
    <3> HIDE DEF Bad
    <3> QED BY <2>1, LeastPlace
  <2>3. s \in lo .. hi /\ f[s] = IF s \in Stops THEN s ELSE f[next[s]]
    BY <1>1 DEF StepsDown
  <2>4. s \notin Stops
    BY <2>3
  <2>5. next[s] \in lo .. s - 1
    BY <2>3, <2>4
  <2>6. next[s] \in lo .. hi /\ next[s] \notin Bad /\ next[s] < s
    BY <2>2, <2>3, <2>5
  <2>7. f[next[s]] \in lo .. next[s] /\ f[next[s]] \in Stops
    BY <2>6
  <2>8. f[s] \in lo .. s /\ f[s] \in Stops
    BY <2>3, <2>4, <2>6, <2>7
  <2> QED BY <2>8
<1>2. \E f : StepsDown(f, lo, hi, Stops, next)
  <2> DEFINE Bad == {b \in lo .. hi : ~\E f : StepsDown(f, lo, b, Stops, next)}
  <2>1. CASE hi < lo
    <3>1. lo .. hi = {}
      BY <2>1
    <3> DEFINE f == [s \in lo .. hi |-> s]
    <3>2. f = [s \in lo .. hi |-> IF s \in Stops THEN s ELSE f[next[s]]]
      BY <3>1
    <3> QED BY <3>2 DEF StepsDown
  <2>2. CASE lo <= hi /\ Bad = {}
    BY <2>2
  <2>3. CASE lo <= hi /\ Bad # {}
    <3>1. Bad \subseteq 0 .. hi
      OBVIOUS
    <3>2. PICK b \in Bad : \A y \in Bad : b <= y
      <4> HIDE DEF Bad
      <4> QED BY <2>3, <3>1, LeastPlace
    <3>3. b \in lo .. hi /\ ~\E f : StepsDown(f, lo, b, Stops, next)
      OBVIOUS
    <3>4. \E g : StepsDown(g, lo, b - 1, Stops, next)
      <4>1. CASE b = lo
        <5>1. lo .. b - 1 = {}
          BY <4>1
        <5> DEFINE g == [s \in lo .. b - 1 |-> s]
        <5>2. g = [s \in lo .. b - 1 |-> IF s \in Stops THEN s ELSE g[next[s]]]
          BY <5>1
        <5> QED BY <5>2 DEF StepsDown
      <4>2. CASE b # lo
        <5>1. b - 1 \in lo .. hi /\ ~(b <= b - 1)
          BY <3>3, <4>2
        <5>2. b - 1 \notin Bad
          BY <3>2, <5>1
        <5> QED BY <5>1, <5>2
      <4> QED BY <4>1, <4>2
    <3>5. PICK g : StepsDown(g, lo, b - 1, Stops, next)
      BY <3>4
    <3> HIDE DEF Bad
    <3> DEFINE f == [s \in lo .. b |-> IF s = b THEN (IF b \in Stops THEN b ELSE g[next[b]])
                                       ELSE g[s]]
    <3>6. \A s \in lo .. b - 1 : g[s] = IF s \in Stops THEN s ELSE g[next[s]]
      BY <3>5 DEF StepsDown
    <3>7. \A s \in lo .. b : s \notin Stops => next[s] \in lo .. b - 1 /\ f[next[s]] = g[next[s]]
      <4> TAKE s \in lo .. b
      <4> HAVE s \notin Stops
      <4>1. s \in lo .. hi /\ next[s] \in lo .. s - 1
        BY <3>3
      <4>2. next[s] \in lo .. b - 1 /\ next[s] \in lo .. b /\ next[s] # b
        BY <3>3, <4>1
      <4> QED BY <4>2
    <3>8. f = [s \in lo .. b |-> IF s \in Stops THEN s ELSE f[next[s]]]
      <4>1. \A s \in lo .. b : f[s] = IF s \in Stops THEN s ELSE f[next[s]]
        <5> TAKE s \in lo .. b
        <5>1. CASE s = b
          BY <3>7, <5>1
        <5>2. CASE s # b
          <6>1. s \in lo .. b - 1 /\ f[s] = g[s]
            BY <3>3, <5>2
          <6> QED BY <3>6, <3>7, <6>1
        <5> QED BY <5>1, <5>2
      <4> DEFINE e == [s \in lo .. b |-> IF s \in Stops THEN s ELSE f[next[s]]]
      <4>2. DOMAIN f = lo .. b /\ DOMAIN e = lo .. b /\ \A s \in lo .. b : e[s] = f[s]
        BY <4>1
      <4>3. f = [s \in lo .. b |-> f[s]] /\ e = [s \in lo .. b |-> e[s]]
        OBVIOUS
      <4> HIDE DEF f, e
      <4>4. f = e
        BY <4>2, <4>3
      <4> QED BY <4>4 DEF e
    <3> HIDE DEF f
    <3> QED BY <3>3, <3>8 DEF StepsDown
  <2> QED BY <2>1, <2>2, <2>3
<1> QED BY <1>1, <1>2

LEMMA MissingParentsFacts ==
  ASSUME NEW ms, Formed(ms), NEW start \in Nat
  PROVE  MissingParents(ms, start) \subseteq 1 .. start
<1>1. \A id : Parents(ms, start, id) \subseteq 1 .. start
  BY DEF Parents
<1> DEFINE D == {j \in start + 1 .. Len(ms) : ms[j].kind = "results"}
           reach == [i \in D |-> UNION {Parents(ms, start, id) : id \in FirstMissing(ms, start, i)}]
           found == {i \in DOMAIN reach : reach[i] # {}}
<1>2. MissingParents(ms, start) = IF found = {} THEN {} ELSE reach[Min(found)]
  BY DEF MissingParents
<1>3. \A i \in D : reach[i] \subseteq 1 .. start
  BY <1>1
<1>4. DOMAIN reach = D /\ found \subseteq D /\ D \subseteq 1 .. Len(ms) /\ Len(ms) \in Nat
  <2>1. Len(ms) \in Nat
    BY FormedFacts
  <2> QED BY <2>1
<1> HIDE DEF reach, found, D
<1>5. found # {} => Min(found) \in found
  <2>1. found \subseteq 1 .. Len(ms)
    BY <1>4
  <2> QED BY <1>4, <2>1, MinOfPlaces
<1> QED BY <1>2, <1>3, <1>4, <1>5

LEMMA AlignFacts ==
  ASSUME NEW ms, Formed(ms), NEW tail_start \in Nat
  PROVE  /\ Align(ms, tail_start) \in 0 .. Len(ms)
         /\ Align(ms, tail_start) <= tail_start
         /\ MissingParents(ms, Align(ms, tail_start)) = {}
<1> DEFINE n == Len(ms)
           Stops == {s \in 0 .. n : MissingParents(ms, s) = {}}
           next == [s \in 0 .. n |-> Max(MissingParents(ms, s)) - 1]
           align == CHOOSE f : f = [start \in 0 .. n |->
                      LET found == MissingParents(ms, start)
                      IN  IF found = {} THEN start ELSE f[Max(found) - 1]]
<1>1. Align(ms, tail_start) = align[Earlier(tail_start, n)]
  BY DEF Align
<1>2. n \in Nat
  BY FormedFacts
<1> HIDE DEF n
<1>3. \A s \in 0 .. n : s \notin Stops => next[s] \in 0 .. s - 1
  <2> TAKE s \in 0 .. n
  <2> HAVE s \notin Stops
  <2> DEFINE found == MissingParents(ms, s)
  <2>1. found # {} /\ next[s] = Max(found) - 1 /\ s \in Nat
    BY <1>2
  <2>2. found \subseteq 1 .. s
    BY <2>1, MissingParentsFacts
  <2> HIDE DEF found, next
  <2>3. Max(found) \in 1 .. s
    BY <2>1, <2>2, MaxOfPlaces
  <2> QED BY <2>1, <2>3
<1>4. \A f : StepsDown(f, 0, n, Stops, next) <=>
             f = [start \in 0 .. n |->
                    LET found == MissingParents(ms, start)
                    IN  IF found = {} THEN start ELSE f[Max(found) - 1]]
  BY DEF StepsDown
<1> HIDE DEF Stops, next
<1>5. StepsDown(align, 0, n, Stops, next)
  <2>1. \E f : StepsDown(f, 0, n, Stops, next)
    BY <1>2, <1>3, StepsDownFacts
  <2>2. align = CHOOSE f : StepsDown(f, 0, n, Stops, next)
    BY <1>4
  <2> HIDE DEF align
  <2> QED BY <2>1, <2>2
<1> HIDE DEF align
<1>6. Earlier(tail_start, n) \in 0 .. n /\ Earlier(tail_start, n) <= tail_start
  BY <1>2 DEF Earlier
<1>7. /\ align[Earlier(tail_start, n)] \in 0 .. Earlier(tail_start, n)
      /\ align[Earlier(tail_start, n)] \in Stops
  BY <1>2, <1>3, <1>5, <1>6, StepsDownFacts
<1>8. MissingParents(ms, Align(ms, tail_start)) = {}
  BY <1>1, <1>7 DEF Stops
<1> QED BY <1>1, <1>2, <1>6, <1>7, <1>8 DEF n

LEMMA BudgetCutFacts ==
  ASSUME NEW ms, Formed(ms), NEW head_end \in Nat, NEW budget
  PROVE  select_tail_by_budget(ms, head_end, budget) \in Nat
<1> DEFINE n == Len(ms)
           soft_ceiling == (3 * budget.tokens + 1) \div 2
           keeps(start) ==
             LET count    == Len(ms) - start
                 selected == EstimateTokens(After(ms, start))
                 following == estimate_message_tokens(ms[start])
             IN  \/ count < budget.min_tail
                 \/ selected + following <= budget.tokens
                 \/ count = 0 /\ following <= soft_ceiling
           Stops == {s \in head_end .. n : s = head_end \/ ~keeps(s)}
           next == [s \in head_end .. n |-> s - 1]
           select == CHOOSE f : f = [start \in head_end .. n |->
                       IF start = head_end \/ ~keeps(start) THEN start ELSE f[start - 1]]
<1>1. \/ select_tail_by_budget(ms, head_end, budget) = n
      \/ select_tail_by_budget(ms, head_end, budget) = head_end
      \/ select_tail_by_budget(ms, head_end, budget) = select[n] /\ ~(head_end >= n)
  BY DEF select_tail_by_budget
<1>2. n \in Nat
  BY FormedFacts
<1> HIDE DEF n, keeps
<1>3. \A f : StepsDown(f, head_end, n, Stops, next) <=>
             f = [start \in head_end .. n |->
                    IF start = head_end \/ ~keeps(start) THEN start ELSE f[start - 1]]
  BY DEF StepsDown
<1>4. \A s \in head_end .. n : s \notin Stops => next[s] \in head_end .. s - 1
  BY <1>2
<1> HIDE DEF Stops, next
<1>5. StepsDown(select, head_end, n, Stops, next)
  <2>1. \E f : StepsDown(f, head_end, n, Stops, next)
    BY <1>2, <1>4, StepsDownFacts
  <2>2. select = CHOOSE f : StepsDown(f, head_end, n, Stops, next)
    BY <1>3
  <2> HIDE DEF select
  <2> QED BY <2>1, <2>2
<1> HIDE DEF select
<1>6. head_end < n => select[n] \in head_end .. n
  <2> HAVE head_end < n
  <2>1. n \in head_end .. n
    BY <1>2
  <2> QED BY <1>2, <1>4, <1>5, <2>1, StepsDownFacts
<1>7. head_end < n => select[n] \in Nat
  BY <1>2, <1>6
<1> QED BY <1>1, <1>2, <1>7

(* The n-th of a set of places from its end.                               *)
Rear(S, i) == {j \in S : j >= i}

LEMMA FromTheEnd ==
  ASSUME NEW n \in Nat, NEW S, S \subseteq 1 .. n, NEW k \in 1 .. Cardinality(S)
  PROVE  \E i \in S : Cardinality(Rear(S, i)) = k
<1> DEFINE c == Cardinality(S)
<1>1. IsFiniteSet(S) /\ c \in Nat
  <2>1. IsFiniteSet(1 .. n)
    BY FS_Interval
  <2> QED BY <2>1, FS_Subset, FS_CardinalityType
<1>2. c - k + 1 \in 1 .. c
  BY <1>1
<1>3. PICK i \in S : Rank(S, i) = c - k + 1
  BY <1>2, RankOnto
<1> DEFINE A == {j \in S : j <= i}
           B == {j \in S : j >= i}
<1>4. A \subseteq S /\ B \subseteq S
  OBVIOUS
<1>5. A \cup B = S /\ A \cap B = {i}
  <2>1. \A j \in S : j \in Int /\ i \in Int
    OBVIOUS
  <2>2. \A j \in S : j \in A \/ j \in B
    BY <2>1
  <2>3. \A j \in S : j \in A /\ j \in B => j = i
    BY <2>1
  <2>4. i \in A /\ i \in B
    BY <2>1
  <2> HIDE DEF A, B
  <2> QED BY <1>4, <2>2, <2>3, <2>4
<1>6. Cardinality(A) = c - k + 1
  BY <1>3 DEF Rank
<1> HIDE DEF A
<1>7. IsFiniteSet(A) /\ IsFiniteSet(B) /\ Cardinality(B) \in Nat
  BY <1>1, <1>4, FS_Subset, FS_CardinalityType
<1>8. c = Cardinality(A) + Cardinality(B) - 1
  <2>1. Cardinality(A \cup B) = Cardinality(A) + Cardinality(B) - Cardinality(A \cap B)
    BY <1>7, FS_Union
  <2>2. Cardinality({i}) = 1
    BY FS_Singleton
  <2> HIDE DEF B
  <2> QED BY <1>5, <2>1, <2>2
<1>9. Cardinality(B) = k
  <2> HIDE DEF B, c
  <2> QED BY <1>1, <1>6, <1>7, <1>8
<1> QED BY <1>9 DEF Rear

LEMMA ExchangeCutFacts ==
  ASSUME NEW ms, Formed(ms), NEW head_end \in Nat, NEW exchange_count \in Nat
  PROVE  tail_start_for_last_user_exchanges(ms, head_end, exchange_count) \in Int
<1> DEFINE n == Len(ms)
           users == {i \in head_end + 1 .. Len(ms) : is_real_user_message(ms[i])}
           nth == CHOOSE i \in users : Cardinality({j \in users : j >= i}) = exchange_count
           cut == tail_start_for_last_user_exchanges(ms, head_end, exchange_count)
<1>1. \/ cut = n
      \/ cut = head_end
      \/ /\ cut = Later(head_end, Align(ms, nth - 1))
         /\ exchange_count # 0 /\ ~(Cardinality(users) < exchange_count)
  BY DEF tail_start_for_last_user_exchanges
<1>2. n \in Nat /\ users \subseteq 1 .. n
  <2>1. n \in Nat
    BY FormedFacts
  <2> QED BY <2>1
<1> SUFFICES cut \in Int
  OBVIOUS
<1> HIDE DEF cut, n, users, nth
<1>3. Cardinality(users) \in Nat
  <2>1. IsFiniteSet(1 .. n)
    BY <1>2, FS_Interval
  <2> QED BY <1>2, <2>1, FS_Subset, FS_CardinalityType
<1>4. CASE /\ cut = Later(head_end, Align(ms, nth - 1))
           /\ exchange_count # 0 /\ ~(Cardinality(users) < exchange_count)
  <2>1. exchange_count \in 1 .. Cardinality(users)
    BY <1>3, <1>4
  <2>2. \E i \in users : Cardinality({j \in users : j >= i}) = exchange_count
    <3>1. \E i \in users : Cardinality(Rear(users, i)) = exchange_count
      BY <1>2, <2>1, FromTheEnd
    <3> QED BY <3>1 DEF Rear
  <2>3. nth \in users
    BY <2>2 DEF nth
  <2>4. nth - 1 \in Nat
    BY <1>2, <2>3
  <2>5. Align(ms, nth - 1) \in 0 .. n
    BY <2>4, AlignFacts DEF n
  <2> QED BY <1>2, <1>4, <2>5 DEF Later
<1> QED BY <1>1, <1>2, <1>4

LEMMA LatestFacts ==
  ASSUME NEW ms, Formed(ms)
  PROVE  /\ LatestIndex(ms, is_real_user_message) \in Int
         /\ LatestIndex(ms, is_real_user_message) <= Len(ms)
         /\ LatestIndex(ms, is_visible_assistant) \in Int
         /\ LatestIndex(ms, is_visible_assistant) <= Len(ms)
<1> DEFINE n == Len(ms)
<1>1. n \in Nat
  BY FormedFacts
<1>2. LatestIndex(ms, is_real_user_message) \in Int /\ LatestIndex(ms, is_real_user_message) <= n
  <2> DEFINE I == {i \in 1 .. n : is_real_user_message(ms[i])}
  <2>1. LatestIndex(ms, is_real_user_message) = (IF I # {} THEN Max(I) ELSE 0) - 1
    BY DEF LatestIndex, SelectLastInSeq
  <2>2. I \subseteq 1 .. n
    OBVIOUS
  <2> HIDE DEF I, n
  <2>3. I # {} => Max(I) \in 1 .. n
    BY <1>1, <2>2, MaxOfPlaces
  <2>4. (IF I # {} THEN Max(I) ELSE 0) \in 0 .. n
    BY <1>1, <2>3
  <2> QED BY <1>1, <2>1, <2>4
<1>3. LatestIndex(ms, is_visible_assistant) \in Int /\ LatestIndex(ms, is_visible_assistant) <= n
  <2> DEFINE I == {i \in 1 .. n : is_visible_assistant(ms[i])}
  <2>1. LatestIndex(ms, is_visible_assistant) = (IF I # {} THEN Max(I) ELSE 0) - 1
    BY DEF LatestIndex, SelectLastInSeq
  <2>2. I \subseteq 1 .. n
    OBVIOUS
  <2> HIDE DEF I, n
  <2>3. I # {} => Max(I) \in 1 .. n
    BY <1>1, <2>2, MaxOfPlaces
  <2>4. (IF I # {} THEN Max(I) ELSE 0) \in 0 .. n
    BY <1>1, <2>3
  <2> QED BY <1>1, <2>1, <2>4
<1> QED BY <1>2, <1>3

(* The head a round protects has the summary in it, when the system's      *)
(* prompt is protected.                                                    *)
LEMMA ProtectedHead ==
  ASSUME OptionsAssumption, protection \in Protections, Formed(messages)
  PROVE  /\ protected_head_end(messages) \in 0 .. Len(messages)
         /\ protection.protect_system_prompt /\ Seated(messages) =>
              \A i \in SummariesOf(messages) : i <= protected_head_end(messages)
<1> DEFINE n == Len(messages)
           I == {i \in 1 .. n : messages[i].kind # "chat" \/ messages[i].role # "system"}
           system == IF I # {} THEN Min(I) ELSE 0
           system_end == IF ~protection.protect_system_prompt THEN 0
                         ELSE IF system = 0 THEN n ELSE system - 1
           opening == IF ~protection.decay_head \/ compaction_count = 0
                      THEN Earlier(protection.protect_first_n_messages, n) ELSE 0
<1>1. protected_head_end(messages) = Later(system_end, opening)
  BY DEF protected_head_end, SelectInSeq
<1>2. n \in Nat /\ DOMAIN messages = 1 .. n /\ \A i \in 1 .. n : Proper(messages[i])
  BY FormedFacts
<1>3. protection.protect_first_n_messages \in Nat /\ protection.protect_system_prompt \in BOOLEAN
  BY DEF OptionsAssumption
<1>4. opening \in 0 .. n
  <2> HIDE DEF n
  <2> QED BY <1>2, <1>3 DEF Earlier
<1>5. I \subseteq 1 .. n
  OBVIOUS
<1>6. \A i \in 1 .. n : i \in I <=> messages[i].kind # "chat" \/ messages[i].role # "system"
  OBVIOUS
<1> HIDE DEF n, I, opening
<1>7. I # {} => Min(I) \in 1 .. n /\ Min(I) \in I
  BY <1>2, <1>5, MinOfPlaces
<1>8. system_end \in 0 .. n
  BY <1>2, <1>7
<1>9. ASSUME protection.protect_system_prompt, Seated(messages), NEW i \in SummariesOf(messages)
      PROVE  i <= system_end
  <2>1. i \in 1 .. n /\ is_compaction_summary_message(messages[i])
    BY <1>2 DEF SummariesOf
  <2>2. messages[i].kind = "chat" /\ messages[i].role = "system"
    BY <1>2, <2>1 DEF Proper, is_compaction_summary_message
  <2>3. CASE I = {}
    <3>1. system_end = n
      BY <1>9, <2>3
    <3> QED BY <1>2, <2>1, <3>1
  <2>4. CASE I # {}
    <3>1. Min(I) # i
      BY <1>6, <1>7, <2>2, <2>4
    <3>2. ~(Min(I) < i)
      BY <1>2, <1>6, <1>7, <1>9, <2>4 DEF Seated
    <3>3. system_end = Min(I) - 1
      BY <1>7, <1>9, <2>4
    <3> QED BY <1>2, <1>7, <2>1, <2>4, <3>1, <3>2, <3>3
  <2> QED BY <2>3, <2>4
<1> HIDE DEF system_end
<1>10. Later(system_end, opening) \in 0 .. n /\ system_end <= Later(system_end, opening)
  BY <1>2, <1>4, <1>8 DEF Later
<1>11. ASSUME protection.protect_system_prompt, Seated(messages), NEW i \in SummariesOf(messages)
       PROVE  i <= Later(system_end, opening)
  <2>1. i <= system_end /\ i \in Int
    BY <1>2, <1>9, <1>11 DEF SummariesOf
  <2> QED BY <1>2, <1>8, <1>10, <2>1
<1> QED BY <1>1, <1>10, <1>11 DEF n

-----------------------------------------------------------------------------
(***************************************************************************)
(* Each action keeps the invariant.                                        *)
(***************************************************************************)
LEMMA InitFacts == Init /\ OptionsAssumption => IInv
<1> SUFFICES ASSUME Init, OptionsAssumption PROVE IInv
  OBVIOUS
<1> DEFINE prompt == Chat("system", 0, FALSE)
<1>1. /\ Proper(prompt) /\ prompt.kind = "chat" /\ prompt.n = 0
      /\ ~is_compaction_summary_message(prompt)
  BY DEF Chat, Proper, is_compaction_summary_message
<1> HIDE DEF prompt
<1>2. messages = <<prompt>>
  BY DEF Init, prompt
<1>3. DOMAIN messages = {1} /\ messages[1] = prompt
  BY <1>2
<1>4. Formed(messages)
  <2>1. messages \in Seq({prompt})
    BY <1>2
  <2>2. IsSeq(messages)
    BY <2>1, SeqOver
  <2> QED BY <1>1, <1>3, <2>2 DEF Formed
<1>12. Filled(messages)
  BY <1>1, <1>3 DEF Filled
<1>5. SummariesOf(messages) = {}
  BY <1>1, <1>3 DEF SummariesOf
<1>6. Ordered(messages) /\ Seated(messages)
  BY <1>1, <1>3, <1>5 DEF Ordered, Seated
<1>7. Texts(messages) = {}
  <2>1. \A t : t \notin Texts(messages)
    BY <1>1, <1>3, IdsOf
  <2> QED BY <2>1
<1>8. call_ids(messages) = {} /\ result_ids(messages) = {}
  <2>1. \A t : t \notin call_ids(messages) /\ t \notin result_ids(messages)
    BY <1>1, <1>3, IdsOf
  <2> QED BY <2>1
<1>9. Transcript
  BY <1>4, <1>6, <1>7, <1>8, <1>12 DEF Init, Transcript
<1>10. Rounds
  <2>1. MaxRounds \in Nat /\ MaxDigests \in Nat
    BY DEF OptionsAssumption
  <2>2. compaction_count = 0 /\ digested = 0 /\ protection \in Protections
    BY DEF Init
  <2> QED BY <1>5, <2>1, <2>2 DEF Rounds
<1>11. NothingIsForgotten
  <2>1. 1 .. said = {}
    BY DEF Init
  <2> QED BY <2>1 DEF NothingIsForgotten
<1> QED BY <1>9, <1>10, <1>11 DEF IInv

LEMMA AppendKeeps ==
  ASSUME IInv, NEW m, Proper(m), ~is_compaction_summary_message(m),
         messages' = Append(messages, m),
         said' \in Nat, said <= said', called' \in Nat, called <= called',
         m.kind = "calls" => m.ids \subseteq (called + 1) .. called',
         m.kind = "results" => ResultIds(m) \subseteq 1 .. called /\ m.results # <<>>,
         m.kind # "results" => m.n \in 0 .. said',
         \A t \in said + 1 .. said' : m.kind # "results" /\ m.n = t,
         pending' \subseteq 1 .. called',
         UNCHANGED <<compaction_count, digested, protection, allow_lossy_fallback>>
  PROVE  IInv'
<1>1. /\ Formed(messages) /\ Filled(messages) /\ Ordered(messages) /\ Seated(messages)
      /\ said \in Nat /\ called \in Nat
      /\ Texts(messages) \subseteq 1 .. said
      /\ call_ids(messages) \subseteq 1 .. called
      /\ result_ids(messages) \subseteq 1 .. called
  BY DEF IInv, Transcript
<1>2. m.kind = "calls" => m.ids \cap result_ids(messages) = {}
  <2>1. \A x : ~(x \in (called + 1) .. called' /\ x \in 1 .. called)
    BY <1>1
  <2> QED BY <1>1, <2>1
<1>3. /\ Formed(messages') /\ Filled(messages')
      /\ Ordered(messages')
      /\ Seated(messages')
      /\ SummariesOf(messages') = SummariesOf(messages) /\ DOMAIN messages \subseteq DOMAIN messages'
      /\ rehydrate_summary(messages') = rehydrate_summary(messages)
      /\ Texts(messages') =
           Texts(messages) \cup (IF m.kind = "results" THEN {} ELSE {m.n} \ {0})
      /\ call_ids(messages') =
           call_ids(messages) \cup (IF m.kind = "calls" THEN m.ids ELSE {})
      /\ result_ids(messages') =
           result_ids(messages) \cup (IF m.kind = "results" THEN ResultIds(m) ELSE {})
  BY <1>1, <1>2, AppendFacts
<1>4. /\ 1 .. said \subseteq 1 .. said' /\ 1 .. called \subseteq 1 .. called'
      /\ (called + 1) .. called' \subseteq 1 .. called'
  BY <1>1
<1>5. Transcript'
  <2>1. Texts(messages') \subseteq 1 .. said'
    <3>1. m.kind # "results" => {m.n} \ {0} \subseteq 1 .. said'
      OBVIOUS
    <3> QED BY <1>1, <1>3, <1>4, <3>1
  <2>2. call_ids(messages') \subseteq 1 .. called'
    BY <1>1, <1>3, <1>4
  <2>3. result_ids(messages') \subseteq 1 .. called'
    BY <1>1, <1>3, <1>4
  <2> QED BY <1>3, <2>1, <2>2, <2>3 DEF Transcript
<1>6. Rounds'
  BY <1>3 DEF IInv, Rounds
<1>7. NothingIsForgotten'
  <2> SUFFICES ASSUME ~allow_lossy_fallback, NEW t \in 1 .. said'
               PROVE  t \in Texts(messages') \/ Line(t) \subseteq rehydrate_summary(messages')
    BY DEF NothingIsForgotten, Line
  <2>1. CASE t \in 1 .. said
    BY <1>3, <2>1 DEF IInv, NothingIsForgotten
  <2>2. CASE t \notin 1 .. said
    <3>1. t \in said + 1 .. said' /\ t # 0
      BY <1>1, <2>2
    <3> QED BY <1>3, <3>1
  <2> QED BY <2>1, <2>2
<1> QED BY <1>5, <1>6, <1>7 DEF IInv

LEMMA SaysKeeps ==
  ASSUME IInv, NEW role, NEW hidden, Room,
         messages' = Append(messages, Chat(role, said + 1, hidden)),
         said' = said + 1,
         UNCHANGED <<pending, called, compaction_count, digested, protection, allow_lossy_fallback>>
  PROVE  IInv'
<1> DEFINE m == Chat(role, said + 1, hidden)
<1>1. said \in Nat /\ called \in Nat /\ pending \subseteq 1 .. called
  BY DEF IInv, Transcript
<1>2. m.kind = "chat" /\ m.n = said + 1 /\ m.is_compaction_summary = FALSE
  BY DEF Chat
<1> HIDE DEF m
<1>3. Proper(m) /\ ~is_compaction_summary_message(m)
  <2>1. m.n \in Nat
    BY <1>1, <1>2
  <2>2. ~is_compaction_summary_message(m)
    BY <1>2 DEF is_compaction_summary_message
  <2> QED BY <1>2, <2>1, <2>2 DEF Proper
<1>4. messages' = Append(messages, m)
  BY DEF m
<1>5. \A t \in said + 1 .. said' : m.kind # "results" /\ m.n = t
  BY <1>1, <1>2
<1>6. /\ said' \in Nat /\ said <= said' /\ called' \in Nat /\ called <= called'
      /\ m.n \in 0 .. said' /\ pending' \subseteq 1 .. called'
  BY <1>1, <1>2
<1> QED BY <1>2, <1>3, <1>4, <1>5, <1>6, AppendKeeps

LEMMA CallsKeeps ==
  ASSUME IInv, NEW count \in 1 .. 2, NEW text \in BOOLEAN, AssistantCalls(count, text)
  PROVE  IInv'
<1> DEFINE ids == called + 1 .. called + count
           m == AssistantToolCalls(ids, IF text THEN said + 1 ELSE 0)
<1>1. said \in Nat /\ called \in Nat /\ pending \subseteq 1 .. called
  BY DEF IInv, Transcript
<1>2. /\ messages' = Append(messages, m) /\ pending' = pending \cup ids
      /\ called' = called + count /\ said' = IF text THEN said + 1 ELSE said
      /\ UNCHANGED <<compaction_count, digested, protection, allow_lossy_fallback>>
  BY DEF AssistantCalls
<1>3. /\ m = [kind |-> "calls", ids |-> ids, n |-> IF text THEN said + 1 ELSE 0]
      /\ m.kind = "calls" /\ m.ids = ids /\ m.n = IF text THEN said + 1 ELSE 0
  BY DEF AssistantToolCalls
<1> HIDE DEF m
<1>4. ids \subseteq Nat /\ ids \subseteq 1 .. called' /\ ids \subseteq (called + 1) .. called'
  BY <1>1, <1>2
<1> HIDE DEF ids
<1>5. Proper(m) /\ ~is_compaction_summary_message(m)
  <2>1. (IF text THEN said + 1 ELSE 0) \in Nat
    BY <1>1
  <2>2. m \in [kind : {"calls"}, ids : SUBSET Nat, n : Nat]
    BY <1>3, <1>4, <2>1
  <2> QED BY <1>3, <2>2 DEF Proper, is_compaction_summary_message
<1>6. /\ said' \in Nat /\ said <= said' /\ called' \in Nat /\ called <= called'
      /\ m.n \in 0 .. said'
  BY <1>1, <1>2, <1>3
<1>7. pending' \subseteq 1 .. called'
  <2>1. 1 .. called \subseteq 1 .. called'
    BY <1>1, <1>6
  <2> QED BY <1>1, <1>2, <1>4, <2>1
<1>8. \A t \in said + 1 .. said' : m.kind # "results" /\ m.n = t
  BY <1>1, <1>2, <1>3
<1> QED BY <1>2, <1>3, <1>4, <1>5, <1>6, <1>7, <1>8, AppendKeeps

LEMMA AnswerKeeps ==
  ASSUME IInv, NEW S \in (SUBSET pending) \ {{}}, NEW says \in Contents,
         NEW ids \in SetToSeqs(S),
         ToolsAnswer(ids, says)
  PROVE  IInv'
<1> DEFINE c == Cardinality(S)
           rs == [i \in DOMAIN ids |-> [id |-> ids[i], content |-> Full(says)]]
           m == ToolResults(rs)
<1>1. said \in Nat /\ called \in Nat /\ pending \subseteq 1 .. called
  BY DEF IInv, Transcript
<1>13. IsFiniteSet(S) /\ S # {} /\ S \subseteq 1 .. called
  <2>1. S \subseteq pending /\ S # {}
    OBVIOUS
  <2>2. S \subseteq 1 .. called /\ IsFiniteSet(1 .. called)
    BY <1>1, <2>1, FS_Interval
  <2> QED BY <2>1, <2>2, FS_Subset
<1>2. c \in Nat
  BY <1>13, FS_CardinalityType
<1> HIDE DEF c
<1>3. DOMAIN ids = 1 .. c /\ \A i \in 1 .. c : ids[i] \in S
  <2>1. ids \in [1 .. c -> S]
    BY DEF SetToSeqs, c
  <2> QED BY <2>1
<1>4. DOMAIN rs = 1 .. c /\ \A i \in 1 .. c : IsAnswer(rs[i]) /\ rs[i].id = ids[i]
  <2>1. IsContent(Full(says))
    <3>1. <<>> \in Seq({})
      OBVIOUS
    <3>2. IsSeq(<<>>)
      BY <3>1, SeqOver
    <3> QED BY <3>2 DEF Full, IsContent
  <2> QED BY <1>3, <2>1 DEF IsAnswer
<1>5. IsSeq(rs)
  <2>1. rs = [i \in 1 .. c |-> rs[i]]
    BY <1>3
  <2> HIDE DEF rs
  <2> QED BY <1>2, <2>1, SeqIs
<1> HIDE DEF rs
<1>6. m.kind = "results" /\ m.results = rs
  BY DEF ToolResults
<1>7. /\ messages' = Append(messages, m) /\ pending' = pending \ ToSet(ids)
      /\ UNCHANGED <<said, called, compaction_count, digested, protection, allow_lossy_fallback>>
  BY DEF ToolsAnswer, rs
<1> HIDE DEF m
<1>8. Proper(m) /\ ~is_compaction_summary_message(m)
  <2>1. m = ToolResults(m.results)
    BY <1>6 DEF m
  <2> QED BY <1>4, <1>5, <1>6, <2>1 DEF Proper, is_compaction_summary_message
<1>12. rs # <<>>
  <2>2. c # 0
    BY <1>13, FS_EmptySet DEF c
  <2>3. 1 \in DOMAIN rs
    BY <1>2, <1>4, <2>2
  <2> QED BY <2>3
<1>9. ResultIds(m) \subseteq 1 .. called
  <2>1. ASSUME NEW id \in ResultIds(m) PROVE id \in S
    BY <1>3, <1>4, <1>6 DEF ResultIds, ToSet
  <2> QED BY <1>1, <2>1
<1>10. /\ said' \in Nat /\ said <= said' /\ called' \in Nat /\ called <= called'
       /\ pending' \subseteq 1 .. called'
  <2>1. said' = said /\ called' = called /\ pending' \subseteq pending
    BY <1>7
  <2> QED BY <1>1, <2>1
<1>11. said + 1 .. said' = {}
  BY <1>1, <1>7
<1> QED BY <1>6, <1>7, <1>8, <1>9, <1>10, <1>11, <1>12, AppendKeeps

LEMMA DigestKeeps ==
  ASSUME IInv, OptionsAssumption, NEW options, DigestPass(options)
  PROVE  IInv'
<1>1. /\ Formed(messages) /\ Filled(messages) /\ Ordered(messages) /\ Seated(messages)
      /\ said \in Nat /\ called \in Nat
      /\ Texts(messages) \subseteq 1 .. said
      /\ call_ids(messages) \subseteq 1 .. called
      /\ result_ids(messages) \subseteq 1 .. called
      /\ pending \subseteq 1 .. called
  BY DEF IInv, Transcript
<1>2. /\ messages' = digest_old_tool_results(messages, options)
      /\ digested < MaxDigests /\ digested' = digested + 1
      /\ UNCHANGED <<pending, said, called, compaction_count, protection, allow_lossy_fallback>>
  BY DEF DigestPass
<1>3. /\ Formed(messages') /\ Filled(messages') /\ Ordered(messages') /\ Seated(messages')
      /\ SummariesOf(messages') = SummariesOf(messages) /\ DOMAIN messages' = DOMAIN messages
      /\ rehydrate_summary(messages') = rehydrate_summary(messages)
      /\ Texts(messages') = Texts(messages)
      /\ call_ids(messages') = call_ids(messages)
      /\ result_ids(messages') = result_ids(messages)
  BY <1>1, <1>2, DigestFacts
<1>4. Transcript'
  BY <1>1, <1>2, <1>3 DEF Transcript
<1>5. Rounds'
  <2>1. digested' \in 0 .. MaxDigests
    BY <1>2 DEF IInv, Rounds, OptionsAssumption
  <2> QED BY <1>2, <1>3, <2>1 DEF IInv, Rounds
<1>6. NothingIsForgotten'
  BY <1>2, <1>3 DEF IInv, NothingIsForgotten
<1> QED BY <1>4, <1>5, <1>6 DEF IInv

LEMMA CompactKeeps ==
  ASSUME IInv, OptionsAssumption,
         \/ \E exchange_count \in ExchangeCounts : CompactKeepingExchanges(exchange_count)
         \/ \E budget \in TokenBudgets : CompactToBudget(budget)
  PROVE  IInv' /\ (Compacted => Paired(messages'))
<1> DEFINE head_end == protected_head_end(messages)
<1>1. Formed(messages) /\ protection \in Protections
  BY DEF IInv, Transcript, Rounds
<1>2. head_end \in Nat
  BY <1>1, ProtectedHead
<1> HIDE DEF head_end
<1>3. CASE \E exchange_count \in ExchangeCounts : CompactKeepingExchanges(exchange_count)
  <2>1. PICK exchange_count \in ExchangeCounts : CompactKeepingExchanges(exchange_count)
    BY <1>3
  <2>2. exchange_count \in Nat
    BY DEF OptionsAssumption
  <2> DEFINE cut == tail_start_for_last_user_exchanges(messages, head_end, exchange_count)
  <2>3. cut \in Int
    BY <1>1, <1>2, <2>2, ExchangeCutFacts
  <2>4. Round(cut)
    BY <2>1 DEF CompactKeepingExchanges, head_end
  <2> HIDE DEF cut
  <2> QED BY <1>2, <2>3, <2>4, RoundFacts DEF head_end
<1>4. CASE \E budget \in TokenBudgets : CompactToBudget(budget)
  <2>1. PICK budget \in TokenBudgets : CompactToBudget(budget)
    BY <1>4
  <2> DEFINE start == select_tail_by_budget(messages, head_end, budget)
             first == Anchored(start, is_real_user_message)
             second == Anchored(first, is_visible_assistant)
             cut == Align(messages, second)
  <2>2. start \in Nat
    BY <1>1, <1>2, BudgetCutFacts
  <2>3. Round(cut)
    BY <2>1 DEF CompactToBudget, head_end
  <2> HIDE DEF start
  <2>4. first \in Nat
    BY <1>1, <2>2, LatestFacts DEF Anchored, Earlier
  <2> HIDE DEF first
  <2>5. second \in Nat
    BY <1>1, <2>4, LatestFacts DEF Anchored, Earlier
  <2> HIDE DEF second
  <2>6. cut \in Int
    <3>1. cut \in 0 .. Len(messages)
      BY <1>1, <2>5, AlignFacts
    <3> HIDE DEF cut
    <3> QED BY <3>1
  <2> HIDE DEF cut
  <2> QED BY <1>2, <2>3, <2>6, RoundFacts DEF head_end
<1> QED BY <1>3, <1>4

LEMMA StepFacts ==
  ASSUME IInv, OptionsAssumption, [Next]_vars
  PROVE  IInv' /\ (Compacted => Paired(messages'))
<1>1. ASSUME NEW hidden \in BOOLEAN, UserSays(hidden) PROVE IInv' /\ ~Compacted
  BY <1>1, SaysKeeps DEF UserSays, Compacted
<1>2. CASE AssistantSays
  BY <1>2, SaysKeeps DEF AssistantSays, Compacted
<1>3. ASSUME NEW count \in 1 .. 2, NEW text \in BOOLEAN, AssistantCalls(count, text)
      PROVE  IInv' /\ ~Compacted
  BY <1>3, CallsKeeps DEF AssistantCalls, Compacted
<1>4. ASSUME NEW S \in (SUBSET pending) \ {{}}, NEW says \in Contents,
         NEW ids \in SetToSeqs(S), ToolsAnswer(ids, says)
      PROVE  IInv' /\ ~Compacted
  BY <1>4, AnswerKeeps DEF ToolsAnswer, Compacted
<1>5. ASSUME NEW options, DigestPass(options) PROVE IInv' /\ ~Compacted
  BY <1>5, DigestKeeps DEF DigestPass, Compacted
<1>6. CASE \/ \E exchange_count \in ExchangeCounts : CompactKeepingExchanges(exchange_count)
           \/ \E budget \in TokenBudgets : CompactToBudget(budget)
  BY <1>6, CompactKeeps
<1>7. CASE UNCHANGED vars
  BY <1>7 DEF vars, IInv, Transcript, Rounds, NothingIsForgotten, Compacted, Formed, Filled,
              Ordered, Seated, Texts, call_ids, result_ids, SummariesOf, rehydrate_summary
<1> QED BY <1>1, <1>2, <1>3, <1>4, <1>5, <1>6, <1>7 DEF Next

THEOREM IInvHolds == Spec => []IInv
<1>1. Init => IInv
  BY InitFacts, OptionsAssumption
<1>2. IInv /\ [Next]_vars => IInv'
  BY StepFacts, OptionsAssumption
<1> QED BY <1>1, <1>2, PTL DEF Spec

-----------------------------------------------------------------------------
(* Unless the caller has accepted a lossy fallback, of everything that     *)
(* user and assistant said at least the line that a prompt shows of it is  *)
(* in the transcript or covered by its summary, over any number of rounds, *)
(* wherever they cut and however long the texts are                        *)
(* (build_summary_prompt, decide_summary_failure).                         *)
THEOREM NothingForgotten == Spec => []NothingIsForgotten
<1>1. IInv => NothingIsForgotten
  BY DEF IInv
<1> QED BY <1>1, IInvHolds, PTL

(* After a round every result comes after its call and every call has a    *)
(* result, whatever the digest passes and the earlier rounds did.          *)
THEOREM PairsAreKept == Spec => PairsStay
<1>1. IInv /\ [Next]_vars =>
        [Compacted =>
           /\ result_ids(messages') = call_ids(messages')
           /\ \A i, j \in DOMAIN messages', id \in 1 .. called :
                OneOf(messages', i, j, id) => i < j
           /\ \A m \in ToSet(messages') :
                /\ m.kind = "calls" => m.ids # {} \/ m.n # 0
                /\ m.kind = "results" => m.results # <<>>]_vars
  BY StepFacts, OptionsAssumption DEF Paired
<1> QED BY <1>1, IInvHolds, PTL DEF Spec, PairsStay

(* Every variable keeps its type; after any number of rounds there is one  *)
(* summary, and where the system's prompt is protected it is in the head   *)
(* that the next round protects.                                           *)
THEOREM TypeCorrect == Spec => []TypeOK
<1>1. ASSUME IInv PROVE TypeOK
  <2>1. /\ Formed(messages) /\ Seated(messages)
        /\ Texts(messages) \subseteq 1 .. said /\ call_ids(messages) \subseteq 1 .. called
        /\ pending \subseteq 1 .. called
        /\ compaction_count \in 0 .. MaxRounds /\ digested \in 0 .. MaxDigests
        /\ protection \in Protections
    BY <1>1 DEF IInv, Transcript, Rounds
  <2>2. \A i \in DOMAIN messages : messages[i].kind \in {"chat", "calls", "results"}
    BY <2>1, FormedFacts DEF Proper
  <2>3. Cardinality(SummariesOf(messages)) = IF compaction_count = 0 THEN 0 ELSE 1
    <3>1. CASE compaction_count = 0
      BY <1>1, <3>1, FS_EmptySet DEF IInv, Rounds
    <3>2. CASE compaction_count # 0
      BY <1>1, <3>2, FS_Singleton DEF IInv, Rounds
    <3> QED BY <3>1, <3>2
  <2>4. protection.protect_system_prompt =>
          \A i \in SummariesOf(messages) : i <= protected_head_end(messages)
    BY <2>1, ProtectedHead, OptionsAssumption
  <2> QED BY <2>1, <2>2, <2>3, <2>4 DEF TypeOK
<1> QED BY <1>1, IInvHolds, PTL

-----------------------------------------------------------------------------
(***************************************************************************)
(* What a round leaves of the end of a transcript.                         *)
(***************************************************************************)
Increasing(f, D) == \A i, j \in D : i < j => f[i] < f[j]

LEMMA IncreasingFacts ==
  ASSUME NEW D, NEW E, D \subseteq Int, E \subseteq Int, NEW f \in [D -> E], Increasing(f, D)
  PROVE  \A i, j \in D : /\ f[i] < f[j] <=> i < j
                         /\ f[i] = f[j] <=> i = j
                         /\ f[i] <= f[j] <=> i <= j
<1> TAKE i, j \in D
<1>1. i \in Int /\ j \in Int /\ f[i] \in Int /\ f[j] \in Int
  OBVIOUS
<1>2. (i < j => f[i] < f[j]) /\ (j < i => f[j] < f[i]) /\ (i = j => f[i] = f[j])
  BY DEF Increasing
<1> QED BY <1>1, <1>2

(* A sequence whose entries are, in order, all of another's from some      *)
(* place on is a suffix of it.                                             *)
LEMMA SuffixFromPlaces ==
  ASSUME NEW s, NEW t, IsSeq(s), IsSeq(t), NEW at \in [DOMAIN s -> DOMAIN t],
         Increasing(at, DOMAIN s), \A i \in DOMAIN s : s[i] = t[at[i]],
         \A i \in DOMAIN s, j \in DOMAIN t : at[i] <= j => \E k \in DOMAIN s : at[k] = j
  PROVE  IsSuffix(s, t)
<1> DEFINE n == Len(s)
           m == Len(t)
<1>1. /\ n \in Nat /\ DOMAIN s = 1 .. n
      /\ m \in Nat /\ DOMAIN t = 1 .. m
  BY SeqFacts
<1> HIDE DEF n, m
<1>2. \A i, j \in 1 .. n : at[i] \in 1 .. m /\ (at[i] < at[j] <=> i < j) /\ (at[i] <= at[j] <=> i <= j)
  <2>1. at \in [1 .. n -> 1 .. m] /\ Increasing(at, 1 .. n)
    BY <1>1
  <2>2. 1 .. n \subseteq Int /\ 1 .. m \subseteq Int
    BY <1>1
  <2> QED BY <2>1, <2>2, IncreasingFacts
<1>3. \A i \in 1 .. n : at[i] = m - n + i
  <2> DEFINE Bad == {i \in 1 .. n : at[i] # m - n + i}
  <2> SUFFICES ASSUME Bad # {} PROVE FALSE
    OBVIOUS
  <2>1. PICK i \in Bad : \A y \in Bad : y <= i
    <3>1. Bad \subseteq 1 .. n
      OBVIOUS
    <3> HIDE DEF Bad
    <3> QED BY <1>1, <3>1, MaxOfPlaces
  <2>2. i \in 1 .. n /\ at[i] # m - n + i /\ at[i] \in 1 .. m
    BY <1>2
  <2>3. CASE i = n
    <3>1. at[n] < m /\ m \in 1 .. m /\ at[n] <= m /\ n \in 1 .. n
      BY <1>1, <2>2, <2>3
    <3>2. PICK k \in 1 .. n : at[k] = m
      BY <1>1, <3>1
    <3>3. n < k
      BY <1>2, <3>1, <3>2
    <3> QED BY <1>1, <3>3
  <2>4. CASE i # n
    <3>1. i + 1 \in 1 .. n /\ ~(i + 1 <= i) /\ i < i + 1
      BY <1>1, <2>2, <2>4
    <3>2. i + 1 \notin Bad
      BY <2>1, <3>1
    <3>3. at[i + 1] = m - n + (i + 1) /\ at[i] < at[i + 1] /\ at[i + 1] \in 1 .. m
      BY <1>2, <2>2, <3>1, <3>2
    <3> DEFINE j == m - n + i
    <3>4. at[i] <= j /\ j \in 1 .. m /\ at[i] < j /\ j < at[i + 1]
      <4> DEFINE x == at[i]
                 y == at[i + 1]
      <4>1. x \in 1 .. m /\ y \in 1 .. m /\ x < y /\ x # j /\ y = j + 1 /\ j \in Int
        <5>1. y = m - n + (i + 1) /\ x < y /\ y \in 1 .. m /\ x \in 1 .. m /\ x # j
          BY <2>2, <3>3
        <5>2. m - n + (i + 1) = j + 1 /\ j \in Int
          BY <1>1, <2>2
        <5> QED BY <5>1, <5>2
      <4> HIDE DEF x, y, j
      <4>2. x <= j /\ j \in 1 .. m /\ x < j /\ j < y
        BY <1>1, <4>1
      <4> QED BY <4>2 DEF x, y
    <3> HIDE DEF j
    <3>5. PICK k \in 1 .. n : at[k] = j
      BY <1>1, <2>2, <3>4
    <3>6. i < k /\ k < i + 1
      BY <1>2, <2>2, <3>1, <3>4, <3>5
    <3> QED BY <1>1, <2>2, <3>6
  <2> QED BY <2>3, <2>4
<1>4. n <= m
  <2>1. CASE n = 0
    BY <1>1, <2>1
  <2>2. CASE n # 0
    <3>1. 1 \in 1 .. n
      BY <1>1, <2>2
    <3>2. at[1] = m - n + 1 /\ at[1] \in 1 .. m
      BY <1>2, <1>3, <3>1
    <3> QED BY <1>1, <3>2
  <2> QED BY <2>1, <2>2
<1> DEFINE rs == Reverse(s)
           rt == Reverse(t)
<1>5. /\ rs = [i \in 1 .. n |-> s[n - i + 1]]
      /\ rt = [i \in 1 .. m |-> t[m - i + 1]]
  BY DEF Reverse, n, m
<1> HIDE DEF rs, rt
<1>6. IsSeq(rs) /\ Len(rs) = n /\ IsSeq(rt) /\ Len(rt) = m
  <2>1. rs = [i \in 1 .. n |-> rs[i]] /\ rt = [i \in 1 .. m |-> rt[i]]
    BY <1>5
  <2> QED BY <1>1, <2>1, SeqIs
<1>7. \A i \in 1 .. n : rs[i] = rt[i]
  <2> TAKE i \in 1 .. n
  <2>1. n - i + 1 \in 1 .. n /\ i \in 1 .. m /\ m - n + (n - i + 1) = m - i + 1
    BY <1>1, <1>4
  <2>2. s[n - i + 1] = t[m - i + 1]
    BY <1>1, <1>3, <2>1
  <2> QED BY <1>5, <2>1, <2>2
<1>8. SubSeq(rs, 1, n) = SubSeq(rt, 1, n)
  <2>1. rs \in Seq(ToSet(rs) \cup ToSet(rt)) /\ rt \in Seq(ToSet(rs) \cup ToSet(rt))
    <3>1. rs \in Seq(ToSet(rs)) /\ rt \in Seq(ToSet(rt))
      BY <1>6 DEF IsSeq
    <3> DEFINE A == ToSet(rs)
               B == ToSet(rt)
    <3> HIDE DEF A, B
    <3>2. \A x \in Seq(A) : x \in Seq(A \cup B)
      OBVIOUS
    <3>3. \A x \in Seq(B) : x \in Seq(A \cup B)
      OBVIOUS
    <3> QED BY <3>1, <3>2, <3>3 DEF A, B
  <2> DEFINE U == ToSet(rs) \cup ToSet(rt)
             a == SubSeq(rs, 1, n)
             b == SubSeq(rt, 1, n)
  <2>2. rs \in Seq(U) /\ rt \in Seq(U)
    BY <2>1
  <2> HIDE DEF U
  <2>3. /\ a \in Seq(U) /\ Len(a) = n /\ \A i \in 1 .. n : a[i] = rs[i]
        /\ b \in Seq(U) /\ Len(b) = n /\ \A i \in 1 .. n : b[i] = rt[i]
    BY <1>1, <1>4, <1>6, <2>2
  <2> HIDE DEF a, b
  <2>4. a = b
    <3>1. a = [i \in 1 .. n |-> a[i]] /\ b = [i \in 1 .. n |-> b[i]]
      BY <2>3
    <3>2. \A i \in 1 .. n : a[i] = b[i]
      BY <1>7, <2>3
    <3> QED BY <3>1, <3>2
  <2> QED BY <2>4 DEF a, b
<1> QED BY <1>4, <1>6, <1>8 DEF IsSuffix, IsPrefix, rs, rt

(***************************************************************************)
(* The places after c of what is spoken in ms, and where v has it: in the  *)
(* same order, with nothing else that is spoken between or after.          *)
(***************************************************************************)
Late(ms, c) == {i \in DOMAIN ms : c < i /\ IsSpoken(ms[i])}

EndsLike(v, ms, c, at) ==
  /\ at \in [Late(ms, c) -> DOMAIN v]
  /\ Increasing(at, Late(ms, c))
  /\ \A i \in Late(ms, c) : v[at[i]] = ms[i]
  /\ \A i \in Late(ms, c), j \in DOMAIN v :
       IsSpoken(v[j]) /\ at[i] <= j => \E k \in Late(ms, c) : at[k] = j

Keeps(v, ms, c) == \E at : EndsLike(v, ms, c, at)

(* Picking from a sequence that differs from v in nothing late keeps it.   *)
LEMMA PickKeeps ==
  ASSUME NEW ms, Formed(ms), NEW c, NEW v, IsSeq(v), NEW at, EndsLike(v, ms, c, at),
         NEW q, IsSeq(q), DOMAIN q = DOMAIN v, NEW S, S \subseteq DOMAIN v,
         \A i \in Late(ms, c) : at[i] \in S /\ q[at[i]] = ms[i],
         \A j \in S : IsSpoken(q[j]) => IsSpoken(v[j])
  PROVE  Keeps(Picked(q, S), ms, c)
<1> DEFINE L == Late(ms, c)
           w == Picked(q, S)
<1>1. L \subseteq Int /\ DOMAIN v \subseteq Int
  BY FormedFacts, SeqFacts DEF Late
<1>2. /\ at \in [L -> DOMAIN v] /\ Increasing(at, L)
      /\ \A i \in L, j \in DOMAIN v : IsSpoken(v[j]) /\ at[i] <= j => \E k \in L : at[k] = j
  BY DEF EndsLike
<1>3. IsSeq(w)
  BY PickedFacts
<1>4. PICK from \in [DOMAIN w -> S] :
        /\ \A j \in DOMAIN w : w[j] = q[from[j]]
        /\ \A i, j \in DOMAIN w : i < j => from[i] < from[j]
        /\ \A i \in S : \E j \in DOMAIN w : from[j] = i
  BY PickedFacts
<1> HIDE DEF L, w
<1>5. \A i, j \in DOMAIN w : /\ from[i] < from[j] <=> i < j
                             /\ from[i] = from[j] <=> i = j
                             /\ from[i] <= from[j] <=> i <= j
  <2>1. DOMAIN w \subseteq Int /\ S \subseteq Int
    BY <1>1, <1>3, SeqFacts
  <2>2. Increasing(from, DOMAIN w)
    BY <1>4 DEF Increasing
  <2> QED BY <2>1, <2>2, IncreasingFacts
<1> DEFINE place(i) == CHOOSE j \in DOMAIN w : from[j] = at[i]
           new == [i \in L |-> place(i)]
<1>6. \A i \in L : at[i] \in S /\ q[at[i]] = ms[i]
  BY DEF L
<1>7. \A i \in L : place(i) \in DOMAIN w /\ from[place(i)] = at[i]
  BY <1>4, <1>6
<1>8. new \in [L -> DOMAIN w] /\ \A i \in L : new[i] \in DOMAIN w /\ from[new[i]] = at[i]
  BY <1>7
<1> HIDE DEF new, place
<1>9. Increasing(new, L)
  BY <1>2, <1>5, <1>8 DEF Increasing
<1>10. \A i \in L : w[new[i]] = ms[i]
  BY <1>4, <1>6, <1>8
<1>11. ASSUME NEW i \in L, NEW j \in DOMAIN w, IsSpoken(w[j]), new[i] <= j
       PROVE  \E k \in L : new[k] = j
  <2>1. at[i] <= from[j] /\ from[j] \in S
    BY <1>4, <1>5, <1>8, <1>11
  <2>2. IsSpoken(v[from[j]]) /\ from[j] \in DOMAIN v
    BY <1>4, <1>11, <2>1
  <2>3. PICK k \in L : at[k] = from[j]
    BY <1>2, <2>1, <2>2
  <2>4. new[k] = j
    BY <1>5, <1>8, <2>3
  <2> QED BY <2>4
<1>12. EndsLike(w, ms, c, new)
  BY <1>8, <1>9, <1>10, <1>11 DEF EndsLike, L
<1> QED BY <1>12 DEF Keeps, w

LEMMA SanitizeKeeps ==
  ASSUME NEW ms, Formed(ms), Filled(ms), NEW c, NEW v, Formed(v), Keeps(v, ms, c),
         \A i \in Late(ms, c) : ms[i].kind = "results" => ResultIds(ms[i]) \subseteq call_ids(v)
  PROVE  Keeps(Sanitize(v), ms, c)
<1>1. PICK at : EndsLike(v, ms, c, at)
  BY DEF Keeps
<1> DEFINE q == [i \in DOMAIN v |-> Cleaned(v, v[i])]
           S == {i \in DOMAIN v : Stays(Cleaned(v, v[i]))}
<1>2. Sanitize(v) = Picked(q, S)
  BY SanitizeIs
<1>3. IsSeq(q) /\ DOMAIN q = DOMAIN v
  <2>1. Len(v) \in Nat /\ DOMAIN v = 1 .. Len(v)
    BY FormedFacts
  <2>2. q = [i \in 1 .. Len(v) |-> q[i]]
    BY <2>1
  <2> HIDE DEF q
  <2> QED BY <2>1, <2>2, SeqIs
<1>4. ASSUME NEW i \in Late(ms, c)
      PROVE  Cleaned(v, ms[i]) = ms[i] /\ Stays(ms[i])
  <2>1. i \in DOMAIN ms /\ Proper(ms[i]) /\ ms[i].kind \in {"chat", "results"}
    BY FormedFacts DEF Late, IsSpoken, Proper
  <2>2. CASE ms[i].kind = "chat"
    BY <2>2 DEF Cleaned, Stays
  <2>3. CASE ms[i].kind = "results"
    <3> DEFINE r == ms[i].results
               T == {j \in DOMAIN r : r[j].id \in call_ids(v)}
    <3>1. IsSeq(r) /\ ms[i] = ToolResults(r) /\ r # <<>>
      BY <2>1, <2>3 DEF Proper, Filled
    <3>2. T = DOMAIN r
      <4>1. \A j \in DOMAIN r : r[j].id \in ResultIds(ms[i])
        BY DEF ResultIds, ToSet
      <4> QED BY <2>3, <4>1
    <3> HIDE DEF T
    <3>3. Picked(r, T) = r
      <4> HIDE DEF r
      <4>1. Picked(r, DOMAIN r) = r
        BY <3>1, PickedAll
      <4> QED BY <3>2, <4>1
    <3>4. Cleaned(v, ms[i]) = ToolResults(Picked(r, T))
      BY <2>3 DEF Cleaned, T
    <3>5. Stays(ms[i])
      BY <2>3, <3>1 DEF Stays
    <3> QED BY <3>1, <3>3, <3>4, <3>5
  <2> QED BY <2>1, <2>2, <2>3
<1>5. \A i \in Late(ms, c) : at[i] \in S /\ q[at[i]] = ms[i]
  BY <1>1, <1>4 DEF EndsLike
<1>6. \A j \in S : IsSpoken(q[j]) => IsSpoken(v[j])
  <2> SUFFICES ASSUME NEW j \in DOMAIN v, IsSpoken(Cleaned(v, v[j]))
               PROVE  IsSpoken(v[j])
    OBVIOUS
  <2>1. Part(Cleaned(v, v[j]), v[j])
    BY FormedFacts, CleanedFacts
  <2> QED BY <2>1 DEF Part, IsSpoken, is_compaction_summary_message
<1>7. IsSeq(v) /\ S \subseteq DOMAIN v
  BY DEF Formed
<1> HIDE DEF q, S
<1> QED BY <1>1, <1>2, <1>3, <1>5, <1>6, <1>7, PickKeeps

LEMMA UpsertKeeps ==
  ASSUME NEW ms, Formed(ms), NEW c, NEW v, Formed(v), Keeps(v, ms, c), NEW summary
  PROVE  Keeps(upsert_compaction_summary(v, summary), ms, c)
<1> DEFINE rest == WithoutSummaries(v)
           n == Len(rest)
           first == SelectInSeq(v, is_compaction_summary_message)
           index == IF first = 0 THEN LeadingSystem(rest) ELSE first - 1
           k == Earlier(index, n) + 1
           e == SummaryMessage(summary)
           u == upsert_compaction_summary(v, summary)
           L == Late(ms, c)
<1>1. Keeps(rest, ms, c) /\ Formed(rest)
  <2>1. PICK at : EndsLike(v, ms, c, at)
    BY DEF Keeps
  <2> DEFINE S == {i \in DOMAIN v : ~is_compaction_summary_message(v[i])}
  <2>2. \A i \in L : at[i] \in S /\ v[at[i]] = ms[i]
    BY <2>1 DEF EndsLike, Late, IsSpoken
  <2>3. rest = Picked(v, S) /\ IsSeq(v) /\ S \subseteq DOMAIN v
    BY DEF WithoutSummaries, Formed
  <2> HIDE DEF S, rest
  <2>4. Keeps(Picked(v, S), ms, c)
    BY <2>1, <2>2, <2>3, PickKeeps
  <2>5. Formed(rest)
    BY WithoutSummariesFacts DEF rest
  <2> QED BY <2>3, <2>4, <2>5
<1>2. u = InsertAt(rest, k, e)
  BY DEF upsert_compaction_summary
<1> HIDE DEF u, rest
<1>3. n \in Nat /\ DOMAIN rest = 1 .. n /\ IsSeq(rest)
  BY <1>1, FormedFacts DEF Formed
<1>4. index \in Nat
  <2>1. LeadingSystem(rest) \in 0 .. n
    BY <1>3, LeadingSystemFacts
  <2>2. first = 0 \/ first \in 1 .. Len(v)
    BY FirstSummary, FormedFacts DEF SummariesOf
  <2> HIDE DEF first, n
  <2> QED BY <2>1, <2>2
<1> HIDE DEF n, index
<1>5. k \in 1 .. n + 1
  BY <1>3, <1>4 DEF Earlier
<1> HIDE DEF k
<1>6. /\ IsSeq(u) /\ DOMAIN u = 1 .. n + 1
      /\ u[k] = e
      /\ \A i \in 1 .. n + 1 :
           /\ i < k => i \in 1 .. n /\ u[i] = rest[i]
           /\ i > k => i - 1 \in 1 .. n /\ u[i] = rest[i - 1]
  <2>1. k \in 1 .. Len(rest) + 1
    BY <1>5 DEF n
  <2> HIDE DEF e
  <2>2. /\ IsSeq(u) /\ Len(u) = n + 1
        /\ u[k] = e
        /\ \A i \in 1 .. n + 1 :
             /\ i < k => i \in DOMAIN rest /\ u[i] = rest[i]
             /\ i > k => i - 1 \in DOMAIN rest /\ u[i] = rest[i - 1]
    BY <1>2, <1>3, <2>1, InsertFacts DEF n
  <2>3. DOMAIN u = 1 .. n + 1
    BY <2>2, SeqFacts
  <2> QED BY <1>3, <2>2, <2>3
<1>7. ~IsSpoken(u[k])
  BY <1>6 DEF IsSpoken, SummaryMessage, is_compaction_summary_message
<1>8. PICK at : EndsLike(rest, ms, c, at)
  BY <1>1 DEF Keeps
<1>9. /\ at \in [L -> 1 .. n] /\ Increasing(at, L)
      /\ \A i \in L : rest[at[i]] = ms[i]
      /\ \A i \in L, j \in 1 .. n : IsSpoken(rest[j]) /\ at[i] <= j => \E x \in L : at[x] = j
  BY <1>3, <1>8 DEF EndsLike
<1> HIDE DEF L, e
<1> DEFINE to(j) == IF j < k THEN j ELSE j + 1
           new == [i \in L |-> to(at[i])]
<1>10. \A j \in 1 .. n : to(j) \in 1 .. n + 1 /\ u[to(j)] = rest[j]
  <2> TAKE j \in 1 .. n
  <2>1. CASE j < k
    BY <1>3, <1>5, <1>6, <2>1
  <2>2. CASE ~(j < k)
    <3>1. j + 1 \in 1 .. n + 1 /\ j + 1 > k /\ (j + 1) - 1 = j
      BY <1>3, <1>5, <2>2
    <3>2. u[j + 1] = rest[j]
      BY <1>6, <3>1
    <3> QED BY <2>2, <3>1, <3>2
  <2> QED BY <2>1, <2>2
<1>11. \A i, j \in 1 .. n : /\ i < j => to(i) < to(j)
                            /\ i <= j <=> to(i) <= to(j)
  BY <1>3, <1>5
<1>12. \A j \in 1 .. n + 1 : j # k => \E i \in 1 .. n : to(i) = j
  <2> TAKE j \in 1 .. n + 1
  <2> HAVE j # k
  <2>1. CASE j < k
    <3>1. j \in 1 .. n /\ to(j) = j
      BY <1>3, <1>5, <2>1
    <3> QED BY <3>1
  <2>2. CASE ~(j < k)
    <3>1. j - 1 \in 1 .. n /\ to(j - 1) = j
      BY <1>3, <1>5, <2>2
    <3> QED BY <3>1
  <2> QED BY <2>1, <2>2
<1> HIDE DEF to
<1>13. new \in [L -> DOMAIN u] /\ \A i \in L : new[i] = to(at[i])
  BY <1>6, <1>9, <1>10
<1> HIDE DEF new
<1>14. Increasing(new, L)
  BY <1>9, <1>11, <1>13 DEF Increasing
<1>15. \A i \in L : u[new[i]] = ms[i]
  BY <1>9, <1>10, <1>13
<1>16. ASSUME NEW i \in L, NEW j \in DOMAIN u, IsSpoken(u[j]), new[i] <= j
       PROVE  \E x \in L : new[x] = j
  <2>1. PICK y \in 1 .. n : to(y) = j
    BY <1>6, <1>7, <1>12, <1>16
  <2>2. IsSpoken(rest[y]) /\ at[i] <= y
    BY <1>9, <1>10, <1>11, <1>13, <1>16, <2>1
  <2>3. PICK x \in L : at[x] = y
    BY <1>9, <2>2
  <2> QED BY <1>13, <2>1, <2>3
<1>17. EndsLike(u, ms, c, new)
  BY <1>13, <1>14, <1>15, <1>16 DEF EndsLike, L
<1> QED BY <1>17 DEF Keeps, u

(***************************************************************************)
(* The parts of a round, one after the other: the cut leaves the end of    *)
(* the transcript whole, and so do the cleaning and the summary.           *)
(***************************************************************************)
LEMMA JoinKeeps ==
  ASSUME NEW ms, Formed(ms), NEW head_end \in Nat, NEW tail_start \in Int,
         NEW c \in Int, Cut(ms, head_end, tail_start) <= c
  PROVE  LET split == split_partial_conversation(ms, head_end, tail_start)
             joined == split.head \o <<>> \o split.tail
         IN  Keeps(joined, ms, c)
<1> DEFINE split == split_partial_conversation(ms, head_end, tail_start)
           joined == split.head \o <<>> \o split.tail
           n == Len(ms)
           h == Earlier(head_end, n)
           t == Cut(ms, head_end, tail_start)
           middle == split.middle
<1>1. /\ n \in Nat /\ h \in Nat /\ t \in Nat /\ h <= t /\ t <= n
      /\ IsSeq(joined) /\ DOMAIN joined = 1 .. h + (n - t)
      /\ \A i \in 1 .. h + (n - t) : joined[i] = ms[IF i <= h THEN i ELSE i - h + t]
  <2> DEFINE to(i) == IF i <= h THEN i ELSE i - h + t
  <2>1. /\ n \in Nat /\ h \in Nat /\ t \in Nat /\ h <= t /\ t <= n
        /\ IsSeq(middle) /\ DOMAIN middle = 1 .. t - h
        /\ \A i \in 1 .. t - h : middle[i] = ms[h + i]
        /\ IsSeq(joined) /\ DOMAIN joined = 1 .. h + (n - t)
        /\ \A i \in 1 .. h + (n - t) : to(i) \in DOMAIN ms /\ joined[i] = ms[to(i)]
    BY SplitPlaces, ZenonT(60)
  <2> HIDE DEF n, h, t, joined, middle
  <2> QED BY <2>1
<1>2. DOMAIN ms = 1 .. n /\ t <= c
  BY FormedFacts
<1> DEFINE L == Late(ms, c)
           at == [i \in L |-> i - t + h]
<1>3. \A i \in L : i \in 1 .. n /\ c < i /\ IsSpoken(ms[i])
  BY <1>2 DEF Late
<1>4. \A i \in 1 .. n : c < i /\ IsSpoken(ms[i]) => i \in L
  BY <1>2 DEF Late
<1> HIDE DEF split, joined, n, h, t, L
<1>5. \A i \in L : at[i] = i - t + h
  OBVIOUS
<1>6. \A i \in L : i - t + h \in 1 .. h + (n - t) /\ h < i - t + h /\ i \in Int
  BY <1>1, <1>2, <1>3
<1>7. at \in [L -> DOMAIN joined]
  BY <1>1, <1>6
<1> HIDE DEF at
<1>8. \A i \in L : joined[at[i]] = ms[i]
  <2> TAKE i \in L
  <2>1. /\ i - t + h \in 1 .. h + (n - t) /\ ~(i - t + h <= h)
        /\ (i - t + h) - h + t = i
    <3>1. i - t + h \in 1 .. h + (n - t) /\ h < i - t + h /\ i \in Int
      BY <1>6
    <3>2. h \in Int /\ t \in Int
      BY <1>1
    <3>3. ~(i - t + h <= h) /\ (i - t + h) - h + t = i
      BY <3>1, <3>2
    <3> QED BY <3>1, <3>3
  <2> QED BY <1>1, <1>5, <2>1
<1>9. Increasing(at, L)
  <2>1. \A i, j \in L : i < j => i - t + h < j - t + h
    BY <1>1, <1>6
  <2> QED BY <1>5, <2>1 DEF Increasing
<1>10. ASSUME NEW i \in L, NEW j \in DOMAIN joined, IsSpoken(joined[j]), at[i] <= j
       PROVE  \E k \in L : at[k] = j
  <2>1. j \in 1 .. h + (n - t) /\ i - t + h <= j
    BY <1>1, <1>5, <1>10
  <2> DEFINE k == j - h + t
  <2>2. ~(j <= h) /\ k \in 1 .. n /\ c < k /\ k - t + h = j
    BY <1>1, <1>2, <1>3, <1>6, <2>1
  <2>3. joined[j] = ms[k]
    BY <1>1, <2>1, <2>2
  <2> HIDE DEF k
  <2>4. k \in L
    BY <1>4, <1>10, <2>2, <2>3
  <2> QED BY <1>5, <2>2, <2>4
<1>11. EndsLike(joined, ms, c, at)
  BY <1>7, <1>8, <1>9, <1>10 DEF EndsLike, L
<1> QED BY <1>11 DEF Keeps, joined, split

LEMMA AfterFacts ==
  ASSUME NEW ms, Formed(ms), NEW c \in 0 .. Len(ms)
  PROVE  /\ IsSeq(After(ms, c)) /\ DOMAIN After(ms, c) = 1 .. Len(ms) - c
         /\ \A i \in 1 .. Len(ms) - c : After(ms, c)[i] = ms[c + i]
<1> DEFINE n == Len(ms)
           U == ToSet(ms)
           tail == SubSeq(ms, c + 1, n)
<1>1. n \in Nat /\ DOMAIN ms = 1 .. n /\ ms \in Seq(U)
  BY FormedFacts DEF Formed, IsSeq
<1> HIDE DEF U
<1>2. c + 1 \in 1 .. n + 1
  BY <1>1
<1>3. tail \in Seq(U)
  BY <1>1, <1>2
<1>4. Len(tail) = IF c + 1 <= n THEN n - (c + 1) + 1 ELSE 0
  BY <1>1, <1>2
<1>5. \A i \in 1 .. n - c : tail[i] = ms[c + i]
  <2> TAKE i \in 1 .. n - c
  <2>1. tail[i] = ms[(c + 1) + i - 1] /\ (c + 1) + i - 1 = c + i
    BY <1>1, <1>2
  <2> QED BY <2>1
<1> HIDE DEF tail
<1>6. Len(tail) = n - c
  <2> HIDE DEF n
  <2> QED BY <1>1, <1>2, <1>4
<1>7. IsSeq(tail) /\ DOMAIN tail = 1 .. n - c
  BY <1>3, <1>6, SeqOver
<1> QED BY <1>5, <1>7 DEF After, tail

(* An aligned tail of a transcript without orphans has the call of every   *)
(* result in it.                                                           *)
LEMMA TailIsWhole ==
  ASSUME NEW ms, Formed(ms), Ordered(ms), NoOrphans(ms), NEW a \in 0 .. Len(ms),
         MissingParents(ms, a) = {},
         NEW i \in a + 1 .. Len(ms), ms[i].kind = "results", NEW id \in ResultIds(ms[i])
  PROVE  \E j \in a + 1 .. Len(ms) : ms[j].kind = "calls" /\ id \in ms[j].ids
<1> DEFINE n == Len(ms)
           calls == call_ids(After(ms, a))
           r == ms[i].results
           I == {k \in 1 .. Len(r) : r[k].id \notin calls}
           k0 == IF I # {} THEN Min(I) ELSE 0
<1>1. n \in Nat /\ DOMAIN ms = 1 .. n /\ a \in 0 .. n /\ i \in a + 1 .. n
  BY FormedFacts
<1>2. \A x : x \in calls <=> \E j \in a + 1 .. n : ms[j].kind = "calls" /\ x \in ms[j].ids
  <2> DEFINE tail == After(ms, a)
  <2>1. DOMAIN tail = 1 .. n - a /\ \A j \in 1 .. n - a : tail[j] = ms[a + j]
    BY AfterFacts
  <2>2. \A x : x \in calls <=>
          \E j \in 1 .. n - a : ms[a + j].kind = "calls" /\ x \in ms[a + j].ids
    <3> HIDE DEF tail, n
    <3>1. \A x : x \in call_ids(tail) <=>
            \E j \in DOMAIN tail : tail[j].kind = "calls" /\ x \in tail[j].ids
      BY IdsOf
    <3> QED BY <2>1, <3>1 DEF tail
  <2> HIDE DEF calls, n
  <2>3. ASSUME NEW x, NEW j \in 1 .. n - a, ms[a + j].kind = "calls", x \in ms[a + j].ids
        PROVE  \E l \in a + 1 .. n : ms[l].kind = "calls" /\ x \in ms[l].ids
    <3>1. a + j \in a + 1 .. n
      BY <1>1
    <3> QED BY <2>3, <3>1
  <2>4. ASSUME NEW x, NEW l \in a + 1 .. n, ms[l].kind = "calls", x \in ms[l].ids
        PROVE  \E j \in 1 .. n - a : ms[a + j].kind = "calls" /\ x \in ms[a + j].ids
    <3>1. l - a \in 1 .. n - a /\ a + (l - a) = l
      BY <1>1
    <3> QED BY <2>4, <3>1
  <2> QED BY <2>2, <2>3, <2>4
<1> HIDE DEF calls
<1> SUFFICES ASSUME id \notin calls PROVE FALSE
  BY <1>2
<1>3. IsSeq(r) /\ Len(r) \in Nat /\ DOMAIN r = 1 .. Len(r)
  <2>1. IsSeq(r)
    BY <1>1, FormedFacts DEF Proper
  <2> HIDE DEF r
  <2> QED BY <2>1, SeqFacts
<1>4. \A k \in DOMAIN r : r[k].id \in ResultIds(ms[i])
  BY DEF ResultIds, ToSet
<1>5. \E k \in DOMAIN r : r[k].id = id
  BY DEF ResultIds, ToSet
<1>6. FirstMissing(ms, a, i) = {r[j].id : j \in {k0} \ {0}}
  BY DEF FirstMissing, SelectInSeq, calls
<1> HIDE DEF r
<1>7. I # {} /\ I \subseteq 1 .. Len(r)
  BY <1>3, <1>5
<1>8. k0 \in I /\ k0 # 0
  <2> HIDE DEF I
  <2>1. Min(I) \in I
    BY <1>3, <1>7, MinOfPlaces
  <2> QED BY <1>3, <1>7, <2>1
<1> DEFINE lost == r[k0].id
<1>9. lost \in FirstMissing(ms, a, i) /\ lost \notin calls /\ lost \in ResultIds(ms[i])
  <2>1. k0 \in DOMAIN r /\ lost \notin calls
    BY <1>3, <1>8
  <2> HIDE DEF k0
  <2> QED BY <1>4, <1>6, <1>8, <2>1
<1> HIDE DEF lost
<1>10. PICK p \in DOMAIN ms : ms[p].kind = "calls" /\ lost \in ms[p].ids
  <2>1. lost \in result_ids(ms)
    BY <1>1, <1>9, IdsOf
  <2> QED BY <2>1, IdsOf DEF NoOrphans
<1>11. p < i
  BY <1>1, <1>9, <1>10 DEF Ordered
<1>12. p \in 1 .. a
  BY <1>1, <1>2, <1>9, <1>10
<1>13. p \in Parents(ms, a, lost)
  BY <1>10, <1>12 DEF Parents
<1> DEFINE D == {j \in a + 1 .. Len(ms) : ms[j].kind = "results"}
           reach == [x \in D |-> UNION {Parents(ms, a, y) : y \in FirstMissing(ms, a, x)}]
           found == {x \in DOMAIN reach : reach[x] # {}}
<1>14. MissingParents(ms, a) = IF found = {} THEN {} ELSE reach[Min(found)]
  BY DEF MissingParents
<1>15. i \in D /\ p \in reach[i]
  BY <1>1, <1>9, <1>13
<1>16. DOMAIN reach = D /\ D \subseteq 1 .. n
  BY <1>1
<1> HIDE DEF reach, D
<1>17. i \in found /\ found \subseteq 1 .. n
  BY <1>15, <1>16
<1>18. \A x \in found : reach[x] # {}
  OBVIOUS
<1> HIDE DEF found
<1>19. Min(found) \in found
  BY <1>1, <1>17, MinOfPlaces
<1> QED BY <1>14, <1>17, <1>18, <1>19

LEMMA KeepsSuffix ==
  ASSUME NEW ms, Formed(ms), NEW c \in 0 .. Len(ms), NEW v, Formed(v), Keeps(v, ms, c)
  PROVE  IsSuffix(Spoken(After(ms, c)), Spoken(v))
<1> DEFINE n == Len(ms)
           A == After(ms, c)
           SA == {i \in DOMAIN A : IsSpoken(A[i])}
           SV == {i \in DOMAIN v : IsSpoken(v[i])}
           s == Picked(A, SA)
           t == Picked(v, SV)
           L == Late(ms, c)
<1>1. n \in Nat /\ DOMAIN ms = 1 .. n /\ c \in 0 .. n
  BY FormedFacts
<1>2. IsSeq(A) /\ DOMAIN A = 1 .. n - c /\ \A i \in 1 .. n - c : A[i] = ms[c + i]
  BY AfterFacts
<1>3. Spoken(A) = s /\ Spoken(v) = t
  BY DEF Spoken
<1> HIDE DEF A, n
<1>4. \A i \in SA : i \in Int /\ c + i \in L
  <2> TAKE i \in SA
  <2>1. i \in 1 .. n - c /\ IsSpoken(ms[c + i])
    BY <1>2
  <2>2. c + i \in 1 .. n /\ c < c + i /\ i \in Int
    BY <1>1, <2>1
  <2> QED BY <1>1, <2>1, <2>2 DEF Late
<1>5. \A x \in L : x - c \in SA /\ c + (x - c) = x
  <2> TAKE x \in L
  <2>1. x \in 1 .. n /\ c < x /\ IsSpoken(ms[x])
    BY <1>1 DEF Late
  <2>2. x - c \in 1 .. n - c /\ c + (x - c) = x
    BY <1>1, <2>1
  <2>3. A[x - c] = ms[x]
    BY <1>2, <2>2
  <2> QED BY <1>2, <2>1, <2>2, <2>3
<1>6. IsSeq(v) /\ DOMAIN v \subseteq Int /\ SA \subseteq DOMAIN A /\ SV \subseteq DOMAIN v
      /\ SV \subseteq Int
  BY FormedFacts DEF Formed
<1>7. \A j \in SV : IsSpoken(v[j])
  OBVIOUS
<1>8. \A x \in L : x \in DOMAIN ms /\ IsSpoken(ms[x])
  BY DEF Late
<1>9. \A j \in DOMAIN v : IsSpoken(v[j]) => j \in SV
  OBVIOUS
<1>10. \A i \in SA : A[i] = ms[c + i]
  BY <1>2
<1> HIDE DEF SA, SV
<1>11. IsSeq(s) /\ IsSeq(t)
  BY <1>2, <1>6, PickedFacts
<1>12. PICK fs \in [DOMAIN s -> SA] :
         /\ \A j \in DOMAIN s : s[j] = A[fs[j]]
         /\ \A i, j \in DOMAIN s : i < j => fs[i] < fs[j]
         /\ \A i \in SA : \E j \in DOMAIN s : fs[j] = i
  <2>1. IsSeq(A) /\ SA \subseteq DOMAIN A
    BY <1>2, <1>6
  <2> QED BY <2>1, PickedFacts
<1>13. PICK ft \in [DOMAIN t -> SV] :
         /\ \A j \in DOMAIN t : t[j] = v[ft[j]]
         /\ \A i, j \in DOMAIN t : i < j => ft[i] < ft[j]
         /\ \A i \in SV : \E j \in DOMAIN t : ft[j] = i
  BY <1>6, PickedFacts
<1>14. PICK at : EndsLike(v, ms, c, at)
  BY DEF Keeps
<1>15. /\ at \in [L -> DOMAIN v]
       /\ \A x, y \in L : x < y => at[x] < at[y]
       /\ \A x \in L : v[at[x]] = ms[x]
       /\ \A x \in L, j \in DOMAIN v : IsSpoken(v[j]) /\ at[x] <= j => \E k \in L : at[k] = j
  BY <1>14 DEF EndsLike, Increasing
<1>16. DOMAIN t \subseteq Int
  BY <1>11, SeqFacts
<1> HIDE DEF L, s, t
<1>17. \A i, j \in DOMAIN t : /\ ft[i] < ft[j] <=> i < j
                              /\ ft[i] = ft[j] <=> i = j
                              /\ ft[i] <= ft[j] <=> i <= j
  <2>1. Increasing(ft, DOMAIN t)
    BY <1>13 DEF Increasing
  <2> QED BY <1>6, <1>13, <1>16, <2>1, IncreasingFacts
<1> DEFINE to(i) == at[c + fs[i]]
           place(i) == CHOOSE j \in DOMAIN t : ft[j] = to(i)
           new == [i \in DOMAIN s |-> place(i)]
<1>18. \A i \in DOMAIN s : c + fs[i] \in L /\ fs[i] \in SA /\ fs[i] \in Int
  BY <1>4, <1>12
<1>19. \A i \in DOMAIN s : to(i) \in SV
  <2> TAKE i \in DOMAIN s
  <2>1. to(i) \in DOMAIN v /\ v[to(i)] = ms[c + fs[i]] /\ IsSpoken(ms[c + fs[i]])
    BY <1>8, <1>15, <1>18
  <2> QED BY <1>9, <2>1
<1> HIDE DEF to
<1>20. \A i \in DOMAIN s : place(i) \in DOMAIN t /\ ft[place(i)] = to(i)
  BY <1>13, <1>19
<1>21. new \in [DOMAIN s -> DOMAIN t] /\ \A i \in DOMAIN s : new[i] = place(i)
  BY <1>20
<1> HIDE DEF new, place
<1>22. \A i \in DOMAIN s : new[i] \in DOMAIN t /\ ft[new[i]] = to(i)
  BY <1>20, <1>21
<1>23. Increasing(new, DOMAIN s)
  <2> SUFFICES ASSUME NEW i \in DOMAIN s, NEW j \in DOMAIN s, i < j PROVE new[i] < new[j]
    BY DEF Increasing
  <2>1. fs[i] < fs[j]
    BY <1>12
  <2>2. c + fs[i] < c + fs[j]
    BY <1>1, <1>18, <2>1
  <2>3. to(i) < to(j)
    BY <1>15, <1>18, <2>2 DEF to
  <2> QED BY <1>17, <1>22, <2>3
<1>24. \A i \in DOMAIN s : s[i] = t[new[i]]
  <2> TAKE i \in DOMAIN s
  <2>1. s[i] = ms[c + fs[i]]
    BY <1>10, <1>12, <1>18
  <2>2. v[to(i)] = ms[c + fs[i]]
    BY <1>15, <1>18 DEF to
  <2>3. t[new[i]] = v[ft[new[i]]]
    BY <1>13, <1>22
  <2> QED BY <1>22, <2>1, <2>2, <2>3
<1>25. ASSUME NEW i \in DOMAIN s, NEW j \in DOMAIN t, new[i] <= j
       PROVE  \E k \in DOMAIN s : new[k] = j
  <2>1. to(i) <= ft[j] /\ ft[j] \in SV
    BY <1>13, <1>17, <1>22, <1>25
  <2>2. ft[j] \in DOMAIN v /\ IsSpoken(v[ft[j]])
    BY <1>6, <1>7, <2>1
  <2>3. PICK x \in L : at[x] = ft[j]
    <3>1. at[c + fs[i]] <= ft[j] /\ c + fs[i] \in L
      BY <1>18, <2>1 DEF to
    <3> QED BY <1>15, <2>2, <3>1
  <2>4. x - c \in SA /\ c + (x - c) = x
    BY <1>5
  <2>5. PICK k \in DOMAIN s : fs[k] = x - c
    BY <1>12, <2>4
  <2>6. to(k) = ft[j]
    BY <2>3, <2>4, <2>5 DEF to
  <2>7. ft[new[k]] = ft[j] /\ new[k] \in DOMAIN t
    BY <1>22, <2>6
  <2> QED BY <1>17, <2>7
<1>26. IsSuffix(s, t)
  BY <1>11, <1>21, <1>23, <1>24, <1>25, SuffixFromPlaces
<1> QED BY <1>3, <1>26 DEF A

(* A round that cuts where a tail is whole keeps, of every stretch of that *)
(* tail up to the end, what is spoken; and the head's texts.               *)
LEMMA RejoinKeeps ==
  ASSUME NEW ms, Formed(ms), Filled(ms), Ordered(ms), NoOrphans(ms),
         NEW head_end \in 0 .. Len(ms), NEW a \in 0 .. Len(ms), MissingParents(ms, a) = {},
         NEW tail_start \in {a, Later(head_end, a)}, NEW summary,
         split_partial_conversation(ms, head_end, tail_start).middle # <<>>
  PROVE  LET split == split_partial_conversation(ms, head_end, tail_start)
             u == upsert_compaction_summary(rejoin_partial_conversation(split, <<>>), summary)
         IN  \A c \in a .. Len(ms) : IsSuffix(Spoken(After(ms, c)), Spoken(u))
<1> DEFINE split == split_partial_conversation(ms, head_end, tail_start)
           joined == split.head \o <<>> \o split.tail
           middle == split.middle
           n == Len(ms)
           h == Earlier(head_end, n)
           t == Cut(ms, head_end, tail_start)
           to(i) == IF i <= h THEN i ELSE i - h + t
           v == Sanitize(joined)
           u == upsert_compaction_summary(v, summary)
<1>1. rejoin_partial_conversation(split, <<>>) = v
  BY DEF rejoin_partial_conversation
<1>2. n \in Nat /\ DOMAIN ms = 1 .. n
  BY FormedFacts
<1>3. head_end \in Nat /\ tail_start \in Int /\ a \in Nat /\ a <= n
  BY <1>2 DEF Later
<1>4. /\ n \in Nat /\ h \in Nat /\ t \in Nat /\ h <= t /\ t <= n
      /\ IsSeq(middle) /\ DOMAIN middle = 1 .. t - h
      /\ \A i \in 1 .. t - h : middle[i] = ms[h + i]
      /\ IsSeq(joined) /\ DOMAIN joined = 1 .. h + (n - t)
      /\ \A i \in 1 .. h + (n - t) : to(i) \in DOMAIN ms /\ joined[i] = ms[to(i)]
  BY <1>3, SplitPlaces, ZenonT(60)
<1>5. Formed(joined)
  BY <1>3, SplitFacts
<1>6. middle # <<>>
  OBVIOUS
<1> SUFFICES ASSUME NEW c \in a .. n PROVE IsSuffix(Spoken(After(ms, c)), Spoken(u))
  BY <1>1
<1>7. t = a /\ c \in Int /\ t <= c /\ c \in 0 .. n
  <2>1. h < t
    <3>1. 1 \in 1 .. t - h
      BY <1>4, <1>6, SeqEmpty
    <3> HIDE DEF h, t
    <3> QED BY <1>4, <3>1
  <2>2. h = head_end
    BY <1>2, <1>3 DEF Earlier
  <2>3. t = Later(h, Earlier(tail_start, n))
    BY DEF Cut
  <2>4. tail_start = a \/ tail_start = Later(head_end, a)
    OBVIOUS
  <2> HIDE DEF h, t, n
  <2>5. t = a
    BY <1>2, <1>3, <2>1, <2>2, <2>3, <2>4 DEF Earlier, Later
  <2> QED BY <1>2, <1>3, <2>5
<1>8. Keeps(joined, ms, c)
  BY <1>3, <1>7, JoinKeeps
<1> HIDE DEF split, joined, middle, h, t, v, u
<1>9. ASSUME NEW i \in Late(ms, c), ms[i].kind = "results"
      PROVE  ResultIds(ms[i]) \subseteq call_ids(joined)
  <2>1. i \in a + 1 .. n
    BY <1>2, <1>3, <1>7 DEF Late
  <2> SUFFICES ASSUME NEW id \in ResultIds(ms[i]) PROVE id \in call_ids(joined)
    OBVIOUS
  <2>2. PICK j \in a + 1 .. n : ms[j].kind = "calls" /\ id \in ms[j].ids
    BY <1>9, <2>1, TailIsWhole
  <2> DEFINE k == j - t + h
  <2>3. k \in 1 .. h + (n - t) /\ ~(k <= h) /\ k - h + t = j
    BY <1>2, <1>4, <1>7, <2>2
  <2>4. joined[k] = ms[j]
    BY <1>4, <2>3
  <2> HIDE DEF k
  <2>5. \E x \in DOMAIN joined : joined[x].kind = "calls" /\ id \in joined[x].ids
    BY <1>4, <2>2, <2>3, <2>4
  <2> QED BY <2>5, IdsOf
<1>10. Keeps(v, ms, c) /\ Formed(v)
  <2>1. Keeps(Sanitize(joined), ms, c)
    BY <1>5, <1>8, <1>9, SanitizeKeeps
  <2>2. Formed(Sanitize(joined))
    BY <1>5, SanitizeFacts
  <2> QED BY <2>1, <2>2 DEF v
<1>11. Keeps(u, ms, c) /\ Formed(u)
  <2>1. Keeps(upsert_compaction_summary(v, summary), ms, c)
    BY <1>10, UpsertKeeps
  <2>2. Formed(upsert_compaction_summary(v, summary))
    BY <1>10, UpsertFacts
  <2> QED BY <2>1, <2>2 DEF u
<1> QED BY <1>7, <1>11, KeepsSuffix DEF n

LEMMA HeadStays ==
  ASSUME NEW ms, Formed(ms), NEW head_end \in 0 .. Len(ms), NEW tail_start \in Int, NEW summary
  PROVE  LET split == split_partial_conversation(ms, head_end, tail_start)
             u == upsert_compaction_summary(rejoin_partial_conversation(split, <<>>), summary)
         IN  Texts(SubSeq(ms, 1, head_end)) \subseteq Texts(u)
<1> DEFINE split == split_partial_conversation(ms, head_end, tail_start)
           joined == split.head \o <<>> \o split.tail
           middle == split.middle
           head == SubSeq(ms, 1, head_end)
           n == Len(ms)
           h == Earlier(head_end, n)
           t == Cut(ms, head_end, tail_start)
           to(i) == IF i <= h THEN i ELSE i - h + t
           v == Sanitize(joined)
           u == upsert_compaction_summary(v, summary)
<1>1. rejoin_partial_conversation(split, <<>>) = v
  BY DEF rejoin_partial_conversation
<1>2. n \in Nat /\ DOMAIN ms = 1 .. n /\ head_end \in Nat /\ head_end <= n
  BY FormedFacts
<1>3. /\ n \in Nat /\ h \in Nat /\ t \in Nat /\ h <= t /\ t <= n
      /\ IsSeq(middle) /\ DOMAIN middle = 1 .. t - h
      /\ \A i \in 1 .. t - h : middle[i] = ms[h + i]
      /\ IsSeq(joined) /\ DOMAIN joined = 1 .. h + (n - t)
      /\ \A i \in 1 .. h + (n - t) : to(i) \in DOMAIN ms /\ joined[i] = ms[to(i)]
  BY <1>2, SplitPlaces, ZenonT(60)
<1>4. Formed(joined)
  BY <1>2, SplitFacts
<1> SUFFICES Texts(head) \subseteq Texts(u)
  BY <1>1
<1>5. DOMAIN head = 1 .. head_end /\ \A i \in 1 .. head_end : head[i] = ms[i]
  <2>1. ms \in Seq(ToSet(ms))
    BY DEF Formed, IsSeq
  <2> QED BY <1>2, <2>1
<1>6. h = head_end
  <2> HIDE DEF n
  <2> QED BY <1>2 DEF Earlier
<1> HIDE DEF split, joined, middle, head, n, h, t, v, u
<1>7. \A i \in 1 .. h : i \in DOMAIN joined /\ joined[i] = ms[i]
  BY <1>3
<1>8. Texts(joined) = Texts(v) /\ Formed(v)
  <2>1. Texts(Sanitize(joined)) = Texts(joined) /\ Formed(Sanitize(joined))
    BY <1>4, SanitizeFacts
  <2> QED BY <2>1 DEF v
<1>9. Texts(u) = Texts(v)
  <2>1. Texts(upsert_compaction_summary(v, summary)) = Texts(v)
    BY <1>8, UpsertFacts
  <2> QED BY <2>1 DEF u
<1>10. ASSUME NEW x \in Texts(head) PROVE x \in Texts(joined)
  <2>1. x # 0
    BY IdsOf
  <2>2. PICK i \in DOMAIN head : head[i].kind # "results" /\ head[i].n = x
    BY IdsOf
  <2>3. i \in DOMAIN joined /\ joined[i].kind # "results" /\ joined[i].n = x
    BY <1>5, <1>6, <1>7, <2>2
  <2> QED BY <2>1, <2>3, IdsOf
<1> QED BY <1>8, <1>9, <1>10

(***************************************************************************)
(* Where the two kinds of round cut, when there is something to summarise. *)
(***************************************************************************)
LEMMA NothingInTheMiddle ==
  ASSUME NEW ms, Formed(ms), NEW head_end \in 0 .. Len(ms), NEW tail_start \in Int,
         tail_start <= head_end \/ head_end = Len(ms)
  PROVE  split_partial_conversation(ms, head_end, tail_start).middle = <<>>
<1> DEFINE n == Len(ms)
           t == Cut(ms, head_end, tail_start)
<1>1. n \in Nat /\ head_end \in 0 .. n
  BY FormedFacts
<1>2. t = head_end /\ Earlier(head_end, n) = head_end
  <2> HIDE DEF n
  <2>1. t = Later(Earlier(head_end, n), Earlier(tail_start, n))
    BY DEF Cut, n
  <2> HIDE DEF t
  <2>2. tail_start <= head_end \/ head_end = n
    BY DEF n
  <2> QED BY <1>1, <2>1, <2>2 DEF Earlier, Later
<1>3. split_partial_conversation(ms, head_end, tail_start).middle = SubSeq(ms, head_end + 1, t)
  BY <1>2 DEF split_partial_conversation, Cut
<1>4. SubSeq(ms, head_end + 1, head_end) = <<>>
  <2>1. ms \in Seq(ToSet(ms))
    BY DEF Formed, IsSeq
  <2> QED BY <1>1, <2>1
<1> QED BY <1>2, <1>3, <1>4

LEMMA ExchangesKept ==
  ASSUME NEW ms, Formed(ms), NEW head_end \in 0 .. Len(ms), NEW exchange_count \in Nat \ {0},
         split_partial_conversation(ms, head_end,
           tail_start_for_last_user_exchanges(ms, head_end, exchange_count)).middle # <<>>
  PROVE  \E a \in 0 .. Len(ms), c \in 0 .. Len(ms) :
           /\ MissingParents(ms, a) = {} /\ a <= c
           /\ tail_start_for_last_user_exchanges(ms, head_end, exchange_count) =
                Later(head_end, a)
           /\ LastExchanges(ms, head_end, exchange_count) = After(ms, c)
<1> DEFINE n == Len(ms)
           users == {i \in head_end + 1 .. Len(ms) : is_real_user_message(ms[i])}
           nth == CHOOSE i \in users : Cardinality({j \in users : j >= i}) = exchange_count
           cut == tail_start_for_last_user_exchanges(ms, head_end, exchange_count)
           some == {i \in users : Cardinality({j \in users : j >= i}) >= exchange_count}
           a == Align(ms, nth - 1)
           c == Max(some) - 1
<1>1. n \in Nat /\ users \subseteq 1 .. n /\ head_end \in Nat
  <2>1. n \in Nat
    BY FormedFacts
  <2> QED BY <2>1
<1>2. cut \in Int
  BY <1>1, ExchangeCutFacts
<1>3. \/ cut = n /\ head_end = n
      \/ cut = head_end
      \/ /\ cut = Later(head_end, a)
         /\ ~(Cardinality(users) < exchange_count)
  <2>1. head_end >= n => head_end = n
    BY <1>1
  <2> QED BY <2>1 DEF tail_start_for_last_user_exchanges
<1>4. LastExchanges(ms, head_end, exchange_count) =
        IF Cardinality(users) < exchange_count THEN After(ms, head_end)
        ELSE SubSeq(ms, Max(some), Len(ms))
  BY DEF LastExchanges
<1>5. ~(cut <= head_end) /\ head_end # n
  <2> HIDE DEF cut
  <2>1. split_partial_conversation(ms, head_end, cut).middle # <<>>
    BY DEF cut
  <2> QED BY <1>2, <2>1, NothingInTheMiddle
<1> HIDE DEF cut, n, users, nth
<1>6. cut = Later(head_end, a) /\ ~(Cardinality(users) < exchange_count)
  BY <1>1, <1>3, <1>5
<1>7. Cardinality(users) \in Nat
  <2>1. IsFiniteSet(1 .. n)
    BY <1>1, FS_Interval
  <2> QED BY <1>1, <2>1, FS_Subset, FS_CardinalityType
<1>8. nth \in users /\ Cardinality({j \in users : j >= nth}) = exchange_count
  <2>1. exchange_count \in 1 .. Cardinality(users)
    BY <1>6, <1>7
  <2>2. \E i \in users : Cardinality({j \in users : j >= i}) = exchange_count
    <3>1. \E i \in users : Cardinality(Rear(users, i)) = exchange_count
      BY <1>1, <2>1, FromTheEnd
    <3> QED BY <3>1 DEF Rear
  <2> QED BY <2>2 DEF nth
<1>9. nth \in some /\ some \subseteq 1 .. n
  <2>1. exchange_count >= exchange_count
    OBVIOUS
  <2> QED BY <1>1, <1>8, <2>1
<1> HIDE DEF some
<1>10. Max(some) \in 1 .. n /\ nth <= Max(some) /\ nth \in 1 .. n
  BY <1>1, <1>9, MaxOfPlaces
<1>11. a \in 0 .. n /\ a <= nth - 1 /\ MissingParents(ms, a) = {}
  <2>1. nth - 1 \in Nat
    BY <1>10
  <2> QED BY <2>1, AlignFacts DEF n
<1>12. c \in 0 .. n /\ a <= c /\ c + 1 = Max(some)
  <2>1. Max(some) \in Int /\ nth \in Int /\ a \in Int
    BY <1>1, <1>10, <1>11
  <2> HIDE DEF a
  <2> QED BY <1>1, <1>10, <1>11, <2>1
<1>13. LastExchanges(ms, head_end, exchange_count) = After(ms, c)
  <2> HIDE DEF c
  <2> QED BY <1>4, <1>6, <1>12 DEF After
<1> QED BY <1>6, <1>11, <1>12, <1>13 DEF n, cut

LEMMA BudgetKept ==
  ASSUME Formed(messages), NEW head_end \in Nat, NEW budget
  PROVE  LET start == select_tail_by_budget(messages, head_end, budget)
             second == Anchored(Anchored(start, is_real_user_message), is_visible_assistant)
             a == Align(messages, second)
         IN  /\ a \in 0 .. Len(messages) /\ MissingParents(messages, a) = {}
             /\ LatestIndex(messages, is_real_user_message) >= 0 =>
                  a <= LatestIndex(messages, is_real_user_message)
             /\ LatestIndex(messages, is_visible_assistant) >= 0 =>
                  a <= LatestIndex(messages, is_visible_assistant)
<1> DEFINE start == select_tail_by_budget(messages, head_end, budget)
           user == LatestIndex(messages, is_real_user_message)
           assistant == LatestIndex(messages, is_visible_assistant)
           first == IF user >= 0 THEN Earlier(start, user) ELSE start
           second == IF assistant >= 0 THEN Earlier(first, assistant) ELSE first
           a == Align(messages, second)
<1>1. Anchored(Anchored(start, is_real_user_message), is_visible_assistant) = second
  BY DEF Anchored
<1>2. start \in Nat
  BY BudgetCutFacts
<1>3. user \in Int /\ assistant \in Int
  BY LatestFacts
<1> HIDE DEF start, user, assistant
<1>4. first \in Nat /\ (user >= 0 => first <= user)
  BY <1>2, <1>3 DEF Earlier
<1> HIDE DEF first
<1>5. /\ second \in Nat
      /\ user >= 0 => second <= user
      /\ assistant >= 0 => second <= assistant
  BY <1>3, <1>4 DEF Earlier
<1> HIDE DEF second
<1>6. a \in 0 .. Len(messages) /\ a <= second /\ MissingParents(messages, a) = {}
  BY <1>5, AlignFacts
<1>7. Len(messages) \in Nat
  BY FormedFacts
<1> HIDE DEF a
<1>8. /\ a \in 0 .. Len(messages) /\ MissingParents(messages, a) = {}
      /\ user >= 0 => a <= user
      /\ assistant >= 0 => a <= assistant
  BY <1>3, <1>5, <1>6, <1>7
<1> QED BY <1>1, <1>8 DEF a, user, assistant, start

LEMMA RoundMade ==
  ASSUME NEW tail_start, Round(tail_start), Compacted
  PROVE  LET split == split_partial_conversation(messages, protected_head_end(messages),
                                                 tail_start)
         IN  /\ split.middle # <<>>
             /\ \E summary : messages' =
                  upsert_compaction_summary(rejoin_partial_conversation(split, <<>>), summary)
  BY DEF Round, Compacted

(* What RecentStays says of a step. *)
RecentKept ==
  LET head_end == protected_head_end(messages)
  IN  /\ \A n \in ExchangeCounts :
           CompactKeepingExchanges(n) =>
             IsSuffix(Spoken(LastExchanges(messages, head_end, n)), Spoken(messages'))
      /\ \A anchor \in {LatestIndex(messages, is_real_user_message),
                         LatestIndex(messages, is_visible_assistant)} :
           (\E budget \in TokenBudgets : CompactToBudget(budget)) /\ anchor >= head_end =>
             IsSuffix(Spoken(After(messages, anchor)), Spoken(messages'))
      /\ Texts(SubSeq(messages, 1, head_end)) \subseteq Texts(messages')

LEMMA RecentStep ==
  ASSUME OptionsAssumption, IInv, Next, NoOrphans(messages), Compacted
  PROVE  RecentKept
<1> DEFINE head_end == protected_head_end(messages)
           user == LatestIndex(messages, is_real_user_message)
           assistant == LatestIndex(messages, is_visible_assistant)
           cut(n) == tail_start_for_last_user_exchanges(messages, head_end, n)
           start(budget) == select_tail_by_budget(messages, head_end, budget)
           tail(budget) == Align(messages, Anchored(Anchored(start(budget), is_real_user_message),
                                                    is_visible_assistant))
<1>1. Formed(messages) /\ Filled(messages) /\ Ordered(messages)
  BY DEF IInv, Transcript
<1>2. head_end \in 0 .. Len(messages) /\ Len(messages) \in Nat
  BY <1>1, ProtectedHead, FormedFacts DEF IInv, Rounds
<1>3. \A n \in ExchangeCounts : n \in Nat \ {0}
  BY DEF OptionsAssumption
<1>4. \A n : CompactKeepingExchanges(n) => Round(cut(n))
  BY DEF CompactKeepingExchanges
<1>5. \A budget : CompactToBudget(budget) => Round(tail(budget))
  BY DEF CompactToBudget
<1>6. ASSUME NEW n \in ExchangeCounts, CompactKeepingExchanges(n)
      PROVE  IsSuffix(Spoken(LastExchanges(messages, head_end, n)), Spoken(messages'))
  <2> DEFINE tail_start == cut(n)
             split == split_partial_conversation(messages, head_end, tail_start)
  <2>1. split.middle # <<>>
    BY <1>4, <1>6, RoundMade
  <2>2. PICK summary : messages' =
          upsert_compaction_summary(rejoin_partial_conversation(split, <<>>), summary)
    BY <1>4, <1>6, RoundMade
  <2>3. PICK a \in 0 .. Len(messages), c \in 0 .. Len(messages) :
          /\ MissingParents(messages, a) = {} /\ a <= c
          /\ tail_start = Later(head_end, a)
          /\ LastExchanges(messages, head_end, n) = After(messages, c)
    <3> HIDE DEF head_end
    <3> QED BY <1>1, <1>2, <1>3, <2>1, ExchangesKept
  <2> HIDE DEF tail_start, head_end
  <2>4. tail_start \in {a, Later(head_end, a)} /\ c \in a .. Len(messages)
    BY <1>2, <2>3
  <2>5. IsSuffix(Spoken(After(messages, c)), Spoken(messages'))
    BY <1>1, <1>2, <2>1, <2>2, <2>3, <2>4, RejoinKeeps
  <2> QED BY <2>3, <2>5
<1>7. ASSUME NEW anchor \in {user, assistant}, NEW budget \in TokenBudgets,
             CompactToBudget(budget), anchor >= head_end
      PROVE  IsSuffix(Spoken(After(messages, anchor)), Spoken(messages'))
  <2> DEFINE tail_start == tail(budget)
             split == split_partial_conversation(messages, head_end, tail_start)
  <2>1. split.middle # <<>>
    BY <1>5, <1>7, RoundMade
  <2>2. PICK summary : messages' =
          upsert_compaction_summary(rejoin_partial_conversation(split, <<>>), summary)
    BY <1>5, <1>7, RoundMade
  <2>3. /\ tail_start \in 0 .. Len(messages) /\ MissingParents(messages, tail_start) = {}
        /\ user >= 0 => tail_start <= user
        /\ assistant >= 0 => tail_start <= assistant
    <3> HIDE DEF head_end
    <3> QED BY <1>1, <1>2, BudgetKept
  <2>4. user \in Int /\ assistant \in Int /\ user <= Len(messages) /\ assistant <= Len(messages)
    BY <1>1, LatestFacts
  <2> HIDE DEF tail_start, head_end, user, assistant
  <2>5. anchor \in tail_start .. Len(messages)
    BY <1>2, <1>7, <2>3, <2>4
  <2>6. tail_start \in {tail_start, Later(head_end, tail_start)}
    OBVIOUS
  <2> QED BY <1>1, <1>2, <2>1, <2>2, <2>3, <2>5, <2>6, RejoinKeeps
<1>8. Texts(SubSeq(messages, 1, head_end)) \subseteq Texts(messages')
  <2>1. PICK tail_start \in Int : Round(tail_start)
    <3>1. CASE \E n \in ExchangeCounts : CompactKeepingExchanges(n)
      <4>1. PICK n \in ExchangeCounts : CompactKeepingExchanges(n)
        BY <3>1
      <4>2. cut(n) \in Int
        <5> HIDE DEF head_end
        <5>1. n \in Nat /\ head_end \in Nat
          BY <1>2, <1>3
        <5> QED BY <1>1, <5>1, ExchangeCutFacts
      <4> QED BY <1>4, <4>1, <4>2
    <3>2. CASE \E budget \in TokenBudgets : CompactToBudget(budget)
      <4>1. PICK budget \in TokenBudgets : CompactToBudget(budget)
        BY <3>2
      <4>2. tail(budget) \in 0 .. Len(messages)
        <5> HIDE DEF head_end
        <5> QED BY <1>1, <1>2, BudgetKept
      <4>3. tail(budget) \in Int
        <5> HIDE DEF tail
        <5> QED BY <1>2, <4>2
      <4> QED BY <1>5, <4>1, <4>3
    <3>3. CASE compaction_count' = compaction_count
      BY <3>3 DEF Compacted
    <3> QED BY <3>1, <3>2, <3>3 DEF Next, UserSays, AssistantSays, AssistantCalls, ToolsAnswer,
                                    DigestPass
  <2> DEFINE split == split_partial_conversation(messages, head_end, tail_start)
  <2>2. PICK summary : messages' =
          upsert_compaction_summary(rejoin_partial_conversation(split, <<>>), summary)
    BY <2>1, RoundMade
  <2> HIDE DEF head_end
  <2> QED BY <1>1, <1>2, <2>2, HeadStays
<1> QED BY <1>6, <1>7, <1>8 DEF RecentKept

(* A round that keeps n exchanges leaves the last n user texts with all    *)
(* that came after them, and one that works to a budget what came after    *)
(* the latest texts of user and assistant, results included, as they were; *)
(* both keep the texts of the protected head                               *)
(* (split_for_last_user_exchanges, latest_real_user_index,                 *)
(* latest_visible_assistant_index).                                        *)
THEOREM RecentIsKept == Spec => RecentStays
<1>1. IInv /\ [Next]_vars => [NoOrphans(messages) /\ Compacted => RecentKept]_vars
  BY RecentStep, OptionsAssumption
<1> QED BY <1>1, IInvHolds, PTL DEF Spec, RecentStays, RecentKept

-----------------------------------------------------------------------------
(***************************************************************************)
(* All the results of a transcript, in their order: the fold, by prefixes. *)
(***************************************************************************)
Step(all, m) == IF m.kind = "results" THEN all \o m.results ELSE all

Folds(iter, ms, n) ==
  iter = [s \in SUBSET (1 .. n) |->
            IF s = {} THEN <<>> ELSE Step(iter[s \ {Max(s)}], ms[Max(s)])]

Flattens(f, ms) == f[0] = <<>> /\ \A i \in 1 .. Len(ms) : f[i] = Step(f[i - 1], ms[i])

LEMMA FoldExists ==
  ASSUME NEW n \in Nat, NEW ms
  PROVE  \E iter : Folds(iter, ms, n)
<1> DEFINE Bad == {b \in 0 .. n : ~\E iter : Folds(iter, ms, b)}
<1> SUFFICES ASSUME Bad # {} PROVE FALSE
  OBVIOUS
<1>1. PICK b \in Bad : \A y \in Bad : b <= y
  <2>1. Bad \subseteq 0 .. n
    OBVIOUS
  <2> HIDE DEF Bad
  <2> QED BY <2>1, LeastPlace
<1>2. b \in 0 .. n /\ ~\E iter : Folds(iter, ms, b)
  OBVIOUS
<1>3. CASE b = 0
  <2> DEFINE iter == [s \in SUBSET (1 .. 0) |-> <<>>]
  <2>1. \A s \in SUBSET (1 .. 0) : s = {}
    OBVIOUS
  <2>2. iter = [s \in SUBSET (1 .. 0) |->
                  IF s = {} THEN <<>> ELSE Step(iter[s \ {Max(s)}], ms[Max(s)])]
    BY <2>1
  <2>3. Folds(iter, ms, 0)
    BY <2>2 DEF Folds
  <2> QED BY <1>2, <1>3, <2>3
<1>4. CASE b # 0
  <2> DEFINE D == SUBSET (1 .. b - 1)
  <2>1. b - 1 \in 0 .. n /\ ~(b <= b - 1) /\ b \in Nat /\ b - 1 \in Nat
    BY <1>2, <1>4
  <2>2. b - 1 \notin Bad
    BY <1>1, <2>1
  <2>3. PICK g : Folds(g, ms, b - 1)
    BY <2>1, <2>2
  <2> HIDE DEF Bad
  <2> DEFINE f == [s \in SUBSET (1 .. b) |->
                     IF b \in s THEN Step(g[s \ {b}], ms[b]) ELSE g[s]]
  <2>4. \A s \in D : g[s] = IF s = {} THEN <<>> ELSE Step(g[s \ {Max(s)}], ms[Max(s)])
    BY <2>3 DEF Folds
  <2>5. \A s \in D : s \in SUBSET (1 .. b) /\ b \notin s
    BY <2>1
  <2>6. \A s \in SUBSET (1 .. b) : s \ {b} \in D
    BY <2>1
  <2>7. \A s \in D : f[s] = g[s]
    BY <2>5
  <2>8. \A s \in SUBSET (1 .. b) : b \in s => f[s] = Step(g[s \ {b}], ms[b])
    OBVIOUS
  <2>9. DOMAIN f = SUBSET (1 .. b)
    OBVIOUS
  <2>10. f = [s \in SUBSET (1 .. b) |-> f[s]]
    OBVIOUS
  <2> HIDE DEF f, D
  <2>11. ASSUME NEW s \in SUBSET (1 .. b)
         PROVE  f[s] = IF s = {} THEN <<>> ELSE Step(f[s \ {Max(s)}], ms[Max(s)])
    <3>1. CASE b \in s
      <4>1. Max(s) = b
        <5>1. Max(s) \in s /\ \A y \in s : y <= Max(s)
          BY <2>1, <3>1, MaxOfPlaces
        <5>2. Max(s) \in 1 .. b /\ b <= Max(s)
          BY <3>1, <5>1
        <5> QED BY <2>1, <5>2
      <4>2. f[s] = Step(g[s \ {b}], ms[b]) /\ f[s \ {b}] = g[s \ {b}]
        BY <2>6, <2>7, <2>8, <3>1
      <4> QED BY <3>1, <4>1, <4>2
    <3>2. CASE b \notin s
      <4>1. s \in D /\ f[s] = g[s]
        BY <2>6, <2>7, <3>2
      <4>2. CASE s = {}
        BY <2>4, <4>1, <4>2
      <4>3. CASE s # {}
        <5>1. s \ {Max(s)} \in D
          BY <4>1 DEF D
        <5>2. f[s \ {Max(s)}] = g[s \ {Max(s)}]
          BY <2>7, <5>1
        <5> QED BY <2>4, <4>1, <4>3, <5>2
      <4> QED BY <4>2, <4>3
    <3> QED BY <3>1, <3>2
  <2> DEFINE e == [s \in SUBSET (1 .. b) |->
                     IF s = {} THEN <<>> ELSE Step(f[s \ {Max(s)}], ms[Max(s)])]
  <2>12. e = [s \in SUBSET (1 .. b) |-> e[s]] /\ \A s \in SUBSET (1 .. b) : e[s] = f[s]
    BY <2>11
  <2> HIDE DEF e
  <2>13. f = e
    BY <2>10, <2>12
  <2>14. Folds(f, ms, b)
    BY <2>13 DEF Folds, e
  <2> QED BY <1>2, <2>14
<1> QED BY <1>3, <1>4

LEMMA AllResultsIs ==
  ASSUME NEW ms, IsSeq(ms)
  PROVE  \E f : Flattens(f, ms) /\ AllResults(ms) = f[Len(ms)]
<1> DEFINE n == Len(ms)
           iter == CHOOSE it : Folds(it, ms, n)
           f == [i \in 0 .. n |-> iter[1 .. i]]
<1>1. n \in Nat /\ DOMAIN ms = 1 .. n
  BY SeqFacts
<1>2. AllResults(ms) = iter[1 .. n]
  <2>1. AllResults(ms) =
          (CHOOSE it : it = [s \in SUBSET DOMAIN ms |->
             IF s = {} THEN <<>> ELSE Step(it[s \ {Max(s)}], ms[Max(s)])])[DOMAIN ms]
    BY DEF AllResults, FoldLeft, MapThenFoldSet, Step
  <2> QED BY <1>1, <2>1 DEF Folds
<1> HIDE DEF n, iter
<1>3. Folds(iter, ms, n)
  <2>1. \E it : Folds(it, ms, n)
    BY <1>1, FoldExists
  <2> QED BY <2>1 DEF iter
<1>4. \A s \in SUBSET (1 .. n) :
        iter[s] = IF s = {} THEN <<>> ELSE Step(iter[s \ {Max(s)}], ms[Max(s)])
  BY <1>3 DEF Folds
<1>5. f[0] = <<>>
  <2>1. 1 .. 0 = {} /\ 0 \in 0 .. n
    BY <1>1
  <2>2. f[0] = iter[{}]
    BY <2>1
  <2> QED BY <1>4, <2>2
<1>6. ASSUME NEW i \in 1 .. n PROVE f[i] = Step(f[i - 1], ms[i])
  <2> DEFINE s == 1 .. i
  <2>1. s \in SUBSET (1 .. n) /\ i \in s /\ i \in Nat /\ s # {}
    BY <1>1
  <2>2. s \ {i} = 1 .. i - 1 /\ i \in 0 .. n /\ i - 1 \in 0 .. n
    BY <1>1
  <2>3. f[i] = iter[s] /\ f[i - 1] = iter[s \ {i}]
    BY <2>2
  <2>4. Max(s) = i
    <3>1. Max(s) \in s /\ \A y \in s : y <= Max(s)
      BY <2>1, MaxOfPlaces
    <3>2. i <= Max(s) /\ Max(s) \in 1 .. i
      BY <2>1, <3>1
    <3> QED BY <2>1, <3>2
  <2> HIDE DEF s, f
  <2> QED BY <1>4, <2>1, <2>3, <2>4
<1>7. f[n] = iter[1 .. n]
  BY <1>1
<1> HIDE DEF f
<1>8. Flattens(f, ms)
  BY <1>5, <1>6 DEF Flattens, n
<1> QED BY <1>2, <1>7, <1>8 DEF n

(* Flattened, transcripts that begin alike begin alike, and those with as  *)
(* many results in the same places have them in the same places.           *)
LEMMA FlatSame ==
  ASSUME NEW u, NEW v, NEW f, NEW g, Flattens(f, u), Flattens(g, v),
         NEW n \in Nat, n <= Len(u), n <= Len(v), Len(u) \in Nat, Len(v) \in Nat,
         \A i \in 1 .. n : u[i] = v[i]
  PROVE  f[n] = g[n]
<1> DEFINE Bad == {k \in 0 .. n : f[k] # g[k]}
<1> SUFFICES ASSUME Bad # {} PROVE FALSE
  OBVIOUS
<1>1. PICK k \in Bad : \A y \in Bad : k <= y
  <2>1. Bad \subseteq 0 .. n
    OBVIOUS
  <2> HIDE DEF Bad
  <2> QED BY <2>1, LeastPlace
<1>2. k \in 0 .. n /\ f[k] # g[k]
  OBVIOUS
<1>3. k # 0
  BY <1>2 DEF Flattens
<1>4. k - 1 \in 0 .. n /\ ~(k <= k - 1) /\ k \in 1 .. n /\ k \in 1 .. Len(u) /\ k \in 1 .. Len(v)
  BY <1>2, <1>3
<1>5. f[k - 1] = g[k - 1]
  <2>1. k - 1 \notin Bad
    BY <1>1, <1>4
  <2> QED BY <1>4, <2>1
<1>6. f[k] = Step(f[k - 1], u[k]) /\ g[k] = Step(g[k - 1], v[k]) /\ u[k] = v[k]
  BY <1>4 DEF Flattens
<1> QED BY <1>2, <1>5, <1>6

LEMMA JoinSeq ==
  ASSUME NEW a, NEW b, IsSeq(a), IsSeq(b)
  PROVE  /\ IsSeq(a \o b) /\ Len(a \o b) = Len(a) + Len(b)
         /\ \A i \in 1 .. Len(a) : (a \o b)[i] = a[i]
         /\ \A i \in 1 .. Len(b) : (a \o b)[Len(a) + i] = b[i]
<1> DEFINE A == ToSet(a)
           B == ToSet(b)
           U == A \cup B
           m == Len(a)
           n == Len(b)
           c == a \o b
<1>1. a \in Seq(A) /\ b \in Seq(B) /\ m \in Nat /\ n \in Nat
  BY SeqFacts DEF IsSeq
<1> HIDE DEF A, B
<1>2. a \in Seq(U) /\ b \in Seq(U)
  <2>1. \A x \in Seq(A) : x \in Seq(U)
    OBVIOUS
  <2>2. \A x \in Seq(B) : x \in Seq(U)
    OBVIOUS
  <2> QED BY <1>1, <2>1, <2>2
<1> HIDE DEF U
<1>3. c \in Seq(U) /\ Len(c) = m + n
  BY <1>2
<1>4. \A i \in 1 .. m + n : c[i] = IF i <= m THEN a[i] ELSE b[i - m]
  BY <1>2
<1> HIDE DEF c, m, n
<1>5. \A i \in 1 .. m : c[i] = a[i]
  <2> TAKE i \in 1 .. m
  <2>1. i \in 1 .. m + n /\ i <= m
    BY <1>1
  <2> QED BY <1>4, <2>1
<1>6. \A i \in 1 .. n : c[m + i] = b[i]
  <2> TAKE i \in 1 .. n
  <2>1. m + i \in 1 .. m + n /\ ~(m + i <= m) /\ (m + i) - m = i
    BY <1>1
  <2>2. c[m + i] = b[(m + i) - m]
    BY <1>4, <2>1
  <2> QED BY <2>1, <2>2
<1>7. IsSeq(c)
  BY <1>3, SeqOver
<1> QED BY <1>3, <1>5, <1>6, <1>7 DEF c, m, n

(* Where the results of the first k messages are.                          *)
Places(f, ms, k) ==
  /\ IsSeq(f[k])
  /\ \A i \in 1 .. k : ms[i].kind = "results" =>
       \A j \in DOMAIN ms[i].results :
         /\ Len(f[i - 1]) + j \in DOMAIN f[k]
         /\ f[k][Len(f[i - 1]) + j] = ms[i].results[j]
  /\ \A s \in DOMAIN f[k] : \E i \in 1 .. k :
       /\ ms[i].kind = "results"
       /\ \E j \in DOMAIN ms[i].results : s = Len(f[i - 1]) + j

LEMMA FlatFacts ==
  ASSUME NEW ms, Formed(ms), NEW f, Flattens(f, ms), NEW n \in 0 .. Len(ms)
  PROVE  Places(f, ms, n)
<1> DEFINE Bad == {k \in 0 .. n : ~Places(f, ms, k)}
<1> SUFFICES ASSUME Bad # {} PROVE FALSE
  <2>1. n \in 0 .. n
    BY FormedFacts
  <2> QED BY <2>1
<1>1. n \in Nat /\ Len(ms) \in Nat /\ n <= Len(ms) /\ DOMAIN ms = 1 .. Len(ms)
  BY FormedFacts
<1>2. PICK k \in Bad : \A y \in Bad : k <= y
  <2>1. Bad \subseteq 0 .. n
    OBVIOUS
  <2> HIDE DEF Bad
  <2> QED BY <1>1, <2>1, LeastPlace
<1>3. k \in 0 .. n /\ ~Places(f, ms, k)
  OBVIOUS
<1>4. CASE k = 0
  <2>1. f[0] = <<>> /\ <<>> \in Seq({}) /\ DOMAIN <<>> = {} /\ 1 .. 0 = {}
    BY DEF Flattens
  <2>2. IsSeq(<<>>)
    BY <2>1, SeqOver
  <2>3. Places(f, ms, 0)
    BY <2>1, <2>2 DEF Places
  <2> QED BY <1>3, <1>4, <2>3
<1>5. CASE k # 0
  <2> DEFINE p == k - 1
             a == f[p]
             r == ms[k].results
  <2>1. p \in 0 .. n /\ ~(k <= p) /\ k \in 1 .. Len(ms) /\ k \in Nat /\ p \in Nat
    BY <1>1, <1>3, <1>5
  <2>2. Places(f, ms, p)
    <3>1. p \notin Bad
      BY <1>2, <2>1
    <3> HIDE DEF p
    <3> QED BY <2>1, <3>1
  <2> HIDE DEF Bad
  <2>3. f[k] = IF ms[k].kind = "results" THEN a \o r ELSE a
    BY <2>1 DEF Flattens, Step
  <2>4. \A i \in 1 .. k : i = k \/ i \in 1 .. p
    BY <2>1
  <2>5. \A i \in 1 .. p : i \in 1 .. k
    BY <2>1
  <2>6. /\ IsSeq(a)
        /\ \A i \in 1 .. p : ms[i].kind = "results" =>
             \A j \in DOMAIN ms[i].results :
               Len(f[i - 1]) + j \in DOMAIN a /\ a[Len(f[i - 1]) + j] = ms[i].results[j]
        /\ \A s \in DOMAIN a : \E i \in 1 .. p :
             /\ ms[i].kind = "results"
             /\ \E j \in DOMAIN ms[i].results : s = Len(f[i - 1]) + j
    BY <2>2 DEF Places
  <2>7. CASE ms[k].kind # "results"
    <3>1. f[k] = a
      BY <2>3, <2>7
    <3> HIDE DEF a, p
    <3>2. Places(f, ms, k)
      BY <2>4, <2>5, <2>6, <2>7, <3>1 DEF Places
    <3> QED BY <1>3, <3>2
  <2>8. CASE ms[k].kind = "results"
    <3> DEFINE c == a \o r
    <3>1. f[k] = c
      BY <2>3, <2>8
    <3>2. IsSeq(r)
      BY <1>1, <2>1, <2>8 DEF Formed, Proper
    <3>3. f[k - 1] = a
      OBVIOUS
    <3> HIDE DEF a, r, p
    <3>4. Len(a) \in Nat /\ DOMAIN a = 1 .. Len(a) /\ Len(r) \in Nat /\ DOMAIN r = 1 .. Len(r)
      BY <2>6, <3>2, SeqFacts
    <3>5. /\ IsSeq(c) /\ Len(c) = Len(a) + Len(r)
          /\ \A i \in DOMAIN a : c[i] = a[i]
          /\ \A i \in DOMAIN r : c[Len(a) + i] = r[i]
      BY <2>6, <3>2, <3>4, JoinSeq
    <3> HIDE DEF c
    <3>6. DOMAIN c = 1 .. Len(a) + Len(r)
      BY <3>5, SeqFacts
    <3>7. (\A i \in DOMAIN a : i \in DOMAIN c) /\ \A i \in DOMAIN r : Len(a) + i \in DOMAIN c
      BY <3>4, <3>6
    <3>8. \A s \in DOMAIN c : s \in DOMAIN a \/ \E j \in DOMAIN r : s = Len(a) + j
      <4> TAKE s \in DOMAIN c
      <4>1. CASE s <= Len(a)
        BY <3>4, <3>6, <4>1
      <4>2. CASE ~(s <= Len(a))
        <5>1. s - Len(a) \in 1 .. Len(r) /\ s = Len(a) + (s - Len(a))
          BY <3>4, <3>6, <4>2
        <5> QED BY <3>4, <5>1
      <4> QED BY <4>1, <4>2
    <3>9. ASSUME NEW i \in 1 .. k, ms[i].kind = "results", NEW j \in DOMAIN ms[i].results
          PROVE  Len(f[i - 1]) + j \in DOMAIN c /\ c[Len(f[i - 1]) + j] = ms[i].results[j]
      <4>1. CASE i = k
        BY <3>3, <3>5, <3>7, <3>9, <4>1 DEF r
      <4>2. CASE i \in 1 .. p
        BY <2>6, <3>5, <3>7, <3>9, <4>2
      <4> QED BY <2>4, <4>1, <4>2
    <3>10. ASSUME NEW s \in DOMAIN c
           PROVE  \E i \in 1 .. k : /\ ms[i].kind = "results"
                                    /\ \E j \in DOMAIN ms[i].results : s = Len(f[i - 1]) + j
      <4>1. CASE s \in DOMAIN a
        BY <2>5, <2>6, <4>1
      <4>2. CASE \E j \in DOMAIN r : s = Len(a) + j
        <5>1. k \in 1 .. k
          BY <2>1
        <5> QED BY <2>8, <3>3, <4>2, <5>1 DEF r
      <4> QED BY <3>8, <4>1, <4>2
    <3>11. Places(f, ms, k)
      BY <3>1, <3>5, <3>9, <3>10 DEF Places
    <3> QED BY <1>3, <3>11
  <2> QED BY <2>7, <2>8
<1> QED BY <1>4, <1>5

LEMMA SameLength ==
  ASSUME NEW u, NEW v, IsSeq(u), IsSeq(v), DOMAIN u = DOMAIN v
  PROVE  Len(u) = Len(v)
<1> DEFINE m == Len(u)
           n == Len(v)
<1>1. m \in Nat /\ n \in Nat /\ DOMAIN u = 1 .. m /\ DOMAIN v = 1 .. n
  BY SeqFacts
<1> HIDE DEF m, n
<1>2. \A i \in Int : i \in 1 .. m <=> i \in 1 .. n
  BY <1>1
<1>3. \A i \in Int : (1 <= i /\ i <= m) <=> (1 <= i /\ i <= n)
  BY <1>1, <1>2
<1>4. CASE m < n
  <2>1. n \in Int /\ 1 <= n /\ n <= n /\ ~(n <= m)
    BY <1>1, <1>4
  <2> QED BY <1>3, <2>1
<1>5. CASE n < m
  <2>1. m \in Int /\ 1 <= m /\ m <= m /\ ~(m <= n)
    BY <1>1, <1>5
  <2> QED BY <1>3, <2>1
<1>6. m = n
  BY <1>1, <1>4, <1>5
<1> QED BY <1>6 DEF m, n

LEMMA FlatLengths ==
  ASSUME NEW u, NEW v, Formed(u), Formed(v), DOMAIN u = DOMAIN v,
         NEW f, NEW g, Flattens(f, u), Flattens(g, v),
         \A i \in DOMAIN u :
           /\ u[i].kind = v[i].kind
           /\ u[i].kind = "results" => DOMAIN u[i].results = DOMAIN v[i].results,
         NEW n \in 0 .. Len(u)
  PROVE  Len(f[n]) = Len(g[n])
<1> DEFINE Bad == {k \in 0 .. n : Len(f[k]) # Len(g[k])}
<1>1. /\ n \in Nat /\ Len(u) \in Nat /\ n <= Len(u) /\ DOMAIN u = 1 .. Len(u)
      /\ DOMAIN v = 1 .. Len(v) /\ Len(v) \in Nat
  BY FormedFacts
<1>2. Len(u) = Len(v)
  BY SameLength DEF Formed
<1> SUFFICES ASSUME Bad # {} PROVE FALSE
  BY <1>1
<1>3. PICK k \in Bad : \A y \in Bad : k <= y
  <2>1. Bad \subseteq 0 .. n
    OBVIOUS
  <2> HIDE DEF Bad
  <2> QED BY <1>1, <2>1, LeastPlace
<1>4. k \in 0 .. n /\ Len(f[k]) # Len(g[k])
  OBVIOUS
<1>5. k # 0
  BY <1>4 DEF Flattens
<1>6. /\ k - 1 \in 0 .. n /\ ~(k <= k - 1)
      /\ k \in 1 .. Len(u) /\ k \in 1 .. Len(v)
      /\ k - 1 \in 0 .. Len(u) /\ k - 1 \in 0 .. Len(v)
  BY <1>1, <1>2, <1>4, <1>5
<1>7. Len(f[k - 1]) = Len(g[k - 1])
  <2>1. k - 1 \notin Bad
    BY <1>3, <1>6
  <2> QED BY <1>6, <2>1
<1> HIDE DEF Bad
<1>8. IsSeq(f[k - 1]) /\ IsSeq(g[k - 1])
  BY <1>6, FlatFacts DEF Places
<1>9. f[k] = Step(f[k - 1], u[k]) /\ g[k] = Step(g[k - 1], v[k]) /\ u[k].kind = v[k].kind
  BY <1>1, <1>6 DEF Flattens
<1>10. CASE u[k].kind # "results"
  BY <1>4, <1>7, <1>9, <1>10 DEF Step
<1>11. CASE u[k].kind = "results"
  <2> DEFINE r == u[k].results
             s == v[k].results
  <2>1. IsSeq(r) /\ IsSeq(s) /\ DOMAIN r = DOMAIN s
    BY <1>1, <1>6, <1>9, <1>11 DEF Formed, Proper
  <2>2. f[k] = f[k - 1] \o r /\ g[k] = g[k - 1] \o s
    BY <1>9, <1>11 DEF Step
  <2> HIDE DEF r, s
  <2>3. Len(r) = Len(s)
    BY <2>1, SameLength
  <2>4. Len(f[k]) = Len(f[k - 1]) + Len(r) /\ Len(g[k]) = Len(g[k - 1]) + Len(s)
    BY <1>8, <2>1, <2>2, JoinSeq
  <2> QED BY <1>4, <1>7, <2>3, <2>4
<1> QED BY <1>10, <1>11

(***************************************************************************)
(* A digest pass, result by result.                                        *)
(***************************************************************************)
LEMMA DigestSays ==
  ASSUME NEW ms, Formed(ms), NEW options
  PROVE  LET all == AllResults(ms)
             new == AllResults(digest_old_tool_results(ms, options))
         IN  /\ IsSeq(all) /\ IsSeq(new) /\ Len(new) = Len(all)
             /\ \A s \in DOMAIN all :
                  /\ IsAnswer(all[s])
                  /\ new[s] = Digested(all, all[s], s, options)
<1> DEFINE u == digest_old_tool_results(ms, options)
           n == Len(ms)
           all == AllResults(ms)
           new == AllResults(u)
           before(i) == Len(AllResults(SubSeq(ms, 1, i - 1)))
           told(i) == [j \in DOMAIN ms[i].results |->
                         Digested(all, ms[i].results[j], before(i) + j, options)]
<1>1. u = [i \in DOMAIN ms |-> IF ms[i].kind # "results" THEN ms[i] ELSE ToolResults(told(i))]
  BY DEF digest_old_tool_results
<1>2. n \in Nat /\ DOMAIN ms = 1 .. n /\ IsSeq(ms) /\ \A i \in DOMAIN ms : Proper(ms[i])
  BY FormedFacts DEF Formed
<1>3. Formed(u) /\ DOMAIN u = DOMAIN ms
  BY DigestFacts
<1> HIDE DEF u
<1>4. \A i \in DOMAIN ms :
        /\ ms[i].kind # "results" => u[i] = ms[i]
        /\ ms[i].kind = "results" => u[i].kind = "results" /\ u[i].results = told(i)
  <2> HIDE DEF told
  <2> QED BY <1>1 DEF ToolResults
<1>5. \A i \in DOMAIN ms : ms[i].kind = "results" => DOMAIN told(i) = DOMAIN ms[i].results
  OBVIOUS
<1>6. \A i \in DOMAIN ms : ms[i].kind = "results" =>
        \A j \in DOMAIN ms[i].results :
          told(i)[j] = Digested(all, ms[i].results[j], before(i) + j, options)
  OBVIOUS
<1> HIDE DEF told, all, new
<1>7. Len(u) = n
  BY <1>2, <1>3, SameLength DEF Formed, n
<1>8. PICK f : Flattens(f, ms) /\ all = f[n]
  BY <1>2, AllResultsIs DEF all, n
<1>9. PICK g : Flattens(g, u) /\ new = g[n]
  <2>1. \E g : Flattens(g, u) /\ AllResults(u) = g[Len(u)]
    BY <1>3, AllResultsIs DEF Formed
  <2> QED BY <1>7, <2>1 DEF new
<1>10. ASSUME NEW k \in 0 .. n PROVE Len(f[k]) = Len(g[k])
  <2>1. \A i \in DOMAIN ms :
          /\ ms[i].kind = u[i].kind
          /\ ms[i].kind = "results" => DOMAIN ms[i].results = DOMAIN u[i].results
    BY <1>4, <1>5
  <2>2. k \in 0 .. Len(ms)
    BY <1>10 DEF n
  <2> HIDE DEF n
  <2> QED BY <1>3, <1>8, <1>9, <2>1, <2>2, FlatLengths
<1>11. ASSUME NEW i \in 1 .. n PROVE before(i) = Len(f[i - 1])
  <2> DEFINE p == i - 1
             w == SubSeq(ms, 1, p)
  <2>1. p \in Nat /\ p <= n /\ p \in 0 .. n
    BY <1>2
  <2>2. ms \in Seq(ToSet(ms))
    BY <1>2 DEF IsSeq
  <2> HIDE DEF p
  <2>3. IsSeq(w) /\ Len(w) = p /\ \A x \in 1 .. p : w[x] = ms[x]
    <3>1. w \in Seq(ToSet(ms)) /\ Len(w) = p /\ \A x \in 1 .. p : w[x] = ms[x]
      BY <1>2, <2>1, <2>2
    <3> HIDE DEF w
    <3> QED BY <3>1, SeqOver
  <2> HIDE DEF w
  <2>4. PICK h : Flattens(h, w) /\ AllResults(w) = h[p]
    BY <2>3, AllResultsIs
  <2>5. p <= p /\ Len(w) \in Nat /\ p <= Len(w) /\ p <= Len(ms) /\ Len(ms) \in Nat
    BY <1>2, <2>1, <2>3
  <2>6. h[p] = f[p]
    BY <1>8, <2>1, <2>3, <2>4, <2>5, FlatSame
  <2>7. before(i) = Len(AllResults(w))
    BY DEF p, w
  <2> QED BY <2>4, <2>6, <2>7 DEF p
<1> HIDE DEF before
<1>12. n \in 0 .. n /\ n \in 0 .. Len(ms) /\ n \in 0 .. Len(u)
  BY <1>2, <1>7
<1>13. Places(f, ms, n) /\ Places(g, u, n)
  <2> HIDE DEF n
  <2> QED BY <1>3, <1>8, <1>9, <1>12, FlatFacts
<1>14. IsSeq(all) /\ IsSeq(new) /\ Len(new) = Len(all)
  BY <1>8, <1>9, <1>10, <1>12, <1>13 DEF Places
<1>15. ASSUME NEW s \in DOMAIN all
       PROVE  IsAnswer(all[s]) /\ new[s] = Digested(all, all[s], s, options)
  <2>1. PICK i \in 1 .. n : /\ ms[i].kind = "results"
                            /\ \E j \in DOMAIN ms[i].results : s = Len(f[i - 1]) + j
    BY <1>8, <1>13, <1>15 DEF Places
  <2>2. PICK j \in DOMAIN ms[i].results : s = Len(f[i - 1]) + j
    BY <2>1
  <2> DEFINE r == ms[i].results[j]
  <2>3. all[s] = r
    BY <1>8, <1>13, <2>1, <2>2 DEF Places
  <2>4. IsAnswer(r)
    BY <1>2, <2>1, <2>2 DEF Proper
  <2>5. u[i].kind = "results" /\ j \in DOMAIN u[i].results
        /\ u[i].results[j] = Digested(all, r, before(i) + j, options)
    BY <1>2, <1>4, <1>5, <1>6, <2>1, <2>2
  <2>6. g[n][Len(g[i - 1]) + j] = u[i].results[j]
    BY <1>13, <2>1, <2>5 DEF Places
  <2>7. before(i) = Len(f[i - 1]) /\ Len(f[i - 1]) = Len(g[i - 1])
    <3>1. i - 1 \in 0 .. n
      BY <1>2
    <3> QED BY <1>10, <1>11, <3>1
  <2> HIDE DEF r
  <2>8. new[s] = Digested(all, r, s, options)
    BY <1>9, <2>2, <2>5, <2>6, <2>7
  <2> QED BY <2>3, <2>4, <2>8
<1> QED BY <1>14, <1>15 DEF all, new, u

(* What DigestKeepsNewest says of a step. *)
NewestKept(options) ==
  LET before == AllResults(messages)
      after  == AllResults(messages')
  IN  /\ Len(after) = Len(before) /\ \A i \in DOMAIN before : after[i].id = before[i].id
      /\ \A i \in DOMAIN before :
           \/ after[i] = before[i]
           \/ /\ i <= Len(before) - options.keep_recent
              /\ Length(before[i].content) <= options.max_full =>
                   \E j \in i + 1 .. Len(before) :
                     /\ Last(after[i].content.digest).duplicate_of = before[j].id
                     /\ after[j] = before[j] /\ before[j].content = before[i].content

LEMMA DigestStep ==
  ASSUME OptionsAssumption, IInv, NEW options \in DigestOptions, DigestPass(options)
  PROVE  NewestKept(options)
<1> DEFINE all == AllResults(messages)
           new == AllResults(messages')
           n == Len(all)
<1>1. Formed(messages) /\ messages' = digest_old_tool_results(messages, options)
  BY DEF IInv, Transcript, DigestPass
<1>2. /\ IsSeq(all) /\ IsSeq(new) /\ Len(new) = n
      /\ \A s \in DOMAIN all :
           /\ IsAnswer(all[s])
           /\ new[s] = Digested(all, all[s], s, options)
  BY <1>1, DigestSays
<1>3. options.max_full \in Nat /\ options.keep_recent \in Nat
  BY DEF OptionsAssumption
<1> HIDE DEF all, new
<1>4. n \in Nat /\ DOMAIN all = 1 .. n
  BY <1>2, SeqFacts
<1> HIDE DEF n
<1>5. ASSUME NEW i \in 1 .. n PROVE Length(all[i].content) \in Nat
  <2> DEFINE c == all[i].content
  <2>1. c.says \in Contents
    BY <1>2, <1>4 DEF IsAnswer, IsContent
  <2>2. (IF c.digest = <<>> THEN c.says ELSE "digest") \in Contents \cup {"digest"}
    BY <2>1
  <2>3. Chars \in [Contents \cup {"digest"} -> Nat]
    BY DEF OptionsAssumption
  <2> QED BY <2>2, <2>3 DEF Length
<1>6. ASSUME NEW i \in 1 .. n
      PROVE  /\ NewestWith(all, all[i].content) \in i .. n
             /\ all[NewestWith(all, all[i].content)].content = all[i].content
  <2> DEFINE S == {k \in DOMAIN all : all[k].content = all[i].content}
  <2>1. S \subseteq 1 .. n /\ i \in S
    BY <1>4
  <2>2. NewestWith(all, all[i].content) = Max(S)
    BY DEF NewestWith
  <2>3. \A k \in S : all[k].content = all[i].content
    OBVIOUS
  <2> HIDE DEF S
  <2>4. Max(S) \in S /\ i <= Max(S)
    BY <1>4, <2>1, MaxOfPlaces
  <2>5. Max(S) \in i .. n
    <3>1. Max(S) \in 1 .. n /\ i \in 1 .. n
      BY <2>1, <2>4
    <3> QED BY <1>4, <2>4, <3>1
  <2> QED BY <2>2, <2>3, <2>4, <2>5
<1>7. \A i \in 1 .. n : new[i].id = all[i].id
  BY <1>2, <1>4, DigestedFacts
<1>8. ASSUME NEW i \in 1 .. n, new[i] # all[i]
      PROVE  /\ i <= n - options.keep_recent
             /\ Length(all[i].content) <= options.max_full =>
                  \E j \in i + 1 .. n :
                    /\ Last(new[i].content.digest).duplicate_of = all[j].id
                    /\ new[j] = all[j] /\ all[j].content = all[i].content
  <2> DEFINE newest == NewestWith(all, all[i].content)
  <2>1. new[i] = IF /\ ~(n - i < options.keep_recent)
                    /\ newest # i \/ Length(all[i].content) > options.max_full
                 THEN Digest(all[i], IF newest # i THEN all[newest].id ELSE 0) ELSE all[i]
    BY <1>2, <1>4 DEF Digested, n
  <2>2. i <= n - options.keep_recent
    BY <1>3, <1>4, <1>8, <2>1
  <2>3. ASSUME Length(all[i].content) <= options.max_full
        PROVE  \E j \in i + 1 .. n :
                 /\ Last(new[i].content.digest).duplicate_of = all[j].id
                 /\ new[j] = all[j] /\ all[j].content = all[i].content
    <3>1. ~(Length(all[i].content) > options.max_full)
      BY <1>3, <1>5, <2>3
    <3>2. newest # i /\ new[i] = Digest(all[i], all[newest].id)
      BY <1>8, <2>1, <3>1
    <3>3. newest \in i .. n /\ all[newest].content = all[i].content
      BY <1>6
    <3> HIDE DEF newest
    <3>4. newest \in i + 1 .. n /\ newest \in 1 .. n
      BY <1>4, <3>2, <3>3
    <3>5. Last(new[i].content.digest).duplicate_of = all[newest].id
      BY <1>2, <1>4, <3>2, NoteFacts
    <3>6. new[newest] = all[newest]
      <4>1. NewestWith(all, all[newest].content) = newest
        BY <3>3 DEF newest
      <4>2. ~(Length(all[newest].content) > options.max_full)
        BY <3>1, <3>3
      <4> QED BY <1>2, <1>4, <3>4, <4>1, <4>2 DEF Digested
    <3> QED BY <3>3, <3>4, <3>5, <3>6
  <2> QED BY <2>2, <2>3
<1> QED BY <1>2, <1>4, <1>7, <1>8 DEF NewestKept, all, new, n

(* A digest pass keeps, of every content that is not too long, the newest  *)
(* copy in full, leaves the most recent results alone, and what it says is *)
(* a duplicate is one of the later result it names                         *)
(* (digest_old_tool_results).                                              *)
THEOREM NewestIsKept == Spec => DigestKeepsNewest
<1>1. IInv /\ [Next]_vars =>
        [\A options \in DigestOptions :
           digested' # digested /\ DigestPass(options) => NewestKept(options)]_vars
  BY DigestStep, OptionsAssumption
<1> QED BY <1>1, IInvHolds, PTL DEF Spec, DigestKeepsNewest, NewestKept
=============================================================================
