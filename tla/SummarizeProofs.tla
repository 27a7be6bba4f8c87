---------------------------- MODULE SummarizeProofs ----------------------------
(***************************************************************************)
(* The summary stage for every number of requests, questions and calls and *)
(* every bound: a question gets its own answer, a key has one call, and    *)
(* the breaker counts exactly, however the steps interleave.               *)
(*                                                                         *)
(* That a question gets its own answer is not inductive: it rests on what  *)
(* the cache keeps under a key, on the question of the call a request      *)
(* waits on, and on a call's name not being given to another while anybody *)
(* waits for it or can still find it.                                      *)
(***************************************************************************)
EXTENDS Summarize, FiniteSetTheorems, SequenceTheorems, TLAPS

(* A queue that lists the members of D once each.                          *)
Lists(order, D) ==
  /\ order \in Seq(D)
  /\ \A x \in D : \E i \in 1 .. Len(order) : order[i] = x
  /\ \A i, j \in 1 .. Len(order) : order[i] = order[j] => i = j

Bound(order, D, cap) == Lists(order, D) /\ Len(order) <= cap

Started == [phase : {"called"}, q : Questions]
Replied == [phase : Phases \ {"called"}, q : Questions, reply : Replies]
CallType == {NoCall} \cup Started \cup Replied

Running(call) == call.phase \in {"called", "remember", "send", "sent"}

Typed ==
  /\ in_flight \in [DOMAIN in_flight -> Calls] /\ DOMAIN in_flight \subseteq Keys
  /\ calls \in [Calls -> CallType]
  /\ req \in [Clients -> Requests]
  /\ streak \in [Scopes -> 0 .. MAX_CONSECUTIVE_FAILURES] /\ forgotten \subseteq Scopes

(* SummaryCache: a key's entry is the summary of the question of that key. *)
CacheHolds ==
  /\ Bound(cache.order, DOMAIN cache.entries, CACHE_ENTRIES)
  /\ cache.entries \in [DOMAIN cache.entries -> Questions] /\ DOMAIN cache.entries \subseteq Keys
  /\ \A k \in DOMAIN cache.entries : cache_key(cache.entries[k]) = k

BreakersHold ==
  /\ Bound(breakers.order, DOMAIN breakers.failures, BREAKER_SCOPES)
  /\ breakers.failures \in [DOMAIN breakers.failures -> 1 .. MAX_CONSECUTIVE_FAILURES]
  /\ DOMAIN breakers.failures \subseteq Scopes
  /\ BreakerIsExact

(* What a request finds under its key, and what it waits on, is a call for *)
(* its question.                                                           *)
CallsMatch ==
  /\ \A k \in DOMAIN in_flight :
       calls[in_flight[k]] # NoCall /\ cache_key(calls[in_flight[k]].q) = k
  /\ \A c \in Clients :
       req[c].phase = "wait" =>
         calls[req[c].call] # NoCall /\ cache_key(calls[req[c].call].q) = cache_key(req[c].q)
  /\ OneCallPerKey

(* A name in use is one somebody can still reach.                          *)
NamesInUse ==
  \A i \in Calls :
    calls[i] # NoCall =>
      (\E k \in DOMAIN in_flight : in_flight[k] = i) \/ Waiters(req, i) # {}

IInv == Typed /\ CacheHolds /\ BreakersHold /\ CallsMatch /\ NamesInUse /\ AnswersItsQuestion

-----------------------------------------------------------------------------
(* The queues of the two bounded maps.                                     *)
LEMMA ListsMirror ==
  ASSUME NEW f, NEW order, NEW cap \in Nat, Bound(order, DOMAIN f, cap)
  PROVE  Mirrors(order, f, cap)
<1> DEFINE D == DOMAIN f
           n == Len(order)
<1>1. /\ order \in Seq(D) /\ n \in Nat /\ n <= cap
      /\ \A x \in D : \E i \in 1 .. n : order[i] = x
      /\ \A i, j \in 1 .. n : order[i] = order[j] => i = j
  BY DEF Bound, Lists
<1>2. DOMAIN order = 1 .. n /\ order \in [1 .. n -> D]
  BY <1>1
<1>3. {order[i] : i \in DOMAIN order} = D
  <2> HIDE DEF n, D
  <2> QED BY <1>1, <1>2
<1>4. order \in Bijection(1 .. n, D)
  <2> HIDE DEF n, D
  <2> QED BY <1>1, <1>2 DEF Bijection, Injection, Surjection, IsInjective
<1>5. ExistsBijection(1 .. n, D)
  BY <1>4 DEF ExistsBijection
<1>6. Cardinality(D) = n
  <2> HIDE DEF n, D
  <2> QED BY <1>1, <1>5, FS_CountingElements
<1> QED BY <1>1, <1>3, <1>6 DEF Mirrors

LEMMA EnteredLists ==
  ASSUME NEW f, NEW order, Lists(order, DOMAIN f), NEW x
  PROVE  /\ Lists(Entered(f, order, x), DOMAIN f \cup {x})
         /\ Len(Entered(f, order, x)) <= Len(order) + 1
<1> DEFINE D == DOMAIN f
<1>1. /\ order \in Seq(D) /\ Len(order) \in Nat
      /\ \A y \in D : \E i \in 1 .. Len(order) : order[i] = y
      /\ \A i, j \in 1 .. Len(order) : order[i] = order[j] => i = j
  BY DEF Lists
<1>2. CASE x \in D
  <2>1. D \cup {x} = D /\ Entered(f, order, x) = order
    BY <1>2 DEF Entered
  <2> QED BY <1>1, <2>1
<1>3. CASE x \notin D
  <2> DEFINE E == D \cup {x}
             w == Append(order, x)
             n == Len(order)
  <2>1. Entered(f, order, x) = w
    BY <1>3 DEF Entered
  <2>2. order \in Seq(E)
    BY <1>1
  <2>3. /\ w \in Seq(E) /\ Len(w) = n + 1 /\ w[n + 1] = x
        /\ \A i \in 1 .. n : w[i] = order[i] /\ order[i] \in D
    BY <1>1, <2>2
  <2> HIDE DEF w
  <2>4. \A y \in E : \E i \in 1 .. Len(w) : w[i] = y
    <3> SUFFICES ASSUME NEW y \in E PROVE \E i \in 1 .. Len(w) : w[i] = y
      OBVIOUS
    <3>1. CASE y = x
      <4>1. n + 1 \in 1 .. Len(w)
        BY <1>1, <2>3
      <4> QED BY <2>3, <3>1, <4>1
    <3>2. CASE y \in D
      <4>1. PICK i \in 1 .. n : order[i] = y
        BY <1>1, <3>2
      <4>2. i \in 1 .. Len(w)
        BY <1>1, <2>3, <4>1
      <4> QED BY <2>3, <4>1, <4>2
    <3> QED BY <3>1, <3>2
  <2>5. \A i, j \in 1 .. Len(w) : w[i] = w[j] => i = j
    <3> SUFFICES ASSUME NEW i \in 1 .. n + 1, NEW j \in 1 .. n + 1, w[i] = w[j] PROVE i = j
      BY <2>3
    <3>1. i \in 1 .. n \/ i = n + 1
      BY <1>1
    <3>2. j \in 1 .. n \/ j = n + 1
      BY <1>1
    <3> QED BY <1>1, <1>3, <2>3, <3>1, <3>2
  <2>6. Lists(w, E)
    BY <2>3, <2>4, <2>5 DEF Lists
  <2> HIDE DEF E
  <2>7. Len(w) <= Len(order) + 1
    BY <1>1, <2>3
  <2> QED BY <2>1, <2>6, <2>7 DEF E
<1> QED BY <1>2, <1>3

LEMMA NewestLists ==
  ASSUME NEW D, NEW order, Lists(order, D), NEW cap \in Nat
  PROVE  Bound(Newest(order, cap), D \ PushedOut(order, cap), cap)
<1> DEFINE n == Len(order)
           k == Overflow(order, cap)
           w == Newest(order, cap)
           P == PushedOut(order, cap)
<1>1. /\ order \in Seq(D) /\ n \in Nat
      /\ \A y \in D : \E i \in 1 .. n : order[i] = y
      /\ \A i, j \in 1 .. n : order[i] = order[j] => i = j
  BY DEF Lists
<1>2. k \in 0 .. n /\ n - k <= cap
  BY <1>1 DEF Overflow
<1>3. P = {order[i] : i \in 1 .. k}
  BY DEF PushedOut
<1>4. /\ Len(w) = n - k /\ DOMAIN w = 1 .. n - k
      /\ \A i \in 1 .. n - k : w[i] = order[i + k] /\ order[i + k] \in D
  <2>1. w = SubSeq(order, k + 1, Len(order))
    BY DEF Newest
  <2> HIDE DEF k, w
  <2>2. /\ Len(w) = Len(order) - k /\ DOMAIN w = 1 .. Len(order) - k
        /\ \A i \in 1 .. Len(order) - k : w[i] = order[i + k]
    BY <1>1, <1>2, <2>1, SubSeqProperties
  <2>3. \A i \in 1 .. n - k : order[i + k] \in D
    BY <1>1, <1>2
  <2> QED BY <2>2, <2>3
<1> HIDE DEF k, w, P, n
<1>5. \A i \in 1 .. n - k : i + k \in 1 .. n /\ i + k \notin 1 .. k
  BY <1>1, <1>2
<1>6. w \in [1 .. n - k -> D \ P]
  <2>1. \A i \in 1 .. n - k : order[i + k] \notin P
    <3> SUFFICES ASSUME NEW i \in 1 .. n - k, NEW j \in 1 .. k, order[i + k] = order[j]
                 PROVE  FALSE
      BY <1>3
    <3>1. j \in 1 .. n /\ i + k \in 1 .. n /\ j # i + k
      BY <1>1, <1>2, <1>5
    <3> QED BY <1>1, <3>1
  <2>2. w = [i \in 1 .. n - k |-> w[i]]
    <3>1. w \in Seq(D)
      BY <1>1, <1>2, SubSeqProperties DEF w, k, n, Newest
    <3> QED BY <1>4, <3>1
  <2> QED BY <1>4, <2>1, <2>2
<1>7. w \in Seq(D \ P)
  BY <1>1, <1>2, <1>6
<1>8. \A y \in D \ P : \E i \in 1 .. n - k : w[i] = y
  <2> SUFFICES ASSUME NEW y \in D \ P PROVE \E i \in 1 .. n - k : w[i] = y
    OBVIOUS
  <2>1. PICK j \in 1 .. n : order[j] = y
    BY <1>1
  <2>2. j \notin 1 .. k
    BY <1>3, <2>1
  <2>3. j - k \in 1 .. n - k /\ (j - k) + k = j
    BY <1>1, <1>2, <2>2
  <2> QED BY <1>4, <2>1, <2>3
<1>9. \A i, j \in 1 .. n - k : w[i] = w[j] => i = j
  <2> SUFFICES ASSUME NEW i \in 1 .. n - k, NEW j \in 1 .. n - k, w[i] = w[j] PROVE i = j
    OBVIOUS
  <2>1. order[i + k] = order[j + k] /\ i + k \in 1 .. n /\ j + k \in 1 .. n
    BY <1>4, <1>5
  <2>2. i + k = j + k
    BY <1>1, <2>1
  <2> QED BY <1>1, <1>2, <2>2
<1>10. Bound(w, D \ P, cap)
  BY <1>1, <1>2, <1>4, <1>7, <1>8, <1>9 DEF Bound, Lists
<1> QED BY <1>10 DEF w, P

(* retain on a queue without doubles: x goes, what is behind it moves up.  *)
LEMMA WithoutLists ==
  ASSUME NEW D, NEW order, NEW cap \in Nat, Bound(order, D, cap), NEW x
  PROVE  Bound(Without(order, x), D \ {x}, cap)
<1> DEFINE n == Len(order)
           K == Kept(order, x)
<1>1. /\ order \in Seq(D) /\ n \in Nat /\ n <= cap /\ DOMAIN order = 1 .. n
      /\ \A y \in D : \E i \in 1 .. n : order[i] = y
      /\ \A i, j \in 1 .. n : order[i] = order[j] => i = j
      /\ order \in [1 .. n -> D]
  BY DEF Bound, Lists
<1>2. K = {i \in 1 .. n : order[i] # x}
  BY <1>1 DEF Kept
<1>3. ASSUME NEW m \in 0 .. n, NEW at \in 1 .. n + 1,
             \A i \in 1 .. n : i \in K <=> i # at,
             m = IF at \in 1 .. n THEN n - 1 ELSE n
      PROVE  Without(order, x) = [j \in 1 .. m |-> order[IF j < at THEN j ELSE j + 1]]
  <2>0. ASSUME NEW a \in 0 .. n
        PROVE  IsFiniteSet(1 .. a) /\ Cardinality(1 .. a) = a
    <3>1. a \in Int /\ 1 \in Int /\ a \in Nat
      BY <1>1
    <3> HIDE DEF n
    <3>2. /\ IsFiniteSet(1 .. a)
          /\ Cardinality(1 .. a) = IF 1 > a THEN 0 ELSE a - 1 + 1
      BY <3>1, FS_Interval
    <3> QED BY <3>1, <3>2
  <2>1. Cardinality(K) = m
    <3>1. K = (1 .. n) \ {at}
      BY <1>2, <1>3
    <3>2. IsFiniteSet(1 .. n) /\ Cardinality(1 .. n) = n
      BY <1>1, <2>0
    <3>3. Cardinality((1 .. n) \ {at}) = IF at \in 1 .. n THEN n - 1 ELSE n
      <4> HIDE DEF n
      <4> QED BY <3>2, FS_RemoveElement
    <3> QED BY <1>3, <3>1, <3>3
  <2>2. \A i \in K : Rank(K, i) = IF i < at THEN i ELSE i - 1
    <3> SUFFICES ASSUME NEW i \in K PROVE Rank(K, i) = IF i < at THEN i ELSE i - 1
      OBVIOUS
    <3>1. i \in 1 .. n /\ i # at
      BY <1>2, <1>3
    <3>2. {k \in K : k <= i} = (1 .. i) \ {at}
      <4>1. \A k \in 1 .. i : k \in 1 .. n /\ k <= i
        BY <1>1, <3>1
      <4>2. \A k \in K : k \in 1 .. n /\ k # at
        BY <1>2, <1>3
      <4>3. \A k \in 1 .. n : k <= i => k \in 1 .. i
        BY <1>1, <3>1
      <4> QED BY <1>3, <4>1, <4>2, <4>3
    <3>3. IsFiniteSet(1 .. i) /\ Cardinality(1 .. i) = i
      BY <1>1, <2>0, <3>1
    <3>4. Rank(K, i) = IF at \in 1 .. i THEN i - 1 ELSE i
      BY <3>2, <3>3, FS_RemoveElement DEF Rank
    <3>5. at \in 1 .. i <=> ~(i < at)
      BY <1>1, <1>3, <3>1
    <3> QED BY <3>4, <3>5
  <2>3. ASSUME NEW j \in 1 .. m
        PROVE  (CHOOSE i \in K : Rank(K, i) = j) = IF j < at THEN j ELSE j + 1
    <3> DEFINE p == IF j < at THEN j ELSE j + 1
    <3>1. p \in 1 .. n /\ p # at
      BY <1>1, <1>3
    <3>2. p \in K
      BY <1>3, <3>1
    <3>3. Rank(K, p) = j
      BY <1>1, <1>3, <2>2, <3>2
    <3>4. \A i \in K : Rank(K, i) = j => i = p
      <4> SUFFICES ASSUME NEW i \in K, Rank(K, i) = j PROVE i = p
        OBVIOUS
      <4>1. i \in 1 .. n /\ i # at
        BY <1>2, <1>3
      <4> HIDE DEF K
      <4> QED BY <1>1, <1>3, <2>2, <4>1
    <3> HIDE DEF K, p
    <3>5. (CHOOSE i \in K : Rank(K, i) = j) = p
      BY <3>2, <3>3, <3>4
    <3> QED BY <3>5 DEF p
  <2> HIDE DEF K
  <2>4. Without(order, x) = [j \in 1 .. m |-> order[CHOOSE i \in K : Rank(K, i) = j]]
    BY <2>1 DEF Without, Picked, K
  <2> QED BY <2>3, <2>4
<1> HIDE DEF K
<1>4. ASSUME NEW at \in 1 .. n, order[at] = x
      PROVE  Bound(Without(order, x), D \ {x}, cap)
  <2> DEFINE w == Without(order, x)
             up(j) == IF j < at THEN j ELSE j + 1
  <2>1. \A i \in 1 .. n : i \in K <=> i # at
    BY <1>1, <1>2, <1>4
  <2>2. n - 1 \in 0 .. n /\ at \in 1 .. n + 1
    BY <1>1
  <2>3. w = [j \in 1 .. n - 1 |-> order[up(j)]]
    BY <1>3, <2>1, <2>2
  <2>4. \A j \in 1 .. n - 1 : up(j) \in 1 .. n /\ up(j) # at
    BY <1>1
  <2>5. \A i, j \in 1 .. n - 1 : up(i) = up(j) => i = j
    BY <1>1
  <2>6. \A i \in 1 .. n : i # at => \E j \in 1 .. n - 1 : up(j) = i
    <3> SUFFICES ASSUME NEW i \in 1 .. n, i # at PROVE \E j \in 1 .. n - 1 : up(j) = i
      OBVIOUS
    <3>1. CASE i < at
      <4>1. i \in 1 .. n - 1 /\ up(i) = i
        BY <1>1, <3>1
      <4> QED BY <4>1
    <3>2. CASE ~(i < at)
      <4>1. i - 1 \in 1 .. n - 1 /\ up(i - 1) = i
        BY <1>1, <3>2
      <4> QED BY <4>1
    <3> QED BY <3>1, <3>2
  <2>7. \A j \in 1 .. n - 1 : order[up(j)] \in D \ {x}
    BY <1>1, <1>4, <2>4
  <2> HIDE DEF up, w
  <2>8. w \in [1 .. n - 1 -> D \ {x}]
    BY <2>3, <2>7
  <2>9. w \in Seq(D \ {x}) /\ Len(w) = n - 1
    <3>1. n - 1 \in Nat
      BY <1>1, <2>2
    <3> HIDE DEF n
    <3> QED BY <2>8, <3>1
  <2>10. \A y \in D \ {x} : \E j \in 1 .. n - 1 : w[j] = y
    <3> SUFFICES ASSUME NEW y \in D \ {x} PROVE \E j \in 1 .. n - 1 : w[j] = y
      OBVIOUS
    <3>1. PICK i \in 1 .. n : order[i] = y
      BY <1>1
    <3>2. PICK j \in 1 .. n - 1 : up(j) = i
      BY <1>4, <2>6, <3>1
    <3> QED BY <2>3, <3>1, <3>2
  <2>11. \A i, j \in 1 .. n - 1 : w[i] = w[j] => i = j
    BY <1>1, <2>3, <2>4, <2>5
  <2>12. n - 1 <= cap
    BY <1>1
  <2> QED BY <2>9, <2>10, <2>11, <2>12 DEF w, Bound, Lists
<1>5. ASSUME \A i \in 1 .. n : order[i] # x
      PROVE  Bound(Without(order, x), D \ {x}, cap)
  <2>1. Without(order, x) = [j \in 1 .. n |-> order[IF j < n + 1 THEN j ELSE j + 1]]
    <3>1. \A i \in 1 .. n : i \in K <=> i # n + 1
      BY <1>1, <1>2, <1>5
    <3>2. n \in 0 .. n /\ n + 1 \in 1 .. n + 1 /\ n + 1 \notin 1 .. n
      BY <1>1
    <3> QED BY <1>3, <3>1, <3>2
  <2>2. [j \in 1 .. n |-> order[IF j < n + 1 THEN j ELSE j + 1]] = [j \in 1 .. n |-> order[j]]
    BY <1>1
  <2>3. Without(order, x) = order
    BY <1>1, <2>1, <2>2
  <2>4. D \ {x} = D
    BY <1>1, <1>5
  <2> QED BY <2>3, <2>4
<1> QED BY <1>4, <1>5

-----------------------------------------------------------------------------
(* The questions and their keys.                                           *)
LEMMA BoundFacts ==
  /\ CACHE_ENTRIES \in Nat \ {0} /\ BREAKER_SCOPES \in Nat \ {0}
  /\ MAX_CONSECUTIVE_FAILURES \in Nat \ {0}
  BY BoundsAssumption

LEMMA KeyFacts ==
  /\ \A q \in Questions : cache_key(q) \in Keys /\ q.scope \in Scopes
  /\ \A q, r \in Questions : cache_key(q) = cache_key(r) => q = r
<1>1. \A q \in Questions : q = [scope |-> q.scope, focus |-> q.focus, page |-> q.page]
  BY AsksAssumption DEF Questions
<1>2. ASSUME NEW q \in Questions, NEW r \in Questions, cache_key(q) = cache_key(r)
      PROVE  q = r
  <2>1. q.scope = r.scope /\ q.focus = r.focus /\ q.page = r.page
    BY <1>2 DEF cache_key
  <2>2. q = [scope |-> q.scope, focus |-> q.focus, page |-> q.page]
    BY <1>1
  <2>3. r = [scope |-> r.scope, focus |-> r.focus, page |-> r.page]
    BY <1>1
  <2> QED BY <2>1, <2>2, <2>3
<1> QED BY <1>2 DEF Keys, Scopes

LEMMA AskFacts ==
  ASSUME NEW a \in Asks
  PROVE  /\ a.q \in Questions /\ a.ingest \in BOOLEAN
         /\ a.options \in Options
         /\ a.options.limited \in BOOLEAN /\ a.options.lossy \in BOOLEAN
<1>1. a.options \in Options /\ a.ingest \in BOOLEAN
  BY AsksAssumption
<1> QED BY <1>1 DEF Questions, Options

LEMMA BoundedFacts ==
  ASSUME NEW n \in Nat
  PROVE  /\ Bounded(n + 1) \in 1 .. MAX_CONSECUTIVE_FAILURES
         /\ \A m \in Nat : m <= n => Bounded(m + 1) <= Bounded(n + 1)
  BY BoundFacts DEF Bounded

LEMMA RememberedHolds ==
  ASSUME CacheHolds, NEW q \in Questions, cache' = Remembered(cache_key(q), q)
  PROVE  CacheHolds'
<1> DEFINE f == cache.entries
           k == cache_key(q)
           o == Entered(f, cache.order, k)
           P == PushedOut(o, CACHE_ENTRIES)
           g == Less(With(f, k, q), P)
<1>1. /\ Lists(cache.order, DOMAIN f) /\ f \in [DOMAIN f -> Questions]
      /\ DOMAIN f \subseteq Keys /\ \A j \in DOMAIN f : cache_key(f[j]) = j
  BY DEF CacheHolds, Bound
<1>2. cache'.entries = g /\ cache'.order = Newest(o, CACHE_ENTRIES)
  BY DEF Remembered
<1>3. Lists(o, DOMAIN f \cup {k})
  BY <1>1, EnteredLists
<1>4. Bound(Newest(o, CACHE_ENTRIES), (DOMAIN f \cup {k}) \ P, CACHE_ENTRIES)
  <2> HIDE DEF o, k
  <2> QED BY <1>3, NewestLists, BoundFacts
<1>5. /\ DOMAIN g = (DOMAIN f \cup {k}) \ P
      /\ \A j \in DOMAIN g : g[j] = IF j = k THEN q ELSE f[j]
  BY DEF Less, With
<1>6. g = [j \in DOMAIN g |-> g[j]]
  BY DEF Less
<1>7. k \in Keys
  BY KeyFacts
<1> HIDE DEF f, k, o, P, g
<1>8. g \in [DOMAIN g -> Questions] /\ DOMAIN g \subseteq Keys
  BY <1>1, <1>5, <1>6, <1>7
<1>9. \A j \in DOMAIN g : cache_key(g[j]) = j
  BY <1>1, <1>5 DEF k
<1> QED BY <1>2, <1>4, <1>5, <1>8, <1>9 DEF CacheHolds

LEMMA FailureRecorded ==
  ASSUME BreakersHold, streak \in [Scopes -> 0 .. MAX_CONSECUTIVE_FAILURES],
         forgotten \subseteq Scopes, NEW s \in Scopes, record_failure(s)
  PROVE  /\ BreakersHold' /\ streak' \in [Scopes -> 0 .. MAX_CONSECUTIVE_FAILURES]
         /\ forgotten' \subseteq Scopes
<1> DEFINE f == breakers.failures
           o == Entered(f, breakers.order, s)
           P == PushedOut(o, BREAKER_SCOPES)
           n == Bounded(Failures(s) + 1)
           g == Less(With(f, s, n), P)
<1>1. /\ Lists(breakers.order, DOMAIN f) /\ f \in [DOMAIN f -> 1 .. MAX_CONSECUTIVE_FAILURES]
      /\ DOMAIN f \subseteq Scopes /\ BreakerIsExact
  BY DEF BreakersHold, Bound
<1>2. /\ breakers'.failures = g /\ breakers'.order = Newest(o, BREAKER_SCOPES)
      /\ streak' = [streak EXCEPT ![s] = Bounded(@ + 1)]
      /\ forgotten' = forgotten \cup P
  BY DEF record_failure, Counted
<1>3. Lists(o, DOMAIN f \cup {s})
  BY <1>1, EnteredLists
<1>4. Bound(Newest(o, BREAKER_SCOPES), (DOMAIN f \cup {s}) \ P, BREAKER_SCOPES)
  <2> HIDE DEF o
  <2> QED BY <1>3, NewestLists, BoundFacts
<1>5. /\ DOMAIN g = (DOMAIN f \cup {s}) \ P
      /\ \A j \in DOMAIN g : g[j] = IF j = s THEN n ELSE f[j]
      /\ g = [j \in DOMAIN g |-> g[j]]
  BY DEF Less, With
<1>6. P \subseteq Scopes
  <2>1. o \in Seq(DOMAIN f \cup {s})
    BY <1>3 DEF Lists
  <2>2. DOMAIN f \cup {s} \subseteq Scopes
    BY <1>1
  <2>3. Overflow(o, BREAKER_SCOPES) \in 0 .. Len(o)
    BY <2>1, BoundFacts DEF Overflow
  <2> HIDE DEF o, f
  <2>4. \A i \in 1 .. Overflow(o, BREAKER_SCOPES) : o[i] \in Scopes
    BY <2>1, <2>2, <2>3
  <2> QED BY <2>4 DEF PushedOut
<1>7. \A x \in Scopes : Failures(x) \in 0 .. MAX_CONSECUTIVE_FAILURES
  BY <1>1, BoundFacts DEF Failures
<1>8. n \in 1 .. MAX_CONSECUTIVE_FAILURES
  BY <1>7, BoundedFacts, BoundFacts
<1>9. \A x \in Scopes : streak[x] \in 0 .. MAX_CONSECUTIVE_FAILURES
  OBVIOUS
<1>10. Bounded(streak[s] + 1) \in 1 .. MAX_CONSECUTIVE_FAILURES /\ n <= Bounded(streak[s] + 1)
  <2>1. Failures(s) <= streak[s] /\ Failures(s) \in Nat /\ streak[s] \in Nat
    BY <1>1, <1>7, <1>9, BoundFacts DEF BreakerIsExact
  <2> QED BY <2>1, BoundedFacts
<1>11. \A x \in Scopes :
         /\ Failures(x)' = IF x \in P THEN 0 ELSE IF x = s THEN n ELSE Failures(x)
         /\ streak'[x] = IF x = s THEN Bounded(streak[s] + 1) ELSE streak[x]
  <2> HIDE DEF g, P, n
  <2>1. \A x \in Scopes : Failures(x)' = IF x \in DOMAIN g THEN g[x] ELSE 0
    BY <1>2 DEF Failures
  <2>2. \A x \in Scopes : streak'[x] = IF x = s THEN Bounded(streak[s] + 1) ELSE streak[x]
    BY <1>2
  <2> QED BY <1>5, <2>1, <2>2 DEF Failures
<1> HIDE DEF g, P, n, f, o
<1>12. BreakerIsExact'
  <2> SUFFICES ASSUME NEW x \in Scopes
               PROVE  /\ Failures(x)' <= streak'[x]
                      /\ x \notin forgotten' => Failures(x)' = streak'[x]
    BY DEF BreakerIsExact
  <2>1. Failures(x) <= streak[x] /\ (x \notin forgotten => Failures(x) = streak[x])
    BY <1>1 DEF BreakerIsExact
  <2>2. x = s /\ x \notin forgotten => n = Bounded(streak[s] + 1)
    BY <2>1 DEF n
  <2>3. Bounded(streak[s] + 1) >= 0 /\ streak[x] >= 0
    BY <1>9, <1>10, BoundFacts
  <2> QED BY <1>2, <1>10, <1>11, <2>1, <2>2, <2>3
<1>13. g \in [DOMAIN g -> 1 .. MAX_CONSECUTIVE_FAILURES] /\ DOMAIN g \subseteq Scopes
  BY <1>1, <1>5, <1>8
<1>14. streak' \in [Scopes -> 0 .. MAX_CONSECUTIVE_FAILURES]
  BY <1>2, <1>10, BoundFacts
<1>15. forgotten' \subseteq Scopes
  BY <1>2, <1>6
<1> QED BY <1>2, <1>4, <1>5, <1>12, <1>13, <1>14, <1>15 DEF BreakersHold

LEMMA SuccessRecorded ==
  ASSUME BreakersHold, streak \in [Scopes -> 0 .. MAX_CONSECUTIVE_FAILURES],
         forgotten \subseteq Scopes, NEW s \in Scopes, record_success(s)
  PROVE  /\ BreakersHold' /\ streak' \in [Scopes -> 0 .. MAX_CONSECUTIVE_FAILURES]
         /\ forgotten' \subseteq Scopes
<1> DEFINE f == breakers.failures
           g == Less(f, {s})
           o == Without(breakers.order, s)
<1>1. /\ Bound(breakers.order, DOMAIN f, BREAKER_SCOPES)
      /\ f \in [DOMAIN f -> 1 .. MAX_CONSECUTIVE_FAILURES]
      /\ DOMAIN f \subseteq Scopes /\ BreakerIsExact
  BY DEF BreakersHold
<1>2. /\ breakers'.failures = g /\ breakers'.order = o
      /\ streak' = [streak EXCEPT ![s] = 0] /\ forgotten' = forgotten \ {s}
  BY DEF record_success, Cleared
<1>3. Bound(o, DOMAIN f \ {s}, BREAKER_SCOPES)
  BY <1>1, WithoutLists, BoundFacts
<1>4. /\ DOMAIN g = DOMAIN f \ {s} /\ \A j \in DOMAIN g : g[j] = f[j]
      /\ g = [j \in DOMAIN g |-> g[j]]
  BY DEF Less
<1> HIDE DEF g, o, f
<1>5. \A x \in Scopes : /\ Failures(x)' = IF x = s THEN 0 ELSE Failures(x)
                        /\ streak'[x] = IF x = s THEN 0 ELSE streak[x]
  <2>1. \A x \in Scopes : Failures(x)' = IF x \in DOMAIN g THEN g[x] ELSE 0
    BY <1>2 DEF Failures
  <2> QED BY <1>2, <1>4, <2>1 DEF Failures, f
<1>6. BreakerIsExact'
  BY <1>1, <1>2, <1>5 DEF BreakerIsExact
<1>7. streak' \in [Scopes -> 0 .. MAX_CONSECUTIVE_FAILURES] /\ forgotten' \subseteq Scopes
  BY <1>2, BoundFacts
<1>8. g \in [DOMAIN g -> 1 .. MAX_CONSECUTIVE_FAILURES] /\ DOMAIN g \subseteq Scopes
  BY <1>1, <1>4
<1> QED BY <1>2, <1>3, <1>4, <1>6, <1>7, <1>8 DEF BreakersHold

-----------------------------------------------------------------------------
(* Requests and calls by their phase.                                      *)
Pending == [phase : {"cache", "breaker", "join", "model", "remember"}, ingest : BOOLEAN,
            q : Questions, limited : BOOLEAN, lossy : BOOLEAN]
Waiting == [phase : {"wait"}, q : Questions, limited : BOOLEAN, call : Calls]
Settled == [phase : {"done"}, outcome : Outcomes]
Answered == [phase : {"done"}, q : Questions, outcome : {"written"}, text : Texts]

LEMMA RequestParts ==
  ASSUME NEW r \in Requests
  PROVE  /\ r.phase \in {"cache", "breaker", "join", "model", "remember"} => r \in Pending
         /\ r.phase = "wait" => r \in Waiting
         /\ r.phase = "done" => r \in Settled \cup Answered
         /\ r.phase = "done" /\ r.outcome = "written" => r \in Answered
         /\ r.phase \in {"idle", "cache", "breaker", "join", "model", "remember", "wait", "done"}
<1>1. r \in {Idle} \cup Pending \cup Waiting \cup Settled \cup Answered
  BY DEF Requests, Pending, Waiting, Settled, Answered
<1>2. CASE r = Idle
  BY <1>2 DEF Idle
<1>3. CASE r \in Pending
  BY <1>3 DEF Pending
<1>4. CASE r \in Waiting
  BY <1>4 DEF Waiting
<1>5. CASE r \in Settled
  BY <1>5 DEF Settled, Outcomes
<1>6. CASE r \in Answered
  BY <1>6 DEF Answered
<1> QED BY <1>1, <1>2, <1>3, <1>4, <1>5, <1>6

LEMMA RequestsMade ==
  /\ Pending \subseteq Requests /\ Waiting \subseteq Requests
  /\ Settled \subseteq Requests /\ Answered \subseteq Requests
  /\ Idle \in Requests /\ Idle.phase = "idle"
  /\ \A outcome \in Outcomes : Done(outcome) \in Settled
  /\ \A q \in Questions, text \in Questions : Written(q, text) \in Answered
  BY DEF Requests, Pending, Waiting, Settled, Answered, Idle, Done, Written, Texts

LEMMA CallParts ==
  ASSUME NEW call \in CallType
  PROVE  /\ call = NoCall <=> call.phase = "none"
         /\ call # NoCall => call.q \in Questions
         /\ call.phase = "called" => call \in Started
         /\ call.phase \in {"remember", "send", "sent", "left", "dead"} => call \in Replied
         /\ call.phase \in {"none", "called", "remember", "send", "sent", "left", "dead"}
<1>0. NoCall.phase = "none"
  BY DEF NoCall
<1>1. CASE call = NoCall
  BY <1>0, <1>1
<1>2. CASE call \in Started
  <2>1. call.phase = "called" /\ call.q \in Questions
    BY <1>2 DEF Started
  <2> QED BY <1>0, <1>2, <2>1
<1>3. CASE call \in Replied
  <2>1. call.phase \in {"remember", "send", "sent", "left", "dead"} /\ call.q \in Questions
    BY <1>3 DEF Replied, Phases
  <2> QED BY <1>0, <1>3, <2>1
<1> QED BY <1>1, <1>2, <1>3 DEF CallType

(* What the shared maps have to keep, a step of whoever it is.             *)
MapsHold ==
  /\ CacheHolds /\ BreakersHold
  /\ streak \in [Scopes -> 0 .. MAX_CONSECUTIVE_FAILURES] /\ forgotten \subseteq Scopes

LEMMA MapsUnchanged ==
  ASSUME IInv, UNCHANGED <<cache, breakers, streak, forgotten>>
  PROVE  MapsHold'
  BY DEF IInv, Typed, MapsHold, CacheHolds, BreakersHold, Bound, Lists, BreakerIsExact, Failures

(* A request that is not waiting on a call becomes r, which is not either. *)
LEMMA RequestMoves ==
  ASSUME IInv, NEW c \in Clients, req[c].phase # "wait",
         NEW r \in Requests, r.phase # "wait", r \in Answered => r.text = r.q,
         req' = [req EXCEPT ![c] = r], UNCHANGED <<in_flight, calls>>, MapsHold'
  PROVE  IInv'
<1>0. Typed /\ CallsMatch /\ NamesInUse /\ AnswersItsQuestion
  BY DEF IInv
<1>1. req' \in [Clients -> Requests] /\ req'[c] = r /\ \A d \in Clients \ {c} : req'[d] = req[d]
  BY <1>0 DEF Typed
<1>2. Typed'
  BY <1>0, <1>1 DEF Typed, MapsHold
<1>3. CallsMatch'
  BY <1>0, <1>1 DEF CallsMatch, OneCallPerKey
<1>4. \A i : Waiters(req, i) \subseteq Waiters(req', i)
  BY <1>1 DEF Waiters
<1>5. NamesInUse'
  BY <1>0, <1>4 DEF NamesInUse
<1>6. AnswersItsQuestion'
  <2>1. r.phase = "done" /\ r.outcome = "written" => r.text = r.q
    BY RequestParts
  <2> QED BY <1>0, <1>1, <2>1 DEF AnswersItsQuestion
<1> QED BY <1>2, <1>3, <1>5, <1>6 DEF IInv, MapsHold

(* A call goes on, or dies.                                                *)
LEMMA CallMoves ==
  ASSUME IInv, NEW i \in Calls, calls[i] # NoCall, NEW v \in Replied, v.q = calls[i].q,
         Running(v) => Running(calls[i]),
         calls' = [calls EXCEPT ![i] = v], UNCHANGED <<in_flight, req>>, MapsHold'
  PROVE  IInv'
<1>0. Typed /\ CallsMatch /\ NamesInUse /\ AnswersItsQuestion
  BY DEF IInv
<1>1. /\ calls' \in [Calls -> CallType] /\ calls'[i] = v
      /\ \A j \in Calls \ {i} : calls'[j] = calls[j]
  BY <1>0 DEF Typed, CallType
<1>2. v # NoCall
  BY <1>1, CallParts DEF Replied, Phases
<1>3. Typed'
  BY <1>0, <1>1 DEF Typed, MapsHold
<1>4. \A j \in Calls : /\ calls[j] # NoCall => calls'[j] # NoCall /\ calls'[j].q = calls[j].q
                       /\ calls'[j] # NoCall => calls[j] # NoCall
                       /\ Running(calls'[j]) => Running(calls[j]) /\ calls'[j].q = calls[j].q
  BY <1>1, <1>2
<1>5. CallsMatch'
  <2>1. \A k \in DOMAIN in_flight : in_flight[k] \in Calls
    BY <1>0 DEF Typed
  <2>2. \A d \in Clients : req[d].phase = "wait" => req[d].call \in Calls
    BY <1>0, RequestParts DEF Typed, Waiting
  <2>3. OneCallPerKey'
    BY <1>0, <1>4 DEF CallsMatch, OneCallPerKey, Running
  <2> QED BY <1>0, <1>4, <2>1, <2>2, <2>3 DEF CallsMatch
<1>6. NamesInUse'
  BY <1>0, <1>4 DEF NamesInUse
<1>7. AnswersItsQuestion'
  BY <1>0 DEF AnswersItsQuestion
<1> QED BY <1>3, <1>5, <1>6, <1>7 DEF IInv, MapsHold

LEMMA ReachableFacts ==
  ASSUME NEW cs \in [Calls -> CallType], NEW flying, NEW r
  PROVE  /\ Reachable(flying, cs, r) \in [Calls -> CallType]
         /\ \A i \in Calls :
              /\ Reachable(flying, cs, r)[i] \in {cs[i], NoCall}
              /\ \/ Running(cs[i]) \/ (\E k \in DOMAIN flying : flying[k] = i)
                 \/ Waiters(r, i) # {}
                 => Reachable(flying, cs, r)[i] = cs[i]
              /\ Reachable(flying, cs, r)[i] # NoCall =>
                   \/ Running(cs[i]) \/ (\E k \in DOMAIN flying : flying[k] = i)
                   \/ Waiters(r, i) # {}
  BY DEF Reachable, Running, CallType

(* A request gets its answer, or goes: the name of the call it waited on   *)
(* becomes free when nobody else can reach the call.                       *)
LEMMA LeaveKeeps ==
  ASSUME IInv, NEW c \in Clients, req[c].phase \in {"wait", "model"},
         NEW r \in Requests, r.phase # "wait", r \in Answered => r.text = r.q, Leave(c, r)
  PROVE  IInv'
<1>0. Typed /\ CallsMatch /\ NamesInUse /\ AnswersItsQuestion
  BY DEF IInv
<1>1. /\ req' = [req EXCEPT ![c] = r] /\ calls' = Reachable(in_flight, calls, req')
      /\ UNCHANGED <<cache, breakers, in_flight, streak, forgotten>>
  BY DEF Leave, Answer
<1>2. req' \in [Clients -> Requests] /\ req'[c] = r /\ \A d \in Clients \ {c} : req'[d] = req[d]
  BY <1>0, <1>1 DEF Typed
<1>3. /\ calls' \in [Calls -> CallType]
      /\ \A i \in Calls :
           /\ calls'[i] \in {calls[i], NoCall}
           /\ \/ Running(calls[i]) \/ (\E k \in DOMAIN in_flight : in_flight[k] = i)
              \/ Waiters(req', i) # {}
              => calls'[i] = calls[i]
           /\ calls'[i] # NoCall =>
                \/ Running(calls[i]) \/ (\E k \in DOMAIN in_flight : in_flight[k] = i)
                \/ Waiters(req', i) # {}
  <2> DEFINE q == req'
  <2>1. calls \in [Calls -> CallType]
    BY <1>0 DEF Typed
  <2> HIDE DEF q
  <2>2. calls' = Reachable(in_flight, calls, q)
    BY <1>1 DEF q
  <2>3. calls' \in [Calls -> CallType]
    BY <2>1, <2>2, ReachableFacts
  <2>4. \A i \in Calls :
           /\ calls'[i] \in {calls[i], NoCall}
           /\ \/ Running(calls[i]) \/ (\E k \in DOMAIN in_flight : in_flight[k] = i)
              \/ Waiters(q, i) # {}
              => calls'[i] = calls[i]
           /\ calls'[i] # NoCall =>
                \/ Running(calls[i]) \/ (\E k \in DOMAIN in_flight : in_flight[k] = i)
                \/ Waiters(q, i) # {}
    BY <2>1, <2>2, ReachableFacts
  <2> QED BY <2>3, <2>4 DEF q
<1>4. MapsHold'
  BY <1>1, MapsUnchanged
<1>5. Typed'
  BY <1>0, <1>1, <1>2, <1>3, <1>4 DEF Typed, MapsHold
<1>6. ~Running(NoCall)
  BY DEF Running, NoCall
<1>7. CallsMatch'
  <2>1. \A k \in DOMAIN in_flight : in_flight[k] \in Calls /\ calls'[in_flight[k]] = calls[in_flight[k]]
    BY <1>0, <1>3 DEF Typed
  <2>2. ASSUME NEW d \in Clients, req'[d].phase = "wait"
        PROVE  calls'[req'[d].call] = calls[req[d].call] /\ req'[d] = req[d]
    <3>1. d # c /\ req'[d] = req[d]
      BY <1>2, <2>2
    <3>2. req[d].call \in Calls
      BY <1>0, <2>2, <3>1, RequestParts DEF Typed, Waiting
    <3>3. d \in Waiters(req', req[d].call)
      BY <2>2, <3>1 DEF Waiters
    <3> QED BY <1>3, <3>1, <3>2, <3>3
  <2>3. OneCallPerKey'
    BY <1>0, <1>1, <1>3, <1>6 DEF CallsMatch, OneCallPerKey, Running
  <2>4. \A k \in DOMAIN in_flight :
          calls'[in_flight[k]] # NoCall /\ cache_key(calls'[in_flight[k]].q) = k
    BY <1>0, <2>1 DEF CallsMatch
  <2>5. \A d \in Clients : req'[d].phase = "wait" =>
          calls'[req'[d].call] # NoCall /\ cache_key(calls'[req'[d].call].q) = cache_key(req'[d].q)
    BY <1>0, <2>2 DEF CallsMatch
  <2>6. in_flight' = in_flight
    BY <1>1
  <2> QED BY <2>3, <2>4, <2>5, <2>6 DEF CallsMatch
<1>8. NamesInUse'
  <2>1. \A i \in Calls : Running(calls[i]) => \E k \in DOMAIN in_flight : in_flight[k] = i
    BY <1>0 DEF CallsMatch, OneCallPerKey, Running
  <2> QED BY <1>1, <1>3, <2>1 DEF NamesInUse
<1>9. AnswersItsQuestion'
  <2>1. r.phase = "done" /\ r.outcome = "written" => r.text = r.q
    BY RequestParts
  <2> QED BY <1>0, <1>2, <2>1 DEF AnswersItsQuestion
<1> QED BY <1>4, <1>5, <1>7, <1>8, <1>9 DEF IInv, MapsHold

(* The call that was running for its key leaves, and only that one does.   *)
LEMMA CallLeavesKeeps ==
  ASSUME IInv, NEW i \in Calls, CallLeaves(i)
  PROVE  IInv'
<1>0. Typed /\ CallsMatch /\ NamesInUse /\ AnswersItsQuestion
  BY DEF IInv
<1> DEFINE key == cache_key(calls[i].q)
           fl == Less(in_flight, {key})
           cs == [calls EXCEPT ![i].phase = "left"]
<1>1. /\ calls[i].phase = "sent" /\ in_flight' = fl
      /\ calls' = Reachable(fl, cs, req)
      /\ UNCHANGED <<cache, breakers, req, streak, forgotten>>
  BY DEF CallLeaves
<1>2. /\ calls[i] \in Replied /\ calls[i].q \in Questions /\ calls[i] # NoCall
      /\ key \in DOMAIN in_flight /\ in_flight[key] = i
  BY <1>0, <1>1, CallParts DEF Typed, CallsMatch, OneCallPerKey
<1>3. /\ DOMAIN fl = DOMAIN in_flight \ {key} /\ \A k \in DOMAIN fl : fl[k] = in_flight[k]
      /\ fl = [k \in DOMAIN fl |-> fl[k]]
  BY DEF Less
<1>4. /\ cs \in [Calls -> CallType] /\ cs[i].phase = "left" /\ cs[i].q = calls[i].q
      /\ \A j \in Calls \ {i} : cs[j] = calls[j]
  <2>1. [calls[i] EXCEPT !.phase = "left"] \in Replied
    BY <1>2 DEF Replied, Phases
  <2>2. calls[i].q = [calls[i] EXCEPT !.phase = "left"].q
    BY <1>2 DEF Replied
  <2>3. [calls[i] EXCEPT !.phase = "left"].phase = "left"
    BY <1>2 DEF Replied
  <2> QED BY <1>0, <2>1, <2>2, <2>3 DEF Typed, CallType
<1>5. cs[i] # NoCall
  BY <1>4 DEF NoCall
<1> HIDE DEF key, fl, cs
<1>6. /\ calls' \in [Calls -> CallType]
      /\ \A j \in Calls :
           /\ calls'[j] \in {cs[j], NoCall}
           /\ (Running(cs[j]) \/ (\E k \in DOMAIN fl : fl[k] = j) \/ Waiters(req, j) # {})
              => calls'[j] = cs[j]
           /\ calls'[j] # NoCall =>
                Running(cs[j]) \/ (\E k \in DOMAIN fl : fl[k] = j) \/ Waiters(req, j) # {}
  BY <1>1, <1>4, ReachableFacts
<1>7. MapsHold'
  BY <1>1, MapsUnchanged
<1>8. /\ in_flight' \in [DOMAIN in_flight' -> Calls] /\ DOMAIN in_flight' \subseteq Keys
  BY <1>0, <1>1, <1>3 DEF Typed
<1>9. Typed'
  BY <1>0, <1>1, <1>6, <1>7, <1>8 DEF Typed, MapsHold
<1>10. ~Running(NoCall) /\ ~Running(cs[i])
  BY <1>4 DEF Running, NoCall
<1>11. \A j \in Calls : /\ calls[j] # NoCall => cs[j] # NoCall
                        /\ cs[j].q = calls[j].q
  BY <1>4, <1>5
<1>12. CallsMatch'
  <2>1. \A k \in DOMAIN fl : fl[k] \in Calls /\ calls'[fl[k]] = cs[fl[k]]
    BY <1>0, <1>3, <1>6 DEF Typed
  <2>2. ASSUME NEW d \in Clients, req[d].phase = "wait"
        PROVE  req[d].call \in Calls /\ calls'[req[d].call] = cs[req[d].call]
    <3>1. req[d].call \in Calls
      BY <1>0, <2>2, RequestParts DEF Typed, Waiting
    <3>2. d \in Waiters(req, req[d].call)
      BY <2>2 DEF Waiters
    <3> QED BY <1>6, <3>1, <3>2
  <2>3. ASSUME NEW j \in Calls, Running(calls'[j])
        PROVE  cache_key(calls'[j].q) \in DOMAIN fl /\ fl[cache_key(calls'[j].q)] = j
    <3>1. j # i /\ calls'[j] = calls[j]
      BY <1>4, <1>6, <1>10, <2>3
    <3>2. cache_key(calls[j].q) \in DOMAIN in_flight /\ in_flight[cache_key(calls[j].q)] = j
      BY <1>0, <2>3, <3>1 DEF CallsMatch, OneCallPerKey, Running
    <3>3. cache_key(calls[j].q) # key
      BY <1>2, <3>1, <3>2
    <3> QED BY <1>3, <3>1, <3>2, <3>3
  <2>4. OneCallPerKey'
    BY <1>1, <2>3 DEF OneCallPerKey, Running
  <2>5. \A k \in DOMAIN fl : calls'[fl[k]] # NoCall /\ cache_key(calls'[fl[k]].q) = k
    BY <1>0, <1>3, <1>11, <2>1 DEF CallsMatch
  <2>6. \A d \in Clients : req[d].phase = "wait" =>
          calls'[req[d].call] # NoCall /\ cache_key(calls'[req[d].call].q) = cache_key(req[d].q)
    BY <1>0, <1>11, <2>2 DEF CallsMatch
  <2>7. in_flight' = fl /\ req' = req
    BY <1>1
  <2> QED BY <2>4, <2>5, <2>6, <2>7 DEF CallsMatch
<1>13. NamesInUse'
  <2>1. ASSUME NEW j \in Calls, Running(cs[j])
        PROVE  \E k \in DOMAIN fl : fl[k] = j
    <3>1. j # i /\ cs[j] = calls[j]
      BY <1>4, <1>10, <2>1
    <3>2. cache_key(calls[j].q) \in DOMAIN in_flight /\ in_flight[cache_key(calls[j].q)] = j
      BY <1>0, <2>1, <3>1 DEF CallsMatch, OneCallPerKey, Running
    <3>3. cache_key(calls[j].q) # key
      BY <1>2, <3>1, <3>2
    <3> QED BY <1>3, <3>2, <3>3
  <2> QED BY <1>1, <1>6, <2>1 DEF NamesInUse
<1>14. AnswersItsQuestion'
  BY <1>0, <1>1 DEF AnswersItsQuestion
<1> QED BY <1>7, <1>9, <1>12, <1>13, <1>14 DEF IInv, MapsHold

(* Names cannot run out: each name in use is found under a key or waited   *)
(* on, and a request that joins adds a key nobody has and waits for none.  *)
LEMMA OneIsFree ==
  ASSUME IInv, NEW c \in Clients, req[c].phase # "wait",
         NEW key \in Keys, key \notin DOMAIN in_flight
  PROVE  \E i \in Calls : calls[i] = NoCall
<1>0. Typed /\ NamesInUse
  BY DEF IInv
<1> DEFINE K == DOMAIN in_flight
           A == {d \in Clients : req[d].phase = "wait"}
           F == {in_flight[k] : k \in K}
           W == {req[d].call : d \in A}
           g == [k \in K |-> in_flight[k]]
           h == [d \in A |-> req[d].call]
<1>1. /\ IsFiniteSet(Clients) /\ IsFiniteSet(Calls) /\ IsFiniteSet(Keys)
      /\ Cardinality(Calls) + 1 >= Cardinality(Clients) + Cardinality(Keys)
  BY BoundsAssumption
<1>2. K \subseteq Keys \ {key} /\ A \subseteq Clients \ {c}
  BY <1>0 DEF Typed
<1>3. /\ IsFiniteSet(Keys \ {key}) /\ Cardinality(Keys \ {key}) = Cardinality(Keys) - 1
      /\ IsFiniteSet(Clients \ {c}) /\ Cardinality(Clients \ {c}) = Cardinality(Clients) - 1
  BY <1>1, FS_RemoveElement
<1>4. /\ IsFiniteSet(K) /\ Cardinality(K) <= Cardinality(Keys) - 1
      /\ IsFiniteSet(A) /\ Cardinality(A) <= Cardinality(Clients) - 1
  <2> HIDE DEF K, A
  <2> QED BY <1>2, <1>3, FS_Subset
<1>5. g \in Surjection(K, F) /\ h \in Surjection(A, W)
  BY DEF Surjection
<1>6. /\ IsFiniteSet(F) /\ Cardinality(F) <= Cardinality(K)
      /\ IsFiniteSet(W) /\ Cardinality(W) <= Cardinality(A)
  <2> HIDE DEF K, A, F, W, g, h
  <2> QED BY <1>4, <1>5, FS_Surjection
<1> HIDE DEF K, A, F, W, g, h
<1>7. IsFiniteSet(F \cup W) /\ Cardinality(F \cup W) <= Cardinality(F) + Cardinality(W)
  <2>1. Cardinality(F \cap W) \in Nat
    BY <1>6, FS_Intersection, FS_CardinalityType
  <2>2. Cardinality(F) \in Nat /\ Cardinality(W) \in Nat
    BY <1>6, FS_CardinalityType
  <2>3. /\ IsFiniteSet(F \cup W)
        /\ Cardinality(F \cup W) = Cardinality(F) + Cardinality(W) - Cardinality(F \cap W)
    BY <1>6, FS_Union
  <2> QED BY <2>1, <2>2, <2>3
<1>8. Cardinality(F \cup W) < Cardinality(Calls)
  <2>1. /\ Cardinality(F) \in Nat /\ Cardinality(W) \in Nat /\ Cardinality(F \cup W) \in Nat
        /\ Cardinality(K) \in Nat /\ Cardinality(A) \in Nat
        /\ Cardinality(Keys) \in Nat /\ Cardinality(Clients) \in Nat /\ Cardinality(Calls) \in Nat
    BY <1>1, <1>4, <1>6, <1>7, FS_CardinalityType
  <2> QED BY <1>1, <1>4, <1>6, <1>7, <2>1
<1>9. ~(Calls \subseteq F \cup W)
  <2> SUFFICES ASSUME Calls \subseteq F \cup W PROVE FALSE
    OBVIOUS
  <2>1. Cardinality(Calls) <= Cardinality(F \cup W)
    BY <1>7, FS_Subset
  <2>2. Cardinality(Calls) \in Nat /\ Cardinality(F \cup W) \in Nat
    BY <1>1, <1>7, FS_CardinalityType
  <2> QED BY <1>8, <2>1, <2>2
<1>10. PICK i \in Calls : i \notin F \cup W
  BY <1>9
<1>11. ~(\E k \in DOMAIN in_flight : in_flight[k] = i) /\ Waiters(req, i) = {}
  BY <1>10 DEF F, W, K, A, Waiters
<1> QED BY <1>0, <1>11 DEF NamesInUse

(* The request joins the call for its key, or starts one under a free name.*)
LEMMA JoinOrStartKeeps ==
  ASSUME IInv, NEW c \in Clients, JoinOrStart(c)
  PROVE  IInv'
<1>0. Typed /\ CallsMatch /\ NamesInUse /\ AnswersItsQuestion
  BY DEF IInv
<1>1. req[c] \in Pending /\ req[c].q \in Questions /\ req[c].limited \in BOOLEAN
      /\ req[c].phase = "join"
  BY <1>0, RequestParts DEF Typed, JoinOrStart, Pending
<1> DEFINE key == cache_key(req[c].q)
           new == CHOOSE i \in Calls : calls[i] = NoCall
           j == IF key \in DOMAIN in_flight THEN in_flight[key] ELSE new
           r == [phase |-> "wait", q |-> req[c].q, limited |-> req[c].limited, call |-> j]
           v == [phase |-> "called", q |-> req[c].q]
<1>2. /\ in_flight' = With(in_flight, key, j)
      /\ calls' = (IF key \in DOMAIN in_flight THEN calls ELSE [calls EXCEPT ![j] = v])
      /\ req' = [req EXCEPT ![c] = r]
      /\ UNCHANGED <<cache, breakers, streak, forgotten>>
  BY DEF JoinOrStart
<1>3. key \in Keys
  BY <1>1, KeyFacts
<1>4. key \notin DOMAIN in_flight => new \in Calls /\ calls[new] = NoCall
  <2>1. key \notin DOMAIN in_flight => \E i \in Calls : calls[i] = NoCall
    <3> HIDE DEF key
    <3> QED BY <1>1, <1>3, OneIsFree
  <2> HIDE DEF key
  <2> QED BY <2>1
<1>5. j \in Calls /\ (key \in DOMAIN in_flight => j = in_flight[key])
      /\ (key \notin DOMAIN in_flight => calls[j] = NoCall)
  <2> HIDE DEF key, new
  <2> QED BY <1>0, <1>4 DEF Typed
<1>6. r \in Waiting /\ r.phase = "wait" /\ r.q = req[c].q /\ r.call = j
  <2> HIDE DEF j
  <2> QED BY <1>1, <1>5 DEF Waiting
<1>7. v \in Started /\ v.phase = "called" /\ v.q = req[c].q
  BY <1>1 DEF Started
<1>8. /\ DOMAIN With(in_flight, key, j) = DOMAIN in_flight \cup {key}
      /\ With(in_flight, key, j)
           = [k \in DOMAIN in_flight \cup {key} |-> IF k = key THEN j ELSE in_flight[k]]
  BY DEF With
<1>9. key = cache_key(req[c].q)
  OBVIOUS
<1> HIDE DEF key, new, j, r, v
<1>10. /\ in_flight' \in [DOMAIN in_flight' -> Calls]
       /\ DOMAIN in_flight' = DOMAIN in_flight \cup {key}
       /\ in_flight'[key] = j
       /\ \A k \in DOMAIN in_flight : in_flight'[k] = in_flight[k]
       /\ \A k \in DOMAIN in_flight' : in_flight'[k] = IF k = key THEN j ELSE in_flight[k]
  BY <1>0, <1>2, <1>5, <1>8 DEF Typed
<1>11. req' \in [Clients -> Requests] /\ req'[c] = r /\ \A d \in Clients \ {c} : req'[d] = req[d]
  BY <1>0, <1>2, <1>6, RequestsMade DEF Typed
<1>12. /\ calls' \in [Calls -> CallType]
       /\ \A i \in Calls : i # j => calls'[i] = calls[i]
       /\ key \in DOMAIN in_flight => calls'[j] = calls[j]
       /\ key \notin DOMAIN in_flight => calls'[j] = v
  BY <1>0, <1>2, <1>5, <1>7 DEF Typed, CallType
<1>13. MapsHold'
  BY <1>2, MapsUnchanged
<1>14. Typed'
  BY <1>0, <1>3, <1>10, <1>11, <1>12, <1>13 DEF Typed, MapsHold
<1>15. calls'[j] # NoCall /\ cache_key(calls'[j].q) = key
  <2>1. CASE key \in DOMAIN in_flight
    BY <1>0, <1>5, <1>12, <2>1 DEF CallsMatch
  <2>2. CASE key \notin DOMAIN in_flight
    <3>1. v # NoCall
      BY <1>7 DEF NoCall
    <3> QED BY <1>7, <1>9, <1>12, <2>2, <3>1
  <2> QED BY <2>1, <2>2
<1>16. \A i \in Calls : calls[i] # NoCall => calls'[i] = calls[i]
  BY <1>5, <1>12
<1>17. CallsMatch'
  <2>1. \A k \in DOMAIN in_flight' :
          calls'[in_flight'[k]] # NoCall /\ cache_key(calls'[in_flight'[k]].q) = k
    <3> SUFFICES ASSUME NEW k \in DOMAIN in_flight'
                 PROVE  calls'[in_flight'[k]] # NoCall /\ cache_key(calls'[in_flight'[k]].q) = k
      OBVIOUS
    <3>1. CASE k = key
      BY <1>10, <1>15, <3>1
    <3>2. CASE k # key
      <4>1. k \in DOMAIN in_flight /\ in_flight'[k] = in_flight[k] /\ in_flight[k] \in Calls
        BY <1>0, <1>10, <3>2 DEF Typed
      <4>2. calls[in_flight[k]] # NoCall /\ cache_key(calls[in_flight[k]].q) = k
        BY <1>0, <4>1 DEF CallsMatch
      <4> QED BY <1>16, <4>1, <4>2
    <3> QED BY <3>1, <3>2
  <2>2. \A d \in Clients : req'[d].phase = "wait" =>
          calls'[req'[d].call] # NoCall /\ cache_key(calls'[req'[d].call].q) = cache_key(req'[d].q)
    <3> SUFFICES ASSUME NEW d \in Clients, req'[d].phase = "wait"
                 PROVE  /\ calls'[req'[d].call] # NoCall
                        /\ cache_key(calls'[req'[d].call].q) = cache_key(req'[d].q)
      OBVIOUS
    <3>1. CASE d = c
      BY <1>6, <1>9, <1>11, <1>15, <3>1
    <3>2. CASE d # c
      <4>1. req'[d] = req[d] /\ req[d].call \in Calls
        BY <1>0, <1>11, <3>2, RequestParts DEF Typed, Waiting
      <4>2. calls[req[d].call] # NoCall /\ cache_key(calls[req[d].call].q) = cache_key(req[d].q)
        BY <1>0, <4>1 DEF CallsMatch
      <4> QED BY <1>16, <4>1, <4>2
    <3> QED BY <3>1, <3>2
  <2>3. \A i \in Calls : Running(calls'[i]) =>
          cache_key(calls'[i].q) \in DOMAIN in_flight' /\ in_flight'[cache_key(calls'[i].q)] = i
    <3> SUFFICES ASSUME NEW i \in Calls, Running(calls'[i])
                 PROVE  /\ cache_key(calls'[i].q) \in DOMAIN in_flight'
                        /\ in_flight'[cache_key(calls'[i].q)] = i
      OBVIOUS
    <3>1. CASE i = j
      BY <1>10, <1>15, <3>1
    <3>2. CASE i # j
      <4>1. calls'[i] = calls[i]
        BY <1>12, <3>2
      <4>2. cache_key(calls[i].q) \in DOMAIN in_flight /\ in_flight[cache_key(calls[i].q)] = i
        BY <1>0, <3>2, <4>1 DEF CallsMatch, OneCallPerKey, Running
      <4> QED BY <1>10, <4>1, <4>2
    <3> QED BY <3>1, <3>2
  <2>4. OneCallPerKey'
    BY <2>3 DEF OneCallPerKey, Running
  <2> QED BY <2>1, <2>2, <2>4 DEF CallsMatch
<1>18. NamesInUse'
  <2> SUFFICES ASSUME NEW i \in Calls, calls'[i] # NoCall
               PROVE  (\E k \in DOMAIN in_flight' : in_flight'[k] = i) \/ Waiters(req', i) # {}
    BY DEF NamesInUse
  <2>1. CASE i = j
    BY <1>10, <2>1
  <2>2. CASE i # j
    <3>1. calls[i] # NoCall
      BY <1>12, <2>2
    <3>2. CASE \E k \in DOMAIN in_flight : in_flight[k] = i
      BY <1>10, <3>2
    <3>3. CASE Waiters(req, i) # {}
      <4>1. PICK d \in Clients : req[d].phase = "wait" /\ req[d].call = i
        BY <3>3 DEF Waiters
      <4>2. d # c
        BY <1>1, <4>1
      <4>3. d \in Waiters(req', i)
        BY <1>11, <4>1, <4>2 DEF Waiters
      <4> QED BY <4>3
    <3> QED BY <1>0, <3>1, <3>2, <3>3 DEF NamesInUse
  <2> QED BY <2>1, <2>2
<1>19. AnswersItsQuestion'
  BY <1>0, <1>6, <1>11 DEF AnswersItsQuestion
<1> QED BY <1>13, <1>14, <1>17, <1>18, <1>19 DEF IInv, MapsHold

-----------------------------------------------------------------------------
(* The answers a request can get, and the other moves of one.              *)
LEMMA AnswerFacts ==
  /\ \A o \in Outcomes : Done(o) \in Requests /\ Done(o).phase = "done" /\ Done(o) \notin Answered
  /\ \A q \in Questions : /\ Written(q, q) \in Requests /\ Written(q, q).phase = "done"
                          /\ Written(q, q).text = Written(q, q).q
  /\ Idle \in Requests /\ Idle.phase = "idle" /\ Idle \notin Answered
<1>1. \A o \in Outcomes : Done(o).phase = "done" /\ Done(o).outcome = o
  BY DEF Done
<1>2. "written" \notin Outcomes
  BY DEF Outcomes
<1>3. \A r \in Answered : r.outcome = "written" /\ r.phase = "done"
  BY DEF Answered
<1>4. \A q \in Questions : /\ Written(q, q).phase = "done"
                           /\ Written(q, q).text = Written(q, q).q
  BY DEF Written
<1> QED BY <1>1, <1>2, <1>3, <1>4, RequestsMade

LEMMA GotoFacts ==
  ASSUME NEW r \in Pending, NEW p \in {"cache", "breaker", "join", "model", "remember"}
  PROVE  /\ [r EXCEPT !.phase = p] \in Requests /\ [r EXCEPT !.phase = p].phase = p
         /\ [r EXCEPT !.phase = p] \notin Answered
<1>1. [r EXCEPT !.phase = p] \in Pending /\ [r EXCEPT !.phase = p].phase = p
  BY DEF Pending
<1>2. \A x \in Answered : x.phase = "done"
  BY DEF Answered
<1> QED BY <1>1, <1>2, RequestsMade

LEMMA FinishedKeeps ==
  ASSUME IInv, NEW c \in Clients, req[c] \in Pending, Finished(c, req[c].q),
         UNCHANGED <<in_flight, calls>>, MapsHold'
  PROVE  IInv'
<1>1. PICK kept \in BOOLEAN :
        req' = [req EXCEPT ![c] = IF kept \/ req[c].lossy THEN Written(req[c].q, req[c].q)
                                  ELSE Done("not needed")]
  BY DEF Finished, Answer
<1>2. req[c].phase # "wait" /\ req[c].q \in Questions
  BY DEF Pending
<1>3. CASE kept \/ req[c].lossy
  <2>1. req' = [req EXCEPT ![c] = Written(req[c].q, req[c].q)]
    BY <1>1, <1>3
  <2> QED BY <1>2, <2>1, AnswerFacts, RequestMoves
<1>4. CASE ~(kept \/ req[c].lossy)
  <2>1. req' = [req EXCEPT ![c] = Done("not needed")]
    BY <1>1, <1>4
  <2>2. "not needed" \in Outcomes
    BY DEF Outcomes
  <2> QED BY <1>2, <2>1, <2>2, AnswerFacts, RequestMoves
<1> QED BY <1>3, <1>4

(* A pending request is done, with something else than a summary.          *)
LEMMA DoneKeeps ==
  ASSUME IInv, NEW c \in Clients, req[c].phase # "wait", NEW o \in Outcomes, Answer(c, Done(o)),
         UNCHANGED <<in_flight, calls>>, MapsHold'
  PROVE  IInv'
<1>1. req' = [req EXCEPT ![c] = Done(o)]
  BY DEF Answer
<1> QED BY <1>1, AnswerFacts, RequestMoves

LEMMA GotoKeeps ==
  ASSUME IInv, NEW c \in Clients, req[c] \in Pending,
         NEW p \in {"cache", "breaker", "join", "model", "remember"}, Goto(c, p),
         UNCHANGED <<in_flight, calls>>, MapsHold'
  PROVE  IInv'
<1>1. req' = [req EXCEPT ![c] = [req[c] EXCEPT !.phase = p]]
  BY DEF Goto, IInv, Typed
<1>2. req[c].phase # "wait"
  BY DEF Pending
<1> QED BY <1>1, <1>2, GotoFacts, RequestMoves

LEMMA AskKeeps ==
  ASSUME IInv, NEW c \in Clients, NEW a \in Asks, Ask(c, a)
  PROVE  IInv'
<1> DEFINE gate == IF a.ingest THEN IngestGate(a.options) ELSE OnDemandGate(a.options)
           r == [phase |-> "cache", ingest |-> a.ingest, q |-> a.q,
                 limited |-> a.options.limited, lossy |-> a.options.lossy \/ ~a.ingest]
<1>1. /\ req[c].phase \in {"idle", "done"}
      /\ Answer(c, IF gate = "open" THEN r ELSE Done(gate))
      /\ UNCHANGED <<cache, breakers, in_flight, calls, streak, forgotten>>
  BY DEF Ask
<1>2. MapsHold' /\ UNCHANGED <<in_flight, calls>> /\ req[c].phase # "wait"
  BY <1>1, MapsUnchanged
<1>3. gate \in Outcomes \cup {"open"}
  BY DEF IngestGate, OnDemandGate, Outcomes
<1>4. r \in Pending /\ r.phase = "cache" /\ r \notin Answered
  BY AskFacts DEF Pending, Answered
<1> HIDE DEF r, gate
<1>5. CASE gate = "open"
  <2>1. req' = [req EXCEPT ![c] = r] /\ r \in Requests
    BY <1>1, <1>4, <1>5, RequestsMade DEF Answer
  <2> QED BY <1>2, <1>4, <2>1, RequestMoves
<1>6. CASE gate # "open"
  <2>1. Answer(c, Done(gate)) /\ gate \in Outcomes
    BY <1>1, <1>3, <1>6
  <2> QED BY <1>2, <2>1, DoneKeeps
<1> QED BY <1>5, <1>6

LEMMA LookInCacheKeeps ==
  ASSUME IInv, NEW c \in Clients, LookInCache(c)
  PROVE  IInv'
<1>1. /\ req[c].phase = "cache" /\ UNCHANGED <<cache, breakers, in_flight, calls, streak, forgotten>>
      /\ IF cache_key(req[c].q) \in DOMAIN cache.entries
         THEN Finished(c, cache.entries[cache_key(req[c].q)])
         ELSE Goto(c, "breaker")
  BY DEF LookInCache
<1>2. MapsHold' /\ UNCHANGED <<in_flight, calls>>
  BY <1>1, MapsUnchanged
<1>3. req[c] \in Pending /\ req[c].q \in Questions
  BY <1>1, RequestParts DEF IInv, Typed, Pending
<1>4. CASE cache_key(req[c].q) \in DOMAIN cache.entries
  \* what the cache keeps under the key is the summary of this question
  <2>1. cache.entries[cache_key(req[c].q)] = req[c].q
    BY <1>3, <1>4, KeyFacts DEF IInv, CacheHolds
  <2>2. Finished(c, req[c].q)
    BY <1>1, <1>4, <2>1
  <2> QED BY <1>2, <1>3, <2>2, FinishedKeeps
<1>5. CASE cache_key(req[c].q) \notin DOMAIN cache.entries
  BY <1>1, <1>2, <1>3, <1>5, GotoKeeps
<1> QED BY <1>4, <1>5

LEMMA AskBreakerKeeps ==
  ASSUME IInv, NEW c \in Clients, AskBreaker(c)
  PROVE  IInv'
<1>1. /\ req[c].phase = "breaker"
      /\ UNCHANGED <<cache, breakers, in_flight, calls, streak, forgotten>>
  BY DEF AskBreaker
<1>2. MapsHold' /\ UNCHANGED <<in_flight, calls>>
  BY <1>1, MapsUnchanged
<1>3. req[c] \in Pending
  BY <1>1, RequestParts DEF IInv, Typed
<1>4. CASE breaker_tripped(req[c].q.scope)
  <2>1. Answer(c, Done("disabled")) /\ "disabled" \in Outcomes /\ req[c].phase # "wait"
    BY <1>1, <1>4 DEF AskBreaker, Outcomes
  <2> QED BY <1>2, <2>1, DoneKeeps
<1>5. CASE ~breaker_tripped(req[c].q.scope)
  <2>1. Goto(c, "model") \/ Goto(c, "join")
    BY <1>5 DEF AskBreaker
  <2> QED BY <1>2, <1>3, <2>1, GotoKeeps
<1> QED BY <1>4, <1>5

(* What a reply, or the want of one, makes of the breaker.                 *)
LEMMA RecordedHolds ==
  ASSUME IInv, NEW s \in Scopes, UNCHANGED cache,
         record_success(s) \/ record_failure(s) \/ unrecorded
  PROVE  MapsHold'
<1>1. /\ CacheHolds /\ BreakersHold /\ streak \in [Scopes -> 0 .. MAX_CONSECUTIVE_FAILURES]
      /\ forgotten \subseteq Scopes
  BY DEF IInv, Typed
<1>2. CacheHolds'
  BY <1>1 DEF CacheHolds, Bound, Lists
<1>3. CASE record_success(s)
  BY <1>1, <1>2, <1>3, SuccessRecorded DEF MapsHold
<1>4. CASE record_failure(s)
  BY <1>1, <1>2, <1>4, FailureRecorded DEF MapsHold
<1>5. CASE unrecorded
  BY <1>5, MapsUnchanged DEF unrecorded
<1> QED BY <1>3, <1>4, <1>5

LEMMA IngestReplyKeeps ==
  ASSUME IInv, NEW c \in Clients, NEW reply \in {"summary", "declined", "failed"},
         IngestReply(c, reply)
  PROVE  IInv'
<1>1. req[c].phase = "model" /\ UNCHANGED <<cache, in_flight, calls>>
  BY DEF IngestReply
<1>2. req[c] \in Pending /\ req[c].q \in Questions /\ req[c].q.scope \in Scopes
  BY <1>1, RequestParts, KeyFacts DEF IInv, Typed, Pending
<1>3. "not needed" \in Outcomes /\ "failed" \in Outcomes
  BY DEF Outcomes
<1>4. CASE reply = "summary"
  <2>1. record_success(req[c].q.scope) /\ Goto(c, "remember")
    BY <1>4 DEF IngestReply
  <2>2. MapsHold'
    BY <1>1, <1>2, <2>1, RecordedHolds
  <2> QED BY <1>1, <1>2, <2>1, <2>2, GotoKeeps
<1>5. CASE reply = "declined"
  <2>1. unrecorded /\ Answer(c, Done("not needed"))
    BY <1>5 DEF IngestReply
  <2>2. MapsHold'
    BY <1>1, <1>2, <2>1, RecordedHolds
  <2> QED BY <1>1, <1>2, <1>3, <2>1, <2>2, DoneKeeps
<1>6. CASE reply = "failed"
  <2>1. record_failure(req[c].q.scope) /\ Answer(c, Done("failed"))
    BY <1>6 DEF IngestReply
  <2>2. MapsHold'
    BY <1>1, <1>2, <2>1, RecordedHolds
  <2> QED BY <1>1, <1>2, <1>3, <2>1, <2>2, DoneKeeps
<1> QED BY <1>4, <1>5, <1>6

LEMMA IngestTimeoutKeeps ==
  ASSUME IInv, NEW c \in Clients, IngestTimeout(c)
  PROVE  IInv'
<1>1. /\ req[c].phase = "model" /\ UNCHANGED <<cache, in_flight, calls>>
      /\ record_failure(req[c].q.scope) /\ Answer(c, Done("timed out"))
  BY DEF IngestTimeout
<1>2. req[c].q.scope \in Scopes /\ "timed out" \in Outcomes
  BY <1>1, RequestParts, KeyFacts DEF IInv, Typed, Pending, Outcomes
<1>3. MapsHold'
  BY <1>1, <1>2, RecordedHolds
<1> QED BY <1>1, <1>2, <1>3, DoneKeeps

LEMMA MapsRemember ==
  ASSUME IInv, NEW q \in Questions, cache' = Remembered(cache_key(q), q),
         UNCHANGED <<breakers, streak, forgotten>>
  PROVE  MapsHold'
<1>1. CacheHolds'
  BY RememberedHolds DEF IInv
<1>2. BreakersHold' /\ streak' \in [Scopes -> 0 .. MAX_CONSECUTIVE_FAILURES]
      /\ forgotten' \subseteq Scopes
  BY DEF IInv, Typed, BreakersHold, Bound, Lists, BreakerIsExact, Failures
<1> QED BY <1>1, <1>2 DEF MapsHold

LEMMA RememberKeeps ==
  ASSUME IInv, NEW c \in Clients, Remember(c)
  PROVE  IInv'
<1>1. /\ req[c].phase = "remember" /\ UNCHANGED <<breakers, in_flight, calls, streak, forgotten>>
      /\ cache' = Remembered(cache_key(req[c].q), req[c].q) /\ Finished(c, req[c].q)
  BY DEF Remember
<1>2. req[c] \in Pending /\ req[c].q \in Questions
  BY <1>1, RequestParts DEF IInv, Typed, Pending
<1>3. MapsHold'
  BY <1>1, <1>2, MapsRemember
<1> QED BY <1>1, <1>2, <1>3, FinishedKeeps

(* What a request receives is the reply for its own question: the call it  *)
(* waits on has its key.                                                   *)
LEMMA ReceiveKeeps ==
  ASSUME IInv, NEW c \in Clients, Receive(c)
  PROVE  IInv'
<1> DEFINE call == calls[req[c].call]
<1>1. /\ req[c].phase = "wait"
      /\ Leave(c, IF call.reply = "summary" THEN Written(req[c].q, call.q)
                  ELSE Done(IF call.reply = "declined" THEN "not needed" ELSE "failed"))
  BY DEF Receive
<1>2. req[c] \in Waiting /\ req[c].q \in Questions /\ req[c].call \in Calls
  BY <1>1, RequestParts DEF IInv, Typed, Waiting
<1>3. call # NoCall /\ cache_key(call.q) = cache_key(req[c].q) /\ call \in CallType
  BY <1>1, <1>2 DEF IInv, CallsMatch, Typed
<1>4. call.q = req[c].q
  <2> HIDE DEF call
  <2> QED BY <1>2, <1>3, CallParts, KeyFacts
<1>5. "not needed" \in Outcomes /\ "failed" \in Outcomes
  BY DEF Outcomes
<1> HIDE DEF call
<1>6. CASE call.reply = "summary"
  <2>1. Leave(c, Written(req[c].q, req[c].q))
    BY <1>1, <1>4, <1>6
  <2> QED BY <1>1, <1>2, <2>1, AnswerFacts, LeaveKeeps
<1>7. CASE call.reply # "summary"
  <2>1. Leave(c, Done("not needed")) \/ Leave(c, Done("failed"))
    BY <1>1, <1>7
  <2> QED BY <1>1, <1>5, <2>1, AnswerFacts, LeaveKeeps
<1> QED BY <1>6, <1>7

LEMMA WaitTimeoutKeeps ==
  ASSUME IInv, NEW c \in Clients, WaitTimeout(c)
  PROVE  IInv'
<1>1. req[c].phase = "wait" /\ Leave(c, Done("timed out")) /\ "timed out" \in Outcomes
  BY DEF WaitTimeout, Outcomes
<1> QED BY <1>1, AnswerFacts, LeaveKeeps

LEMMA AbandonKeeps ==
  ASSUME IInv, NEW c \in Clients, Abandon(c)
  PROVE  IInv'
<1>1. req[c].phase \in {"wait", "model"} /\ Leave(c, Idle)
  BY DEF Abandon
<1> QED BY <1>1, AnswerFacts, LeaveKeeps

(* A task's step: it has a question of its own, and gets a reply.          *)
LEMMA ProgressKeeps ==
  ASSUME IInv, NEW i \in Calls, Running(calls[i]),
         NEW p \in {"remember", "send", "sent", "dead"}, NEW reply \in Replies,
         Progress(i, p, reply), UNCHANGED <<in_flight, req>>, MapsHold'
  PROVE  IInv'
<1>1. calls[i] # NoCall /\ calls[i].q \in Questions
  BY CallParts DEF IInv, Typed, Running
<1> DEFINE v == [phase |-> p, q |-> calls[i].q, reply |-> reply]
<1>2. calls' = [calls EXCEPT ![i] = v]
  BY DEF Progress, IInv, Typed
<1>3. v \in Replied /\ v.q = calls[i].q
  BY <1>1 DEF Replied, Phases
<1> HIDE DEF v
<1> QED BY <1>1, <1>2, <1>3, CallMoves

LEMMA CallRepliesKeeps ==
  ASSUME IInv, NEW i \in Calls, NEW reply \in {"summary", "declined", "failed"},
         CallReplies(i, reply)
  PROVE  IInv'
<1>1. calls[i].phase = "called" /\ UNCHANGED <<cache, in_flight, req>>
  BY DEF CallReplies
<1>2. calls[i].q.scope \in Scopes /\ Running(calls[i]) /\ reply \in Replies
  BY <1>1, CallParts, KeyFacts DEF IInv, Typed, Running, NoCall, Replies
<1>3. /\ \/ record_success(calls[i].q.scope) \/ unrecorded
         \/ record_failure(calls[i].q.scope)
      /\ Progress(i, "remember", reply) \/ Progress(i, "send", reply)
  BY DEF CallReplies
<1>4. MapsHold'
  BY <1>1, <1>2, <1>3, RecordedHolds
<1> QED BY <1>1, <1>2, <1>3, <1>4, ProgressKeeps

LEMMA CallRemembersKeeps ==
  ASSUME IInv, NEW i \in Calls, CallRemembers(i)
  PROVE  IInv'
<1>1. /\ calls[i].phase = "remember" /\ UNCHANGED <<breakers, in_flight, req, streak, forgotten>>
      /\ cache' = Remembered(cache_key(calls[i].q), calls[i].q)
      /\ Progress(i, "send", calls[i].reply)
  BY DEF CallRemembers
<1>2. calls[i] \in Replied /\ Running(calls[i])
  BY <1>1, CallParts DEF IInv, Typed, Running
<1>3. calls[i].q \in Questions /\ calls[i].reply \in Replies
  BY <1>2 DEF Replied
<1>4. MapsHold'
  BY <1>1, <1>3, MapsRemember
<1> QED BY <1>1, <1>2, <1>3, <1>4, ProgressKeeps

LEMMA CallSendsKeeps ==
  ASSUME IInv, NEW i \in Calls, CallSends(i)
  PROVE  IInv'
<1>1. /\ calls[i].phase = "send"
      /\ UNCHANGED <<cache, breakers, in_flight, req, streak, forgotten>>
      /\ Progress(i, "sent", calls[i].reply)
  BY DEF CallSends
<1>2. calls[i] \in Replied /\ Running(calls[i])
  BY <1>1, CallParts DEF IInv, Typed, Running
<1>3. calls[i].reply \in Replies /\ MapsHold'
  BY <1>1, <1>2, MapsUnchanged DEF Replied
<1> QED BY <1>1, <1>2, <1>3, ProgressKeeps

LEMMA CallPanicsKeeps ==
  ASSUME IInv, NEW i \in Calls, CallPanics(i)
  PROVE  IInv'
<1>1. /\ calls[i].phase = "called" /\ Progress(i, "dead", "none")
      /\ UNCHANGED <<cache, breakers, in_flight, req, streak, forgotten>>
  BY DEF CallPanics
<1>2. Running(calls[i]) /\ "none" \in Replies /\ MapsHold'
  BY <1>1, MapsUnchanged DEF Running, Replies
<1> QED BY <1>1, <1>2, ProgressKeeps

-----------------------------------------------------------------------------
LEMMA InitHolds == Init => IInv
<1> SUFFICES ASSUME Init PROVE IInv
  OBVIOUS
<1> DEFINE none == [k \in {} |-> 0]
<1>1. /\ cache.entries = none /\ cache.order = <<>>
      /\ breakers.failures = none /\ breakers.order = <<>>
      /\ in_flight = none /\ calls = [i \in Calls |-> NoCall] /\ req = [c \in Clients |-> Idle]
      /\ streak = [s \in Scopes |-> 0] /\ forgotten = {}
  BY DEF Init
<1>2. DOMAIN none = {} /\ \A S : none \in [{} -> S]
  OBVIOUS
<1>3. \A cap \in Nat : Bound(<<>>, {}, cap)
  BY DEF Bound, Lists
<1> HIDE DEF none
<1>4. Typed
  BY <1>1, <1>2, BoundFacts, AnswerFacts DEF Typed, CallType
<1>5. CacheHolds
  BY <1>1, <1>2, <1>3, BoundFacts DEF CacheHolds
<1>6. BreakersHold
  BY <1>1, <1>2, <1>3, BoundFacts DEF BreakersHold, BreakerIsExact, Failures
<1>7. (\A i \in Calls : calls[i] = NoCall /\ calls[i].phase = "none")
      /\ \A c \in Clients : req[c].phase = "idle"
  BY <1>1, AnswerFacts DEF NoCall
<1>8. CallsMatch /\ NamesInUse /\ AnswersItsQuestion
  BY <1>1, <1>2, <1>7 DEF CallsMatch, OneCallPerKey, NamesInUse, AnswersItsQuestion
<1> QED BY <1>4, <1>5, <1>6, <1>8 DEF IInv

LEMMA StutterKeeps ==
  ASSUME IInv, UNCHANGED vars
  PROVE  IInv'
<1>1. UNCHANGED <<cache, breakers, in_flight, calls, req, streak, forgotten>>
  BY DEF vars
<1>2. MapsHold'
  BY <1>1, MapsUnchanged
<1>3. Typed' /\ CallsMatch' /\ AnswersItsQuestion'
  BY <1>1 DEF IInv, Typed, CallsMatch, OneCallPerKey, AnswersItsQuestion
<1>4. NamesInUse'
  BY <1>1 DEF IInv, NamesInUse, Waiters
<1> QED BY <1>2, <1>3, <1>4 DEF IInv, MapsHold

LEMMA StepKeeps == IInv /\ [Next]_vars => IInv'
<1> SUFFICES ASSUME IInv, [Next]_vars PROVE IInv'
  OBVIOUS
<1>1. CASE \E c \in Clients, a \in Asks : Ask(c, a)
  BY <1>1, AskKeeps
<1>2. CASE \E c \in Clients : ClientStep(c)
  BY <1>2, LookInCacheKeeps, AskBreakerKeeps, IngestTimeoutKeeps, RememberKeeps,
     JoinOrStartKeeps, ReceiveKeeps, WaitTimeoutKeeps DEF ClientStep
<1>3. CASE \E c \in Clients : Abandon(c)
  BY <1>3, AbandonKeeps
<1>4. CASE \E i \in Calls : CallStep(i)
  BY <1>4, CallRemembersKeeps, CallSendsKeeps, CallLeavesKeeps DEF CallStep
<1>5. CASE \E i \in Calls : CallPanics(i)
  BY <1>5, CallPanicsKeeps
<1>6. CASE Host
  BY <1>6, IngestReplyKeeps, CallRepliesKeeps DEF Host
<1>7. CASE UNCHANGED vars
  BY <1>7, StutterKeeps
<1> QED BY <1>1, <1>2, <1>3, <1>4, <1>5, <1>6, <1>7 DEF Next

(* The inductive invariant, for every set of requests, questions and calls *)
(* and all bounds of the maps.                                             *)
THEOREM InvariantHolds == Spec => []IInv
<1>1. Init => IInv
  BY InitHolds
<1>2. IInv /\ [Next]_vars => IInv'
  BY StepKeeps
<1> QED BY <1>1, <1>2, PTL DEF Spec

-----------------------------------------------------------------------------
(* Type correctness, and the bounds of the summary cache and the breakers: *)
(* each map's queue lists its keys once each and no more than fit.         *)
THEOREM TypeCorrect == Spec => []TypeOK
<1>1. IInv => TypeOK
  <2> SUFFICES ASSUME IInv PROVE TypeOK
    OBVIOUS
  <2>1. Typed /\ CacheHolds /\ BreakersHold /\ CallsMatch
    BY DEF IInv
  <2>2. /\ Mirrors(cache.order, cache.entries, CACHE_ENTRIES)
        /\ Mirrors(breakers.order, breakers.failures, BREAKER_SCOPES)
    BY <2>1, ListsMirror, BoundFacts DEF CacheHolds, BreakersHold
  <2>3. /\ DOMAIN cache.entries \subseteq Keys /\ DOMAIN breakers.failures \subseteq Scopes
        /\ \A k \in DOMAIN cache.entries : cache.entries[k] \in Texts
        /\ \A s \in DOMAIN breakers.failures :
             breakers.failures[s] \in 1 .. MAX_CONSECUTIVE_FAILURES
    BY <2>1 DEF CacheHolds, BreakersHold, Texts
  <2>4. cache.order \in Seq(Keys) /\ breakers.order \in Seq(Scopes)
    <3>1. cache.order \in Seq(DOMAIN cache.entries)
      BY <2>1 DEF CacheHolds, Bound, Lists
    <3>2. breakers.order \in Seq(DOMAIN breakers.failures)
      BY <2>1 DEF BreakersHold, Bound, Lists
    <3> QED BY <2>3, <3>1, <3>2
  <2>5. \A k \in DOMAIN in_flight : in_flight[k] \in Calls /\ calls[in_flight[k]] # NoCall
    BY <2>1 DEF Typed, CallsMatch
  <2>6. \A i \in Calls : \/ calls[i] = NoCall
                         \/ calls[i] \in [phase : {"called"}, q : Questions]
                         \/ calls[i] \in [phase : Phases, q : Questions, reply : Replies]
    <3>1. Replied \subseteq [phase : Phases, q : Questions, reply : Replies]
      BY DEF Replied
    <3> QED BY <2>1, <3>1 DEF Typed, CallType, Started
  <2>7. \A c \in Clients : req[c].phase = "wait" => calls[req[c].call] # NoCall
    BY <2>1 DEF CallsMatch
  <2> QED BY <2>1, <2>2, <2>3, <2>4, <2>5, <2>6, <2>7 DEF TypeOK, Typed
<1> QED BY <1>1, InvariantHolds, PTL

(* A key has at most one call that has not left, and a new request for the *)
(* key finds that one, whatever calls end, panic or start in between.      *)
THEOREM KeyHasOneCall == Spec => []OneCallPerKey
<1>1. IInv => OneCallPerKey
  BY DEF IInv, CallsMatch
<1> QED BY <1>1, InvariantHolds, PTL

(* No page summarized for one question is handed back for another, from    *)
(* the cache, from a joined call or from a call of the request's own.      *)
THEOREM OwnAnswer == Spec => []AnswersItsQuestion
<1>1. IInv => AnswersItsQuestion
  BY DEF IInv
<1> QED BY <1>1, InvariantHolds, PTL

(* The breaker counts a scope's failures since its last success, unless    *)
(* newer scopes pushed it out: then it is treated better than it deserves. *)
THEOREM BreakerCounts == Spec => []BreakerIsExact
<1>1. IInv => BreakerIsExact
  BY DEF IInv, BreakersHold
<1> QED BY <1>1, InvariantHolds, PTL
=============================================================================
