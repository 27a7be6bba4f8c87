---------------------------- MODULE CcrInnerProofs ----------------------------
(***************************************************************************)
(* What the operations of Inner preserve, for every set of originals, every*)
(* length and every pair of caps.                                          *)
(***************************************************************************)
EXTENDS CcrInner, FiniteSetTheorems, TLAPS

(* The empty set of originals has no bytes.                                *)
LEMMA BytesOfNone == Bytes[{}] = 0
<1>1. {} \in SUBSET Tokens
  OBVIOUS
<1>2. Bytes[{}] \in Nat
  BY <1>1, BytesAssumption
<1>3. {} \cap {} = {} => Bytes[{} \cup {}] = Bytes[{}] + Bytes[{}]
  BY <1>1, BytesAssumption
<1>4. {} \cap {} = {} /\ {} \cup {} = {}
  OBVIOUS
<1>5. Bytes[{}] = Bytes[{}] + Bytes[{}]
  BY <1>3, <1>4
<1>6. ASSUME NEW n \in Nat, n = n + n PROVE n = 0
  BY <1>6
<1> QED BY ONLY <1>2, <1>5, <1>6

(* Taking a part R out of a set A takes exactly R's bytes out.             *)
LEMMA BytesOfDifference ==
  ASSUME NEW A \in SUBSET Tokens, NEW R
  PROVE  /\ Bytes[A] = Bytes[A \ R] + Bytes[A \cap R]
         /\ Bytes[A \ R] \in Nat
         /\ Bytes[A \cap R] \in Nat
         /\ Bytes[A] \in Nat
<1>1. /\ A \ R \in SUBSET Tokens
      /\ A \cap R \in SUBSET Tokens
      /\ (A \ R) \cap (A \cap R) = {}
      /\ (A \ R) \cup (A \cap R) = A
  OBVIOUS
<1> QED BY <1>1, BytesAssumption

-----------------------------------------------------------------------------
(* An inner state as its parts, the form the other proofs use.             *)
LEMMA InnerTypeParts ==
  ASSUME NEW T, NEW in \in InnerType(T)
  PROVE  /\ Resident(in) \in SUBSET Tokens
         /\ in.map \in [Resident(in) -> T]
         /\ in.order \in Seq(Tokens)
         /\ in.total_bytes \in Nat
         /\ in = [map |-> in.map, order |-> in.order, total_bytes |-> in.total_bytes]
  BY DEF InnerType, Resident

(* map.remove keeps the types and the accounting; the queue is untouched.  *)
LEMMA DroppedPreserves ==
  ASSUME NEW T, NEW in \in InnerType(T), AccountedFor(in), NEW S
  PROVE  /\ Dropped(in, S) \in InnerType(T)
         /\ AccountedFor(Dropped(in, S))
         /\ Resident(Dropped(in, S)) = Resident(in) \ S
         /\ Dropped(in, S).order = in.order
         /\ Dropped(in, S).total_bytes <= in.total_bytes
<1> DEFINE R == Resident(in)
           m == [t \in R \ S |-> in.map[t]]
           b == SaturatingSub(in.total_bytes, Bytes[R \cap S])
<1>1. /\ R \in SUBSET Tokens
      /\ in.map \in [R -> T]
      /\ in.order \in Seq(Tokens)
      /\ in.total_bytes \in Nat
  BY InnerTypeParts
<1>2. /\ Bytes[R] = Bytes[R \ S] + Bytes[R \cap S]
      /\ Bytes[R \ S] \in Nat /\ Bytes[R \cap S] \in Nat
  BY <1>1, BytesOfDifference
<1>3. in.total_bytes = Bytes[R]
  BY DEF AccountedFor
<1>4. b = Bytes[R \ S] /\ b \in Nat /\ b <= in.total_bytes
  BY <1>2, <1>3 DEF SaturatingSub
<1>5. m \in [R \ S -> T] /\ R \ S \in SUBSET Tokens
  BY <1>1
<1>6. Dropped(in, S) = [map |-> m, order |-> in.order, total_bytes |-> b]
  BY DEF Dropped
<1>7. /\ Dropped(in, S) \in InnerType(T)
      /\ DOMAIN m = R \ S
  <2>1. DOMAIN m = R \ S
    OBVIOUS
  <2> HIDE DEF m, b, R
  <2>2. m \in UNION {[D -> T] : D \in SUBSET Tokens}
    BY <1>5
  <2>3. [map |-> m, order |-> in.order, total_bytes |-> b] \in InnerType(T)
    BY <1>1, <1>4, <2>2 DEF InnerType
  <2> QED BY <1>6, <2>1, <2>3
<1>8. Resident(Dropped(in, S)) = R \ S
  BY <1>6, <1>7 DEF Resident
<1> QED BY <1>4, <1>6, <1>7, <1>8 DEF AccountedFor

(* Popping k entries keeps the types, the accounting and the queue's cover *)
(* of the map, and leaves the queue k entries shorter.                     *)
LEMMA PoppedPreserves ==
  ASSUME NEW T, NEW in \in InnerType(T), AccountedFor(in), Evictable(in),
         NEW k \in 0 .. Len(in.order)
  PROVE  /\ Popped(in, k) \in InnerType(T)
         /\ AccountedFor(Popped(in, k))
         /\ Evictable(Popped(in, k))
         /\ Popped(in, k).order \in Seq(Tokens)
         /\ Len(Popped(in, k).order) = Len(in.order) - k
         /\ \A i \in 1 .. Len(in.order) - k : Popped(in, k).order[i] = in.order[i + k]
<1> DEFINE S == {in.order[i] : i \in 1 .. k}
           d == Dropped(in, S)
           o == SubSeq(in.order, k + 1, Len(in.order))
<1>1. /\ d \in InnerType(T)
      /\ AccountedFor(d)
      /\ Resident(d) = Resident(in) \ S
  BY DroppedPreserves
<1>2. in.order \in Seq(Tokens) /\ Len(in.order) \in Nat
  BY InnerTypeParts
<1>3. /\ o \in Seq(Tokens)
      /\ Len(o) = Len(in.order) - k
      /\ \A i \in 1 .. Len(in.order) - k : o[i] = in.order[i + k]
  BY <1>2
<1>4. /\ d.map \in [Resident(d) -> T] /\ Resident(d) \in SUBSET Tokens
      /\ d.total_bytes \in Nat
  BY <1>1, InnerTypeParts
<1>5. Popped(in, k) = [map |-> d.map, order |-> o, total_bytes |-> d.total_bytes]
  BY DEF Popped, Requeued, Dropped
<1>6. Popped(in, k) \in InnerType(T)
  <2> HIDE DEF d, o, S
  <2> QED BY <1>3, <1>4, <1>5 DEF InnerType
<1>7. Resident(Popped(in, k)) = Resident(d)
  BY <1>5 DEF Resident
<1>8. AccountedFor(Popped(in, k))
  <2>1. Popped(in, k).total_bytes = d.total_bytes
    BY <1>5
  <2>2. d.total_bytes = Bytes[Resident(d)]
    BY <1>1 DEF AccountedFor
  <2> QED BY <1>7, <2>1, <2>2 DEF AccountedFor
<1>9. Evictable(Popped(in, k))
  <2> SUFFICES ASSUME NEW t \in Resident(in), t \notin S
               PROVE  t \in Queued(Popped(in, k))
    BY <1>1, <1>7 DEF Evictable
  <2>1. PICK i \in 1 .. Len(in.order) : t = in.order[i]
    BY <1>2 DEF Evictable, Queued
  <2>2. i > k /\ i - k \in 1 .. Len(o)
    BY <1>2, <1>3, <2>1
  <2>3. o[i - k] = t
    BY <1>2, <1>3, <2>1, <2>2
  <2>4. Popped(in, k).order = o /\ DOMAIN o = 1 .. Len(o)
    BY <1>3, <1>5
  <2> HIDE DEF o, S, d
  <2> QED BY <2>2, <2>3, <2>4 DEF Queued
<1> QED BY <1>3, <1>5, <1>6, <1>8, <1>9

-----------------------------------------------------------------------------
(***************************************************************************)
(* Rank numbers the elements of a finite set of naturals 1, 2, ... in      *)
(* order: it is a bijection onto 1 .. Cardinality(S).                      *)
(***************************************************************************)
LEMMA RankRange ==
  ASSUME NEW n \in Nat, NEW S, S \subseteq 1 .. n, NEW i \in S
  PROVE  /\ IsFiniteSet(S)
         /\ Cardinality(S) \in Nat
         /\ Cardinality(S) <= n
         /\ Rank(S, i) \in 1 .. Cardinality(S)
<1> DEFINE B == {k \in S : k <= i}
<1>1. IsFiniteSet(1 .. n) /\ Cardinality(1 .. n) = n
  BY FS_Interval
<1>2. IsFiniteSet(S) /\ Cardinality(S) \in Nat /\ Cardinality(S) <= n
  BY <1>1, FS_Subset, FS_CardinalityType
<1>3. B \subseteq S
  OBVIOUS
<1>4. IsFiniteSet(B) /\ Cardinality(B) \in Nat /\ Cardinality(B) <= Cardinality(S)
  BY <1>2, <1>3, FS_Subset, FS_CardinalityType
<1>5. i \in B
  OBVIOUS
<1>6. Cardinality(B) # 0
  BY <1>4, <1>5, FS_EmptySet
<1> QED BY <1>2, <1>4, <1>6 DEF Rank

LEMMA RankInjective ==
  ASSUME NEW n \in Nat, NEW S, S \subseteq 1 .. n, NEW i \in S, NEW j \in S, i < j
  PROVE  Rank(S, i) < Rank(S, j)
<1> DEFINE Up(k) == {x \in S : x <= k}
<1>1. IsFiniteSet(S)
  BY RankRange
<1>2. IsFiniteSet(Up(j))
  <2>1. Up(j) \subseteq S
    OBVIOUS
  <2> QED BY <1>1, <2>1, FS_Subset
<1>3. Up(i) \subseteq Up(j) /\ Up(i) # Up(j)
  <2>1. j \in Up(j) /\ j \notin Up(i)
    OBVIOUS
  <2>2. ASSUME NEW x \in S, x <= i
        PROVE  x <= j
    <3>1. x \in Int /\ i \in Int /\ j \in Int
      OBVIOUS
    <3> QED BY <2>2, <3>1
  <2> QED BY <2>1, <2>2
<1>4. /\ Cardinality(Up(i)) <= Cardinality(Up(j))
      /\ Cardinality(Up(i)) = Cardinality(Up(j)) => Up(i) = Up(j)
      /\ Cardinality(Up(i)) \in Nat /\ Cardinality(Up(j)) \in Nat
  <2> HIDE DEF Up
  <2> QED BY <1>2, <1>3, FS_Subset, FS_CardinalityType
<1>5. Cardinality(Up(i)) < Cardinality(Up(j))
  BY <1>3, <1>4
<1> QED BY <1>5 DEF Rank

LEMMA RankOnto ==
  ASSUME NEW n \in Nat, NEW S, S \subseteq 1 .. n, NEW j \in 1 .. Cardinality(S)
  PROVE  \E i \in S : Rank(S, i) = j
<1> SUFFICES ASSUME \A i \in S : Rank(S, i) # j
             PROVE  FALSE
  OBVIOUS
<1> DEFINE c == Cardinality(S)
           T == (1 .. c) \ {j}
           f == [i \in S |-> Rank(S, i)]
<1>1. IsFiniteSet(S) /\ c \in Nat
  <2>1. S # {}
    BY FS_EmptySet
  <2> QED BY <2>1, RankRange
<1>2. f \in [S -> T]
  BY RankRange
<1>3. IsFiniteSet(1 .. c) /\ Cardinality(1 .. c) = c
  BY <1>1, FS_Interval
<1>4. IsFiniteSet(T) /\ Cardinality(T) = c - 1
  BY <1>3, FS_RemoveElement
<1>5. Cardinality(T) < Cardinality(S)
  BY <1>1, <1>4
<1>6. \E x, y \in S : x # y /\ f[x] = f[y]
  <2> HIDE DEF T, f, c
  <2> QED BY <1>1, <1>2, <1>4, <1>5, FS_PigeonHole
<1>7. PICK x \in S, y \in S : x # y /\ Rank(S, x) = Rank(S, y)
  BY <1>6
<1>8. Rank(S, x) \in Nat /\ Rank(S, y) \in Nat
  <2>1. /\ Rank(S, x) \in 1 .. Cardinality(S)
        /\ Rank(S, y) \in 1 .. Cardinality(S)
    BY RankRange
  <2> QED BY <2>1
<1>9. x < y \/ y < x
  BY <1>7
<1>10. CASE x < y
  <2>1. Rank(S, x) < Rank(S, y)
    BY <1>10, RankInjective
  <2> QED BY <1>7, <1>8, <2>1
<1>11. CASE y < x
  <2>1. Rank(S, y) < Rank(S, x)
    BY <1>11, RankInjective
  <2> QED BY <1>7, <1>8, <2>1
<1> QED BY <1>9, <1>10, <1>11

(* order.retain drops every copy of t and nothing else.                    *)
LEMMA WithoutProperties ==
  ASSUME NEW order \in Seq(Tokens), NEW t
  PROVE  /\ Without(order, t) \in Seq(Tokens)
         /\ {Without(order, t)[j] : j \in DOMAIN Without(order, t)}
              = {order[i] : i \in DOMAIN order} \ {t}
         /\ Len(Without(order, t)) <= Len(order)
         /\ (\E i \in DOMAIN order : order[i] = t) =>
              Len(Without(order, t)) < Len(order)
<1> DEFINE n == Len(order)
           K == Kept(order, t)
           c == Cardinality(K)
           nth(j) == CHOOSE i \in K : Rank(K, i) = j
           w == Without(order, t)
<1>1. n \in Nat /\ DOMAIN order = 1 .. n /\ order \in [1 .. n -> Tokens]
  OBVIOUS
<1>2. K \subseteq 1 .. n
  BY <1>1 DEF Kept
<1>3. IsFiniteSet(1 .. n) /\ Cardinality(1 .. n) = n
  BY <1>1, FS_Interval
<1>4. /\ IsFiniteSet(K) /\ c \in Nat /\ c <= n
      /\ c = n => K = 1 .. n
  BY <1>1, <1>2, <1>3, FS_Subset, FS_CardinalityType
<1>5. w = [j \in 1 .. c |-> order[nth(j)]]
  BY DEF Without, Picked
<1>6. \A j \in 1 .. c : nth(j) \in K /\ Rank(K, nth(j)) = j
  BY <1>1, <1>2, RankOnto
<1>7. \A i \in K : Rank(K, i) \in 1 .. c /\ nth(Rank(K, i)) = i
  <2> TAKE i \in K
  <2>1. Rank(K, i) \in 1 .. c
    BY <1>1, <1>2, RankRange
  <2>2. nth(Rank(K, i)) \in K /\ Rank(K, nth(Rank(K, i))) = Rank(K, i)
    BY <1>6, <2>1
  <2>3. ASSUME NEW x \in K, Rank(K, x) = Rank(K, i)
        PROVE  x = i
    <3> HIDE DEF K
    <3>1. Rank(K, x) \in 1 .. c /\ c \in Nat
      BY <1>1, <1>2, <1>4, RankRange
    <3> HIDE DEF c
    <3>2. Rank(K, x) \in Int
      BY <3>1
    <3>3. ~(x < i)
      <4> SUFFICES ASSUME x < i PROVE FALSE
        OBVIOUS
      <4>1. Rank(K, x) < Rank(K, i)
        BY <1>1, <1>2, RankInjective
      <4> QED BY <2>3, <3>2, <4>1
    <3>4. ~(i < x)
      <4> SUFFICES ASSUME i < x PROVE FALSE
        OBVIOUS
      <4>1. Rank(K, i) < Rank(K, x)
        BY <1>1, <1>2, RankInjective
      <4> QED BY <2>3, <3>2, <4>1
    <3> QED BY <1>1, <1>2, <3>3, <3>4
  <2> HIDE DEF K
  <2> QED BY <2>1, <2>2, <2>3
<1>8. w \in Seq(Tokens) /\ Len(w) = c /\ DOMAIN w = 1 .. c
  <2>1. \A j \in 1 .. c : order[nth(j)] \in Tokens
    BY <1>1, <1>2, <1>6
  <2>2. w \in [1 .. c -> Tokens]
    <3> HIDE DEF nth, w, c
    <3> QED BY <1>5, <2>1
  <2> HIDE DEF w, c
  <2> QED BY <1>4, <2>2
<1>9. {w[j] : j \in DOMAIN w} = {order[i] : i \in DOMAIN order} \ {t}
  <2>1. ASSUME NEW j \in 1 .. c
        PROVE  w[j] \in {order[i] : i \in DOMAIN order} \ {t}
    <3>1. w[j] = order[nth(j)] /\ nth(j) \in K
      BY <1>5, <1>6
    <3> QED BY <3>1 DEF Kept
  <2>2. ASSUME NEW i \in DOMAIN order, order[i] # t
        PROVE  \E j \in 1 .. c : w[j] = order[i]
    <3>1. i \in K
      BY <2>2 DEF Kept
    <3>2. Rank(K, i) \in 1 .. c /\ nth(Rank(K, i)) = i
      BY <1>7, <3>1
    <3>3. w[Rank(K, i)] = order[nth(Rank(K, i))]
      <4> HIDE DEF nth, w, c, K
      <4> QED BY <1>5, <3>2
    <3>4. w[Rank(K, i)] = order[i]
      BY <3>2, <3>3
    <3> HIDE DEF w, c
    <3> QED BY <3>2, <3>4
  <2> HIDE DEF w, c
  <2>3. ASSUME NEW x \in {w[j] : j \in DOMAIN w}
        PROVE  x \in {order[i] : i \in DOMAIN order} \ {t}
    BY <1>8, <2>1
  <2>4. ASSUME NEW x \in {order[i] : i \in DOMAIN order} \ {t}
        PROVE  x \in {w[j] : j \in DOMAIN w}
    <3>1. PICK i \in DOMAIN order : x = order[i] /\ order[i] # t
      OBVIOUS
    <3>2. PICK j \in 1 .. c : w[j] = order[i]
      BY <2>2, <3>1
    <3> QED BY <1>8, <3>1, <3>2
  <2> QED BY <2>3, <2>4
<1>10. ASSUME NEW i \in DOMAIN order, order[i] = t
       PROVE  c < n
  <2>1. i \notin K /\ i \in 1 .. n
    BY <1>1, <1>10 DEF Kept
  <2>2. c # n
    BY <1>4, <2>1
  <2> QED BY <1>1, <1>4, <2>2
<1> QED
  <2> HIDE DEF w, c, n
  <2>1. w \in Seq(Tokens) /\ Len(w) <= n
    BY <1>4, <1>8
  <2>2. (\E i \in DOMAIN order : order[i] = t) => Len(w) < n
    BY <1>8, <1>10
  <2> QED BY <1>9, <2>1, <2>2 DEF w, n

-----------------------------------------------------------------------------
(***************************************************************************)
(* The eviction loop.  It ends within the caps or with at most `keep`      *)
(* entries queued, and what it leaves is a suffix of the queue.            *)
(***************************************************************************)
LEMMA EvictionsPreserve ==
  ASSUME NEW T, NEW in \in InnerType(T), AccountedFor(in), Evictable(in),
         NEW L, NEW keep \in Nat, NEW e \in Evictions(in, L, keep)
  PROVE  /\ e \in InnerType(T) /\ AccountedFor(e) /\ Evictable(e)
         /\ \/ WithinCaps(e, L)
            \/ Len(e.order) <= keep
         /\ \E k \in 0 .. Len(in.order) :
              /\ Len(e.order) = Len(in.order) - k
              /\ \A i \in 1 .. Len(e.order) : e.order[i] = in.order[i + k]
<1>1. PICK k \in 0 .. Len(in.order) :
        /\ e = Popped(in, k)
        /\ ~(OverCaps(Popped(in, k), L) /\ Len(in.order) - k > keep)
  BY DEF Evictions
<1>2. Len(in.order) \in Nat
  BY InnerTypeParts
<1>3. /\ e \in InnerType(T) /\ AccountedFor(e) /\ Evictable(e)
      /\ Len(e.order) = Len(in.order) - k
      /\ \A i \in 1 .. Len(in.order) - k : e.order[i] = in.order[i + k]
  BY <1>1, PoppedPreserves
<1>4. WithinCaps(e, L) \/ Len(e.order) <= keep
  BY <1>1, <1>2, <1>3 DEF WithinCaps
<1> QED BY <1>3, <1>4

(* Inner::trim leaves the store within the new caps.                       *)
LEMMA TrimsPreserve ==
  ASSUME NEW T, NEW in \in InnerType(T), AccountedFor(in), Evictable(in),
         NEW L, L.max_entries \in Nat, L.max_bytes \in Nat,
         NEW e \in Trims(in, L)
  PROVE  e \in InnerType(T) /\ AccountedFor(e) /\ Evictable(e) /\ WithinCaps(e, L)
<1>1. /\ e \in InnerType(T) /\ AccountedFor(e) /\ Evictable(e)
      /\ WithinCaps(e, L) \/ Len(e.order) <= 0
  BY EvictionsPreserve DEF Trims
<1>2. ASSUME Len(e.order) <= 0
      PROVE  WithinCaps(e, L)
  <2>1. e.order \in Seq(Tokens) /\ Len(e.order) = 0 /\ e.order = <<>>
    BY <1>1, <1>2, InnerTypeParts
  <2>2. Resident(e) = {}
    BY <1>1, <2>1 DEF Evictable, Queued
  <2>3. e.total_bytes = 0
    BY <1>1, <2>2, BytesOfNone DEF AccountedFor
  <2> QED BY <2>1, <2>3 DEF WithinCaps, OverCaps
<1> QED BY <1>1, <1>2

(* A refresh moves t to the back of the queue and changes no total.        *)
LEMMA RefreshedPreserves ==
  ASSUME NEW T, NEW in \in InnerType(T), AccountedFor(in), Evictable(in),
         NEW L, L.max_entries \in Nat, L.max_bytes \in Nat,
         NEW t \in Resident(in), NEW now \in T
  PROVE  /\ Refreshed(in, t, now) \in InnerType(T)
         /\ AccountedFor(Refreshed(in, t, now))
         /\ Evictable(Refreshed(in, t, now))
         /\ WithinCaps(in, L) => WithinCaps(Refreshed(in, t, now), L)
         /\ t \in Resident(Refreshed(in, t, now))
<1> DEFINE R == Resident(in)
           w == Without(in.order, t)
           o == Append(w, t)
           m == [u \in R |-> IF u = t THEN now ELSE in.map[u]]
           r == Refreshed(in, t, now)
<1>1. /\ R \in SUBSET Tokens
      /\ in.map \in [R -> T]
      /\ in.order \in Seq(Tokens) /\ Len(in.order) \in Nat
      /\ in.total_bytes \in Nat
  BY InnerTypeParts
<1>2. PICK i \in DOMAIN in.order : in.order[i] = t
  BY DEF Evictable, Queued
<1>3. /\ w \in Seq(Tokens)
      /\ {w[j] : j \in DOMAIN w} = Queued(in) \ {t}
      /\ Len(w) < Len(in.order)
  <2> DEFINE q == in.order
  <2>1. /\ w \in Seq(Tokens)
        /\ {w[j] : j \in DOMAIN w} = {q[k] : k \in DOMAIN q} \ {t}
        /\ (\E k \in DOMAIN q : q[k] = t) => Len(w) < Len(q)
    <3> HIDE DEF q
    <3>1. q \in Seq(Tokens)
      BY <1>1 DEF q
    <3>2. w = Without(q, t)
      BY DEF q
    <3> HIDE DEF w
    <3> QED BY <3>1, <3>2, WithoutProperties
  <2> HIDE DEF w
  <2> QED BY <1>2, <2>1 DEF Queued
<1>4. /\ o \in Seq(Tokens)
      /\ Len(o) = Len(w) + 1 /\ Len(w) \in Nat
      /\ DOMAIN w = 1 .. Len(w) /\ DOMAIN o = 1 .. Len(o)
      /\ o[Len(o)] = t
      /\ \A j \in 1 .. Len(w) : o[j] = w[j]
  <2> HIDE DEF w
  <2>1. t \in Tokens
    BY <1>1
  <2> QED BY <1>3, <2>1
<1>5. m \in UNION {[D -> T] : D \in SUBSET Tokens} /\ DOMAIN m = R
  BY <1>1
<1>6. r = [map |-> m, order |-> o, total_bytes |-> in.total_bytes]
  BY DEF Refreshed
<1>7. r \in InnerType(T)
  <2> HIDE DEF m, o, r
  <2> QED BY <1>1, <1>4, <1>5, <1>6 DEF InnerType
<1>8. Resident(r) = R /\ r.order = o /\ r.total_bytes = in.total_bytes
  <2> HIDE DEF m, o, r
  <2> QED BY <1>5, <1>6 DEF Resident
<1>9. Evictable(r)
  <2> SUFFICES ASSUME NEW u \in R PROVE u \in Queued(r)
    BY <1>8 DEF Evictable
  <2> HIDE DEF w, o, r
  <2>1. CASE u = t
    BY <1>4, <1>8, <2>1 DEF Queued
  <2>2. CASE u # t
    <3>1. u \in Queued(in) \ {t}
      BY <2>2 DEF Evictable
    <3>2. PICK j \in 1 .. Len(w) : w[j] = u
      BY <1>3, <1>4, <3>1
    <3>3. j \in 1 .. Len(o) /\ o[j] = u
      BY <1>4, <3>2
    <3> QED BY <1>4, <1>8, <3>3 DEF Queued
  <2> QED BY <2>1, <2>2
<1> HIDE DEF w, o, r
<1>10. AccountedFor(r)
  BY <1>8 DEF AccountedFor
<1>11. WithinCaps(in, L) => WithinCaps(r, L)
  <2>1. Len(r.order) <= Len(in.order)
    BY <1>1, <1>3, <1>4, <1>8
  <2>2. Len(r.order) \in Nat
    BY <1>4, <1>8
  <2> QED BY <1>1, <1>8, <2>1, <2>2 DEF WithinCaps, OverCaps
<1>12. t \in Resident(r)
  BY <1>8
<1> QED BY <1>7, <1>9, <1>10, <1>11, <1>12 DEF r

(* Pushing a new original adds its bytes and queues it last.               *)
LEMMA PushedPreserves ==
  ASSUME NEW T, NEW in \in InnerType(T), AccountedFor(in), Evictable(in),
         NEW t \in Tokens, t \notin Resident(in), NEW now \in T
  PROVE  /\ Pushed(in, t, now) \in InnerType(T)
         /\ AccountedFor(Pushed(in, t, now))
         /\ Evictable(Pushed(in, t, now))
         /\ Len(Pushed(in, t, now).order) = Len(in.order) + 1
         /\ Pushed(in, t, now).order[Len(in.order) + 1] = t
<1> DEFINE R == Resident(in)
           o == Append(in.order, t)
           m == [u \in R \cup {t} |-> IF u = t THEN now ELSE in.map[u]]
           b == in.total_bytes + ContentLen(t)
           p == Pushed(in, t, now)
<1>1. /\ R \in SUBSET Tokens
      /\ in.map \in [R -> T]
      /\ in.order \in Seq(Tokens) /\ Len(in.order) \in Nat
      /\ in.total_bytes \in Nat
  BY InnerTypeParts
<1>2. /\ o \in Seq(Tokens)
      /\ Len(o) = Len(in.order) + 1
      /\ o[Len(in.order) + 1] = t
      /\ DOMAIN o = 1 .. Len(o)
      /\ \A j \in 1 .. Len(in.order) : o[j] = in.order[j]
  BY <1>1
<1>3. m \in UNION {[D -> T] : D \in SUBSET Tokens} /\ DOMAIN m = R \cup {t}
  <2>1. m \in [R \cup {t} -> T] /\ R \cup {t} \in SUBSET Tokens
    BY <1>1
  <2> HIDE DEF m
  <2> QED BY <2>1
<1>4. b = Bytes[R \cup {t}] /\ b \in Nat
  <2>1. /\ R \cup {t} \in SUBSET Tokens /\ {t} \in SUBSET Tokens
        /\ R \cap {t} = {}
    BY <1>1
  <2>2. Bytes[R \cup {t}] = Bytes[R] + Bytes[{t}]
    BY <1>1, <2>1, BytesAssumption
  <2>3. Bytes[R \cup {t}] \in Nat
    BY <2>1, BytesAssumption
  <2> QED BY <2>2, <2>3 DEF ContentLen, AccountedFor
<1>5. p = [map |-> m, order |-> o, total_bytes |-> b]
  BY DEF Pushed
<1> HIDE DEF m, o, b, p
<1>6. p \in InnerType(T)
  BY <1>2, <1>3, <1>4, <1>5 DEF InnerType
<1>7. Resident(p) = R \cup {t} /\ p.order = o /\ p.total_bytes = b
  BY <1>3, <1>5 DEF Resident
<1>8. Evictable(p)
  <2> SUFFICES ASSUME NEW u \in R \cup {t} PROVE u \in Queued(p)
    BY <1>7 DEF Evictable
  <2>1. CASE u = t
    BY <1>1, <1>2, <1>7, <2>1 DEF Queued
  <2>2. CASE u # t
    <3>1. PICK j \in 1 .. Len(in.order) : in.order[j] = u
      BY <1>1, <2>2 DEF Evictable, Queued
    <3>2. j \in 1 .. Len(o) /\ o[j] = u
      BY <1>1, <1>2, <3>1
    <3> QED BY <1>2, <1>7, <3>2 DEF Queued
  <2> QED BY <2>1, <2>2
<1>9. AccountedFor(p)
  BY <1>4, <1>7 DEF AccountedFor
<1> QED BY <1>2, <1>6, <1>7, <1>8, <1>9 DEF p

(***************************************************************************)
(* Inner::insert keeps the accounting and the queue's cover, ends within   *)
(* the caps, and answers the truth about residency.  The entry cap is at   *)
(* least one (MemoryLimits clamps it), so a lone entry can only be over    *)
(* the byte cap, and then it is the one just pushed.                       *)
(***************************************************************************)
LEMMA InsertsPreserve ==
  ASSUME NEW T, NEW in \in InnerType(T), AccountedFor(in), Evictable(in),
         NEW L, L.max_entries \in Nat \ {0}, L.max_bytes \in Nat \ {0},
         NEW t \in Tokens, NEW now \in T,
         NEW r \in Inserts(in, t, L, now)
  PROVE  /\ r.inner \in InnerType(T)
         /\ AccountedFor(r.inner) /\ Evictable(r.inner)
         /\ WithinCaps(in, L) => WithinCaps(r.inner, L)
         /\ r.retained \in BOOLEAN
         /\ r.retained <=> t \in Resident(r.inner)
<1>1. CASE t \in Resident(in)
  <2>1. r.inner = Refreshed(in, t, now) /\ r.retained = TRUE
    BY <1>1 DEF Inserts
  <2>2. /\ Refreshed(in, t, now) \in InnerType(T)
        /\ AccountedFor(Refreshed(in, t, now))
        /\ Evictable(Refreshed(in, t, now))
        /\ WithinCaps(in, L) => WithinCaps(Refreshed(in, t, now), L)
        /\ t \in Resident(Refreshed(in, t, now))
    BY <1>1, RefreshedPreserves
  <2> QED BY <2>1, <2>2
<1>2. CASE t \notin Resident(in)
  <2> DEFINE p == Pushed(in, t, now)
  <2>1. PICK e \in Evictions(p, L, 1) :
          r = IF e.total_bytes > L.max_bytes
              THEN [inner |-> Rejected(e, t), retained |-> FALSE]
              ELSE [inner |-> e, retained |-> t \in Resident(e)]
    BY <1>2 DEF Inserts
  <2>2. /\ p \in InnerType(T) /\ AccountedFor(p) /\ Evictable(p)
        /\ Len(p.order) = Len(in.order) + 1
        /\ p.order[Len(in.order) + 1] = t
    BY <1>2, PushedPreserves
  <2>3. Len(in.order) \in Nat /\ in.order \in Seq(Tokens)
    BY InnerTypeParts
  <2> HIDE DEF p
  <2>4. /\ e \in InnerType(T) /\ AccountedFor(e) /\ Evictable(e)
        /\ WithinCaps(e, L) \/ Len(e.order) <= 1
    BY <2>2, EvictionsPreserve
  <2>5. PICK k \in 0 .. Len(p.order) :
          /\ Len(e.order) = Len(p.order) - k
          /\ \A i \in 1 .. Len(e.order) : e.order[i] = p.order[i + k]
    BY <2>2, EvictionsPreserve
  <2>6. /\ e.order \in Seq(Tokens) /\ Len(e.order) \in Nat
        /\ DOMAIN e.order = 1 .. Len(e.order)
        /\ e.total_bytes \in Nat
    BY <2>4, InnerTypeParts
  <2>7. CASE e.total_bytes > L.max_bytes
    <3> DEFINE d == Dropped(e, {t})
               w == Without(e.order, t)
               j == Rejected(e, t)
    <3>1. r.inner = j /\ r.retained = FALSE
      BY <2>1, <2>7
    <3>2. ~WithinCaps(e, L)
      BY <2>6, <2>7 DEF WithinCaps, OverCaps
    <3>3. Len(e.order) <= 1
      BY <2>4, <3>2
    <3>4. Resident(e) \subseteq {t}
      <4> SUFFICES ASSUME NEW u \in Resident(e) PROVE u = t
        OBVIOUS
      <4>1. PICK i \in 1 .. Len(e.order) : e.order[i] = u
        BY <2>4, <2>6 DEF Evictable, Queued
      <4> DEFINE n == Len(e.order)
                 l == Len(in.order)
      <4>2. n \in Nat /\ n <= 1 /\ i \in 1 .. n /\ l \in Nat /\ k \in 0 .. l + 1 /\ n = l + 1 - k
        BY <2>2, <2>3, <2>5, <2>6, <3>3, <4>1
      <4> HIDE DEF n, l
      <4>3. i = 1 /\ 1 + k = l + 1
        BY <4>2
      <4>4. e.order[i] = p.order[i + k]
        BY <2>5, <4>1
      <4> QED BY <2>2, <4>1, <4>3, <4>4 DEF l
    <3>5. /\ d \in InnerType(T) /\ AccountedFor(d)
          /\ Resident(d) = Resident(e) \ {t}
      BY <2>4, DroppedPreserves
    <3>6. w \in Seq(Tokens) /\ Len(w) <= Len(e.order) /\ Len(w) \in Nat
      <4> DEFINE q == e.order
      <4>1. q \in Seq(Tokens)
        BY <2>6
      <4> HIDE DEF q
      <4>2. Without(q, t) \in Seq(Tokens) /\ Len(Without(q, t)) <= Len(q)
        BY <4>1, WithoutProperties
      <4> QED BY <4>2 DEF q
    <3>7. j = [map |-> d.map, order |-> w, total_bytes |-> d.total_bytes]
      BY DEF Rejected, Requeued
    <3>8. d.map \in UNION {[D -> T] : D \in SUBSET Tokens} /\ d.total_bytes \in Nat
      <4> HIDE DEF d
      <4> QED BY <3>5, InnerTypeParts DEF InnerType
    <3> HIDE DEF d, w, j
    <3>9. j \in InnerType(T)
      BY <3>6, <3>7, <3>8 DEF InnerType
    <3>10. Resident(j) = {} /\ j.total_bytes = d.total_bytes /\ j.order = w
      BY <3>4, <3>5, <3>7 DEF Resident
    <3>11. d.total_bytes = 0
      <4>1. Resident(d) = {}
        BY <3>4, <3>5
      <4> QED BY <3>5, <4>1, BytesOfNone DEF AccountedFor
    <3>12. AccountedFor(j) /\ Evictable(j)
      BY <3>10, <3>11, BytesOfNone DEF AccountedFor, Evictable
    <3>13. WithinCaps(j, L)
      BY <2>6, <3>3, <3>6, <3>10, <3>11 DEF WithinCaps, OverCaps
    <3> QED BY <3>1, <3>9, <3>10, <3>12, <3>13
  <2>8. CASE ~(e.total_bytes > L.max_bytes)
    <3>1. r.inner = e /\ r.retained = (t \in Resident(e))
      BY <2>1, <2>8
    <3>2. WithinCaps(e, L)
      BY <2>4, <2>6, <2>8 DEF WithinCaps, OverCaps
    <3>3. r.retained \in BOOLEAN /\ (r.retained <=> t \in Resident(r.inner))
      <4>1. CASE t \in Resident(e)
        <5>1. r.retained = TRUE
          BY <3>1, <4>1, Zenon
        <5> QED BY <3>1, <4>1, <5>1
      <4>2. CASE t \notin Resident(e)
        <5>1. (t \in Resident(e)) = FALSE
          BY <4>2
        <5>2. r.retained = FALSE
          BY <3>1, <5>1
        <5> QED BY <3>1, <4>2, <5>2
      <4> QED BY <4>1, <4>2
    <3> QED BY <2>4, <3>1, <3>2, <3>3, Zenon
  <2> QED BY <2>7, <2>8
<1> QED BY <1>1, <1>2

-----------------------------------------------------------------------------
(* Who is resident afterwards: removals only remove, and an insertion adds *)
(* no original but the one it was given.                                   *)
LEMMA DroppedDropsOnly ==
  ASSUME NEW in, NEW S
  PROVE  Resident(Dropped(in, S)) = Resident(in) \ S
  BY DEF Dropped, Resident

LEMMA EvictionsDropOnly ==
  ASSUME NEW in, NEW L, NEW keep, NEW e \in Evictions(in, L, keep)
  PROVE  Resident(e) \subseteq Resident(in)
<1>1. PICK k \in 0 .. Len(in.order) : e = Popped(in, k)
  BY DEF Evictions
<1>2. e.map = Dropped(in, {in.order[i] : i \in 1 .. k}).map
  BY <1>1 DEF Popped, Requeued
<1> QED BY <1>2, DroppedDropsOnly DEF Resident

LEMMA InsertsAddOnly ==
  ASSUME NEW in, NEW t, NEW L, NEW now, NEW r \in Inserts(in, t, L, now)
  PROVE  Resident(r.inner) \subseteq Resident(in) \cup {t}
<1>1. CASE t \in Resident(in)
  <2>1. r.inner = Refreshed(in, t, now)
    BY <1>1 DEF Inserts
  <2> QED BY <2>1 DEF Refreshed, Resident
<1>2. CASE t \notin Resident(in)
  <2> DEFINE p == Pushed(in, t, now)
  <2>1. PICK e \in Evictions(p, L, 1) : r.inner = e \/ r.inner = Rejected(e, t)
    BY <1>2 DEF Inserts
  <2>2. Resident(p) = Resident(in) \cup {t}
    BY DEF Pushed, Resident
  <2>3. Resident(e) \subseteq Resident(p)
    BY EvictionsDropOnly
  <2>4. Resident(Rejected(e, t)) \subseteq Resident(e)
    <3>1. Rejected(e, t).map = Dropped(e, {t}).map
      BY DEF Rejected, Requeued
    <3> QED BY <3>1, DroppedDropsOnly DEF Resident
  <2> QED BY <2>1, <2>2, <2>3, <2>4
<1> QED BY <1>1, <1>2

(* A retained original is resident from now on.                            *)
LEMMA InsertsRetain ==
  ASSUME NEW in, NEW t, NEW L, NEW time, NEW r \in Inserts(in, t, L, time), r.retained
  PROVE  t \in Resident(r.inner) /\ r.inner.map[t] = time
<1>1. CASE t \in Resident(in)
  <2>1. r.inner = Refreshed(in, t, time)
    BY <1>1 DEF Inserts
  <2> QED BY <1>1, <2>1 DEF Refreshed, Resident
<1>2. CASE t \notin Resident(in)
  <2> DEFINE p == Pushed(in, t, time)
  <2>1. PICK e \in Evictions(p, L, 1) : r.inner = e /\ t \in Resident(e)
    <3>1. PICK e \in Evictions(p, L, 1) :
            r = IF e.total_bytes > L.max_bytes
                THEN [inner |-> Rejected(e, t), retained |-> FALSE]
                ELSE [inner |-> e, retained |-> t \in Resident(e)]
      BY <1>2 DEF Inserts
    <3>2. ~(e.total_bytes > L.max_bytes)
      BY <3>1
    <3>3. r = [inner |-> e, retained |-> t \in Resident(e)]
      BY <3>1, <3>2
    <3>4. r.inner = e /\ r.retained = (t \in Resident(e))
      BY <3>3, Zenon
    <3>5. t \in Resident(e)
      BY <3>4, Zenon
    <3> QED BY <3>4, <3>5
  <2>2. PICK k \in 0 .. Len(p.order) : e = Popped(p, k)
    BY <2>1 DEF Evictions
  <2>3. e.map = Dropped(p, {p.order[i] : i \in 1 .. k}).map
    BY <2>2 DEF Popped, Requeued
  <2>4. \A u \in Resident(e) : u \in Resident(p) /\ e.map[u] = p.map[u]
    BY <2>3 DEF Dropped, Resident
  <2>5. t \in Resident(e)
    BY <2>1
  <2>6. t \in Resident(p) /\ p.map[t] = time
    BY DEF Pushed, Resident
  <2> QED BY <2>1, <2>4, <2>5, <2>6
<1> QED BY <1>1, <1>2

(* A map with nothing in it is within all caps.                            *)
LEMMA EmptyInnerFacts ==
  ASSUME NEW T, NEW L, L.max_entries \in Nat, L.max_bytes \in Nat
  PROVE  /\ EmptyInner \in InnerType(T)
         /\ AccountedFor(EmptyInner) /\ Evictable(EmptyInner) /\ WithinCaps(EmptyInner, L)
<1> DEFINE m == [t \in {} |-> 0]
<1>1. m \in UNION {[D -> T] : D \in SUBSET Tokens}
  <2>1. m \in [{} -> T] /\ {} \in SUBSET Tokens
    OBVIOUS
  <2> QED BY <2>1, Zenon
<1>2. <<>> \in Seq(Tokens)
  OBVIOUS
<1>3. EmptyInner = [map |-> m, order |-> <<>>, total_bytes |-> 0]
  BY DEF EmptyInner
<1>4. Resident(EmptyInner) = {} /\ EmptyInner.order = <<>> /\ EmptyInner.total_bytes = 0
  BY DEF EmptyInner, Resident
<1> HIDE DEF m
<1>5. EmptyInner \in InnerType(T)
  BY <1>1, <1>2, <1>3 DEF InnerType
<1> QED BY <1>4, <1>5, BytesOfNone DEF AccountedFor, Evictable, WithinCaps, OverCaps

(* Time stamps stay what they are when more of them are allowed.           *)
LEMMA InnerTypeGrows ==
  ASSUME NEW A, NEW B, A \subseteq B, NEW in \in InnerType(A)
  PROVE  in \in InnerType(B)
<1>1. /\ Resident(in) \in SUBSET Tokens
      /\ in.map \in [Resident(in) -> A]
      /\ in.order \in Seq(Tokens) /\ in.total_bytes \in Nat
      /\ in = [map |-> in.map, order |-> in.order, total_bytes |-> in.total_bytes]
  BY InnerTypeParts
<1>2. in.map \in UNION {[D -> B] : D \in SUBSET Tokens}
  BY <1>1
<1> QED BY <1>1, <1>2 DEF InnerType

-----------------------------------------------------------------------------
(***************************************************************************)
(* The queue is in order of age.  A queue that expired gets have left      *)
(* entries in may list an original twice; only its last place counts.      *)
(***************************************************************************)
Aged(order, map) ==
  \A i, j \in DOMAIN order :
    i < j /\ order[i] \in DOMAIN map /\ order[j] \in DOMAIN map =>
      \/ map[order[i]] <= map[order[j]]
      \/ \E k \in DOMAIN order : i < k /\ order[k] = order[i]

(* order.retain leaves the entries it keeps in their order.                *)
LEMMA WithoutIsInOrder ==
  ASSUME NEW order \in Seq(Tokens), NEW t
  PROVE  \E nth \in [DOMAIN Without(order, t) -> DOMAIN order] :
           /\ \A j \in DOMAIN Without(order, t) : Without(order, t)[j] = order[nth[j]]
           /\ \A i, j \in DOMAIN Without(order, t) : i < j => nth[i] < nth[j]
           /\ \A i \in DOMAIN order :
                order[i] # t => \E j \in DOMAIN Without(order, t) : nth[j] = i
<1> DEFINE n == Len(order)
           K == Kept(order, t)
           c == Cardinality(K)
           at(j) == CHOOSE i \in K : Rank(K, i) = j
           nth == [j \in 1 .. c |-> at(j)]
<1>1. n \in Nat /\ DOMAIN order = 1 .. n
  OBVIOUS
<1>2. K \subseteq 1 .. n
  BY <1>1 DEF Kept
<1>3. IsFiniteSet(1 .. n) /\ Cardinality(1 .. n) = n
  BY <1>1, FS_Interval
<1>4. c \in Nat
  BY <1>2, <1>3, FS_Subset, FS_CardinalityType
<1>5. \A j \in 1 .. c : at(j) \in K /\ Rank(K, at(j)) = j
  BY <1>1, <1>2, RankOnto
<1>6. \A i \in K : Rank(K, i) \in 1 .. c
  BY <1>1, <1>2, RankRange
<1>7. \A i, j \in K : i < j => Rank(K, i) < Rank(K, j)
  BY <1>1, <1>2, RankInjective
<1>8. DOMAIN Without(order, t) = 1 .. c /\ \A j \in 1 .. c : Without(order, t)[j] = order[at(j)]
  BY DEF Without, Picked
<1> HIDE DEF at, c, K
<1>0. \A i \in K : i \in Int
  BY <1>1, <1>2
<1>9. \A i, j \in 1 .. c : i < j => at(i) < at(j)
  <2> TAKE i, j \in 1 .. c
  <2> HAVE i < j
  <2>1. /\ at(i) \in K /\ at(j) \in K
        /\ Rank(K, at(i)) = i /\ Rank(K, at(j)) = j
    BY <1>5
  <2>2. at(i) # at(j)
    BY <2>1
  <2>3. ~(at(j) < at(i))
    BY <1>4, <1>7, <2>1
  <2>4. at(i) \in Int /\ at(j) \in Int
    BY <1>0, <2>1
  <2> QED BY <2>2, <2>3, <2>4
<1>10. \A i \in K : at(Rank(K, i)) = i
  <2> TAKE i \in K
  <2>1. /\ at(Rank(K, i)) \in K /\ Rank(K, at(Rank(K, i))) = Rank(K, i)
        /\ Rank(K, i) \in 1 .. c
    BY <1>5, <1>6
  <2>2. Rank(K, i) \in Int
    BY <1>4, <2>1
  <2>3. ~(at(Rank(K, i)) < i) /\ ~(i < at(Rank(K, i)))
    BY <1>7, <2>1, <2>2
  <2>4. i \in Int /\ at(Rank(K, i)) \in Int
    BY <1>0, <2>1
  <2> QED BY <2>3, <2>4
<1>11. nth \in [1 .. c -> DOMAIN order]
  BY <1>1, <1>2, <1>5
<1>12. \A i \in DOMAIN order : order[i] # t => i \in K
  BY DEF Kept, K
<1>13. \A i \in DOMAIN order : order[i] # t => \E j \in 1 .. c : nth[j] = i
  BY <1>6, <1>10, <1>12
<1> QED
  <2>1. \A j \in 1 .. c : nth[j] = at(j)
    OBVIOUS
  <2> HIDE DEF nth
  <2>2. nth \in [DOMAIN Without(order, t) -> DOMAIN order]
    BY <1>8, <1>11
  <2>3. \A j \in DOMAIN Without(order, t) : Without(order, t)[j] = order[nth[j]]
    BY <1>8, <2>1
  <2>4. \A i, j \in DOMAIN Without(order, t) : i < j => nth[i] < nth[j]
    BY <1>8, <1>9, <2>1
  <2>5. \A i \in DOMAIN order :
          order[i] # t => \E j \in DOMAIN Without(order, t) : nth[j] = i
    BY <1>8, <1>13
  <2> QED BY <2>2, <2>3, <2>4, <2>5

LEMMA AgedWithout ==
  ASSUME NEW order \in Seq(Tokens), NEW map, NEW t, Aged(order, map)
  PROVE  Aged(Without(order, t), map)
<1> DEFINE w == Without(order, t)
<1>1. PICK nth \in [DOMAIN w -> DOMAIN order] :
        /\ \A j \in DOMAIN w : w[j] = order[nth[j]]
        /\ \A i, j \in DOMAIN w : i < j => nth[i] < nth[j]
        /\ \A i \in DOMAIN order : order[i] # t => \E j \in DOMAIN w : nth[j] = i
  BY WithoutIsInOrder
<1>2. w \in Seq(Tokens) /\ \A j \in DOMAIN w : w[j] # t
  <2>1. /\ w \in Seq(Tokens)
        /\ {w[j] : j \in DOMAIN w} = {order[i] : i \in DOMAIN order} \ {t}
    BY WithoutProperties
  <2> HIDE DEF w
  <2> QED BY <2>1
<1> HIDE DEF w
<1>3. DOMAIN w \subseteq Int /\ DOMAIN order \subseteq Int
  BY <1>2
<1>4. SUFFICES ASSUME NEW i \in DOMAIN w, NEW j \in DOMAIN w,
                      i < j, w[i] \in DOMAIN map, w[j] \in DOMAIN map
               PROVE  \/ map[w[i]] <= map[w[j]]
                      \/ \E k \in DOMAIN w : i < k /\ w[k] = w[i]
  BY DEF Aged, w
<1>5. \/ map[w[i]] <= map[w[j]]
      \/ \E k \in DOMAIN order : nth[i] < k /\ order[k] = w[i]
  BY <1>1, <1>4 DEF Aged
<1>6. ASSUME NEW k \in DOMAIN order, nth[i] < k, order[k] = w[i]
      PROVE  \E l \in DOMAIN w : i < l /\ w[l] = w[i]
  <2>1. PICK l \in DOMAIN w : nth[l] = k
    BY <1>1, <1>2, <1>6
  <2>2. ~(l < i) /\ l # i
    BY <1>1, <1>3, <1>6, <2>1
  <2> QED BY <1>1, <1>3, <1>6, <2>1, <2>2
<1> QED BY <1>5, <1>6

(* Losing originals from the map, or entries from the front.               *)
LEMMA AgedLess ==
  ASSUME NEW order, NEW map, NEW less, Aged(order, map),
         DOMAIN less \subseteq DOMAIN map, \A u \in DOMAIN less : less[u] = map[u]
  PROVE  Aged(order, less)
  BY DEF Aged

LEMMA AgedSuffix ==
  ASSUME NEW order \in Seq(Tokens), NEW map, Aged(order, map),
         NEW k \in 0 .. Len(order), NEW rest \in Seq(Tokens), Len(rest) = Len(order) - k,
         \A i \in 1 .. Len(order) - k : rest[i] = order[i + k]
  PROVE  Aged(rest, map)
<1>1. DOMAIN rest = 1 .. Len(order) - k /\ DOMAIN order = 1 .. Len(order) /\ Len(order) \in Nat
  OBVIOUS
<1>2. SUFFICES ASSUME NEW i \in DOMAIN rest, NEW j \in DOMAIN rest,
                      i < j, rest[i] \in DOMAIN map, rest[j] \in DOMAIN map
               PROVE  \/ map[rest[i]] <= map[rest[j]]
                      \/ \E l \in DOMAIN rest : i < l /\ rest[l] = rest[i]
  BY DEF Aged
<1>3. i + k \in DOMAIN order /\ j + k \in DOMAIN order /\ i + k < j + k
  BY <1>1, <1>2
<1>4. rest[i] = order[i + k] /\ rest[j] = order[j + k]
  BY <1>1
<1>5. \/ map[rest[i]] <= map[rest[j]]
      \/ \E l \in DOMAIN order : i + k < l /\ order[l] = rest[i]
  BY <1>2, <1>3, <1>4 DEF Aged
<1>6. ASSUME NEW l \in DOMAIN order, i + k < l, order[l] = rest[i]
      PROVE  \E h \in DOMAIN rest : i < h /\ rest[h] = rest[i]
  <2>1. l - k \in 1 .. Len(order) - k /\ i < l - k
    BY <1>1, <1>6
  <2>2. rest[l - k] = order[(l - k) + k] /\ (l - k) + k = l
    BY <1>1, <2>1
  <2> QED BY <1>1, <1>6, <2>1, <2>2
<1> QED BY <1>5, <1>6

(* The newest original goes to the back.                                   *)
LEMMA AgedAppend ==
  ASSUME NEW order \in Seq(Tokens), NEW map, NEW new, NEW t \in Tokens, NEW now \in Int,
         Aged(order, map),
         \A u \in DOMAIN map : map[u] \in Int /\ map[u] <= now,
         DOMAIN new = DOMAIN map \cup {t},
         new[t] = now, \A u \in DOMAIN map \ {t} : new[u] = map[u]
  PROVE  Aged(Append(order, t), new)
<1> DEFINE q == Append(order, t)
           n == Len(order)
<1>1. /\ n \in Nat /\ DOMAIN order = 1 .. n /\ DOMAIN q = 1 .. n + 1
      /\ \A i \in 1 .. n : q[i] = order[i]
      /\ q[n + 1] = t
  OBVIOUS
<1> HIDE DEF q, n
<1>2. SUFFICES ASSUME NEW i \in DOMAIN q, NEW j \in DOMAIN q,
                      i < j, q[i] \in DOMAIN new, q[j] \in DOMAIN new
               PROVE  \/ new[q[i]] <= new[q[j]]
                      \/ \E k \in DOMAIN q : i < k /\ q[k] = q[i]
  BY DEF Aged, q
<1>3. i \in 1 .. n /\ q[i] = order[i]
  BY <1>1, <1>2
<1>4. CASE q[i] = t
  BY <1>1, <1>3, <1>4
<1>5. CASE q[i] # t /\ q[j] = t
  BY <1>2, <1>5
<1>6. CASE q[i] # t /\ q[j] # t
  <2>1. j \in 1 .. n /\ q[j] = order[j]
    BY <1>1, <1>6
  <2>2. /\ q[i] \in DOMAIN map /\ q[j] \in DOMAIN map
        /\ new[q[i]] = map[q[i]] /\ new[q[j]] = map[q[j]]
    BY <1>2, <1>6
  <2>3. \/ map[q[i]] <= map[q[j]]
        \/ \E k \in 1 .. n : i < k /\ order[k] = q[i]
    BY <1>1, <1>2, <1>3, <2>1, <2>2 DEF Aged
  <2>4. ASSUME NEW k \in 1 .. n, i < k, order[k] = q[i]
        PROVE  \E l \in DOMAIN q : i < l /\ q[l] = q[i]
    <3>1. k \in DOMAIN q /\ q[k] = order[k]
      BY <1>1
    <3> QED BY <2>4, <3>1
  <2> QED BY <2>2, <2>3, <2>4
<1> QED BY <1>4, <1>5, <1>6
=============================================================================
