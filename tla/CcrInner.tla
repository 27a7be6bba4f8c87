------------------------------- MODULE CcrInner -------------------------------
(***************************************************************************)
(* The bounded map behind every in-memory CCR store (Inner, in             *)
(* src/cache/store.rs): originals by token, the queue that decides who is  *)
(* evicted next, and the running byte total.                               *)
(*                                                                         *)
(* A token is the hash of its original, so a token stands for its content. *)
(* Both stores built on Inner hold its mutex for the whole of one          *)
(* operation, so an operation is a function of the record                  *)
(*     [map |-> token -> creation time, order |-> queue, total_bytes]      *)
(***************************************************************************)
EXTENDS Queues

CONSTANTS
  Tokens,  \* the tokens of the originals callers may offload
  Bytes    \* the length in bytes of a set of originals, all together

(***************************************************************************)
(* Bytes is the sum of the lengths of the originals in the set.  Additivity*)
(* over disjoint sets says so without a recursive definition.              *)
(***************************************************************************)
ASSUME BytesAssumption ==
  /\ Bytes \in [SUBSET Tokens -> Nat]
  /\ \A A, B \in SUBSET Tokens :
       A \cap B = {} => Bytes[A \cup B] = Bytes[A] + Bytes[B]

ASSUME TokensAssumption == IsFiniteSet(Tokens)

ContentLen(t) == Bytes[{t}]

-----------------------------------------------------------------------------

Resident(inner) == DOMAIN inner.map

Queued(inner) == {inner.order[i] : i \in DOMAIN inner.order}

EmptyInner == [map |-> [t \in {} |-> 0], order |-> <<>>, total_bytes |-> 0]

SaturatingSub(a, b) == IF a >= b THEN a - b ELSE 0

(* Seeded fault: the bytes are given back whether or not S was resident.   *)
DroppedBlindly(inner, S) ==
  [map         |-> [t \in Resident(inner) \ S |-> inner.map[t]],
   order       |-> inner.order,
   total_bytes |-> inner.total_bytes - Bytes[S]]

(***************************************************************************)
(* map.remove for the tokens of S, with their bytes given back.  The queue *)
(* is not touched: this alone is what an expired get does.                 *)
(***************************************************************************)
Dropped(inner, S) ==
  [map         |-> [t \in Resident(inner) \ S |-> inner.map[t]],
   order       |-> inner.order,
   total_bytes |-> SaturatingSub(inner.total_bytes, Bytes[Resident(inner) \cap S])]

Requeued(inner, order) ==
  [map |-> inner.map, order |-> order, total_bytes |-> inner.total_bytes]

Popped(inner, k) ==
  Requeued(Dropped(inner, {inner.order[i] : i \in 1 .. k}),
           SubSeq(inner.order, k + 1, Len(inner.order)))

OverCaps(inner, limits) ==
  \/ Len(inner.order) > limits.max_entries
  \/ inner.total_bytes > limits.max_bytes

(***************************************************************************)
(* The eviction loop pops the front while a cap is exceeded and more than  *)
(* `keep` entries are queued; Evictions is the singleton of its result.    *)
(***************************************************************************)
Evictions(inner, limits, keep) ==
  LET goesOn(k) == OverCaps(Popped(inner, k), limits) /\ Len(inner.order) - k > keep
  IN  {Popped(inner, k) : k \in {n \in 0 .. Len(inner.order) :
                                   ~goesOn(n) /\ \A j \in 0 .. n - 1 : goesOn(j)}}

Trims(inner, limits) == Evictions(inner, limits, 0)

-----------------------------------------------------------------------------
(* Seeded faults: a refresh that counts the bytes again, or that leaves    *)
(* the original where it is in the queue.                                  *)
RefreshedCounting(inner, t, now) ==
  [map         |-> [inner.map EXCEPT ![t] = now],
   order       |-> Append(Without(inner.order, t), t),
   total_bytes |-> inner.total_bytes + ContentLen(t)]

RefreshedInPlace(inner, t, now) ==
  [map         |-> [inner.map EXCEPT ![t] = now],
   order       |-> inner.order,
   total_bytes |-> inner.total_bytes]

(***************************************************************************)
(* Inner::insert, as the singleton of its result and its answer.           *)
(***************************************************************************)
Refreshed(inner, t, now) ==
  [map         |-> [u \in Resident(inner) |-> IF u = t THEN now ELSE inner.map[u]],
   order       |-> Append(Without(inner.order, t), t),
   total_bytes |-> inner.total_bytes]

Pushed(inner, t, now) ==
  [map         |-> [u \in Resident(inner) \cup {t} |-> IF u = t THEN now ELSE inner.map[u]],
   order       |-> Append(inner.order, t),
   total_bytes |-> inner.total_bytes + ContentLen(t)]

(* Seeded fault: the refused original is unqueued but stays in the map.     *)
RejectedKept(inner, t) == Requeued(inner, Without(inner.order, t))

Rejected(inner, t) == Requeued(Dropped(inner, {t}), Without(inner.order, t))

(* Seeded fault: the answer is given without looking at what eviction did. *)
InsertsUnchecked(inner, t, limits, now) ==
  {[inner |-> evicted, retained |-> TRUE] :
     evicted \in Evictions(IF t \in Resident(inner) THEN Refreshed(inner, t, now)
                           ELSE Pushed(inner, t, now), limits, 0)}

Inserts(inner, t, limits, now) ==
  IF t \in Resident(inner)
  THEN {[inner |-> Refreshed(inner, t, now), retained |-> TRUE]}
  ELSE {IF evicted.total_bytes > limits.max_bytes
        THEN [inner |-> Rejected(evicted, t), retained |-> FALSE]
        ELSE [inner |-> evicted, retained |-> t \in Resident(evicted)]
        : evicted \in Evictions(Pushed(inner, t, now), limits, 1)}

-----------------------------------------------------------------------------

InnerType(times) ==
  [map : UNION {[S -> times] : S \in SUBSET Tokens}, order : Seq(Tokens), total_bytes : Nat]

(* The running total is the length of what is resident. *)
AccountedFor(inner) == inner.total_bytes = Bytes[Resident(inner)]

(* Every resident original is queued for eviction, so it can be evicted.   *)
Evictable(inner) == Resident(inner) \subseteq Queued(inner)

WithinCaps(inner, limits) == ~OverCaps(inner, limits)

(* The queue lists each resident original, and nothing else, exactly once. *)
OrderMirrorsMap(inner) ==
  /\ Queued(inner) = Resident(inner)
  /\ Len(inner.order) = Cardinality(Resident(inner))
=============================================================================
