------------------------- MODULE MemoryCcrStoreProofs -------------------------
(***************************************************************************)
(* For every set of originals, every lengths and every set of limits: the  *)
(* isolated store stays within the caps configured now, its byte total is  *)
(* exact, nothing resident escapes eviction, and put tells the truth.      *)
(*                                                                         *)
(* None of these is inductive alone.  A put keeps within the caps only     *)
(* because the total is exact and every resident original is queued (else  *)
(* the loop could run out of queue while over the cap), and the answer is  *)
(* still true after a get's first half or a tick only because those leave  *)
(* `inner` alone.  Their conjunction with the types is inductive.          *)
(***************************************************************************)
EXTENDS MemoryCcrStore, CcrInnerProofs

IInv == TypeOK /\ CapsHold /\ AccountingExact /\ NoOrphan /\ AnswerIsTruth

LEMMA LimitsFacts ==
  ASSUME NEW l \in Limits
  PROVE  l.max_entries \in Nat \ {0} /\ l.max_bytes \in Nat \ {0}
  BY LimitsAssumption DEF Limits

LEMMA InitIInv == Init => IInv
<1> SUFFICES ASSUME Init PROVE IInv
  OBVIOUS
<1>1. limits \in Limits /\ inner = EmptyInner /\ now = 0 /\ reply = NoReply
  BY DEF Init
<1>2. limits.max_entries \in Nat \ {0} /\ limits.max_bytes \in Nat \ {0}
  BY <1>1, LimitsFacts
<1>3. inner \in InnerType(0 .. now)
  <2> DEFINE m == [t \in {} |-> 0]
  <2>1. m \in UNION {[D -> 0 .. now] : D \in SUBSET Tokens}
    BY <1>1
  <2>2. <<>> \in Seq(Tokens)
    OBVIOUS
  <2>3. inner = [map |-> m, order |-> <<>>, total_bytes |-> 0]
    BY <1>1 DEF EmptyInner
  <2> HIDE DEF m
  <2> QED BY <2>1, <2>2, <2>3 DEF InnerType
<1>4. Resident(inner) = {} /\ inner.order = <<>> /\ inner.total_bytes = 0
  BY <1>1 DEF EmptyInner, Resident
<1>5. CapsHold
  BY <1>2, <1>4 DEF CapsHold, WithinCaps, OverCaps
<1>6. AccountingExact /\ NoOrphan
  BY <1>4, BytesOfNone DEF AccountingExact, AccountedFor, NoOrphan, Evictable
<1>7. AnswerIsTruth
  BY <1>1 DEF AnswerIsTruth, NoReply
<1>8. reading \in [Clients -> Reading] /\ now \in 0 .. MaxTime /\ reply \in Reply
  BY LimitsAssumption DEF Init, Reading, Reply
<1> QED BY <1>1, <1>3, <1>5, <1>6, <1>7, <1>8 DEF IInv, TypeOK

LEMMA NextIInv == IInv /\ [Next]_vars => IInv'
<1> SUFFICES ASSUME IInv, [Next]_vars PROVE IInv'
  OBVIOUS
<1>1. /\ inner \in InnerType(0 .. now) /\ limits \in Limits
      /\ reading \in [Clients -> Reading] /\ now \in 0 .. MaxTime /\ reply \in Reply
      /\ AccountedFor(inner) /\ Evictable(inner) /\ WithinCaps(inner, limits)
  BY DEF IInv, TypeOK, CapsHold, AccountingExact, NoOrphan
<1>2. limits.max_entries \in Nat \ {0} /\ limits.max_bytes \in Nat \ {0}
  BY <1>1, LimitsFacts
<1>3. now \in Nat /\ now \in 0 .. now /\ MaxTime \in Nat
  BY <1>1, LimitsAssumption
<1>4. ASSUME NEW t \in Tokens, Put(t)
      PROVE  IInv'
  <2>1. PICK r \in Inserts(inner, t, limits, now) :
          /\ inner' = r.inner
          /\ reply' = [op |-> "put", token |-> t, retained |-> r.retained]
          /\ limits' = limits /\ reading' = reading /\ now' = now
    BY <1>4 DEF Put
  <2>2. /\ r.inner \in InnerType(0 .. now)
        /\ AccountedFor(r.inner) /\ Evictable(r.inner) /\ WithinCaps(r.inner, limits)
        /\ r.retained \in BOOLEAN
        /\ r.retained <=> t \in Resident(r.inner)
    BY <1>1, <1>2, <1>3, InsertsPreserve
  <2>3. reply' \in Reply
    BY <2>1, <2>2 DEF Reply
  <2>4. AnswerIsTruth'
    BY <2>1, <2>2 DEF AnswerIsTruth
  <2> QED BY <1>1, <2>1, <2>2, <2>3, <2>4
          DEF IInv, TypeOK, CapsHold, AccountingExact, NoOrphan
<1>5. ASSUME NEW l \in Limits, Configure(l)
      PROVE  IInv'
  <2>1. /\ inner' \in Trims(inner, l)
        /\ limits' = l /\ reply' = NoReply /\ reading' = reading /\ now' = now
    BY <1>5 DEF Configure
  <2>2. l.max_entries \in Nat /\ l.max_bytes \in Nat
    BY LimitsFacts
  <2>3. /\ inner' \in InnerType(0 .. now)
        /\ AccountedFor(inner') /\ Evictable(inner') /\ WithinCaps(inner', l)
    BY <1>1, <2>1, <2>2, TrimsPreserve
  <2>4. AnswerIsTruth' /\ reply' \in Reply
    BY <2>1 DEF AnswerIsTruth, NoReply, Reply
  <2> QED BY <1>1, <2>1, <2>3, <2>4
          DEF IInv, TypeOK, CapsHold, AccountingExact, NoOrphan
<1>6. ASSUME NEW c \in Clients, NEW t \in Tokens, GetReadTtl(c, t)
      PROVE  IInv'
  <2>1. /\ reading' = [reading EXCEPT ![c] = [phase |-> "lookup", token |-> t,
                                              ttl |-> limits.ttl]]
        /\ inner' = inner /\ limits' = limits /\ now' = now /\ reply' = reply
    BY <1>6 DEF GetReadTtl
  <2>2. limits.ttl \in Ttls \cup {NoTtl}
    BY <1>1 DEF Limits
  <2>3. reading' \in [Clients -> Reading]
    BY <1>1, <2>1, <2>2 DEF Reading
  <2>4. AnswerIsTruth'
    BY <2>1 DEF IInv, AnswerIsTruth
  <2> QED BY <1>1, <2>1, <2>3, <2>4
          DEF IInv, TypeOK, CapsHold, AccountingExact, NoOrphan
<1>7. ASSUME NEW c \in Clients, GetLookup(c)
      PROVE  IInv'
  <2> DEFINE d == Dropped(inner, {reading[c].token})
  <2>1. /\ inner' = inner \/ inner' = d
        /\ reading' = [reading EXCEPT ![c] = Idle]
        /\ limits' = limits /\ now' = now /\ reply' = NoReply
    BY <1>7 DEF GetLookup
  <2>2. /\ d \in InnerType(0 .. now) /\ AccountedFor(d)
        /\ Resident(d) = Resident(inner) \ {reading[c].token}
        /\ d.order = inner.order /\ d.total_bytes <= inner.total_bytes
    BY <1>1, DroppedPreserves
  <2> HIDE DEF d
  <2>3. Evictable(d)
    BY <1>1, <2>2 DEF Evictable, Queued
  <2>4. WithinCaps(d, limits)
    <3>1. d.total_bytes \in Nat /\ inner.total_bytes \in Nat
      BY <1>1, <2>2, InnerTypeParts
    <3> QED BY <1>1, <1>2, <2>2, <3>1 DEF WithinCaps, OverCaps
  <2>5. reading' \in [Clients -> Reading]
    BY <1>1, <2>1 DEF Reading
  <2>6. AnswerIsTruth' /\ reply' \in Reply
    BY <2>1 DEF AnswerIsTruth, NoReply, Reply
  <2> QED BY <1>1, <2>1, <2>2, <2>3, <2>4, <2>5, <2>6
          DEF IInv, TypeOK, CapsHold, AccountingExact, NoOrphan
<1>8. ASSUME Tick
      PROVE  IInv'
  <2>1. /\ now < MaxTime /\ now' = now + 1
        /\ inner' = inner /\ limits' = limits /\ reading' = reading /\ reply' = reply
    BY <1>8 DEF Tick
  <2>2. now' \in 0 .. MaxTime /\ 0 .. now \subseteq 0 .. now'
    BY <1>3, <2>1
  <2>3. inner \in InnerType(0 .. now')
    BY <1>1, <2>2, InnerTypeGrows
  <2>4. AnswerIsTruth'
    BY <2>1 DEF IInv, AnswerIsTruth
  <2> QED BY <1>1, <2>1, <2>2, <2>3, <2>4
          DEF IInv, TypeOK, CapsHold, AccountingExact, NoOrphan
<1>9. CASE UNCHANGED vars
  BY <1>1, <1>9 DEF vars, IInv, TypeOK, CapsHold, AccountingExact, NoOrphan, AnswerIsTruth
<1> QED BY <1>4, <1>5, <1>6, <1>7, <1>8, <1>9 DEF Next

-----------------------------------------------------------------------------

(* Every variable keeps its type, whatever callers and the clock do.       *)
THEOREM TypeCorrect == Spec => []TypeOK
<1>1. IInv => TypeOK
  BY DEF IInv
<1> QED BY <1>1, InitIInv, NextIInv, PTL DEF Spec

(* MemoryCcrStore::put and configure: the caps configured now always hold. *)
THEOREM CapsAlwaysHold == Spec => []CapsHold
<1>1. IInv => CapsHold
  BY DEF IInv
<1> QED BY <1>1, InitIInv, NextIInv, PTL DEF Spec

(* Inner.total_bytes is exactly what is resident, so a stray byte can      *)
(* neither be leaked nor be given back twice.                              *)
THEOREM AccountingAlwaysExact == Spec => []AccountingExact
<1>1. IInv => AccountingExact
  BY DEF IInv
<1> QED BY <1>1, InitIInv, NextIInv, PTL DEF Spec

(* Every resident original can be evicted.                                 *)
THEOREM NothingOrphaned == Spec => []NoOrphan
<1>1. IInv => NoOrphan
  BY DEF IInv
<1> QED BY <1>1, InitIInv, NextIInv, PTL DEF Spec

(* CcrPutResult::retained is what the store holds when put returns.        *)
THEOREM AnswersAreTrue == Spec => []AnswerIsTruth
<1>1. IInv => AnswerIsTruth
  BY DEF IInv
<1> QED BY <1>1, InitIInv, NextIInv, PTL DEF Spec

-----------------------------------------------------------------------------
(***************************************************************************)
(* The store implements the contract of CcrStore.  The answer of a put is  *)
(* only true because the eviction it runs is, so the invariant is needed.  *)
(***************************************************************************)
LEMMA PutKeepsContract ==
  ASSUME IInv, NEW t \in Tokens, Put(t)
  PROVE  Contract!Put(t)
<1>1. PICK r \in Inserts(inner, t, limits, now) :
        inner' = r.inner /\ reply' = [op |-> "put", token |-> t, retained |-> r.retained]
  BY DEF Put
<1>2. /\ inner \in InnerType(0 .. now) /\ limits \in Limits /\ now \in 0 .. now
      /\ AccountedFor(inner) /\ Evictable(inner) /\ WithinCaps(inner, limits)
  BY LimitsAssumption DEF IInv, TypeOK, CapsHold, AccountingExact, NoOrphan
<1>3. limits.max_entries \in Nat \ {0} /\ limits.max_bytes \in Nat \ {0}
  BY <1>2, LimitsFacts
<1>4. r.retained \in BOOLEAN /\ (r.retained <=> t \in Resident(r.inner))
  BY <1>2, <1>3, InsertsPreserve
<1>5. Resident(r.inner) \subseteq Resident(inner) \cup {t}
  BY InsertsAddOnly
<1>6. Resident(inner)' = Resident(r.inner)
  BY <1>1 DEF Resident
<1>7. reply'.retained = r.retained
  BY <1>1
<1>8. reply' \in {[op |-> "put", token |-> t, retained |-> TRUE],
                [op |-> "put", token |-> t, retained |-> FALSE]}
  BY <1>1, <1>4
<1> QED BY <1>4, <1>5, <1>6, <1>7, <1>8 DEF Contract!Put

LEMMA StepKeepsContract ==
  ASSUME IInv, [Next]_vars
  PROVE  [Contract!Next]_<<Resident(inner), reply>>
<1>1. ASSUME NEW t \in Tokens, Put(t)
      PROVE  Contract!Next
  BY <1>1, PutKeepsContract DEF Contract!Next
<1>2. ASSUME NEW l \in Limits, Configure(l)
      PROVE  Contract!Next
  <2>1. inner' \in Trims(inner, l) /\ reply' = NoReply
    BY <1>2 DEF Configure
  <2>2. Resident(inner') \subseteq Resident(inner)
    BY <2>1, EvictionsDropOnly DEF Trims
  <2> QED BY <2>1, <2>2 DEF Contract!Next, Contract!Forget, Contract!NoReply, NoReply, Resident
<1>3. ASSUME NEW c \in Clients, GetLookup(c)
      PROVE  Contract!Next
  <2>1. /\ inner' = inner \/ inner' = Dropped(inner, {reading[c].token})
        /\ reply' = NoReply
    BY <1>3 DEF GetLookup
  <2>2. Resident(inner') \subseteq Resident(inner)
    BY <2>1, DroppedDropsOnly
  <2> QED BY <2>1, <2>2 DEF Contract!Next, Contract!Forget, Contract!NoReply, NoReply, Resident
<1>4. ASSUME \/ \E c \in Clients, t \in Tokens : GetReadTtl(c, t)
             \/ Tick
             \/ UNCHANGED vars
      PROVE  UNCHANGED <<Resident(inner), reply>>
  <2>1. inner' = inner /\ reply' = reply
    BY <1>4 DEF GetReadTtl, Tick, vars
  <2> QED BY <2>1 DEF Resident
<1> QED BY <1>1, <1>2, <1>3, <1>4 DEF Next

(* MemoryCcrStore is a CcrStore: it forgets at will, invents nothing, and  *)
(* advertises an original only while it holds it.                          *)
THEOREM ContractKept == Spec => KeepsContract
<1>1. Init => Contract!Init
  BY DEF Init, Contract!Init, Contract!NoReply, NoReply, EmptyInner, Resident
<1>2. IInv /\ [Next]_vars => [Contract!Next]_<<Resident(inner), reply>>
  BY StepKeepsContract
<1> QED BY <1>1, <1>2, InitIInv, NextIInv, PTL DEF Spec, KeepsContract, Contract!Spec

-----------------------------------------------------------------------------
(***************************************************************************)
(* Eviction is fair.  The queue is in order of age throughout, and a queue *)
(* that mirrors the map lists nothing twice, so what is popped is oldest.  *)
(***************************************************************************)
LEMMA PoppedParts ==
  ASSUME NEW T, NEW in \in InnerType(T), AccountedFor(in), Evictable(in),
         NEW k \in 0 .. Len(in.order)
  PROVE  /\ Resident(Popped(in, k)) = Resident(in) \ {in.order[i] : i \in 1 .. k}
         /\ \A u \in Resident(Popped(in, k)) : Popped(in, k).map[u] = in.map[u]
         /\ Popped(in, k).order \in Seq(Tokens)
         /\ Len(Popped(in, k).order) = Len(in.order) - k
         /\ \A i \in 1 .. Len(in.order) - k : Popped(in, k).order[i] = in.order[i + k]
<1>1. Popped(in, k).map = Dropped(in, {in.order[i] : i \in 1 .. k}).map
  BY DEF Popped, Requeued
<1>2. /\ Resident(Popped(in, k)) = Resident(in) \ {in.order[i] : i \in 1 .. k}
      /\ \A u \in Resident(Popped(in, k)) : Popped(in, k).map[u] = in.map[u]
  BY <1>1 DEF Dropped, Resident
<1> QED BY <1>2, PoppedPreserves

LEMMA PoppedAged ==
  ASSUME NEW T, NEW in \in InnerType(T), AccountedFor(in), Evictable(in),
         NEW k \in 0 .. Len(in.order), Aged(in.order, in.map)
  PROVE  Aged(Popped(in, k).order, Popped(in, k).map)
<1> DEFINE p == Popped(in, k)
<1>1. /\ p.order \in Seq(Tokens) /\ in.order \in Seq(Tokens)
      /\ Len(p.order) = Len(in.order) - k
      /\ \A i \in 1 .. Len(in.order) - k : p.order[i] = in.order[i + k]
      /\ Resident(p) \subseteq Resident(in)
      /\ \A u \in Resident(p) : p.map[u] = in.map[u]
  BY PoppedParts, InnerTypeParts
<1> HIDE DEF p
<1>2. Aged(p.order, in.map)
  <2> DEFINE rest == p.order
             order == in.order
             map == in.map
  <2>1. /\ rest \in Seq(Tokens) /\ order \in Seq(Tokens) /\ k \in 0 .. Len(order)
        /\ Len(rest) = Len(order) - k /\ Aged(order, map)
        /\ \A i \in 1 .. Len(order) - k : rest[i] = order[i + k]
    BY <1>1
  <2> HIDE DEF rest, order, map
  <2>2. Aged(rest, map)
    BY <2>1, AgedSuffix
  <2> QED BY <2>2 DEF rest, map
<1>3. /\ DOMAIN p.map \subseteq DOMAIN in.map
      /\ \A u \in DOMAIN p.map : p.map[u] = in.map[u]
  BY <1>1 DEF Resident
<1>4. Aged(p.order, p.map)
  <2> DEFINE map == in.map
             less == p.map
             rest == p.order
  <2>1. /\ Aged(rest, map) /\ DOMAIN less \subseteq DOMAIN map
        /\ \A u \in DOMAIN less : less[u] = map[u]
    BY <1>2, <1>3
  <2> HIDE DEF map, less, rest
  <2>2. Aged(rest, less)
    BY <2>1, AgedLess
  <2> QED BY <2>2 DEF rest, less
<1> QED BY <1>4 DEF p

LEMMA InsertsAged ==
  ASSUME NEW time \in Nat, NEW in \in InnerType(0 .. time), AccountedFor(in), Evictable(in),
         NEW L, NEW t \in Tokens, NEW r \in Inserts(in, t, L, time), Aged(in.order, in.map)
  PROVE  Aged(r.inner.order, r.inner.map)
<1>1. /\ in.order \in Seq(Tokens)
      /\ \A u \in Resident(in) : in.map[u] \in Int /\ in.map[u] <= time
  <2>1. in.map \in [Resident(in) -> 0 .. time]
    BY InnerTypeParts
  <2> QED BY <2>1, InnerTypeParts
<1>2. CASE t \in Resident(in)
  <2> DEFINE f == Refreshed(in, t, time)
             w == Without(in.order, t)
  <2>1. r.inner = f
    BY <1>2 DEF Inserts
  <2>2. w \in Seq(Tokens) /\ Aged(w, in.map)
    BY <1>1, AgedWithout, WithoutProperties
  <2>3. /\ f.order = Append(w, t) /\ DOMAIN f.map = DOMAIN in.map \cup {t}
        /\ f.map[t] = time /\ \A u \in DOMAIN in.map \ {t} : f.map[u] = in.map[u]
    BY <1>2 DEF Refreshed, Resident
  <2> DEFINE map == in.map
             new == f.map
  <2>4. Aged(Append(w, t), new)
    <3>1. /\ w \in Seq(Tokens) /\ Aged(w, map) /\ time \in Int
          /\ \A u \in DOMAIN map : map[u] \in Int /\ map[u] <= time
          /\ DOMAIN new = DOMAIN map \cup {t}
          /\ new[t] = time /\ \A u \in DOMAIN map \ {t} : new[u] = map[u]
      <4> HIDE DEF f, w
      <4> QED BY <1>1, <2>2, <2>3 DEF Resident
    <3> HIDE DEF w, map, new
    <3> QED BY <3>1, AgedAppend
  <2> HIDE DEF f, w
  <2> QED BY <2>1, <2>3, <2>4
<1>3. CASE t \notin Resident(in)
  <2> DEFINE p == Pushed(in, t, time)
  <2>1. PICK e \in Evictions(p, L, 1) : r.inner = e \/ r.inner = Rejected(e, t)
    BY <1>3 DEF Inserts
  <2>2. /\ p.order = Append(in.order, t) /\ DOMAIN p.map = DOMAIN in.map \cup {t}
        /\ p.map[t] = time /\ \A u \in DOMAIN in.map \ {t} : p.map[u] = in.map[u]
    BY DEF Pushed, Resident
  <2>3. p \in InnerType(0 .. time) /\ AccountedFor(p) /\ Evictable(p)
    BY <1>3, PushedPreserves
  <2> HIDE DEF p
  <2>4. Aged(p.order, p.map)
    <3> DEFINE q == in.order
               map == in.map
               new == p.map
    <3>1. /\ q \in Seq(Tokens) /\ Aged(q, map) /\ time \in Int
          /\ \A u \in DOMAIN map : map[u] \in Int /\ map[u] <= time
          /\ DOMAIN new = DOMAIN map \cup {t}
          /\ new[t] = time /\ \A u \in DOMAIN map \ {t} : new[u] = map[u]
      BY <1>1, <2>2 DEF Resident
    <3> HIDE DEF q, map, new
    <3>2. Aged(Append(q, t), new)
      BY <3>1, AgedAppend
    <3> QED BY <2>2, <3>2 DEF q, new
  <2>5. PICK k \in 0 .. Len(p.order) : e = Popped(p, k)
    BY <2>1 DEF Evictions
  <2>6. Aged(e.order, e.map) /\ e.order \in Seq(Tokens)
    BY <2>3, <2>4, <2>5, PoppedAged, PoppedParts
  <2>7. Aged(Rejected(e, t).order, Rejected(e, t).map)
    <3> DEFINE j == Rejected(e, t)
    <3>1. /\ j.order = Without(e.order, t) /\ DOMAIN j.map \subseteq DOMAIN e.map
          /\ \A u \in DOMAIN j.map : j.map[u] = e.map[u]
      BY DEF Rejected, Requeued, Dropped, Resident
    <3>2. Aged(Without(e.order, t), e.map)
      BY <2>6, AgedWithout
    <3> HIDE DEF j
    <3> QED BY <3>1, <3>2, AgedLess DEF j
  <2> QED BY <2>1, <2>6, <2>7
<1> QED BY <1>2, <1>3

(* A queue that mirrors the map lists nothing twice, and one as long as    *)
(* what it lists is in order of age without exception.                     *)
LEMMA MirrorIsSingle ==
  ASSUME NEW T, NEW in \in InnerType(T), OrderMirrorsMap(in)
  PROVE  /\ Len(in.order) \in Nat /\ DOMAIN in.order = 1 .. Len(in.order)
         /\ \A i, j \in DOMAIN in.order : in.order[i] = in.order[j] => i = j
         /\ \A x \in Resident(in) : \E i \in DOMAIN in.order : in.order[i] = x
         /\ \A i \in DOMAIN in.order : in.order[i] \in Resident(in)
<1> DEFINE n == Len(in.order)
           R == Resident(in)
<1>1. in.order \in Seq(Tokens)
  BY InnerTypeParts
<1>2. n \in Nat /\ DOMAIN in.order = 1 .. n
  BY <1>1
<1>3. {in.order[i] : i \in 1 .. n} = R /\ Cardinality(R) = n
  BY <1>2 DEF OrderMirrorsMap, Queued
<1>4. IsFiniteSet(1 .. n) /\ Cardinality(1 .. n) = n
  BY <1>2, FS_Interval
<1>5. in.order \in [1 .. n -> R]
  <2>1. in.order \in [1 .. n -> Tokens]
    BY <1>1
  <2> HIDE DEF n, R
  <2> QED BY <1>3, <2>1
<1> HIDE DEF n, R
<1>6. in.order \in Surjection(1 .. n, R)
  BY <1>3, <1>5 DEF Surjection
<1>7. in.order \in Injection(1 .. n, R)
  BY <1>3, <1>4, <1>6, FS_SurjSameCardinalityImpliesInj
<1>8. \A i, j \in 1 .. n : in.order[i] = in.order[j] => i = j
  BY <1>5, <1>7 DEF Injection, IsInjective
<1> QED BY <1>2, <1>3, <1>8 DEF n, R

LEMMA MirrorIsAged ==
  ASSUME NEW T, NEW in \in InnerType(T), OrderMirrorsMap(in), Aged(in.order, in.map),
         NEW i \in DOMAIN in.order, NEW j \in DOMAIN in.order, i < j
  PROVE  in.map[in.order[i]] <= in.map[in.order[j]]
<1>1. in.order[i] \in DOMAIN in.map /\ in.order[j] \in DOMAIN in.map
  BY MirrorIsSingle DEF Resident
<1>2. \A k \in DOMAIN in.order : in.order[k] = in.order[i] => k = i
  BY MirrorIsSingle
<1>3. ~(i < i)
  BY MirrorIsSingle
<1> QED BY <1>1, <1>2, <1>3 DEF Aged

-----------------------------------------------------------------------------
(* What a queue with no stale entry loses to eviction: the front, which is *)
(* the oldest, and nothing while the caps hold.                            *)
LEMMA EvictionTakesTheOldest ==
  ASSUME NEW time \in Nat, NEW in \in InnerType(0 .. time), AccountedFor(in), Evictable(in),
         OrderMirrorsMap(in), Aged(in.order, in.map),
         NEW p \in InnerType(0 .. time), AccountedFor(p), Evictable(p),
         \A i \in DOMAIN in.order : i \in DOMAIN p.order /\ p.order[i] = in.order[i],
         NEW k \in 0 .. Len(p.order),
         NEW x \in Resident(in), x \in Resident(p), x \notin Resident(Popped(p, k)),
         NEW y \in Resident(in), y \in Resident(Popped(p, k))
  PROVE  in.map[x] <= in.map[y]
<1>1. /\ Len(in.order) \in Nat /\ DOMAIN in.order = 1 .. Len(in.order)
      /\ \A u \in Resident(in) : \E i \in DOMAIN in.order : in.order[i] = u
  BY MirrorIsSingle
<1>2. PICK j \in DOMAIN in.order : in.order[j] = y
  BY <1>1
<1>3. Resident(Popped(p, k)) = Resident(p) \ {p.order[i] : i \in 1 .. k}
  BY PoppedParts
<1>4. p.order \in Seq(Tokens) /\ Len(p.order) \in Nat /\ DOMAIN p.order = 1 .. Len(p.order)
  BY InnerTypeParts
<1>5. PICK h \in 1 .. k : p.order[h] = x
  BY <1>3
<1>6. \A i \in 1 .. k : p.order[i] # y
  BY <1>3
<1>7. j > k
  <2>1. p.order[j] = y
    BY <1>2
  <2> QED BY <1>1, <1>4, <1>6, <2>1
<1>8. h \in DOMAIN in.order /\ h < j
  BY <1>1, <1>4, <1>7
<1>9. in.order[h] = x
  BY <1>5, <1>8
<1> QED BY <1>2, <1>8, <1>9, MirrorIsAged

LEMMA FittingIsUntouched ==
  ASSUME NEW T, NEW in \in InnerType(T), AccountedFor(in), Evictable(in),
         OrderMirrorsMap(in), NEW L, L.max_entries \in Nat, L.max_bytes \in Nat,
         Cardinality(Resident(in)) <= L.max_entries, in.total_bytes <= L.max_bytes,
         NEW e \in Trims(in, L)
  PROVE  Resident(e) = Resident(in)
<1>1. in.order \in Seq(Tokens) /\ Len(in.order) \in Nat /\ in.total_bytes \in Nat
  BY InnerTypeParts
<1>2. 0 \in 0 .. Len(in.order)
  BY <1>1
<1>3. /\ Resident(Popped(in, 0)) = Resident(in) \ {in.order[i] : i \in 1 .. 0}
      /\ Len(Popped(in, 0).order) = Len(in.order) - 0
      /\ AccountedFor(Popped(in, 0))
  BY <1>2, PoppedParts, PoppedPreserves
<1>4. Resident(Popped(in, 0)) = Resident(in)
  <2>1. {in.order[i] : i \in 1 .. 0} = {}
    OBVIOUS
  <2> QED BY <1>3, <2>1
<1>5. Popped(in, 0).total_bytes = in.total_bytes
  BY <1>3, <1>4 DEF AccountedFor
<1>6. ~OverCaps(Popped(in, 0), L)
  BY <1>1, <1>3, <1>5 DEF OverCaps, OrderMirrorsMap
<1>7. PICK k \in 0 .. Len(in.order) :
        /\ e = Popped(in, k)
        /\ \A j \in 0 .. k - 1 : OverCaps(Popped(in, j), L)
  BY DEF Trims, Evictions
<1>8. k = 0
  BY <1>1, <1>6, <1>7
<1> QED BY <1>4, <1>7, <1>8

(* A put answers not-retained, and leaves no stale entry, only when the    *)
(* original alone is over the byte cap.                                    *)
LEMMA RefusedIsTooLong ==
  ASSUME NEW T, NEW in \in InnerType(T), AccountedFor(in), Evictable(in),
         NEW L, L.max_entries \in Nat \ {0}, L.max_bytes \in Nat \ {0},
         NEW t \in Tokens, NEW time \in T,
         NEW r \in Inserts(in, t, L, time), ~r.retained,
         OrderMirrorsMap(in) \/ OrderMirrorsMap(r.inner)
  PROVE  ContentLen(t) > L.max_bytes
<1> DEFINE p == Pushed(in, t, time)
<1>1. t \notin Resident(in)
  <2> SUFFICES ASSUME t \in Resident(in) PROVE FALSE
    OBVIOUS
  <2>1. r = [inner |-> Refreshed(in, t, time), retained |-> TRUE]
    BY DEF Inserts
  <2> QED BY <2>1
<1>2. /\ p \in InnerType(T) /\ AccountedFor(p) /\ Evictable(p)
      /\ Len(p.order) = Len(in.order) + 1 /\ p.order[Len(in.order) + 1] = t
      /\ \A i \in 1 .. Len(in.order) : p.order[i] = in.order[i]
  <2>1. in.order \in Seq(Tokens)
    BY InnerTypeParts
  <2>2. \A i \in 1 .. Len(in.order) : p.order[i] = in.order[i]
    BY <2>1 DEF Pushed
  <2> QED BY <1>1, <2>2, PushedPreserves
<1>3. PICK e \in Evictions(p, L, 1) :
        r = IF e.total_bytes > L.max_bytes
            THEN [inner |-> Rejected(e, t), retained |-> FALSE]
            ELSE [inner |-> e, retained |-> t \in Resident(e)]
  BY <1>1 DEF Inserts
<1>4. PICK k \in 0 .. Len(p.order) :
        /\ e = Popped(p, k)
        /\ \A j \in 0 .. k - 1 : Len(p.order) - j > 1
  BY DEF Evictions
<1> HIDE DEF p
<1>5. in.order \in Seq(Tokens) /\ Len(in.order) \in Nat /\ DOMAIN in.order = 1 .. Len(in.order)
  BY InnerTypeParts
<1>6. /\ e \in InnerType(T) /\ AccountedFor(e) /\ Evictable(e)
      /\ WithinCaps(e, L) \/ Len(e.order) <= 1
  BY <1>2, EvictionsPreserve
<1>7. /\ Resident(e) = Resident(p) \ {p.order[i] : i \in 1 .. k}
      /\ e.order \in Seq(Tokens) /\ Len(e.order) = Len(p.order) - k
      /\ \A i \in 1 .. Len(p.order) - k : e.order[i] = p.order[i + k]
  BY <1>2, <1>4, PoppedParts
<1>8. k <= Len(in.order)
  <2> SUFFICES ASSUME k > Len(in.order) PROVE FALSE
    BY <1>2, <1>4, <1>5
  <2>1. k - 1 \in 0 .. k - 1 /\ Len(p.order) - (k - 1) = 1
    BY <1>2, <1>4, <1>5
  <2>2. Len(p.order) - (k - 1) > 1
    BY <1>4, <2>1
  <2> QED BY <2>1, <2>2
<1>9. Len(in.order) + 1 - k \in 1 .. Len(e.order) /\ e.order[Len(in.order) + 1 - k] = t
  <2>1. Len(in.order) + 1 - k \in 1 .. Len(p.order) - k
    BY <1>2, <1>5, <1>8
  <2>2. e.order[Len(in.order) + 1 - k] = p.order[(Len(in.order) + 1 - k) + k]
    BY <1>7, <2>1
  <2>3. (Len(in.order) + 1 - k) + k = Len(in.order) + 1
    BY <1>5
  <2> QED BY <1>2, <1>7, <2>1, <2>2, <2>3
<1>10. CASE e.total_bytes > L.max_bytes
  <2>1. Len(e.order) = 1
    BY <1>6, <1>7, <1>9, <1>10 DEF WithinCaps, OverCaps
  <2>2. Queued(e) = {t}
    BY <1>7, <1>9, <2>1 DEF Queued
  <2>3. Resident(e) \subseteq {t}
    BY <1>6, <2>2 DEF Evictable
  <2>4. Resident(e) = {t} \/ Resident(e) = {}
    BY <2>3
  <2>5. Resident(e) # {}
    <3> SUFFICES ASSUME Resident(e) = {} PROVE FALSE
      OBVIOUS
    <3>1. e.total_bytes = 0
      BY <1>6, BytesOfNone DEF AccountedFor
    <3> QED BY <1>10, <3>1
  <2>6. e.total_bytes = ContentLen(t)
    BY <1>6, <2>4, <2>5 DEF AccountedFor, ContentLen
  <2> QED BY <1>10, <2>6
<1>11. CASE ~(e.total_bytes > L.max_bytes)
  <2>1. r = [inner |-> e, retained |-> t \in Resident(e)]
    BY <1>3, <1>11
  <2>2. r.inner = e /\ t \notin Resident(e)
    BY <2>1, Zenon
  <2>3. t \in Resident(p)
    BY DEF p, Pushed, Resident
  <2>4. PICK i \in 1 .. k : p.order[i] = t
    BY <1>7, <2>2, <2>3
  <2>5. CASE OrderMirrorsMap(in)
    <3>1. i \in 1 .. Len(in.order) /\ in.order[i] = t
      BY <1>2, <1>5, <1>8, <2>4
    <3>2. t \in Queued(in)
      BY <1>5, <3>1 DEF Queued
    <3> QED BY <1>1, <2>5, <3>2 DEF OrderMirrorsMap
  <2>6. CASE OrderMirrorsMap(r.inner)
    <3>1. t \in Queued(e)
      BY <1>7, <1>9 DEF Queued
    <3> QED BY <2>2, <2>6, <3>1 DEF OrderMirrorsMap
  <2> QED BY <2>5, <2>6
<1> QED BY <1>10, <1>11

-----------------------------------------------------------------------------
(* The answer of a refusal is remembered while gets begin and time passes, *)
(* so what it says of the length has to be remembered with it.             *)
RefusalHolds ==
  reply.op = "put" /\ ~reply.retained /\ OrderMirrorsMap(inner) =>
    ContentLen(reply.token) > limits.max_bytes

AgedInv == IInv /\ Aged(inner.order, inner.map) /\ RefusalHolds

LEMMA InvFacts ==
  ASSUME IInv
  PROVE  /\ now \in Nat /\ now \in 0 .. now
         /\ inner \in InnerType(0 .. now) /\ AccountedFor(inner) /\ Evictable(inner)
         /\ limits.max_entries \in Nat \ {0} /\ limits.max_bytes \in Nat \ {0}
<1>1. limits \in Limits /\ now \in 0 .. MaxTime
  BY DEF IInv, TypeOK
<1> QED BY <1>1, LimitsFacts, LimitsAssumption
        DEF IInv, TypeOK, AccountingExact, NoOrphan

LEMMA PutIsFair ==
  ASSUME AgedInv, NEW t \in Tokens, Put(t)
  PROVE  /\ Aged(inner.order, inner.map)' /\ RefusalHolds'
         /\ OrderMirrorsMap(inner) => FittingSurviveStep /\ RefusalStep /\ OldestFirstStep
<1>1. PICK r \in Inserts(inner, t, limits, now) :
        /\ inner' = r.inner
        /\ reply' = [op |-> "put", token |-> t, retained |-> r.retained]
        /\ limits' = limits
  BY DEF Put
<1>2. /\ now \in Nat /\ now \in 0 .. now
      /\ inner \in InnerType(0 .. now) /\ AccountedFor(inner) /\ Evictable(inner)
      /\ limits.max_entries \in Nat \ {0} /\ limits.max_bytes \in Nat \ {0}
      /\ Aged(inner.order, inner.map)
  BY InvFacts DEF AgedInv
<1>3. Aged(inner.order, inner.map)'
  <2>1. Aged(r.inner.order, r.inner.map)
    BY <1>2, InsertsAged
  <2> QED BY <1>1, <2>1
<1>4. ~r.retained /\ (OrderMirrorsMap(inner) \/ OrderMirrorsMap(inner')) =>
        ContentLen(t) > limits.max_bytes
  BY <1>1, <1>2, RefusedIsTooLong
<1>5. reply'.token = t /\ reply'.retained = r.retained
  BY <1>1
<1>6. RefusalHolds'
  BY <1>1, <1>4, <1>5 DEF RefusalHolds
<1>7. OrderMirrorsMap(inner) => FittingSurviveStep /\ RefusalStep
  BY <1>1, <1>4, <1>5 DEF FittingSurviveStep, RefusalStep
<1>8. ASSUME OrderMirrorsMap(inner), NEW x \in Lost,
             NEW y \in Resident(inner) \cap Resident(inner')
      PROVE  inner.map[x] <= inner.map[y]
  <2> DEFINE p == Pushed(inner, t, now)
  <2>1. x \in Resident(inner) /\ x \notin Resident(r.inner) /\ y \in Resident(r.inner)
    BY <1>1, <1>8 DEF Lost
  <2>2. t \notin Resident(inner)
    <3> SUFFICES ASSUME t \in Resident(inner) PROVE FALSE
      OBVIOUS
    <3>1. r.inner = Refreshed(inner, t, now)
      BY DEF Inserts
    <3>2. Resident(r.inner) = Resident(inner)
      BY <3>1 DEF Refreshed, Resident
    <3> QED BY <2>1, <3>2
  <2>3. PICK e \in Evictions(p, limits, 1) : r.inner = e \/ r.inner = Rejected(e, t)
    BY <2>2 DEF Inserts
  <2>4. PICK k \in 0 .. Len(p.order) : e = Popped(p, k)
    BY <2>3 DEF Evictions
  <2>5. Resident(Rejected(e, t)) = Resident(e) \ {t}
    <3>1. Rejected(e, t).map = Dropped(e, {t}).map
      BY DEF Rejected, Requeued
    <3> QED BY <3>1, DroppedDropsOnly DEF Resident
  <2>6. x # t /\ x \notin Resident(e) /\ y \in Resident(e)
    BY <2>1, <2>2, <2>3, <2>5
  <2>7. p \in InnerType(0 .. now) /\ AccountedFor(p) /\ Evictable(p)
    BY <1>2, <2>2, PushedPreserves
  <2>8. x \in Resident(p)
    BY <2>1 DEF Pushed, Resident
  <2>9. \A i \in DOMAIN inner.order : i \in DOMAIN p.order /\ p.order[i] = inner.order[i]
    <3>1. inner.order \in Seq(Tokens)
      BY <1>2, InnerTypeParts
    <3>2. p.order = Append(inner.order, t)
      BY DEF Pushed
    <3> HIDE DEF p
    <3> QED BY <3>1, <3>2
  <2> HIDE DEF p
  <2> QED BY <1>2, <1>8, <2>1, <2>4, <2>6, <2>7, <2>8, <2>9, EvictionTakesTheOldest
<1>9. OrderMirrorsMap(inner) => OldestFirstStep
  BY <1>8 DEF OldestFirstStep
<1> QED BY <1>3, <1>6, <1>7, <1>9

LEMMA ConfigureIsFair ==
  ASSUME AgedInv, NEW l \in Limits, Configure(l)
  PROVE  /\ Aged(inner.order, inner.map)' /\ RefusalHolds'
         /\ OrderMirrorsMap(inner) => FittingSurviveStep /\ RefusalStep /\ OldestFirstStep
<1>1. inner' \in Trims(inner, l) /\ limits' = l /\ reply'.op = "none"
  BY DEF Configure, NoReply
<1>2. /\ now \in Nat
      /\ inner \in InnerType(0 .. now) /\ AccountedFor(inner) /\ Evictable(inner)
      /\ Aged(inner.order, inner.map) /\ l.max_entries \in Nat /\ l.max_bytes \in Nat
  BY InvFacts, LimitsFacts DEF AgedInv
<1>3. PICK k \in 0 .. Len(inner.order) : inner' = Popped(inner, k)
  BY <1>1 DEF Trims, Evictions
<1>4. Aged(inner.order, inner.map)'
  <2>1. Aged(Popped(inner, k).order, Popped(inner, k).map)
    BY <1>2, PoppedAged
  <2> QED BY <1>3, <2>1
<1>5. RefusalHolds' /\ RefusalStep
  BY <1>1 DEF RefusalHolds, RefusalStep
<1>6. ASSUME OrderMirrorsMap(inner)
      PROVE  FittingSurviveStep
  <2> SUFFICES ASSUME Cardinality(Resident(inner)) <= l.max_entries,
                      inner.total_bytes <= l.max_bytes
               PROVE  Lost = {}
    BY <1>1 DEF FittingSurviveStep
  <2>1. Resident(inner') = Resident(inner)
    BY <1>1, <1>2, <1>6, FittingIsUntouched
  <2> QED BY <2>1 DEF Lost
<1>7. ASSUME OrderMirrorsMap(inner), NEW x \in Lost,
             NEW y \in Resident(inner) \cap Resident(inner')
      PROVE  inner.map[x] <= inner.map[y]
  <2>1. /\ x \in Resident(inner) /\ x \notin Resident(Popped(inner, k))
        /\ y \in Resident(inner) /\ y \in Resident(Popped(inner, k))
    BY <1>3, <1>7 DEF Lost
  <2> QED BY <1>2, <1>7, <2>1, EvictionTakesTheOldest
<1>8. OrderMirrorsMap(inner) => OldestFirstStep
  BY <1>7 DEF OldestFirstStep
<1> QED BY <1>4, <1>5, <1>6, <1>8

LEMMA StepIsFair ==
  ASSUME AgedInv, [Next]_vars
  PROVE  /\ AgedInv'
         /\ OrderMirrorsMap(inner) => FittingSurviveStep /\ RefusalStep /\ OldestFirstStep
<1> SUFFICES /\ Aged(inner.order, inner.map)' /\ RefusalHolds'
             /\ OrderMirrorsMap(inner) => FittingSurviveStep /\ RefusalStep /\ OldestFirstStep
  BY NextIInv DEF AgedInv
<1>1. ASSUME NEW t \in Tokens, Put(t)
      PROVE  /\ Aged(inner.order, inner.map)' /\ RefusalHolds'
             /\ OrderMirrorsMap(inner) => FittingSurviveStep /\ RefusalStep /\ OldestFirstStep
  BY <1>1, PutIsFair
<1>2. ASSUME NEW l \in Limits, Configure(l)
      PROVE  /\ Aged(inner.order, inner.map)' /\ RefusalHolds'
             /\ OrderMirrorsMap(inner) => FittingSurviveStep /\ RefusalStep /\ OldestFirstStep
  BY <1>2, ConfigureIsFair
<1>3. ASSUME \/ \E c \in Clients, t \in Tokens : GetReadTtl(c, t)
             \/ Tick
             \/ UNCHANGED vars
      PROVE  /\ Aged(inner.order, inner.map)' /\ RefusalHolds'
             /\ OrderMirrorsMap(inner) => FittingSurviveStep /\ RefusalStep /\ OldestFirstStep
  <2>1. inner' = inner /\ reply' = reply /\ limits' = limits
    BY <1>3 DEF GetReadTtl, Tick, vars
  <2>2. Lost = {}
    BY <2>1 DEF Lost
  <2> QED BY <2>1, <2>2 DEF AgedInv, RefusalHolds, FittingSurviveStep, RefusalStep, OldestFirstStep
<1>4. ASSUME NEW c \in Clients, GetLookup(c)
      PROVE  /\ Aged(inner.order, inner.map)' /\ RefusalHolds'
             /\ OrderMirrorsMap(inner) => FittingSurviveStep /\ RefusalStep /\ OldestFirstStep
  <2> DEFINE d == Dropped(inner, {reading[c].token})
  <2>1. (inner' = inner \/ inner' = d) /\ limits' = limits /\ reply'.op = "none"
    BY <1>4 DEF GetLookup, NoReply
  <2>2. /\ d.order = inner.order /\ DOMAIN d.map \subseteq DOMAIN inner.map
        /\ \A u \in DOMAIN d.map : d.map[u] = inner.map[u]
    BY DEF Dropped, Resident
  <2>3. Aged(d.order, d.map)
    <3> DEFINE q == inner.order
               map == inner.map
               less == d.map
    <3>1. /\ Aged(q, map) /\ DOMAIN less \subseteq DOMAIN map
          /\ \A u \in DOMAIN less : less[u] = map[u]
      BY <2>2 DEF AgedInv
    <3> HIDE DEF q, map, less
    <3>2. Aged(q, less)
      BY <3>1, AgedLess
    <3> QED BY <2>2, <3>2 DEF q, less
  <2> HIDE DEF d
  <2>4. Aged(inner.order, inner.map)' /\ inner'.order = inner.order
    BY <2>1, <2>2, <2>3 DEF AgedInv
  <2> QED BY <2>1, <2>4 DEF RefusalHolds, FittingSurviveStep, RefusalStep, OldestFirstStep
<1> QED BY <1>1, <1>2, <1>3, <1>4 DEF Next

(* MemoryCcrStore::put and configure while no expired get has left a stale *)
(* entry in the queue: configure keeps what fits, put refuses only what is *)
(* too long, and what eviction takes is no newer than what it leaves.      *)
THEOREM EvictionStaysFair == Spec => EvictionIsFair
<1>1. Init => AgedInv
  <2> SUFFICES ASSUME Init PROVE AgedInv
    OBVIOUS
  <2>1. IInv
    BY InitIInv
  <2>2. inner.order = <<>> /\ reply.op = "none"
    BY DEF Init, EmptyInner, NoReply
  <2> QED BY <2>1, <2>2 DEF AgedInv, Aged, RefusalHolds
<1>2. AgedInv /\ [Next]_vars => AgedInv'
  BY StepIsFair
<1>3. AgedInv /\ [Next]_vars =>
        [OrderMirrorsMap(inner) => FittingSurviveStep /\ RefusalStep /\ OldestFirstStep]_vars
  BY StepIsFair
<1> QED BY <1>1, <1>2, <1>3, PTL DEF Spec, EvictionIsFair
=============================================================================
