---------------------------- MODULE MemoryCcrStore ----------------------------
(***************************************************************************)
(* MemoryCcrStore of src/cache/store.rs: the isolated in-memory CCR store  *)
(* of a module instance, shared by concurrent callers.                     *)
(*                                                                         *)
(* put holds the read guard of `limits` through the insertion and          *)
(* configure holds the write guard through the trim, so each is one step.  *)
(* get reads the ttl, lets go of `limits`, and only then locks `inner`: a  *)
(* configure or a put may come between its two steps.                      *)
(***************************************************************************)
EXTENDS CcrInner

CONSTANTS
  Clients,     \* threads that call get
  MaxEntries,  \* max_entries values configure is called with
  MaxBytes,    \* max_bytes values configure is called with
  Ttls,        \* ttl values configure is called with, besides NoTtl
  NoTtl,       \* Option::None for the ttl
  MaxTime      \* bound on the clock

ASSUME LimitsAssumption ==
  /\ MaxEntries \subseteq Nat \ {0}
  /\ MaxBytes \subseteq Nat \ {0}
  /\ Ttls \subseteq Nat
  /\ MaxTime \in Nat
  /\ NoTtl \notin Nat

VARIABLES
  inner,   \* the state behind the mutex
  limits,  \* MemoryLimits, behind its RwLock
  reading, \* per client: the get between its two lock acquisitions
  now,     \* Instant::now()
  reply    \* the answer of the last put, for the properties

vars == <<inner, limits, reading, now, reply>>

Limits == [max_entries : MaxEntries, max_bytes : MaxBytes, ttl : Ttls \cup {NoTtl}]

Idle == [phase |-> "idle"]

NoReply == [op |-> "none"]

Init ==
  /\ inner = EmptyInner
  /\ limits \in {l \in Limits : l.ttl = NoTtl}
  /\ reading = [c \in Clients |-> Idle]
  /\ now = 0
  /\ reply = NoReply

Put(t) ==
  \E r \in Inserts(inner, t, limits, now) :
    /\ inner' = r.inner
    /\ reply' = [op |-> "put", token |-> t, retained |-> r.retained]
    /\ UNCHANGED <<limits, reading, now>>

(* Seeded fault: the new caps apply from the next put on only.             *)
ConfigureUntrimmed(l) ==
  /\ limits' = l
  /\ reply' = NoReply
  /\ UNCHANGED <<inner, reading, now>>

Configure(l) ==
  /\ limits' = l
  /\ inner' \in Trims(inner, l)
  /\ reply' = NoReply
  /\ UNCHANGED <<reading, now>>

GetReadTtl(c, t) ==
  /\ reading[c] = Idle
  /\ reading' = [reading EXCEPT ![c] = [phase |-> "lookup", token |-> t, ttl |-> limits.ttl]]
  /\ UNCHANGED <<inner, limits, now, reply>>

Fresh(created, ttl) == ttl = NoTtl \/ now - created < ttl

GetLookup(c) ==
  /\ reading[c] # Idle
  /\ LET t   == reading[c].token
         hit == t \in Resident(inner) /\ Fresh(inner.map[t], reading[c].ttl)
     IN  inner' = IF hit THEN inner ELSE Dropped(inner, {t})
  /\ reading' = [reading EXCEPT ![c] = Idle]
  /\ reply' = NoReply
  /\ UNCHANGED <<limits, now>>

Tick ==
  /\ now < MaxTime
  /\ now' = now + 1
  /\ UNCHANGED <<inner, limits, reading, reply>>

Next ==
  \/ \E t \in Tokens : Put(t)
  \/ \E l \in Limits : Configure(l)
  \/ \E c \in Clients, t \in Tokens : GetReadTtl(c, t)
  \/ \E c \in Clients : GetLookup(c)
  \/ Tick

Spec == Init /\ [][Next]_vars

-----------------------------------------------------------------------------

Reading == {Idle} \cup [phase : {"lookup"}, token : Tokens, ttl : Ttls \cup {NoTtl}]

Reply == {NoReply} \cup [op : {"put"}, token : Tokens, retained : BOOLEAN]

(* Every variable keeps its type; the map's domain is a set of tokens and  *)
(* no creation time is later than the clock (Inner, MemoryLimits).         *)
TypeOK ==
  /\ inner \in InnerType(0 .. now)
  /\ limits \in Limits
  /\ reading \in [Clients -> Reading]
  /\ now \in 0 .. MaxTime
  /\ reply \in Reply

(* The caps that are configured now hold in every state: no put inserts    *)
(* under limits configure has replaced, and configure leaves nothing over. *)
CapsHold == WithinCaps(inner, limits)

(* total_bytes is exactly the length of the resident originals, whatever   *)
(* mix of refreshes, evictions, rejections and expiries led here.          *)
AccountingExact == AccountedFor(inner)

(* No original is resident without a place in the eviction queue: such a   *)
(* one could never be evicted and its bytes would be held for good.        *)
NoOrphan == Evictable(inner)

(* A put that answers retained left the original resident, and one that    *)
(* answers not-retained left it absent: the router advertises on this.     *)
AnswerIsTruth == reply.op = "put" => (reply.retained <=> reply.token \in Resident(inner))

-----------------------------------------------------------------------------
(***************************************************************************)
(* What the eviction promises, told from the outside.  A get that finds an *)
(* expired original removes it from the map but leaves its queue entry;    *)
(* from then on the queue no longer mirrors the map.                       *)
(***************************************************************************)
Lost == Resident(inner) \ Resident(inner')

(* configure: "without discarding entries that still fit".                 *)
FittingSurviveStep ==
  /\ limits' # limits
  /\ Cardinality(Resident(inner)) <= limits'.max_entries
  /\ inner.total_bytes <= limits'.max_bytes
  => Lost = {}

(* offload_checked: retained is false only when the original exceeds the   *)
(* byte cap.                                                               *)
RefusalStep ==
  reply'.op = "put" /\ ~reply'.retained => ContentLen(reply'.token) > limits.max_bytes

(* insert and trim: whatever is evicted is no newer than what stays.       *)
OldestFirstStep ==
  \A x \in Lost, y \in Resident(inner) \cap Resident(inner') :
    inner.order # inner'.order => inner.map[x] <= inner.map[y]

(* While the queue mirrors the map, configure keeps every entry that fits, *)
(* put refuses only an original over the byte cap, and whatever is evicted *)
(* is no newer than anything that stays.                                   *)
EvictionIsFair ==
  [][OrderMirrorsMap(inner) => FittingSurviveStep /\ RefusalStep /\ OldestFirstStep]_vars

-----------------------------------------------------------------------------
(* The store keeps the promise every CcrStore makes: its residents change  *)
(* only by an original being put, or by some being forgotten, and put      *)
(* answers accordingly.                                                    *)
Contract == INSTANCE CcrContract WITH held <- Resident(inner)

KeepsContract == Contract!Spec
=============================================================================
