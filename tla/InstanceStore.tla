---------------------------- MODULE InstanceStore ----------------------------
(***************************************************************************)
(* The Compression service of crates/tinyjuice-module as a keeper of       *)
(* originals: the instance store (memory in front of the host's blobs),    *)
(* install, which replaces caps, durable tier and options one after the    *)
(* other, and compress and retrieve, which two worker threads run at the   *)
(* same time.  Every lock scope and every await is a step.                 *)
(*                                                                         *)
(* The blobs are the host's: they survive a restart, which takes           *)
(* everything else, and a write may be applied although its answer is an   *)
(* error.  What the router makes of `retained` is in ToolOutput.           *)
(***************************************************************************)
EXTENDS CcrInner

CONSTANTS
  Callers,     \* requests of the host in progress at the same time
  Requests,    \* the InstallRequests the host sends
  Governed,    \* require_storage: the host gave a storage descriptor
  NoTtl,       \* Option::None for the ttl
  MaxInstalls, \* bound on the number of installs
  MaxTime      \* bound on the clock

VARIABLES
  serving,  \* setup has finished and the object is served
  inner,    \* the memory store's Inner
  limits,   \* its MemoryLimits
  durable,  \* InstanceCcrStore.durable: NoTier or a BlobCcrStore
  options,  \* CompressionState.options
  blobs,    \* the host's blobs: when each key in use expires
  calls,    \* the requests in progress
  now,      \* the clock
  origin,   \* history: the install each part of the configuration comes from
  overlap,  \* history: two installs were in progress at the same time
  promised, \* history: until when each original was acknowledged to be durable
  shortened \* history: originals whose blob was given a nearer deadline than
            \* that, by a write nobody was told of or by the migration

config  == <<limits, durable, options>>
ghosts  == <<origin, overlap>>
history == <<ghosts, promised, shortened>>
vars    == <<serving, inner, config, blobs, calls, now, history>>

ASSUME RequestsAssumption ==
  \A r \in Requests :
    /\ r.max_entries \in Nat \ {0} /\ r.max_bytes \in Nat \ {0}
    /\ r.ttl \in Nat \cup {NoTtl}
    /\ {r.ccr_durable, r.ccr_enabled} \subseteq BOOLEAN

ASSUME BoundsAssumption == {MaxInstalls, MaxTime} \subseteq Nat /\ NoTtl \notin Nat

NoTier  == [tier |-> "none"]
Tier(ttl) == [tier |-> "blobs", ttl |-> ttl]

Idle == [op |-> "idle"]

DefaultLimits == [max_entries |-> 256, max_bytes |-> 64 * 1024 * 1024, ttl |-> NoTtl]

DefaultOptions == [ccr_enabled |-> TRUE]

Forever == MaxTime + 1

Expiry(ttl) == IF ttl = NoTtl THEN Forever ELSE now + ttl

(***************************************************************************)
(* The keys.  Before schema v2 an original was at the legacy key.          *)
(***************************************************************************)
Key(t) == <<"juice/ccr", t>>
LegacyKey(t) == <<"tinyjuice_ccr", t>>

Keys == {Key(t) : t \in Tokens} \cup {LegacyKey(t) : t \in Tokens}

Live(k) == k \in DOMAIN blobs /\ now < blobs[k]

With(k, expiry) == [x \in DOMAIN blobs \cup {k} |-> IF x = k THEN expiry ELSE blobs[x]]

(* An original whose blob now has this deadline, under a promise: the      *)
(* deadline falls short of the promise, or keeps it.                       *)
Marked(t, expiry, promise) ==
  IF expiry < promise THEN shortened \cup {t} ELSE shortened \ {t}

-----------------------------------------------------------------------------
(***************************************************************************)
(* Starting up, and the migration the host runs before the object is       *)
(* served: blob_target names the key to move a blob to, or none, or        *)
(* refuses; the host's runner keeps the deadline.                          *)
(***************************************************************************)
NoRequests == [c \in Callers |-> Idle]

NoOrigin == [caps |-> 0, durable |-> 0, options |-> 0, answered |-> 0, begun |-> 0]

Init ==
  /\ serving = FALSE
  /\ inner = EmptyInner
  /\ limits = DefaultLimits
  /\ durable = NoTier
  /\ options = DefaultOptions
  /\ calls = NoRequests
  /\ origin = NoOrigin
  /\ \E until \in [Tokens -> 0 .. Forever] :
       /\ blobs = [k \in {LegacyKey(t) : t \in {u \in Tokens : until[u] > 0}} |-> until[k[2]]]
       /\ promised = until
  /\ now = 0
  /\ overlap = FALSE
  /\ shortened = {}

MigrationRequests ==
  [operation : {"tinyjuice.ccr-prefix-v2", "other"}, version : {1, 2}, source : Keys]

(* The key move_ccr_blob gives a blob, none for one that is not of v1.     *)
move_ccr_blob(source) == {Key(t) : t \in {u \in Tokens : LegacyKey(u) = source}}

blob_target(request) ==
  CASE request.operation # "tinyjuice.ccr-prefix-v2" -> {}
    [] request.version # 1 -> {}
    [] OTHER -> move_ccr_blob(request.source)

Migrate(request) ==
  /\ ~serving
  /\ request.source \in DOMAIN blobs
  /\ \E target \in blob_target(request) :
       /\ blobs' = [k \in (DOMAIN blobs \ {request.source}) \cup {target} |->
                      blobs[IF k = target THEN request.source ELSE k]]
       /\ shortened' = Marked(target[2], blobs[request.source], promised[target[2]])
  /\ UNCHANGED <<serving, inner, config, calls, now, ghosts, promised>>

Serve ==
  /\ ~serving
  /\ serving' = TRUE
  /\ UNCHANGED <<inner, config, blobs, calls, now, history>>

Restart ==
  /\ serving
  /\ serving' = FALSE
  /\ inner' = EmptyInner
  /\ limits' = DefaultLimits
  /\ durable' = NoTier
  /\ options' = DefaultOptions
  /\ calls' = NoRequests
  /\ origin' = NoOrigin
  /\ overlap' = FALSE
  /\ UNCHANGED <<blobs, now, promised, shortened>>

-----------------------------------------------------------------------------
(***************************************************************************)
(* Requests.  `calm` is history: since this request began nobody else has  *)
(* stored or installed, no time has passed, and no other get has looked up *)
(* with a lifetime that an install had replaced (which can drop a live     *)
(* original: get lets go of the limits before it locks the map).           *)
(***************************************************************************)
At(c, op, phase) == calls[c].op = op /\ calls[c].phase = phase

Goto(c, call) == [calls EXCEPT ![c] = call]

Unsettled(c, call) ==
  [d \in Callers |-> IF d = c THEN call
                     ELSE IF calls[d].op \in {"put", "get"} THEN [calls[d] EXCEPT !.calm = FALSE]
                     ELSE calls[d]]

Installing == {c \in Callers : calls[c].op = "install"}

InstallBegin(c, request) ==
  /\ serving /\ calls[c] = Idle
  /\ origin.begun < MaxInstalls
  /\ origin' = [origin EXCEPT !.begun = @ + 1]
  /\ calls' = Goto(c, [op |-> "install", phase |-> "build", request |-> request,
                       number |-> origin'.begun, built |-> NoTier])
  /\ overlap' = (overlap \/ Installing # {})
  /\ UNCHANGED <<serving, inner, config, blobs, now, promised, shortened>>

(***************************************************************************)
(* The tier is built before anything is changed.  Building may fail (no    *)
(* route, no expiry, no bridge): with a descriptor the install is refused, *)
(* on the legacy route it goes on without a tier.                          *)
(***************************************************************************)
InstallBuilt(c) ==
  /\ At(c, "install", "build")
  /\ \E built \in {NoTier} \cup {Tier(calls[c].request.ttl)} :
       /\ ~calls[c].request.ccr_durable => built = NoTier
       /\ calls[c].request.ccr_durable /\ Governed => built # NoTier
       /\ calls' = Goto(c, [calls[c] EXCEPT !.phase = "configure", !.built = built])
  /\ UNCHANGED <<serving, inner, config, blobs, now, history>>

(* Seeded fault: the caps are set although the storage is refused.         *)
InstallRefusedHalfway(c) ==
  /\ At(c, "install", "build")
  /\ calls[c].request.ccr_durable /\ Governed
  /\ calls' = Goto(c, Idle)
  /\ origin' = [origin EXCEPT !.caps = calls[c].number]
  /\ UNCHANGED <<serving, inner, config, blobs, now, overlap, promised, shortened>>

InstallRefused(c) ==
  /\ At(c, "install", "build")
  /\ calls[c].request.ccr_durable /\ Governed
  /\ calls' = Goto(c, Idle)
  /\ UNCHANGED <<serving, inner, config, blobs, now, history>>

InstallConfigures(c) ==
  /\ At(c, "install", "configure")
  /\ limits' = [max_entries |-> calls[c].request.max_entries,
                max_bytes |-> calls[c].request.max_bytes, ttl |-> calls[c].request.ttl]
  /\ inner' \in Trims(inner, limits')
  /\ origin' = [origin EXCEPT !.caps = calls[c].number]
  /\ calls' = Unsettled(c, [calls[c] EXCEPT !.phase = "set_durable"])
  /\ UNCHANGED <<serving, durable, options, blobs, now, overlap, promised, shortened>>

InstallBinds(c) ==
  /\ At(c, "install", "set_durable")
  /\ durable' = calls[c].built
  /\ origin' = [origin EXCEPT !.durable = calls[c].number]
  /\ calls' = Unsettled(c, [calls[c] EXCEPT !.phase = "options"])
  /\ UNCHANGED <<serving, inner, limits, options, blobs, now, overlap, promised, shortened>>

InstallAnswers(c) ==
  /\ At(c, "install", "options")
  /\ options' = [ccr_enabled |-> calls[c].request.ccr_enabled]
  /\ origin' = [origin EXCEPT !.options = calls[c].number, !.answered = calls[c].number]
  /\ calls' = Goto(c, Idle)
  /\ UNCHANGED <<serving, inner, limits, durable, blobs, now, overlap, promised, shortened>>

Install(c) ==
  \/ \E request \in Requests : InstallBegin(c, request)
  \/ InstallBuilt(c)
  \/ InstallRefused(c)
  \/ InstallConfigures(c)
  \/ InstallBinds(c)
  \/ InstallAnswers(c)

-----------------------------------------------------------------------------
(***************************************************************************)
(* compress and compact clone the options once, then the router puts.      *)
(***************************************************************************)
CompressBegin(c, t) ==
  /\ serving /\ calls[c] = Idle
  /\ options.ccr_enabled
  /\ calls' = Goto(c, [op |-> "put", phase |-> "memory", token |-> t, retained |-> FALSE,
                       tier |-> NoTier, seen |-> origin.options, calm |-> TRUE])
  /\ UNCHANGED <<serving, inner, config, blobs, now, history>>

(* Seeded fault: the answer of the memory store is not looked at.          *)
PutMemoryUnchecked(c) ==
  /\ At(c, "put", "memory")
  /\ \E r \in Inserts(inner, calls[c].token, limits, now) :
       /\ inner' = r.inner
       /\ calls' = Unsettled(c, [calls[c] EXCEPT !.phase = "handle", !.retained = TRUE])
  /\ UNCHANGED <<serving, config, blobs, now, history>>

PutMemory(c) ==
  /\ At(c, "put", "memory")
  /\ \E r \in Inserts(inner, calls[c].token, limits, now) :
       /\ inner' = r.inner
       /\ calls' = Unsettled(c, [calls[c] EXCEPT !.phase = "handle", !.retained = r.retained])
  /\ UNCHANGED <<serving, config, blobs, now, history>>

PutHandle(c) ==
  /\ At(c, "put", "handle")
  /\ calls' = Goto(c, [calls[c] EXCEPT !.phase = IF durable = NoTier THEN "answer" ELSE "write",
                                       !.tier = durable])
  /\ UNCHANGED <<serving, inner, config, blobs, now, history>>

(***************************************************************************)
(* BlobCcrStore::put.  A zero lifetime is neither written nor advertised.  *)
(***************************************************************************)
Written(c, applied, acknowledged) ==
  LET t == calls[c].token
      expiry == Expiry(calls[c].tier.ttl)
  IN  /\ blobs' = IF applied THEN With(Key(t), expiry) ELSE blobs
      /\ promised' = IF acknowledged THEN [promised EXCEPT ![t] = expiry] ELSE promised
      /\ shortened' = IF applied THEN Marked(t, expiry, promised'[t]) ELSE shortened
      /\ calls' = Unsettled(c, [calls[c] EXCEPT !.phase = "answer",
                                                !.retained = @ \/ acknowledged])

(* Seeded fault: a write whose answer is an error counts as retained.      *)
PutDurableBlindly(c) ==
  /\ At(c, "put", "write")
  /\ \E applied \in BOOLEAN : Written(c, applied, TRUE)
  /\ UNCHANGED <<serving, inner, config, now, ghosts>>

PutDurable(c) ==
  /\ At(c, "put", "write")
  /\ IF calls[c].tier.ttl = 0
     THEN /\ calls' = Goto(c, [calls[c] EXCEPT !.phase = "answer"])
          /\ UNCHANGED <<blobs, promised, shortened>>
     ELSE \E applied, acknowledged \in BOOLEAN :
            (acknowledged => applied) /\ Written(c, applied, acknowledged)
  /\ UNCHANGED <<serving, inner, config, now, ghosts>>

PutAnswers(c) ==
  /\ At(c, "put", "answer")
  /\ calls' = Goto(c, Idle)
  /\ UNCHANGED <<serving, inner, config, blobs, now, history>>

Compress(c) ==
  \/ \E t \in Tokens : CompressBegin(c, t)
  \/ PutMemory(c)
  \/ PutHandle(c)
  \/ PutDurable(c)
  \/ PutAnswers(c)

-----------------------------------------------------------------------------

Fresh(created, ttl) == ttl = NoTtl \/ now - created < ttl

(* What a retrieve with nobody in its way finds. *)
Retrievable(t) ==
  \/ t \in Resident(inner) /\ Fresh(inner.map[t], limits.ttl)
  \/ durable # NoTier /\ Live(Key(t))

RetrieveBegin(c, t) ==
  /\ serving /\ calls[c] = Idle
  /\ calls' = Goto(c, [op |-> "get", phase |-> "lookup", token |-> t, ttl |-> limits.ttl,
                       tier |-> NoTier, found |-> FALSE, calm |-> Retrievable(t)])
  /\ UNCHANGED <<serving, inner, config, blobs, now, history>>

(* Seeded fault: an expired original is not looked for behind the memory.  *)
GetLookupOnly(c) ==
  /\ At(c, "get", "lookup")
  /\ LET t   == calls[c].token
         hit == t \in Resident(inner) /\ Fresh(inner.map[t], calls[c].ttl)
     IN  /\ inner' = IF hit THEN inner ELSE Dropped(inner, {t})
         /\ calls' = Goto(c, [calls[c] EXCEPT
              !.found = hit,
              !.phase = IF t \in Resident(inner) THEN "answer" ELSE "handle"])
  /\ UNCHANGED <<serving, config, blobs, now, history>>

GetLookup(c) ==
  /\ At(c, "get", "lookup")
  /\ LET t   == calls[c].token
         hit == t \in Resident(inner) /\ Fresh(inner.map[t], calls[c].ttl)
         call == [calls[c] EXCEPT !.found = hit, !.phase = IF hit THEN "answer" ELSE "handle"]
     IN  /\ inner' = IF hit THEN inner ELSE Dropped(inner, {t})
         /\ calls' = IF calls[c].ttl = limits.ttl THEN Goto(c, call) ELSE Unsettled(c, call)
  /\ UNCHANGED <<serving, config, blobs, now, history>>

GetHandle(c) ==
  /\ At(c, "get", "handle")
  /\ calls' = Goto(c, [calls[c] EXCEPT !.phase = IF durable = NoTier THEN "answer" ELSE "read",
                                       !.tier = durable])
  /\ UNCHANGED <<serving, inner, config, blobs, now, history>>

(* A read that fails is answered like an original that is not there. *)
GetDurable(c) ==
  /\ At(c, "get", "read")
  /\ \E failed \in BOOLEAN :
       calls' = Goto(c, [calls[c] EXCEPT !.phase = "answer",
                                         !.calm = @ /\ ~failed,
                                         !.found = Live(Key(calls[c].token)) /\ ~failed])
  /\ UNCHANGED <<serving, inner, config, blobs, now, history>>

GetAnswers(c) ==
  /\ At(c, "get", "answer")
  /\ calls' = Goto(c, Idle)
  /\ UNCHANGED <<serving, inner, config, blobs, now, history>>

Retrieve(c) ==
  \/ \E t \in Tokens : RetrieveBegin(c, t)
  \/ GetLookup(c)
  \/ GetHandle(c)
  \/ GetDurable(c)
  \/ GetAnswers(c)

Tick ==
  /\ now < MaxTime
  /\ now' = now + 1
  /\ calls' = [c \in Callers |-> IF calls[c].op \in {"put", "get"}
                                 THEN [calls[c] EXCEPT !.calm = FALSE] ELSE calls[c]]
  /\ UNCHANGED <<serving, inner, config, blobs, history>>

Next ==
  \/ \E request \in MigrationRequests : Migrate(request)
  \/ Serve
  \/ Restart
  \/ \E c \in Callers : Install(c) \/ Compress(c) \/ Retrieve(c)
  \/ Tick

Spec == Init /\ [][Next]_vars

-----------------------------------------------------------------------------

(* Every variable keeps its type; the byte accounting of the memory tier   *)
(* stays exact under the caps of the last install (InstanceCcrStore).      *)
TypeOK ==
  /\ serving \in BOOLEAN /\ overlap \in BOOLEAN /\ now \in 0 .. MaxTime
  /\ inner \in InnerType(0 .. now)
  /\ AccountedFor(inner) /\ Evictable(inner) /\ WithinCaps(inner, limits)
  /\ durable = NoTier \/ durable \in {Tier(r.ttl) : r \in Requests}
  /\ options \in [ccr_enabled : BOOLEAN]
  /\ DOMAIN blobs \subseteq Keys
  /\ \A c \in Callers : calls[c].op \in {"idle", "install", "put", "get"}
  /\ promised \in [Tokens -> Nat] /\ shortened \subseteq Tokens

(* As long as installs do not overlap, whenever none is in progress the    *)
(* caps, the durable tier and the options are those of one install, the    *)
(* last that was answered Ok: a refused one has left nothing behind.  And  *)
(* a compress that runs with the options of an install puts into the tiers *)
(* of that install or a later one: the options are replaced last.          *)
InstallIsWhole ==
  ~overlap =>
    /\ Installing = {} =>
         origin.caps = origin.answered /\ origin.durable = origin.answered
           /\ origin.options = origin.answered
    /\ \A c \in Callers :
         calls[c].op = "put" => calls[c].seen <= origin.durable /\ calls[c].seen <= origin.caps

(* An original that was acknowledged as durable is among the host's blobs  *)
(* for as long as was promised, across re-offloads under other lifetimes,  *)
(* writes with lost answers, installs, restarts and the migration, which   *)
(* keeps the deadline of a blob of schema v1.  What the code does not keep *)
(* is named: an original is excused from the moment a write that was       *)
(* applied without being acknowledged, or a migrated blob, gives it a      *)
(* nearer deadline, until a write makes good for it.                       *)
PromiseKept ==
  \A t \in Tokens \ shortened : now < promised[t] => Live(Key(t)) \/ Live(LegacyKey(t))

(* When put answers retained and nobody interfered since it began, a       *)
(* retrieve finds the original: memory has it, or the durable tier that is *)
(* bound does.  Only a lifetime of zero takes this back: the memory        *)
(* retains without looking at the lifetime it looks up with.               *)
AdvertisedIsRetrievable ==
  \A c \in Callers :
    At(c, "put", "answer") /\ calls[c].retained /\ calls[c].calm =>
      Retrievable(calls[c].token) \/ limits.ttl = 0

(* A retrieve of an original that memory or the blobs can serve answers    *)
(* it, when nobody interferes and the read does not fail: an expiry in     *)
(* memory falls through to the durable tier.                               *)
RetrievableIsAnswered ==
  \A c \in Callers : At(c, "get", "answer") /\ calls[c].calm => calls[c].found
=============================================================================
