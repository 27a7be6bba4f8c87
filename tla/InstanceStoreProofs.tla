------------------------- MODULE InstanceStoreProofs -------------------------
(***************************************************************************)
(* What the service of a module instance keeps, for every set of           *)
(* originals, every number of callers and every set of install requests:   *)
(* the types and the caps, an install that is whole, and the promise of    *)
(* the durable tier.                                                       *)
(***************************************************************************)
EXTENDS InstanceStore, CcrInnerProofs

Ttls == {r.ttl : r \in Requests} \cup {NoTtl}

TierType == {NoTier} \cup {Tier(r.ttl) : r \in Requests}

LimitsType == [max_entries : Nat \ {0}, max_bytes : Nat \ {0}, ttl : Ttls]

InstallCalls ==
  [op : {"install"}, phase : {"build", "configure", "set_durable", "options"},
   request : Requests, number : Nat, built : TierType]

PutCalls ==
  [op : {"put"}, phase : {"memory", "handle", "write", "answer"}, token : Tokens,
   retained : BOOLEAN, tier : TierType, seen : Nat, calm : BOOLEAN]

GetCalls ==
  [op : {"get"}, phase : {"lookup", "handle", "read", "answer"}, token : Tokens,
   ttl : Ttls, tier : TierType, found : BOOLEAN, calm : BOOLEAN]

CallType == {Idle} \cup InstallCalls \cup PutCalls \cup GetCalls

OriginType == [caps : Nat, durable : Nat, options : Nat, answered : Nat, begun : Nat]

Typed ==
  /\ TypeOK
  /\ limits \in LimitsType
  /\ calls \in [Callers -> CallType]
  /\ origin \in OriginType
  /\ blobs \in [DOMAIN blobs -> Nat]
  /\ \A c \in Callers :
       calls[c].op = "put" /\ calls[c].phase = "write" => calls[c].tier # NoTier

LEMMA RequestFacts ==
  ASSUME NEW r \in Requests
  PROVE  /\ r.max_entries \in Nat \ {0} /\ r.max_bytes \in Nat \ {0}
         /\ r.ttl \in Ttls /\ r.ttl \in Nat \cup {NoTtl}
         /\ r.ccr_enabled \in BOOLEAN /\ r.ccr_durable \in BOOLEAN
         /\ Tier(r.ttl) \in TierType
  BY RequestsAssumption DEF Ttls, TierType

(* What each kind of request may become.                                   *)
LEMMA CallParts ==
  ASSUME NEW call \in CallType
  PROVE  /\ call.op \in {"idle", "install", "put", "get"}
         /\ call.op = "idle" => call = Idle
         /\ call.op = "install" => call \in InstallCalls
         /\ call.op = "put" => call \in PutCalls
         /\ call.op = "get" => call \in GetCalls
  BY DEF CallType, Idle, InstallCalls, PutCalls, GetCalls

LEMMA CalmParts ==
  ASSUME NEW call \in CallType, call.op \in {"put", "get"}
  PROVE  [call EXCEPT !.calm = FALSE] \in CallType
<1>1. CASE call \in PutCalls
  BY <1>1 DEF PutCalls, CallType
<1>2. CASE call \in GetCalls
  BY <1>2 DEF GetCalls, CallType
<1> QED BY <1>1, <1>2, CallParts

LEMMA GotoTyped ==
  ASSUME calls \in [Callers -> CallType], NEW c \in Callers, NEW call \in CallType
  PROVE  /\ Goto(c, call) \in [Callers -> CallType]
         /\ Goto(c, call)[c] = call
         /\ \A d \in Callers \ {c} : Goto(c, call)[d] = calls[d]
  BY DEF Goto

LEMMA UnsettledTyped ==
  ASSUME calls \in [Callers -> CallType], NEW c \in Callers, NEW call \in CallType
  PROVE  /\ Unsettled(c, call) \in [Callers -> CallType]
         /\ Unsettled(c, call)[c] = call
         /\ \A d \in Callers \ {c} :
              /\ calls[d].op \in {"put", "get"} =>
                   Unsettled(c, call)[d] = [calls[d] EXCEPT !.calm = FALSE]
              /\ calls[d].op \notin {"put", "get"} => Unsettled(c, call)[d] = calls[d]
<1>1. \A d \in Callers : calls[d].op \in {"put", "get"} =>
        [calls[d] EXCEPT !.calm = FALSE] \in CallType
  BY CalmParts
<1> QED BY <1>1 DEF Unsettled

-----------------------------------------------------------------------------
LEMMA KeyFacts ==
  /\ \A t \in Tokens : Key(t) \in Keys /\ LegacyKey(t) \in Keys
  /\ \A t, u : Key(t) # LegacyKey(u)
  /\ \A t, u : Key(t) = Key(u) => t = u
  /\ \A t, u : LegacyKey(t) = LegacyKey(u) => t = u
  BY DEF Key, LegacyKey, Keys
LEMMA DefaultsTyped ==
  /\ DefaultLimits \in LimitsType
  /\ DefaultOptions \in [ccr_enabled : BOOLEAN]
  /\ NoOrigin \in OriginType
  /\ NoRequests \in [Callers -> CallType]
  /\ \A c \in Callers : NoRequests[c] = Idle
  /\ Idle.op = "idle" /\ Idle \in CallType
  BY DEF DefaultLimits, LimitsType, Ttls, DefaultOptions, NoOrigin, OriginType, NoRequests,
         CallType, Idle

LEMMA InitTyped == Init => Typed
<1> SUFFICES ASSUME Init PROVE Typed
  OBVIOUS
<1>1. /\ serving = FALSE /\ overlap = FALSE /\ now = 0 /\ inner = EmptyInner
      /\ limits = DefaultLimits /\ durable = NoTier /\ options = DefaultOptions
      /\ calls = NoRequests /\ origin = NoOrigin
  BY DEF Init
<1>2. PICK until \in [Tokens -> 0 .. Forever] :
        /\ blobs = [k \in {LegacyKey(t) : t \in {u \in Tokens : until[u] > 0}} |-> until[k[2]]]
        /\ promised = until
  BY DEF Init
<1>3. MaxTime \in Nat /\ Forever \in Nat
  BY BoundsAssumption DEF Forever
<1>4. DOMAIN blobs \subseteq Keys /\ blobs \in [DOMAIN blobs -> Nat]
  <2>1. DOMAIN blobs = {LegacyKey(t) : t \in {u \in Tokens : until[u] > 0}}
    BY <1>2
  <2>2. ASSUME NEW t \in Tokens, until[t] > 0
        PROVE  LegacyKey(t) \in Keys /\ blobs[LegacyKey(t)] \in Nat
    <3>1. LegacyKey(t)[2] = t
      BY DEF LegacyKey
    <3>2. LegacyKey(t) \in {LegacyKey(v) : v \in {u \in Tokens : until[u] > 0}}
      BY <2>2
    <3>3. blobs[LegacyKey(t)] = until[LegacyKey(t)[2]]
      BY <1>2, <3>2
    <3> QED BY <1>3, <3>1, <3>3, KeyFacts
  <2>3. blobs \in [DOMAIN blobs -> Nat]
    <3>1. blobs = [k \in DOMAIN blobs |-> blobs[k]]
      BY <1>2, <2>1
    <3>2. \A k \in DOMAIN blobs : blobs[k] \in Nat
      BY <2>1, <2>2
    <3> QED BY <3>1, <3>2
  <2> QED BY <2>1, <2>2, <2>3
<1>5. promised \in [Tokens -> Nat] /\ shortened \subseteq Tokens
  BY <1>2, <1>3 DEF Init
<1>6. /\ inner \in InnerType(0 .. now)
      /\ AccountedFor(inner) /\ Evictable(inner) /\ WithinCaps(inner, limits)
  BY <1>1, EmptyInnerFacts, DefaultsTyped DEF LimitsType
<1>7. \A c \in Callers : calls[c].op = "idle"
  BY <1>1, DefaultsTyped
<1>8. TypeOK
  <2>1. serving \in BOOLEAN /\ overlap \in BOOLEAN
    BY <1>1
  <2>2. now \in 0 .. MaxTime
    BY <1>1, <1>3
  <2>3. durable = NoTier /\ options \in [ccr_enabled : BOOLEAN]
    BY <1>1, DefaultsTyped
  <2> QED BY <1>4, <1>5, <1>6, <1>7, <2>1, <2>2, <2>3 DEF TypeOK
<1> QED BY <1>1, <1>4, <1>7, <1>8, DefaultsTyped DEF Typed

LEMMA ExpiryTyped ==
  ASSUME now \in Nat, NEW ttl \in Ttls
  PROVE  /\ Expiry(ttl) \in Nat
         /\ now <= MaxTime /\ ttl # 0 => now < Expiry(ttl)
<1>1. ttl \in Nat \cup {NoTtl}
  BY RequestFacts DEF Ttls
<1>2. MaxTime \in Nat
  BY BoundsAssumption
<1>3. CASE ttl = NoTtl
  <2>1. Expiry(ttl) = MaxTime + 1
    BY <1>3 DEF Expiry, Forever
  <2> QED BY <1>2, <2>1
<1>4. CASE ttl # NoTtl
  <2>1. Expiry(ttl) = now + ttl /\ ttl \in Nat
    BY <1>1, <1>4 DEF Expiry
  <2> QED BY <2>1
<1> QED BY <1>3, <1>4

LEMMA TierFacts ==
  ASSUME NEW d \in TierType, d # NoTier
  PROVE  d.ttl \in Ttls /\ d \in {Tier(r.ttl) : r \in Requests}
  BY DEF TierType, NoTier, Tier, Ttls

(* Where neither the memory tier nor the blobs change, the types follow    *)
(* from those of the rest.                                                 *)
LEMMA TypedKeeps ==
  ASSUME Typed,
         UNCHANGED <<inner, limits, blobs, promised, shortened>>,
         serving' \in BOOLEAN, overlap' \in BOOLEAN, now' = now,
         durable' \in TierType, options' \in [ccr_enabled : BOOLEAN],
         calls' \in [Callers -> CallType], origin' \in OriginType,
         \A c \in Callers : calls'[c].op = "put" /\ calls'[c].phase = "write"
                              => calls'[c].tier # NoTier
  PROVE  Typed'
<1>1. \A c \in Callers : calls'[c].op \in {"idle", "install", "put", "get"}
  BY CallParts
<1>2. durable' = NoTier \/ durable' \in {Tier(r.ttl) : r \in Requests}
  BY DEF TierType
<1>3. TypeOK'
  BY <1>1, <1>2 DEF Typed, TypeOK
<1> QED BY <1>3 DEF Typed

-----------------------------------------------------------------------------
(* The parts of Typed the action proofs use.                               *)
LEMMA TypedParts ==
  ASSUME Typed
  PROVE  /\ serving \in BOOLEAN /\ overlap \in BOOLEAN
         /\ now \in Nat /\ now \in 0 .. MaxTime /\ now <= MaxTime /\ now \in 0 .. now
         /\ inner \in InnerType(0 .. now)
         /\ AccountedFor(inner) /\ Evictable(inner) /\ WithinCaps(inner, limits)
         /\ durable \in TierType
         /\ options \in [ccr_enabled : BOOLEAN]
         /\ DOMAIN blobs \subseteq Keys /\ blobs \in [DOMAIN blobs -> Nat]
         /\ promised \in [Tokens -> Nat] /\ shortened \subseteq Tokens
         /\ limits \in LimitsType
         /\ calls \in [Callers -> CallType]
         /\ origin \in OriginType
         /\ \A c \in Callers :
              calls[c].op = "put" /\ calls[c].phase = "write" => calls[c].tier # NoTier
<1>1. now \in 0 .. MaxTime /\ MaxTime \in Nat
  BY BoundsAssumption DEF Typed, TypeOK
<1>2. now \in Nat /\ now <= MaxTime /\ now \in 0 .. now
  BY <1>1
<1>3. durable \in TierType
  BY DEF Typed, TypeOK, TierType
<1> QED BY <1>1, <1>2, <1>3 DEF Typed, TypeOK

(* Nothing but one request's record is replaced.                           *)
LEMMA GotoKeepsTyped ==
  ASSUME Typed, NEW c \in Callers, NEW call \in CallType,
         calls' = Goto(c, call),
         call.op = "put" /\ call.phase = "write" => call.tier # NoTier,
         UNCHANGED <<serving, inner, config, blobs, now, history>>
  PROVE  Typed'
<1>1. /\ calls' \in [Callers -> CallType]
      /\ calls'[c] = call /\ \A d \in Callers \ {c} : calls'[d] = calls[d]
  BY TypedParts, GotoTyped
<1>2. \A d \in Callers : calls'[d].op = "put" /\ calls'[d].phase = "write"
                           => calls'[d].tier # NoTier
  BY <1>1, TypedParts
<1> QED BY <1>1, <1>2, TypedParts, TypedKeeps DEF config, history, ghosts

LEMMA UnsettledKeepsWrites ==
  ASSUME Typed, NEW c \in Callers, NEW call \in CallType,
         calls' = Unsettled(c, call),
         call.op = "put" /\ call.phase = "write" => call.tier # NoTier
  PROVE  /\ calls' \in [Callers -> CallType]
         /\ calls'[c] = call
         /\ \A d \in Callers \ {c} :
              /\ calls[d].op \in {"put", "get"} => calls'[d] = [calls[d] EXCEPT !.calm = FALSE]
              /\ calls[d].op \notin {"put", "get"} => calls'[d] = calls[d]
         /\ \A d \in Callers : calls'[d].op = "put" /\ calls'[d].phase = "write"
                                 => calls'[d].tier # NoTier
<1>1. /\ calls' \in [Callers -> CallType]
      /\ calls'[c] = call
      /\ \A d \in Callers \ {c} :
           /\ calls[d].op \in {"put", "get"} => calls'[d] = [calls[d] EXCEPT !.calm = FALSE]
           /\ calls[d].op \notin {"put", "get"} => calls'[d] = calls[d]
  BY TypedParts, UnsettledTyped
<1>2. ASSUME NEW d \in Callers \ {c}, calls'[d].op = "put", calls'[d].phase = "write"
      PROVE  calls'[d].tier # NoTier
  <2>1. calls[d] \in CallType
    BY TypedParts
  <2>2. CASE calls[d].op \in {"put", "get"}
    <3>1. calls'[d].op = calls[d].op /\ calls'[d].phase = calls[d].phase
          /\ calls'[d].tier = calls[d].tier
      BY <1>1, <2>1, <2>2, CallParts DEF PutCalls, GetCalls
    <3> QED BY <1>2, <3>1, TypedParts
  <2>3. CASE calls[d].op \notin {"put", "get"}
    BY <1>1, <1>2, <2>3
  <2> QED BY <2>2, <2>3
<1> QED BY <1>1, <1>2

(* Installing the parts of a configuration one after the other.            *)
LEMMA InstallTyped ==
  ASSUME Typed, NEW c \in Callers, Install(c)
  PROVE  Typed'
<1>1. ASSUME NEW request \in Requests, InstallBegin(c, request)
      PROVE  Typed'
  <2> DEFINE call == [op |-> "install", phase |-> "build", request |-> request,
                      number |-> origin'.begun, built |-> NoTier]
  <2>1. origin' \in OriginType
    BY <1>1, TypedParts DEF InstallBegin, OriginType
  <2>2. call \in CallType /\ call.op = "install"
    BY <2>1 DEF CallType, InstallCalls, TierType, OriginType
  <2>3. calls' = Goto(c, call)
    BY <1>1 DEF InstallBegin
  <2> HIDE DEF call
  <2>4. /\ calls' \in [Callers -> CallType]
        /\ calls'[c] = call /\ \A d \in Callers \ {c} : calls'[d] = calls[d]
    BY <2>2, <2>3, TypedParts, GotoTyped
  <2>5. \A d \in Callers : calls'[d].op = "put" /\ calls'[d].phase = "write"
                             => calls'[d].tier # NoTier
    BY <2>2, <2>4, TypedParts
  <2>6. overlap' \in BOOLEAN
    BY <1>1, TypedParts DEF InstallBegin
  <2> QED BY <1>1, <2>1, <2>4, <2>5, <2>6, TypedParts, TypedKeeps DEF InstallBegin, config
<1>2. CASE InstallBuilt(c)
  <2>1. calls[c] \in InstallCalls
    BY <1>2, TypedParts, CallParts DEF InstallBuilt, At
  <2>2. PICK built \in {NoTier} \cup {Tier(calls[c].request.ttl)} :
          calls' = Goto(c, [calls[c] EXCEPT !.phase = "configure", !.built = built])
    BY <1>2 DEF InstallBuilt
  <2>3. calls[c].request \in Requests
    BY <2>1 DEF InstallCalls
  <2>4. built \in TierType
    BY <2>3, RequestFacts DEF TierType
  <2> DEFINE call == [calls[c] EXCEPT !.phase = "configure", !.built = built]
  <2>5. call \in CallType /\ call.op = "install"
    BY <2>1, <2>4 DEF InstallCalls, CallType
  <2> HIDE DEF call
  <2> QED BY <1>2, <2>2, <2>5, GotoKeepsTyped DEF InstallBuilt, call
<1>3. CASE InstallRefused(c)
  BY <1>3, GotoKeepsTyped, DefaultsTyped DEF InstallRefused
<1>4. CASE InstallConfigures(c)
  <2> DEFINE call == [calls[c] EXCEPT !.phase = "set_durable"]
  <2>1. calls[c] \in InstallCalls
    BY <1>4, TypedParts, CallParts DEF InstallConfigures, At
  <2>2. call \in CallType /\ call.op = "install" /\ calls[c].request \in Requests
    BY <2>1 DEF InstallCalls, CallType
  <2>3. calls' = Unsettled(c, call)
    BY <1>4 DEF InstallConfigures
  <2> HIDE DEF call
  <2>4. /\ calls' \in [Callers -> CallType]
        /\ \A d \in Callers : calls'[d].op = "put" /\ calls'[d].phase = "write"
                                => calls'[d].tier # NoTier
    BY <2>2, <2>3, UnsettledKeepsWrites
  <2>5. limits' \in LimitsType /\ limits'.max_entries \in Nat /\ limits'.max_bytes \in Nat
    BY <1>4, <2>2, RequestFacts DEF InstallConfigures, LimitsType
  <2>6. /\ inner' \in InnerType(0 .. now)
        /\ AccountedFor(inner') /\ Evictable(inner') /\ WithinCaps(inner', limits')
    BY <1>4, <2>5, TypedParts, TrimsPreserve DEF InstallConfigures
  <2>7. origin' \in OriginType
    BY <1>4, <2>1, TypedParts DEF InstallConfigures, OriginType, InstallCalls
  <2>8. \A d \in Callers : calls'[d].op \in {"idle", "install", "put", "get"}
    BY <2>4, CallParts
  <2>9. TypeOK'
    BY <1>4, <2>6, <2>8 DEF InstallConfigures, Typed, TypeOK
  <2> QED BY <1>4, <2>4, <2>5, <2>7, <2>9 DEF InstallConfigures, Typed
<1>5. CASE InstallBinds(c)
  <2> DEFINE call == [calls[c] EXCEPT !.phase = "options"]
  <2>1. calls[c] \in InstallCalls
    BY <1>5, TypedParts, CallParts DEF InstallBinds, At
  <2>2. call \in CallType /\ call.op = "install" /\ calls[c].built \in TierType
    BY <2>1 DEF InstallCalls, CallType
  <2>3. calls' = Unsettled(c, call)
    BY <1>5 DEF InstallBinds
  <2> HIDE DEF call
  <2>4. /\ calls' \in [Callers -> CallType]
        /\ \A d \in Callers : calls'[d].op = "put" /\ calls'[d].phase = "write"
                                => calls'[d].tier # NoTier
    BY <2>2, <2>3, UnsettledKeepsWrites
  <2>5. origin' \in OriginType
    BY <1>5, <2>1, TypedParts DEF InstallBinds, OriginType, InstallCalls
  <2> QED BY <1>5, <2>2, <2>4, <2>5, TypedParts, TypedKeeps DEF InstallBinds
<1>6. CASE InstallAnswers(c)
  <2>1. calls[c] \in InstallCalls
    BY <1>6, TypedParts, CallParts DEF InstallAnswers, At
  <2>2. calls' = Goto(c, Idle)
    BY <1>6 DEF InstallAnswers
  <2>3. /\ calls' \in [Callers -> CallType]
        /\ calls'[c] = Idle /\ \A d \in Callers \ {c} : calls'[d] = calls[d]
    BY <2>2, TypedParts, GotoTyped, DefaultsTyped
  <2>4. \A d \in Callers : calls'[d].op = "put" /\ calls'[d].phase = "write"
                             => calls'[d].tier # NoTier
    BY <2>3, TypedParts, DefaultsTyped
  <2>5. origin' \in OriginType
    BY <1>6, <2>1, TypedParts DEF InstallAnswers, OriginType, InstallCalls
  <2>6. options' \in [ccr_enabled : BOOLEAN]
    BY <1>6, <2>1, RequestFacts DEF InstallAnswers, InstallCalls
  <2> QED BY <1>6, <2>3, <2>4, <2>5, <2>6, TypedParts, TypedKeeps DEF InstallAnswers
<1> QED BY <1>1, <1>2, <1>3, <1>4, <1>5, <1>6 DEF Install

(* Putting an original into the tiers.                                     *)
LEMMA CompressTyped ==
  ASSUME Typed, NEW c \in Callers, Compress(c)
  PROVE  Typed'
<1>1. ASSUME NEW t \in Tokens, CompressBegin(c, t)
      PROVE  Typed'
  <2> DEFINE call == [op |-> "put", phase |-> "memory", token |-> t, retained |-> FALSE,
                      tier |-> NoTier, seen |-> origin.options, calm |-> TRUE]
  <2>1. call \in CallType /\ call.phase = "memory"
    BY TypedParts DEF CallType, PutCalls, TierType, OriginType
  <2>2. calls' = Goto(c, call)
    BY <1>1 DEF CompressBegin
  <2> HIDE DEF call
  <2> QED BY <1>1, <2>1, <2>2, GotoKeepsTyped DEF CompressBegin
<1>2. CASE PutMemory(c)
  <2>1. calls[c] \in PutCalls
    BY <1>2, TypedParts, CallParts DEF PutMemory, At
  <2>2. calls[c].token \in Tokens
    BY <2>1 DEF PutCalls
  <2>3. PICK r \in Inserts(inner, calls[c].token, limits, now) :
          /\ inner' = r.inner
          /\ calls' = Unsettled(c, [calls[c] EXCEPT !.phase = "handle", !.retained = r.retained])
    BY <1>2 DEF PutMemory
  <2>4. /\ inner' \in InnerType(0 .. now)
        /\ AccountedFor(inner') /\ Evictable(inner') /\ WithinCaps(inner', limits)
        /\ r.retained \in BOOLEAN
    <3>1. limits.max_entries \in Nat \ {0} /\ limits.max_bytes \in Nat \ {0}
      BY TypedParts DEF LimitsType
    <3> QED BY <2>2, <2>3, <3>1, TypedParts, InsertsPreserve
  <2> DEFINE call == [calls[c] EXCEPT !.phase = "handle", !.retained = r.retained]
  <2>5. call \in CallType /\ call.phase = "handle"
    BY <2>1, <2>4 DEF PutCalls, CallType
  <2>6. calls' = Unsettled(c, call)
    BY <2>3
  <2> HIDE DEF call
  <2>7. /\ calls' \in [Callers -> CallType]
        /\ \A d \in Callers : calls'[d].op = "put" /\ calls'[d].phase = "write"
                                => calls'[d].tier # NoTier
    BY <2>5, <2>6, UnsettledKeepsWrites
  <2>8. \A d \in Callers : calls'[d].op \in {"idle", "install", "put", "get"}
    BY <2>7, CallParts
  <2>9. TypeOK'
    BY <1>2, <2>4, <2>8 DEF PutMemory, Typed, TypeOK, config, history, ghosts
  <2> QED BY <1>2, <2>7, <2>9 DEF PutMemory, Typed, config, history, ghosts
<1>3. CASE PutHandle(c)
  <2> DEFINE call == [calls[c] EXCEPT !.phase = IF durable = NoTier THEN "answer" ELSE "write",
                                      !.tier = durable]
  <2>1. calls[c] \in PutCalls
    BY <1>3, TypedParts, CallParts DEF PutHandle, At
  <2>2. /\ call \in CallType
        /\ call.phase = "write" => call.tier # NoTier
    BY <2>1, TypedParts DEF PutCalls, CallType
  <2>3. calls' = Goto(c, call)
    BY <1>3 DEF PutHandle
  <2> HIDE DEF call
  <2> QED BY <1>3, <2>2, <2>3, GotoKeepsTyped DEF PutHandle
<1>4. CASE PutDurable(c)
  <2>1. calls[c] \in PutCalls /\ calls[c].phase = "write" /\ calls[c].op = "put"
    BY <1>4, TypedParts, CallParts DEF PutDurable, At
  <2>2. calls[c].tier \in TierType /\ calls[c].tier # NoTier /\ calls[c].token \in Tokens
    BY <2>1, TypedParts DEF PutCalls
  <2>3. CASE calls[c].tier.ttl = 0
    <3> DEFINE call == [calls[c] EXCEPT !.phase = "answer"]
    <3>1. call \in CallType /\ call.phase = "answer"
      BY <2>1 DEF PutCalls, CallType
    <3>2. calls' = Goto(c, call) /\ UNCHANGED <<serving, inner, config, blobs, now, history>>
      BY <1>4, <2>3 DEF PutDurable, history, ghosts
    <3> HIDE DEF call
    <3> QED BY <3>1, <3>2, GotoKeepsTyped
  <2>4. CASE calls[c].tier.ttl # 0
    <3>1. PICK applied \in BOOLEAN, acknowledged \in BOOLEAN : Written(c, applied, acknowledged)
      BY <1>4, <2>4 DEF PutDurable
    <3> DEFINE expiry == Expiry(calls[c].tier.ttl)
               call == [calls[c] EXCEPT !.phase = "answer", !.retained = @ \/ acknowledged]
    <3>2. expiry \in Nat
      BY <2>2, TypedParts, TierFacts, ExpiryTyped
    <3>3. call \in CallType /\ call.phase = "answer"
      BY <2>1 DEF PutCalls, CallType
    <3>4. calls' = Unsettled(c, call)
      BY <3>1 DEF Written
    <3> HIDE DEF call
    <3>5. /\ calls' \in [Callers -> CallType]
          /\ \A d \in Callers : calls'[d].op = "put" /\ calls'[d].phase = "write"
                                  => calls'[d].tier # NoTier
      BY <3>3, <3>4, UnsettledKeepsWrites
    <3>6. blobs' = blobs \/ blobs' = With(Key(calls[c].token), expiry)
      BY <3>1 DEF Written
    <3>7. DOMAIN blobs' \subseteq Keys /\ blobs' \in [DOMAIN blobs' -> Nat]
      BY <2>2, <3>2, <3>6, TypedParts, KeyFacts DEF With
    <3>8. promised' \in [Tokens -> Nat] /\ shortened' \subseteq Tokens
      BY <2>2, <3>1, <3>2, TypedParts DEF Written, Marked
    <3>9. \A d \in Callers : calls'[d].op \in {"idle", "install", "put", "get"}
      BY <3>5, CallParts
    <3>10. TypeOK'
      BY <1>4, <3>7, <3>8, <3>9 DEF PutDurable, Typed, TypeOK, config, ghosts
    <3> QED BY <1>4, <3>5, <3>7, <3>10 DEF PutDurable, Typed, config, ghosts
  <2> QED BY <2>3, <2>4
<1>5. CASE PutAnswers(c)
  BY <1>5, GotoKeepsTyped, DefaultsTyped DEF PutAnswers
<1> QED BY <1>1, <1>2, <1>3, <1>4, <1>5 DEF Compress

(* Looking for an original in the tiers.                                   *)
LEMMA RetrieveTyped ==
  ASSUME Typed, NEW c \in Callers, Retrieve(c)
  PROVE  Typed'
<1>1. ASSUME NEW t \in Tokens, RetrieveBegin(c, t)
      PROVE  Typed'
  <2> DEFINE call == [op |-> "get", phase |-> "lookup", token |-> t, ttl |-> limits.ttl,
                      tier |-> NoTier, found |-> FALSE, calm |-> Retrievable(t)]
  <2>1. Retrievable(t) \in BOOLEAN
    BY DEF Retrievable
  <2>2. call \in CallType /\ call.op = "get"
    BY <2>1, TypedParts DEF CallType, GetCalls, TierType, LimitsType
  <2>3. calls' = Goto(c, call)
    BY <1>1 DEF RetrieveBegin
  <2> HIDE DEF call
  <2> QED BY <1>1, <2>2, <2>3, GotoKeepsTyped DEF RetrieveBegin
<1>2. CASE GetLookup(c)
  <2> DEFINE t == calls[c].token
             hit == t \in Resident(inner) /\ Fresh(inner.map[t], calls[c].ttl)
             call == [calls[c] EXCEPT !.found = hit,
                                      !.phase = IF hit THEN "answer" ELSE "handle"]
  <2>1. calls[c] \in GetCalls
    BY <1>2, TypedParts, CallParts DEF GetLookup, At
  <2>2. hit \in BOOLEAN
    OBVIOUS
  <2>3. inner' = inner \/ inner' = Dropped(inner, {t})
    BY <1>2 DEF GetLookup
  <2>4. calls' = Goto(c, call) \/ calls' = Unsettled(c, call)
    BY <1>2 DEF GetLookup
  <2> HIDE DEF hit
  <2>5. call \in CallType /\ call.op = "get"
    BY <2>1, <2>2 DEF GetCalls, CallType
  <2> HIDE DEF call
  <2>6. /\ inner' \in InnerType(0 .. now)
        /\ AccountedFor(inner') /\ Evictable(inner') /\ WithinCaps(inner', limits)
    <3> DEFINE d == Dropped(inner, {t})
    <3>1. /\ d \in InnerType(0 .. now) /\ AccountedFor(d)
          /\ Resident(d) = Resident(inner) \ {t}
          /\ d.order = inner.order /\ d.total_bytes <= inner.total_bytes
      BY TypedParts, DroppedPreserves
    <3> HIDE DEF d
    <3>2. Evictable(d)
      BY <3>1, TypedParts DEF Evictable, Queued
    <3>3. WithinCaps(d, limits)
      <4>1. /\ d.total_bytes \in Nat /\ inner.total_bytes \in Nat
            /\ limits.max_bytes \in Nat
        BY <3>1, TypedParts, InnerTypeParts DEF LimitsType
      <4> QED BY <3>1, <4>1, TypedParts DEF WithinCaps, OverCaps
    <3> QED BY <2>3, <3>1, <3>2, <3>3, TypedParts DEF d
  <2>7. /\ calls' \in [Callers -> CallType]
        /\ \A d \in Callers : calls'[d].op = "put" /\ calls'[d].phase = "write"
                                => calls'[d].tier # NoTier
    <3>1. CASE calls' = Goto(c, call)
      <4>1. /\ calls' \in [Callers -> CallType]
            /\ calls'[c] = call /\ \A d \in Callers \ {c} : calls'[d] = calls[d]
        BY <2>5, <3>1, TypedParts, GotoTyped
      <4> QED BY <2>5, <4>1, TypedParts
    <3>2. CASE calls' = Unsettled(c, call)
      BY <2>5, <3>2, UnsettledKeepsWrites
    <3> QED BY <2>4, <3>1, <3>2
  <2>8. \A d \in Callers : calls'[d].op \in {"idle", "install", "put", "get"}
    BY <2>7, CallParts
  <2>9. TypeOK'
    BY <1>2, <2>6, <2>8 DEF GetLookup, Typed, TypeOK, config, history, ghosts
  <2> QED BY <1>2, <2>7, <2>9 DEF GetLookup, Typed, config, history, ghosts
<1>3. CASE GetHandle(c)
  <2> DEFINE call == [calls[c] EXCEPT !.phase = IF durable = NoTier THEN "answer" ELSE "read",
                                      !.tier = durable]
  <2>1. calls[c] \in GetCalls
    BY <1>3, TypedParts, CallParts DEF GetHandle, At
  <2>2. call \in CallType /\ call.op = "get"
    BY <2>1, TypedParts DEF GetCalls, CallType
  <2>3. calls' = Goto(c, call)
    BY <1>3 DEF GetHandle
  <2> HIDE DEF call
  <2> QED BY <1>3, <2>2, <2>3, GotoKeepsTyped DEF GetHandle
<1>4. CASE GetDurable(c)
  <2>1. calls[c] \in GetCalls
    BY <1>4, TypedParts, CallParts DEF GetDurable, At
  <2>2. PICK failed \in BOOLEAN :
          calls' = Goto(c, [calls[c] EXCEPT !.phase = "answer", !.calm = @ /\ ~failed,
                              !.found = Live(Key(calls[c].token)) /\ ~failed])
    BY <1>4 DEF GetDurable
  <2> DEFINE read == Live(Key(calls[c].token)) /\ ~failed
             call == [calls[c] EXCEPT !.phase = "answer", !.calm = @ /\ ~failed, !.found = read]
  <2>3. read \in BOOLEAN /\ (calls[c].calm /\ ~failed) \in BOOLEAN
    OBVIOUS
  <2> HIDE DEF read
  <2>4. call \in CallType /\ call.op = "get"
    BY <2>1, <2>3 DEF GetCalls, CallType
  <2>5. calls' = Goto(c, call)
    BY <2>2 DEF read
  <2> HIDE DEF call
  <2> QED BY <1>4, <2>4, <2>5, GotoKeepsTyped DEF GetDurable
<1>5. CASE GetAnswers(c)
  BY <1>5, GotoKeepsTyped, DefaultsTyped DEF GetAnswers
<1> QED BY <1>1, <1>2, <1>3, <1>4, <1>5 DEF Retrieve

LEMMA TickCalls ==
  ASSUME Typed, Tick
  PROVE  /\ calls' \in [Callers -> CallType]
         /\ \A d \in Callers :
              /\ calls[d].op \in {"put", "get"} => calls'[d] = [calls[d] EXCEPT !.calm = FALSE]
              /\ calls[d].op \notin {"put", "get"} => calls'[d] = calls[d]
<1>1. \A d \in Callers : calls[d] \in CallType
  BY TypedParts
<1>2. \A d \in Callers : calls[d].op \in {"put", "get"} =>
        [calls[d] EXCEPT !.calm = FALSE] \in CallType
  BY <1>1, CalmParts
<1>3. calls' = [c \in Callers |-> IF calls[c].op \in {"put", "get"}
                                  THEN [calls[c] EXCEPT !.calm = FALSE] ELSE calls[c]]
  BY DEF Tick
<1> QED BY <1>1, <1>2, <1>3

LEMMA TickTyped ==
  ASSUME Typed, Tick
  PROVE  Typed'
<1>1. /\ now' = now + 1 /\ now < MaxTime
      /\ UNCHANGED <<serving, inner, config, blobs, history>>
  BY DEF Tick
<1>2. MaxTime \in Nat /\ now' \in 0 .. MaxTime /\ 0 .. now \subseteq 0 .. now'
  BY <1>1, TypedParts, BoundsAssumption
<1>3. inner' \in InnerType(0 .. now')
  BY <1>1, <1>2, TypedParts, InnerTypeGrows
<1>4. \A d \in Callers : calls'[d].op \in {"idle", "install", "put", "get"}
  BY TickCalls, CallParts
<1>5. ASSUME NEW d \in Callers, calls'[d].op = "put", calls'[d].phase = "write"
      PROVE  calls'[d].tier # NoTier
  <2>1. CASE calls[d].op \in {"put", "get"}
    <3>1. calls'[d].op = calls[d].op /\ calls'[d].phase = calls[d].phase
          /\ calls'[d].tier = calls[d].tier
      BY <2>1, TickCalls, TypedParts, CallParts DEF PutCalls, GetCalls
    <3> QED BY <1>5, <3>1, TypedParts
  <2>2. CASE calls[d].op \notin {"put", "get"}
    BY <1>5, <2>2, TickCalls
  <2> QED BY <2>1, <2>2
<1>6. TypeOK'
  BY <1>1, <1>2, <1>3, <1>4 DEF Typed, TypeOK, config, history, ghosts
<1> QED BY <1>1, <1>5, <1>6, TickCalls DEF Typed, config, history, ghosts

(* A migrated blob keeps its expiry under the key of its original.         *)
LEMMA MigrateMoves ==
  ASSUME Typed, NEW request \in MigrationRequests, Migrate(request)
  PROVE  \E t \in Tokens :
           /\ LegacyKey(t) \in DOMAIN blobs
           /\ blobs' = [k \in (DOMAIN blobs \ {LegacyKey(t)}) \cup {Key(t)} |->
                          blobs[IF k = Key(t) THEN LegacyKey(t) ELSE k]]
           /\ shortened' = Marked(t, blobs[LegacyKey(t)], promised[t])
<1>1. PICK target \in blob_target(request) :
        /\ blobs' = [k \in (DOMAIN blobs \ {request.source}) \cup {target} |->
                       blobs[IF k = target THEN request.source ELSE k]]
        /\ shortened' = Marked(target[2], blobs[request.source], promised[target[2]])
  BY DEF Migrate
<1>2. PICK t \in Tokens : request.source = LegacyKey(t) /\ target = Key(t)
  <2>1. target \in move_ccr_blob(request.source)
    BY <1>1 DEF blob_target
  <2> QED BY <2>1 DEF move_ccr_blob
<1>3. request.source \in DOMAIN blobs
  BY DEF Migrate
<1>4. target[2] = t
  BY <1>2 DEF Key
<1> QED BY <1>1, <1>2, <1>3, <1>4

LEMMA MigrateTyped ==
  ASSUME Typed, NEW request \in MigrationRequests, Migrate(request)
  PROVE  Typed'
<1>1. PICK t \in Tokens :
        /\ LegacyKey(t) \in DOMAIN blobs
        /\ blobs' = [k \in (DOMAIN blobs \ {LegacyKey(t)}) \cup {Key(t)} |->
                       blobs[IF k = Key(t) THEN LegacyKey(t) ELSE k]]
        /\ shortened' = Marked(t, blobs[LegacyKey(t)], promised[t])
  BY MigrateMoves
<1>2. /\ DOMAIN blobs' \subseteq Keys /\ blobs' \in [DOMAIN blobs' -> Nat]
      /\ shortened' \subseteq Tokens
  BY <1>1, TypedParts, KeyFacts DEF Marked
<1>3. UNCHANGED <<serving, inner, config, calls, now, origin, overlap, promised>>
  BY DEF Migrate, ghosts
<1>4. TypeOK'
  BY <1>2, <1>3 DEF Typed, TypeOK, config, history, ghosts
<1> QED BY <1>2, <1>3, <1>4 DEF Typed, config, history, ghosts

LEMMA RestartTyped ==
  ASSUME Typed, Restart
  PROVE  Typed'
<1>1. /\ serving' = FALSE /\ overlap' = FALSE /\ inner' = EmptyInner
      /\ limits' = DefaultLimits /\ durable' = NoTier /\ options' = DefaultOptions
      /\ calls' = NoRequests /\ origin' = NoOrigin
      /\ UNCHANGED <<blobs, now, promised, shortened>>
  BY DEF Restart
<1>2. /\ inner' \in InnerType(0 .. now')
      /\ AccountedFor(inner') /\ Evictable(inner') /\ WithinCaps(inner', limits')
  BY <1>1, EmptyInnerFacts, DefaultsTyped DEF LimitsType
<1>3. \A c \in Callers : calls'[c].op = "idle"
  BY <1>1, DefaultsTyped
<1>4. TypeOK'
  <2>1. serving' \in BOOLEAN /\ overlap' \in BOOLEAN
    BY <1>1
  <2>2. durable' = NoTier /\ options' \in [ccr_enabled : BOOLEAN]
    BY <1>1, DefaultsTyped
  <2> QED BY <1>1, <1>2, <1>3, <2>1, <2>2 DEF Typed, TypeOK
<1> QED BY <1>1, <1>3, <1>4, DefaultsTyped DEF Typed

LEMMA NextTyped == Typed /\ [Next]_vars => Typed'
<1> SUFFICES ASSUME Typed, [Next]_vars PROVE Typed'
  OBVIOUS
<1>1. ASSUME NEW request \in MigrationRequests, Migrate(request) PROVE Typed'
  BY <1>1, MigrateTyped
<1>2. CASE Serve
  <2>1. UNCHANGED <<inner, config, blobs, calls, now, history>> /\ serving' = TRUE
    BY <1>2 DEF Serve
  <2> QED BY <2>1, TypedParts, TypedKeeps DEF config, history, ghosts
<1>3. CASE Restart
  BY <1>3, RestartTyped
<1>4. ASSUME NEW c \in Callers, Install(c) \/ Compress(c) \/ Retrieve(c) PROVE Typed'
  BY <1>4, InstallTyped, CompressTyped, RetrieveTyped
<1>5. CASE Tick
  BY <1>5, TickTyped
<1>6. CASE UNCHANGED vars
  <2>1. UNCHANGED <<serving, inner, config, blobs, calls, now, history>>
    BY <1>6 DEF vars
  <2> QED BY <2>1, TypedParts, TypedKeeps DEF config, history, ghosts
<1> QED BY <1>1, <1>2, <1>3, <1>4, <1>5, <1>6 DEF Next

(* The types, the exact byte total of the memory tier and the caps of the  *)
(* last install, for every value of the constants.                         *)
THEOREM TypesHold == Spec => []TypeOK
<1>1. Spec => []Typed
  BY InitTyped, NextTyped, PTL DEF Spec
<1>2. Typed => TypeOK
  BY DEF Typed
<1> QED BY <1>1, <1>2, PTL

-----------------------------------------------------------------------------
(***************************************************************************)
(* An install is whole.  The install in progress is the last one begun; it *)
(* replaces the caps, then the tier, then the options, so the three are    *)
(* never further than one install apart, and in this order.                *)
(***************************************************************************)
Progress(c) ==
  /\ calls[c].number = origin.begun
  /\ calls[c].phase \in {"build", "configure"} =>
       origin.caps = origin.options /\ origin.durable = origin.options
  /\ calls[c].phase = "set_durable" =>
       origin.caps = origin.begun /\ origin.durable = origin.options
  /\ calls[c].phase = "options" =>
       origin.caps = origin.begun /\ origin.durable = origin.begun

WholeInv ==
  ~overlap =>
    /\ origin.answered = origin.options
    /\ origin.options <= origin.durable /\ origin.durable <= origin.caps
    /\ origin.caps <= origin.begun
    /\ (\A c \in Callers : calls[c].op # "install") =>
         origin.caps = origin.options /\ origin.durable = origin.options
    /\ \A c \in Callers : calls[c].op = "install" =>
         Progress(c) /\ \A d \in Callers : calls[d].op = "install" => c = d
    /\ \A c \in Callers : calls[c].op = "put" => calls[c].seen <= origin.options

(* A step that neither installs nor asks for more than the options now.    *)
LEMMA WholeKeeps ==
  ASSUME Typed, Typed', WholeInv,
         UNCHANGED <<origin, overlap>>,
         \A d \in Callers : calls[d].op = "install" \/ calls'[d].op = "install"
                              => calls'[d] = calls[d],
         \A d \in Callers : calls'[d].op = "put" =>
           \/ calls'[d].seen = origin.options
           \/ calls[d].op = "put" /\ calls'[d].seen = calls[d].seen
  PROVE  WholeInv'
<1> SUFFICES ASSUME ~overlap PROVE WholeInv'
  BY DEF WholeInv
<1>1. origin \in OriginType
  BY TypedParts
<1>2. \A d \in Callers : calls'[d].op = "install" <=> calls[d].op = "install"
  OBVIOUS
<1>3. \A d \in Callers : calls'[d].op = "put" => calls'[d].seen <= origin.options
  BY <1>1 DEF WholeInv, OriginType
<1> QED BY <1>2, <1>3 DEF WholeInv, Progress

LEMMA GotoWhole ==
  ASSUME Typed, NEW c \in Callers, NEW call \in CallType, calls' = Goto(c, call), WholeInv,
         UNCHANGED <<serving, inner, config, blobs, now, history>>, Typed',
         calls[c].op # "install", call.op # "install",
         call.op = "put" => \/ call.seen = origin.options
                            \/ calls[c].op = "put" /\ call.seen = calls[c].seen
  PROVE  WholeInv'
<1>1. calls'[c] = call /\ \A d \in Callers \ {c} : calls'[d] = calls[d]
  BY TypedParts, GotoTyped
<1>2. UNCHANGED <<origin, overlap>>
  BY DEF history, ghosts
<1> QED BY <1>1, <1>2, WholeKeeps

LEMMA CalmKeepsSeen ==
  ASSUME Typed, NEW d \in Callers, calls[d].op \in {"put", "get"},
         calls'[d] = [calls[d] EXCEPT !.calm = FALSE]
  PROVE  /\ calls'[d].op = calls[d].op
         /\ calls[d].op = "put" => calls'[d].seen = calls[d].seen
<1>1. CASE calls[d].op = "put"
  BY <1>1, TypedParts, CallParts DEF PutCalls
<1>2. CASE calls[d].op = "get"
  BY <1>2, TypedParts, CallParts DEF GetCalls
<1> QED BY <1>1, <1>2

LEMMA UnsettledWhole ==
  ASSUME Typed, NEW c \in Callers, NEW call \in CallType, calls' = Unsettled(c, call), WholeInv,
         UNCHANGED <<origin, overlap>>, Typed',
         calls[c].op # "install", call.op # "install",
         call.op = "put" => calls[c].op = "put" /\ call.seen = calls[c].seen
  PROVE  WholeInv'
<1>1. /\ calls'[c] = call
      /\ \A d \in Callers \ {c} :
           /\ calls[d].op \in {"put", "get"} => calls'[d] = [calls[d] EXCEPT !.calm = FALSE]
           /\ calls[d].op \notin {"put", "get"} => calls'[d] = calls[d]
  BY TypedParts, UnsettledTyped
<1>2. \A d \in Callers \ {c} : calls[d].op \in {"put", "get"} =>
        /\ calls'[d].op = calls[d].op
        /\ calls[d].op = "put" => calls'[d].seen = calls[d].seen
  BY <1>1, CalmKeepsSeen
<1>3. \A d \in Callers : calls[d].op = "install" \/ calls'[d].op = "install"
                           => calls'[d] = calls[d]
  BY <1>1, <1>2
<1>4. \A d \in Callers : calls'[d].op = "put" =>
        calls[d].op = "put" /\ calls'[d].seen = calls[d].seen
  BY <1>1, <1>2
<1> QED BY <1>3, <1>4, WholeKeeps

LEMMA CompressWhole ==
  ASSUME Typed, Typed', WholeInv, NEW c \in Callers, Compress(c)
  PROVE  WholeInv'
<1>1. ASSUME NEW t \in Tokens, CompressBegin(c, t)
      PROVE  WholeInv'
  <2> DEFINE call == [op |-> "put", phase |-> "memory", token |-> t, retained |-> FALSE,
                      tier |-> NoTier, seen |-> origin.options, calm |-> TRUE]
  <2>1. call \in CallType /\ call.op = "put" /\ call.seen = origin.options
    BY TypedParts DEF CallType, PutCalls, TierType, OriginType
  <2>2. calls' = Goto(c, call) /\ calls[c].op = "idle"
    BY <1>1, DefaultsTyped DEF CompressBegin
  <2> HIDE DEF call
  <2> QED BY <1>1, <2>1, <2>2, GotoWhole DEF CompressBegin
<1>2. ASSUME NEW call, PutMemory(c) \/ PutDurable(c) \/ PutHandle(c), calls[c] \in PutCalls,
             call \in PutCalls, call.seen = calls[c].seen,
             \/ calls' = Unsettled(c, call)
             \/ calls' = Goto(c, call) /\ UNCHANGED <<inner, blobs, promised, shortened>>
      PROVE  WholeInv'
  <2>1. UNCHANGED <<serving, config, now, origin, overlap>>
    BY <1>2 DEF PutMemory, PutDurable, PutHandle, history, ghosts
  <2>2. call \in CallType /\ call.op = "put" /\ calls[c].op = "put"
    BY <1>2 DEF CallType, PutCalls
  <2>3. CASE calls' = Unsettled(c, call)
    BY <1>2, <2>1, <2>2, <2>3, UnsettledWhole
  <2>4. CASE calls' = Goto(c, call) /\ UNCHANGED <<inner, blobs, promised, shortened>>
    BY <1>2, <2>1, <2>2, <2>4, GotoWhole DEF history, ghosts
  <2> QED BY <1>2, <2>3, <2>4
<1>3. CASE PutMemory(c)
  <2>1. calls[c] \in PutCalls /\ calls[c].token \in Tokens
    BY <1>3, TypedParts, CallParts DEF PutMemory, At, PutCalls
  <2>2. PICK r \in Inserts(inner, calls[c].token, limits, now) :
          calls' = Unsettled(c, [calls[c] EXCEPT !.phase = "handle", !.retained = r.retained])
    BY <1>3 DEF PutMemory
  <2>3. r.retained \in BOOLEAN
    <3>1. limits.max_entries \in Nat \ {0} /\ limits.max_bytes \in Nat \ {0}
      BY TypedParts DEF LimitsType
    <3> QED BY <2>1, <3>1, TypedParts, InsertsPreserve
  <2> DEFINE call == [calls[c] EXCEPT !.phase = "handle", !.retained = r.retained]
  <2>4. call \in PutCalls /\ call.seen = calls[c].seen
    BY <2>1, <2>3 DEF PutCalls
  <2>5. calls' = Unsettled(c, call)
    BY <2>2
  <2> HIDE DEF call
  <2> QED BY <1>2, <1>3, <2>1, <2>4, <2>5
<1>4. CASE PutHandle(c)
  <2> DEFINE call == [calls[c] EXCEPT !.phase = IF durable = NoTier THEN "answer" ELSE "write",
                                      !.tier = durable]
  <2>1. calls[c] \in PutCalls
    BY <1>4, TypedParts, CallParts DEF PutHandle, At
  <2>2. call \in PutCalls /\ call.seen = calls[c].seen
    BY <2>1, TypedParts DEF PutCalls
  <2>3. calls' = Goto(c, call) /\ UNCHANGED <<inner, blobs, promised, shortened>>
    BY <1>4 DEF PutHandle, history, ghosts
  <2> HIDE DEF call
  <2> QED BY <1>2, <1>4, <2>1, <2>2, <2>3
<1>5. CASE PutDurable(c)
  <2>1. calls[c] \in PutCalls
    BY <1>5, TypedParts, CallParts DEF PutDurable, At
  <2>2. CASE calls[c].tier.ttl = 0
    <3> DEFINE call == [calls[c] EXCEPT !.phase = "answer"]
    <3>1. call \in PutCalls /\ call.seen = calls[c].seen
      BY <2>1 DEF PutCalls
    <3>2. calls' = Goto(c, call) /\ UNCHANGED <<inner, blobs, promised, shortened>>
      BY <1>5, <2>2 DEF PutDurable
    <3> HIDE DEF call
    <3> QED BY <1>2, <1>5, <2>1, <3>1, <3>2
  <2>3. CASE calls[c].tier.ttl # 0
    <3>1. PICK acknowledged \in BOOLEAN :
            calls' = Unsettled(c, [calls[c] EXCEPT !.phase = "answer",
                                                   !.retained = @ \/ acknowledged])
      BY <1>5, <2>3 DEF PutDurable, Written
    <3> DEFINE call == [calls[c] EXCEPT !.phase = "answer", !.retained = @ \/ acknowledged]
    <3>2. call \in PutCalls /\ call.seen = calls[c].seen
      BY <2>1 DEF PutCalls
    <3>3. calls' = Unsettled(c, call)
      BY <3>1
    <3> HIDE DEF call
    <3> QED BY <1>2, <1>5, <2>1, <3>2, <3>3
  <2> QED BY <2>2, <2>3
<1>6. CASE PutAnswers(c)
  BY <1>6, GotoWhole, DefaultsTyped DEF PutAnswers, At
<1> QED BY <1>1, <1>3, <1>4, <1>5, <1>6 DEF Compress

LEMMA RetrieveWhole ==
  ASSUME Typed, Typed', WholeInv, NEW c \in Callers, Retrieve(c)
  PROVE  WholeInv'
<1>1. /\ UNCHANGED <<origin, overlap>> /\ c \in Callers
      /\ \A d \in Callers \ {c} :
           \/ calls'[d] = calls[d]
           \/ calls[d].op \in {"put", "get"} /\ calls'[d] = [calls[d] EXCEPT !.calm = FALSE]
      /\ calls[c].op \in {"idle", "get"} /\ calls'[c].op \in {"idle", "get"}
  <2>1. ASSUME NEW t \in Tokens, RetrieveBegin(c, t)
        PROVE  <1>1!:
    <3> DEFINE call == [op |-> "get", phase |-> "lookup", token |-> t, ttl |-> limits.ttl,
                        tier |-> NoTier, found |-> FALSE, calm |-> Retrievable(t)]
    <3>1. calls' = Goto(c, call) /\ calls[c].op = "idle" /\ call.op = "get"
      BY <2>1, DefaultsTyped DEF RetrieveBegin
    <3> HIDE DEF call
    <3> QED BY <2>1, <3>1, TypedParts DEF Goto, RetrieveBegin, history, ghosts
  <2>2. CASE GetLookup(c)
    <3>1. PICK call : /\ calls' = Goto(c, call) \/ calls' = Unsettled(c, call)
                      /\ call.op = "get" /\ calls[c].op = "get"
      <4> DEFINE t == calls[c].token
                 hit == t \in Resident(inner) /\ Fresh(inner.map[t], calls[c].ttl)
                 call == [calls[c] EXCEPT !.found = hit,
                                          !.phase = IF hit THEN "answer" ELSE "handle"]
      <4>1. calls[c] \in GetCalls
        BY <2>2, TypedParts, CallParts DEF GetLookup, At
      <4>2. calls' = Goto(c, call) \/ calls' = Unsettled(c, call)
        BY <2>2 DEF GetLookup
      <4> HIDE DEF hit
      <4>3. call.op = "get" /\ calls[c].op = "get"
        BY <4>1 DEF GetCalls
      <4> HIDE DEF call
      <4> QED BY <4>2, <4>3
    <3> QED BY <2>2, <3>1, TypedParts DEF Goto, Unsettled, GetLookup, history, ghosts
  <2>3. CASE GetHandle(c)
    <3>1. calls[c] \in GetCalls
      BY <2>3, TypedParts, CallParts DEF GetHandle, At
    <3> QED BY <2>3, <3>1, TypedParts DEF GetCalls, Goto, GetHandle, history, ghosts
  <2>4. CASE GetDurable(c)
    <3>1. calls[c] \in GetCalls
      BY <2>4, TypedParts, CallParts DEF GetDurable, At
    <3>2. PICK failed \in BOOLEAN :
            calls' = Goto(c, [calls[c] EXCEPT !.phase = "answer", !.calm = @ /\ ~failed,
                                !.found = Live(Key(calls[c].token)) /\ ~failed])
      BY <2>4 DEF GetDurable
    <3> QED BY <2>4, <3>1, <3>2, TypedParts DEF GetCalls, Goto, GetDurable, history, ghosts
  <2>5. CASE GetAnswers(c)
    BY <2>5, TypedParts, DefaultsTyped DEF GetAnswers, At, Goto, history, ghosts
  <2> QED BY <2>1, <2>2, <2>3, <2>4, <2>5 DEF Retrieve
<1>2. \A d \in Callers \ {c} : calls[d].op \in {"put", "get"} =>
        /\ calls'[d].op = calls[d].op
        /\ calls[d].op = "put" => calls'[d].seen = calls[d].seen
  BY <1>1, CalmKeepsSeen
<1>3. \A d \in Callers : calls[d].op = "install" \/ calls'[d].op = "install"
                           => calls'[d] = calls[d]
  BY <1>1, <1>2
<1>4. \A d \in Callers : calls'[d].op = "put" =>
        calls[d].op = "put" /\ calls'[d].seen = calls[d].seen
  BY <1>1, <1>2
<1> QED BY <1>1, <1>3, <1>4, WholeKeeps

LEMMA InstallWhole ==
  ASSUME Typed, Typed', WholeInv, NEW c \in Callers, Install(c)
  PROVE  WholeInv'
<1> SUFFICES ASSUME ~overlap' PROVE WholeInv'
  BY DEF WholeInv
<1>1. ~overlap /\ origin \in OriginType /\ origin' \in OriginType
  <2>1. origin \in OriginType /\ origin' \in OriginType
    BY DEF Typed
  <2>2. ~overlap
    BY DEF Install, InstallBegin, InstallBuilt, InstallRefused, InstallConfigures,
           InstallBinds, InstallAnswers, history, ghosts
  <2> QED BY <2>1, <2>2
<1>2. \A d \in Callers : calls[d] \in CallType
  BY TypedParts
<1>3. ASSUME NEW request \in Requests, InstallBegin(c, request)
      PROVE  WholeInv'
  <2> DEFINE call == [op |-> "install", phase |-> "build", request |-> request,
                      number |-> origin'.begun, built |-> NoTier]
  <2>1. calls' = Goto(c, call) /\ origin' = [origin EXCEPT !.begun = @ + 1]
    BY <1>3 DEF InstallBegin
  <2>2. \A d \in Callers : calls[d].op # "install"
    BY <1>3 DEF InstallBegin, Installing
  <2>3. call.op = "install" /\ call.phase = "build" /\ call.number = origin'.begun
    OBVIOUS
  <2> HIDE DEF call
  <2>4. calls'[c] = call /\ \A d \in Callers \ {c} : calls'[d] = calls[d]
    BY <2>1, TypedParts DEF Goto
  <2>5. /\ origin'.answered = origin.answered /\ origin'.options = origin.options
        /\ origin'.durable = origin.durable /\ origin'.caps = origin.caps
        /\ origin'.begun = origin.begun + 1
    BY <2>1, <1>1 DEF OriginType
  <2>6. Progress(c)'
    BY <1>1, <2>2, <2>3, <2>4, <2>5 DEF Progress, WholeInv
  <2>7. origin'.caps <= origin'.begun
    BY <1>1, <2>5 DEF WholeInv, OriginType
  <2> QED BY <1>1, <2>2, <2>3, <2>4, <2>5, <2>6, <2>7 DEF WholeInv
<1>4. ASSUME calls[c].op = "install"
      PROVE  /\ Progress(c) /\ origin.answered = origin.options
             /\ \A d \in Callers \ {c} : calls[d].op # "install"
             /\ \A d \in Callers : calls[d].op = "put" => calls[d].seen <= origin.options
  BY <1>1, <1>4 DEF WholeInv
<1>5. ASSUME NEW call, calls[c].op = "install",
             calls'[c] = call,
             \A d \in Callers \ {c} :
               \/ calls'[d] = calls[d]
               \/ calls[d].op \in {"put", "get"} /\ calls'[d] = [calls[d] EXCEPT !.calm = FALSE]
      PROVE  /\ \A d \in Callers \ {c} : calls'[d].op # "install"
             /\ call.op # "put" =>
                  \A d \in Callers : calls'[d].op = "put" => calls'[d].seen <= origin.options
  <2>1. \A d \in Callers \ {c} : calls[d].op \in {"put", "get"} /\ calls'[d] # calls[d] =>
          /\ calls'[d].op = calls[d].op
          /\ calls[d].op = "put" => calls'[d].seen = calls[d].seen
    BY <1>5, CalmKeepsSeen
  <2> QED BY <1>4, <1>5, <2>1
<1>6. CASE InstallBuilt(c)
  <2>1. calls[c] \in InstallCalls /\ calls[c].op = "install" /\ calls[c].phase = "build"
    BY <1>6, TypedParts, CallParts DEF InstallBuilt, At
  <2>2. PICK built \in {NoTier} \cup {Tier(calls[c].request.ttl)} :
          calls' = Goto(c, [calls[c] EXCEPT !.phase = "configure", !.built = built])
    BY <1>6 DEF InstallBuilt
  <2>3. /\ calls'[c] = [calls[c] EXCEPT !.phase = "configure", !.built = built]
        /\ \A d \in Callers \ {c} : calls'[d] = calls[d]
    BY <2>2, TypedParts DEF Goto
  <2>4. /\ calls'[c].op = "install" /\ calls'[c].phase = "configure"
        /\ calls'[c].number = calls[c].number
    BY <2>1, <2>3 DEF InstallCalls
  <2>5. origin' = origin
    BY <1>6 DEF InstallBuilt, history, ghosts
  <2>6. Progress(c)'
    BY <1>4, <2>1, <2>4, <2>5 DEF Progress
  <2>7. /\ \A d \in Callers \ {c} : calls'[d].op # "install"
        /\ \A d \in Callers : calls'[d].op = "put" => calls'[d].seen <= origin.options
    BY <1>5, <2>1, <2>3, <2>4
  <2> QED BY <1>1, <2>4, <2>5, <2>6, <2>7 DEF WholeInv
<1>7. CASE InstallRefused(c)
  <2>1. calls[c].op = "install" /\ calls[c].phase = "build"
    BY <1>7 DEF InstallRefused, At
  <2>2. /\ calls'[c] = Idle /\ \A d \in Callers \ {c} : calls'[d] = calls[d]
        /\ origin' = origin
    BY <1>7, TypedParts DEF InstallRefused, Goto, history, ghosts
  <2>3. /\ \A d \in Callers : calls'[d].op # "install"
        /\ \A d \in Callers : calls'[d].op = "put" => calls'[d].seen <= origin.options
    BY <1>5, <2>1, <2>2, DefaultsTyped
  <2>4. origin.caps = origin.options /\ origin.durable = origin.options
    BY <1>4, <2>1 DEF Progress
  <2> QED BY <1>1, <2>2, <2>3, <2>4 DEF WholeInv
<1>8. CASE InstallConfigures(c)
  <2> DEFINE call == [calls[c] EXCEPT !.phase = "set_durable"]
  <2>1. calls[c] \in InstallCalls /\ calls[c].op = "install" /\ calls[c].phase = "configure"
    BY <1>8, TypedParts, CallParts DEF InstallConfigures, At
  <2>2. /\ call \in CallType /\ call.op = "install" /\ call.phase = "set_durable"
        /\ call.number = calls[c].number
    BY <2>1 DEF InstallCalls, CallType
  <2>3. calls' = Unsettled(c, call) /\ origin' = [origin EXCEPT !.caps = calls[c].number]
    BY <1>8 DEF InstallConfigures
  <2> HIDE DEF call
  <2>4. /\ calls'[c] = call
        /\ \A d \in Callers \ {c} :
             \/ calls'[d] = calls[d]
             \/ calls[d].op \in {"put", "get"} /\ calls'[d] = [calls[d] EXCEPT !.calm = FALSE]
    BY <2>2, <2>3, TypedParts, UnsettledTyped
  <2>5. /\ origin'.answered = origin.answered /\ origin'.options = origin.options
        /\ origin'.durable = origin.durable /\ origin'.caps = origin.begun
        /\ origin'.begun = origin.begun
    BY <1>1, <1>4, <2>1, <2>3 DEF OriginType, Progress
  <2>6. Progress(c)'
    BY <1>4, <2>1, <2>2, <2>4, <2>5 DEF Progress
  <2>7. /\ \A d \in Callers \ {c} : calls'[d].op # "install"
        /\ \A d \in Callers : calls'[d].op = "put" => calls'[d].seen <= origin.options
    BY <1>5, <2>1, <2>2, <2>4
  <2>8. origin'.durable <= origin'.caps /\ origin'.options <= origin'.durable
        /\ origin'.caps <= origin'.begun
    BY <1>1, <1>4, <2>1, <2>5 DEF WholeInv, OriginType
  <2> QED BY <1>1, <1>4, <2>1, <2>2, <2>4, <2>5, <2>6, <2>7, <2>8 DEF WholeInv
<1>9. CASE InstallBinds(c)
  <2> DEFINE call == [calls[c] EXCEPT !.phase = "options"]
  <2>1. calls[c] \in InstallCalls /\ calls[c].op = "install" /\ calls[c].phase = "set_durable"
    BY <1>9, TypedParts, CallParts DEF InstallBinds, At
  <2>2. /\ call \in CallType /\ call.op = "install" /\ call.phase = "options"
        /\ call.number = calls[c].number
    BY <2>1 DEF InstallCalls, CallType
  <2>3. calls' = Unsettled(c, call) /\ origin' = [origin EXCEPT !.durable = calls[c].number]
    BY <1>9 DEF InstallBinds
  <2> HIDE DEF call
  <2>4. /\ calls'[c] = call
        /\ \A d \in Callers \ {c} :
             \/ calls'[d] = calls[d]
             \/ calls[d].op \in {"put", "get"} /\ calls'[d] = [calls[d] EXCEPT !.calm = FALSE]
    BY <2>2, <2>3, TypedParts, UnsettledTyped
  <2>5. /\ origin'.answered = origin.answered /\ origin'.options = origin.options
        /\ origin'.durable = origin.begun /\ origin'.caps = origin.begun
        /\ origin'.begun = origin.begun
    BY <1>1, <1>4, <2>1, <2>3 DEF OriginType, Progress
  <2>6. Progress(c)'
    BY <1>4, <2>1, <2>2, <2>4, <2>5 DEF Progress
  <2>7. /\ \A d \in Callers \ {c} : calls'[d].op # "install"
        /\ \A d \in Callers : calls'[d].op = "put" => calls'[d].seen <= origin.options
    BY <1>5, <2>1, <2>2, <2>4
  <2>8. origin'.durable <= origin'.caps /\ origin'.options <= origin'.durable
        /\ origin'.caps <= origin'.begun
    BY <1>1, <1>4, <2>1, <2>5 DEF WholeInv, OriginType
  <2> QED BY <1>1, <1>4, <2>1, <2>2, <2>4, <2>5, <2>6, <2>7, <2>8 DEF WholeInv
<1>10. CASE InstallAnswers(c)
  <2>1. calls[c].op = "install" /\ calls[c].phase = "options"
    BY <1>10 DEF InstallAnswers, At
  <2>2. /\ calls'[c] = Idle /\ \A d \in Callers \ {c} : calls'[d] = calls[d]
        /\ origin' = [origin EXCEPT !.options = calls[c].number, !.answered = calls[c].number]
    BY <1>10, TypedParts DEF InstallAnswers, Goto
  <2>3. /\ \A d \in Callers : calls'[d].op # "install"
        /\ \A d \in Callers : calls'[d].op = "put" => calls'[d].seen <= origin.options
    BY <1>5, <2>1, <2>2, DefaultsTyped
  <2>4. /\ origin'.answered = origin.begun /\ origin'.options = origin.begun
        /\ origin'.durable = origin.begun /\ origin'.caps = origin.begun
        /\ origin'.begun = origin.begun
    BY <1>1, <1>4, <2>1, <2>2 DEF OriginType, Progress
  <2>5. origin.options <= origin.begun /\ origin.begun \in Nat /\ origin.options \in Nat
    BY <1>1 DEF WholeInv, OriginType
  <2>6. \A d \in Callers : calls'[d].op = "put" => calls'[d].seen <= origin.begun
    <3>1. \A d \in Callers : calls'[d].op = "put" => calls'[d].seen \in Nat
      BY CallParts DEF Typed, PutCalls
    <3> QED BY <2>3, <2>5, <3>1
  <2> QED BY <1>1, <2>3, <2>4, <2>5, <2>6 DEF WholeInv
<1> QED BY <1>3, <1>6, <1>7, <1>8, <1>9, <1>10 DEF Install

LEMMA InitWhole == Init => WholeInv
  BY DefaultsTyped DEF Init, WholeInv, NoOrigin

LEMMA NextWhole == Typed /\ Typed' /\ WholeInv /\ [Next]_vars => WholeInv'
<1> SUFFICES ASSUME Typed, Typed', WholeInv, [Next]_vars PROVE WholeInv'
  OBVIOUS
<1>1. ASSUME UNCHANGED <<origin, overlap, calls>> PROVE WholeInv'
  BY <1>1, WholeKeeps
<1>2. ASSUME NEW request \in MigrationRequests, Migrate(request) PROVE WholeInv'
  BY <1>1, <1>2 DEF Migrate, history, ghosts
<1>3. CASE Serve
  BY <1>1, <1>3 DEF Serve, history, ghosts
<1>4. CASE Restart
  BY <1>4, DefaultsTyped DEF Restart, WholeInv, NoOrigin
<1>5. ASSUME NEW c \in Callers, Install(c) \/ Compress(c) \/ Retrieve(c) PROVE WholeInv'
  BY <1>5, InstallWhole, CompressWhole, RetrieveWhole
<1>6. CASE Tick
  <2>1. \A d \in Callers : calls[d].op \in {"put", "get"} =>
          /\ calls'[d].op = calls[d].op
          /\ calls[d].op = "put" => calls'[d].seen = calls[d].seen
    BY <1>6, TickCalls, CalmKeepsSeen
  <2>2. /\ \A d \in Callers : calls[d].op = "install" \/ calls'[d].op = "install"
                                => calls'[d] = calls[d]
        /\ \A d \in Callers : calls'[d].op = "put" =>
             calls[d].op = "put" /\ calls'[d].seen = calls[d].seen
    BY <1>6, <2>1, TickCalls
  <2>3. UNCHANGED <<origin, overlap>>
    BY <1>6 DEF Tick, history, ghosts
  <2> QED BY <2>2, <2>3, WholeKeeps
<1>7. CASE UNCHANGED vars
  BY <1>1, <1>7 DEF vars, history, ghosts
<1> QED BY <1>2, <1>3, <1>4, <1>5, <1>6, <1>7 DEF Next

LEMMA WholeIsWhole ==
  ASSUME Typed, WholeInv
  PROVE  InstallIsWhole
<1> SUFFICES ASSUME ~overlap PROVE InstallIsWhole
  BY DEF InstallIsWhole
<1>1. origin \in OriginType
  BY TypedParts
<1>2. \A c \in Callers : calls[c].op = "put" => calls[c].seen \in Nat
  BY TypedParts, CallParts DEF PutCalls
<1>3. \A c \in Callers : calls[c].op = "put" =>
        calls[c].seen <= origin.durable /\ calls[c].seen <= origin.caps
  BY <1>1, <1>2 DEF WholeInv, OriginType
<1>4. Installing = {} => \A c \in Callers : calls[c].op # "install"
  BY DEF Installing
<1> QED BY <1>3, <1>4 DEF InstallIsWhole, WholeInv

(* While no installs overlap, the caps, the tier and the options are those *)
(* of one install whenever none is in progress, and a compress never runs  *)
(* with options that are newer than the tiers it puts into.                *)
THEOREM InstallsAreWhole == Spec => []InstallIsWhole
<1>1. Spec => []Typed
  BY InitTyped, NextTyped, PTL DEF Spec
<1>2. Spec => []WholeInv
  BY <1>1, InitWhole, NextWhole, PTL DEF Spec
<1>3. Typed /\ WholeInv => InstallIsWhole
  BY WholeIsWhole
<1> QED BY <1>1, <1>2, <1>3, PTL

-----------------------------------------------------------------------------
(***************************************************************************)
(* The promise of the durable tier.  It is not inductive: that a blob is   *)
(* live now does not say that it will be until the promise ends.  Its      *)
(* deadline does.                                                          *)
(***************************************************************************)
Covers(k, until) == k \in DOMAIN blobs /\ blobs[k] >= until

KeptInv ==
  \A t \in Tokens \ shortened :
    promised[t] = 0 \/ Covers(Key(t), promised[t]) \/ Covers(LegacyKey(t), promised[t])

LEMMA InitKept == Init => KeptInv
<1> SUFFICES ASSUME Init, NEW t \in Tokens, promised[t] # 0
             PROVE  Covers(LegacyKey(t), promised[t])
  BY DEF KeptInv
<1>1. PICK until \in [Tokens -> 0 .. Forever] :
        /\ blobs = [k \in {LegacyKey(u) : u \in {v \in Tokens : until[v] > 0}} |-> until[k[2]]]
        /\ promised = until
  BY DEF Init
<1>2. until[t] \in Nat /\ until[t] > 0
  BY <1>1, BoundsAssumption DEF Forever
<1>3. LegacyKey(t) \in {LegacyKey(u) : u \in {v \in Tokens : until[v] > 0}}
  BY <1>2
<1>4. LegacyKey(t)[2] = t
  BY DEF LegacyKey
<1>5. blobs[LegacyKey(t)] = until[LegacyKey(t)[2]] /\ LegacyKey(t) \in DOMAIN blobs
  BY <1>1, <1>3
<1> QED BY <1>1, <1>2, <1>4, <1>5 DEF Covers

LEMMA NextKept == Typed /\ KeptInv /\ [Next]_vars => KeptInv'
<1> SUFFICES ASSUME Typed, KeptInv, [Next]_vars PROVE KeptInv'
  OBVIOUS
<1>1. ASSUME UNCHANGED <<blobs, promised, shortened>> PROVE KeptInv'
  BY <1>1 DEF KeptInv, Covers
<1>2. ASSUME NEW request \in MigrationRequests, Migrate(request) PROVE KeptInv'
  <2>1. PICK t \in Tokens :
          /\ LegacyKey(t) \in DOMAIN blobs
          /\ blobs' = [k \in (DOMAIN blobs \ {LegacyKey(t)}) \cup {Key(t)} |->
                         blobs[IF k = Key(t) THEN LegacyKey(t) ELSE k]]
          /\ shortened' = Marked(t, blobs[LegacyKey(t)], promised[t])
    BY <1>2, MigrateMoves
  <2>2. promised' = promised
    BY <1>2 DEF Migrate
  <2>3. Key(t) \in DOMAIN blobs' /\ blobs'[Key(t)] = blobs[LegacyKey(t)]
    BY <2>1
  <2>4. \A k : k # LegacyKey(t) /\ k # Key(t) =>
          (k \in DOMAIN blobs' <=> k \in DOMAIN blobs)
            /\ (k \in DOMAIN blobs => blobs'[k] = blobs[k])
    BY <2>1
  <2>5. promised[t] \in Nat /\ blobs[LegacyKey(t)] \in Nat
    BY <2>1, TypedParts
  <2>6. ASSUME NEW u \in Tokens \ shortened'
        PROVE  \/ promised'[u] = 0
               \/ Covers(Key(u), promised[u])' \/ Covers(LegacyKey(u), promised[u])'
    <3>1. CASE u = t
      <4>1. ~(blobs[LegacyKey(t)] < promised[t])
        BY <2>1, <2>6, <3>1 DEF Marked
      <4> QED BY <2>2, <2>3, <2>5, <3>1, <4>1 DEF Covers
    <3>2. CASE u # t
      <4>1. u \notin shortened
        BY <2>1, <2>6, <3>2 DEF Marked
      <4> QED BY <2>2, <2>4, <3>2, <4>1, KeyFacts DEF KeptInv, Covers
    <3> QED BY <3>1, <3>2
  <2> QED BY <2>6 DEF KeptInv
<1>3. ASSUME NEW c \in Callers, PutDurable(c) PROVE KeptInv'
  <2>1. CASE UNCHANGED <<blobs, promised, shortened>>
    BY <1>1, <2>1
  <2>2. CASE ~UNCHANGED <<blobs, promised, shortened>>
    <3>0. calls[c] \in PutCalls /\ calls[c].token \in Tokens
      BY <1>3, TypedParts, CallParts DEF PutDurable, At, PutCalls
    <3> PICK t \in Tokens : t = calls[c].token
      BY <3>0
    <3> PICK expiry : expiry = Expiry(calls[c].tier.ttl)
      OBVIOUS
    <3>1. PICK applied \in BOOLEAN, acknowledged \in BOOLEAN :
            (acknowledged => applied) /\ Written(c, applied, acknowledged)
      BY <1>3, <2>2 DEF PutDurable
    <3>2. calls[c] \in PutCalls /\ calls[c].tier # NoTier
      BY <1>3, TypedParts, CallParts DEF PutDurable, At
    <3>3. t \in Tokens /\ expiry \in Nat
      BY <3>2, TypedParts, TierFacts, ExpiryTyped DEF PutCalls
    <3>4. /\ blobs' = IF applied THEN With(Key(t), expiry) ELSE blobs
          /\ promised' = IF acknowledged THEN [promised EXCEPT ![t] = expiry] ELSE promised
          /\ shortened' = IF applied THEN Marked(t, expiry, promised'[t]) ELSE shortened
      BY <3>1 DEF Written
    <3>5. promised \in [Tokens -> Nat] /\ promised'[t] \in Nat
      BY <3>3, <3>4, TypedParts
    <3>6. \A k : k # Key(t) => (k \in DOMAIN blobs' <=> k \in DOMAIN blobs)
                                 /\ (k \in DOMAIN blobs => blobs'[k] = blobs[k])
      BY <3>4 DEF With
    <3>7. ASSUME NEW u \in Tokens \ shortened'
          PROVE  \/ promised'[u] = 0
                 \/ Covers(Key(u), promised[u])' \/ Covers(LegacyKey(u), promised[u])'
      <4>1. CASE u # t
        <5>1. promised'[u] = promised[u]
          BY <3>3, <3>4, <3>5, <4>1
        <5>2. u \notin shortened
          BY <3>4, <3>7, <4>1 DEF Marked
        <5> QED BY <3>6, <4>1, <5>1, <5>2, KeyFacts DEF KeptInv, Covers
      <4>2. CASE u = t /\ applied
        <5>1. Key(t) \in DOMAIN blobs' /\ blobs'[Key(t)] = expiry
          BY <3>4, <4>2 DEF With
        <5>2. ~(expiry < promised'[t])
          BY <3>4, <3>7, <4>2 DEF Marked
        <5> QED BY <3>3, <3>5, <4>2, <5>1, <5>2 DEF Covers
      <4>3. CASE u = t /\ ~applied
        <5>1. UNCHANGED <<blobs, promised, shortened>>
          BY <3>1, <3>4, <4>3
        <5> QED BY <3>7, <5>1 DEF KeptInv, Covers
      <4> QED BY <4>1, <4>2, <4>3
    <3> QED BY <3>7 DEF KeptInv
  <2> QED BY <2>1, <2>2
<1>4. ASSUME NEW c \in Callers, Install(c) PROVE KeptInv'
  BY <1>1, <1>4 DEF Install, InstallBegin, InstallBuilt, InstallRefused, InstallConfigures,
     InstallBinds, InstallAnswers, history, ghosts
<1>5. ASSUME NEW c \in Callers, Compress(c) PROVE KeptInv'
  BY <1>1, <1>3, <1>5 DEF Compress, CompressBegin, PutMemory, PutHandle, PutAnswers, history, ghosts
<1>6. ASSUME NEW c \in Callers, Retrieve(c) PROVE KeptInv'
  BY <1>1, <1>6 DEF Retrieve, RetrieveBegin, GetLookup, GetHandle, GetDurable, GetAnswers, history, ghosts
<1>7. CASE Serve \/ Restart \/ Tick
  BY <1>1, <1>7 DEF Serve, Restart, Tick, history, ghosts
<1>8. CASE UNCHANGED vars
  BY <1>1, <1>8 DEF vars, history, ghosts
<1> QED BY <1>2, <1>4, <1>5, <1>6, <1>7, <1>8 DEF Next

LEMMA KeptIsKept ==
  ASSUME Typed, KeptInv
  PROVE  PromiseKept
<1> SUFFICES ASSUME NEW t \in Tokens \ shortened, now < promised[t]
             PROVE  Live(Key(t)) \/ Live(LegacyKey(t))
  BY DEF PromiseKept
<1>1. now \in Nat /\ promised[t] \in Nat /\ \A k \in DOMAIN blobs : blobs[k] \in Nat
  BY TypedParts
<1>2. Covers(Key(t), promised[t]) \/ Covers(LegacyKey(t), promised[t])
  BY <1>1 DEF KeptInv
<1> QED BY <1>1, <1>2 DEF Covers, Live

(* An original acknowledged as durable is among the host's blobs until the *)
(* time that was promised, whatever lifetimes are installed (zero, too),   *)
(* restarted, migrated or offloaded again, unless a write that nobody      *)
(* acknowledged or the migration gave its blob a nearer deadline.          *)
THEOREM PromisesAreKept == Spec => []PromiseKept
<1>1. Spec => []Typed
  BY InitTyped, NextTyped, PTL DEF Spec
<1>2. Spec => []KeptInv
  BY <1>1, InitKept, NextKept, PTL DEF Spec
<1>3. Typed /\ KeptInv => PromiseKept
  BY KeptIsKept
<1> QED BY <1>1, <1>2, <1>3, PTL

-----------------------------------------------------------------------------
(***************************************************************************)
(* A request nobody interferes with.  What the tiers hold for it is what   *)
(* it has seen, at each of its phases, because every step that could take  *)
(* an original away also ends the calm, except a lookup under the lifetime *)
(* that is in force, which drops only what is expired anyway.              *)
(***************************************************************************)
InMemory(t) == t \in Resident(inner) /\ Fresh(inner.map[t], limits.ttl)

InBlobs(t) == durable # NoTier /\ Live(Key(t))

(* What the memory holds, or would if it looked up with a lifetime.        *)
Held(t) == InMemory(t) \/ limits.ttl = 0

CalmPut(c) ==
  calls[c].op = "put" /\ calls[c].calm =>
    /\ calls[c].phase \in {"handle", "write"} /\ calls[c].retained => Held(calls[c].token)
    /\ calls[c].phase = "write" => calls[c].tier = durable
    /\ calls[c].phase = "answer" /\ calls[c].retained =>
         Held(calls[c].token) \/ InBlobs(calls[c].token)

CalmGet(c) ==
  calls[c].op = "get" /\ calls[c].calm =>
    /\ calls[c].phase = "lookup" =>
         /\ calls[c].ttl = limits.ttl
         /\ InMemory(calls[c].token) \/ InBlobs(calls[c].token)
    /\ calls[c].phase \in {"handle", "read"} => InBlobs(calls[c].token)
    /\ calls[c].phase = "answer" => calls[c].found

CalmInv ==
  /\ ~serving => \A c \in Callers : calls[c].op = "idle"
  /\ \A c \in Callers : CalmPut(c) /\ CalmGet(c)

LEMMA CalmIsRetrievable ==
  ASSUME NEW t
  PROVE  Retrievable(t) <=> InMemory(t) \/ InBlobs(t)
  BY DEF Retrievable, InMemory, InBlobs

(* Nothing is asked of a request that somebody has interfered with.        *)
LEMMA DisturbedIsCalm ==
  ASSUME NEW c \in Callers, calls'[c].op \in {"put", "get"} => ~calls'[c].calm
  PROVE  CalmPut(c)' /\ CalmGet(c)'
  BY DEF CalmPut, CalmGet

(* A step that takes no retrievable original away disturbs nobody.         *)
LEMMA QuietKeeps ==
  ASSUME Typed, CalmInv, NEW c \in Callers, calls'[c] = calls[c],
         UNCHANGED <<limits, durable, blobs, now>>,
         \A t \in Tokens : InMemory(t) => InMemory(t)'
  PROVE  CalmPut(c)' /\ CalmGet(c)'
<1>1. calls[c].op \in {"put", "get"} => calls[c].token \in Tokens
  BY TypedParts, CallParts DEF PutCalls, GetCalls
<1>2. \A t : InBlobs(t) => InBlobs(t)'
  BY DEF InBlobs, Live
<1>3. CASE calls[c].op \in {"put", "get"}
  <2> PICK t \in Tokens : t = calls[c].token
    BY <1>1, <1>3
  <2>1. (InMemory(t) => InMemory(t)') /\ (InBlobs(t) => InBlobs(t)')
    BY <1>2
  <2>2. InMemory(calls[c].token)' <=> InMemory(t)'
    BY DEF InMemory
  <2>3. InBlobs(calls[c].token)' <=> InBlobs(t)'
    BY DEF InBlobs, Live, Key
  <2>4. CalmPut(c)'
    BY <2>1, <2>2, <2>3 DEF CalmInv, CalmPut, Held
  <2>5. CalmGet(c)'
    BY <2>1, <2>2, <2>3 DEF CalmInv, CalmGet
  <2> QED BY <2>4, <2>5
<1>4. CASE calls[c].op \notin {"put", "get"}
  BY <1>4, DisturbedIsCalm
<1> QED BY <1>3, <1>4

LEMMA QuietCalls ==
  ASSUME Typed, CalmInv, NEW c \in Callers, serving, serving' = serving,
         \A d \in Callers \ {c} : calls'[d] = calls[d],
         UNCHANGED <<limits, durable, blobs, now>>,
         \A t \in Tokens : InMemory(t) => InMemory(t)',
         CalmPut(c)' /\ CalmGet(c)'
  PROVE  CalmInv'
<1>1. \A d \in Callers \ {c} : CalmPut(d)' /\ CalmGet(d)'
  BY QuietKeeps
<1> QED BY <1>1 DEF CalmInv

LEMMA UnsettledCalls ==
  ASSUME Typed, NEW c \in Callers, NEW call \in CallType, serving, serving' = serving,
         calls' = Unsettled(c, call),
         CalmPut(c)' /\ CalmGet(c)'
  PROVE  CalmInv'
<1>1. ASSUME NEW d \in Callers \ {c}
      PROVE  CalmPut(d)' /\ CalmGet(d)'
  <2>1. calls[d] \in CallType
    BY TypedParts
  <2>2. CASE calls[d].op \in {"put", "get"}
    <3>1. calls'[d] = [calls[d] EXCEPT !.calm = FALSE]
      BY <2>2, TypedParts, UnsettledTyped
    <3>2. calls'[d].calm = FALSE
      BY <2>1, <2>2, <3>1, CallParts DEF PutCalls, GetCalls
    <3> QED BY <3>2, DisturbedIsCalm
  <2>3. CASE calls[d].op \notin {"put", "get"}
    <3>1. d \in Callers /\ d # c /\ calls'[d] = Unsettled(c, call)[d]
      OBVIOUS
    <3>2. Unsettled(c, call)[d] = IF calls[d].op \in {"put", "get"}
                                  THEN [calls[d] EXCEPT !.calm = FALSE] ELSE calls[d]
      BY <3>1 DEF Unsettled
    <3>3. calls'[d] = calls[d]
      BY <2>3, <3>1, <3>2
    <3> QED BY <2>3, <3>3, DisturbedIsCalm
  <2> QED BY <2>2, <2>3
<1> QED BY <1>1 DEF CalmInv

LEMMA InstallCalm ==
  ASSUME Typed, CalmInv, NEW c \in Callers, Install(c)
  PROVE  CalmInv'
<1>1. serving /\ serving' = serving
  <2>1. calls[c].op = "install" \/ serving
    BY DEF Install, InstallBegin, InstallBuilt, InstallRefused, InstallConfigures,
           InstallBinds, InstallAnswers, At
  <2>2. serving
    BY <2>1, TypedParts DEF CalmInv
  <2> QED BY <2>2 DEF Install, InstallBegin, InstallBuilt, InstallRefused, InstallConfigures,
                      InstallBinds, InstallAnswers
<1>2. ASSUME calls'[c].op \in {"install", "idle"},
             \A d \in Callers \ {c} : calls'[d] = calls[d],
             UNCHANGED <<inner, limits, durable, blobs, now>>
      PROVE  CalmInv'
  <2>1. \A t \in Tokens : InMemory(t) => InMemory(t)'
    BY <1>2 DEF InMemory, Fresh
  <2>2. CalmPut(c)' /\ CalmGet(c)'
    BY <1>2, DisturbedIsCalm
  <2> QED BY <1>1, <1>2, <2>1, <2>2, QuietCalls
<1>3. ASSUME NEW request \in Requests, InstallBegin(c, request)
      PROVE  CalmInv'
  <2> DEFINE call == [op |-> "install", phase |-> "build", request |-> request,
                      number |-> origin'.begun, built |-> NoTier]
  <2>1. calls' = Goto(c, call) /\ UNCHANGED <<inner, limits, durable, blobs, now>>
    BY <1>3 DEF InstallBegin, config
  <2>2. call.op = "install"
    OBVIOUS
  <2> HIDE DEF call
  <2>3. calls'[c] = call /\ \A d \in Callers \ {c} : calls'[d] = calls[d]
    BY <2>1, TypedParts DEF Goto
  <2> QED BY <1>2, <2>1, <2>2, <2>3
<1>4. CASE InstallBuilt(c)
  <2>1. calls[c] \in InstallCalls
    BY <1>4, TypedParts, CallParts DEF InstallBuilt, At
  <2>2. PICK built : calls' = Goto(c, [calls[c] EXCEPT !.phase = "configure", !.built = built])
    BY <1>4 DEF InstallBuilt
  <2>3. UNCHANGED <<inner, limits, durable, blobs, now>>
    BY <1>4 DEF InstallBuilt, config
  <2> DEFINE call == [calls[c] EXCEPT !.phase = "configure", !.built = built]
  <2>4. call.op = "install"
    BY <2>1 DEF InstallCalls
  <2>5. calls' = Goto(c, call)
    BY <2>2
  <2> HIDE DEF call
  <2>6. calls'[c] = call /\ \A d \in Callers \ {c} : calls'[d] = calls[d]
    BY <2>5, TypedParts DEF Goto
  <2> QED BY <1>2, <2>3, <2>4, <2>6
<1>5. CASE InstallRefused(c) \/ InstallAnswers(c)
  <2>1. calls' = Goto(c, Idle) /\ UNCHANGED <<inner, limits, durable, blobs, now>>
    BY <1>5 DEF InstallRefused, InstallAnswers, config
  <2>2. calls'[c] = Idle /\ \A d \in Callers \ {c} : calls'[d] = calls[d]
    BY <2>1, TypedParts DEF Goto
  <2> QED BY <1>2, <2>1, <2>2, DefaultsTyped
<1>6. CASE InstallConfigures(c)
  <2> DEFINE call == [calls[c] EXCEPT !.phase = "set_durable"]
  <2>1. calls[c] \in InstallCalls
    BY <1>6, TypedParts, CallParts DEF InstallConfigures, At
  <2>2. call \in CallType /\ call.op = "install"
    BY <2>1 DEF InstallCalls, CallType
  <2>3. calls' = Unsettled(c, call)
    BY <1>6 DEF InstallConfigures
  <2> HIDE DEF call
  <2>4. calls'[c] = call
    BY <2>2, <2>3, TypedParts, UnsettledTyped
  <2> QED BY <1>1, <2>2, <2>3, <2>4, UnsettledCalls, DisturbedIsCalm
<1>7. CASE InstallBinds(c)
  <2> DEFINE call == [calls[c] EXCEPT !.phase = "options"]
  <2>1. calls[c] \in InstallCalls
    BY <1>7, TypedParts, CallParts DEF InstallBinds, At
  <2>2. call \in CallType /\ call.op = "install"
    BY <2>1 DEF InstallCalls, CallType
  <2>3. calls' = Unsettled(c, call)
    BY <1>7 DEF InstallBinds
  <2> HIDE DEF call
  <2>4. calls'[c] = call
    BY <2>2, <2>3, TypedParts, UnsettledTyped
  <2> QED BY <1>1, <2>2, <2>3, <2>4, UnsettledCalls, DisturbedIsCalm
<1> QED BY <1>3, <1>4, <1>5, <1>6, <1>7 DEF Install

LEMMA LifetimeFacts ==
  ASSUME NEW ttl \in Ttls, ttl # 0, now \in Nat
  PROVE  Fresh(now, ttl)
<1>1. ttl \in Nat \cup {NoTtl}
  BY BoundsAssumption, RequestFacts DEF Ttls
<1> QED BY <1>1 DEF Fresh

LEMMA CompressCalm ==
  ASSUME Typed, CalmInv, NEW c \in Callers, Compress(c)
  PROVE  CalmInv'
<1>1. serving /\ serving' = serving
  <2>1. calls[c].op = "put" \/ serving
    BY DEF Compress, CompressBegin, PutMemory, PutHandle, PutDurable, PutAnswers, At
  <2>2. serving
    BY <2>1, TypedParts DEF CalmInv
  <2> QED BY <2>2 DEF Compress, CompressBegin, PutMemory, PutHandle, PutDurable, PutAnswers
<1>2. ASSUME \A d \in Callers \ {c} : calls'[d] = calls[d],
             UNCHANGED <<inner, limits, durable, blobs, now>>,
             CalmPut(c)' /\ CalmGet(c)'
      PROVE  CalmInv'
  <2>1. \A t \in Tokens : InMemory(t) => InMemory(t)'
    BY <1>2 DEF InMemory, Fresh
  <2> QED BY <1>1, <1>2, <2>1, QuietCalls
<1>3. ASSUME NEW t \in Tokens, CompressBegin(c, t)
      PROVE  CalmInv'
  <2>1. /\ calls'[c].op = "put" /\ calls'[c].phase = "memory"
        /\ \A d \in Callers \ {c} : calls'[d] = calls[d]
        /\ UNCHANGED <<inner, limits, durable, blobs, now>>
    BY <1>3, TypedParts DEF CompressBegin, Goto, config
  <2>2. CalmPut(c)' /\ CalmGet(c)'
    BY <2>1 DEF CalmPut, CalmGet
  <2> QED BY <1>2, <2>1, <2>2
<1>4. CASE PutMemory(c)
  <2>1. calls[c] \in PutCalls
    BY <1>4, TypedParts, CallParts DEF PutMemory, At
  <2>2. PICK r \in Inserts(inner, calls[c].token, limits, now) :
          /\ inner' = r.inner
          /\ calls' = Unsettled(c, [calls[c] EXCEPT !.phase = "handle", !.retained = r.retained])
    BY <1>4 DEF PutMemory
  <2>3. r.retained \in BOOLEAN
    <3>1. limits.max_entries \in Nat \ {0} /\ limits.max_bytes \in Nat \ {0}
      BY TypedParts DEF LimitsType
    <3> QED BY <2>1, <2>2, <3>1, TypedParts, InsertsPreserve DEF PutCalls
  <2> DEFINE call == [calls[c] EXCEPT !.phase = "handle", !.retained = r.retained]
  <2>4. /\ call \in CallType /\ call.op = "put" /\ call.phase = "handle"
        /\ call.token = calls[c].token /\ call.retained = r.retained
    BY <2>1, <2>3 DEF PutCalls, CallType
  <2>5. calls' = Unsettled(c, call)
    BY <2>2
  <2> HIDE DEF call
  <2>6. calls'[c] = call
    BY <2>4, <2>5, TypedParts, UnsettledTyped
  <2>7. UNCHANGED <<limits, now>>
    BY <1>4 DEF PutMemory, config
  <2>8. r.retained = TRUE => Held(calls[c].token)'
    <3> SUFFICES ASSUME r.retained = TRUE, limits.ttl # 0 PROVE InMemory(calls[c].token)'
      BY <2>7 DEF Held
    <3>0. /\ calls[c].token \in Resident(r.inner)
          /\ r.inner.map[calls[c].token] = now
      BY <2>2, InsertsRetain
    <3>1. calls[c].token \in Resident(inner') /\ inner'.map[calls[c].token] = now
      BY <2>2, <3>0
    <3>2. limits.ttl \in Ttls /\ now \in Nat
      BY TypedParts DEF LimitsType
    <3>3. now \in Nat /\ (limits.ttl = NoTtl \/ now - now < limits.ttl)
      BY <3>2, LifetimeFacts DEF Fresh
    <3> PICK t : t = calls[c].token
      OBVIOUS
    <3>4. calls'[c].token = t
      BY <2>4, <2>6
    <3>5. t \in Resident(inner') /\ inner'.map[t] = now
      BY <3>1
    <3>6. InMemory(t)'
      BY <2>7, <3>3, <3>5 DEF InMemory, Fresh, Resident
    <3> QED BY <3>4, <3>6, <2>4, <2>6
  <2>9. CalmPut(c)'
    BY <2>3, <2>4, <2>6, <2>8 DEF CalmPut
  <2>10. CalmGet(c)'
    BY <2>4, <2>6 DEF CalmGet
  <2> QED BY <1>1, <2>4, <2>5, <2>9, <2>10, UnsettledCalls
<1>5. CASE PutHandle(c)
  <2> DEFINE call == [calls[c] EXCEPT !.phase = IF durable = NoTier THEN "answer" ELSE "write",
                                      !.tier = durable]
  <2>1. calls[c] \in PutCalls /\ calls[c].phase = "handle" /\ calls[c].op = "put"
    BY <1>5, TypedParts, CallParts DEF PutHandle, At
  <2>2. /\ call.op = "put" /\ call.phase \in {"answer", "write"} /\ call.tier = durable
        /\ call.token = calls[c].token /\ call.retained = calls[c].retained
        /\ call.calm = calls[c].calm
    BY <2>1 DEF PutCalls
  <2>3. calls' = Goto(c, call) /\ UNCHANGED <<inner, limits, durable, blobs, now>>
    BY <1>5 DEF PutHandle, config
  <2> HIDE DEF call
  <2>4. calls'[c] = call /\ \A d \in Callers \ {c} : calls'[d] = calls[d]
    BY <2>3, TypedParts DEF Goto
  <2> PICK t : t = calls[c].token
    OBVIOUS
  <2>5. calls'[c].token = t
    BY <2>2, <2>4
  <2>6. Held(t) => Held(calls[c].token)'
    BY <2>3, <2>5 DEF Held, InMemory, Fresh, Resident
  <2>7. CalmPut(c)'
    BY <2>1, <2>2, <2>3, <2>4, <2>6 DEF CalmInv, CalmPut
  <2>8. CalmGet(c)'
    BY <2>2, <2>4 DEF CalmGet
  <2> QED BY <1>2, <2>3, <2>4, <2>7, <2>8
<1>6. CASE PutDurable(c)
  <2>1. calls[c] \in PutCalls /\ calls[c].phase = "write" /\ calls[c].op = "put"
    BY <1>6, TypedParts, CallParts DEF PutDurable, At
  <2>2. /\ calls[c].tier \in TierType /\ calls[c].tier # NoTier
        /\ calls[c].token \in Tokens /\ calls[c].tier.ttl \in Ttls
    BY <2>1, TypedParts, TierFacts DEF PutCalls
  <2>3. UNCHANGED <<inner, limits, durable, now>>
    BY <1>6 DEF PutDurable, config
  <2> PICK t \in Tokens : t = calls[c].token
    BY <2>2
  <2>4. CASE calls[c].tier.ttl = 0
    <3> DEFINE call == [calls[c] EXCEPT !.phase = "answer"]
    <3>1. /\ call.op = "put" /\ call.phase = "answer"
          /\ call.token = t /\ call.retained = calls[c].retained /\ call.calm = calls[c].calm
      BY <2>1 DEF PutCalls
    <3>2. calls' = Goto(c, call) /\ blobs' = blobs
      BY <1>6, <2>4 DEF PutDurable
    <3> HIDE DEF call
    <3>3. calls'[c] = call /\ \A d \in Callers \ {c} : calls'[d] = calls[d]
      BY <3>2, TypedParts DEF Goto
    <3>4. Held(calls[c].token) => Held(calls[c].token)'
      BY <2>3, <3>1, <3>3 DEF Held, InMemory, Fresh, Resident
    <3>5. CalmPut(c)'
      BY <2>1, <3>1, <3>3, <3>4 DEF CalmInv, CalmPut
    <3>6. CalmGet(c)'
      BY <3>1, <3>3 DEF CalmGet
    <3> QED BY <1>2, <2>3, <3>2, <3>3, <3>5, <3>6
  <2>5. CASE calls[c].tier.ttl # 0
    <3>1. PICK applied \in BOOLEAN, acknowledged \in BOOLEAN :
            (acknowledged => applied) /\ Written(c, applied, acknowledged)
      BY <1>6, <2>5 DEF PutDurable
    <3> PICK expiry : expiry = Expiry(calls[c].tier.ttl)
      OBVIOUS
    <3>2. expiry \in Nat /\ now < expiry
      BY <2>2, <2>5, TypedParts, ExpiryTyped
    <3> DEFINE call == [calls[c] EXCEPT !.phase = "answer", !.retained = @ \/ acknowledged]
    <3>3. /\ call \in CallType /\ call.op = "put" /\ call.phase = "answer"
          /\ call.token = t /\ call.calm = calls[c].calm
          /\ call.retained = (calls[c].retained \/ acknowledged)
      BY <2>1 DEF PutCalls, CallType
    <3>4. calls' = Unsettled(c, call)
      BY <3>1 DEF Written
    <3>5. blobs' = IF applied THEN With(Key(t), expiry) ELSE blobs
      BY <3>1 DEF Written
    <3> HIDE DEF call
    <3>6. calls'[c] = call
      BY <3>3, <3>4, TypedParts, UnsettledTyped
    <3>7. acknowledged => Key(t) \in DOMAIN blobs' /\ now < blobs'[Key(t)]
      BY <3>1, <3>2, <3>5 DEF With
    <3>8. calls[c].calm => durable # NoTier
      BY <2>1, <2>2 DEF CalmInv, CalmPut
    <3>9. calls[c].calm /\ calls[c].retained => Held(t)
      BY <2>1 DEF CalmInv, CalmPut
    <3>10. Held(t) => Held(calls[c].token)'
      BY <2>3, <3>3, <3>6 DEF Held, InMemory, Fresh, Resident
    <3>11. acknowledged /\ durable # NoTier => InBlobs(calls[c].token)'
      BY <2>3, <3>3, <3>6, <3>7 DEF InBlobs, Live, Key
    <3>12. CalmPut(c)'
      BY <3>3, <3>6, <3>8, <3>9, <3>10, <3>11 DEF CalmPut
    <3>13. CalmGet(c)'
      BY <3>3, <3>6 DEF CalmGet
    <3> QED BY <1>1, <3>3, <3>4, <3>12, <3>13, UnsettledCalls
  <2> QED BY <2>4, <2>5
<1>7. CASE PutAnswers(c)
  <2>1. calls' = Goto(c, Idle) /\ UNCHANGED <<inner, limits, durable, blobs, now>>
    BY <1>7 DEF PutAnswers, config
  <2>2. calls'[c] = Idle /\ \A d \in Callers \ {c} : calls'[d] = calls[d]
    BY <2>1, TypedParts DEF Goto
  <2> QED BY <1>2, <2>1, <2>2, DefaultsTyped, DisturbedIsCalm
<1> QED BY <1>3, <1>4, <1>5, <1>6, <1>7 DEF Compress

(* A lookup under the lifetime in force drops nothing retrievable.         *)
LEMMA LookupKeepsMemory ==
  ASSUME NEW t, NEW ttl,
         UNCHANGED <<limits, now>>, ttl = limits.ttl,
         inner' = IF t \in Resident(inner) /\ Fresh(inner.map[t], ttl)
                  THEN inner ELSE Dropped(inner, {t}),
         NEW u, InMemory(u)
  PROVE  InMemory(u)'
<1>1. u \in Resident(inner) /\ Fresh(inner.map[u], ttl)
  BY DEF InMemory
<1>2. CASE t \in Resident(inner) /\ Fresh(inner.map[t], ttl)
  <2>1. inner' = inner
    BY <1>2
  <2> QED BY <1>1, <2>1 DEF InMemory, Fresh, Resident
<1>3. CASE ~(t \in Resident(inner) /\ Fresh(inner.map[t], ttl))
  <2>1. u # t
    BY <1>1, <1>3
  <2>2. inner'.map = [v \in Resident(inner) \ {t} |-> inner.map[v]]
    BY <1>3 DEF Dropped
  <2>3. u \in Resident(inner') /\ inner'.map[u] = inner.map[u]
    BY <1>1, <2>1, <2>2 DEF Resident
  <2> QED BY <1>1, <2>3 DEF InMemory, Fresh
<1> QED BY <1>2, <1>3

LEMMA RetrieveCalm ==
  ASSUME Typed, CalmInv, NEW c \in Callers, Retrieve(c)
  PROVE  CalmInv'
<1>1. serving /\ serving' = serving
  <2>1. calls[c].op = "get" \/ serving
    BY DEF Retrieve, RetrieveBegin, GetLookup, GetHandle, GetDurable, GetAnswers, At
  <2>2. serving
    BY <2>1, TypedParts DEF CalmInv
  <2> QED BY <2>2 DEF Retrieve, RetrieveBegin, GetLookup, GetHandle, GetDurable, GetAnswers
<1>2. ASSUME \A d \in Callers \ {c} : calls'[d] = calls[d],
             UNCHANGED <<inner, limits, durable, blobs, now>>,
             CalmPut(c)' /\ CalmGet(c)'
      PROVE  CalmInv'
  <2>1. \A t \in Tokens : InMemory(t) => InMemory(t)'
    BY <1>2 DEF InMemory, Fresh
  <2> QED BY <1>1, <1>2, <2>1, QuietCalls
<1>3. ASSUME NEW t \in Tokens, RetrieveBegin(c, t)
      PROVE  CalmInv'
  <2> DEFINE call == [op |-> "get", phase |-> "lookup", token |-> t, ttl |-> limits.ttl,
                      tier |-> NoTier, found |-> FALSE, calm |-> Retrievable(t)]
  <2>1. /\ call.op = "get" /\ call.phase = "lookup" /\ call.token = t
        /\ call.ttl = limits.ttl /\ (call.calm <=> Retrievable(t))
    OBVIOUS
  <2>2. calls' = Goto(c, call) /\ UNCHANGED <<inner, limits, durable, blobs, now>>
    BY <1>3 DEF RetrieveBegin, config
  <2> HIDE DEF call
  <2>3. calls'[c] = call /\ \A d \in Callers \ {c} : calls'[d] = calls[d]
    BY <2>2, TypedParts DEF Goto
  <2>4. InMemory(t) \/ InBlobs(t) => InMemory(calls[c].token)' \/ InBlobs(calls[c].token)'
    BY <2>1, <2>2, <2>3 DEF InMemory, InBlobs, Fresh, Resident, Live, Key
  <2>5. CalmPut(c)' /\ CalmGet(c)'
    BY <2>1, <2>2, <2>3, <2>4, CalmIsRetrievable DEF CalmPut, CalmGet
  <2> QED BY <1>2, <2>2, <2>3, <2>5
<1>4. CASE GetLookup(c)
  <2>1. calls[c] \in GetCalls /\ calls[c].phase = "lookup" /\ calls[c].op = "get"
    BY <1>4, TypedParts, CallParts DEF GetLookup, At
  <2> PICK t \in Tokens : t = calls[c].token
    BY <2>1 DEF GetCalls
  <2> PICK ttl : ttl = calls[c].ttl
    OBVIOUS
  <2> DEFINE hit == t \in Resident(inner) /\ Fresh(inner.map[t], ttl)
             call == [calls[c] EXCEPT !.found = hit,
                                      !.phase = IF hit THEN "answer" ELSE "handle"]
  <2>2. /\ inner' = IF hit THEN inner ELSE Dropped(inner, {t})
        /\ calls' = IF ttl = limits.ttl THEN Goto(c, call) ELSE Unsettled(c, call)
        /\ UNCHANGED <<limits, durable, blobs, now>>
    BY <1>4 DEF GetLookup, config
  <2>3. hit \in BOOLEAN
    OBVIOUS
  <2>4. (calls[c].calm /\ ~hit => InBlobs(t)) /\ (calls[c].calm => ttl = limits.ttl)
    BY <2>1 DEF CalmInv, CalmGet, InMemory
  <2>5. \A u \in Tokens : ttl = limits.ttl /\ InMemory(u) => InMemory(u)'
    BY <2>2, LookupKeepsMemory
  <2> HIDE DEF hit
  <2>6. /\ call \in CallType /\ call.op = "get" /\ call.calm = calls[c].calm
        /\ call.token = t /\ call.found = hit
        /\ hit => call.phase = "answer"
        /\ ~hit => call.phase = "handle"
    BY <2>1, <2>3 DEF GetCalls, CallType
  <2> HIDE DEF call
  <2>7. calls'[c] = call
    BY <2>2, <2>6, TypedParts, GotoTyped, UnsettledTyped
  <2>8. InBlobs(t) => InBlobs(calls[c].token)'
    BY <2>2, <2>6, <2>7 DEF InBlobs, Live, Key
  <2>9. CalmPut(c)' /\ CalmGet(c)'
    BY <2>3, <2>4, <2>6, <2>7, <2>8 DEF CalmPut, CalmGet
  <2>10. CASE ttl = limits.ttl
    <3>1. \A d \in Callers \ {c} : calls'[d] = calls[d]
      BY <2>2, <2>6, <2>10, TypedParts, GotoTyped
    <3> QED BY <1>1, <2>2, <2>5, <2>9, <2>10, <3>1, QuietCalls
  <2>11. CASE ttl # limits.ttl
    BY <1>1, <2>2, <2>6, <2>9, <2>11, UnsettledCalls
  <2> QED BY <2>10, <2>11
<1>5. CASE GetHandle(c)
  <2> DEFINE call == [calls[c] EXCEPT !.phase = IF durable = NoTier THEN "answer" ELSE "read",
                                      !.tier = durable]
  <2>1. calls[c] \in GetCalls /\ calls[c].phase = "handle" /\ calls[c].op = "get"
    BY <1>5, TypedParts, CallParts DEF GetHandle, At
  <2> PICK t \in Tokens : t = calls[c].token
    BY <2>1 DEF GetCalls
  <2>2. /\ call.op = "get" /\ call.token = t /\ call.calm = calls[c].calm
        /\ durable # NoTier => call.phase = "read"
    BY <2>1 DEF GetCalls
  <2>3. calls' = Goto(c, call) /\ UNCHANGED <<inner, limits, durable, blobs, now>>
    BY <1>5 DEF GetHandle, config
  <2> HIDE DEF call
  <2>4. calls'[c] = call /\ \A d \in Callers \ {c} : calls'[d] = calls[d]
    BY <2>3, TypedParts DEF Goto
  <2>5. calls[c].calm => InBlobs(t) /\ durable # NoTier
    BY <2>1 DEF CalmInv, CalmGet, InBlobs
  <2>6. InBlobs(t) => InBlobs(calls[c].token)'
    BY <2>2, <2>3, <2>4 DEF InBlobs, Live, Key
  <2>7. CalmPut(c)' /\ CalmGet(c)'
    BY <2>2, <2>4, <2>5, <2>6 DEF CalmPut, CalmGet
  <2> QED BY <1>2, <2>3, <2>4, <2>7
<1>6. CASE GetDurable(c)
  <2>1. calls[c] \in GetCalls /\ calls[c].phase = "read" /\ calls[c].op = "get"
    BY <1>6, TypedParts, CallParts DEF GetDurable, At
  <2>2. PICK failed \in BOOLEAN :
          calls' = Goto(c, [calls[c] EXCEPT !.phase = "answer", !.calm = @ /\ ~failed,
                              !.found = Live(Key(calls[c].token)) /\ ~failed])
    BY <1>6 DEF GetDurable
  <2>3. UNCHANGED <<inner, limits, durable, blobs, now>>
    BY <1>6 DEF GetDurable, config
  <2> DEFINE read == Live(Key(calls[c].token)) /\ ~failed
             call == [calls[c] EXCEPT !.phase = "answer", !.calm = @ /\ ~failed, !.found = read]
  <2>4. read \in BOOLEAN /\ (calls[c].calm /\ ~failed => read)
    BY <2>1 DEF CalmInv, CalmGet, InBlobs
  <2> HIDE DEF read
  <2>5. /\ call.op = "get" /\ call.phase = "answer" /\ call.found = read
        /\ call.calm = (calls[c].calm /\ ~failed)
    BY <2>1 DEF GetCalls
  <2>6. calls' = Goto(c, call)
    BY <2>2 DEF read
  <2> HIDE DEF call
  <2>7. calls'[c] = call /\ \A d \in Callers \ {c} : calls'[d] = calls[d]
    BY <2>6, TypedParts DEF Goto
  <2>8. CalmPut(c)' /\ CalmGet(c)'
    BY <2>4, <2>5, <2>7 DEF CalmPut, CalmGet
  <2> QED BY <1>2, <2>3, <2>7, <2>8
<1>7. CASE GetAnswers(c)
  <2>1. calls' = Goto(c, Idle) /\ UNCHANGED <<inner, limits, durable, blobs, now>>
    BY <1>7 DEF GetAnswers, config
  <2>2. calls'[c] = Idle /\ \A d \in Callers \ {c} : calls'[d] = calls[d]
    BY <2>1, TypedParts DEF Goto
  <2> QED BY <1>2, <2>1, <2>2, DefaultsTyped, DisturbedIsCalm
<1> QED BY <1>3, <1>4, <1>5, <1>6, <1>7 DEF Retrieve

LEMMA InitCalm == Init => CalmInv
<1> SUFFICES ASSUME Init PROVE CalmInv
  OBVIOUS
<1>1. \A c \in Callers : calls[c].op = "idle"
  BY DefaultsTyped DEF Init
<1> QED BY <1>1 DEF CalmInv, CalmPut, CalmGet

LEMMA NextCalm == Typed /\ CalmInv /\ [Next]_vars => CalmInv'
<1> SUFFICES ASSUME Typed, CalmInv, [Next]_vars PROVE CalmInv'
  OBVIOUS
<1>1. ASSUME \A c \in Callers : calls'[c].op = "idle" PROVE CalmInv'
  BY <1>1 DEF CalmInv, CalmPut, CalmGet
<1>2. ASSUME NEW request \in MigrationRequests, Migrate(request) PROVE CalmInv'
  <2>1. ~serving /\ calls' = calls
    BY <1>2 DEF Migrate
  <2> QED BY <1>1, <2>1 DEF CalmInv
<1>3. CASE Serve
  <2>1. ~serving /\ calls' = calls
    BY <1>3 DEF Serve
  <2> QED BY <1>1, <2>1 DEF CalmInv
<1>4. CASE Restart
  <2>1. calls' = NoRequests
    BY <1>4 DEF Restart
  <2> QED BY <1>1, <2>1, DefaultsTyped
<1>5. ASSUME NEW c \in Callers, Install(c) \/ Compress(c) \/ Retrieve(c) PROVE CalmInv'
  BY <1>5, InstallCalm, CompressCalm, RetrieveCalm
<1>6. CASE Tick
  <2>1. ASSUME NEW c \in Callers PROVE CalmPut(c)' /\ CalmGet(c)'
    <3>1. calls[c] \in CallType
      BY TypedParts
    <3>2. CASE calls[c].op \in {"put", "get"}
      <4>1. calls'[c] = [calls[c] EXCEPT !.calm = FALSE]
        BY <1>6, <3>2, TickCalls
      <4>2. calls'[c].calm = FALSE
        BY <3>1, <3>2, <4>1, CallParts DEF PutCalls, GetCalls
      <4> QED BY <4>2, DisturbedIsCalm
    <3>3. CASE calls[c].op \notin {"put", "get"}
      BY <1>6, <3>3, TickCalls, DisturbedIsCalm
    <3> QED BY <3>2, <3>3
  <2>2. serving' = serving /\ \A c \in Callers : calls[c].op = "idle" => calls'[c].op = "idle"
    BY <1>6, TickCalls DEF Tick
  <2> QED BY <2>1, <2>2 DEF CalmInv
<1>7. CASE UNCHANGED vars
  <2>1. /\ serving' = serving /\ calls' = calls
        /\ UNCHANGED <<inner, limits, durable, blobs, now>>
    BY <1>7 DEF vars, config
  <2>2. \A t \in Tokens : InMemory(t) => InMemory(t)'
    BY <2>1 DEF InMemory, Fresh
  <2>3. \A c \in Callers : CalmPut(c)' /\ CalmGet(c)'
    BY <2>1, <2>2, QuietKeeps
  <2> QED BY <2>1, <2>3 DEF CalmInv
<1> QED BY <1>2, <1>3, <1>4, <1>5, <1>6, <1>7 DEF Next

LEMMA CalmHolds == Spec => []CalmInv
<1>1. Spec => []Typed
  BY InitTyped, NextTyped, PTL DEF Spec
<1> QED BY <1>1, InitCalm, NextCalm, PTL DEF Spec

(* A retrieve that nobody interferes with answers an original that memory  *)
(* or the bound tier held when it began, under any lifetimes.              *)
THEOREM RetrievableIsFound == Spec => []RetrievableIsAnswered
<1>1. CalmInv => RetrievableIsAnswered
  BY DEF CalmInv, CalmGet, RetrievableIsAnswered, At
<1> QED BY <1>1, CalmHolds, PTL

(* An original that compress says is retained can be retrieved when nobody *)
(* interfered, under any lifetimes but zero, with which the memory tier    *)
(* retains what it will not answer.                                        *)
THEOREM AdvertisedIsKept == Spec => []AdvertisedIsRetrievable
<1>1. CalmInv => AdvertisedIsRetrievable
  BY CalmIsRetrievable DEF CalmInv, CalmPut, Held, AdvertisedIsRetrievable, At
<1> QED BY <1>1, CalmHolds, PTL
=============================================================================
