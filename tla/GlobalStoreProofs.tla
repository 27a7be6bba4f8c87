-------------------------- MODULE GlobalStoreProofs --------------------------
(***************************************************************************)
(* What the process-global store keeps with the files of the disk tier     *)
(* behind it, for every set of originals, every number of threads and all  *)
(* limits: the types and the accounting, the promise of offload, the       *)
(* answer of retrieve, and the fairness of a sweep.                        *)
(***************************************************************************)
EXTENDS GlobalStore, CcrInnerProofs

FilesType == UNION {[S -> Nat] : S \in SUBSET Tokens}

Listings ==
  {listing \in [queue : Seq(Tokens), times : FilesType, torn : SUBSET Tokens, at : Nat] :
     listing.queue \in ByAge(listing.times)}

ListingType == {NotListed} \cup Listings

OffloadCalls ==
  [op : {"offload"}, phase : {"insert", "disk", "list", "remove", "durable", "answer"},
   token : Tokens, limits : LimitsAtHand, cap : Caps, listing : ListingType,
   retained : BOOLEAN, calm : BOOLEAN]

GcCalls ==
  [op : {"gc"}, phase : {"list", "remove", "answer"}, limits : LimitsAtHand, cap : Caps,
   listing : ListingType, calm : BOOLEAN]

RetrieveCalls ==
  [op : {"retrieve"}, phase : {"lookup", "durable", "stat", "unlink", "read", "answer"},
   token : Tokens, limits : LimitsAtHand, found : BOOLEAN, whole : BOOLEAN, calm : BOOLEAN]

CallType == {Idle} \cup OffloadCalls \cup GcCalls \cup RetrieveCalls

(* A sweep that is to remove has listed the directory.                     *)
Listed(call) == call # Idle /\ call.phase = "remove" => call.listing \in Listings

Typed ==
  /\ TypeOK
  /\ now \in Nat
  /\ files \in [DOMAIN files -> 0 .. now]
  /\ calls \in [Callers -> CallType]
  /\ \A c \in Callers : Listed(calls[c])

-----------------------------------------------------------------------------
LEMMA CallParts ==
  ASSUME NEW call \in CallType
  PROVE  /\ call.op \in {"idle", "offload", "gc", "retrieve"}
         /\ call.op = "idle" <=> call = Idle
         /\ call.op = "offload" => call \in OffloadCalls
         /\ call.op = "gc" => call \in GcCalls
         /\ call.op = "retrieve" => call \in RetrieveCalls
  BY DEF CallType, Idle, OffloadCalls, GcCalls, RetrieveCalls

(* A call that somebody comes between is the same but for that.            *)
LEMMA CalmParts ==
  ASSUME NEW call \in CallType, call # Idle
  PROVE  /\ [call EXCEPT !.calm = FALSE] \in CallType
         /\ [call EXCEPT !.calm = FALSE] # Idle
         /\ [call EXCEPT !.calm = FALSE].calm = FALSE
         /\ [call EXCEPT !.calm = FALSE].op = call.op
         /\ [call EXCEPT !.calm = FALSE].phase = call.phase
         /\ Listed(call) => Listed([call EXCEPT !.calm = FALSE])
<1> DEFINE e == [call EXCEPT !.calm = FALSE]
<1>1. CASE call \in OffloadCalls
  <2>1. /\ e \in OffloadCalls /\ e.calm = FALSE /\ e.op = call.op /\ e.phase = call.phase
        /\ e.listing = call.listing /\ e.op = "offload"
    BY <1>1 DEF OffloadCalls
  <2> HIDE DEF e
  <2> QED BY <2>1, CallParts DEF CallType, Listed, Idle, e
<1>2. CASE call \in GcCalls
  <2>1. /\ e \in GcCalls /\ e.calm = FALSE /\ e.op = call.op /\ e.phase = call.phase
        /\ e.listing = call.listing /\ e.op = "gc"
    BY <1>2 DEF GcCalls
  <2> HIDE DEF e
  <2> QED BY <2>1, CallParts DEF CallType, Listed, Idle, e
<1>3. CASE call \in RetrieveCalls
  <2>1. /\ e \in RetrieveCalls /\ e.calm = FALSE /\ e.op = call.op /\ e.phase = call.phase
        /\ e.op = "retrieve" /\ e.phase # "remove"
    BY <1>3 DEF RetrieveCalls
  <2> HIDE DEF e
  <2> QED BY <2>1, CallParts DEF CallType, Listed, Idle, e
<1> QED BY <1>1, <1>2, <1>3 DEF CallType

LEMMA GotoTyped ==
  ASSUME Typed, NEW c \in Callers, NEW call \in CallType, Listed(call), calls' = Goto(c, call)
  PROVE  /\ calls' \in [Callers -> CallType]
         /\ calls'[c] = call
         /\ \A d \in Callers \ {c} : calls'[d] = calls[d]
         /\ \A d \in Callers : Listed(calls'[d])
<1>1. calls \in [Callers -> CallType] /\ \A d \in Callers : Listed(calls[d])
  BY DEF Typed
<1>2. /\ calls' \in [Callers -> CallType]
      /\ calls'[c] = call
      /\ \A d \in Callers \ {c} : calls'[d] = calls[d]
  BY <1>1 DEF Goto
<1>3. ASSUME NEW d \in Callers PROVE Listed(calls'[d])
  <2>1. CASE d = c
    BY <1>2, <2>1
  <2>2. CASE d # c
    <3>1. calls'[d] = calls[d]
      BY <1>2, <2>2
    <3> QED BY <1>1, <3>1
  <2> QED BY <2>1, <2>2
<1> QED BY <1>2, <1>3

LEMMA DisturbedTyped ==
  ASSUME Typed
  PROVE  /\ Disturbed(calls) \in [Callers -> CallType]
         /\ \A d \in Callers : /\ Listed(Disturbed(calls)[d])
                               /\ Disturbed(calls)[d].op = calls[d].op
                               /\ Disturbed(calls)[d] # Idle =>
                                    /\ Disturbed(calls)[d].calm = FALSE
                                    /\ Disturbed(calls)[d].phase = calls[d].phase
                                    /\ calls[d] # Idle
<1>1. calls \in [Callers -> CallType] /\ \A d \in Callers : Listed(calls[d])
  BY DEF Typed
<1> DEFINE D == Disturbed(calls)
<1>2. \A d \in Callers :
        D[d] = IF calls[d] = Idle THEN Idle ELSE [calls[d] EXCEPT !.calm = FALSE]
  BY DEF Disturbed
<1>3. ASSUME NEW d \in Callers
      PROVE  /\ D[d] \in CallType /\ Listed(D[d]) /\ D[d].op = calls[d].op
             /\ D[d] # Idle => /\ D[d].calm = FALSE
                               /\ D[d].phase = calls[d].phase
                               /\ calls[d] # Idle
  <2>1. CASE calls[d] = Idle
    BY <1>2, <2>1 DEF CallType, Listed
  <2>2. CASE calls[d] # Idle
    <3>1. D[d] = [calls[d] EXCEPT !.calm = FALSE]
      BY <1>2, <2>2
    <3> PICK call \in CallType : call = calls[d]
      BY <1>1
    <3> QED BY <1>1, <2>2, <3>1, CalmParts
  <2> QED BY <2>1, <2>2
<1>4. D = [d \in Callers |-> D[d]]
  BY DEF Disturbed
<1> HIDE DEF D
<1>5. D \in [Callers -> CallType]
  BY <1>3, <1>4
<1> QED BY <1>3, <1>5 DEF D

LEMMA UnsettledTyped ==
  ASSUME Typed, NEW c \in Callers, NEW call \in CallType, Listed(call),
         calls' = Unsettled(c, call)
  PROVE  /\ calls' \in [Callers -> CallType]
         /\ calls'[c] = call
         /\ \A d \in Callers \ {c} :
              calls'[d] # Idle => /\ calls'[d].calm = FALSE
                                  /\ calls'[d].phase = calls[d].phase
                                  /\ calls[d] # Idle
         /\ \A d \in Callers : Listed(calls'[d])
<1> DEFINE D == Disturbed(calls)
<1>1. /\ D \in [Callers -> CallType]
      /\ \A d \in Callers : /\ Listed(D[d])
                            /\ D[d] # Idle => /\ D[d].calm = FALSE
                                              /\ D[d].phase = calls[d].phase
                                              /\ calls[d] # Idle
  BY DisturbedTyped
<1>2. calls' = [D EXCEPT ![c] = call]
  BY DEF Unsettled
<1> HIDE DEF D
<1>3. /\ calls' \in [Callers -> CallType]
      /\ calls'[c] = call
      /\ \A d \in Callers \ {c} : calls'[d] = D[d]
  BY <1>1, <1>2
<1>4. ASSUME NEW d \in Callers PROVE Listed(calls'[d])
  <2>1. CASE d = c
    BY <1>3, <2>1
  <2>2. CASE d # c
    <3>1. calls'[d] = D[d]
      BY <1>3, <2>2
    <3> QED BY <1>1, <3>1
  <2> QED BY <2>1, <2>2
<1>5. ASSUME NEW d \in Callers \ {c}, calls'[d] # Idle
      PROVE  calls'[d].calm = FALSE /\ calls'[d].phase = calls[d].phase /\ calls[d] # Idle
  BY <1>1, <1>3, <1>5
<1> QED BY <1>3, <1>4, <1>5

-----------------------------------------------------------------------------
LEMMA LimitsFacts ==
  ASSUME NEW L \in LimitsAtHand
  PROVE  /\ L.max_entries \in Nat \ {0} /\ L.max_bytes \in Nat \ {0}
         /\ L.ttl \in Nat \cup {NoTtl}
  BY BoundsAssumption

LEMMA TypedParts ==
  ASSUME Typed
  PROVE  /\ now \in Nat /\ now \in 0 .. now
         /\ inner \in InnerType(0 .. now) /\ AccountedFor(inner) /\ Evictable(inner)
         /\ limits \in LimitsAtHand
         /\ durable \in BOOLEAN /\ held \in SUBSET Tokens
         /\ enabled \in BOOLEAN /\ cap \in Caps
         /\ writes \in 0 .. EnforceEvery - 1
         /\ DOMAIN files \in SUBSET Tokens /\ files \in [DOMAIN files -> 0 .. now]
         /\ files \in FilesType /\ torn \in SUBSET DOMAIN files /\ torn \in SUBSET Tokens
         /\ calls \in [Callers -> CallType]
         /\ \A c \in Callers : calls[c] \in CallType /\ Listed(calls[c])
<1>1. /\ files \in [DOMAIN files -> 0 .. now] /\ DOMAIN files \in SUBSET Tokens
      /\ torn \in SUBSET DOMAIN files
  BY DEF Typed, TypeOK
<1>2. files \in [DOMAIN files -> Nat]
  BY <1>1
<1>3. files \in FilesType
  BY <1>1, <1>2 DEF FilesType
<1> QED BY <1>1, <1>3 DEF Typed, TypeOK

(* The types hold again when those of every variable do.                   *)
LEMMA TypedFrom ==
  ASSUME now' \in Nat,
         inner' \in InnerType(0 .. now'), AccountedFor(inner'), Evictable(inner'),
         limits' \in LimitsAtHand, durable' \in BOOLEAN, held' \in SUBSET Tokens,
         enabled' \in BOOLEAN, cap' \in Caps, writes' \in 0 .. EnforceEvery - 1,
         DOMAIN files' \in SUBSET Tokens, files' \in [DOMAIN files' -> 0 .. now'],
         torn' \in SUBSET DOMAIN files',
         calls' \in [Callers -> CallType], \A c \in Callers : Listed(calls'[c])
  PROVE  Typed'
<1>1. AccountedFor(inner)' /\ Evictable(inner)' /\ inner' \in InnerType(0 .. now)'
  BY DEF AccountedFor, Evictable, Resident, Queued, InnerType
<1>2. \A t \in DOMAIN files' : files'[t] \in 0 .. now'
  OBVIOUS
<1>3. TypeOK'
  BY <1>1, <1>2 DEF TypeOK, Caps
<1>4. (\A c \in Callers : Listed(calls[c]))'
  BY DEF Listed, Idle, Listings
<1>5. (calls \in [Callers -> CallType])'
  BY DEF CallType
<1> QED BY <1>3, <1>4, <1>5 DEF Typed

(* A step that only moves a call on.                                       *)
LEMMA GotoKeepsTyped ==
  ASSUME Typed, NEW c \in Callers, NEW call \in CallType, Listed(call), calls' = Goto(c, call),
         UNCHANGED <<inner, config, disk, now>>,
         held' \in SUBSET Tokens, writes' \in 0 .. EnforceEvery - 1
  PROVE  Typed'
<1>1. calls' \in [Callers -> CallType] /\ \A d \in Callers : Listed(calls'[d])
  BY GotoTyped
<1>2. UNCHANGED <<inner, limits, durable, enabled, cap, files, torn, now>>
  BY DEF config, disk
<1> QED BY <1>1, <1>2, TypedParts, TypedFrom

LEMMA RemovedFacts ==
  ASSUME Typed, NEW S, files' = Removed(S)
  PROVE  /\ DOMAIN files' = DOMAIN files \ S
         /\ DOMAIN files' \in SUBSET Tokens
         /\ files' \in [DOMAIN files' -> 0 .. now]
         /\ \A t \in DOMAIN files' : files'[t] = files[t]
         /\ torn \ S \in SUBSET DOMAIN files'
<1>1. /\ DOMAIN files \in SUBSET Tokens /\ files \in [DOMAIN files -> 0 .. now]
      /\ torn \in SUBSET DOMAIN files
  BY TypedParts
<1> QED BY <1>1 DEF Removed

LEMMA TouchedFacts ==
  ASSUME Typed, NEW t \in Tokens, files' = Touched(t)
  PROVE  /\ DOMAIN files' = DOMAIN files \cup {t}
         /\ DOMAIN files' \in SUBSET Tokens
         /\ files' \in [DOMAIN files' -> 0 .. now]
         /\ files'[t] = now
         /\ torn \cup {t} \in SUBSET DOMAIN files' /\ torn \ {t} \in SUBSET DOMAIN files'
<1>1. /\ DOMAIN files \in SUBSET Tokens /\ files \in [DOMAIN files -> 0 .. now]
      /\ now \in 0 .. now /\ torn \in SUBSET DOMAIN files
  BY TypedParts
<1> QED BY <1>1 DEF Touched

LEMMA RestartedFacts ==
  ASSUME NEW n \in Nat
  PROVE  /\ EmptyInner \in InnerType(0 .. n) /\ AccountedFor(EmptyInner) /\ Evictable(EmptyInner)
         /\ [c \in Callers |-> Idle] \in [Callers -> CallType]
         /\ \A c \in Callers : [d \in Callers |-> Idle][c] = Idle
         /\ Listed(Idle)
         /\ 0 \in 0 .. EnforceEvery - 1
<1>1. EnforceEvery \in Nat \ {0}
  BY BoundsAssumption
<1>2. EmptyInner \in InnerType(0 .. n) /\ AccountedFor(EmptyInner) /\ Evictable(EmptyInner)
  <2> DEFINE L == [max_entries |-> 0, max_bytes |-> 0]
  <2>1. L.max_entries \in Nat /\ L.max_bytes \in Nat
    OBVIOUS
  <2> HIDE DEF L
  <2> QED BY <2>1, EmptyInnerFacts
<1>3. Idle \in CallType /\ Listed(Idle)
  BY DEF CallType, Listed
<1> QED BY <1>1, <1>2, <1>3

LEMMA InitTyped == Init => Typed
<1> SUFFICES ASSUME Init PROVE Typed
  OBVIOUS
<1>1. /\ inner = EmptyInner /\ calls = [c \in Callers |-> Idle] /\ writes = 0
      /\ limits \in LimitsAtHand /\ durable \in BOOLEAN /\ held = {}
      /\ enabled \in BOOLEAN /\ cap \in Caps
      /\ files = [t \in {} |-> 0] /\ torn = {} /\ now = 0
  BY DEF Init, Restarted
<1>2. DOMAIN files = {} /\ files \in [{} -> 0 .. now]
  BY <1>1
<1>3. now \in Nat
  BY <1>1
<1>4. /\ inner \in InnerType(0 .. now) /\ AccountedFor(inner) /\ Evictable(inner)
      /\ calls \in [Callers -> CallType] /\ \A c \in Callers : Listed(calls[c])
      /\ writes \in 0 .. EnforceEvery - 1
  BY <1>1, <1>3, RestartedFacts
<1> QED BY <1>1, <1>2, <1>3, <1>4 DEF Typed, TypeOK

-----------------------------------------------------------------------------
(* Where the step of a call changes inner or the files, the others of its  *)
(* kind are told, and the types follow from those of what has changed.     *)
LEMMA UnsettledKeepsTyped ==
  ASSUME Typed, NEW c \in Callers, NEW call \in CallType, Listed(call),
         calls' = Unsettled(c, call), UNCHANGED <<config, held, now>>,
         inner' \in InnerType(0 .. now), AccountedFor(inner'), Evictable(inner'),
         DOMAIN files' \in SUBSET Tokens, files' \in [DOMAIN files' -> 0 .. now],
         torn' \in SUBSET DOMAIN files', writes' \in 0 .. EnforceEvery - 1
  PROVE  Typed'
<1>1. calls' \in [Callers -> CallType] /\ \A d \in Callers : Listed(calls'[d])
  BY UnsettledTyped
<1>2. UNCHANGED <<limits, durable, enabled, cap, held, now>>
  BY DEF config
<1> QED BY <1>1, <1>2, TypedParts, TypedFrom

(* A call is at a phase of its operation.                                  *)
LEMMA OffloadParts ==
  ASSUME NEW call \in OffloadCalls
  PROVE  /\ call \in CallType /\ call # Idle /\ call.op = "offload"
         /\ call.token \in Tokens /\ call.limits \in LimitsAtHand /\ call.cap \in Caps
         /\ call.listing \in ListingType
         /\ call.retained \in BOOLEAN /\ call.calm \in BOOLEAN
         /\ call.phase \in {"insert", "disk", "list", "remove", "durable", "answer"}
  BY DEF OffloadCalls, CallType, Idle

LEMMA RetrieveParts ==
  ASSUME NEW call \in RetrieveCalls
  PROVE  /\ call \in CallType /\ call # Idle /\ call.op = "retrieve"
         /\ call.token \in Tokens /\ call.limits \in LimitsAtHand
         /\ call.found \in BOOLEAN /\ call.calm \in BOOLEAN
         /\ call.phase \in {"lookup", "durable", "stat", "unlink", "read", "answer"}
         /\ Listed(call)
  BY DEF RetrieveCalls, CallType, Idle, Listed

LEMMA GcParts ==
  ASSUME NEW call \in GcCalls
  PROVE  /\ call \in CallType /\ call # Idle /\ call.op = "gc"
         /\ call.limits \in LimitsAtHand /\ call.cap \in Caps
         /\ call.listing \in ListingType /\ call.calm \in BOOLEAN
         /\ call.phase \in {"list", "remove", "answer"}
  BY DEF GcCalls, CallType, Idle

(* The call of an offload after each of its steps.                         *)
LEMMA OffloadBegins ==
  ASSUME Typed, NEW c \in Callers, NEW t \in Tokens, OffloadBegin(c, t)
  PROVE  \E call \in OffloadCalls :
           /\ calls' = Goto(c, call) /\ Listed(call)
           /\ call.phase = "insert" /\ call.token = t /\ call.limits = limits
           /\ call.retained = FALSE
<1> DEFINE call == [op |-> "offload", phase |-> "insert", token |-> t, limits |-> limits,
                    cap |-> NoCap, listing |-> NotListed, retained |-> FALSE, calm |-> TRUE]
<1>1. calls' = Goto(c, call)
  BY DEF OffloadBegin
<1>2. limits \in LimitsAtHand /\ NoCap \in Caps /\ NotListed \in ListingType
  BY TypedParts DEF Caps, ListingType
<1>3. call \in OffloadCalls
  BY <1>2 DEF OffloadCalls
<1>4. /\ call.phase = "insert" /\ call.token = t /\ call.limits = limits
      /\ call.retained = FALSE
  OBVIOUS
<1> HIDE DEF call
<1> QED BY <1>1, <1>3, <1>4 DEF Listed

LEMMA OffloadInserts ==
  ASSUME Typed, NEW c \in Callers, OffloadInsert(c)
  PROVE  /\ calls[c] \in OffloadCalls
         /\ \E r \in Inserts(inner, calls[c].token, calls[c].limits, now), call \in OffloadCalls :
              /\ inner' = r.inner
              /\ calls' = Unsettled(c, call) /\ Listed(call)
              /\ call.phase = "disk" /\ call.token = calls[c].token
              /\ call.limits = calls[c].limits /\ call.calm = calls[c].calm
              /\ r.retained \in BOOLEAN /\ call.retained = r.retained
              /\ inner' \in InnerType(0 .. now) /\ AccountedFor(inner') /\ Evictable(inner')
<1>1. calls[c] \in OffloadCalls
  BY TypedParts, CallParts DEF OffloadInsert, At
<1>2. PICK r \in Inserts(inner, calls[c].token, calls[c].limits, now) :
        /\ inner' = r.inner
        /\ calls' = Unsettled(c, [calls[c] EXCEPT !.phase = "disk", !.retained = r.retained])
  BY DEF OffloadInsert
<1>3. /\ r.inner \in InnerType(0 .. now) /\ AccountedFor(r.inner) /\ Evictable(r.inner)
      /\ r.retained \in BOOLEAN
  BY <1>1, TypedParts, OffloadParts, LimitsFacts, InsertsPreserve
<1> DEFINE call == [calls[c] EXCEPT !.phase = "disk", !.retained = r.retained]
<1>4. /\ call \in OffloadCalls
      /\ call.phase = "disk" /\ call.token = calls[c].token
      /\ call.limits = calls[c].limits /\ call.calm = calls[c].calm
      /\ call.retained = r.retained
  BY <1>1, <1>3 DEF OffloadCalls
<1>5. calls' = Unsettled(c, call)
  BY <1>2
<1> HIDE DEF call
<1>6. Listed(call)
  BY <1>4 DEF Listed
<1> QED BY <1>1, <1>2, <1>3, <1>4, <1>5, <1>6

(* disk_tier::put does nothing, empties the file in a write that fails, or *)
(* writes it and perhaps will sweep.                                       *)
LEMMA DiskPuts ==
  ASSUME Typed, NEW c \in Callers, DiskPut(c)
  PROVE  /\ calls[c] \in OffloadCalls /\ calls[c].phase = "disk"
         /\ \E call \in OffloadCalls :
              /\ Listed(call)
              /\ call.token = calls[c].token
              /\ call.limits = calls[c].limits /\ call.calm = calls[c].calm
              /\ call.phase \in {"durable", "list"}
              /\ \/ /\ calls' = Goto(c, call) /\ UNCHANGED <<disk, writes>>
                    /\ call.retained = calls[c].retained
                 \/ /\ calls' = Unsettled(c, call) /\ files' = Touched(call.token)
                    /\ torn' = torn \cup {call.token} /\ writes' = writes
                    /\ call.retained = calls[c].retained
                 \/ /\ calls' = Unsettled(c, call) /\ enabled /\ files' = Touched(call.token)
                    /\ torn' = torn \ {call.token}
                    /\ writes' \in 0 .. EnforceEvery - 1
<1>1. calls[c] \in OffloadCalls /\ calls[c].phase = "disk"
  BY TypedParts, CallParts DEF DiskPut, At
<1> DEFINE past == [calls[c] EXCEPT !.phase = "durable"]
           n == (writes + 1) % EnforceEvery
           sweeps == n = 0 /\ (calls[c].limits.ttl # NoTtl \/ cap # NoCap)
           next == [past EXCEPT !.phase = IF sweeps THEN "list" ELSE @,
                                !.retained = TRUE, !.cap = cap]
<1>2. \/ calls' = Goto(c, past) /\ UNCHANGED <<disk, writes>>
      \/ /\ files' = Touched(calls[c].token) /\ torn' = torn \cup {calls[c].token}
         /\ calls' = Unsettled(c, past) /\ writes' = writes
      \/ /\ enabled /\ files' = Touched(calls[c].token) /\ torn' = torn \ {calls[c].token}
         /\ calls' = Unsettled(c, next) /\ writes' = n
  BY Zenon DEF DiskPut
<1>3. /\ past \in OffloadCalls
      /\ past.phase = "durable" /\ past.token = calls[c].token
      /\ past.limits = calls[c].limits /\ past.calm = calls[c].calm
      /\ past.retained = calls[c].retained
  BY <1>1 DEF OffloadCalls
<1>4. n \in 0 .. EnforceEvery - 1
  <2>1. EnforceEvery \in Nat \ {0} /\ writes \in 0 .. EnforceEvery - 1
    BY BoundsAssumption, TypedParts
  <2> QED BY <2>1
<1>5. cap \in Caps
  BY TypedParts
<1> HIDE DEF past, sweeps
<1>6. /\ next \in OffloadCalls
      /\ next.phase \in {"durable", "list"} /\ next.token = calls[c].token
      /\ next.limits = calls[c].limits /\ next.calm = calls[c].calm
  BY <1>3, <1>5 DEF OffloadCalls
<1> HIDE DEF next, n
<1>7. Listed(past) /\ Listed(next)
  BY <1>3, <1>6 DEF Listed
<1>8. CASE calls' = Goto(c, past) /\ UNCHANGED <<disk, writes>>
  BY <1>1, <1>3, <1>7, <1>8
<1>9. CASE /\ files' = Touched(calls[c].token) /\ torn' = torn \cup {calls[c].token}
           /\ calls' = Unsettled(c, past) /\ writes' = writes
  BY <1>1, <1>3, <1>7, <1>9
<1>10. CASE /\ enabled /\ files' = Touched(calls[c].token) /\ torn' = torn \ {calls[c].token}
            /\ calls' = Unsettled(c, next) /\ writes' = n
  BY <1>1, <1>4, <1>6, <1>7, <1>10
<1> QED BY <1>2, <1>8, <1>9, <1>10

LEMMA DurablePuts ==
  ASSUME Typed, NEW c \in Callers, DurablePut(c)
  PROVE  /\ calls[c] \in OffloadCalls
         /\ held \subseteq held' /\ held' \in SUBSET Tokens
         /\ \E call \in OffloadCalls :
              /\ calls' = Goto(c, call) /\ Listed(call)
              /\ call.phase = "answer" /\ call.token = calls[c].token
              /\ call.limits = calls[c].limits /\ call.calm = calls[c].calm
              /\ call.retained => calls[c].retained \/ (durable /\ call.token \in held')
<1>1. calls[c] \in OffloadCalls
  BY TypedParts, CallParts DEF DurablePut, At
<1>2. PICK retained \in BOOLEAN, same_token \in BOOLEAN :
        /\ retained => durable
        /\ held' = IF retained /\ same_token THEN held \cup {calls[c].token} ELSE held
        /\ calls' = Goto(c, [calls[c] EXCEPT !.phase = "answer",
                                             !.retained = @ \/ (retained /\ same_token)])
  BY Zenon DEF DurablePut
<1> DEFINE kept == calls[c].retained \/ (retained /\ same_token)
           call == [calls[c] EXCEPT !.phase = "answer", !.retained = kept]
<1>3. calls' = Goto(c, call)
  BY <1>2
<1>4. kept \in BOOLEAN
  BY <1>1, OffloadParts
<1>5. kept => calls[c].retained \/ (durable /\ calls[c].token \in held')
  BY <1>2
<1>6. held \subseteq held' /\ held' \in SUBSET Tokens
  BY <1>1, <1>2, TypedParts, OffloadParts
<1> HIDE DEF kept
<1>7. /\ call \in OffloadCalls
      /\ call.phase = "answer" /\ call.token = calls[c].token
      /\ call.limits = calls[c].limits /\ call.calm = calls[c].calm
  BY <1>1, <1>4 DEF OffloadCalls
<1>8. call.retained = kept
  BY <1>1 DEF OffloadCalls
<1> HIDE DEF call
<1>9. Listed(call)
  BY <1>7 DEF Listed
<1>10. call.retained => calls[c].retained \/ (durable /\ call.token \in held')
  BY <1>5, <1>7, <1>8
<1> QED BY <1>1, <1>3, <1>6, <1>7, <1>9, <1>10

LEMMA GcBegins ==
  ASSUME Typed, NEW c \in Callers, GcBegin(c)
  PROVE  \E call \in GcCalls :
           calls' = Goto(c, call) /\ Listed(call) /\ call.phase = "list"
<1>1. PICK l \in LimitsAtHand, budget \in Caps :
        calls' = Goto(c, [op |-> "gc", phase |-> "list", limits |-> l, cap |-> budget,
                          listing |-> NotListed, calm |-> TRUE])
  BY DEF GcBegin
<1> DEFINE call == [op |-> "gc", phase |-> "list", limits |-> l, cap |-> budget,
                    listing |-> NotListed, calm |-> TRUE]
<1>2. call \in GcCalls
  BY DEF GcCalls, ListingType
<1>3. call.phase = "list"
  OBVIOUS
<1>4. calls' = Goto(c, call)
  BY <1>1
<1> HIDE DEF call
<1> QED BY <1>2, <1>3, <1>4 DEF Listed

LEMMA ByAgeTyped ==
  ASSUME NEW f \in FilesType, NEW q \in ByAge(f)
  PROVE  /\ Cardinality(DOMAIN f) \in Nat
         /\ q \in [1 .. Cardinality(DOMAIN f) -> DOMAIN f]
         /\ q \in Seq(Tokens)
         /\ DOMAIN f \in SUBSET Tokens
<1>1. DOMAIN f \in SUBSET Tokens
  BY DEF FilesType
<1>2. Cardinality(DOMAIN f) \in Nat
  BY <1>1, TokensAssumption, FS_Subset, FS_CardinalityType
<1>3. q \in [1 .. Cardinality(DOMAIN f) -> DOMAIN f]
  BY DEF ByAge
<1> DEFINE n == Cardinality(DOMAIN f)
<1>4. n \in Nat /\ q \in [1 .. n -> Tokens]
  BY <1>1, <1>2, <1>3
<1> HIDE DEF n
<1>5. q \in Seq(Tokens)
  BY <1>4
<1> QED BY <1>1, <1>2, <1>3, <1>5

(* The listing keeps what it has seen with the call.                       *)
LEMMA SweepListings ==
  ASSUME Typed, NEW c \in Callers, SweepLists(c)
  PROVE  /\ calls[c] \in OffloadCalls \cup GcCalls
         /\ \E call \in OffloadCalls \cup GcCalls :
              /\ calls' = Goto(c, call) /\ Listed(call)
              /\ call.op = calls[c].op /\ call.phase = "remove"
              /\ call.limits = calls[c].limits /\ call.calm = calls[c].calm
              /\ call.listing.times = files /\ call.listing.torn = torn /\ call.listing.at = now
              /\ call.op = "offload" => /\ call.token = calls[c].token
                                        /\ call.retained = calls[c].retained
<1>1. calls[c] \in CallType /\ calls[c] # Idle /\ calls[c].phase = "list"
  BY TypedParts DEF SweepLists
<1>2. calls[c] \in OffloadCalls \cup GcCalls
  BY <1>1 DEF CallType, RetrieveCalls
<1>3. PICK q \in ByAge(files) :
        calls' = Goto(c, [calls[c] EXCEPT !.phase = "remove",
                            !.listing = [queue |-> q, times |-> files, torn |-> torn, at |-> now]])
  BY DEF SweepLists
<1> DEFINE listing == [queue |-> q, times |-> files, torn |-> torn, at |-> now]
           call == [calls[c] EXCEPT !.phase = "remove", !.listing = listing]
<1>4. listing \in Listings
  <2>1. files \in FilesType /\ now \in Nat /\ q \in Seq(Tokens)
    BY TypedParts, ByAgeTyped
  <2>2. torn \in SUBSET Tokens
    BY TypedParts
  <2> QED BY <2>1, <2>2 DEF Listings
<1>5. listing.times = files /\ listing.torn = torn /\ listing.at = now
  OBVIOUS
<1>6. calls' = Goto(c, call)
  BY <1>3
<1> HIDE DEF listing
<1>7. CASE calls[c] \in OffloadCalls
  <2>1. /\ call \in OffloadCalls /\ call.op = calls[c].op /\ call.phase = "remove"
        /\ call.limits = calls[c].limits /\ call.calm = calls[c].calm
        /\ call.listing = listing /\ call.token = calls[c].token
        /\ call.retained = calls[c].retained
    BY <1>4, <1>7 DEF OffloadCalls, ListingType
  <2> HIDE DEF call
  <2> QED BY <1>2, <1>4, <1>5, <1>6, <2>1 DEF Listed
<1>8. CASE calls[c] \in GcCalls
  <2>1. /\ call \in GcCalls /\ call.op = calls[c].op /\ call.phase = "remove"
        /\ call.limits = calls[c].limits /\ call.calm = calls[c].calm
        /\ call.listing = listing /\ call.op = "gc"
    BY <1>4, <1>8 DEF GcCalls, ListingType
  <2> HIDE DEF call
  <2> QED BY <1>2, <1>4, <1>5, <1>6, <2>1 DEF Listed
<1> QED BY <1>2, <1>7, <1>8

(* What a sweep removes: what has expired and is there, and for a cap what *)
(* Evicted says of the rest.                                               *)
Removable(call) == DOMAIN files \ Protected(call)

GoneExpired(call) == Expired(call) \cap DOMAIN files

Rest(call) == DOMAIN call.listing.times \ GoneExpired(call)

GoneForCap(call) ==
  IF call.cap = NoCap THEN {}
  ELSE Evicted(call.listing.queue, Rest(call), call.listing.torn, Removable(call), call.cap)

LEMMA SweepRemovals ==
  ASSUME Typed, NEW c \in Callers, SweepRemoves(c)
  PROVE  /\ calls[c] \in OffloadCalls \cup GcCalls /\ calls[c].phase = "remove"
         /\ calls[c].listing \in Listings
         /\ files' = Removed(GoneExpired(calls[c]) \cup GoneForCap(calls[c]))
         /\ torn' = torn \ (GoneExpired(calls[c]) \cup GoneForCap(calls[c]))
         /\ \E call \in OffloadCalls \cup GcCalls :
              /\ calls' = Unsettled(c, call) /\ Listed(call)
              /\ call.op = calls[c].op /\ call.phase \in {"durable", "answer"}
              /\ call.limits = calls[c].limits /\ call.calm = calls[c].calm
              /\ call.op = "offload" => /\ call.token = calls[c].token
                                        /\ call.retained = calls[c].retained
<1>1. calls[c] \in CallType /\ calls[c] # Idle /\ calls[c].phase = "remove" /\ Listed(calls[c])
  BY TypedParts DEF SweepRemoves
<1>2. calls[c] \in OffloadCalls \cup GcCalls
  BY <1>1 DEF CallType, RetrieveCalls
<1>3. calls[c].listing \in Listings
  BY <1>1 DEF Listed
<1>4. /\ files' = Removed(GoneExpired(calls[c]) \cup GoneForCap(calls[c]))
      /\ torn' = torn \ (GoneExpired(calls[c]) \cup GoneForCap(calls[c]))
  BY DEF SweepRemoves, GoneExpired, GoneForCap, Rest, Removable
<1> DEFINE to == IF calls[c].op = "gc" THEN "answer" ELSE "durable"
           call == [calls[c] EXCEPT !.listing = NotListed, !.phase = to]
<1>5. calls' = Unsettled(c, call)
  BY DEF SweepRemoves
<1>6. CASE calls[c] \in OffloadCalls
  <2>1. to = "durable"
    BY <1>6 DEF OffloadCalls
  <2> HIDE DEF to
  <2>2. /\ call \in OffloadCalls /\ call.op = calls[c].op /\ call.phase = "durable"
        /\ call.limits = calls[c].limits /\ call.calm = calls[c].calm
        /\ call.token = calls[c].token /\ call.retained = calls[c].retained
    BY <1>6, <2>1 DEF OffloadCalls, ListingType
  <2> HIDE DEF call
  <2> QED BY <1>1, <1>2, <1>3, <1>4, <1>5, <2>2 DEF Listed
<1>7. CASE calls[c] \in GcCalls
  <2>1. to = "answer"
    BY <1>7 DEF GcCalls
  <2> HIDE DEF to
  <2>2. /\ call \in GcCalls /\ call.op = calls[c].op /\ call.phase = "answer"
        /\ call.limits = calls[c].limits /\ call.calm = calls[c].calm
        /\ call.op = "gc"
    BY <1>7, <2>1 DEF GcCalls, ListingType
  <2> HIDE DEF call
  <2> QED BY <1>1, <1>2, <1>3, <1>4, <1>5, <2>2 DEF Listed
<1> QED BY <1>2, <1>6, <1>7

(* The call of a retrieve after each of its steps.                         *)
LEMMA RetrieveBegins ==
  ASSUME Typed, NEW c \in Callers, NEW t \in Tokens, RetrieveBegin(c, t)
  PROVE  \E call \in RetrieveCalls :
           /\ calls' = Goto(c, call)
           /\ call.phase = "lookup" /\ call.token = t /\ call.limits = limits
           /\ call.calm => Retrievable(t)
           /\ call.whole
<1> DEFINE R == Retrievable(t)
           call == [op |-> "retrieve", phase |-> "lookup", token |-> t, limits |-> limits,
                    found |-> FALSE, whole |-> TRUE, calm |-> R]
<1>1. calls' = Goto(c, call)
  BY DEF RetrieveBegin
<1>2. limits \in LimitsAtHand /\ R \in BOOLEAN
  BY TypedParts DEF Retrievable
<1>3. R => Retrievable(t)
  OBVIOUS
<1> HIDE DEF R
<1>4. call \in RetrieveCalls
  BY <1>2 DEF RetrieveCalls
<1>5. call.phase = "lookup" /\ call.token = t /\ call.limits = limits /\ call.calm = R
      /\ call.whole
  OBVIOUS
<1> HIDE DEF call
<1> QED BY <1>1, <1>3, <1>4, <1>5

LEMMA RetrieveLookups ==
  ASSUME Typed, NEW c \in Callers, RetrieveLookup(c)
  PROVE  /\ calls[c] \in RetrieveCalls /\ calls[c].phase = "lookup"
         /\ \E call \in RetrieveCalls :
              /\ call.token = calls[c].token
              /\ call.limits = calls[c].limits /\ call.calm = calls[c].calm
              /\ call.whole = calls[c].whole
              /\ \/ /\ call.phase = "answer" /\ call.found /\ inner' = inner
                    /\ calls' = Goto(c, call)
                 \/ /\ call.phase = "durable"
                    /\ ~( /\ call.token \in Resident(inner)
                          /\ Fresh(inner.map[call.token], call.limits.ttl) )
                    /\ inner' = Dropped(inner, {call.token})
                    /\ \/ calls' = Goto(c, call) /\ inner' = inner
                       \/ calls' = Unsettled(c, call)
<1>1. calls[c] \in RetrieveCalls /\ calls[c].phase = "lookup"
  BY TypedParts, CallParts DEF RetrieveLookup, At
<1> DEFINE t == calls[c].token
           hit == t \in Resident(inner) /\ Fresh(inner.map[t], calls[c].limits.ttl)
<1>2. CASE hit
  <2> DEFINE call == [calls[c] EXCEPT !.found = TRUE, !.phase = "answer"]
  <2>1. hit = TRUE
    BY <1>2 DEF Fresh
  <2>2. inner' = inner
    BY <1>2, <2>1 DEF RetrieveLookup
  <2>3. calls' = Goto(c, [calls[c] EXCEPT !.found = hit, !.phase = IF hit THEN "answer" ELSE "durable"])
    BY <2>2 DEF RetrieveLookup
  <2> HIDE DEF hit
  <2>4. calls' = Goto(c, call)
    BY <2>1, <2>3
  <2>5. /\ call \in RetrieveCalls /\ call.phase = "answer" /\ call.found
        /\ call.token = calls[c].token /\ call.limits = calls[c].limits
        /\ call.calm = calls[c].calm
        /\ call.whole = calls[c].whole
    BY <1>1 DEF RetrieveCalls
  <2> HIDE DEF call
  <2> QED BY <1>1, <2>2, <2>4, <2>5
<1>3. CASE ~hit
  <2> DEFINE call == [calls[c] EXCEPT !.found = FALSE, !.phase = "durable"]
  <2>1. hit = FALSE
    BY <1>3 DEF Fresh
  <2>2. inner' = Dropped(inner, {t})
    BY <1>3, <2>1 DEF RetrieveLookup
  <2>3. \/ calls' = Goto(c, [calls[c] EXCEPT !.found = hit,
                                             !.phase = IF hit THEN "answer" ELSE "durable"])
           /\ inner' = inner
        \/ calls' = Unsettled(c, [calls[c] EXCEPT !.found = hit,
                                                  !.phase = IF hit THEN "answer" ELSE "durable"])
    BY DEF RetrieveLookup
  <2>4. ~( t \in Resident(inner) /\ Fresh(inner.map[t], calls[c].limits.ttl) )
    BY <1>3
  <2> HIDE DEF hit
  <2>5. \/ calls' = Goto(c, call) /\ inner' = inner
        \/ calls' = Unsettled(c, call)
    BY <2>1, <2>3
  <2>6. /\ call \in RetrieveCalls /\ call.phase = "durable"
        /\ call.token = t /\ call.limits = calls[c].limits
        /\ call.calm = calls[c].calm
        /\ call.whole = calls[c].whole
    BY <1>1 DEF RetrieveCalls
  <2> HIDE DEF call
  <2> QED BY <1>1, <2>2, <2>4, <2>5, <2>6
<1> QED BY <1>2, <1>3

LEMMA RetrieveDurables ==
  ASSUME Typed, NEW c \in Callers, RetrieveDurable(c)
  PROVE  /\ calls[c] \in RetrieveCalls /\ calls[c].phase = "durable"
         /\ \E call \in RetrieveCalls :
              /\ calls' = Goto(c, call)
              /\ call.token = calls[c].token
              /\ call.limits = calls[c].limits /\ call.calm = calls[c].calm
              /\ call.whole = calls[c].whole
              /\ \/ call.phase = "answer" /\ call.found
                 \/ call.phase = "stat" /\ ~(durable /\ call.token \in held)
<1>1. calls[c] \in RetrieveCalls /\ calls[c].phase = "durable"
  BY TypedParts, CallParts DEF RetrieveDurable, At
<1> DEFINE found == durable /\ calls[c].token \in held
           call == [calls[c] EXCEPT !.found = found, !.phase = IF found THEN "answer" ELSE "stat"]
<1>2. calls' = Goto(c, call)
  BY DEF RetrieveDurable
<1>3. found \in BOOLEAN
  BY TypedParts
<1>4. ~found => ~(durable /\ calls[c].token \in held)
  OBVIOUS
<1> HIDE DEF found
<1>5. CASE found = TRUE
  <2>1. /\ call \in RetrieveCalls /\ call.token = calls[c].token
        /\ call.limits = calls[c].limits /\ call.calm = calls[c].calm
        /\ call.whole = calls[c].whole
        /\ call.phase = "answer" /\ call.found
    BY <1>1, <1>5 DEF RetrieveCalls
  <2> HIDE DEF call
  <2> QED BY <1>1, <1>2, <2>1
<1>6. CASE found = FALSE
  <2>1. /\ call \in RetrieveCalls /\ call.token = calls[c].token
        /\ call.limits = calls[c].limits /\ call.calm = calls[c].calm
        /\ call.whole = calls[c].whole
        /\ call.phase = "stat"
    BY <1>1, <1>6 DEF RetrieveCalls
  <2> HIDE DEF call
  <2> QED BY <1>1, <1>2, <1>4, <1>6, <2>1
<1> QED BY <1>3, <1>5, <1>6

LEMMA RetrieveStats ==
  ASSUME Typed, NEW c \in Callers, RetrieveStat(c)
  PROVE  /\ calls[c] \in RetrieveCalls /\ calls[c].phase = "stat"
         /\ \E call \in RetrieveCalls :
              /\ calls' = Goto(c, call)
              /\ call.token = calls[c].token
              /\ call.limits = calls[c].limits /\ call.calm = calls[c].calm
              /\ call.whole = calls[c].whole
              /\ \/ call.phase = "answer" /\ ~enabled
                 \/ /\ call.phase = "unlink"
                    /\ Present(call.token) /\ ~Fresh(files[call.token], call.limits.ttl)
                 \/ call.phase = "read"
<1>1. calls[c] \in RetrieveCalls /\ calls[c].phase = "stat"
  BY TypedParts, CallParts DEF RetrieveStat, At
<1> DEFINE expired == Present(calls[c].token)
                      /\ ~Fresh(files[calls[c].token], calls[c].limits.ttl)
           to == CASE ~enabled           -> "answer"
                   [] enabled /\ expired -> "unlink"
                   [] OTHER              -> "read"
           call == [calls[c] EXCEPT !.phase = to]
<1>2. calls' = Goto(c, call)
  BY DEF RetrieveStat
<1>3. \/ to = "answer" /\ ~enabled
      \/ to = "unlink" /\ Present(calls[c].token)
         /\ ~Fresh(files[calls[c].token], calls[c].limits.ttl)
      \/ to = "read"
  <2>1. expired => Present(calls[c].token)
                   /\ ~Fresh(files[calls[c].token], calls[c].limits.ttl)
    OBVIOUS
  <2> HIDE DEF expired
  <2>2. \/ to = "answer" /\ ~enabled
        \/ to = "unlink" /\ expired
        \/ to = "read"
    <3>1. CASE ~enabled /\ ~expired
      BY <3>1
    <3>2. CASE enabled
      BY <3>2
    <3>3. CASE ~enabled /\ expired
      BY <3>3
    <3> QED BY <3>1, <3>2, <3>3
  <2> QED BY <2>1, <2>2
<1> HIDE DEF to
<1>4. /\ call \in RetrieveCalls /\ call.token = calls[c].token
      /\ call.limits = calls[c].limits /\ call.calm = calls[c].calm
      /\ call.whole = calls[c].whole
      /\ call.phase = to
  BY <1>1, <1>3 DEF RetrieveCalls
<1> HIDE DEF call
<1> QED BY <1>1, <1>2, <1>3, <1>4

LEMMA RetrieveUnlinks ==
  ASSUME Typed, NEW c \in Callers, RetrieveUnlink(c)
  PROVE  /\ calls[c] \in RetrieveCalls /\ calls[c].phase = "unlink"
         /\ files' = Removed({calls[c].token}) /\ torn' = torn \ {calls[c].token}
         /\ \E call \in RetrieveCalls :
              /\ calls' = Unsettled(c, call)
              /\ call.calm = calls[c].calm /\ call.phase = "answer"
<1>1. calls[c] \in RetrieveCalls /\ calls[c].phase = "unlink"
  BY TypedParts, CallParts DEF RetrieveUnlink, At
<1> DEFINE call == [calls[c] EXCEPT !.phase = "answer"]
<1>2. /\ calls' = Unsettled(c, call)
      /\ files' = Removed({calls[c].token}) /\ torn' = torn \ {calls[c].token}
  BY DEF RetrieveUnlink
<1>3. call \in RetrieveCalls /\ call.calm = calls[c].calm /\ call.phase = "answer"
  BY <1>1 DEF RetrieveCalls
<1> HIDE DEF call
<1> QED BY <1>1, <1>2, <1>3

LEMMA RetrieveReads ==
  ASSUME Typed, NEW c \in Callers, RetrieveRead(c)
  PROVE  /\ calls[c] \in RetrieveCalls /\ calls[c].phase = "read"
         /\ \E call \in RetrieveCalls :
              /\ calls' = Goto(c, call)
              /\ call.limits = calls[c].limits /\ call.calm = calls[c].calm
              /\ call.phase = "answer"
              /\ Present(calls[c].token) => call.found
              /\ calls[c].token \notin torn => call.whole
<1>1. calls[c] \in RetrieveCalls /\ calls[c].phase = "read"
  BY TypedParts, CallParts DEF RetrieveRead, At
<1> DEFINE found == Present(calls[c].token)
           whole == calls[c].token \notin torn
           call == [calls[c] EXCEPT !.phase = "answer", !.found = found, !.whole = whole]
<1>2. calls' = Goto(c, call)
  BY DEF RetrieveRead
<1>3. /\ found \in BOOLEAN /\ (Present(calls[c].token) => found)
      /\ whole \in BOOLEAN /\ (calls[c].token \notin torn => whole)
  BY DEF Present
<1> HIDE DEF found, whole
<1>4. /\ call \in RetrieveCalls /\ call.limits = calls[c].limits
      /\ call.calm = calls[c].calm /\ call.phase = "answer" /\ call.found = found
      /\ call.whole = whole
  BY <1>1, <1>3 DEF RetrieveCalls
<1> HIDE DEF call
<1> QED BY <1>1, <1>2, <1>3, <1>4

-----------------------------------------------------------------------------
(* Every step of a call keeps the types.                                   *)
LEMMA OffloadTyped ==
  ASSUME Typed, NEW c \in Callers, Offload(c)
  PROVE  Typed'
<1>0. held \in SUBSET Tokens /\ writes \in 0 .. EnforceEvery - 1
  BY TypedParts
<1>1. ASSUME NEW t \in Tokens, OffloadBegin(c, t) PROVE Typed'
  <2>1. PICK call \in OffloadCalls : calls' = Goto(c, call) /\ Listed(call)
    BY <1>1, OffloadBegins
  <2>2. UNCHANGED <<inner, config, held, writes, disk, now>>
    BY <1>1 DEF OffloadBegin
  <2> QED BY <1>0, <2>1, <2>2, OffloadParts, GotoKeepsTyped
<1>2. CASE OffloadInsert(c)
  <2>1. PICK call \in OffloadCalls :
          /\ calls' = Unsettled(c, call) /\ Listed(call)
          /\ inner' \in InnerType(0 .. now) /\ AccountedFor(inner') /\ Evictable(inner')
    BY <1>2, OffloadInserts
  <2>2. UNCHANGED <<config, held, writes, disk, now>>
    BY <1>2 DEF OffloadInsert
  <2>3. /\ DOMAIN files' \in SUBSET Tokens /\ files' \in [DOMAIN files' -> 0 .. now]
        /\ torn' \in SUBSET DOMAIN files'
    BY <2>2, TypedParts DEF disk
  <2> QED BY <1>0, <2>1, <2>2, <2>3, OffloadParts, UnsettledKeepsTyped
<1>3. CASE DiskPut(c)
  <2>1. PICK call \in OffloadCalls :
          /\ Listed(call)
          /\ \/ calls' = Goto(c, call) /\ UNCHANGED <<disk, writes>>
             \/ /\ calls' = Unsettled(c, call) /\ files' = Touched(call.token)
                /\ torn' \in {torn \cup {call.token}, torn \ {call.token}}
                /\ writes' \in 0 .. EnforceEvery - 1
    BY <1>0, <1>3, DiskPuts
  <2>2. UNCHANGED <<inner, config, held, now>>
    BY <1>3 DEF DiskPut
  <2>3. CASE calls' = Goto(c, call) /\ UNCHANGED <<disk, writes>>
    BY <1>0, <2>1, <2>2, <2>3, OffloadParts, GotoKeepsTyped
  <2>4. CASE /\ calls' = Unsettled(c, call) /\ files' = Touched(call.token)
             /\ torn' \in {torn \cup {call.token}, torn \ {call.token}}
             /\ writes' \in 0 .. EnforceEvery - 1
    <3>1. call.token \in Tokens /\ call \in CallType
      BY OffloadParts
    <3>2. /\ DOMAIN files' \in SUBSET Tokens /\ files' \in [DOMAIN files' -> 0 .. now]
          /\ torn' \in SUBSET DOMAIN files'
      BY <2>4, <3>1, TouchedFacts
    <3>3. inner' \in InnerType(0 .. now) /\ AccountedFor(inner') /\ Evictable(inner')
      BY <2>2, TypedParts
    <3> QED BY <2>1, <2>2, <2>4, <3>1, <3>2, <3>3, UnsettledKeepsTyped
  <2> QED BY <2>1, <2>3, <2>4
<1>4. CASE DurablePut(c)
  <2>1. PICK call \in OffloadCalls : calls' = Goto(c, call) /\ Listed(call)
    BY <1>4, DurablePuts
  <2>2. UNCHANGED <<inner, config, writes, disk, now>>
    BY <1>4 DEF DurablePut
  <2>3. held' \in SUBSET Tokens
    BY <1>4, DurablePuts
  <2> QED BY <1>0, <2>1, <2>2, <2>3, OffloadParts, GotoKeepsTyped
<1> QED BY <1>1, <1>2, <1>3, <1>4 DEF Offload

LEMMA SweepTyped ==
  ASSUME Typed, NEW c \in Callers, Sweep(c)
  PROVE  Typed'
<1>0. held \in SUBSET Tokens /\ writes \in 0 .. EnforceEvery - 1
  BY TypedParts
<1>1. CASE GcBegin(c)
  <2>1. PICK call \in GcCalls : calls' = Goto(c, call) /\ Listed(call)
    BY <1>1, GcBegins
  <2>2. UNCHANGED <<inner, config, held, writes, disk, now>>
    BY <1>1 DEF GcBegin
  <2> QED BY <1>0, <2>1, <2>2, GcParts, GotoKeepsTyped
<1>2. CASE SweepLists(c)
  <2>1. PICK call \in OffloadCalls \cup GcCalls : calls' = Goto(c, call) /\ Listed(call)
    BY <1>2, SweepListings
  <2>2. UNCHANGED <<inner, config, held, writes, disk, now>>
    BY <1>2 DEF SweepLists
  <2>3. call \in CallType
    BY DEF CallType
  <2> QED BY <1>0, <2>1, <2>2, <2>3, GotoKeepsTyped
<1>3. CASE SweepRemoves(c)
  <2>1. PICK call \in OffloadCalls \cup GcCalls : calls' = Unsettled(c, call) /\ Listed(call)
    BY <1>3, SweepRemovals
  <2>2. UNCHANGED <<inner, config, held, writes, now>>
    BY <1>3 DEF SweepRemoves
  <2>3. call \in CallType
    BY DEF CallType
  <2>4. /\ DOMAIN files' \in SUBSET Tokens /\ files' \in [DOMAIN files' -> 0 .. now]
        /\ torn' \in SUBSET DOMAIN files'
    <3> PICK S : files' = Removed(S) /\ torn' = torn \ S
      BY <1>3, SweepRemovals
    <3> QED BY RemovedFacts
  <2>5. inner' \in InnerType(0 .. now) /\ AccountedFor(inner') /\ Evictable(inner')
    BY <2>2, TypedParts
  <2> QED BY <1>0, <2>1, <2>2, <2>3, <2>4, <2>5, UnsettledKeepsTyped
<1> QED BY <1>1, <1>2, <1>3 DEF Sweep

LEMMA RetrieveTyped ==
  ASSUME Typed, NEW c \in Callers, Retrieve(c)
  PROVE  Typed'
<1>0. held \in SUBSET Tokens /\ writes \in 0 .. EnforceEvery - 1
  BY TypedParts
<1>1. ASSUME NEW t \in Tokens, RetrieveBegin(c, t) PROVE Typed'
  <2>1. PICK call \in RetrieveCalls : calls' = Goto(c, call)
    BY <1>1, RetrieveBegins
  <2>2. UNCHANGED <<inner, config, held, writes, disk, now>>
    BY <1>1 DEF RetrieveBegin
  <2> QED BY <1>0, <2>1, <2>2, RetrieveParts, GotoKeepsTyped
<1>2. CASE RetrieveLookup(c)
  <2>1. PICK call \in RetrieveCalls :
          \/ calls' = Goto(c, call) /\ inner' = inner
          \/ calls' = Unsettled(c, call) /\ inner' = Dropped(inner, {call.token})
    BY <1>2, RetrieveLookups
  <2>2. UNCHANGED <<config, held, writes, disk, now>>
    BY <1>2 DEF RetrieveLookup
  <2>3. call \in CallType /\ Listed(call)
    BY RetrieveParts
  <2>4. CASE calls' = Goto(c, call) /\ inner' = inner
    BY <1>0, <2>2, <2>3, <2>4, GotoKeepsTyped
  <2>5. CASE calls' = Unsettled(c, call) /\ inner' = Dropped(inner, {call.token})
    <3>1. inner' \in InnerType(0 .. now) /\ AccountedFor(inner')
          /\ Resident(inner') \subseteq Resident(inner) /\ inner'.order = inner.order
      BY <2>5, TypedParts, DroppedPreserves
    <3>2. Evictable(inner')
      BY <3>1, TypedParts DEF Evictable, Queued
    <3>3. /\ DOMAIN files' \in SUBSET Tokens /\ files' \in [DOMAIN files' -> 0 .. now]
          /\ torn' \in SUBSET DOMAIN files'
      BY <2>2, TypedParts DEF disk
    <3> QED BY <1>0, <2>2, <2>3, <2>5, <3>1, <3>2, <3>3, UnsettledKeepsTyped
  <2> QED BY <2>1, <2>4, <2>5
<1>3. CASE RetrieveDurable(c) \/ RetrieveStat(c) \/ RetrieveRead(c)
  <2>1. PICK call \in RetrieveCalls : calls' = Goto(c, call)
    BY <1>3, RetrieveDurables, RetrieveStats, RetrieveReads
  <2>2. UNCHANGED <<inner, config, held, writes, disk, now>>
    BY <1>3 DEF RetrieveDurable, RetrieveStat, RetrieveRead
  <2> QED BY <1>0, <2>1, <2>2, RetrieveParts, GotoKeepsTyped
<1>4. CASE RetrieveUnlink(c)
  <2>1. PICK call \in RetrieveCalls : calls' = Unsettled(c, call)
    BY <1>4, RetrieveUnlinks
  <2>2. UNCHANGED <<inner, config, held, writes, now>>
    BY <1>4 DEF RetrieveUnlink
  <2>3. call \in CallType /\ Listed(call)
    BY RetrieveParts
  <2>4. /\ DOMAIN files' \in SUBSET Tokens /\ files' \in [DOMAIN files' -> 0 .. now]
        /\ torn' \in SUBSET DOMAIN files'
    <3> PICK S : files' = Removed(S) /\ torn' = torn \ S
      BY <1>4, RetrieveUnlinks
    <3> QED BY RemovedFacts
  <2>5. inner' \in InnerType(0 .. now) /\ AccountedFor(inner') /\ Evictable(inner')
    BY <2>2, TypedParts
  <2> QED BY <1>0, <2>1, <2>2, <2>3, <2>4, <2>5, UnsettledKeepsTyped
<1> QED BY <1>1, <1>2, <1>3, <1>4 DEF Retrieve

LEMMA DisturbedKeepsTyped ==
  ASSUME Typed, calls' = Disturbed(calls), UNCHANGED <<held, writes>>,
         now' \in Nat, inner' = inner, inner \in InnerType(0 .. now'),
         limits' \in LimitsAtHand, durable' = durable, enabled' \in BOOLEAN, cap' \in Caps,
         DOMAIN files' \in SUBSET Tokens, files' \in [DOMAIN files' -> 0 .. now'],
         torn' \in SUBSET DOMAIN files'
  PROVE  Typed'
<1>1. calls' \in [Callers -> CallType] /\ \A d \in Callers : Listed(calls'[d])
  BY DisturbedTyped
<1> QED BY <1>1, TypedParts, TypedFrom

LEMMA NextTyped == Typed /\ [Next]_vars => Typed'
<1> SUFFICES ASSUME Typed, [Next]_vars PROVE Typed'
  OBVIOUS
<1>0. /\ DOMAIN files \in SUBSET Tokens /\ files \in [DOMAIN files -> 0 .. now]
      /\ inner \in InnerType(0 .. now) /\ now \in Nat
      /\ limits \in LimitsAtHand /\ enabled \in BOOLEAN /\ cap \in Caps
      /\ torn \in SUBSET DOMAIN files
  BY TypedParts
<1>1. ASSUME NEW l \in LimitsAtHand, Configure(l) PROVE Typed'
  BY <1>0, <1>1, DisturbedKeepsTyped DEF Configure, disk
<1>2. ASSUME NEW on \in BOOLEAN, NEW bytes \in Caps, ConfigureDisk(on, bytes) PROVE Typed'
  BY <1>0, <1>2, DisturbedKeepsTyped DEF ConfigureDisk, disk
<1>3. ASSUME NEW t \in Tokens, OtherProcess(t) PROVE Typed'
  <2>1. /\ DOMAIN files' \in SUBSET Tokens /\ files' \in [DOMAIN files' -> 0 .. now]
        /\ torn' \in SUBSET DOMAIN files'
    <3>1. CASE files' = Touched(t) /\ torn' \in {torn \cup {t}, torn \ {t}}
      BY <3>1, TouchedFacts
    <3>2. CASE files' = Removed({t}) /\ torn' = torn \ {t}
      BY <3>2, RemovedFacts
    <3> QED BY <1>3, <3>1, <3>2 DEF OtherProcess
  <2>2. /\ calls' = Disturbed(calls)
        /\ UNCHANGED <<inner, limits, durable, enabled, cap, held, writes, now>>
    BY <1>3 DEF OtherProcess, config
  <2> QED BY <1>0, <2>1, <2>2, DisturbedKeepsTyped
<1>4. CASE Restart
  <2>1. /\ inner' = EmptyInner /\ calls' = [c \in Callers |-> Idle] /\ writes' = 0
        /\ durable' \in BOOLEAN /\ held' = {} /\ limits' \in LimitsAtHand
        /\ UNCHANGED <<enabled, cap, files, torn, now>>
    BY <1>4 DEF Restart, Restarted, disk
  <2>2. /\ inner' \in InnerType(0 .. now) /\ AccountedFor(inner') /\ Evictable(inner')
        /\ calls' \in [Callers -> CallType] /\ \A d \in Callers : Listed(calls'[d])
        /\ writes' \in 0 .. EnforceEvery - 1
    BY <1>0, <2>1, RestartedFacts
  <2> QED BY <1>0, <2>1, <2>2, TypedFrom
<1>5. CASE Tick
  <2>1. /\ now' = now + 1 /\ calls' = Disturbed(calls)
        /\ UNCHANGED <<inner, limits, durable, enabled, cap, held, writes, files, torn>>
    BY <1>5 DEF Tick, config, disk
  <2>2. now' \in Nat /\ 0 .. now \subseteq 0 .. now'
    BY <1>0, <2>1
  <2>3. inner \in InnerType(0 .. now')
    BY <1>0, <2>2, InnerTypeGrows
  <2>4. /\ DOMAIN files' \in SUBSET Tokens /\ files' \in [DOMAIN files' -> 0 .. now']
        /\ torn' \in SUBSET DOMAIN files'
    BY <1>0, <2>1, <2>2
  <2> QED BY <1>0, <2>1, <2>2, <2>3, <2>4, DisturbedKeepsTyped
<1>6. ASSUME NEW c \in Callers, Offload(c) \/ Sweep(c) \/ Retrieve(c) PROVE Typed'
  BY <1>6, OffloadTyped, SweepTyped, RetrieveTyped
<1>7. ASSUME NEW c \in Callers, Answer(c) PROVE Typed'
  <2>1. Idle \in CallType /\ Listed(Idle)
    BY DEF CallType, Listed
  <2>2. calls' = Goto(c, Idle) /\ UNCHANGED <<inner, config, held, writes, disk, now>>
    BY <1>7 DEF Answer
  <2>3. held' \in SUBSET Tokens /\ writes' \in 0 .. EnforceEvery - 1
    BY <2>2, TypedParts
  <2> QED BY <2>1, <2>2, <2>3, GotoKeepsTyped
<1>8. CASE UNCHANGED vars
  <2>1. UNCHANGED <<inner, limits, durable, enabled, cap, held, writes, files, torn, calls, now>>
    BY <1>8 DEF vars, config, disk
  <2> QED BY <2>1, TypedParts, TypedFrom
<1> QED BY <1>1, <1>2, <1>3, <1>4, <1>5, <1>6, <1>7, <1>8 DEF Next

(* Whatever the threads, the commands and the other processes do, every    *)
(* variable keeps its type, the running byte total is that of what is      *)
(* resident, and what is resident can be evicted (Inner, store.rs).        *)
THEOREM TypeCorrect == Spec => []TypeOK
<1>1. Typed => TypeOK
  BY DEF Typed
<1> QED BY <1>1, InitTyped, NextTyped, PTL DEF Spec

-----------------------------------------------------------------------------
(***************************************************************************)
(* What a call that nobody has come between can rely on.                   *)
(***************************************************************************)
InMemory(t) == t \in Resident(inner) /\ Fresh(inner.map[t], limits.ttl)

InTier(t) == durable /\ t \in held

InFile(t) == enabled /\ Whole(t) /\ Fresh(files[t], limits.ttl)

CalmSweep(call) ==
  call.phase = "remove" =>
    call.listing.times = files /\ call.listing.torn = torn /\ call.listing.at = now

(* Before the file is written only the memory can have retained it, which  *)
(* a write that fails leaves alone.                                        *)
CalmOffload(call) ==
  call.op = "offload" =>
    /\ call.limits = limits
    /\ call.phase = "disk" /\ call.retained => InMemory(call.token) \/ limits.ttl = 0
    /\ call.retained => Retrievable(call.token) \/ limits.ttl = 0

CalmRetrieve(call) ==
  call.op = "retrieve" =>
    /\ call.limits = limits
    /\ call.phase = "lookup" => Retrievable(call.token)
    /\ call.phase = "durable" => InTier(call.token) \/ InFile(call.token)
    /\ call.phase \in {"stat", "read"} => InFile(call.token)
    /\ call.phase # "unlink"
    /\ call.phase = "answer" => call.found
    /\ call.whole

CalmCall(call) ==
  call # Idle /\ call.calm => CalmSweep(call) /\ CalmOffload(call) /\ CalmRetrieve(call)

CalmInv == \A c \in Callers : CalmCall(calls[c])

LEMMA RetrievableWhere ==
  ASSUME NEW t
  PROVE  Retrievable(t) <=> InMemory(t) \/ InTier(t) \/ InFile(t)
  BY DEF Retrievable, InMemory, InTier, InFile

(* A call that is not calm has nothing to rely on.                         *)
LEMMA NotCalm ==
  ASSUME NEW call, call = Idle \/ call.calm = FALSE
  PROVE  CalmCall(call)'
  BY DEF CalmCall, Idle

(* The tiers lose nothing by a step that leaves all but the durable tier   *)
(* alone and adds to that.                                                 *)
LEMMA QuietPlaces ==
  ASSUME UNCHANGED <<inner, config, disk, now>>, held \subseteq held', NEW t
  PROVE  /\ InMemory(t) => InMemory(t)'
         /\ InTier(t) => InTier(t)'
         /\ InFile(t) => InFile(t)'
         /\ Retrievable(t) => Retrievable(t)'
         /\ limits' = limits /\ files' = files /\ torn' = torn /\ now' = now
<1>1. UNCHANGED <<inner, limits, durable, enabled, files, torn, now>>
  BY DEF config, disk
<1>2. InMemory(t) => InMemory(t)'
  BY <1>1 DEF InMemory, Fresh, Resident
<1>3. InTier(t) => InTier(t)'
  BY <1>1 DEF InTier
<1>4. InFile(t) => InFile(t)'
  BY <1>1 DEF InFile, Whole, Present, Fresh
<1>5. Retrievable(t) => Retrievable(t)'
  BY <1>1 DEF Retrievable, Whole, Present, Fresh, Resident
<1> QED BY <1>1, <1>2, <1>3, <1>4, <1>5

LEMMA QuietKeeps ==
  ASSUME UNCHANGED <<inner, config, disk, now>>, held \subseteq held', NEW call, CalmCall(call)
  PROVE  CalmCall(call)'
<1>0. /\ InMemory(call.token) => InMemory(call.token)'
      /\ InTier(call.token) => InTier(call.token)'
      /\ InFile(call.token) => InFile(call.token)'
      /\ Retrievable(call.token) => Retrievable(call.token)'
      /\ limits' = limits /\ files' = files /\ torn' = torn /\ now' = now
  BY QuietPlaces
<1> SUFFICES ASSUME call # Idle, call.calm
             PROVE  CalmSweep(call)' /\ CalmOffload(call)' /\ CalmRetrieve(call)'
  BY DEF CalmCall, Idle
<1>1. CalmSweep(call) /\ CalmOffload(call) /\ CalmRetrieve(call)
  BY DEF CalmCall
<1>2. CalmSweep(call)'
  BY <1>0, <1>1 DEF CalmSweep
<1>3. CalmOffload(call)'
  BY <1>0, <1>1 DEF CalmOffload
<1>4. CalmRetrieve(call)'
  BY <1>0, <1>1 DEF CalmRetrieve
<1> QED BY <1>2, <1>3, <1>4

LEMMA GotoCalm ==
  ASSUME Typed, CalmInv, NEW c \in Callers, NEW call \in CallType, Listed(call),
         calls' = Goto(c, call), UNCHANGED <<inner, config, disk, now>>, held \subseteq held',
         CalmCall(call)'
  PROVE  CalmInv'
<1>1. /\ calls'[c] = call
      /\ \A d \in Callers \ {c} : calls'[d] = calls[d]
  BY GotoTyped
<1>2. ASSUME NEW d \in Callers PROVE CalmCall(calls[d])'
  <2>1. CASE d = c
    BY <1>1, <2>1 DEF CalmCall, CalmSweep, CalmOffload, CalmRetrieve,
                      Retrievable, InMemory, InTier, InFile
  <2>2. CASE d # c
    <3> PICK other : other = calls[d]
      OBVIOUS
    <3>1. calls'[d] = other
      BY <1>1, <2>2
    <3>2. CalmCall(other)
      BY DEF CalmInv
    <3>3. CalmCall(other)'
      BY <3>2, QuietKeeps
    <3> QED BY <3>1, <3>3 DEF CalmCall, CalmSweep, CalmOffload, CalmRetrieve,
                              Retrievable, InMemory, InTier, InFile
  <2> QED BY <2>1, <2>2
<1> QED BY <1>2 DEF CalmInv

LEMMA UnsettledCalm ==
  ASSUME Typed, NEW c \in Callers, NEW call \in CallType, Listed(call),
         calls' = Unsettled(c, call), CalmCall(call)'
  PROVE  CalmInv'
<1>1. /\ calls'[c] = call
      /\ \A d \in Callers \ {c} : calls'[d] # Idle => calls'[d].calm = FALSE
  BY UnsettledTyped
<1>2. ASSUME NEW d \in Callers PROVE CalmCall(calls[d])'
  <2>1. CASE d = c
    BY <1>1, <2>1 DEF CalmCall, CalmSweep, CalmOffload, CalmRetrieve,
                      Retrievable, InMemory, InTier, InFile
  <2>2. CASE d # c
    BY <1>1, <2>2 DEF CalmCall, Idle
  <2> QED BY <2>1, <2>2
<1> QED BY <1>2 DEF CalmInv

LEMMA DisturbedCalm ==
  ASSUME Typed, calls' = Disturbed(calls)
  PROVE  CalmInv'
<1>1. \A d \in Callers : calls'[d] # Idle => calls'[d].calm = FALSE
  BY DisturbedTyped
<1> QED BY <1>1 DEF CalmInv, CalmCall, Idle

-----------------------------------------------------------------------------
(* What has just been written is fresh, unless nothing ever is.            *)
LEMMA JustWritten ==
  ASSUME Typed, limits.ttl # 0
  PROVE  limits.ttl = NoTtl \/ now - now < limits.ttl
<1>1. limits.ttl \in Nat \cup {NoTtl} /\ now \in Nat
  BY TypedParts, LimitsFacts
<1> QED BY <1>1

(* What an offload that nobody has come between relies on, at each step.   *)
LEMMA OffloadCalm ==
  ASSUME Typed, CalmInv, NEW c \in Callers, Offload(c)
  PROVE  CalmInv'
<1>0. CalmCall(calls[c])
  BY DEF CalmInv
<1>1. ASSUME NEW t \in Tokens, OffloadBegin(c, t) PROVE CalmInv'
  <2>1. PICK call \in OffloadCalls :
          /\ calls' = Goto(c, call) /\ Listed(call)
          /\ call.phase = "insert" /\ call.limits = limits /\ call.retained = FALSE
    BY <1>1, OffloadBegins
  <2>2. UNCHANGED <<inner, config, held, disk, now>> /\ held \subseteq held' /\ limits' = limits
    BY <1>1 DEF OffloadBegin, config
  <2>3. CalmCall(call)'
    BY <2>1, <2>2, OffloadParts DEF CalmCall, CalmSweep, CalmOffload, CalmRetrieve
  <2> QED BY <2>1, <2>2, <2>3, OffloadParts, GotoCalm
<1>2. CASE OffloadInsert(c)
  <2>1. PICK r \in Inserts(inner, calls[c].token, calls[c].limits, now), call \in OffloadCalls :
          /\ inner' = r.inner
          /\ calls' = Unsettled(c, call) /\ Listed(call)
          /\ call.phase = "disk" /\ call.token = calls[c].token
          /\ call.limits = calls[c].limits /\ call.calm = calls[c].calm
          /\ r.retained \in BOOLEAN /\ call.retained = r.retained
    BY <1>2, OffloadInserts
  <2>2. calls[c] \in OffloadCalls /\ calls[c] # Idle /\ calls[c].op = "offload"
    BY <1>2, OffloadInserts, OffloadParts
  <2>3. limits' = limits /\ now' = now
    BY <1>2 DEF OffloadInsert, config
  <2>4. call.calm => call.limits = limits'
    BY <1>0, <2>1, <2>2, <2>3 DEF CalmCall, CalmOffload
  <2>5. call.retained /\ limits.ttl # 0 => (InMemory(call.token) /\ Retrievable(call.token))'
    <3> SUFFICES ASSUME limits.ttl # 0, call.retained
                 PROVE  (InMemory(call.token) /\ Retrievable(call.token))'
      OBVIOUS
    <3>1. call.token \in Resident(r.inner) /\ r.inner.map[call.token] = now
      BY <2>1, InsertsRetain
    <3>2. limits.ttl = NoTtl \/ now - now < limits.ttl
      BY JustWritten
    <3> QED BY <2>1, <2>3, <3>1, <3>2 DEF Retrievable, InMemory, Fresh, Resident
  <2>6. CalmCall(call)'
    BY <2>1, <2>3, <2>4, <2>5, OffloadParts
       DEF CalmCall, CalmSweep, CalmOffload, CalmRetrieve
  <2> QED BY <2>1, <2>6, OffloadParts, UnsettledCalm
<1>3. CASE DiskPut(c)
  <2>1. PICK call \in OffloadCalls :
          /\ Listed(call)
          /\ call.token = calls[c].token
          /\ call.limits = calls[c].limits /\ call.calm = calls[c].calm
          /\ call.phase \in {"durable", "list"}
          /\ \/ /\ calls' = Goto(c, call) /\ UNCHANGED <<disk, writes>>
                /\ call.retained = calls[c].retained
             \/ /\ calls' = Unsettled(c, call)
                /\ call.retained = calls[c].retained
             \/ /\ calls' = Unsettled(c, call) /\ enabled /\ files' = Touched(call.token)
                /\ torn' = torn \ {call.token}
    BY <1>3, DiskPuts
  <2>2. /\ calls[c] \in OffloadCalls /\ calls[c] # Idle /\ calls[c].op = "offload"
        /\ calls[c].phase = "disk"
    BY <1>3, DiskPuts, OffloadParts
  <2>3. UNCHANGED <<inner, config, held, now>> /\ held \subseteq held'
        /\ UNCHANGED <<limits, enabled, now>>
    BY <1>3 DEF DiskPut, config
  <2>4. call.calm => call.limits = limits'
    BY <1>0, <2>1, <2>2, <2>3 DEF CalmCall, CalmOffload
  <2>5. ASSUME call.retained = calls[c].retained PROVE CalmCall(call)'
    <3>1. call.calm /\ call.retained => InMemory(call.token) \/ limits.ttl = 0
      BY <1>0, <2>1, <2>2, <2>5 DEF CalmCall, CalmOffload
    <3>2. InMemory(call.token) => Retrievable(call.token)'
      BY <2>3 DEF InMemory, Retrievable, Fresh, Resident
    <3> QED BY <2>1, <2>3, <2>4, <3>1, <3>2, OffloadParts
            DEF CalmCall, CalmSweep, CalmOffload, CalmRetrieve
  <2>6. CASE calls' = Goto(c, call) /\ UNCHANGED <<disk, writes>>
             /\ call.retained = calls[c].retained
    BY <2>1, <2>3, <2>5, <2>6, OffloadParts, GotoCalm
  <2>7. CASE calls' = Unsettled(c, call) /\ call.retained = calls[c].retained
    BY <2>1, <2>5, <2>7, OffloadParts, UnsettledCalm
  <2>8. CASE /\ calls' = Unsettled(c, call) /\ enabled /\ files' = Touched(call.token)
             /\ torn' = torn \ {call.token}
    <3>1. call.token \in Tokens /\ call \in CallType
      BY OffloadParts
    <3>2. call.token \in DOMAIN files' /\ files'[call.token] = now
      BY <2>8, <3>1, TouchedFacts
    <3>3. limits.ttl # 0 => limits.ttl = NoTtl \/ now - now < limits.ttl
      BY JustWritten
    <3>4. limits.ttl # 0 => Retrievable(call.token)'
      BY <2>3, <2>8, <3>2, <3>3 DEF Retrievable, Whole, Present, Fresh
    <3>5. CalmCall(call)'
      BY <2>1, <2>3, <2>4, <3>4, OffloadParts
         DEF CalmCall, CalmSweep, CalmOffload, CalmRetrieve
    <3> QED BY <2>1, <2>8, <3>1, <3>5, UnsettledCalm
  <2> QED BY <2>1, <2>6, <2>7, <2>8
<1>4. CASE DurablePut(c)
  <2>1. PICK call \in OffloadCalls :
          /\ calls' = Goto(c, call) /\ Listed(call)
          /\ call.phase = "answer" /\ call.token = calls[c].token
          /\ call.limits = calls[c].limits /\ call.calm = calls[c].calm
          /\ call.retained => calls[c].retained \/ (durable /\ call.token \in held')
    BY <1>4, DurablePuts
  <2>2. calls[c] \in OffloadCalls /\ calls[c] # Idle /\ calls[c].op = "offload"
        /\ held \subseteq held'
    BY <1>4, DurablePuts, OffloadParts
  <2>3. UNCHANGED <<inner, config, disk, now>> /\ UNCHANGED <<limits, durable>>
    BY <1>4 DEF DurablePut, config
  <2>4. Retrievable(call.token) => Retrievable(call.token)'
    BY <2>2, <2>3, QuietPlaces
  <2>5. call.calm => call.limits = limits'
    BY <1>0, <2>1, <2>2, <2>3 DEF CalmCall, CalmOffload
  <2>6. durable /\ call.token \in held' => Retrievable(call.token)'
    BY <2>3 DEF Retrievable
  <2>7. call.calm /\ call.retained => Retrievable(call.token)' \/ limits.ttl = 0
    BY <1>0, <2>1, <2>2, <2>4, <2>6 DEF CalmCall, CalmOffload
  <2>8. CalmCall(call)'
    BY <2>1, <2>3, <2>5, <2>7, OffloadParts
       DEF CalmCall, CalmSweep, CalmOffload, CalmRetrieve
  <2> QED BY <2>1, <2>2, <2>3, <2>8, OffloadParts, GotoCalm
<1> QED BY <1>1, <1>2, <1>3, <1>4 DEF Offload

(* The sweep of an offload leaves the file it has just written, and of a   *)
(* listing that still holds, no file that is fresh has expired.            *)
LEMMA SweepSpares ==
  ASSUME Typed, NEW call \in OffloadCalls, NEW t, t = call.token,
         call.limits = limits, call.listing \in Listings,
         call.listing.times = files, call.listing.at = now,
         files' = Removed(GoneExpired(call) \cup GoneForCap(call)),
         torn' = torn \ (GoneExpired(call) \cup GoneForCap(call)),
         UNCHANGED <<inner, config, held, now>>, Retrievable(t)
  PROVE  Retrievable(t)'
<1>0. UNCHANGED <<inner, limits, durable, enabled, held, now>>
  BY DEF config
<1>1. CASE InFile(t)
  <2>1. /\ t \in DOMAIN files /\ t \notin torn /\ enabled
        /\ limits.ttl = NoTtl \/ now - files[t] < limits.ttl
    BY <1>1 DEF InFile, Whole, Present, Fresh
  <2>2. /\ limits.ttl \in Nat \cup {NoTtl}
        /\ now \in Nat /\ files[t] \in 0 .. now
    BY <2>1, TypedParts, LimitsFacts
  <2>3. t \notin Expired(call)
    <3>1. files[t] \in Int /\ now \in Int
      BY <2>2
    <3> QED BY <2>1, <2>2, <3>1 DEF Expired
  <2>4. t \notin Removable(call)
    BY OffloadParts DEF Removable, Protected
  <2>5. t \notin GoneExpired(call) \cup GoneForCap(call)
    BY <2>3, <2>4 DEF GoneExpired, GoneForCap, Evicted
  <2>6. t \in DOMAIN files' /\ files'[t] = files[t]
    <3> PICK S : S = GoneExpired(call) \cup GoneForCap(call)
      OBVIOUS
    <3>1. files' = Removed(S) /\ t \notin S
      BY <2>5
    <3>2. /\ DOMAIN files' = DOMAIN files \ S
          /\ \A u \in DOMAIN files' : files'[u] = files[u]
      BY <3>1, RemovedFacts
    <3> QED BY <2>1, <3>1, <3>2
  <2>7. t \notin torn'
    BY <2>1
  <2>8. Whole(t)'
    BY <2>6, <2>7 DEF Whole, Present
  <2>9. enabled' /\ Fresh(files[t], limits.ttl)'
    BY <1>0, <2>1, <2>6 DEF Fresh
  <2> QED BY <2>8, <2>9 DEF Retrievable
<1>2. CASE InMemory(t) \/ InTier(t)
  BY <1>0, <1>2 DEF InMemory, InTier, Retrievable, Fresh, Resident
<1> QED BY <1>1, <1>2, RetrievableWhere

LEMMA SweepCalm ==
  ASSUME Typed, CalmInv, NEW c \in Callers, Sweep(c)
  PROVE  CalmInv'
<1>0. CalmCall(calls[c])
  BY DEF CalmInv
<1>1. CASE GcBegin(c)
  <2>1. PICK call \in GcCalls : calls' = Goto(c, call) /\ Listed(call) /\ call.phase = "list"
    BY <1>1, GcBegins
  <2>2. UNCHANGED <<inner, config, held, disk, now>> /\ held \subseteq held'
    BY <1>1 DEF GcBegin
  <2>3. CalmCall(call)'
    BY <2>1, GcParts DEF CalmCall, CalmSweep, CalmOffload, CalmRetrieve
  <2> QED BY <2>1, <2>2, <2>3, GcParts, GotoCalm
<1>2. CASE SweepLists(c)
  <2>1. PICK call \in OffloadCalls \cup GcCalls :
          /\ calls' = Goto(c, call) /\ Listed(call)
          /\ call.op = calls[c].op /\ call.phase = "remove"
          /\ call.limits = calls[c].limits /\ call.calm = calls[c].calm
          /\ call.listing.times = files /\ call.listing.torn = torn /\ call.listing.at = now
          /\ call.op = "offload" => /\ call.token = calls[c].token
                                    /\ call.retained = calls[c].retained
    BY <1>2, SweepListings
  <2>2. UNCHANGED <<inner, config, held, disk, now>> /\ held \subseteq held'
        /\ UNCHANGED <<limits, files, torn, now>>
    BY <1>2 DEF SweepLists, config, disk
  <2>3. call \in CallType /\ call.op # "retrieve" /\ calls[c] # Idle
    BY <1>2, SweepListings, OffloadParts, GcParts
  <2>4. CalmSweep(call)'
    BY <2>1, <2>2 DEF CalmSweep
  <2>5. call.calm => CalmOffload(call)'
    <3>1. Retrievable(call.token) => Retrievable(call.token)'
      BY <2>2, QuietPlaces
    <3> QED BY <1>0, <2>1, <2>2, <2>3, <3>1 DEF CalmCall, CalmOffload
  <2>6. CalmCall(call)'
    BY <2>3, <2>4, <2>5 DEF CalmCall, CalmRetrieve
  <2> QED BY <2>1, <2>2, <2>3, <2>6, GotoCalm
<1>3. CASE SweepRemoves(c)
  <2>1. PICK call \in OffloadCalls \cup GcCalls :
          /\ calls' = Unsettled(c, call) /\ Listed(call)
          /\ call.op = calls[c].op /\ call.phase \in {"durable", "answer"}
          /\ call.limits = calls[c].limits /\ call.calm = calls[c].calm
          /\ call.op = "offload" => /\ call.token = calls[c].token
                                    /\ call.retained = calls[c].retained
    BY <1>3, SweepRemovals
  <2>2. UNCHANGED <<inner, config, held, now>> /\ limits' = limits
    BY <1>3 DEF SweepRemoves, config
  <2>3. call \in CallType /\ call.op # "retrieve" /\ calls[c] # Idle
    BY <1>3, SweepRemovals, OffloadParts, GcParts
  <2>4. ASSUME call.calm, call.op = "offload", limits.ttl # 0, call.retained
        PROVE  Retrievable(call.token)'
    <3> PICK old \in OffloadCalls \cup GcCalls : old = calls[c]
      BY <1>3, SweepRemovals
    <3>1. old \in OffloadCalls
      BY <2>1, <2>4, GcParts
    <3>2. /\ old.phase = "remove" /\ old.listing \in Listings
          /\ files' = Removed(GoneExpired(old) \cup GoneForCap(old))
          /\ torn' = torn \ (GoneExpired(old) \cup GoneForCap(old))
      BY <1>3, SweepRemovals
    <3>3. /\ old.token = call.token /\ old.limits = limits
          /\ old.listing.times = files /\ old.listing.at = now
          /\ Retrievable(call.token)
      BY <1>0, <2>1, <2>3, <2>4, <3>2 DEF CalmCall, CalmSweep, CalmOffload
    <3> QED BY <2>2, <3>1, <3>2, <3>3, SweepSpares
  <2>5. call.calm => CalmOffload(call)'
    <3>1. call.calm /\ call.op = "offload" => call.limits = limits'
      BY <1>0, <2>1, <2>2, <2>3 DEF CalmCall, CalmOffload
    <3> QED BY <2>1, <2>2, <2>4, <3>1 DEF CalmOffload
  <2>6. CalmCall(call)'
    BY <2>1, <2>3, <2>5 DEF CalmCall, CalmSweep, CalmRetrieve
  <2> QED BY <2>1, <2>3, <2>6, UnsettledCalm
<1> QED BY <1>1, <1>2, <1>3 DEF Sweep

(* What a retrieve that nobody has come between relies on, at each step.   *)
LEMMA RetrieveCalm ==
  ASSUME Typed, CalmInv, NEW c \in Callers, Retrieve(c)
  PROVE  CalmInv'
<1>0. CalmCall(calls[c])
  BY DEF CalmInv
<1>1. ASSUME NEW t \in Tokens, RetrieveBegin(c, t) PROVE CalmInv'
  <2>1. PICK call \in RetrieveCalls :
          /\ calls' = Goto(c, call)
          /\ call.phase = "lookup" /\ call.token = t /\ call.limits = limits
          /\ call.calm => Retrievable(t)
          /\ call.whole
    BY <1>1, RetrieveBegins
  <2>2. UNCHANGED <<inner, config, held, disk, now>> /\ held \subseteq held' /\ limits' = limits
    BY <1>1 DEF RetrieveBegin, config
  <2>3. call.calm => Retrievable(call.token)'
    BY <2>1, <2>2, QuietPlaces
  <2>4. CalmCall(call)'
    BY <2>1, <2>2, <2>3, RetrieveParts DEF CalmCall, CalmSweep, CalmOffload, CalmRetrieve
  <2> QED BY <2>1, <2>2, <2>4, RetrieveParts, GotoCalm
<1>2. CASE RetrieveLookup(c)
  <2>1. PICK call \in RetrieveCalls :
          /\ call.token = calls[c].token
          /\ call.limits = calls[c].limits /\ call.calm = calls[c].calm
          /\ call.whole = calls[c].whole
          /\ \/ /\ call.phase = "answer" /\ call.found /\ inner' = inner
                /\ calls' = Goto(c, call)
             \/ /\ call.phase = "durable"
                /\ ~( /\ call.token \in Resident(inner)
                      /\ Fresh(inner.map[call.token], call.limits.ttl) )
                /\ \/ calls' = Goto(c, call) /\ inner' = inner
                   \/ calls' = Unsettled(c, call)
    BY <1>2, RetrieveLookups
  <2>2. /\ calls[c] # Idle /\ calls[c].op = "retrieve" /\ calls[c].phase = "lookup"
        /\ call \in CallType /\ Listed(call) /\ call.op = "retrieve" /\ call # Idle
    BY <1>2, RetrieveLookups, RetrieveParts
  <2>3. UNCHANGED <<config, held, disk, now>> /\ held \subseteq held'
        /\ UNCHANGED <<limits, durable, enabled>>
    BY <1>2 DEF RetrieveLookup, config
  <2>4. CalmCall(call)'
    <3> SUFFICES ASSUME call.calm PROVE CalmRetrieve(call)'
      BY <2>1, <2>2 DEF CalmCall, CalmSweep, CalmOffload
    <3>1. call.limits = limits /\ Retrievable(call.token) /\ call.whole
      BY <1>0, <2>1, <2>2 DEF CalmCall, CalmRetrieve
    <3>2. CASE call.phase = "answer" /\ call.found
      BY <2>3, <3>1, <3>2 DEF CalmRetrieve
    <3>3. CASE /\ call.phase = "durable"
               /\ ~( /\ call.token \in Resident(inner)
                     /\ Fresh(inner.map[call.token], call.limits.ttl) )
      <4>1. ~InMemory(call.token)
        BY <3>1, <3>3 DEF InMemory
      <4>2. InTier(call.token) \/ InFile(call.token)
        BY <3>1, <4>1, RetrievableWhere
      <4>3. (InTier(call.token) \/ InFile(call.token))'
        BY <2>3, <4>2 DEF InTier, InFile, Whole, Present, Fresh, disk
      <4> QED BY <2>3, <3>1, <3>3, <4>3 DEF CalmRetrieve
    <3> QED BY <2>1, <3>2, <3>3
  <2>5. CASE calls' = Goto(c, call) /\ inner' = inner
    BY <2>2, <2>3, <2>4, <2>5, GotoCalm
  <2>6. CASE calls' = Unsettled(c, call)
    BY <2>2, <2>4, <2>6, UnsettledCalm
  <2> QED BY <2>1, <2>5, <2>6
<1>3. CASE RetrieveDurable(c) \/ RetrieveStat(c) \/ RetrieveRead(c)
  <2>0. UNCHANGED <<inner, config, held, disk, now>> /\ held \subseteq held' /\ limits' = limits
    BY <1>3 DEF RetrieveDurable, RetrieveStat, RetrieveRead, config
  <2>1. CASE RetrieveDurable(c)
    <3>1. PICK call \in RetrieveCalls :
            /\ calls' = Goto(c, call)
            /\ call.token = calls[c].token
            /\ call.limits = calls[c].limits /\ call.calm = calls[c].calm
            /\ call.whole = calls[c].whole
            /\ \/ call.phase = "answer" /\ call.found
               \/ call.phase = "stat" /\ ~(durable /\ call.token \in held)
      BY <2>1, RetrieveDurables
    <3>2. /\ calls[c] # Idle /\ calls[c].op = "retrieve" /\ calls[c].phase = "durable"
          /\ call \in CallType /\ Listed(call) /\ call.op = "retrieve" /\ call # Idle
      BY <2>1, RetrieveDurables, RetrieveParts
    <3>3. call.calm => /\ call.limits = limits /\ call.whole
                       /\ InTier(call.token) \/ InFile(call.token)
      BY <1>0, <3>1, <3>2 DEF CalmCall, CalmRetrieve
    <3>4. InFile(call.token) => InFile(call.token)'
      BY <2>0, QuietPlaces
    <3>5. CalmCall(call)'
      BY <2>0, <3>1, <3>2, <3>3, <3>4
         DEF CalmCall, CalmSweep, CalmOffload, CalmRetrieve, InTier
    <3> QED BY <2>0, <3>1, <3>2, <3>5, GotoCalm
  <2>2. CASE RetrieveStat(c)
    <3>1. PICK call \in RetrieveCalls :
            /\ calls' = Goto(c, call)
            /\ call.token = calls[c].token
            /\ call.limits = calls[c].limits /\ call.calm = calls[c].calm
            /\ call.whole = calls[c].whole
            /\ \/ call.phase = "answer" /\ ~enabled
               \/ /\ call.phase = "unlink"
                  /\ Present(call.token) /\ ~Fresh(files[call.token], call.limits.ttl)
               \/ call.phase = "read"
      BY <2>2, RetrieveStats
    <3>2. /\ calls[c] # Idle /\ calls[c].op = "retrieve" /\ calls[c].phase = "stat"
          /\ call \in CallType /\ Listed(call) /\ call.op = "retrieve" /\ call # Idle
      BY <2>2, RetrieveStats, RetrieveParts
    <3>3. call.calm => call.limits = limits /\ call.whole /\ InFile(call.token)
      BY <1>0, <3>1, <3>2 DEF CalmCall, CalmRetrieve
    <3>4. call.calm => call.phase = "read"
      BY <3>1, <3>3 DEF InFile, Whole
    <3>5. InFile(call.token) => InFile(call.token)'
      BY <2>0, QuietPlaces
    <3>6. CalmCall(call)'
      BY <2>0, <3>2, <3>3, <3>4, <3>5
         DEF CalmCall, CalmSweep, CalmOffload, CalmRetrieve
    <3> QED BY <2>0, <3>1, <3>2, <3>6, GotoCalm
  <2>3. CASE RetrieveRead(c)
    <3>1. PICK call \in RetrieveCalls :
            /\ calls' = Goto(c, call)
            /\ call.limits = calls[c].limits /\ call.calm = calls[c].calm
            /\ call.phase = "answer"
            /\ Present(calls[c].token) => call.found
            /\ calls[c].token \notin torn => call.whole
      BY <2>3, RetrieveReads
    <3>2. /\ calls[c] # Idle /\ calls[c].op = "retrieve" /\ calls[c].phase = "read"
          /\ call \in CallType /\ Listed(call) /\ call.op = "retrieve" /\ call # Idle
      BY <2>3, RetrieveReads, RetrieveParts
    <3>3. call.calm => call.limits = limits /\ InFile(calls[c].token)
      BY <1>0, <3>1, <3>2 DEF CalmCall, CalmRetrieve
    <3>4. CalmCall(call)'
      BY <2>0, <3>1, <3>2, <3>3
         DEF CalmCall, CalmSweep, CalmOffload, CalmRetrieve, InFile, Whole
    <3> QED BY <2>0, <3>1, <3>2, <3>4, GotoCalm
  <2> QED BY <1>3, <2>1, <2>2, <2>3
<1>4. CASE RetrieveUnlink(c)
  <2>1. PICK call \in RetrieveCalls :
          calls' = Unsettled(c, call) /\ call.calm = calls[c].calm
    BY <1>4, RetrieveUnlinks
  <2>2. /\ calls[c] # Idle /\ calls[c].op = "retrieve" /\ calls[c].phase = "unlink"
        /\ calls[c].calm \in BOOLEAN
    BY <1>4, RetrieveUnlinks, RetrieveParts
  <2>3. call.calm = FALSE
    BY <1>0, <2>1, <2>2 DEF CalmCall, CalmRetrieve
  <2> QED BY <2>1, <2>3, NotCalm, RetrieveParts, UnsettledCalm
<1> QED BY <1>1, <1>2, <1>3, <1>4 DEF Retrieve

LEMMA NextCalm == Typed /\ CalmInv /\ [Next]_vars => CalmInv'
<1> SUFFICES ASSUME Typed, CalmInv, [Next]_vars PROVE CalmInv'
  OBVIOUS
<1>1. ASSUME calls' = Disturbed(calls) PROVE CalmInv'
  BY <1>1, DisturbedCalm
<1>2. ASSUME NEW l \in LimitsAtHand, Configure(l) PROVE CalmInv'
  BY <1>1, <1>2 DEF Configure
<1>3. ASSUME NEW on \in BOOLEAN, NEW bytes \in Caps, ConfigureDisk(on, bytes) PROVE CalmInv'
  BY <1>1, <1>3 DEF ConfigureDisk
<1>4. ASSUME NEW t \in Tokens, OtherProcess(t) PROVE CalmInv'
  BY <1>1, <1>4 DEF OtherProcess
<1>5. CASE Tick
  BY <1>1, <1>5 DEF Tick
<1>6. CASE Restart
  <2>1. calls' = [c \in Callers |-> Idle]
    BY <1>6 DEF Restart, Restarted
  <2>2. \A c \in Callers : calls'[c] = Idle
    BY <2>1
  <2> QED BY <2>2 DEF CalmInv, CalmCall, Idle
<1>7. ASSUME NEW c \in Callers, Offload(c) \/ Sweep(c) \/ Retrieve(c) PROVE CalmInv'
  BY <1>7, OffloadCalm, SweepCalm, RetrieveCalm
<1>8. ASSUME NEW c \in Callers, Answer(c) PROVE CalmInv'
  <2>1. Idle \in CallType /\ Listed(Idle) /\ CalmCall(Idle)'
    BY NotCalm DEF CallType, Listed
  <2>2. calls' = Goto(c, Idle) /\ UNCHANGED <<inner, config, held, disk, now>>
        /\ held \subseteq held'
    BY <1>8 DEF Answer
  <2> QED BY <2>1, <2>2, GotoCalm
<1>9. CASE UNCHANGED vars
  <2>1. /\ UNCHANGED <<inner, config, disk, now>> /\ held \subseteq held' /\ calls' = calls
    BY <1>9 DEF vars
  <2>2. ASSUME NEW c \in Callers PROVE CalmCall(calls[c])'
    <3> PICK call : call = calls[c]
      OBVIOUS
    <3>1. CalmCall(call) /\ calls'[c] = call
      BY <2>1 DEF CalmInv
    <3>2. CalmCall(call)'
      BY <2>1, <3>1, QuietKeeps
    <3> QED BY <3>1, <3>2 DEF CalmCall, CalmSweep, CalmOffload, CalmRetrieve,
                              Retrievable, InMemory, InTier, InFile
  <2> QED BY <2>2 DEF CalmInv
<1> QED BY <1>2, <1>3, <1>4, <1>5, <1>6, <1>7, <1>8, <1>9 DEF Next

(* The inductive invariant: the types, and what every undisturbed call     *)
(* still relies on.                                                        *)
IInv == Typed /\ CalmInv

THEOREM InvariantHolds == Spec => []IInv
<1>1. Init => IInv
  <2>1. Init => CalmInv
    BY DEF Init, Restarted, CalmInv, CalmCall, Idle
  <2> QED BY <2>1, InitTyped DEF IInv
<1>2. IInv /\ [Next]_vars => IInv'
  BY NextTyped, NextCalm DEF IInv
<1> QED BY <1>1, <1>2, PTL DEF Spec

(* An original that offload has answered for can be retrieved as long as   *)
(* nobody comes between, from memory, the durable tier or the file that    *)
(* its own sweep has spared, whatever writes fail; limits under which      *)
(* everything has expired at once apart (offload_checked_with_hash).       *)
THEOREM AdvertisedIsKept == Spec => []AdvertisedIsRetrievable
<1>1. IInv => AdvertisedIsRetrievable
  BY DEF IInv, CalmInv, CalmCall, CalmOffload, AdvertisedIsRetrievable, At, Idle
<1> QED BY <1>1, InvariantHolds, PTL

(* A retrieve answers all of every original that one of the three tiers    *)
(* had when it began, as long as nobody comes between, under any lifetime  *)
(* (retrieve, with disk_tier::get behind it).                              *)
THEOREM RetrievableIsFound == Spec => []RetrievableIsAnswered
<1>1. IInv => RetrievableIsAnswered
  BY DEF IInv, CalmInv, CalmCall, CalmRetrieve, RetrievableIsAnswered, At, Idle
<1> QED BY <1>1, InvariantHolds, PTL

-----------------------------------------------------------------------------
(***************************************************************************)
(* What one pass over the kept, oldest first, takes away.                  *)
(***************************************************************************)
LEMMA BytesGrow ==
  ASSUME NEW B \in SUBSET Tokens, NEW A, A \subseteq B
  PROVE  Bytes[A] <= Bytes[B] /\ Bytes[A] \in Nat /\ Bytes[B] \in Nat
<1>1. /\ Bytes[B] = Bytes[B \ A] + Bytes[B \cap A]
      /\ Bytes[B \ A] \in Nat /\ Bytes[B \cap A] \in Nat /\ Bytes[B] \in Nat
  BY BytesOfDifference
<1>2. B \cap A = A
  OBVIOUS
<1>3. Bytes[B] = Bytes[B \ A] + Bytes[A] /\ Bytes[A] \in Nat
  BY <1>1, <1>2
<1>4. ASSUME NEW a \in Nat, NEW b \in Nat, NEW d \in Nat, b = d + a PROVE a <= b
  BY <1>4
<1> QED BY <1>1, <1>3, <1>4

(* A nonempty set of places has a first.                                   *)
LEMMA FirstPlace ==
  ASSUME NEW n \in Nat, NEW T, T \subseteq 1 .. n, T # {}
  PROVE  \E p \in T : \A k \in T : ~(k < p)
<1>1. IsFiniteSet(T) /\ Cardinality(T) \in Nat
  BY RankRange
<1>2. 1 \in 1 .. Cardinality(T)
  BY <1>1, FS_EmptySet
<1>3. PICK p \in T : Rank(T, p) = 1
  BY <1>2, RankOnto
<1>4. ASSUME NEW k \in T, k < p PROVE FALSE
  <2>1. Rank(T, k) \in 1 .. Cardinality(T)
    BY RankRange
  <2>2. Rank(T, k) < Rank(T, p)
    BY <1>4, RankInjective
  <2> QED BY <1>1, <1>3, <2>1, <2>2
<1> QED BY <1>4

(* Whatever is earlier than an earlier original is earlier.                *)
LEMMA EarlierThan ==
  ASSUME NEW f \in FilesType, NEW q \in ByAge(f),
         NEW i \in DOMAIN q, NEW t, t = q[i]
  PROVE  Earlier(q, t) = {q[k] : k \in {p \in DOMAIN q : p < i}}
<1> DEFINE n == Cardinality(DOMAIN f)
<1>1. n \in Nat /\ q \in [1 .. n -> DOMAIN f] /\ DOMAIN q = 1 .. n
  BY ByAgeTyped
<1>2. \A a, b \in 1 .. n : a < b => q[a] # q[b]
  BY DEF ByAge
<1> HIDE DEF n
<1>3. \A j \in 1 .. n : q[j] = t => j = i
  BY <1>1, <1>2
<1>4. \A k \in 1 .. n : (\E j \in DOMAIN q : k < j /\ q[j] = t) <=> k < i
  BY <1>1, <1>3
<1> QED BY <1>1, <1>4 DEF Earlier

LEMMA EvictedFacts ==
  ASSUME NEW f \in FilesType, NEW q \in ByAge(f), NEW K, K \subseteq DOMAIN f, NEW Z, NEW M,
         NEW max \in Nat
  PROVE  /\ Evicted(q, K, Z, M, max) \subseteq K \cap M
         /\ Evicted(q, K, Z, M, max) # {} => Bytes[K \ Z] > max
         /\ \A x \in Evicted(q, K, Z, M, max), y \in (K \cap M) \ Evicted(q, K, Z, M, max) :
              f[x] <= f[y]
         /\ (K \cap M) \ Evicted(q, K, Z, M, max) # {} =>
              Bytes[(K \ Evicted(q, K, Z, M, max)) \ Z] <= max
<1> DEFINE n == Cardinality(DOMAIN f)
           G == Evicted(q, K, Z, M, max)
           Left(t) == K \ (Earlier(q, t) \cap M)
<1>1. /\ n \in Nat /\ q \in [1 .. n -> DOMAIN f] /\ DOMAIN q = 1 .. n
      /\ DOMAIN f \in SUBSET Tokens /\ K \in SUBSET Tokens
  BY ByAgeTyped
<1>2. \A y \in DOMAIN f : \E j \in 1 .. n : q[j] = y
  BY DEF ByAge
<1>3. \A a, b \in 1 .. n : a < b => q[a] # q[b] /\ f[q[a]] <= f[q[b]]
  BY DEF ByAge
<1>4. \A t : t \in G <=> t \in K \cap M /\ Bytes[Left(t) \ Z] > max
  BY DEF Evicted
<1>5. \A t : /\ Left(t) \subseteq K /\ Left(t) \ Z \in SUBSET Tokens /\ Bytes[Left(t) \ Z] \in Nat
             /\ Bytes[Left(t) \ Z] <= Bytes[K \ Z]
  <2> SUFFICES ASSUME NEW t
               PROVE  /\ Left(t) \subseteq K /\ Left(t) \ Z \in SUBSET Tokens
                      /\ Bytes[Left(t) \ Z] \in Nat /\ Bytes[Left(t) \ Z] <= Bytes[K \ Z]
    OBVIOUS
  <2>1. Left(t) \subseteq K
    OBVIOUS
  <2> QED BY <1>1, <2>1, BytesGrow
<1>6. Bytes[K \ Z] \in Nat
  BY <1>1, BytesGrow
<1>7. \A i, j \in 1 .. n : i < j => Left(q[j]) \subseteq Left(q[i])
  <2> SUFFICES ASSUME NEW i \in 1 .. n, NEW j \in 1 .. n, i < j
               PROVE  Earlier(q, q[i]) \subseteq Earlier(q, q[j])
    OBVIOUS
  <2>1. /\ Earlier(q, q[i]) = {q[k] : k \in {p \in DOMAIN q : p < i}}
        /\ Earlier(q, q[j]) = {q[k] : k \in {p \in DOMAIN q : p < j}}
    BY <1>1, EarlierThan
  <2>2. {p \in DOMAIN q : p < i} \subseteq {p \in DOMAIN q : p < j}
    BY <1>1
  <2> QED BY <2>1, <2>2
<1> HIDE DEF Left, n, G
<1>8. G \subseteq K \cap M
  BY <1>4
<1>9. G # {} => Bytes[K \ Z] > max
  <2> SUFFICES ASSUME NEW x \in G PROVE Bytes[K \ Z] > max
    OBVIOUS
  <2>1. /\ Bytes[Left(x) \ Z] > max /\ Bytes[Left(x) \ Z] <= Bytes[K \ Z]
        /\ Bytes[Left(x) \ Z] \in Nat
    BY <1>4, <1>5
  <2> QED BY <1>6, <2>1
<1>10. ASSUME NEW x \in G, NEW y \in (K \cap M) \ G PROVE f[x] <= f[y]
  <2>1. PICK i \in 1 .. n, j \in 1 .. n : q[i] = x /\ q[j] = y
    BY <1>2, <1>8
  <2>2. CASE i < j
    BY <1>3, <2>1, <2>2
  <2>3. CASE j < i
    <3>1. Left(x) \subseteq Left(y)
      BY <1>7, <2>1, <2>3
    <3>2. Left(x) \ Z \subseteq Left(y) \ Z /\ Left(y) \ Z \in SUBSET Tokens
      BY <1>5, <3>1
    <3>3. Bytes[Left(x) \ Z] <= Bytes[Left(y) \ Z]
      BY <3>2, BytesGrow
    <3>4. /\ Bytes[Left(x) \ Z] \in Nat /\ Bytes[Left(y) \ Z] \in Nat
          /\ Bytes[Left(x) \ Z] > max
      BY <1>4, <1>5
    <3>5. Bytes[Left(y) \ Z] > max
      BY <3>3, <3>4
    <3> QED BY <1>4, <3>5
  <2>4. i # j
    BY <2>1
  <2> QED BY <1>1, <2>2, <2>3, <2>4
<1>11. ASSUME (K \cap M) \ G # {} PROVE Bytes[(K \ G) \ Z] <= max
  <2> DEFINE T == {p \in 1 .. n : q[p] \in (K \cap M) \ G}
  <2>1. T # {}
    BY <1>2, <1>11
  <2>2. T \subseteq 1 .. n
    OBVIOUS
  <2>3. PICK p \in T : \A k \in T : ~(k < p)
    <3> HIDE DEF T
    <3> QED BY <1>1, <2>1, <2>2, FirstPlace
  <2>4. Earlier(q, q[p]) = {q[k] : k \in {r \in DOMAIN q : r < p}}
    BY <1>1, EarlierThan
  <2>5. \A k \in 1 .. n : k < p /\ q[k] \in K \cap M => q[k] \in G
    BY <2>3
  <2>6. K \ G \subseteq Left(q[p])
    BY <1>1, <2>4, <2>5 DEF Left
  <2>7. Bytes[(K \ G) \ Z] <= Bytes[Left(q[p]) \ Z] /\ Bytes[(K \ G) \ Z] \in Nat
    BY <1>5, <2>6, BytesGrow
  <2>8. ~(Bytes[Left(q[p]) \ Z] > max)
    BY <1>4
  <2> QED BY <1>5, <2>7, <2>8
<1> QED BY <1>8, <1>9, <1>10, <1>11 DEF G

-----------------------------------------------------------------------------
(* A step of a call moves that call on, and perhaps tells the others.      *)
LEMMA StepMoves ==
  ASSUME Typed, NEW d \in Callers, Offload(d) \/ Sweep(d) \/ Retrieve(d) \/ Answer(d)
  PROVE  \E call \in CallType :
           Listed(call) /\ (calls' = Goto(d, call) \/ calls' = Unsettled(d, call))
<1>1. OffloadCalls \subseteq CallType /\ GcCalls \subseteq CallType /\ RetrieveCalls \subseteq CallType
  BY DEF CallType
<1>2. CASE Offload(d)
  <2>1. ASSUME NEW t \in Tokens, OffloadBegin(d, t)
        PROVE  \E call \in OffloadCalls : Listed(call) /\ calls' = Goto(d, call)
    BY <2>1, OffloadBegins
  <2>2. ASSUME OffloadInsert(d)
        PROVE  \E call \in OffloadCalls : Listed(call) /\ calls' = Unsettled(d, call)
    BY <2>2, OffloadInserts
  <2>3. ASSUME DiskPut(d)
        PROVE  \E call \in OffloadCalls :
                 Listed(call) /\ (calls' = Goto(d, call) \/ calls' = Unsettled(d, call))
    BY <2>3, DiskPuts
  <2>4. ASSUME DurablePut(d)
        PROVE  \E call \in OffloadCalls : Listed(call) /\ calls' = Goto(d, call)
    BY <2>4, DurablePuts
  <2> QED BY <1>1, <1>2, <2>1, <2>2, <2>3, <2>4 DEF Offload
<1>3. CASE Sweep(d)
  <2>1. ASSUME GcBegin(d)
        PROVE  \E call \in GcCalls : Listed(call) /\ calls' = Goto(d, call)
    BY <2>1, GcBegins
  <2>2. ASSUME SweepLists(d)
        PROVE  \E call \in OffloadCalls \cup GcCalls : Listed(call) /\ calls' = Goto(d, call)
    BY <2>2, SweepListings
  <2>3. ASSUME SweepRemoves(d)
        PROVE  \E call \in OffloadCalls \cup GcCalls : Listed(call) /\ calls' = Unsettled(d, call)
    BY <2>3, SweepRemovals
  <2> QED BY <1>1, <1>3, <2>1, <2>2, <2>3 DEF Sweep
<1>4. CASE Retrieve(d)
  <2>1. ASSUME NEW t \in Tokens, RetrieveBegin(d, t)
        PROVE  \E call \in RetrieveCalls : calls' = Goto(d, call)
    BY <2>1, RetrieveBegins
  <2>2. ASSUME RetrieveLookup(d)
        PROVE  \E call \in RetrieveCalls : calls' = Goto(d, call) \/ calls' = Unsettled(d, call)
    BY <2>2, RetrieveLookups
  <2>3. ASSUME RetrieveDurable(d) \/ RetrieveStat(d) \/ RetrieveRead(d)
        PROVE  \E call \in RetrieveCalls : calls' = Goto(d, call)
    BY <2>3, RetrieveDurables, RetrieveStats, RetrieveReads
  <2>4. ASSUME RetrieveUnlink(d)
        PROVE  \E call \in RetrieveCalls : calls' = Unsettled(d, call)
    BY <2>4, RetrieveUnlinks
  <2>5. \E call \in RetrieveCalls : calls' = Goto(d, call) \/ calls' = Unsettled(d, call)
    BY <1>4, <2>1, <2>2, <2>3, <2>4 DEF Retrieve
  <2> QED BY <1>1, <2>5, RetrieveParts
<1>5. CASE Answer(d)
  <2>1. Idle \in CallType /\ Listed(Idle) /\ calls' = Goto(d, Idle)
    BY <1>5 DEF Answer, CallType, Listed
  <2> QED BY <2>1
<1> QED BY <1>2, <1>3, <1>4, <1>5

(* Only the removals themselves end a sweep without ending its process.    *)
LEMMA OnlyRemovalsEnd ==
  ASSUME Typed, Next, NEW c \in Callers,
         calls[c] # Idle, calls[c].phase = "remove",
         calls'[c] # Idle, calls'[c].phase # "remove"
  PROVE  SweepRemoves(c)
<1> SUFFICES ASSUME ~SweepRemoves(c) PROVE FALSE
  OBVIOUS
<1>1. calls' # Disturbed(calls)
  BY DisturbedTyped
<1>2. ~Restart
  <2> SUFFICES ASSUME Restart PROVE FALSE
    OBVIOUS
  <2>1. calls' = [d \in Callers |-> Idle]
    BY DEF Restart, Restarted
  <2> QED BY <2>1
<1>3. PICK d \in Callers : Offload(d) \/ Sweep(d) \/ Retrieve(d) \/ Answer(d)
  BY <1>1, <1>2 DEF Next, Configure, ConfigureDisk, OtherProcess, Tick
<1>4. d # c => FALSE
  <2> SUFFICES ASSUME d # c PROVE FALSE
    OBVIOUS
  <2>1. PICK call \in CallType :
          Listed(call) /\ (calls' = Goto(d, call) \/ calls' = Unsettled(d, call))
    BY <1>3, StepMoves
  <2>2. CASE calls' = Goto(d, call)
    <3>1. calls'[c] = calls[c]
      BY <2>1, <2>2, GotoTyped
    <3> QED BY <3>1
  <2>3. CASE calls' = Unsettled(d, call)
    <3>1. calls'[c] # Idle => calls'[c].phase = calls[c].phase
      BY <2>1, <2>3, UnsettledTyped
    <3> QED BY <3>1
  <2> QED BY <2>1, <2>2, <2>3
<1>5. ~Offload(c)
  BY DEF Offload, OffloadBegin, OffloadInsert, DiskPut, DurablePut, At
<1>6. ~Sweep(c)
  BY DEF Sweep, GcBegin, SweepLists
<1>7. ~Retrieve(c)
  BY DEF Retrieve, RetrieveBegin, RetrieveLookup, RetrieveDurable, RetrieveStat,
         RetrieveUnlink, RetrieveRead, At
<1>8. ~Answer(c)
  BY DEF Answer
<1> QED BY <1>3, <1>4, <1>5, <1>6, <1>7, <1>8

(* What the removals leave when the listing still holds.                   *)
FairlySwept(call) ==
  LET gone == {t \in DOMAIN files \ DOMAIN files' : t \notin Expired(call)}
      left == DOMAIN files'
      free == left \ Protected(call)
  IN  /\ call.cap # NoCap => Bytes[left \ torn] <= call.cap \/ free = {}
      /\ gone # {} => call.cap # NoCap /\ Bytes[(left \cup gone) \ torn] > call.cap
      /\ \A x \in gone, y \in free : call.listing.times[x] <= call.listing.times[y]
      /\ left \cap Expired(call) = {} /\ gone \cap Protected(call) = {}

LEMMA RemovalsAreFair ==
  ASSUME IInv, NEW c \in Callers, SweepRemoves(c), calls[c].calm, calls[c] # Idle
  PROVE  FairlySwept(calls[c])
<1> PICK call : call = calls[c]
  OBVIOUS
<1> PICK gone : gone = {t \in DOMAIN files \ DOMAIN files' : t \notin Expired(call)}
  OBVIOUS
<1> PICK left : left = DOMAIN files'
  OBVIOUS
<1> PICK spared : spared = Protected(call)
  OBVIOUS
<1> SUFFICES
      /\ call.cap # NoCap => Bytes[left \ torn] <= call.cap \/ left \ spared = {}
      /\ gone # {} => call.cap # NoCap /\ Bytes[(left \cup gone) \ torn] > call.cap
      /\ \A x \in gone, y \in left \ spared : call.listing.times[x] <= call.listing.times[y]
      /\ left \cap Expired(call) = {} /\ gone \cap spared = {}
  BY DEF FairlySwept
<1> DEFINE E == GoneExpired(call)
           G == GoneForCap(call)
           K == Rest(call)
           M == Removable(call)
<1>1. Typed /\ CalmCall(calls[c])
  BY DEF IInv, CalmInv
<1>2. /\ call \in OffloadCalls \cup GcCalls /\ call.phase = "remove"
      /\ call.listing \in Listings /\ files' = Removed(E \cup G)
  BY <1>1, SweepRemovals
<1>3. call.listing.times = files /\ call.listing.torn = torn
  BY <1>1, <1>2 DEF CalmCall, CalmSweep
<1>4. files \in FilesType /\ call.listing.queue \in ByAge(files) /\ call.cap \in Caps
  BY <1>1, <1>2, <1>3, TypedParts, OffloadParts, GcParts DEF Listings
<1>5. E = Expired(call) /\ K = DOMAIN files \ E /\ K \subseteq DOMAIN files
      /\ Expired(call) \subseteq DOMAIN files
  BY <1>3 DEF GoneExpired, Rest, Expired
<1>6. left = DOMAIN files \ (E \cup G)
  BY <1>1, <1>2, RemovedFacts
<1>7. M = DOMAIN files \ spared
  BY DEF Removable
<1> HIDE DEF E, K, M
<1>8. CASE call.cap = NoCap
  <2>1. G = {}
    BY <1>8 DEF GoneForCap
  <2>2. gone = {}
    BY <1>5, <1>6, <2>1
  <2> QED BY <1>5, <1>6, <1>8, <2>2
<1>9. CASE call.cap # NoCap
  <2>1. call.cap \in Nat
    BY <1>4, <1>9, BoundsAssumption DEF Caps
  <2>2. G = Evicted(call.listing.queue, K, torn, M, call.cap)
    BY <1>3, <1>9 DEF GoneForCap, K, M
  <2> HIDE DEF G
  <2> DEFINE q == call.listing.queue
             max == call.cap
  <2>3. q \in ByAge(files) /\ max \in Nat
    BY <1>4, <2>1
  <2>4. G = Evicted(q, K, torn, M, max)
    BY <2>2
  <2> HIDE DEF q, max
  <2>5. /\ Evicted(q, K, torn, M, max) \subseteq K \cap M
        /\ Evicted(q, K, torn, M, max) # {} => Bytes[K \ torn] > max
        /\ \A x \in Evicted(q, K, torn, M, max), y \in (K \cap M) \ Evicted(q, K, torn, M, max) :
             files[x] <= files[y]
        /\ (K \cap M) \ Evicted(q, K, torn, M, max) # {} =>
             Bytes[(K \ Evicted(q, K, torn, M, max)) \ torn] <= max
    <3> PICK a, b, z, m : a = K /\ b = M /\ z = torn /\ m = max
      OBVIOUS
    <3> PICK f \in FilesType : f = files
      BY <1>4
    <3> PICK o \in ByAge(f) : o = q
      BY <2>3
    <3>1. a \subseteq DOMAIN f /\ m \in Nat
      BY <1>5, <2>3
    <3>2. Evicted(o, a, z, b, m) \subseteq a \cap b
      BY <3>1, EvictedFacts
    <3>3. Evicted(o, a, z, b, m) # {} => Bytes[a \ z] > m
      BY <3>1, EvictedFacts
    <3>4. ASSUME NEW x \in Evicted(o, a, z, b, m), NEW y \in (a \cap b) \ Evicted(o, a, z, b, m)
          PROVE  f[x] <= f[y]
      BY <3>1, EvictedFacts, Zenon
    <3>5. (a \cap b) \ Evicted(o, a, z, b, m) # {} =>
            Bytes[(a \ Evicted(o, a, z, b, m)) \ z] <= m
      BY <3>1, EvictedFacts
    <3> QED BY <3>2, <3>3, <3>4, <3>5
  <2>6. /\ G \subseteq K \cap M
        /\ G # {} => Bytes[K \ torn] > max
        /\ \A x \in G, y \in (K \cap M) \ G : files[x] <= files[y]
        /\ (K \cap M) \ G # {} => Bytes[(K \ G) \ torn] <= max
    BY <2>4, <2>5
  <2>7. left = K \ G
    BY <1>5, <1>6
  <2>8. gone = G
    BY <1>5, <1>6, <2>6
  <2>9. left \ spared = (K \cap M) \ G /\ left \cup gone = K
    BY <1>5, <1>7, <2>6, <2>7, <2>8
  <2>10. left \cap Expired(call) = {} /\ gone \cap spared = {}
    BY <1>5, <1>7, <2>6, <2>7, <2>8
  <2>11. Bytes[left \ torn] <= call.cap \/ left \ spared = {}
    BY <2>6, <2>7, <2>9 DEF max
  <2>12. gone # {} => Bytes[(left \cup gone) \ torn] > call.cap
    BY <2>6, <2>8, <2>9 DEF max
  <2>13. \A x \in gone, y \in left \ spared : call.listing.times[x] <= call.listing.times[y]
    BY <1>3, <2>6, <2>8, <2>9
  <2> QED BY <1>9, <2>10, <2>11, <2>12, <2>13
<1> QED BY <1>8, <1>9

(* A sweep of gc_dir_protecting that nobody comes between ends within the  *)
(* cap unless only the protected original is left, takes live files only   *)
(* for the cap, the oldest first, and leaves nothing that has expired.     *)
THEOREM SweepStaysFair == Spec => SweepIsFair
<1>1. IInv /\ [Next]_vars => [SweepStep]_vars
  <2> SUFFICES ASSUME IInv, Next PROVE SweepStep
    OBVIOUS
  <2>1. ASSUME NEW c \in Callers,
               calls[c] # Idle, calls[c].phase = "remove", calls[c].calm,
               calls'[c] # Idle, calls'[c].phase # "remove"
        PROVE  FairlySwept(calls[c])
    <3>1. SweepRemoves(c)
      BY <2>1, OnlyRemovalsEnd DEF IInv
    <3> QED BY <2>1, <3>1, RemovalsAreFair
  <2> QED BY <2>1 DEF SweepStep, FairlySwept, Protected
<1> QED BY <1>1, InvariantHolds, PTL DEF Spec, SweepIsFair
=============================================================================
