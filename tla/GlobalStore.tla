----------------------------- MODULE GlobalStore -----------------------------
(***************************************************************************)
(* The process-global store of src/cache/store.rs with the file tier of    *)
(* src/cache/disk_tier.rs behind it, as the standalone commands use them.  *)
(* A hook process lives for one tool call, and many share the directory:   *)
(* Restart begins a new process on the files that are there, and others    *)
(* write and remove files between any two steps.  A write that fails, or   *)
(* that is looked at while it goes on, has emptied the file: it is torn.   *)
(*                                                                         *)
(* Every lock scope and every look at the file system is a step; a sweep   *)
(* is two, the listing and the removals it decides.                        *)
(***************************************************************************)
EXTENDS CcrInner

CONSTANTS
  Callers,      \* threads of this process
  LimitsAtHand, \* the limits configure is called with
  DiskCaps,     \* the caps configure_disk_cap is called with, besides NoCap
  NoTtl, NoCap, \* Option::None for the ttl, and for the cap
  EnforceEvery, \* DISK_CAP_ENFORCE_EVERY
  MaxTime       \* bound on the clock

VARIABLES
  inner,    \* GLOBAL: Inner
  limits,   \* LIMITS
  durable,  \* DURABLE_TIER: set_durable_tier was given one at the start
  held,     \* what the durable tier answers for, external
  enabled,  \* ROOT is set
  cap,      \* CAP
  writes,   \* WRITES, this process's count, modulo EnforceEvery
  files,    \* the directory: modification time by token
  torn,     \* the files that do not hold what was written, but nothing
  calls,    \* the calls in progress
  now       \* the clock

config == <<limits, durable, enabled, cap>>
disk   == <<files, torn>>
vars   == <<inner, config, held, writes, disk, calls, now>>

ASSUME BoundsAssumption ==
  /\ EnforceEvery \in Nat \ {0} /\ MaxTime \in Nat
  /\ NoTtl \notin Nat /\ NoCap \notin Nat
  /\ DiskCaps \subseteq Nat
  /\ \A l \in LimitsAtHand : /\ {l.max_entries, l.max_bytes} \subseteq Nat \ {0}
                             /\ l.ttl \in Nat \cup {NoTtl}

Idle == [op |-> "idle"]

NotListed == [queue |-> <<>>]

Caps == DiskCaps \cup {NoCap}

Restarted ==
  [inner |-> EmptyInner, calls |-> [c \in Callers |-> Idle], writes |-> 0]

Init ==
  /\ inner = Restarted.inner /\ calls = Restarted.calls /\ writes = Restarted.writes
  /\ limits \in LimitsAtHand
  /\ durable \in BOOLEAN /\ held = {}
  /\ enabled \in BOOLEAN
  /\ cap \in Caps
  /\ files = [t \in {} |-> 0] /\ torn = {}
  /\ now = 0

-----------------------------------------------------------------------------
(***************************************************************************)
(* Calls.  `calm` is history: no other call, process, configuration or     *)
(* clock tick has come between since this one began.                       *)
(***************************************************************************)
At(c, op, phase) == calls[c].op = op /\ calls[c].phase = phase

Goto(c, call) == [calls EXCEPT ![c] = call]

Disturbed(all) ==
  [c \in Callers |-> IF all[c] = Idle THEN Idle ELSE [all[c] EXCEPT !.calm = FALSE]]

Unsettled(c, call) == [Disturbed(calls) EXCEPT ![c] = call]

Fresh(created, ttl) == ttl = NoTtl \/ now - created < ttl

Present(t) == t \in DOMAIN files

Whole(t) == Present(t) /\ t \notin torn

Removed(S) == [t \in DOMAIN files \ S |-> files[t]]

Touched(t) == [u \in DOMAIN files \cup {t} |-> IF u = t THEN now ELSE files[u]]

-----------------------------------------------------------------------------
(* configure does not trim: what is resident stays, over the new caps too. *)
Configure(l) ==
  /\ l # limits
  /\ limits' = l
  /\ calls' = Disturbed(calls)
  /\ UNCHANGED <<inner, durable, enabled, cap, held, writes, disk, now>>

ConfigureDisk(on, bytes) ==
  /\ enabled' = on          \* enable_disk_tier, disable_disk_tier
  /\ cap' = bytes           \* configure_disk_cap
  /\ calls' = Disturbed(calls)
  /\ UNCHANGED <<inner, limits, durable, held, writes, disk, now>>

(* A command ends and the next one, or the next hook, begins. *)
Restart ==
  /\ inner' = Restarted.inner /\ calls' = Restarted.calls /\ writes' = Restarted.writes
  /\ durable' \in BOOLEAN /\ held' = {}
  /\ limits' \in LimitsAtHand
  /\ UNCHANGED <<enabled, cap, disk, now>>

(* Another process writes an original, is in the middle of it or fails at  *)
(* it, or its sweep removes one.                                           *)
OtherProcess(t) ==
  /\ \/ files' = Touched(t) /\ torn' \in {torn \cup {t}, torn \ {t}}
     \/ files' = Removed({t}) /\ torn' = torn \ {t}
  /\ calls' = Disturbed(calls)
  /\ UNCHANGED <<inner, config, held, writes, now>>

Tick ==
  /\ now < MaxTime
  /\ now' = now + 1
  /\ calls' = Disturbed(calls)
  /\ UNCHANGED <<inner, config, held, writes, disk>>

-----------------------------------------------------------------------------
(***************************************************************************)
(* offload_checked_with_hash: memory, then the file, then the durable tier *)
(***************************************************************************)
OffloadBegin(c, t) ==
  /\ calls[c] = Idle
  /\ calls' = Goto(c, [op |-> "offload", phase |-> "insert", token |-> t, limits |-> limits,
                       cap |-> NoCap, listing |-> NotListed, retained |-> FALSE,
                       calm |-> TRUE])
  /\ UNCHANGED <<inner, config, held, writes, disk, now>>

OffloadInsert(c) ==
  /\ At(c, "offload", "insert")
  /\ \E r \in Inserts(inner, calls[c].token, calls[c].limits, now) :
       /\ inner' = r.inner
       /\ calls' = Unsettled(c, [calls[c] EXCEPT !.phase = "disk", !.retained = r.retained])
  /\ UNCHANGED <<config, held, writes, disk, now>>

(* Seeded fault: the file counts although it could not be written.         *)
DiskPutBlindly(c) ==
  /\ At(c, "offload", "disk")
  /\ calls' = Unsettled(c, [calls[c] EXCEPT !.phase = "durable", !.retained = TRUE])
  /\ UNCHANGED <<inner, config, held, writes, disk, now>>

(***************************************************************************)
(* disk_tier::put: without a root, or when the write fails, the original   *)
(* is not retained, though the file may have been emptied for it; every    *)
(* EnforceEvery-th write of the process sweeps, with this token protected. *)
(***************************************************************************)
DiskPut(c) ==
  LET call == calls[c]
      past == [call EXCEPT !.phase = "durable"]
      n    == (writes + 1) % EnforceEvery
      sweeps == n = 0 /\ (call.limits.ttl # NoTtl \/ cap # NoCap)
  IN  /\ At(c, "offload", "disk")
      /\ \/ calls' = Goto(c, past) /\ UNCHANGED <<disk, writes>>
         \/ /\ enabled
            /\ files' = Touched(call.token) /\ torn' = torn \cup {call.token}
            /\ calls' = Unsettled(c, past)
            /\ UNCHANGED writes
         \/ /\ enabled
            /\ files' = Touched(call.token) /\ torn' = torn \ {call.token}
            /\ writes' = n
            /\ calls' = Unsettled(c, [past EXCEPT !.phase = IF sweeps THEN "list" ELSE @,
                                                  !.retained = TRUE, !.cap = cap])
      /\ UNCHANGED <<inner, config, held, now>>

DurablePut(c) ==
  /\ At(c, "offload", "durable")
  /\ \E retained, same_token \in BOOLEAN :
       LET counts == retained /\ same_token
       IN  /\ retained => durable
           /\ held' = IF counts THEN held \cup {calls[c].token} ELSE held
           /\ calls' = Goto(c, [calls[c] EXCEPT !.phase = "answer", !.retained = @ \/ counts])
  /\ UNCHANGED <<inner, config, writes, disk, now>>

Offload(c) ==
  \/ \E t \in Tokens : OffloadBegin(c, t)
  \/ OffloadInsert(c)
  \/ DiskPut(c)
  \/ DurablePut(c)

Answer(c) ==
  /\ calls[c] # Idle
  /\ calls[c].phase = "answer"
  /\ calls' = Goto(c, Idle)
  /\ UNCHANGED <<inner, config, held, writes, disk, now>>

-----------------------------------------------------------------------------
(***************************************************************************)
(* gc_dir_protecting.  The listing decides by the times it has seen; the   *)
(* removals go by it, and one that fails (somebody else was first) leaves  *)
(* the entry among the kept and its bytes in the total.                    *)
(***************************************************************************)
GcBegin(c) ==
  /\ calls[c] = Idle
  /\ enabled
  /\ \E l \in LimitsAtHand, budget \in Caps :
       calls' = Goto(c, [op |-> "gc", phase |-> "list", limits |-> l, cap |-> budget,
                         listing |-> NotListed, calm |-> TRUE])
  /\ UNCHANGED <<inner, config, held, writes, disk, now>>

(* sort_by_key: every file has its place, an older one before a newer.     *)
ByAge(listed) ==
  LET places == 1 .. Cardinality(DOMAIN listed)
  IN  {q \in [places -> DOMAIN listed] :
         /\ DOMAIN listed \subseteq {q[i] : i \in places}
         /\ \A i, j \in places : i < j => q[i] # q[j] /\ listed[q[i]] <= listed[q[j]]}

SweepLists(c) ==
  /\ calls[c] # Idle /\ calls[c].phase = "list"
  /\ \E q \in ByAge(files) :
       calls' = Goto(c, [calls[c] EXCEPT !.phase = "remove",
                           !.listing = [queue |-> q, times |-> files, torn |-> torn, at |-> now]])
  /\ UNCHANGED <<inner, config, held, writes, disk, now>>

Expired(call) ==
  {t \in DOMAIN call.listing.times :
     call.limits.ttl # NoTtl /\ call.listing.at - call.listing.times[t] >= call.limits.ttl}

(* Seeded fault: the sweep does not spare the original just written.       *)
ProtectedNone(call) == {}

Protected(call) == IF call.op = "offload" THEN {call.token} ELSE {}

(***************************************************************************)
(* One pass over the kept, oldest first, while their total is over the     *)
(* cap: what can be removed goes and is taken off the total.  The total    *)
(* only falls, so an original that can go does go exactly when the kept    *)
(* without all the earlier ones that could are still over the cap.  What   *)
(* is empty counts for nothing, and is not spared for that.                *)
(***************************************************************************)
Earlier(queue, t) ==
  {queue[i] : i \in {k \in DOMAIN queue : \E j \in DOMAIN queue : k < j /\ queue[j] = t}}

Evicted(queue, kept, empty, removable, max_bytes) ==
  {t \in kept \cap removable :
     Bytes[(kept \ (Earlier(queue, t) \cap removable)) \ empty] > max_bytes}

SweepRemoves(c) ==
  LET call    == calls[c]
      expired == Expired(call) \cap DOMAIN files
      gone    == IF call.cap = NoCap THEN {}
                 ELSE Evicted(call.listing.queue, DOMAIN call.listing.times \ expired,
                              call.listing.torn, DOMAIN files \ Protected(call), call.cap)
  IN  /\ call # Idle /\ call.phase = "remove"
      /\ files' = Removed(expired \cup gone) /\ torn' = torn \ (expired \cup gone)
      /\ calls' = Unsettled(c, [call EXCEPT !.listing = NotListed,
                                  !.phase = IF call.op = "gc" THEN "answer" ELSE "durable"])
      /\ UNCHANGED <<inner, config, held, writes, now>>

Sweep(c) == GcBegin(c) \/ SweepLists(c) \/ SweepRemoves(c)

-----------------------------------------------------------------------------
(***************************************************************************)
(* retrieve: memory, the durable tier, then the file.                      *)
(***************************************************************************)
Retrievable(t) ==
  \/ t \in Resident(inner) /\ Fresh(inner.map[t], limits.ttl)
  \/ durable /\ t \in held
  \/ enabled /\ Whole(t) /\ Fresh(files[t], limits.ttl)

RetrieveBegin(c, t) ==
  /\ calls[c] = Idle
  /\ calls' = Goto(c, [op |-> "retrieve", phase |-> "lookup", token |-> t, limits |-> limits,
                       found |-> FALSE, whole |-> TRUE, calm |-> Retrievable(t)])
  /\ UNCHANGED <<inner, config, held, writes, disk, now>>

RetrieveLookup(c) ==
  /\ At(c, "retrieve", "lookup")
  /\ LET t    == calls[c].token
         hit  == t \in Resident(inner) /\ Fresh(inner.map[t], calls[c].limits.ttl)
         call == [calls[c] EXCEPT !.found = hit, !.phase = IF hit THEN "answer" ELSE "durable"]
     IN  /\ inner' = IF hit THEN inner ELSE Dropped(inner, {t})
         /\ calls' = IF inner' = inner THEN Goto(c, call) ELSE Unsettled(c, call)
  /\ UNCHANGED <<config, held, writes, disk, now>>

(* Seeded fault: with a durable tier bound the file is not looked for.     *)
RetrieveDurableOnly(c) ==
  /\ At(c, "retrieve", "durable")
  /\ LET found == durable /\ calls[c].token \in held
     IN  calls' = Goto(c, [calls[c] EXCEPT !.found = found,
                             !.phase = IF found \/ durable THEN "answer" ELSE "stat"])
  /\ UNCHANGED <<inner, config, held, writes, disk, now>>

RetrieveDurable(c) ==
  /\ At(c, "retrieve", "durable")
  /\ LET found == durable /\ calls[c].token \in held
     IN  calls' = Goto(c, [calls[c] EXCEPT !.found = found,
                             !.phase = IF found THEN "answer" ELSE "stat"])
  /\ UNCHANGED <<inner, config, held, writes, disk, now>>

(***************************************************************************)
(* disk_entry_expired, then by its answer the removal or the read.  A file *)
(* that is not there is not expired, and the read finds nothing.           *)
(***************************************************************************)
RetrieveStat(c) ==
  /\ At(c, "retrieve", "stat")
  /\ LET t       == calls[c].token
         expired == Present(t) /\ ~Fresh(files[t], calls[c].limits.ttl)
     IN  calls' = Goto(c, [calls[c] EXCEPT !.phase = CASE ~enabled           -> "answer"
                                                       [] enabled /\ expired -> "unlink"
                                                       [] OTHER              -> "read"])
  /\ UNCHANGED <<inner, config, held, writes, disk, now>>

RetrieveUnlink(c) ==
  /\ At(c, "retrieve", "unlink")
  /\ files' = Removed({calls[c].token}) /\ torn' = torn \ {calls[c].token}
  /\ calls' = Unsettled(c, [calls[c] EXCEPT !.phase = "answer"])
  /\ UNCHANGED <<inner, config, held, writes, now>>

RetrieveRead(c) ==
  /\ At(c, "retrieve", "read")
  /\ calls' = Goto(c, [calls[c] EXCEPT !.phase = "answer", !.found = Present(calls[c].token),
                                       !.whole = calls[c].token \notin torn])
  /\ UNCHANGED <<inner, config, held, writes, disk, now>>

Retrieve(c) ==
  \/ \E t \in Tokens : RetrieveBegin(c, t)
  \/ RetrieveLookup(c)
  \/ RetrieveDurable(c)
  \/ RetrieveStat(c)
  \/ RetrieveUnlink(c)
  \/ RetrieveRead(c)

Next ==
  \/ \E l \in LimitsAtHand : Configure(l)
  \/ \E on \in BOOLEAN, bytes \in Caps : ConfigureDisk(on, bytes)
  \/ \E t \in Tokens : OtherProcess(t)
  \/ Restart
  \/ Tick
  \/ \E c \in Callers : Offload(c) \/ Sweep(c) \/ Retrieve(c) \/ Answer(c)

Spec == Init /\ [][Next]_vars

-----------------------------------------------------------------------------

(* Every variable keeps its type; the accounting of the shared map stays   *)
(* exact although it is not trimmed, and what is resident can be evicted.  *)
TypeOK ==
  /\ inner \in InnerType(0 .. now) /\ AccountedFor(inner) /\ Evictable(inner)
  /\ limits \in LimitsAtHand
  /\ durable \in BOOLEAN /\ held \subseteq Tokens
  /\ enabled \in BOOLEAN /\ cap \in Caps
  /\ writes \in 0 .. EnforceEvery - 1
  /\ DOMAIN files \subseteq Tokens /\ torn \subseteq DOMAIN files /\ \A t \in DOMAIN files : files[t] \in 0 .. now

(* When an offload answers retained and nobody came between, a retrieve    *)
(* finds the original in memory, in the durable tier under its own token,  *)
(* or in a file its own sweep has spared (offload_checked_with_hash).      *)
(* Only a lifetime of zero takes this back: memory and file count what     *)
(* they will have let expire by the time it is looked for.                 *)
AdvertisedIsRetrievable ==
  \A c \in Callers :
    At(c, "offload", "answer") /\ calls[c].retained /\ calls[c].calm
      => Retrievable(calls[c].token) \/ limits.ttl = 0

(* A retrieve of an original that one of the three tiers has answers all   *)
(* of it, when nobody comes between (retrieve).                            *)
RetrievableIsAnswered ==
  \A c \in Callers :
    At(c, "retrieve", "answer") /\ calls[c].calm => calls[c].found /\ calls[c].whole

(* A sweep that nobody comes between ends within the cap, unless only the  *)
(* protected original is left; it removes a live file only for the cap,    *)
(* and never one while an older one that could go stays.                   *)
SweepStep ==
  \A c \in Callers :
    LET call == calls[c]
        gone == {t \in DOMAIN files \ DOMAIN files' : t \notin Expired(call)}
        left == DOMAIN files'
        spared == IF call.op = "offload" THEN {call.token} ELSE {}
        free == left \ spared
    IN  call # Idle /\ call.phase = "remove" /\ call.calm
          /\ calls'[c] # Idle /\ calls'[c].phase # "remove"
        => /\ call.cap # NoCap => Bytes[left \ torn] <= call.cap \/ free = {}
           /\ gone # {} => call.cap # NoCap /\ Bytes[(left \cup gone) \ torn] > call.cap
           /\ \A x \in gone, y \in free : call.listing.times[x] <= call.listing.times[y]
           /\ left \cap Expired(call) = {} /\ gone \cap spared = {}

SweepIsFair == [][SweepStep]_vars
=============================================================================
