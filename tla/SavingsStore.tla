----------------------------- MODULE SavingsStore -----------------------------
(***************************************************************************)
(* Savings of crates/tinyjuice-module/src/savings_store.rs: the savings    *)
(* ledger, its document on the host's storage, and the reconciliation of   *)
(* the two when the storage answers late, fails, or the module restarts.   *)
(*                                                                         *)
(* One mutex is held through each call, so at most one call is past Begin. *)
(* Inside a call every await is a step of its own: reaching the document   *)
(* port, reading the document, writing it, and hearing the answer.  A      *)
(* write may take effect although its answer is an error.                  *)
(*                                                                         *)
(* An aggregate is the count of each event in it: the events the host      *)
(* records and the batch of a legacy snapshot.  Two aggregates are equal   *)
(* only when they count the same events, so a lost or a doubled event      *)
(* shows.  The saturation of the sums and the float costs are left out.    *)
(***************************************************************************)
EXTENDS Integers, FiniteSets

CONSTANTS
  Events,   \* the token-saving events the host records
  Legacy,   \* the events of the legacy snapshot, as one batch
  Modes,    \* the kinds of module instance considered, see below
  Absent    \* no document is stored

(***************************************************************************)
(* "governed":   the document port comes from a storage descriptor at      *)
(*               setup, and require_storage is set;                        *)
(* "legacy":     the port is looked up on first use, best effort;          *)
(* "standalone": there is no bus connection, totals stay in memory.        *)
(***************************************************************************)
ASSUME ModesAssumption == Modes \subseteq {"governed", "legacy", "standalone"}
ASSUME EventsAssumption == IsFiniteSet(Events) /\ Legacy \notin Events

Batches == Events \cup {Legacy}

ASSUME AbsentAssumption == Absent \notin [Batches -> Nat]

VARIABLES
  mode,        \* which kind of instance this is
  ledger,      \* SavingsLedger: the in-memory aggregate
  docs,        \* State.docs is Some
  loaded,      \* State.loaded
  dirty,       \* State.dirty
  reset_early, \* State.reset_early
  doc,         \* the stored document, external to the module
  call,        \* the call that holds the lock
  base, told,  \* history: the document at start-up, and what the replies since add up to
  failed,      \* history: calls answered with an error in this process
  claims,      \* history: acknowledged, with no reset attempted since
  wiped        \* history: recorded before the last acknowledged reset

state   == <<ledger, docs, loaded, dirty, reset_early>>
history == <<base, told, failed, claims, wiped>>
vars    == <<mode, state, doc, call, history>>

Zero == [b \in Batches |-> 0]
NoCall == [kind |-> "none"]

(* Seeded fault: absorb takes away what it should add.                     *)
PlusSubtracting(a, b) == [x \in Batches |-> a[x] - b[x]]

Plus(a, b) == [x \in Batches |-> a[x] + b[x]]      \* SavingsLedger::absorb
One(b) == [Zero EXCEPT ![b] = 1]
Stored == IF doc = Absent THEN Zero ELSE doc

require_storage == mode = "governed"

Init ==
  /\ mode \in Modes
  /\ ledger = Zero
  /\ docs = require_storage
  /\ loaded = FALSE /\ dirty = FALSE /\ reset_early = FALSE
  /\ doc = Absent
  /\ call = NoCall
  /\ base = Zero /\ told = Zero /\ failed = {} /\ claims = {} /\ wiped = {}

-----------------------------------------------------------------------------
(* A call and its place in the code.                                       *)

Recorded == {b \in Batches : base[b] + told[b] + ledger[b] + Stored[b] > 0} \cup failed

(* A host records an event once, and again only after an error answer in   *)
(* this process.  It hands the legacy snapshot over until told true.       *)
Offered(kind, b) ==
  \/ kind = "record" /\ b \in Events /\ (b \in failed \/ b \notin Recorded \cup wiped)
  \/ kind = "import" /\ b = Legacy /\ told[Legacy] = 0 /\ Legacy \notin wiped
  \/ kind \in {"reset", "stats"} /\ b = Legacy

Begin(kind, b) ==
  /\ call = NoCall
  /\ Offered(kind, b)
  /\ call' = [kind |-> kind, batch |-> b, at |-> "load"]
  /\ UNCHANGED <<mode, state, doc, history>>

Goto(place) == call' = [call EXCEPT !.at = place]

At(place) == call # NoCall /\ call.at = place

(* The call answers without having changed anything (an error, or the      *)
(* Ok(false) of an import), or gives the Ok answer of its change.          *)
AnswerErr ==
  /\ call' = NoCall
  /\ failed' = IF call.kind = "record" THEN failed \cup {call.batch} ELSE failed
  /\ UNCHANGED <<base, told, claims, wiped>>

AnswerOk ==
  /\ call' = NoCall
  /\ CASE call.kind \in {"record", "import"} ->
            /\ told' = Plus(told, One(call.batch))
            /\ claims' = claims \cup {call.batch}
            /\ failed' = failed \ {call.batch}
            /\ UNCHANGED <<base, wiped>>
       [] call.kind = "reset" ->
            /\ told' = Zero /\ base' = Zero
            /\ wiped' = wiped \cup (Recorded \ failed)
            /\ UNCHANGED <<failed, claims>>
       [] OTHER -> UNCHANGED <<base, told, failed, claims, wiped>>

-----------------------------------------------------------------------------
(* load: reach the port, read the document, reconcile.                     *)

LoadDone ==
  /\ At("load") /\ loaded
  /\ Goto("apply")
  /\ UNCHANGED <<mode, state, doc, history>>

LoadStandalone ==
  /\ At("load") /\ ~loaded /\ ~docs
  /\ mode = "standalone"
  /\ loaded' = TRUE
  /\ Goto("apply")
  /\ UNCHANGED <<mode, ledger, docs, dirty, reset_early, doc, history>>

Connect ==
  /\ At("load") /\ ~loaded /\ ~docs
  /\ mode = "legacy"
  /\ docs' = TRUE
  /\ UNCHANGED <<mode, ledger, loaded, dirty, reset_early, doc, call, history>>

(* storage_unavailable: the port is absent or still in its cooldown, or    *)
(* the document could not be read.                                         *)
LoadUnavailable ==
  /\ At("load") /\ ~loaded
  /\ mode # "standalone"
  /\ IF require_storage THEN AnswerErr
     ELSE Goto("apply") /\ UNCHANGED history
  /\ UNCHANGED <<mode, state, doc>>

(* Seeded fault: the stored totals come back in spite of an early reset.   *)
ReadDespiteReset ==
  /\ At("load") /\ ~loaded /\ docs
  /\ ledger' = IF doc # Absent THEN Plus(doc, ledger) ELSE ledger
  /\ loaded' = TRUE /\ dirty' = FALSE /\ reset_early' = FALSE
  /\ Goto(IF dirty THEN "write early" ELSE "apply")
  /\ UNCHANGED <<mode, docs, doc, history>>

Read ==
  /\ At("load") /\ ~loaded /\ docs
  /\ ledger' = IF doc # Absent /\ ~reset_early THEN Plus(doc, ledger) ELSE ledger
  /\ loaded' = TRUE
  /\ IF dirty
     THEN dirty' = FALSE /\ reset_early' = FALSE /\ Goto("write early")
     ELSE UNCHANGED <<dirty, reset_early>> /\ Goto("apply")
  /\ UNCHANGED <<mode, docs, doc, history>>

-----------------------------------------------------------------------------
(* The four calls, up to their persist.                                    *)

(* persist answers without a write: `none` when there is nothing to write  *)
(* to, `unread` when the stored document has not been read.                *)
Persists ==
  IF ~loaded THEN "unread" ELSE IF ~docs THEN "none" ELSE "write"

Changed(new) ==
  /\ ledger' = new
  /\ call' = [kind |-> call.kind, batch |-> call.batch, at |-> "persist",
              ledger |-> ledger, dirty |-> dirty, reset_early |-> reset_early]
  /\ UNCHANGED <<mode, docs, loaded, doc>>

Record ==
  /\ At("apply") /\ call.kind = "record"
  /\ Changed(Plus(ledger, One(call.batch)))
  /\ dirty' = (dirty \/ ~loaded)
  /\ UNCHANGED <<reset_early, history>>

Reset ==
  /\ At("apply") /\ call.kind = "reset"
  /\ Changed(Zero)
  /\ dirty' = (dirty \/ ~loaded)
  /\ reset_early' = (reset_early \/ ~loaded)
  /\ claims' = {}
  /\ UNCHANGED <<base, told, failed, wiped>>

Import ==
  /\ At("apply") /\ call.kind = "import"
  /\ loaded /\ ledger = Zero
  /\ Changed(One(Legacy))
  /\ UNCHANGED <<dirty, reset_early, history>>

(* import answers an error before the document is read, and false, which   *)
(* changes nothing, once something has been recorded.                      *)
ImportDeclined ==
  /\ At("apply") /\ call.kind = "import"
  /\ ~loaded \/ ledger # Zero
  /\ AnswerErr
  /\ UNCHANGED <<mode, state, doc>>

Stats ==
  /\ At("apply") /\ call.kind = "stats"
  /\ AnswerOk
  /\ UNCHANGED <<mode, state, doc>>

-----------------------------------------------------------------------------
(* persist, and what the call makes of its result.                         *)

(* Seeded fault: a failed write leaves the change in the ledger.           *)
RollBackKeepsLedger ==
  /\ ledger' = ledger /\ dirty' = call.dirty /\ reset_early' = call.reset_early
  /\ AnswerErr
  /\ UNCHANGED <<docs, loaded>>

RollBack ==
  /\ ledger' = call.ledger /\ dirty' = call.dirty /\ reset_early' = call.reset_early
  /\ AnswerErr
  /\ UNCHANGED <<docs, loaded>>

(* Seeded fault: governed storage settles for Ok(false) as well.           *)
PersistedLeniently(written) ==
  IF written \/ call.kind # "import" THEN AnswerOk /\ UNCHANGED state ELSE RollBack

(* Ok(false) is enough for record and reset; import needs Ok(true).        *)
Persisted(written) ==
  IF written \/ (~require_storage /\ call.kind # "import")
  THEN AnswerOk /\ UNCHANGED state
  ELSE RollBack

PersistNothing ==
  /\ At("persist") /\ Persists # "write"
  /\ Persisted(~require_storage /\ Persists = "none")
  /\ UNCHANGED <<mode, doc>>

Sent(applied) ==
  /\ doc' = IF applied THEN ledger ELSE doc
  /\ UNCHANGED <<mode, state, history>>

(* The put reaches the store, or is lost on the way.                       *)
Write(applied) ==
  /\ At("persist") /\ Persists = "write"
  /\ call' = [call EXCEPT !.at = IF applied THEN "applied" ELSE "lost"]
  /\ Sent(applied)

(* Seeded fault: the answer of the put is not looked at.                   *)
AnsweredBlindly(written) ==
  /\ At("applied") \/ (At("lost") /\ ~written)
  /\ Persisted(TRUE)
  /\ UNCHANGED <<mode, doc>>

Answered(written) ==
  /\ \/ At("applied")
     \/ At("lost") /\ ~written
  /\ Persisted(written)
  /\ UNCHANGED <<mode, doc>>

(* load's own persist of the early changes; only best effort gets here.    *)
WriteEarly(applied) ==
  /\ At("write early")
  /\ Goto("apply")
  /\ Sent(applied)

-----------------------------------------------------------------------------
(* The module process stops and starts again: memory is gone.              *)
Restart ==
  /\ ledger' = Zero /\ docs' = require_storage
  /\ loaded' = FALSE /\ dirty' = FALSE /\ reset_early' = FALSE
  /\ call' = NoCall
  /\ base' = Stored /\ told' = Zero
  /\ failed' = {}
  /\ UNCHANGED <<mode, doc, claims, wiped>>

Next ==
  \/ \E kind \in {"record", "reset", "import", "stats"}, b \in Batches : Begin(kind, b)
  \/ LoadDone \/ LoadStandalone \/ Connect \/ LoadUnavailable \/ Read
  \/ Record \/ Reset \/ Import \/ ImportDeclined \/ Stats
  \/ PersistNothing
  \/ \E ok \in BOOLEAN : Write(ok) \/ Answered(ok) \/ WriteEarly(ok)
  \/ Restart

Spec == Init /\ [][Next]_vars

-----------------------------------------------------------------------------

Aggregate == [Batches -> Nat]

(* The types of the module state and of the stored document, and a call    *)
(* past its change carries what a rollback needs.                          *)
TypeOK ==
  /\ mode \in Modes
  /\ ledger \in Aggregate /\ base \in Aggregate /\ told \in Aggregate
  /\ doc \in Aggregate \cup {Absent}
  /\ {docs, loaded, dirty, reset_early} \subseteq BOOLEAN
  /\ failed \cup claims \cup wiped \subseteq Batches
  /\ call = NoCall \/ call.batch \in Batches
  /\ At("persist") => call.ledger \in Aggregate

(* Between calls the ledger is what the answers so far add up to: the      *)
(* document found at start-up, once it is read, and every acknowledged     *)
(* change since, none lost, doubled or left over from a failed call.       *)
LedgerIsWhatWasTold ==
  call = NoCall => ledger = IF loaded THEN Plus(base, told) ELSE told

(* No event is counted twice, in memory or in the document, whatever mix   *)
(* of early changes, failed writes, lost answers and retries led here.     *)
CountedOnce == \A b \in Batches : ledger[b] <= 1 /\ Stored[b] <= 1

(* With governed storage an acknowledged event is in the document, through *)
(* any number of restarts, until a reset is attempted.                     *)
AcknowledgedIsStored ==
  require_storage => \A b \in claims : Stored[b] > 0

(* With governed storage an acknowledged reset is in the document as well: *)
(* "clears the totals, in memory and in storage" (tinybus-module.md).      *)
GovernedResetClears ==
  call = NoCall /\ require_storage => \A b \in wiped : ledger[b] = 0 /\ Stored[b] = 0
=============================================================================
