-------------------------- MODULE SavingsStoreProofs --------------------------
(***************************************************************************)
(* For every set of events: the ledger is what the answers add up to, no   *)
(* event is counted twice, and with governed storage what is acknowledged  *)
(* is in the document, a reset included.                                   *)
(*                                                                         *)
(* None of the properties is inductive.  Between a change and its answer   *)
(* the ledger is ahead of what was told, and what it will be rolled back   *)
(* to is in the call; before the document is read it leaves the stored     *)
(* part out; and an event may be recorded again after a failed write that  *)
(* took effect, because then it is not in the ledger.                      *)
(***************************************************************************)
EXTENDS SavingsStore, TLAPS

Kinds == {"record", "reset", "import", "stats"}

Asked == [kind : Kinds, batch : Batches, at : {"load", "write early", "apply"}]

Changing ==
  [kind : Kinds \ {"stats"}, batch : Batches, at : {"persist", "applied", "lost"},
   ledger : Aggregate, dirty : BOOLEAN, reset_early : BOOLEAN]

CallType == {NoCall} \cup Asked \cup Changing

(* A change has been made that is not answered yet.                        *)
Saved == At("persist") \/ At("applied") \/ At("lost")

(* The document at start-up plays no part any more: an early reset.        *)
Early == IF Saved THEN call.reset_early ELSE reset_early

(* The ledger without the change that is not answered yet.                 *)
Settled == IF loaded THEN Plus(base, told) ELSE told

Total(b) == base[b] + told[b]

Typed ==
  /\ mode \in Modes
  /\ ledger \in Aggregate /\ base \in Aggregate /\ told \in Aggregate
  /\ doc \in Aggregate \cup {Absent}
  /\ docs \in BOOLEAN /\ loaded \in BOOLEAN /\ dirty \in BOOLEAN /\ reset_early \in BOOLEAN
  /\ failed \subseteq Events /\ claims \subseteq Batches /\ wiped \subseteq Batches
  /\ call \in CallType

(* What each kind of instance rules out.                                   *)
Modal ==
  /\ mode = "standalone" => ~docs /\ doc = Absent
  /\ At("write early") \/ At("applied") \/ At("lost") => loaded /\ docs
  /\ require_storage =>
       /\ docs /\ ~dirty /\ ~reset_early /\ ~At("write early")
       /\ At("apply") \/ Saved => loaded
       /\ Saved => ~call.dirty /\ ~call.reset_early

(* The ledger, the document and what was told; what a call that is not     *)
(* answered yet made of them, and what a rollback finds in it.             *)
Balanced ==
  /\ ~loaded => base = IF Early THEN Zero ELSE Stored
  /\ ~Saved => ledger = Settled
  /\ Saved =>
       /\ call.ledger = Settled
       /\ call.kind = "record" => ledger = Plus(call.ledger, One(call.batch))
       /\ call.kind = "import" => loaded /\ call.ledger = Zero /\ ledger = One(call.batch)
       /\ call.kind = "reset" => ledger = Zero /\ (~loaded => reset_early)
       /\ call.kind # "reset" => reset_early = call.reset_early
  /\ At("applied") => doc = ledger

Single ==
  /\ \A b \in Batches : Total(b) <= 1 /\ Stored[b] <= 1
  /\ \A b \in failed : Total(b) = 0
  /\ call.kind = "record" => call.batch \in Events /\ Total(call.batch) = 0
  /\ call.kind = "import" => call.batch = Legacy

Governed ==
  /\ wiped \cap failed = {}
  /\ call.kind \in {"record", "import"} => call.batch \notin wiped
  /\ require_storage =>
       /\ \A b \in claims : Stored[b] > 0 /\ Total(b) > 0
       /\ \A b \in wiped : Stored[b] = 0 /\ Total(b) = 0
       /\ Saved /\ call.kind = "reset" => claims = {}

IInv == Typed /\ Modal /\ Balanced /\ Single /\ Governed

-----------------------------------------------------------------------------
(* Aggregates are added event by event.                                    *)
LEMMA PlusFacts ==
  ASSUME NEW a \in Aggregate, NEW b \in Aggregate
  PROVE  /\ Plus(a, b) \in Aggregate
         /\ \A x \in Batches : Plus(a, b)[x] = a[x] + b[x] /\ a[x] \in Nat
         /\ Plus(a, Zero) = a /\ Plus(Zero, a) = a
         /\ Plus(a, b) = Plus(b, a)
<1>1. Plus(a, b) \in Aggregate /\ \A x \in Batches : Plus(a, b)[x] = a[x] + b[x]
  BY DEF Plus, Aggregate
<1>2. \A x \in Batches : a[x] \in Nat /\ b[x] \in Nat
  BY DEF Aggregate
<1>3. Plus(a, Zero) = [x \in Batches |-> a[x]] /\ Plus(Zero, a) = [x \in Batches |-> a[x]]
  BY <1>2 DEF Plus, Zero
<1>4. a = [x \in Batches |-> a[x]]
  BY DEF Aggregate
<1>5. Plus(a, b) = Plus(b, a)
  BY <1>2 DEF Plus
<1> QED BY <1>1, <1>2, <1>3, <1>4, <1>5

LEMMA PlusAssociates ==
  ASSUME NEW a \in Aggregate, NEW b \in Aggregate, NEW c \in Aggregate
  PROVE  Plus(Plus(a, b), c) = Plus(a, Plus(b, c))
<1>1. \A x \in Batches : a[x] \in Nat /\ b[x] \in Nat /\ c[x] \in Nat
  BY DEF Aggregate
<1>2. \A x \in Batches : Plus(Plus(a, b), c)[x] = Plus(a, Plus(b, c))[x]
  BY <1>1 DEF Plus
<1> QED BY <1>2 DEF Plus

LEMMA ZeroFacts ==
  /\ Zero \in Aggregate
  /\ \A x \in Batches : Zero[x] = 0
  BY DEF Zero, Aggregate

LEMMA OneFacts ==
  ASSUME NEW b \in Batches
  PROVE  /\ One(b) \in Aggregate
         /\ \A x \in Batches : One(b)[x] = IF x = b THEN 1 ELSE 0
  BY DEF One, Zero, Aggregate

(* An aggregate that counts nothing is the empty one.                      *)
LEMMA NothingIsZero ==
  ASSUME NEW a \in Aggregate, \A x \in Batches : a[x] = 0
  PROVE  a = Zero
  BY DEF Zero, Aggregate

LEMMA BatchFacts ==
  /\ Legacy \in Batches
  /\ Events \subseteq Batches
  /\ Legacy \notin Events
  BY EventsAssumption DEF Batches

LEMMA StoredFacts ==
  ASSUME doc \in Aggregate \cup {Absent}
  PROVE  /\ Stored \in Aggregate
         /\ doc # Absent => Stored = doc
         /\ doc = Absent => Stored = Zero
         /\ doc \in Aggregate => Stored = doc
  BY ZeroFacts, AbsentAssumption DEF Stored, Aggregate

LEMMA CallFacts ==
  ASSUME NEW c \in CallType
  PROVE  /\ c = NoCall <=> c.kind = "none"
         /\ c # NoCall => c.kind \in Kinds /\ c.batch \in Batches
         /\ c # NoCall /\ c.at \in {"load", "write early", "apply"} => c \in Asked
         /\ c # NoCall /\ c.at \notin {"load", "write early", "apply"} =>
              c \in Changing /\ c.at \in {"persist", "applied", "lost"}
<1>0. NoCall.kind = "none" /\ "none" \notin Kinds
  BY DEF NoCall, Kinds
<1>1. CASE c = NoCall
  BY <1>0, <1>1
<1>2. CASE c \in Asked
  <2>1. c.kind \in Kinds /\ c.batch \in Batches /\ c.at \in {"load", "write early", "apply"}
    BY <1>2 DEF Asked
  <2> QED BY <1>0, <1>2, <2>1
<1>3. CASE c \in Changing
  <2>1. c.kind \in Kinds /\ c.batch \in Batches /\ c.at \in {"persist", "applied", "lost"}
    BY <1>3 DEF Changing
  <2> QED BY <1>0, <1>3, <2>1
<1> QED BY <1>1, <1>2, <1>3 DEF CallType

(* Where a call can be, and what it holds there.                           *)
LEMMA PlaceFacts ==
  ASSUME Typed
  PROVE  /\ call = NoCall <=> call.kind = "none"
         /\ call = NoCall => ~Saved /\ \A p : ~At(p)
         /\ At("load") \/ At("apply") \/ At("write early") => call \in Asked /\ ~Saved
         /\ Saved => /\ call \in Changing
                     /\ call.kind \in {"record", "import", "reset"}
                     /\ call.batch \in Batches /\ call.ledger \in Aggregate
                     /\ call.dirty \in BOOLEAN /\ call.reset_early \in BOOLEAN
         /\ call # NoCall => call.kind \in Kinds /\ call.batch \in Batches
         /\ call # NoCall /\ ~Saved => call \in Asked
  BY CallFacts DEF Typed, At, Saved, Asked, Changing, Kinds, CallType, NoCall

LEMMA SettledFacts ==
  ASSUME Typed
  PROVE  /\ Settled \in Aggregate
         /\ \A b \in Batches : /\ Settled[b] <= Total(b) /\ Settled[b] \in Nat
                               /\ loaded => Settled[b] = Total(b)
                               /\ Total(b) \in Nat /\ Stored[b] \in Nat
                               /\ base[b] \in Nat /\ told[b] \in Nat
<1>1. base \in Aggregate /\ told \in Aggregate /\ Stored \in Aggregate
  BY StoredFacts DEF Typed
<1>2. Plus(base, told) \in Aggregate /\ \A x \in Batches : Plus(base, told)[x] = base[x] + told[x]
  BY <1>1, PlusFacts
<1>3. \A b \in Batches : base[b] \in Nat /\ told[b] \in Nat /\ Stored[b] \in Nat
  BY <1>1 DEF Aggregate
<1> QED BY <1>1, <1>2, <1>3 DEF Settled, Total

LEMMA InitHolds == Init => IInv
<1> SUFFICES ASSUME Init PROVE IInv
  OBVIOUS
<1>1. /\ mode \in Modes /\ ledger = Zero /\ docs = require_storage /\ loaded = FALSE
      /\ dirty = FALSE /\ reset_early = FALSE /\ doc = Absent /\ call = NoCall
      /\ base = Zero /\ told = Zero /\ failed = {} /\ claims = {} /\ wiped = {}
  BY DEF Init
<1>2. ~Saved /\ \A p : ~At(p)
  BY <1>1 DEF Saved, At
<1>3. Stored = Zero /\ call.kind = "none"
  BY <1>1 DEF Stored, NoCall
<1>4. Typed
  BY <1>1, ZeroFacts DEF Typed, CallType, require_storage
<1>5. Modal
  BY <1>1, <1>2 DEF Modal, require_storage
<1>6. Balanced
  BY <1>1, <1>2, <1>3 DEF Balanced, Early, Settled
<1>7. Single
  BY <1>1, <1>3, ZeroFacts DEF Single, Total
<1>8. Governed
  BY <1>1, <1>3 DEF Governed
<1> QED BY <1>4, <1>5, <1>6, <1>7, <1>8 DEF IInv

-----------------------------------------------------------------------------
(* One step per action.                                                    *)
LEMMA BeginKeeps ==
  ASSUME IInv, NEW kind \in Kinds, NEW b \in Batches, Begin(kind, b)
  PROVE  IInv'
<1>0. Typed /\ Modal /\ Balanced /\ Single /\ Governed
  BY DEF IInv
<1>1. /\ call = NoCall /\ call' = [kind |-> kind, batch |-> b, at |-> "load"]
      /\ UNCHANGED <<mode, ledger, docs, loaded, dirty, reset_early, doc>>
      /\ UNCHANGED <<base, told, failed, claims, wiped>>
  BY DEF Begin, state, history
<1>2. ~Saved /\ (\A p : ~At(p)) /\ ~Saved' /\ ~At("apply")' /\ ~At("write early")'
      /\ ~At("applied")' /\ ~At("lost")'
  BY <1>0, <1>1, PlaceFacts DEF Saved, At
<1>3. Typed'
  BY <1>0, <1>1 DEF Typed, CallType, Asked
<1>4. Modal'
  BY <1>0, <1>1, <1>2 DEF Modal, require_storage
<1>5. Balanced'
  BY <1>0, <1>1, <1>2 DEF Balanced, Early, Settled, Stored
<1>6. Offered(kind, b)
  BY DEF Begin
<1>7. kind = "record" => b \in Events /\ Total(b) = 0 /\ b \notin wiped
  <2> SUFFICES ASSUME kind = "record" PROVE b \in Events /\ Total(b) = 0 /\ b \notin wiped
    OBVIOUS
  <2>1. b \in Events /\ (b \in failed \/ b \notin Recorded \cup wiped)
    BY <1>6 DEF Offered
  <2>2. b \notin Recorded => Total(b) = 0
    <3>1. ledger[b] \in Nat /\ base[b] \in Nat /\ told[b] \in Nat /\ Stored[b] \in Nat
      BY <1>0, SettledFacts DEF Typed, Aggregate
    <3> QED BY <3>1 DEF Recorded, Total
  <2> QED BY <2>1, <2>2, <1>0 DEF Single, Governed
<1>8. kind = "import" => b = Legacy /\ b \notin wiped
  BY <1>6 DEF Offered
<1>9. Single'
  BY <1>0, <1>1, <1>7, <1>8 DEF Single, Total, Stored
<1>10. Governed'
  BY <1>0, <1>1, <1>2, <1>7, <1>8 DEF Governed, Total, Stored, require_storage
<1> QED BY <1>3, <1>4, <1>5, <1>9, <1>10 DEF IInv

LEMMA GotoFacts ==
  ASSUME Typed, call \in Asked, NEW p \in {"load", "write early", "apply"}, Goto(p)
  PROVE  /\ call' \in Asked /\ call'.kind = call.kind /\ call'.batch = call.batch
         /\ ~Saved /\ ~Saved'
         /\ ~At("persist")' /\ ~At("applied")' /\ ~At("lost")'
         /\ At("write early")' <=> p = "write early"
         /\ At("apply")' <=> p = "apply"
<1>1. call' = [call EXCEPT !.at = p]
  BY DEF Goto
<1>2. /\ call' \in Asked /\ call'.kind = call.kind /\ call'.batch = call.batch /\ call'.at = p
      /\ call.at \in {"load", "write early", "apply"}
  BY <1>1 DEF Asked
<1>3. call' # NoCall
  <2>1. call'.kind \in Kinds /\ NoCall.kind \notin Kinds
    BY <1>2 DEF Asked, Kinds, NoCall
  <2> QED BY <2>1
<1> QED BY <1>2, <1>3 DEF At, Saved

LEMMA LoadDoneKeeps ==
  ASSUME IInv, LoadDone
  PROVE  IInv'
<1>0. Typed /\ Modal /\ Balanced /\ Single /\ Governed
  BY DEF IInv
<1>1. /\ At("load") /\ loaded /\ Goto("apply")
      /\ UNCHANGED <<mode, ledger, docs, loaded, dirty, reset_early, doc>>
      /\ UNCHANGED <<base, told, failed, claims, wiped>>
  BY DEF LoadDone, state, history
<1>2. /\ call' \in Asked /\ call'.kind = call.kind /\ call'.batch = call.batch
      /\ ~Saved /\ ~Saved'
      /\ ~At("write early")' /\ ~At("applied")' /\ ~At("lost")'
  BY <1>0, <1>1, PlaceFacts, GotoFacts
<1>3. Typed'
  BY <1>0, <1>1, <1>2 DEF Typed, CallType
<1>4. Modal'
  BY <1>0, <1>1, <1>2 DEF Modal, require_storage
<1>5. Balanced'
  BY <1>0, <1>1, <1>2 DEF Balanced, Early, Settled, Stored
<1>6. Single'
  BY <1>0, <1>1, <1>2 DEF Single, Total, Stored
<1>7. Governed'
  BY <1>0, <1>1, <1>2 DEF Governed, Total, Stored, require_storage
<1> QED BY <1>3, <1>4, <1>5, <1>6, <1>7 DEF IInv

LEMMA LoadStandaloneKeeps ==
  ASSUME IInv, LoadStandalone
  PROVE  IInv'
<1>0. Typed /\ Modal /\ Balanced /\ Single /\ Governed
  BY DEF IInv
<1>1. /\ At("load") /\ ~loaded /\ ~docs /\ mode = "standalone" /\ loaded' = TRUE /\ Goto("apply")
      /\ UNCHANGED <<mode, ledger, docs, dirty, reset_early, doc>>
      /\ UNCHANGED <<base, told, failed, claims, wiped>>
  BY DEF LoadStandalone, history
<1>2. /\ call' \in Asked /\ call'.kind = call.kind /\ call'.batch = call.batch
      /\ ~Saved /\ ~Saved'
      /\ ~At("write early")' /\ ~At("applied")' /\ ~At("lost")'
  BY <1>0, <1>1, PlaceFacts, GotoFacts
<1>3. Typed'
  BY <1>0, <1>1, <1>2 DEF Typed, CallType
<1>4. Modal'
  BY <1>0, <1>1, <1>2 DEF Modal, require_storage
<1>5. Balanced'
  \* a standalone instance stores nothing: what was told is all there is
  <2>1. base = Zero
    BY <1>0, <1>1, <1>2 DEF Modal, Balanced, Stored, Early
  <2>2. Plus(base, told) = told
    BY <1>0, <2>1, PlusFacts DEF Typed
  <2> QED BY <1>0, <1>1, <1>2, <2>2 DEF Balanced, Early, Settled, Stored
<1>6. Single'
  BY <1>0, <1>1, <1>2 DEF Single, Total, Stored
<1>7. Governed'
  BY <1>0, <1>1, <1>2 DEF Governed, Total, Stored, require_storage
<1> QED BY <1>3, <1>4, <1>5, <1>6, <1>7 DEF IInv

LEMMA ConnectKeeps ==
  ASSUME IInv, Connect
  PROVE  IInv'
<1>0. Typed /\ Modal /\ Balanced /\ Single /\ Governed
  BY DEF IInv
<1>1. /\ At("load") /\ ~loaded /\ ~docs /\ mode = "legacy" /\ docs' = TRUE
      /\ UNCHANGED <<mode, ledger, loaded, dirty, reset_early, doc, call>>
      /\ UNCHANGED <<base, told, failed, claims, wiped>>
  BY DEF Connect, history
<1>2. Saved' = Saved /\ \A p : At(p)' = At(p)
  BY <1>1 DEF Saved, At
<1>3. Typed'
  BY <1>0, <1>1 DEF Typed
<1>4. Modal'
  BY <1>0, <1>1, <1>2 DEF Modal, require_storage
<1>5. Balanced'
  BY <1>0, <1>1, <1>2 DEF Balanced, Early, Settled, Stored
<1>6. Single'
  BY <1>0, <1>1 DEF Single, Total, Stored
<1>7. Governed'
  BY <1>0, <1>1, <1>2 DEF Governed, Total, Stored, require_storage
<1> QED BY <1>3, <1>4, <1>5, <1>6, <1>7 DEF IInv

(* A call that has changed nothing yet is answered with an error.          *)
LEMMA RefusedKeeps ==
  ASSUME IInv, call \in Asked, ~Saved, AnswerErr, UNCHANGED <<mode, state, doc>>
  PROVE  IInv'
<1>0. Typed /\ Modal /\ Balanced /\ Single /\ Governed
  BY DEF IInv
<1>1. /\ UNCHANGED <<mode, ledger, docs, loaded, dirty, reset_early, doc>>
      /\ UNCHANGED <<base, told, claims, wiped>>
      /\ call' = NoCall
      /\ failed' = IF call.kind = "record" THEN failed \cup {call.batch} ELSE failed
  BY DEF AnswerErr, state
<1>2. ~Saved' /\ (\A p : ~At(p)') /\ call'.kind = "none"
  BY <1>1 DEF Saved, At, NoCall
<1>3. Typed'
  BY <1>0, <1>1 DEF Typed, CallType, Single
<1>4. Modal'
  BY <1>0, <1>1, <1>2 DEF Modal, require_storage
<1>5. Balanced'
  BY <1>0, <1>1, <1>2 DEF Balanced, Early, Settled, Stored
<1>6. Single'
  BY <1>0, <1>1, <1>2 DEF Single, Total, Stored
<1>7. Governed'
  BY <1>0, <1>1, <1>2 DEF Governed, Total, Stored, require_storage
<1> QED BY <1>3, <1>4, <1>5, <1>6, <1>7 DEF IInv

LEMMA LoadUnavailableKeeps ==
  ASSUME IInv, LoadUnavailable
  PROVE  IInv'
<1>0. Typed /\ Modal /\ Balanced /\ Single /\ Governed
  BY DEF IInv
<1>1. At("load") /\ ~loaded /\ UNCHANGED <<mode, state, doc>>
  BY DEF LoadUnavailable
<1>2. call \in Asked /\ ~Saved
  BY <1>0, <1>1, PlaceFacts
<1>3. CASE require_storage
  <2>1. AnswerErr
    BY <1>3 DEF LoadUnavailable
  <2> QED BY <1>1, <1>2, <2>1, RefusedKeeps
<1>4. CASE ~require_storage
  <2>1. /\ UNCHANGED <<mode, ledger, docs, loaded, dirty, reset_early, doc>>
        /\ UNCHANGED <<base, told, failed, claims, wiped>> /\ Goto("apply")
    BY <1>4 DEF LoadUnavailable, state, history
  <2>2. /\ call' \in Asked /\ call'.kind = call.kind /\ call'.batch = call.batch
        /\ ~Saved /\ ~Saved'
        /\ ~At("write early")' /\ ~At("applied")' /\ ~At("lost")'
    BY <1>0, <1>2, <2>1, GotoFacts
  <2>3. Typed'
    BY <1>0, <2>1, <2>2 DEF Typed, CallType
  <2>4. Modal'
    BY <1>0, <1>4, <2>1, <2>2 DEF Modal, require_storage
  <2>5. Balanced'
    BY <1>0, <2>1, <2>2 DEF Balanced, Early, Settled, Stored
  <2>6. Single'
    BY <1>0, <2>1, <2>2 DEF Single, Total, Stored
  <2>7. Governed'
    BY <1>0, <2>1, <2>2 DEF Governed, Total, Stored, require_storage
  <2> QED BY <2>3, <2>4, <2>5, <2>6, <2>7 DEF IInv
<1> QED BY <1>3, <1>4

LEMMA ReadKeeps ==
  ASSUME IInv, Read
  PROVE  IInv'
<1>0. Typed /\ Modal /\ Balanced /\ Single /\ Governed
  BY DEF IInv
<1>1. /\ At("load") /\ ~loaded /\ docs /\ loaded' = TRUE
      /\ ledger' = IF doc # Absent /\ ~reset_early THEN Plus(doc, ledger) ELSE ledger
      /\ UNCHANGED <<mode, docs, doc, base, told, failed, claims, wiped>>
      /\ dirty' \in BOOLEAN /\ reset_early' \in BOOLEAN
      /\ ~dirty => UNCHANGED <<dirty, reset_early>> /\ Goto("apply")
      /\ dirty => Goto("write early")
  BY <1>0 DEF Read, history, Typed
<1>2. /\ call' \in Asked /\ call'.kind = call.kind /\ call'.batch = call.batch
      /\ ~Saved /\ ~Saved'
      /\ (At("write early")' <=> dirty) /\ ~At("applied")' /\ ~At("lost")'
  BY <1>0, <1>1, PlaceFacts, GotoFacts
<1>3. Typed'
  BY <1>0, <1>1, <1>2, PlusFacts DEF Typed, CallType
<1>4. Modal'
  BY <1>0, <1>1, <1>2 DEF Modal, require_storage
<1>5. Balanced'
  <2>1. ledger = told /\ base = IF reset_early THEN Zero ELSE Stored
    BY <1>0, <1>1, <1>2 DEF Balanced, Settled, Early
  <2>2. CASE doc # Absent /\ ~reset_early
    <3>1. base = doc
      BY <1>0, <2>1, <2>2, StoredFacts DEF Typed
    <3> QED BY <1>0, <1>1, <1>2, <2>1, <2>2, <3>1 DEF Balanced, Early, Settled, Stored
  <2>3. CASE ~(doc # Absent /\ ~reset_early)
    <3>1. base = Zero
      BY <1>0, <2>1, <2>3, StoredFacts DEF Typed
    <3>2. Plus(base, told) = told
      BY <1>0, <3>1, PlusFacts DEF Typed
    <3> QED BY <1>0, <1>1, <1>2, <2>1, <2>3, <3>2 DEF Balanced, Early, Settled, Stored
  <2> QED BY <2>2, <2>3
<1>6. Single'
  BY <1>0, <1>1, <1>2 DEF Single, Total, Stored
<1>7. Governed'
  BY <1>0, <1>1, <1>2 DEF Governed, Total, Stored, require_storage
<1> QED BY <1>3, <1>4, <1>5, <1>6, <1>7 DEF IInv

LEMMA ChangedFacts ==
  ASSUME Typed, At("apply"), call.kind # "stats", NEW new, Changed(new)
  PROVE  /\ call' \in Changing /\ call'.kind = call.kind /\ call'.batch = call.batch
         /\ call'.ledger = ledger /\ call'.dirty = dirty /\ call'.reset_early = reset_early
         /\ ~Saved /\ Saved' /\ call \in Asked
         /\ ~At("write early")' /\ ~At("apply")' /\ ~At("applied")' /\ ~At("lost")'
         /\ ledger' = new /\ UNCHANGED <<mode, docs, loaded, doc>>
<1>1. call \in Asked /\ ~Saved
  BY PlaceFacts
<1>2. call' = [kind |-> call.kind, batch |-> call.batch, at |-> "persist",
               ledger |-> ledger, dirty |-> dirty, reset_early |-> reset_early]
  BY DEF Changed
<1>3. /\ call' \in Changing /\ call'.kind = call.kind /\ call'.batch = call.batch
      /\ call'.ledger = ledger /\ call'.dirty = dirty /\ call'.reset_early = reset_early
      /\ call'.at = "persist"
  BY <1>1, <1>2 DEF Typed, Asked, Changing
<1>4. call' # NoCall
  <2>1. call'.kind \in Kinds /\ NoCall.kind \notin Kinds
    BY <1>3 DEF Changing, Kinds, NoCall
  <2> QED BY <2>1
<1> QED BY <1>1, <1>3, <1>4 DEF At, Saved, Changed

LEMMA RecordKeeps ==
  ASSUME IInv, Record
  PROVE  IInv'
<1>0. Typed /\ Modal /\ Balanced /\ Single /\ Governed
  BY DEF IInv
<1>1. /\ At("apply") /\ call.kind = "record" /\ Changed(Plus(ledger, One(call.batch)))
      /\ dirty' = (dirty \/ ~loaded)
      /\ UNCHANGED <<reset_early, base, told, failed, claims, wiped>>
  BY DEF Record, history
<1>2. /\ call' \in Changing /\ call'.kind = call.kind /\ call'.batch = call.batch
      /\ call'.ledger = ledger /\ call'.dirty = dirty /\ call'.reset_early = reset_early
      /\ ~Saved /\ Saved' /\ call \in Asked
      /\ ~At("write early")' /\ ~At("apply")' /\ ~At("applied")' /\ ~At("lost")'
      /\ ledger' = Plus(ledger, One(call.batch)) /\ UNCHANGED <<mode, docs, loaded, doc>>
  BY <1>0, <1>1, ChangedFacts
<1>3. Typed'
  <2>1. One(call.batch) \in Aggregate
    BY <1>2, OneFacts DEF Asked
  <2>2. ledger' \in Aggregate
    BY <1>0, <1>2, <2>1, PlusFacts DEF Typed
  <2> QED BY <1>0, <1>1, <1>2, <2>2 DEF Typed, CallType
<1>4. Modal'
  BY <1>0, <1>1, <1>2 DEF Modal, require_storage, Typed
<1>5. Balanced'
  BY <1>0, <1>1, <1>2 DEF Balanced, Early, Settled, Stored
<1>6. Single'
  BY <1>0, <1>1, <1>2 DEF Single, Total, Stored
<1>7. Governed'
  BY <1>0, <1>1, <1>2 DEF Governed, Total, Stored, require_storage
<1> QED BY <1>3, <1>4, <1>5, <1>6, <1>7 DEF IInv

LEMMA ResetKeeps ==
  ASSUME IInv, Reset
  PROVE  IInv'
<1>0. Typed /\ Modal /\ Balanced /\ Single /\ Governed
  BY DEF IInv
<1>1. /\ At("apply") /\ call.kind = "reset" /\ Changed(Zero)
      /\ dirty' = (dirty \/ ~loaded) /\ reset_early' = (reset_early \/ ~loaded)
      /\ claims' = {} /\ UNCHANGED <<base, told, failed, wiped>>
  BY DEF Reset
<1>2. /\ call' \in Changing /\ call'.kind = call.kind /\ call'.batch = call.batch
      /\ call'.ledger = ledger /\ call'.dirty = dirty /\ call'.reset_early = reset_early
      /\ ~Saved /\ Saved' /\ call \in Asked
      /\ ~At("write early")' /\ ~At("apply")' /\ ~At("applied")' /\ ~At("lost")'
      /\ ledger' = Zero /\ UNCHANGED <<mode, docs, loaded, doc>>
  BY <1>0, <1>1, ChangedFacts
<1>3. Typed'
  BY <1>0, <1>1, <1>2, ZeroFacts DEF Typed, CallType
<1>4. Modal'
  BY <1>0, <1>1, <1>2 DEF Modal, require_storage, Typed
<1>5. Balanced'
  BY <1>0, <1>1, <1>2 DEF Balanced, Early, Settled, Stored
<1>6. Single'
  BY <1>0, <1>1, <1>2 DEF Single, Total, Stored
<1>7. Governed'
  BY <1>0, <1>1, <1>2 DEF Governed, Total, Stored, require_storage
<1> QED BY <1>3, <1>4, <1>5, <1>6, <1>7 DEF IInv

LEMMA ImportKeeps ==
  ASSUME IInv, Import
  PROVE  IInv'
<1>0. Typed /\ Modal /\ Balanced /\ Single /\ Governed
  BY DEF IInv
<1>1. /\ At("apply") /\ call.kind = "import" /\ loaded /\ ledger = Zero /\ Changed(One(Legacy))
      /\ UNCHANGED <<dirty, reset_early, base, told, failed, claims, wiped>>
  BY DEF Import, history
<1>2. /\ call' \in Changing /\ call'.kind = call.kind /\ call'.batch = call.batch
      /\ call'.ledger = ledger /\ call'.dirty = dirty /\ call'.reset_early = reset_early
      /\ ~Saved /\ Saved' /\ call \in Asked
      /\ ~At("write early")' /\ ~At("apply")' /\ ~At("applied")' /\ ~At("lost")'
      /\ ledger' = One(Legacy) /\ UNCHANGED <<mode, docs, loaded, doc>>
  BY <1>0, <1>1, ChangedFacts
<1>3. Typed'
  <2>1. One(Legacy) \in Aggregate
    BY BatchFacts, OneFacts
  <2> QED BY <1>0, <1>1, <1>2, <2>1 DEF Typed, CallType
<1>4. Modal'
  BY <1>0, <1>1, <1>2 DEF Modal, require_storage, Typed
<1>5. Balanced'
  <2>1. call.batch = Legacy
    BY <1>0, <1>1 DEF Single
  <2> QED BY <1>0, <1>1, <1>2, <2>1 DEF Balanced, Early, Settled, Stored
<1>6. Single'
  BY <1>0, <1>1, <1>2 DEF Single, Total, Stored
<1>7. Governed'
  BY <1>0, <1>1, <1>2 DEF Governed, Total, Stored, require_storage
<1> QED BY <1>3, <1>4, <1>5, <1>6, <1>7 DEF IInv

LEMMA ImportDeclinedKeeps ==
  ASSUME IInv, ImportDeclined
  PROVE  IInv'
<1>1. At("apply") /\ AnswerErr /\ UNCHANGED <<mode, state, doc>>
  BY DEF ImportDeclined
<1>2. call \in Asked /\ ~Saved
  BY <1>1, PlaceFacts DEF IInv
<1> QED BY <1>1, <1>2, RefusedKeeps

LEMMA StatsKeeps ==
  ASSUME IInv, Stats
  PROVE  IInv'
<1>0. Typed /\ Modal /\ Balanced /\ Single /\ Governed
  BY DEF IInv
<1>1. /\ At("apply") /\ call' = NoCall
      /\ UNCHANGED <<mode, ledger, docs, loaded, dirty, reset_early, doc>>
      /\ UNCHANGED <<base, told, failed, claims, wiped>>
  BY DEF Stats, AnswerOk, state
<1>2. ~Saved /\ ~Saved' /\ (\A p : ~At(p)') /\ call'.kind = "none"
      /\ ~At("write early")' /\ ~At("apply")' /\ ~At("applied")' /\ ~At("lost")'
  BY <1>0, <1>1, PlaceFacts DEF Saved, At, NoCall
<1>3. Typed'
  BY <1>0, <1>1 DEF Typed, CallType
<1>4. Modal'
  BY <1>0, <1>1, <1>2 DEF Modal, require_storage
<1>5. Balanced'
  BY <1>0, <1>1, <1>2 DEF Balanced, Early, Settled, Stored
<1>6. Single'
  BY <1>0, <1>1, <1>2 DEF Single, Total, Stored
<1>7. Governed'
  BY <1>0, <1>1, <1>2 DEF Governed, Total, Stored, require_storage
<1> QED BY <1>3, <1>4, <1>5, <1>6, <1>7 DEF IInv

(* What a change that is not answered yet adds up to, event by event.      *)
LEMMA ChangeFacts ==
  ASSUME IInv, Saved
  PROVE  /\ call.kind \in {"record", "import"} =>
              /\ call.batch \notin wiped /\ Total(call.batch) = 0
              /\ \A b \in Batches :
                   ledger[b] = Settled[b] + IF b = call.batch THEN 1 ELSE 0
         /\ call.kind = "import" => \A b \in Batches : Total(b) = 0
         /\ call.kind = "reset" => \A b \in Batches : ledger[b] = 0
<1>0. Typed /\ Modal /\ Balanced /\ Single /\ Governed
  BY DEF IInv
<1>1. /\ call.batch \in Batches /\ call.ledger = Settled /\ Settled \in Aggregate
      /\ call.kind \in {"record", "import", "reset"}
  BY <1>0, PlaceFacts, SettledFacts DEF Balanced
<1>2. call.kind \in {"record", "import"} => call.batch \notin wiped
  BY <1>0 DEF Governed
<1>3. /\ One(call.batch) \in Aggregate
      /\ \A x \in Batches : One(call.batch)[x] = IF x = call.batch THEN 1 ELSE 0
  BY <1>1, OneFacts
<1>4. CASE call.kind = "record"
  <2>1. ledger = Plus(Settled, One(call.batch))
    BY <1>0, <1>1, <1>4 DEF Balanced
  <2>2. \A x \in Batches : ledger[x] = Settled[x] + One(call.batch)[x]
    BY <1>1, <1>3, <2>1, PlusFacts
  <2>3. Total(call.batch) = 0
    BY <1>0, <1>4 DEF Single
  <2> QED BY <1>2, <1>3, <1>4, <2>2, <2>3
<1>5. CASE call.kind = "import"
  <2>1. loaded /\ Settled = Zero /\ ledger = One(call.batch)
    BY <1>0, <1>1, <1>5 DEF Balanced
  <2>2. \A b \in Batches : Total(b) = 0 /\ Settled[b] = 0
    BY <1>0, <2>1, SettledFacts, ZeroFacts
  <2> QED BY <1>1, <1>2, <1>3, <1>5, <2>1, <2>2
<1>6. CASE call.kind = "reset"
  BY <1>0, <1>6, ZeroFacts DEF Balanced
<1> QED BY <1>1, <1>4, <1>5, <1>6

LEMMA LedgerCountsOnce ==
  ASSUME IInv, NEW b \in Batches
  PROVE  ledger[b] \in Nat /\ ledger[b] <= 1
<1>0. Typed /\ Balanced /\ Single
  BY DEF IInv
<1>1. Settled[b] \in Nat /\ Settled[b] <= Total(b) /\ Total(b) \in Nat /\ Total(b) <= 1
  BY <1>0, SettledFacts DEF Single
<1>2. CASE ~Saved
  BY <1>0, <1>1, <1>2 DEF Balanced
<1>3. CASE Saved
  <2>1. call.kind \in {"record", "import"} \/ call.kind = "reset"
    BY <1>0, <1>3, PlaceFacts
  <2>2. CASE call.kind = "reset"
    <3>1. ledger[b] = 0
      BY <1>3, <2>2, ChangeFacts
    <3> QED BY <3>1
  <2>3. CASE call.kind \in {"record", "import"}
    <3>1. /\ Total(call.batch) = 0
          /\ ledger[b] = Settled[b] + IF b = call.batch THEN 1 ELSE 0
      BY <1>3, <2>3, ChangeFacts
    <3> QED BY <1>1, <3>1
  <2> QED BY <2>1, <2>2, <2>3
<1> QED BY <1>2, <1>3

LEMMA AddedKeeps ==
  ASSUME IInv, Saved, call.kind \in {"record", "import"}, AnswerOk,
         UNCHANGED <<mode, state, doc>>, require_storage => At("applied")
  PROVE  IInv'
<1>0. Typed /\ Modal /\ Balanced /\ Single /\ Governed
  BY DEF IInv
<1>1. /\ UNCHANGED <<mode, ledger, docs, loaded, dirty, reset_early, doc, base, wiped>>
      /\ call' = NoCall
      /\ told' = Plus(told, One(call.batch))
      /\ claims' = claims \cup {call.batch} /\ failed' = failed \ {call.batch}
  BY DEF AnswerOk, state
<1>2. ~Saved' /\ (\A p : ~At(p)') /\ call'.kind = "none"
      /\ ~At("write early")' /\ ~At("apply")' /\ ~At("applied")' /\ ~At("lost")'
  BY <1>1 DEF Saved, At, NoCall
<1>3. /\ call.batch \in Batches /\ One(call.batch) \in Aggregate
      /\ \A x \in Batches : One(call.batch)[x] = IF x = call.batch THEN 1 ELSE 0
  BY <1>0, PlaceFacts, OneFacts
<1>4. told' \in Aggregate /\ \A x \in Batches : told'[x] = told[x] + One(call.batch)[x]
  BY <1>0, <1>1, <1>3, PlusFacts DEF Typed
<1>5. \A x \in Batches : Total(x)' = Total(x) + IF x = call.batch THEN 1 ELSE 0
  BY <1>0, <1>1, <1>3, <1>4, SettledFacts DEF Total
<1>6. /\ call.batch \notin wiped /\ Total(call.batch) = 0
      /\ \A b \in Batches : ledger[b] = Settled[b] + IF b = call.batch THEN 1 ELSE 0
  BY ChangeFacts
<1>7. Typed'
  BY <1>0, <1>1, <1>3, <1>4 DEF Typed, CallType
<1>8. Modal'
  BY <1>0, <1>1, <1>2 DEF Modal, require_storage
<1>9. Balanced'
  <2>1. ledger = Plus(Settled, One(call.batch))
    <3>1. CASE call.kind = "record"
      BY <1>0, <3>1 DEF Balanced
    <3>2. CASE call.kind = "import"
      <4>1. Settled = Zero /\ ledger = One(call.batch)
        BY <1>0, <3>2 DEF Balanced
      <4> QED BY <4>1, <1>3, PlusFacts
    <3> QED BY <3>1, <3>2
  <2>2. ledger' = Settled'
    BY <1>0, <1>1, <1>3, <2>1, PlusAssociates DEF Settled, Typed
  <2>3. ~loaded => base = IF reset_early THEN Zero ELSE Stored
    BY <1>0 DEF Balanced, Early
  <2> QED BY <1>1, <1>2, <2>2, <2>3 DEF Balanced, Early, Stored
<1>10. Single'
  <2>1. \A b \in Batches : Total(b)' <= 1 /\ Stored'[b] <= 1
    BY <1>0, <1>1, <1>5, <1>6, SettledFacts DEF Single, Stored
  <2>2. \A b \in failed' : Total(b)' = 0
    BY <1>0, <1>1, <1>5, BatchFacts, SettledFacts DEF Single, Typed
  <2> QED BY <1>2, <2>1, <2>2 DEF Single
<1>11. Governed'
  <2>1. wiped' \cap failed' = {}
    BY <1>0, <1>1 DEF Governed
  <2>2. ASSUME require_storage PROVE
          /\ \A b \in claims' : Stored'[b] > 0 /\ Total(b)' > 0
          /\ \A b \in wiped' : Stored'[b] = 0 /\ Total(b)' = 0
    <3>1. doc = ledger /\ loaded /\ Stored' = ledger
      BY <1>0, <1>1, <2>2, StoredFacts DEF Balanced, Modal, Typed, Stored
    <3>2. \A b \in Batches : ledger[b] = Total(b)' /\ Total(b) \in Nat
      BY <1>0, <1>5, <1>6, <3>1, SettledFacts
    <3>3. \A b \in claims' : b \in Batches /\ Total(b)' > 0
      BY <1>0, <1>1, <1>3, <1>5, <2>2, <3>2 DEF Governed, Typed
    <3>4. \A b \in wiped' : b \in Batches /\ Total(b)' = 0
      BY <1>0, <1>1, <1>3, <1>5, <1>6, <2>2, <3>2 DEF Governed, Typed
    <3> QED BY <3>1, <3>2, <3>3, <3>4
  <2>3. require_storage' = require_storage
    BY <1>1 DEF require_storage
  <2> QED BY <1>2, <2>1, <2>2, <2>3 DEF Governed
<1> QED BY <1>7, <1>8, <1>9, <1>10, <1>11 DEF IInv

LEMMA ClearedKeeps ==
  ASSUME IInv, Saved, call.kind = "reset", AnswerOk,
         UNCHANGED <<mode, state, doc>>, require_storage => At("applied")
  PROVE  IInv'
<1>0. Typed /\ Modal /\ Balanced /\ Single /\ Governed
  BY DEF IInv
<1>1. /\ UNCHANGED <<mode, ledger, docs, loaded, dirty, reset_early, doc, failed, claims>>
      /\ call' = NoCall
      /\ told' = Zero /\ base' = Zero
      /\ wiped' = wiped \cup (Recorded \ failed)
  BY DEF AnswerOk, state
<1>2. ~Saved' /\ (\A p : ~At(p)') /\ call'.kind = "none"
      /\ ~At("write early")' /\ ~At("apply")' /\ ~At("applied")' /\ ~At("lost")'
  BY <1>1 DEF Saved, At, NoCall
<1>3. Recorded \subseteq Batches
  BY <1>0, BatchFacts DEF Recorded, Typed
<1>4. Typed'
  BY <1>0, <1>1, <1>3, ZeroFacts DEF Typed, CallType
<1>5. Modal'
  BY <1>0, <1>1, <1>2 DEF Modal, require_storage
<1>6. ledger = Zero /\ (~loaded => reset_early)
  BY <1>0 DEF Balanced
<1>7. Settled' = Zero /\ \A b \in Batches : Total(b)' = 0
  BY <1>1, ZeroFacts, PlusFacts DEF Settled, Total
<1>8. Balanced'
  BY <1>1, <1>2, <1>6, <1>7 DEF Balanced, Early
<1>9. Single'
  <2>1. \A b \in Batches : Total(b)' <= 1 /\ Stored'[b] <= 1
    BY <1>0, <1>1, <1>7 DEF Single, Stored
  <2>2. \A b \in failed' : Total(b)' = 0
    BY <1>0, <1>1, <1>7, BatchFacts DEF Typed
  <2> QED BY <1>2, <2>1, <2>2 DEF Single
<1>10. Governed'
  <2>1. wiped' \cap failed' = {}
    BY <1>0, <1>1 DEF Governed
  <2>2. ASSUME require_storage
        PROVE  claims' = {} /\ \A b \in wiped' : Stored'[b] = 0 /\ Total(b)' = 0
    <3>1. Stored' = Zero
      BY <1>0, <1>1, <1>6, <2>2, StoredFacts DEF Balanced, Typed, Stored
    <3>2. wiped' \subseteq Batches
      BY <1>0, <1>1, <1>3 DEF Typed
    <3>3. claims' = {}
      BY <1>0, <1>1, <2>2 DEF Governed
    <3> QED BY <1>7, <3>1, <3>2, <3>3, ZeroFacts
  <2>3. require_storage' = require_storage
    BY <1>1 DEF require_storage
  <2> QED BY <1>2, <2>1, <2>2, <2>3 DEF Governed
<1> QED BY <1>4, <1>5, <1>8, <1>9, <1>10 DEF IInv

LEMMA RollBackKeeps ==
  ASSUME IInv, Saved, RollBack, UNCHANGED <<mode, doc>>
  PROVE  IInv'
<1>0. Typed /\ Modal /\ Balanced /\ Single /\ Governed
  BY DEF IInv
<1>1. /\ UNCHANGED <<mode, docs, loaded, doc, base, told, claims, wiped>>
      /\ ledger' = call.ledger /\ dirty' = call.dirty /\ reset_early' = call.reset_early
      /\ call' = NoCall
      /\ failed' = IF call.kind = "record" THEN failed \cup {call.batch} ELSE failed
  BY DEF RollBack, AnswerErr
<1>2. ~Saved' /\ (\A p : ~At(p)') /\ call'.kind = "none"
      /\ ~At("write early")' /\ ~At("apply")' /\ ~At("applied")' /\ ~At("lost")'
  BY <1>1 DEF Saved, At, NoCall
<1>3. call \in Changing /\ call.ledger = Settled /\ Settled \in Aggregate
  BY <1>0, PlaceFacts, SettledFacts DEF Balanced
<1>4. call.dirty \in BOOLEAN /\ call.reset_early \in BOOLEAN
  BY <1>3 DEF Changing
<1>5. Typed'
  BY <1>0, <1>1, <1>3, <1>4 DEF Typed, CallType, Single
<1>6. Modal'
  BY <1>0, <1>1, <1>2 DEF Modal, require_storage
<1>7. Balanced'
  BY <1>0, <1>1, <1>2, <1>3 DEF Balanced, Early, Settled, Stored
<1>8. Single'
  BY <1>0, <1>1, <1>2 DEF Single, Total, Stored
<1>9. Governed'
  BY <1>0, <1>1, <1>2 DEF Governed, Total, Stored, require_storage
<1> QED BY <1>5, <1>6, <1>7, <1>8, <1>9 DEF IInv

LEMMA PersistedKeeps ==
  ASSUME IInv, Saved, NEW written, Persisted(written), UNCHANGED <<mode, doc>>,
         require_storage /\ written => At("applied")
  PROVE  IInv'
<1>1. CASE RollBack
  BY <1>1, RollBackKeeps
<1>2. CASE ~RollBack
  <2>1. AnswerOk /\ UNCHANGED state /\ (written \/ ~require_storage)
    BY <1>2 DEF Persisted
  <2>2. UNCHANGED <<mode, state, doc>> /\ (require_storage => At("applied"))
    BY <2>1
  <2>3. call.kind \in {"record", "import", "reset"}
    BY PlaceFacts DEF IInv
  <2> QED BY <2>1, <2>2, <2>3, AddedKeeps, ClearedKeeps
<1> QED BY <1>1, <1>2

LEMMA PersistNothingKeeps ==
  ASSUME IInv, PersistNothing
  PROVE  IInv'
<1>1. /\ At("persist") /\ UNCHANGED <<mode, doc>>
      /\ Persisted(~require_storage /\ Persists = "none")
  BY DEF PersistNothing
<1>2. Saved
  BY <1>1 DEF Saved
<1> DEFINE written == ~require_storage /\ Persists = "none"
<1>3. require_storage /\ written => At("applied")
  OBVIOUS
<1>4. Persisted(written)
  BY <1>1
<1> HIDE DEF written
<1> QED BY <1>1, <1>2, <1>3, <1>4, PersistedKeeps

LEMMA AnsweredKeeps ==
  ASSUME IInv, NEW written \in BOOLEAN, Answered(written)
  PROVE  IInv'
<1>1. /\ At("applied") \/ (At("lost") /\ ~written)
      /\ Persisted(written) /\ UNCHANGED <<mode, doc>>
  BY DEF Answered
<1>2. Saved
  BY <1>1 DEF Saved
<1>3. require_storage /\ written => At("applied")
  BY <1>1
<1> QED BY <1>1, <1>2, <1>3, PersistedKeeps

(* What the put carries counts every event at most once, and with governed *)
(* storage every claim and nothing wiped.                                  *)
LEMMA WriteKeeps ==
  ASSUME IInv, NEW applied \in BOOLEAN, Write(applied)
  PROVE  IInv'
<1>0. Typed /\ Modal /\ Balanced /\ Single /\ Governed
  BY DEF IInv
<1>1. /\ At("persist") /\ loaded /\ docs
      /\ call' = [call EXCEPT !.at = IF applied THEN "applied" ELSE "lost"]
      /\ doc' = (IF applied THEN ledger ELSE doc)
      /\ UNCHANGED <<mode, ledger, docs, loaded, dirty, reset_early>>
      /\ UNCHANGED <<base, told, failed, claims, wiped>>
  BY DEF Write, Sent, Persists, state, history
<1>2. Saved /\ call \in Changing
  BY <1>0, <1>1, PlaceFacts DEF Saved
<1>3. /\ call' \in Changing /\ call'.kind = call.kind /\ call'.batch = call.batch
      /\ call'.ledger = call.ledger /\ call'.dirty = call.dirty
      /\ call'.reset_early = call.reset_early
      /\ call'.at = (IF applied THEN "applied" ELSE "lost")
  BY <1>1, <1>2 DEF Changing
<1>4. call' # NoCall
  <2>1. call'.kind \in Kinds /\ NoCall.kind \notin Kinds
    BY <1>3 DEF Changing, Kinds, NoCall
  <2> QED BY <2>1
<1>5. /\ Saved' /\ ~At("write early")' /\ ~At("apply")' /\ (At("applied")' => applied)
  BY <1>3, <1>4 DEF Saved, At
<1>6. Typed'
  BY <1>0, <1>1, <1>3 DEF Typed, CallType
<1>7. mode # "standalone"
  BY <1>0, <1>1 DEF Modal
<1>8. Modal'
  BY <1>0, <1>1, <1>2, <1>3, <1>5, <1>7 DEF Modal, require_storage
<1>9. Balanced'
  BY <1>0, <1>1, <1>2, <1>3, <1>5 DEF Balanced, Early, Settled, Stored
<1>10. applied => Stored' = ledger
  BY <1>0, <1>1, AbsentAssumption DEF Stored, Typed, Aggregate
<1>11. ~applied => Stored' = Stored
  BY <1>1 DEF Stored
<1>12. Single'
  <2>1. \A b \in Batches : Stored'[b] <= 1
    BY <1>0, <1>10, <1>11, LedgerCountsOnce DEF Single
  <2> QED BY <1>0, <1>1, <1>3, <2>1 DEF Single, Total
<1>13. ASSUME require_storage, applied
       PROVE  (\A b \in claims : ledger[b] > 0) /\ (\A b \in wiped : ledger[b] = 0)
  <2>1. call.kind \in {"record", "import"} \/ call.kind = "reset"
    BY <1>0, <1>2, PlaceFacts
  <2>2. /\ \A b \in claims : b \in Batches /\ Total(b) > 0
        /\ \A b \in wiped : b \in Batches /\ Total(b) = 0
    BY <1>0, <1>13 DEF Governed, Typed
  <2>3. CASE call.kind = "reset"
    BY <1>0, <1>2, <1>13, <2>2, <2>3, ChangeFacts DEF Governed
  <2>4. CASE call.kind \in {"record", "import"}
    <3>1. /\ call.batch \notin wiped
          /\ \A b \in Batches : ledger[b] = Settled[b] + IF b = call.batch THEN 1 ELSE 0
      BY <1>2, <2>4, ChangeFacts
    <3>2. \A b \in Batches : Settled[b] = Total(b) /\ Total(b) \in Nat
      BY <1>0, <1>1, SettledFacts
    <3> QED BY <2>2, <3>1, <3>2
  <2> QED BY <2>1, <2>3, <2>4
<1>14. Governed'
  <2>1. require_storage =>
          /\ \A b \in claims : Stored'[b] > 0
          /\ \A b \in wiped : Stored'[b] = 0
    BY <1>0, <1>10, <1>11, <1>13 DEF Governed
  <2>2. \A b \in Batches : Total(b)' = Total(b)
    BY <1>1 DEF Total
  <2>3. claims \subseteq Batches /\ wiped \subseteq Batches
    BY <1>0 DEF Typed
  <2>4. require_storage =>
          /\ \A b \in claims : Stored'[b] > 0 /\ Total(b)' > 0
          /\ \A b \in wiped : Stored'[b] = 0 /\ Total(b)' = 0
          /\ call.kind = "reset" => claims = {}
    BY <1>0, <1>2, <2>1, <2>2, <2>3 DEF Governed
  <2>5. /\ claims' = claims /\ wiped' = wiped /\ failed' = failed
        /\ require_storage' = require_storage
    BY <1>1 DEF require_storage
  <2>6. /\ wiped \cap failed = {}
        /\ call.kind \in {"record", "import"} => call.batch \notin wiped
    BY <1>0 DEF Governed
  <2> QED BY <1>3, <2>4, <2>5, <2>6 DEF Governed
<1> QED BY <1>6, <1>8, <1>9, <1>12, <1>14 DEF IInv

LEMMA WriteEarlyKeeps ==
  ASSUME IInv, NEW applied \in BOOLEAN, WriteEarly(applied)
  PROVE  IInv'
<1>0. Typed /\ Modal /\ Balanced /\ Single /\ Governed
  BY DEF IInv
<1>1. /\ At("write early") /\ Goto("apply")
      /\ doc' = (IF applied THEN ledger ELSE doc)
      /\ UNCHANGED <<mode, ledger, docs, loaded, dirty, reset_early>>
      /\ UNCHANGED <<base, told, failed, claims, wiped>>
  BY DEF WriteEarly, Sent, state, history
<1>2. /\ call' \in Asked /\ call'.kind = call.kind /\ call'.batch = call.batch
      /\ ~Saved /\ ~Saved'
      /\ ~At("write early")' /\ ~At("applied")' /\ ~At("lost")'
  BY <1>0, <1>1, PlaceFacts, GotoFacts
<1>3. loaded /\ docs /\ ~require_storage
  BY <1>0, <1>1 DEF Modal
<1>4. Typed'
  BY <1>0, <1>1, <1>2 DEF Typed, CallType
<1>5. Modal'
  BY <1>0, <1>1, <1>2, <1>3 DEF Modal, require_storage
<1>6. Balanced'
  BY <1>0, <1>1, <1>2, <1>3 DEF Balanced, Early, Settled
<1>7. Single'
  <2>1. Stored' = ledger \/ Stored' = Stored
    BY <1>0, <1>1, AbsentAssumption DEF Stored, Typed, Aggregate
  <2>2. \A b \in Batches : Stored'[b] <= 1
    BY <1>0, <2>1, LedgerCountsOnce DEF Single
  <2> QED BY <1>0, <1>1, <1>2, <2>2 DEF Single, Total
<1>8. Governed'
  BY <1>0, <1>1, <1>2, <1>3 DEF Governed, require_storage
<1> QED BY <1>4, <1>5, <1>6, <1>7, <1>8 DEF IInv

LEMMA RestartKeeps ==
  ASSUME IInv, Restart
  PROVE  IInv'
<1>0. Typed /\ Modal /\ Balanced /\ Single /\ Governed
  BY DEF IInv
<1>1. /\ ledger' = Zero /\ docs' = require_storage
      /\ loaded' = FALSE /\ dirty' = FALSE /\ reset_early' = FALSE
      /\ call' = NoCall /\ base' = Stored /\ told' = Zero /\ failed' = {}
      /\ UNCHANGED <<mode, doc, claims, wiped>>
  BY DEF Restart
<1>2. ~Saved' /\ (\A p : ~At(p)') /\ call'.kind = "none"
      /\ ~At("write early")' /\ ~At("apply")' /\ ~At("applied")' /\ ~At("lost")'
  BY <1>1 DEF Saved, At, NoCall
<1>3. Stored \in Aggregate /\ Stored' = Stored /\ require_storage' = require_storage
  BY <1>0, <1>1, StoredFacts DEF Typed, Stored, require_storage
<1>4. Typed'
  BY <1>0, <1>1, <1>3, ZeroFacts DEF Typed, CallType, require_storage
<1>5. Modal'
  BY <1>0, <1>1, <1>2 DEF Modal, require_storage
<1>6. Balanced'
  BY <1>1, <1>2, <1>3 DEF Balanced, Early, Settled
<1>7. \A b \in Batches : Total(b)' = Stored[b] /\ Stored[b] \in Nat
  BY <1>1, <1>3, ZeroFacts DEF Total, Aggregate
<1>8. Single'
  BY <1>0, <1>1, <1>2, <1>3, <1>7 DEF Single
<1>9. Governed'
  BY <1>0, <1>1, <1>2, <1>3, <1>7 DEF Governed, Typed
<1> QED BY <1>4, <1>5, <1>6, <1>8, <1>9 DEF IInv

LEMMA StutterKeeps ==
  ASSUME IInv, UNCHANGED vars
  PROVE  IInv'
<1>1. /\ UNCHANGED <<mode, ledger, docs, loaded, dirty, reset_early, doc, call>>
      /\ UNCHANGED <<base, told, failed, claims, wiped>>
  BY DEF vars, state, history
<1>2. /\ Saved' = Saved /\ At("write early")' = At("write early") /\ At("apply")' = At("apply")
      /\ At("applied")' = At("applied") /\ At("lost")' = At("lost")
  BY <1>1 DEF Saved, At
<1>3. Typed' /\ Modal' /\ Single'
  BY <1>1, <1>2 DEF IInv, Typed, Modal, Single, Total, Stored, require_storage
<1>4. Balanced' /\ Governed'
  BY <1>1, <1>2 DEF IInv, Balanced, Early, Settled, Stored, Governed, Total, require_storage
<1> QED BY <1>3, <1>4 DEF IInv

LEMMA StepKeeps == IInv /\ [Next]_vars => IInv'
<1> SUFFICES ASSUME IInv, [Next]_vars PROVE IInv'
  OBVIOUS
<1>1. CASE \E kind \in {"record", "reset", "import", "stats"}, b \in Batches : Begin(kind, b)
  BY <1>1, BeginKeeps DEF Kinds
<1>2. CASE LoadDone
  BY <1>2, LoadDoneKeeps
<1>3. CASE LoadStandalone
  BY <1>3, LoadStandaloneKeeps
<1>4. CASE Connect
  BY <1>4, ConnectKeeps
<1>5. CASE LoadUnavailable
  BY <1>5, LoadUnavailableKeeps
<1>6. CASE Read
  BY <1>6, ReadKeeps
<1>7. CASE Record
  BY <1>7, RecordKeeps
<1>8. CASE Reset
  BY <1>8, ResetKeeps
<1>9. CASE Import
  BY <1>9, ImportKeeps
<1>10. CASE ImportDeclined
  BY <1>10, ImportDeclinedKeeps
<1>11. CASE Stats
  BY <1>11, StatsKeeps
<1>12. CASE PersistNothing
  BY <1>12, PersistNothingKeeps
<1>13. CASE \E ok \in BOOLEAN : Write(ok) \/ Answered(ok) \/ WriteEarly(ok)
  BY <1>13, WriteKeeps, AnsweredKeeps, WriteEarlyKeeps
<1>14. CASE Restart
  BY <1>14, RestartKeeps
<1>15. CASE UNCHANGED vars
  BY <1>15, StutterKeeps
<1> QED BY <1>1, <1>2, <1>3, <1>4, <1>5, <1>6, <1>7, <1>8, <1>9, <1>10, <1>11, <1>12,
           <1>13, <1>14, <1>15 DEF Next

(* The inductive invariant, for every set of events and kind of instance.  *)
THEOREM InvariantHolds == Spec => []IInv
<1>1. Init => IInv
  BY InitHolds
<1>2. IInv /\ [Next]_vars => IInv'
  BY StepKeeps
<1> QED BY <1>1, <1>2, PTL DEF Spec

-----------------------------------------------------------------------------
(* Type correctness: whatever the storage does, the module's totals and    *)
(* the stored ones are counts, and a call past its change can roll back.   *)
THEOREM TypeCorrect == Spec => []TypeOK
<1>1. IInv => TypeOK
  <2> SUFFICES ASSUME IInv PROVE TypeOK
    OBVIOUS
  <2>1. Typed
    BY DEF IInv
  <2>2. At("persist") => call.ledger \in Aggregate
    BY <2>1, PlaceFacts DEF Saved
  <2>3. call = NoCall \/ call.batch \in Batches
    BY <2>1, PlaceFacts
  <2>4. failed \cup claims \cup wiped \subseteq Batches
    BY <2>1, BatchFacts DEF Typed
  <2> QED BY <2>1, <2>2, <2>3, <2>4 DEF Typed, TypeOK
<1> QED BY <1>1, InvariantHolds, PTL

(* Between calls the ledger is the document found at start-up, once read,  *)
(* plus what was acknowledged since: nothing lost, doubled or left behind  *)
(* by a failed call, an early change or an early reset.                    *)
THEOREM LedgerIsTold == Spec => []LedgerIsWhatWasTold
<1>1. IInv => LedgerIsWhatWasTold
  <2> SUFFICES ASSUME IInv, call = NoCall PROVE ledger = IF loaded THEN Plus(base, told) ELSE told
    BY DEF LedgerIsWhatWasTold
  <2>1. ~Saved
    BY PlaceFacts DEF IInv
  <2> QED BY <2>1 DEF IInv, Balanced, Settled
<1> QED BY <1>1, InvariantHolds, PTL

(* No event is counted twice, in memory or in the document, also not the   *)
(* one recorded again because the answer of its successful write was lost. *)
THEOREM NothingCountsTwice == Spec => []CountedOnce
<1>1. IInv => CountedOnce
  BY LedgerCountsOnce DEF IInv, Single, CountedOnce
<1> QED BY <1>1, InvariantHolds, PTL

(* With governed storage an acknowledged event is in the document until a  *)
(* reset is attempted, through failed writes and restarts.                 *)
THEOREM AcknowledgedStaysStored == Spec => []AcknowledgedIsStored
<1>1. IInv => AcknowledgedIsStored
  BY DEF IInv, Governed, AcknowledgedIsStored
<1> QED BY <1>1, InvariantHolds, PTL

(* With governed storage nothing recorded before an acknowledged reset     *)
(* comes back, in memory or from the document.                             *)
THEOREM ResetStays == Spec => []GovernedResetClears
<1>1. IInv => GovernedResetClears
  <2> SUFFICES ASSUME IInv, call = NoCall, require_storage, NEW b \in wiped
               PROVE  ledger[b] = 0 /\ Stored[b] = 0
    BY DEF GovernedResetClears
  <2>1. Typed /\ Balanced /\ ~Saved
    BY PlaceFacts DEF IInv
  <2>2. b \in Batches /\ Total(b) = 0 /\ Stored[b] = 0
    BY DEF IInv, Typed, Governed
  <2>3. Settled[b] = 0
    BY <2>1, <2>2, SettledFacts
  <2> QED BY <2>1, <2>2, <2>3 DEF Balanced
<1> QED BY <1>1, InvariantHolds, PTL
=============================================================================
