--------------------------- MODULE ToolOutputProofs ---------------------------
(***************************************************************************)
(* What a host is given for the output of a tool, proved.  The first part: *)
(* what ToolOutput promises of every answer, for every content, length of  *)
(* content and footer, set of requests, and store that keeps the contract. *)
(*                                                                         *)
(* The second part is about the calls of ContentTools: the shell policy    *)
(* reads every command as it is written, of any number of words.  A folded *)
(* scan is read as a run of steps, a command as a text that spells its     *)
(* words at ascending places, and each operation of the policy, from the   *)
(* quoting up, is shown to keep to the words.                              *)
(*                                                                         *)
(* The third part, about the same calls: every hit is where it says it is. *)
(* The folds are runs again and the sorted sequences orders of their sets; *)
(* what each operation over a stored text finds is hits of its slice, and  *)
(* shifted by the slice's start hits of the text; the values found in a    *)
(* frozen prefix stay apart as they are sorted; and a finding is numbered  *)
(* with the evidence it has when it is handed over.                        *)
(*                                                                         *)
(* The fourth part: replacements in a prompt.  The text before the k-th    *)
(* one is a run, its length a total of what each one gains; the same total *)
(* taken in the order the host lists them is how far a byte is moved.      *)
(***************************************************************************)
EXTENDS ToolOutput, ContentNotions, FiniteSetTheorems, TLAPS

(***************************************************************************)
(* The answers depend on options that the stages change on the way.  These *)
(* never permit more than the host's own do: that is what is missing from  *)
(* the properties to be inductive.                                         *)
(***************************************************************************)
Permitted ==
  /\ opts.lossy => ask.options.lossy /\ ask.profile # "light"
  /\ opts.ccr => ask.options.ccr

IInv == TypeOK /\ Permitted /\ LossyIsRecoverable /\ ShorterOrUntouched

Opts == [ccr : BOOLEAN, lossy : BOOLEAN, handle : BOOLEAN, router : BOOLEAN, floor : BOOLEAN]

(* The lengths are numbers.                                                *)
LEMMA Lengths == ContentBytes \in Nat /\ FooterBytes \in Nat
BY LengthsAssumption

(* Every request has the fields it should.                                 *)
LEMMA AskFields ==
  ASSUME NEW a \in Asks
  PROVE  /\ a \in Requests
         /\ a.options \in Options
         /\ a.options.ccr \in BOOLEAN /\ a.options.lossy \in BOOLEAN
         /\ a.options.handle \in BOOLEAN /\ a.options.router \in BOOLEAN
<1>1. a \in Requests
  BY AsksAssumption
<1>2. a.options \in Options
  BY <1>1 DEF Requests
<1> QED BY <1>1, <1>2 DEF Options

(* The options of an agent are options, and permit no more than the host's.*)
LEMMA AgentOptions ==
  ASSUME NEW a \in Asks
  PROVE  /\ options_for_agent(a) \in Opts
         /\ options_for_agent(a).lossy => a.options.lossy /\ a.profile # "light"
         /\ options_for_agent(a).ccr => a.options.ccr
BY AskFields DEF options_for_agent, Opts

(* The original is an answer, and a harmless one.                          *)
LEMMA PassthroughIsSafe ==
  /\ Passthrough \in Output
  /\ Passthrough.by = "none" /\ ~Passthrough.lossy /\ ~Passthrough.token
BY Lengths DEF Passthrough, Output

-----------------------------------------------------------------------------

LEMMA InitIInv == Init => IInv
<1> SUFFICES ASSUME Init PROVE IInv
  OBVIOUS
<1>1. /\ held = {} /\ ask \in Asks /\ at = "begin"
      /\ opts = options_for_agent(ask) /\ out = Passthrough
  BY DEF Init, Store!Init
<1>2. TypeOK
  BY <1>1, AgentOptions, PassthroughIsSafe DEF TypeOK, Opts
<1>3. Permitted
  BY <1>1, AgentOptions DEF Permitted
<1>4. LossyIsRecoverable /\ ShorterOrUntouched
  BY <1>1 DEF LossyIsRecoverable, ShorterOrUntouched
<1> QED BY <1>2, <1>3, <1>4 DEF IInv

(***************************************************************************)
(* A step that ends the request with an answer keeps the invariant when    *)
(* the answer is one that is promised.                                     *)
(***************************************************************************)
Promised(given) ==
  /\ given \in Output
  /\ given.lossy => given.token \/ (ask.options.lossy /\ ask.profile # "light")
  /\ given.by \in {"none", "summary"} \/ given.bytes < ContentBytes

LEMMA AnswerKeepsIInv ==
  ASSUME IInv, held' \subseteq Originals, NEW given, Answer(given), Promised(given)
  PROVE  IInv'
<1>1. at' = "done" /\ out' = given /\ ask' = ask /\ opts' = opts
  BY DEF Answer
<1>2. TypeOK'
  BY <1>1 DEF IInv, TypeOK, Promised
<1>3. Permitted'
  BY <1>1 DEF IInv, Permitted
<1>4. LossyIsRecoverable' /\ ShorterOrUntouched'
  BY <1>1 DEF Promised, LossyIsRecoverable, ShorterOrUntouched
<1> QED BY <1>2, <1>3, <1>4 DEF IInv

LEMMA PassthroughPromised == Promised(Passthrough)
BY PassthroughIsSafe DEF Promised

(* One that moves on keeps it when the request may be in the stage.        *)
LEMMA GotoKeepsIInv ==
  ASSUME IInv, held' \subseteq Originals,
         NEW stage \in {"summary", "floor", "handle", "bloat", "reformat", "compressor"},
         Goto(stage),
         stage = "handle" => opts.ccr /\ opts.handle,
         stage = "summary" => ask.profile \in {"full", "light"}
  PROVE  IInv'
<1>1. at' = stage /\ ask' = ask /\ opts' = opts /\ out' = out /\ at' # "done"
  BY DEF Goto
<1>2. TypeOK'
  BY <1>1 DEF IInv, TypeOK
<1>3. Permitted'
  BY <1>1 DEF IInv, Permitted
<1>4. LossyIsRecoverable' /\ ShorterOrUntouched'
  BY <1>1 DEF LossyIsRecoverable, ShorterOrUntouched
<1> QED BY <1>2, <1>3, <1>4 DEF IInv

(* What the store holds is originals.                                      *)
LEMMA PutHolds ==
  ASSUME TypeOK, NEW t \in Originals, Store!Put(t)
  PROVE  /\ held' \subseteq Originals
         /\ reply'.retained <=> t \in held'
         /\ reply'.retained \in BOOLEAN
<1>1. held \subseteq Originals /\ held' \in SUBSET (held \cup {t})
  BY DEF TypeOK, Store!Put
<1>2. /\ reply' \in {[op |-> "put", token |-> t, retained |-> TRUE],
                     [op |-> "put", token |-> t, retained |-> FALSE]}
      /\ reply'.retained <=> t \in held'
  BY DEF Store!Put
<1>3. held' \subseteq Originals
  BY <1>1
<1>4. reply'.retained \in BOOLEAN
  <2>1. CASE reply' = [op |-> "put", token |-> t, retained |-> TRUE]
    BY <2>1
  <2>2. CASE reply' = [op |-> "put", token |-> t, retained |-> FALSE]
    BY <2>2
  <2> QED BY <1>2, <2>1, <2>2
<1> QED BY <1>2, <1>3, <1>4

-----------------------------------------------------------------------------
(* The stages that use the store, one lemma each.                          *)

LEMMA StoreKept ==
  ASSUME TypeOK, UNCHANGED store
  PROVE  held' \subseteq Originals
BY DEF TypeOK, store

LEMMA SummaryKeepsIInv ==
  ASSUME IInv, NEW bytes \in 1 .. ContentBytes, SummaryWritten(bytes)
  PROVE  IInv'
<1>1. at = "summary" /\ TypeOK /\ Permitted
  BY DEF SummaryWritten, IInv
<1>2. \A token \in BOOLEAN : token \/ opts.lossy => Promised(Summary(bytes, token))
  BY <1>1, Lengths DEF Promised, Summary, Output, Permitted
<1>3. CASE /\ Store!Put(Original)
           /\ IF reply'.retained \/ opts.lossy THEN Answer(Summary(bytes, reply'.retained))
              ELSE IF ask.compaction THEN Goto("floor") ELSE Answer(Passthrough)
  <2>1. held' \subseteq Originals /\ reply'.retained \in BOOLEAN
    BY <1>1, <1>3, PutHolds, OriginalAssumption
  <2>2. CASE reply'.retained \/ opts.lossy
    BY <1>2, <1>3, <2>1, <2>2, AnswerKeepsIInv
  <2>3. CASE ~(reply'.retained \/ opts.lossy)
    BY <1>3, <2>1, <2>3, AnswerKeepsIInv, GotoKeepsIInv, PassthroughPromised
  <2> QED BY <2>2, <2>3
<1>4. CASE opts.lossy /\ Answer(Summary(bytes, FALSE)) /\ UNCHANGED store
  BY <1>1, <1>2, <1>4, StoreKept, AnswerKeepsIInv
<1> QED BY <1>3, <1>4 DEF SummaryWritten

LEMMA HandleKeepsIInv ==
  ASSUME IInv, NEW view \in 1 .. ContentBytes, Handle(view)
  PROVE  IInv'
<1> DEFINE handle == [by |-> "handle", bytes |-> view, lossy |-> TRUE, token |-> TRUE]
<1>1. TypeOK /\ held' \subseteq Originals
  BY PutHolds, OriginalAssumption DEF Handle, IInv
<1>2. CASE reply'.retained /\ view < ContentBytes
  <2>1. Promised(handle)
    BY <1>2, Lengths DEF Promised, Output
  <2>2. Answer(handle)
    BY <1>2 DEF Handle
  <2> HIDE DEF handle
  <2> QED BY <1>1, <2>1, <2>2, AnswerKeepsIInv
<1>3. CASE ~(reply'.retained /\ view < ContentBytes)
  <2>1. Goto("bloat")
    BY <1>3 DEF Handle
  <2> QED BY <1>1, <2>1, GotoKeepsIInv
<1> QED BY <1>2, <1>3

Typed(bytes, lossy, token) ==
  [by |-> "typed", bytes |-> bytes, lossy |-> lossy, token |-> token]

LEMMA ReformatPromised ==
  ASSUME NEW bytes \in 1 .. ContentBytes, bytes < ContentBytes
  PROVE  Promised(Typed(bytes, FALSE, FALSE))
BY Lengths DEF Promised, Typed, Output

LEMMA FinalizedKeepsIInv ==
  ASSUME IInv, held' \subseteq Originals, NEW bytes \in 1 .. ContentBytes, Finalized(bytes)
  PROVE  IInv'
<1>1. CASE Goto("compressor")
  BY <1>1, GotoKeepsIInv
<1>2. CASE Answer(Passthrough)
  BY <1>2, AnswerKeepsIInv, PassthroughPromised
<1>3. CASE /\ bytes + FooterBytes < ContentBytes
           /\ Answer(Typed(bytes + FooterBytes, TRUE, TRUE))
  <2>1. Promised(Typed(bytes + FooterBytes, TRUE, TRUE))
    BY <1>3, Lengths DEF Promised, Typed, Output
  <2> QED BY <1>3, <2>1, AnswerKeepsIInv
<1>4. bytes + FooterBytes \in Int /\ ContentBytes \in Int
  BY Lengths
<1> QED BY <1>1, <1>2, <1>3, <1>4 DEF Finalized, Typed

LEMMA OffloadKeepsIInv ==
  ASSUME IInv, NEW bytes \in 1 .. ContentBytes, Offload(bytes)
  PROVE  IInv'
<1>1. TypeOK /\ held' \subseteq Originals
  BY PutHolds, OriginalAssumption DEF Offload, IInv
<1>2. CASE Finalized(bytes)
  BY <1>1, <1>2, FinalizedKeepsIInv
<1>3. CASE Goto("compressor")
  BY <1>1, <1>3, GotoKeepsIInv
<1>4. CASE bytes < ContentBytes /\ Answer(Typed(bytes, FALSE, FALSE))
  BY <1>1, <1>4, ReformatPromised, AnswerKeepsIInv
<1> QED BY <1>2, <1>3, <1>4 DEF Offload, Typed

LEMMA CompressKeepsIInv ==
  ASSUME IInv, NEW bytes \in 1 .. ContentBytes, NEW lossy \in BOOLEAN, Compress(bytes, lossy)
  PROVE  IInv'
<1>1. TypeOK /\ Permitted
  BY DEF IInv
<1>2. CASE Answer(Passthrough) /\ UNCHANGED store
  BY <1>1, <1>2, StoreKept, AnswerKeepsIInv, PassthroughPromised
<1>3. ASSUME ~Unproduced(bytes, lossy)
      PROVE  bytes < ContentBytes /\ (lossy /\ ~ccr_for_call(bytes) => opts.lossy)
  BY <1>3, Lengths DEF Unproduced
<1>4. CASE /\ ~Unproduced(bytes, lossy) /\ ~ccr_for_call(bytes)
           /\ Answer(Compressed(bytes, lossy, FALSE))
           /\ UNCHANGED store
  <2>1. Promised(Compressed(bytes, lossy, FALSE))
    BY <1>1, <1>3, <1>4, Lengths DEF Promised, Compressed, Output, Permitted
  <2> QED BY <1>1, <1>4, <2>1, StoreKept, AnswerKeepsIInv
<1>5. CASE /\ ~Unproduced(bytes, lossy) /\ Store!Put(Original)
           /\ Answer(IF ~reply'.retained
                     THEN IF lossy THEN Passthrough ELSE Compressed(bytes, lossy, FALSE)
                     ELSE IF bytes + FooterBytes >= ContentBytes THEN Passthrough
                     ELSE Compressed(bytes, lossy, TRUE))
  <2>1. held' \subseteq Originals
    BY <1>1, <1>5, PutHolds, OriginalAssumption
  <2>2. CASE Answer(Passthrough)
    BY <2>1, <2>2, AnswerKeepsIInv, PassthroughPromised
  <2>3. CASE ~lossy /\ Answer(Compressed(bytes, lossy, FALSE))
    <3>1. Promised(Compressed(bytes, lossy, FALSE))
      BY <1>3, <1>5, <2>3, Lengths DEF Promised, Compressed, Output
    <3> QED BY <2>1, <2>3, <3>1, AnswerKeepsIInv
  <2>4. CASE bytes + FooterBytes < ContentBytes /\ Answer(Compressed(bytes, lossy, TRUE))
    <3>1. Promised(Compressed(bytes, lossy, TRUE))
      BY <2>4, Lengths DEF Promised, Compressed, Output
    <3> QED BY <2>1, <2>4, <3>1, AnswerKeepsIInv
  <2>5. bytes + FooterBytes >= ContentBytes \/ bytes + FooterBytes < ContentBytes
    BY Lengths
  <2> QED BY <1>5, <2>2, <2>3, <2>4, <2>5
<1> QED BY <1>2, <1>4, <1>5 DEF Compress

-----------------------------------------------------------------------------

LEMMA StagesKeepIInv == IInv /\ Stages => IInv'
<1> SUFFICES ASSUME IInv, Stages PROVE IInv'
  OBVIOUS
<1>1. TypeOK /\ Permitted
  BY DEF IInv
<1>2. ASSUME UNCHANGED store, Answer(Passthrough) PROVE IInv'
  BY <1>1, <1>2, StoreKept, AnswerKeepsIInv, PassthroughPromised
<1>3. ASSUME UNCHANGED store,
             NEW stage \in {"floor", "bloat", "reformat", "compressor"},
             Goto(stage)
      PROVE  IInv'
  BY <1>1, <1>3, StoreKept, GotoKeepsIInv
<1>4. CASE Begin
  <2>1. UNCHANGED store
    BY <1>4 DEF Begin
  <2>2. CASE considers_summary /\ Goto("summary")
    BY <1>1, <2>1, <2>2, StoreKept, GotoKeepsIInv DEF considers_summary
  <2> QED BY <1>2, <1>3, <1>4, <2>1, <2>2 DEF Begin
<1>5. CASE SummaryDeclined
  BY <1>2, <1>3, <1>5 DEF SummaryDeclined
<1>6. CASE SummaryTimedOut
  <2>1. UNCHANGED store
    BY <1>6 DEF SummaryTimedOut
  <2>2. CASE /\ opts' = [opts EXCEPT !.handle = TRUE, !.floor = FALSE, !.ccr = ask.options.ccr]
             /\ at' = "floor" /\ ask' = ask /\ out' = out
    <3>1. held' \subseteq Originals /\ ask \in Asks /\ opts \in Opts
      BY <1>1, <2>1, StoreKept DEF TypeOK, Opts
    <3>2. ask.options.ccr \in BOOLEAN
      BY <3>1, AskFields
    <3>3. opts' \in Opts /\ opts'.lossy = opts.lossy /\ opts'.ccr = ask.options.ccr
      BY <2>2, <3>1, <3>2 DEF Opts
    <3>4. TypeOK'
      BY <1>1, <2>2, <3>1, <3>3 DEF TypeOK, Opts
    <3>5. Permitted'
      BY <1>1, <2>2, <3>3 DEF Permitted
    <3>6. LossyIsRecoverable' /\ ShorterOrUntouched'
      BY <2>2 DEF LossyIsRecoverable, ShorterOrUntouched
    <3> QED BY <3>4, <3>5, <3>6 DEF IInv
  <2> QED BY <1>2, <1>6, <2>1, <2>2 DEF SummaryTimedOut
<1>7. CASE TurnedAway
  BY <1>2, <1>7 DEF TurnedAway
<1>8. CASE Admitted
  <2>1. UNCHANGED store
    BY <1>8 DEF Admitted
  <2>2. CASE handle_applies /\ Goto("handle")
    BY <1>1, <2>1, <2>2, StoreKept, GotoKeepsIInv DEF handle_applies
  <2> QED BY <1>3, <1>8, <2>1, <2>2 DEF Admitted
<1>9. CASE LowBloat
  BY <1>2, <1>9 DEF LowBloat
<1>10. CASE Bloated
  BY <1>3, <1>10 DEF Bloated
<1>11. CASE NoTransform
  BY <1>3, <1>11 DEF NoTransform
<1>12. CASE BelowFloor
  BY <1>2, <1>12 DEF BelowFloor
<1>13. ASSUME NEW bytes \in 1 .. ContentBytes, Reformat(bytes)
       PROVE  IInv'
  <2>1. /\ bytes < ContentBytes /\ UNCHANGED store
        /\ Answer(Typed(bytes, FALSE, FALSE))
    BY <1>13 DEF Reformat, Typed
  <2> QED BY <1>1, <2>1, StoreKept, ReformatPromised, AnswerKeepsIInv
<1> QED
  BY <1>4, <1>5, <1>6, <1>7, <1>8, <1>9, <1>10, <1>11, <1>12, <1>13,
     SummaryKeepsIInv, HandleKeepsIInv, OffloadKeepsIInv, CompressKeepsIInv
  DEF Stages

LEMMA OthersKeepIInv == IInv /\ Others => IInv'
<1> SUFFICES ASSUME IInv, Others PROVE IInv'
  OBVIOUS
<1>1. ask' = ask /\ at' = at /\ opts' = opts /\ out' = out
  BY DEF Others, request
<1>2. TypeOK
  BY DEF IInv
<1>3. held' \subseteq Originals
  <2>1. CASE Store!Forget
    BY <1>2, <2>1 DEF Store!Forget, TypeOK
  <2>2. ASSUME NEW t \in Originals, Store!Put(t)
        PROVE  held' \subseteq Originals
    BY <1>2, <2>2, PutHolds
  <2> QED BY <2>1, <2>2 DEF Others, Store!Next
<1>4. TypeOK'
  BY <1>1, <1>2, <1>3 DEF TypeOK
<1> QED
  BY <1>1, <1>4 DEF IInv, Permitted, LossyIsRecoverable, ShorterOrUntouched

LEMMA NextIInv == IInv /\ [Next]_vars => IInv'
<1>1. ASSUME IInv, UNCHANGED vars PROVE IInv'
  BY <1>1 DEF vars, IInv, TypeOK, Permitted, LossyIsRecoverable, ShorterOrUntouched
<1> QED BY <1>1, StagesKeepIInv, OthersKeepIInv DEF Next

LEMMA AlwaysIInv == Spec => []IInv
BY InitIInv, NextIInv, PTL DEF Spec

-----------------------------------------------------------------------------
(* Every variable keeps its type, and the handle stage is only reached when*)
(* the original may be stored.                                             *)
THEOREM TypeCorrect == Spec => []TypeOK
<1>1. IInv => TypeOK
  BY DEF IInv
<1> QED BY <1>1, AlwaysIInv, PTL

(* compact_tool_output and route: whatever is lost can be got back, or the *)
(* host accepts the loss.                                                  *)
THEOREM NothingLostSilently == Spec => []LossyIsRecoverable
<1>1. IInv => LossyIsRecoverable
  BY DEF IInv
<1> QED BY <1>1, AlwaysIInv, PTL

(* route never makes a text longer, nor replaces it by one as long.        *)
THEOREM NeverLonger == Spec => []ShorterOrUntouched
<1>1. IInv => ShorterOrUntouched
  BY DEF IInv
<1> QED BY <1>1, AlwaysIInv, PTL
-----------------------------------------------------------------------------
(* The promises about steps.                                               *)

(* Only the stages that may end with a token need their own put looked at. *)
LEMMA TokenIsHeld ==
  ASSUME IInv, Stages, at' = "done", out'.token
  PROVE  Original \in held'
<1>1. ~Answer(Passthrough)
  BY PassthroughIsSafe DEF Answer
<1>2. /\ ~Goto("summary") /\ ~Goto("floor") /\ ~Goto("handle")
      /\ ~Goto("bloat") /\ ~Goto("reformat") /\ ~Goto("compressor")
  BY DEF Goto
<1>3. \A bytes \in Nat, lossy \in BOOLEAN : ~Answer(Typed(bytes, lossy, FALSE))
  BY DEF Answer, Typed
<1>4. \A bytes \in Nat, lossy \in BOOLEAN : ~Answer(Compressed(bytes, lossy, FALSE))
  BY DEF Answer, Compressed
<1>5. \A bytes \in Nat : ~Answer(Summary(bytes, FALSE))
  BY DEF Answer, Summary
<1>6. ASSUME Store!Put(Original) PROVE reply'.retained \in BOOLEAN /\ (reply'.retained => Original \in held')
  BY <1>6, PutHolds, OriginalAssumption DEF IInv
<1>7. \A bytes \in 1 .. ContentBytes : bytes \in Nat
  BY Lengths
<1>8. ASSUME NEW bytes \in 1 .. ContentBytes, SummaryWritten(bytes)
      PROVE  Original \in held'
  <2>1. CASE /\ Store!Put(Original)
             /\ IF reply'.retained \/ opts.lossy THEN Answer(Summary(bytes, reply'.retained))
                ELSE IF ask.compaction THEN Goto("floor") ELSE Answer(Passthrough)
    <3>1. Answer(Summary(bytes, reply'.retained))
      BY <1>1, <1>2, <2>1
    <3>2. reply'.retained = TRUE \/ reply'.retained = FALSE
      BY <1>6, <2>1
    <3>3. CASE reply'.retained = FALSE
      BY <1>5, <1>7, <3>1, <3>3
    <3> QED BY <1>6, <2>1, <3>2, <3>3
  <2>2. ~Answer(Summary(bytes, FALSE))
    BY <1>5, <1>7
  <2> QED BY <1>8, <2>1, <2>2 DEF SummaryWritten
<1>9. ASSUME NEW bytes \in 1 .. ContentBytes, Handle(bytes)
      PROVE  Original \in held'
  BY <1>2, <1>6, <1>9 DEF Handle
<1>10. ASSUME NEW bytes \in 1 .. ContentBytes, Offload(bytes)
       PROVE  Original \in held'
  <2>1. Store!Put(Original)
    BY <1>10 DEF Offload
  <2>2. CASE reply'.retained
    BY <1>6, <2>1, <2>2
  <2>3. CASE Goto("compressor")
    BY <1>2, <2>3
  <2>4. CASE Answer(Typed(bytes, FALSE, FALSE))
    BY <1>3, <1>7, <2>4
  <2> QED BY <1>10, <2>2, <2>3, <2>4 DEF Offload, Typed
<1>11. ASSUME NEW bytes \in 1 .. ContentBytes, NEW lossy \in BOOLEAN, Compress(bytes, lossy)
       PROVE  Original \in held'
  <2>1. ~Answer(Compressed(bytes, lossy, FALSE))
    BY <1>4, <1>7
  <2>2. Store!Put(Original)
    BY <1>1, <1>11, <2>1 DEF Compress
  <2>3. reply'.retained
    BY <1>1, <1>11, <2>1, <2>2 DEF Compress
  <2> QED BY <1>6, <2>2, <2>3
<1>12. ASSUME NEW bytes \in 1 .. ContentBytes, Reformat(bytes) PROVE FALSE
  BY <1>3, <1>7, <1>12 DEF Reformat, Typed
<1>13. ~Begin /\ ~SummaryDeclined
  BY <1>1, <1>2 DEF Begin, SummaryDeclined
<1>14. ~SummaryTimedOut
  BY <1>1 DEF SummaryTimedOut
<1>15. ~TurnedAway /\ ~Admitted /\ ~LowBloat
  BY <1>1, <1>2 DEF TurnedAway, Admitted, LowBloat
<1>16. ~Bloated /\ ~NoTransform /\ ~BelowFloor
  BY <1>1, <1>2 DEF Bloated, NoTransform, BelowFloor
<1> QED
  BY <1>8, <1>9, <1>10, <1>11, <1>12, <1>13, <1>14, <1>15, <1>16 DEF Stages

(* An answer that names the original is given with the original in store.  *)
THEOREM TokensAreGood == Spec => AdvertisedIsHeld
<1>1. IInv /\ [Next]_vars =>
        [at # "done" /\ at' = "done" /\ out'.token => Original \in held']_vars
  <2> SUFFICES ASSUME IInv, Next, at # "done", at' = "done", out'.token
               PROVE  Original \in held'
    OBVIOUS
  <2>1. ~Others
    BY DEF Others, request
  <2> QED BY <2>1, TokenIsHeld DEF Next
<1> QED BY <1>1, AlwaysIInv, PTL DEF Spec, AdvertisedIsHeld

(* ccr_enabled off: the stages that put all ask for it, each in its own    *)
(* way, and the options they ask never permit what the host's do not.      *)
THEOREM OffIsOff == Spec => OffStoresNothing
<1>1. IInv /\ [Next]_vars =>
        [at' # at /\ ~ask.options.ccr => UNCHANGED store]_vars
  <2> SUFFICES ASSUME IInv, Next, at' # at, ~ask.options.ccr
               PROVE  UNCHANGED store
    OBVIOUS
  <2>1. ~opts.ccr
    BY DEF IInv, Permitted
  <2>2. ~Others
    BY DEF Others, request
  <2>3. \A bytes \in 1 .. ContentBytes : ~Handle(bytes) /\ ~Offload(bytes)
    BY <2>1 DEF Handle, Offload, may_offload, IInv, TypeOK
  <2>4. \A bytes \in 1 .. ContentBytes : SummaryWritten(bytes) => UNCHANGED store
    BY DEF SummaryWritten
  <2>5. \A bytes \in 1 .. ContentBytes, lossy \in BOOLEAN :
          Compress(bytes, lossy) => UNCHANGED store
    BY <2>1 DEF Compress, ccr_for_call
  <2>6. \A bytes \in 1 .. ContentBytes : Reformat(bytes) => UNCHANGED store
    BY DEF Reformat
  <2> QED
    BY <2>2, <2>3, <2>4, <2>5, <2>6
    DEF Next, Stages, Begin, SummaryDeclined, SummaryTimedOut, TurnedAway, Admitted,
        LowBloat, Bloated, NoTransform, BelowFloor
<1> QED BY <1>1, AlwaysIInv, PTL DEF Spec, OffStoresNothing

-----------------------------------------------------------------------------
-----
(* Places in a text.                                                       *)

LEMMA RankRange ==
  ASSUME NEW n \in Nat, NEW S, S \subseteq 1 .. n, NEW i \in S
  PROVE  /\ IsFiniteSet(S)
         /\ Cardinality(S) \in Nat
         /\ Cardinality(S) <= n
         /\ Rank(S, i) \in 1 .. Cardinality(S)
<1> DEFINE B == {k \in S : k <= i}
<1>1. IsFiniteSet(1 .. n) /\ Cardinality(1 .. n) = n
  BY FS_Interval
<1>2. IsFiniteSet(S) /\ Cardinality(S) \in Nat /\ Cardinality(S) <= n
  BY <1>1, FS_Subset, FS_CardinalityType
<1>3. B \subseteq S
  OBVIOUS
<1>4. IsFiniteSet(B) /\ Cardinality(B) \in Nat /\ Cardinality(B) <= Cardinality(S)
  BY <1>2, <1>3, FS_Subset, FS_CardinalityType
<1>5. i \in B
  OBVIOUS
<1>6. Cardinality(B) # 0
  BY <1>4, <1>5, FS_EmptySet
<1> QED BY <1>2, <1>4, <1>6 DEF Rank

LEMMA RankInjective ==
  ASSUME NEW n \in Nat, NEW S, S \subseteq 1 .. n, NEW i \in S, NEW j \in S, i < j
  PROVE  Rank(S, i) < Rank(S, j)
<1> DEFINE Up(k) == {x \in S : x <= k}
<1>1. IsFiniteSet(S)
  BY RankRange
<1>2. IsFiniteSet(Up(j))
  <2>1. Up(j) \subseteq S
    OBVIOUS
  <2> QED BY <1>1, <2>1, FS_Subset
<1>3. Up(i) \subseteq Up(j) /\ Up(i) # Up(j)
  <2>1. j \in Up(j) /\ j \notin Up(i)
    OBVIOUS
  <2>2. ASSUME NEW x \in S, x <= i
        PROVE  x <= j
    <3>1. x \in Int /\ i \in Int /\ j \in Int
      OBVIOUS
    <3> QED BY <2>2, <3>1
  <2> QED BY <2>1, <2>2
<1>4. /\ Cardinality(Up(i)) <= Cardinality(Up(j))
      /\ Cardinality(Up(i)) = Cardinality(Up(j)) => Up(i) = Up(j)
      /\ Cardinality(Up(i)) \in Nat /\ Cardinality(Up(j)) \in Nat
  <2> HIDE DEF Up
  <2> QED BY <1>2, <1>3, FS_Subset, FS_CardinalityType
<1>5. Cardinality(Up(i)) < Cardinality(Up(j))
  BY <1>3, <1>4
<1> QED BY <1>5 DEF Rank

LEMMA RankOnto ==
  ASSUME NEW n \in Nat, NEW S, S \subseteq 1 .. n, NEW j \in 1 .. Cardinality(S)
  PROVE  \E i \in S : Rank(S, i) = j
<1> SUFFICES ASSUME \A i \in S : Rank(S, i) # j
             PROVE  FALSE
  OBVIOUS
<1> DEFINE c == Cardinality(S)
           T == (1 .. c) \ {j}
           f == [i \in S |-> Rank(S, i)]
<1>1. IsFiniteSet(S) /\ c \in Nat
  <2>1. S # {}
    BY FS_EmptySet
  <2> QED BY <2>1, RankRange
<1>2. f \in [S -> T]
  BY RankRange
<1>3. IsFiniteSet(1 .. c) /\ Cardinality(1 .. c) = c
  BY <1>1, FS_Interval
<1>4. IsFiniteSet(T) /\ Cardinality(T) = c - 1
  BY <1>3, FS_RemoveElement
<1>5. Cardinality(T) < Cardinality(S)
  BY <1>1, <1>4
<1>6. \E x, y \in S : x # y /\ f[x] = f[y]
  <2> HIDE DEF T, f, c
  <2> QED BY <1>1, <1>2, <1>4, <1>5, FS_PigeonHole
<1>7. PICK x \in S, y \in S : x # y /\ Rank(S, x) = Rank(S, y)
  BY <1>6
<1>8. Rank(S, x) \in Nat /\ Rank(S, y) \in Nat
  <2>1. /\ Rank(S, x) \in 1 .. Cardinality(S)
        /\ Rank(S, y) \in 1 .. Cardinality(S)
    BY RankRange
  <2> QED BY <2>1
<1>9. x < y \/ y < x
  BY <1>7
<1>10. CASE x < y
  <2>1. Rank(S, x) < Rank(S, y)
    BY <1>10, RankInjective
  <2> QED BY <1>7, <1>8, <2>1
<1>11. CASE y < x
  <2>1. Rank(S, y) < Rank(S, x)
    BY <1>11, RankInjective
  <2> QED BY <1>7, <1>8, <2>1
<1> QED BY <1>9, <1>10, <1>11

LEMMA MinIs ==
  ASSUME NEW n \in Nat, NEW S, S \subseteq 1 .. n, S # {}
  PROVE  Min(S) \in S /\ \A y \in S : Min(S) <= y
<1>1. IsFiniteSet(S) /\ Cardinality(S) \in Nat /\ 1 \in 1 .. Cardinality(S)
  <2>1. PICK i \in S : TRUE
    OBVIOUS
  <2>2. Rank(S, i) \in 1 .. Cardinality(S) /\ IsFiniteSet(S) /\ Cardinality(S) \in Nat
    BY RankRange
  <2> QED BY <2>2
<1>2. PICK x \in S : Rank(S, x) = 1
  BY <1>1, RankOnto
<1>3. \A y \in S : x <= y
  <2> TAKE y \in S
  <2> SUFFICES ASSUME y < x PROVE FALSE
    BY DEF Rank
  <2>1. Rank(S, y) < Rank(S, x)
    BY RankInjective
  <2>2. Rank(S, y) \in 1 .. Cardinality(S)
    BY RankRange
  <2> QED BY <1>1, <1>2, <2>1, <2>2
<1> QED BY <1>3 DEF Min

LEMMA MaxIs ==
  ASSUME NEW n \in Nat, NEW S, S \subseteq 1 .. n, S # {}
  PROVE  Max(S) \in S /\ \A y \in S : y <= Max(S)
<1> DEFINE T == {(n + 1) - y : y \in S}
<1>1. T \subseteq 1 .. n /\ T # {} /\ \A y \in S : y \in Int /\ (n + 1) - y \in T
  <2>1. \A y \in S : y \in 1 .. n /\ (n + 1) - y \in 1 .. n
    OBVIOUS
  <2>2. \A t \in T : t \in 1 .. n
    BY <2>1
  <2>3. PICK y \in S : TRUE
    OBVIOUS
  <2>4. (n + 1) - y \in T
    BY <2>3
  <2>5. \A z \in S : (n + 1) - z \in T
    OBVIOUS
  <2> HIDE DEF T
  <2> QED BY <2>1, <2>2, <2>4, <2>5
<1>2. Min(T) \in T /\ \A y \in T : Min(T) <= y
  <2> HIDE DEF T
  <2> QED BY <1>1, MinIs
<1>3. PICK x \in S : Min(T) = (n + 1) - x
  BY <1>2
<1> HIDE DEF T
<1>4. \A y \in S : y <= x
  <2> TAKE y \in S
  <2>1. (n + 1) - x <= (n + 1) - y /\ x \in Int /\ y \in Int
    BY <1>1, <1>2, <1>3
  <2> QED BY <2>1
<1> QED BY <1>4 DEF Max

(* Induction over the places of a text, for the places of a set.           *)
LEMMA Inductive ==
  ASSUME NEW n \in Nat, NEW S, 0 \in S, \A i \in 1 .. n : i - 1 \in S => i \in S
  PROVE  0 .. n \subseteq S
<1> DEFINE B == {i \in 1 .. n : i \notin S}
<1>1. CASE B = {}
  <2>1. \A i \in 0 .. n : i = 0 \/ i \in 1 .. n
    OBVIOUS
  <2> QED BY <1>1, <2>1
<1>2. CASE B # {}
  <2>1. PICK b \in B : \A y \in B : b <= y
    <3>1. B \subseteq 1 .. n
      OBVIOUS
    <3> HIDE DEF B
    <3>2. Min(B) \in B /\ \A y \in B : Min(B) <= y
      BY <1>2, <3>1, MinIs
    <3> QED BY <3>2
  <2>2. b \in 1 .. n /\ b \notin S
    OBVIOUS
  <2>3. b - 1 \notin S
    BY <2>2
  <2>4. b # 1
    BY <2>3
  <2>5. b - 1 \in B
    BY <2>2, <2>3, <2>4
  <2>6. b <= b - 1
    BY <2>1, <2>5
  <2> QED BY <2>2, <2>6
<1> QED BY <1>1, <1>2

LEMMA InOrderIs ==
  ASSUME NEW n \in Nat, NEW keep
  PROVE  Enumerates(InOrder(keep, n), keep \cap (1 .. n))
<1> DEFINE S == keep \cap (1 .. n)
           c == Cardinality(S)
           o == InOrder(keep, n)
<1>1. S \subseteq 1 .. n
  OBVIOUS
<1>2. o = [k \in 1 .. c |-> Nth(S, k)]
  BY DEF InOrder
<1> HIDE DEF S, o
<1>3. c \in Nat
  <2>1. IsFiniteSet(1 .. n)
    BY FS_Interval
  <2> QED BY <1>1, <2>1, FS_Subset, FS_CardinalityType DEF c
<1>4. ASSUME NEW k \in 1 .. c
      PROVE  Nth(S, k) \in S /\ Rank(S, Nth(S, k)) = k
  <2>1. \E i \in S : Rank(S, i) = k
    BY <1>1, RankOnto
  <2> QED BY <2>1 DEF Nth, Rank
<1>5. \A i \in S : Rank(S, i) \in 1 .. c /\ i \in Int
  <2> TAKE i \in S
  <2>1. Rank(S, i) \in 1 .. c
    BY <1>1, RankRange
  <2> QED BY <1>1, <2>1
<1>6. \A i, j \in S : i < j => Rank(S, i) < Rank(S, j)
  BY <1>1, RankInjective
<1>7. \A i, j \in S : Rank(S, i) = Rank(S, j) => i = j
  <2> TAKE i, j \in S
  <2> HAVE Rank(S, i) = Rank(S, j)
  <2>1. ~(i < j) /\ ~(j < i)
    BY <1>3, <1>5, <1>6
  <2> QED BY <1>5, <2>1
<1> HIDE DEF c
<1>8. o \in [1 .. c -> S] /\ \A k \in 1 .. c : o[k] = Nth(S, k)
  BY <1>2, <1>4
<1>9. ASSUME NEW j \in 1 .. c, NEW k \in 1 .. c, j < k
      PROVE  o[j] < o[k]
  <2>1. o[j] \in S /\ o[k] \in S /\ Rank(S, o[j]) = j /\ Rank(S, o[k]) = k
    BY <1>4, <1>8
  <2>2. o[j] # o[k] /\ ~(o[k] < o[j])
    BY <1>3, <1>6, <1>9, <2>1
  <2> QED BY <1>5, <2>1, <2>2
<1>10. ASSUME NEW i \in S
       PROVE  \E k \in 1 .. c : o[k] = i
  <2>1. Rank(S, i) \in 1 .. c
    BY <1>5
  <2>2. o[Rank(S, i)] = i
    BY <1>4, <1>7, <1>8, <2>1
  <2> QED BY <2>1, <2>2
<1> QED BY <1>3, <1>8, <1>9, <1>10 DEF Enumerates, S, o, c

-----
(* Folds.                                                                  *)

LEMMA FoldExists ==
  ASSUME NEW n \in Nat, NEW base, NEW F
  PROVE  \E it : Folds(it, n, base, F)
<1> DEFINE Good == {b \in 0 .. n : \E it : Folds(it, b, base, F)}
<1>1. 0 \in Good
  <2> DEFINE it == [s \in SUBSET (1 .. 0) |-> base]
  <2>1. \A s \in SUBSET (1 .. 0) : s = {}
    OBVIOUS
  <2>2. it = [s \in SUBSET (1 .. 0) |-> IF s = {} THEN base ELSE F[<<it[s \ {Max(s)}], Max(s)>>]]
    BY <2>1
  <2>3. Folds(it, 0, base, F)
    BY <2>2 DEF Folds
  <2> QED BY <2>3
<1>2. ASSUME NEW b \in 1 .. n, b - 1 \in Good
      PROVE  b \in Good
  <2> DEFINE D == SUBSET (1 .. b - 1)
  <2>1. b \in Nat /\ b - 1 \in Nat /\ b \in 0 .. n
    OBVIOUS
  <2>3. PICK g : Folds(g, b - 1, base, F)
    BY <1>2
  <2> DEFINE f == [s \in SUBSET (1 .. b) |-> IF b \in s THEN F[<<g[s \ {b}], b>>] ELSE g[s]]
  <2>4. \A s \in D : g[s] = IF s = {} THEN base ELSE F[<<g[s \ {Max(s)}], Max(s)>>]
    BY <2>3 DEF Folds
  <2>5. \A s \in D : s \in SUBSET (1 .. b) /\ b \notin s
    BY <2>1
  <2>6. \A s \in SUBSET (1 .. b) : s \ {b} \in D
    BY <2>1
  <2>7. \A s \in D : f[s] = g[s]
    BY <2>5
  <2>8. \A s \in SUBSET (1 .. b) : b \in s => f[s] = F[<<g[s \ {b}], b>>]
    OBVIOUS
  <2>9. f = [s \in SUBSET (1 .. b) |-> f[s]]
    OBVIOUS
  <2> HIDE DEF f, D, Good
  <2>11. ASSUME NEW s \in SUBSET (1 .. b)
         PROVE  f[s] = IF s = {} THEN base ELSE F[<<f[s \ {Max(s)}], Max(s)>>]
    <3>1. CASE b \in s
      <4>1. Max(s) = b
        <5>1. Max(s) \in s /\ \A y \in s : y <= Max(s)
          BY <2>1, <3>1, MaxIs
        <5>2. Max(s) \in 1 .. b /\ b <= Max(s)
          BY <3>1, <5>1
        <5> QED BY <2>1, <5>2
      <4>2. f[s] = F[<<g[s \ {b}], b>>] /\ f[s \ {b}] = g[s \ {b}]
        BY <2>6, <2>7, <2>8, <3>1
      <4> QED BY <3>1, <4>1, <4>2
    <3>2. CASE b \notin s
      <4>1. s \in D /\ f[s] = g[s]
        BY <2>6, <2>7, <3>2
      <4>2. CASE s = {}
        BY <2>4, <4>1, <4>2
      <4>3. CASE s # {}
        <5>1. s \ {Max(s)} \in D
          BY <4>1 DEF D
        <5>2. f[s \ {Max(s)}] = g[s \ {Max(s)}]
          BY <2>7, <5>1
        <5> QED BY <2>4, <4>1, <4>3, <5>2
      <4> QED BY <4>2, <4>3
    <3> QED BY <3>1, <3>2
  <2> DEFINE e == [s \in SUBSET (1 .. b) |->
                     IF s = {} THEN base ELSE F[<<f[s \ {Max(s)}], Max(s)>>]]
  <2>12. e = [s \in SUBSET (1 .. b) |-> e[s]] /\ \A s \in SUBSET (1 .. b) : e[s] = f[s]
    BY <2>11
  <2> HIDE DEF e
  <2>13. f = e
    BY <2>9, <2>12
  <2>14. Folds(f, b, base, F)
    BY <2>13 DEF Folds, e
  <2> QED BY <2>1, <2>14 DEF Good
<1> HIDE DEF Good
<1>3. n \in Good
  <2>1. 0 .. n \subseteq Good
    BY <1>1, <1>2, Inductive
  <2> QED BY <2>1
<1> QED BY <1>3 DEF Good

(* One whose steps stay in a set of states.                                *)
LEMMA FoldIn ==
  ASSUME NEW n \in Nat, NEW A, NEW base \in A, NEW F,
         \A a \in A : \A i \in 1 .. n : F[<<a, i>>] \in A
  PROVE  \E it \in [SUBSET (1 .. n) -> A] : Folds(it, n, base, F)
<1>1. PICK it : Folds(it, n, base, F)
  BY FoldExists
<1> DEFINE Good == {b \in 0 .. n : \A s \in SUBSET (1 .. b) : it[s] \in A}
<1>2. \A s \in SUBSET (1 .. n) : it[s] = IF s = {} THEN base ELSE F[<<it[s \ {Max(s)}], Max(s)>>]
  BY <1>1 DEF Folds
<1>3. 0 \in Good
  <2>1. \A s \in SUBSET (1 .. 0) : s = {} /\ s \in SUBSET (1 .. n)
    OBVIOUS
  <2>2. \A s \in SUBSET (1 .. 0) : it[s] \in A
    BY <1>2, <2>1
  <2>3. 0 \in 0 .. n
    OBVIOUS
  <2> QED BY <2>2, <2>3
<1>4. ASSUME NEW b \in 1 .. n, b - 1 \in Good
      PROVE  b \in Good
  <2>1. b \in Nat /\ b \in 0 .. n
    OBVIOUS
  <2>2. ASSUME NEW s \in SUBSET (1 .. b)
        PROVE  it[s] \in A
    <3>1. s \in SUBSET (1 .. n)
      OBVIOUS
    <3>2. CASE s = {}
      BY <1>2, <3>1, <3>2
    <3>3. CASE s # {}
      <4>1. Max(s) \in s /\ \A y \in s : y <= Max(s)
        BY <2>1, <3>3, MaxIs
      <4>2. s \ {Max(s)} \in SUBSET (1 .. b - 1)
        <5> SUFFICES \A y \in s \ {Max(s)} : y \in 1 .. b - 1
          OBVIOUS
        <5> TAKE y \in s \ {Max(s)}
        <5>1. y \in 1 .. b /\ Max(s) \in 1 .. b /\ y <= Max(s) /\ y # Max(s)
          BY <4>1
        <5> HIDE DEF Good
        <5> QED BY <2>1, <5>1
      <4>3. it[s \ {Max(s)}] \in A /\ Max(s) \in 1 .. n
        BY <1>4, <3>1, <4>1, <4>2
      <4> QED BY <1>2, <3>1, <3>3, <4>3
    <3> QED BY <3>2, <3>3
  <2> QED BY <2>1, <2>2
<1>5. n \in Good
  <2> HIDE DEF Good
  <2>1. 0 .. n \subseteq Good
    BY <1>3, <1>4, Inductive
  <2> QED BY <2>1
<1>6. it \in [SUBSET (1 .. n) -> A]
  BY <1>1, <1>5 DEF Folds
<1> QED BY <1>1, <1>6

(* The prefixes of the places.                                             *)
LEMMA PrefixPlaces ==
  ASSUME NEW n \in Nat
  PROVE  /\ 1 .. 0 = {} /\ {} \in SUBSET (1 .. n)
         /\ \A i \in 1 .. n : /\ 1 .. i \in SUBSET (1 .. n) /\ 1 .. i # {}
                              /\ Max(1 .. i) = i /\ (1 .. i) \ {i} = 1 .. i - 1
<1>1. ASSUME NEW i \in 1 .. n
      PROVE  Max(1 .. i) = i
  <2>1. i \in Nat /\ 1 .. i # {} /\ i \in 1 .. i
    OBVIOUS
  <2>2. Max(1 .. i) \in 1 .. i /\ \A y \in 1 .. i : y <= Max(1 .. i)
    <3> DEFINE s == 1 .. i
    <3>1. s \subseteq 1 .. i /\ s # {}
      BY <2>1
    <3> HIDE DEF s
    <3>2. Max(s) \in s /\ \A y \in s : y <= Max(s)
      BY <2>1, <3>1, MaxIs
    <3> QED BY <3>2 DEF s
  <2>3. i <= Max(1 .. i)
    BY <2>1, <2>2
  <2> QED BY <2>1, <2>2, <2>3
<1>2. ASSUME NEW i \in 1 .. n
      PROVE  /\ 1 .. i \in SUBSET (1 .. n) /\ 1 .. i # {}
             /\ (1 .. i) \ {i} = 1 .. i - 1
  OBVIOUS
<1>3. 1 .. 0 = {} /\ {} \in SUBSET (1 .. n)
  OBVIOUS
<1>4. \A i \in 1 .. n : /\ 1 .. i \in SUBSET (1 .. n) /\ 1 .. i # {}
                        /\ Max(1 .. i) = i /\ (1 .. i) \ {i} = 1 .. i - 1
  BY <1>1, <1>2
<1> QED BY <1>3, <1>4

-----------------------------------------------------------------------------
-----
(* The quoting of a command, place by place.                               *)

LEMMA QuoteStepIn ==
  ASSUME NEW n \in Nat, NEW s, NEW q \in QuoteStates(n), NEW i \in 1 .. n
  PROVE  QuoteStep(s, q, i) \in QuoteStates(n)
BY DEF QuoteStates, QuoteStep

LEMMA QuotingRuns ==
  ASSUME NEW s, NEW n \in Nat, DOMAIN s = 1 .. n
  PROVE  \E g : QuoteRun(g, s, n) /\ Quoting(s) = g[n]
<1> DEFINE A == QuoteStates(n)
           F == [x \in A \X (1 .. n) |-> QuoteStep(s, x[1], x[2])]
           it == CHOOSE j : j = [p \in SUBSET (1 .. n) |->
                   IF p = {} THEN Unquoted ELSE QuoteStep(s, j[p \ {Max(p)}], [i \in 1 .. n |-> i][Max(p)])]
           g == [i \in 0 .. n |-> it[1 .. i]]
<1>1. Quoting(s) = it[1 .. n]
  <2>1. DOMAIN [i \in DOMAIN s |-> i] = 1 .. n
    OBVIOUS
  <2> QED BY <2>1 DEF Quoting, FoldLeft, MapThenFoldSet, QuoteStep, Unquoted
<1>2. \E j : j = [p \in SUBSET (1 .. n) |->
               IF p = {} THEN Unquoted ELSE QuoteStep(s, j[p \ {Max(p)}], [i \in 1 .. n |-> i][Max(p)])]
  <2>1. \A a \in A : \A i \in 1 .. n : F[<<a, i>>] \in A /\ F[<<a, i>>] = QuoteStep(s, a, i)
    BY QuoteStepIn
  <2>2. Unquoted \in A
    BY DEF Unquoted, QuoteStates
  <2> HIDE DEF F, A
  <2>3. PICK j \in [SUBSET (1 .. n) -> A] : Folds(j, n, Unquoted, F)
    BY <2>1, <2>2, FoldIn
  <2>4. \A p \in SUBSET (1 .. n) : p # {} =>
          /\ Max(p) \in 1 .. n /\ j[p \ {Max(p)}] \in A /\ [i \in 1 .. n |-> i][Max(p)] = Max(p)
    <3> TAKE p \in SUBSET (1 .. n)
    <3> HAVE p # {}
    <3>1. Max(p) \in 1 .. n
      BY MaxIs
    <3> QED BY <3>1
  <2>5. j = [p \in SUBSET (1 .. n) |->
               IF p = {} THEN Unquoted ELSE QuoteStep(s, j[p \ {Max(p)}], [i \in 1 .. n |-> i][Max(p)])]
    BY <2>1, <2>3, <2>4 DEF Folds
  <2> QED BY <2>5
<1>3. it = [p \in SUBSET (1 .. n) |->
               IF p = {} THEN Unquoted ELSE QuoteStep(s, it[p \ {Max(p)}], [i \in 1 .. n |-> i][Max(p)])]
  BY <1>2
<1> HIDE DEF it
<1>4. QuoteRun(g, s, n)
  <2>1. g[0] = Unquoted
    BY <1>3, PrefixPlaces
  <2>2. ASSUME NEW i \in 1 .. n
        PROVE  g[i] = QuoteStep(s, g[i - 1], i)
    <3>1. /\ 1 .. i \in SUBSET (1 .. n) /\ 1 .. i # {}
          /\ Max(1 .. i) = i /\ (1 .. i) \ {i} = 1 .. i - 1
      BY PrefixPlaces
    <3>2. it[1 .. i] = QuoteStep(s, it[1 .. i - 1], i)
      <4> HIDE DEF F
      <4> QED BY <1>3, <3>1
    <3> QED BY <3>2
  <2> QED BY <2>1, <2>2 DEF QuoteRun
<1> QED BY <1>1, <1>4

-----
(* A text that spells m words: word k is written from place pos[k] on, and *)
(* all other places are blank.                                             *)

LEMMA Characters ==
  /\ Space \in Spaces /\ "\n" \in Spaces /\ Space \notin QuoteMarks /\ Space # "\\"
  /\ "bare" \notin QuoteMarks /\ "escaped" \notin QuoteMarks /\ "none" \notin QuoteMarks
  /\ "\\" \notin QuoteMarks
  /\ "\\" \notin Spaces /\ QuoteMarks \cap Spaces = {}
  /\ Space \in Letters /\ QuoteMarks \subseteq Letters
  /\ \A s \in {"\\", "cd", "repo", "&&"} : s \in Letters
BY Zenon DEF Space, Spaces, QuoteMarks, DoubleQuote, Letters

LEMMA WordFacts ==
  ASSUME NEW word, IsWord(word)
  PROVE  /\ word.as \in {"bare", "escaped"} \cup QuoteMarks /\ Width(word) \in {1, 2, 3}
         /\ word.as = "bare" => Width(word) = 1
         /\ word.as = "escaped" => Width(word) = 2
         /\ word.as \in QuoteMarks => Width(word) = 3
         /\ word.text \notin Spaces /\ (word.as = "bare" => word.text \notin QuoteMarks \cup {"\\"})
         /\ word.as \in QuoteMarks => word.text \notin {word.as, "\\"}
         /\ word.text \in Letters
<1>1. word.as \in {"bare", "escaped"} \cup QuoteMarks /\ word.text \in Letters
  BY DEF IsWord
<1>2. word.as \in QuoteMarks => word.as = "'" \/ word.as = DoubleQuote
  BY DEF QuoteMarks
<1> QED BY <1>1, <1>2, Characters DEF IsWord, EndsAsMarked, Width

LEMMA OneWord ==
  ASSUME NEW x, NEW w, NEW m, NEW pos, Spells(x, w, m, pos), NEW i \in Nat,
         NEW j \in 1 .. m, NEW k \in 1 .. m, Covers(w[j], pos[j], i), Covers(w[k], pos[k], i)
  PROVE  j = k
<1>1. Width(w[j]) \in {1, 2, 3} /\ Width(w[k]) \in {1, 2, 3}
  BY WordFacts DEF Spells
<1>2. pos[j] \in Nat /\ pos[k] \in Nat /\ m \in Nat
  BY DEF Spells
<1>3. /\ j < k => pos[j] + Width(w[j]) < pos[k]
      /\ k < j => pos[k] + Width(w[k]) < pos[j]
  BY DEF Spells
<1>4. ~(j < k) /\ ~(k < j)
  BY <1>1, <1>2, <1>3 DEF Covers
<1> QED BY <1>2, <1>4

LEMMA QuotesOver ==
  ASSUME NEW x, NEW w, NEW m, NEW pos, Spells(x, w, m, pos),
         NEW i \in 1 .. Len(x), NEW q, QuotesTo(q, x, w, m, pos, i - 1)
  PROVE  QuotesTo(QuoteStep(x, q, i), x, w, m, pos, i)
<1> DEFINE n == Len(x)
           P == PlainAt(x, w, m, pos)
           L == LiteralAt(x, w, m, pos)
           next == QuoteStep(x, q, i)
<1>1. n \in Nat /\ m \in Nat /\ x \in Seq(Letters) /\ i \in Nat
  BY DEF Spells
<1>2. \A k \in 1 .. m : /\ IsWord(w[k]) /\ SpelledAt(x, w[k], pos[k])
                        /\ pos[k] \in Nat /\ pos[k] >= 1 /\ pos[k] + Width(w[k]) <= n + 1
  BY DEF Spells
<1>3. \A k \in 1 .. m :
        /\ w[k].as \in {"bare", "escaped"} \cup QuoteMarks
        /\ w[k].as = "bare" => Width(w[k]) = 1
        /\ w[k].as = "escaped" => Width(w[k]) = 2
        /\ w[k].as \in QuoteMarks => Width(w[k]) = 3
        /\ w[k].text \notin Spaces /\ (w[k].as = "bare" => w[k].text \notin QuoteMarks \cup {"\\"})
        /\ w[k].as \in QuoteMarks => w[k].text \notin {w[k].as, "\\"}
  BY <1>2, WordFacts
<1>4. next \in QuoteStates(n)
  BY <1>1, QuoteStepIn DEF QuotesTo
<1>5. /\ q.plain = {j \in P : j <= i - 1} /\ q.literal = {j \in L : j <= i - 1}
      /\ q \in QuoteStates(n)
      /\ q.escaping <=> \E k \in 1 .. m : w[k].as = "escaped" /\ pos[k] = i - 1
      /\ \A k \in 1 .. m : w[k].as \in QuoteMarks /\ pos[k] <= i - 1 /\ i - 1 < pos[k] + 2
           => q.quote = w[k].as
      /\ (\A k \in 1 .. m : ~(w[k].as \in QuoteMarks /\ pos[k] <= i - 1 /\ i - 1 < pos[k] + 2))
           => q.quote = "none"
  BY DEF QuotesTo
<1>6. /\ P \subseteq 1 .. n /\ L \subseteq 1 .. n
      /\ i \in P <=> \/ \A k \in 1 .. m : ~Covers(w[k], pos[k], i)
                     \/ \E k \in 1 .. m : w[k].as = "bare" /\ pos[k] = i
      /\ i \in L <=> \E k \in 1 .. m : w[k].as # "bare" /\ pos[k] + 1 = i
  BY DEF PlainAt, LiteralAt
<1> HIDE DEF P, L, n
<1>7. /\ i \in P => {j \in P : j <= i} = {j \in P : j <= i - 1} \cup {i}
      /\ i \notin P => {j \in P : j <= i} = {j \in P : j <= i - 1}
      /\ i \in L => {j \in L : j <= i} = {j \in L : j <= i - 1} \cup {i}
      /\ i \notin L => {j \in L : j <= i} = {j \in L : j <= i - 1}
  <2>1. \A j \in P \cup L : j \in Int
    <3>1. \A j \in 1 .. n : j \in Int
      OBVIOUS
    <3> HIDE DEF next
    <3> QED BY <1>6, <3>1
  <2>2. \A j \in P \cup L : j <= i <=> j <= i - 1 \/ j = i
    BY <1>1, <2>1
  <2>3. ~(i <= i - 1)
    BY <1>1
  <2> QED BY <2>2, <2>3
<1> SUFFICES
      /\ next.plain = {j \in P : j <= i} /\ next.literal = {j \in L : j <= i}
      /\ next.escaping <=> \E k \in 1 .. m : w[k].as = "escaped" /\ pos[k] = i
      /\ \A k \in 1 .. m : w[k].as \in QuoteMarks /\ pos[k] <= i /\ i < pos[k] + 2
           => next.quote = w[k].as
      /\ (\A k \in 1 .. m : ~(w[k].as \in QuoteMarks /\ pos[k] <= i /\ i < pos[k] + 2))
           => next.quote = "none"
  BY <1>4 DEF QuotesTo, P, L, n
<1>8. q.quote \in {"none"} \cup QuoteMarks /\ q.escaping \in BOOLEAN
  BY <1>5 DEF QuoteStates
<1>9. CASE \A k \in 1 .. m : ~Covers(w[k], pos[k], i)
  <2>1. x[i] = Space /\ i \in P
    BY <1>6, <1>9 DEF Spells
  <2>2. /\ ~q.escaping /\ q.quote = "none" /\ i \notin L
        /\ \A k \in 1 .. m : /\ ~(w[k].as = "escaped" /\ pos[k] = i)
                             /\ ~(w[k].as \in QuoteMarks /\ pos[k] <= i /\ i < pos[k] + 2)
    <3>1. ASSUME NEW k \in 1 .. m
          PROVE  /\ ~(w[k].as = "escaped" /\ (pos[k] = i \/ pos[k] = i - 1))
                 /\ ~(w[k].as # "bare" /\ pos[k] + 1 = i)
                 /\ ~(w[k].as \in QuoteMarks /\ pos[k] <= i /\ i < pos[k] + 2)
                 /\ ~(w[k].as \in QuoteMarks /\ pos[k] <= i - 1 /\ i - 1 < pos[k] + 2)
      <4>1. ~(pos[k] <= i /\ i < pos[k] + Width(w[k])) /\ pos[k] \in Nat
        BY <1>2, <1>9 DEF Covers
      <4> QED BY <1>1, <1>3, <4>1
    <3> HIDE DEF next
    <3> QED BY <1>5, <1>6, <3>1
  <2>3. next = [q EXCEPT !.plain = @ \cup {i}]
    BY <2>1, <2>2, Characters DEF QuoteStep
  <2>4. next.plain = q.plain \cup {i} /\ next.literal = q.literal /\ next.escaping = q.escaping
        /\ next.quote = q.quote
    BY <1>5, <2>3 DEF QuoteStates
  <2> HIDE DEF next
  <2> QED BY <1>5, <1>7, <2>1, <2>2, <2>4
<1>10. ASSUME NEW k \in 1 .. m, Covers(w[k], pos[k], i)
       PROVE  /\ next.plain = {j \in P : j <= i} /\ next.literal = {j \in L : j <= i}
              /\ next.escaping <=> \E l \in 1 .. m : w[l].as = "escaped" /\ pos[l] = i
              /\ \A l \in 1 .. m : w[l].as \in QuoteMarks /\ pos[l] <= i /\ i < pos[l] + 2
                   => next.quote = w[l].as
              /\ (\A l \in 1 .. m : ~(w[l].as \in QuoteMarks /\ pos[l] <= i /\ i < pos[l] + 2))
                   => next.quote = "none"
  <2>1. \A l \in 1 .. m : Covers(w[l], pos[l], i) => l = k
    BY <1>1, <1>10, OneWord
  <2>2. /\ \A l \in 1 .. m : w[l].as = "bare" /\ pos[l] = i => l = k
        /\ \A l \in 1 .. m : w[l].as # "bare" /\ pos[l] + 1 = i => l = k
        /\ \A l \in 1 .. m : w[l].as = "escaped" /\ pos[l] = i - 1 => l = k
        /\ \A l \in 1 .. m : w[l].as = "escaped" /\ pos[l] = i => l = k
        /\ \A l \in 1 .. m : w[l].as \in QuoteMarks /\ pos[l] <= i - 1 /\ i - 1 < pos[l] + 2 => l = k
        /\ \A l \in 1 .. m : w[l].as \in QuoteMarks /\ pos[l] <= i /\ i < pos[l] + 2 => l = k
    <3>1. ASSUME NEW l \in 1 .. m, l # k
          PROVE  /\ ~(w[l].as = "bare" /\ pos[l] = i)
                 /\ ~(w[l].as # "bare" /\ pos[l] + 1 = i)
                 /\ ~(w[l].as = "escaped" /\ (pos[l] = i \/ pos[l] = i - 1))
                 /\ ~(w[l].as \in QuoteMarks /\ pos[l] <= i /\ i < pos[l] + 2)
                 /\ ~(w[l].as \in QuoteMarks /\ pos[l] <= i - 1 /\ i - 1 < pos[l] + 2)
      <4>1. ~(pos[l] <= i /\ i < pos[l] + Width(w[l])) /\ pos[l] \in Nat
        BY <1>2, <2>1, <3>1 DEF Covers
      <4> QED BY SMTT(30), <1>1, <1>3, <4>1
    <3> HIDE DEF next
    <3> QED BY <3>1
  <2>3. /\ i \in P <=> w[k].as = "bare" /\ pos[k] = i
        /\ i \in L <=> w[k].as # "bare" /\ pos[k] + 1 = i
        /\ q.escaping <=> w[k].as = "escaped" /\ pos[k] = i - 1
        /\ w[k].as \in QuoteMarks /\ pos[k] <= i - 1 /\ i - 1 < pos[k] + 2 => q.quote = w[k].as
        /\ ~(w[k].as \in QuoteMarks /\ pos[k] <= i - 1 /\ i - 1 < pos[k] + 2) => q.quote = "none"
    BY <1>5, <1>6, <1>10, <2>2
  <2>4. /\ IsWord(w[k]) /\ SpelledAt(x, w[k], pos[k]) /\ pos[k] \in Nat
        /\ w[k].as \in {"bare", "escaped"} \cup QuoteMarks
        /\ w[k].as = "bare" => Width(w[k]) = 1
        /\ w[k].as = "escaped" => Width(w[k]) = 2
        /\ w[k].as \in QuoteMarks => Width(w[k]) = 3
        /\ w[k].text \notin Spaces /\ (w[k].as = "bare" => w[k].text \notin QuoteMarks \cup {"\\"})
        /\ w[k].as \in QuoteMarks => w[k].text \notin {w[k].as, "\\"}
    BY <1>2, <1>3
  <2>5. SUFFICES
          /\ next.plain = IF i \in P THEN q.plain \cup {i} ELSE q.plain
          /\ next.literal = IF i \in L THEN q.literal \cup {i} ELSE q.literal
          /\ next.escaping <=> w[k].as = "escaped" /\ pos[k] = i
          /\ w[k].as \in QuoteMarks /\ pos[k] <= i /\ i < pos[k] + 2 => next.quote = w[k].as
          /\ ~(w[k].as \in QuoteMarks /\ pos[k] <= i /\ i < pos[k] + 2) => next.quote = "none"
    <3> HIDE DEF next
    <3> QED BY <1>5, <1>7, <2>2
  <2>6. CASE w[k].as = "bare"
    <3>1. pos[k] = i /\ x[i] = w[k].text
      BY <1>1, <1>10, <2>4, <2>6 DEF Covers, SpelledAt
    <3>2. ~q.escaping /\ q.quote = "none" /\ i \in P /\ i \notin L
      BY <2>3, <2>6, <3>1, Characters
    <3>3. next = [q EXCEPT !.plain = @ \cup {i}]
      BY <2>4, <2>6, <3>1, <3>2 DEF QuoteStep
    <3>4. next.plain = q.plain \cup {i} /\ next.literal = q.literal /\ next.escaping = q.escaping
          /\ next.quote = q.quote
      BY <1>5, <3>3 DEF QuoteStates
    <3> QED BY <2>6, <3>2, <3>4, Characters
  <2>7. CASE w[k].as = "escaped"
    <3>1. x[pos[k]] = "\\" /\ x[pos[k] + 1] = w[k].text /\ (i = pos[k] \/ i = pos[k] + 1)
      BY <1>1, <1>10, <2>4, <2>7 DEF Covers, SpelledAt
    <3>2. CASE i = pos[k]
      <4>1. ~q.escaping /\ q.quote = "none" /\ i \notin P /\ i \notin L /\ x[i] = "\\"
        BY <2>3, <2>4, <2>7, <3>1, <3>2, Characters
      <4>2. next = [q EXCEPT !.escaping = TRUE]
        BY <4>1, Characters DEF QuoteStep
      <4>3. next.plain = q.plain /\ next.literal = q.literal /\ next.escaping = TRUE
            /\ next.quote = q.quote
        BY <1>5, <4>2 DEF QuoteStates
      <4> QED BY <2>7, <3>2, <4>1, <4>3, Characters
    <3>3. CASE i = pos[k] + 1
      <4>1. q.escaping /\ q.quote = "none" /\ i \notin P /\ i \in L /\ pos[k] # i
        BY <2>3, <2>4, <2>7, <3>1, <3>3, Characters
      <4>2. next = [q EXCEPT !.escaping = FALSE, !.literal = @ \cup {i}]
        BY <4>1 DEF QuoteStep
      <4>3. next.plain = q.plain /\ next.literal = q.literal \cup {i} /\ next.escaping = FALSE
            /\ next.quote = q.quote
        BY <1>5, <4>2 DEF QuoteStates
      <4> QED BY <2>7, <4>1, <4>3, Characters
    <3> QED BY <3>1, <3>2, <3>3
  <2>8. CASE w[k].as \in QuoteMarks
    <3>1. /\ x[pos[k]] = w[k].as /\ x[pos[k] + 1] = w[k].text /\ x[pos[k] + 2] = w[k].as
          /\ i = pos[k] \/ i = pos[k] + 1 \/ i = pos[k] + 2
          /\ w[k].as \notin {"bare", "escaped", "none", "\\"}
      <4>1. w[k].as \notin {"bare", "escaped", "none", "\\"}
        BY <2>8, Characters
      <4>2. /\ x[pos[k]] = w[k].as /\ x[pos[k] + 1] = w[k].text /\ x[pos[k] + 2] = w[k].as
        BY <2>4, <4>1 DEF SpelledAt
      <4>3. i = pos[k] \/ i = pos[k] + 1 \/ i = pos[k] + 2
        BY <1>1, <1>10, <2>4, <2>8 DEF Covers
      <4> HIDE DEF next
      <4> QED BY <4>1, <4>2, <4>3
    <3>2. CASE i = pos[k]
      <4>1. ~q.escaping /\ q.quote = "none" /\ i \notin P /\ i \notin L /\ x[i] = w[k].as
        BY <2>3, <2>4, <3>1, <3>2
      <4>2. next = [q EXCEPT !.quote = w[k].as]
        BY <2>8, <3>1, <4>1 DEF QuoteStep
      <4>3. next.plain = q.plain /\ next.literal = q.literal /\ next.escaping = q.escaping
            /\ next.quote = w[k].as
        BY <1>5, <4>2 DEF QuoteStates
      <4> QED BY <2>4, <3>1, <3>2, <4>1, <4>3
    <3>3. CASE i = pos[k] + 1
      <4>1. ~q.escaping /\ q.quote = w[k].as /\ i \notin P /\ i \in L /\ x[i] = w[k].text
        BY <2>3, <2>4, <2>8, <3>1, <3>3
      <4>2. x[i] # "\\" /\ q.quote # "none" /\ x[i] # q.quote
        BY <2>4, <2>8, <3>1, <4>1, Characters
      <4>3. next = [q EXCEPT !.literal = @ \cup {i}]
        BY <4>1, <4>2 DEF QuoteStep
      <4>4. next.plain = q.plain /\ next.literal = q.literal \cup {i} /\ next.escaping = q.escaping
            /\ next.quote = q.quote
        BY <1>5, <4>3 DEF QuoteStates
      <4> QED BY SMTT(30), <2>4, <3>1, <3>3, <4>1, <4>4
    <3>4. CASE i = pos[k] + 2
      <4>1. ~q.escaping /\ q.quote = w[k].as /\ i \notin P /\ i \notin L /\ x[i] = w[k].as
        BY <2>3, <2>4, <2>8, <3>1, <3>4
      <4>2. next = [q EXCEPT !.quote = "none"]
        BY <3>1, <4>1 DEF QuoteStep
      <4>3. next.plain = q.plain /\ next.literal = q.literal /\ next.escaping = q.escaping
            /\ next.quote = "none"
        BY <1>5, <4>2 DEF QuoteStates
      <4> QED BY <2>4, <3>1, <3>4, <4>1, <4>3
    <3> QED BY <3>1, <3>2, <3>3, <3>4
  <2> QED BY <2>4, <2>6, <2>7, <2>8, Characters
<1> QED BY <1>9, <1>10

(* The whole text.                                                         *)
LEMMA QuotingOf ==
  ASSUME NEW x, NEW w, NEW m, NEW pos, Spells(x, w, m, pos)
  PROVE  /\ Quoting(x).plain = PlainAt(x, w, m, pos)
         /\ Quoting(x).literal = LiteralAt(x, w, m, pos)
         /\ ~Quoting(x).escaping
<1> DEFINE n == Len(x)
<1>1. n \in Nat /\ DOMAIN x = 1 .. n
  BY DEF Spells
<1>2. PICK g : QuoteRun(g, x, n) /\ Quoting(x) = g[n]
  BY <1>1, QuotingRuns
<1> DEFINE Good == {i \in 0 .. n : QuotesTo(g[i], x, w, m, pos, i)}
<1>3. 0 \in Good
  <2>1. g[0] = Unquoted
    BY <1>2 DEF QuoteRun
  <2>2. \A k \in 1 .. m : pos[k] >= 1 /\ pos[k] \in Nat
    BY DEF Spells
  <2>3. PlainAt(x, w, m, pos) \subseteq 1 .. n /\ LiteralAt(x, w, m, pos) \subseteq 1 .. n
    BY DEF PlainAt, LiteralAt
  <2>4. QuotesTo(Unquoted, x, w, m, pos, 0)
    BY <1>1, <2>2, <2>3 DEF QuotesTo, Unquoted, QuoteStates
  <2> QED BY <1>1, <2>1, <2>4
<1>4. ASSUME NEW i \in 1 .. n, i - 1 \in Good
      PROVE  i \in Good
  <2>1. g[i] = QuoteStep(x, g[i - 1], i) /\ i \in 0 .. n
    BY <1>1, <1>2 DEF QuoteRun
  <2>2. QuotesTo(g[i - 1], x, w, m, pos, i - 1)
    BY <1>4
  <2>3. QuotesTo(g[i], x, w, m, pos, i)
    BY <2>1, <2>2, QuotesOver
  <2> QED BY <2>1, <2>3
<1>5. n \in Good
  <2> HIDE DEF Good
  <2>1. 0 .. n \subseteq Good
    BY <1>1, <1>3, <1>4, Inductive
  <2> QED BY <1>1, <2>1
<1>6. QuotesTo(Quoting(x), x, w, m, pos, n)
  BY <1>2, <1>5
<1> HIDE DEF Good
<1>7. /\ {j \in PlainAt(x, w, m, pos) : j <= n} = PlainAt(x, w, m, pos)
      /\ {j \in LiteralAt(x, w, m, pos) : j <= n} = LiteralAt(x, w, m, pos)
  BY <1>1 DEF PlainAt, LiteralAt
<1>8. \A k \in 1 .. m : ~(w[k].as = "escaped" /\ pos[k] = n)
  <2> TAKE k \in 1 .. m
  <2>1. IsWord(w[k]) /\ pos[k] \in Nat /\ pos[k] + Width(w[k]) <= n + 1
    BY DEF Spells
  <2> QED BY <1>1, <2>1, WordFacts
<1> QED BY <1>6, <1>7, <1>8 DEF QuotesTo

-----
(* The tokens of a text that spells some words are those words.            *)

LEMMA FlushTokenIn ==
  ASSUME NEW t \in TokenStates
  PROVE  FlushToken(t) \in Seq(Seq(Letters))
<1>1. t.tokens \in Seq(Seq(Letters)) /\ t.current \in Seq(Letters)
  BY DEF TokenStates
<1> DEFINE T == Seq(Letters)
<1> HIDE DEF T
<1>2. t.tokens \in Seq(T) /\ t.current \in T
  BY <1>1 DEF T
<1>3. FlushToken(t) \in Seq(T)
  BY <1>2 DEF FlushToken
<1> QED BY <1>3 DEF T

LEMMA TokenStepIn ==
  ASSUME NEW s \in Seq(Letters), NEW q, NEW t \in TokenStates, NEW i \in 1 .. Len(s)
  PROVE  TokenStep(s, q, t, i) \in TokenStates
<1>1. s[i] \in Letters
  OBVIOUS
<1>2. t.current \in Seq(Letters) /\ t.tokens \in Seq(Seq(Letters))
  BY DEF TokenStates
<1>3. Append(t.current, s[i]) \in Seq(Letters)
  BY <1>1, <1>2
<1>4. FlushToken(t) \in Seq(Seq(Letters)) /\ <<>> \in Seq(Letters)
  BY FlushTokenIn
<1>5. CASE i \in q.plain /\ s[i] \in Spaces
  BY <1>4, <1>5 DEF TokenStep, TokenStates
<1>6. CASE ~(i \in q.plain /\ s[i] \in Spaces) /\ i \in q.plain \cup q.literal
  <2>1. TokenStep(s, q, t, i) = [t EXCEPT !.current = Append(t.current, s[i])]
    BY <1>6 DEF TokenStep
  <2> QED BY <1>3, <2>1 DEF TokenStates
<1>7. CASE ~(i \in q.plain /\ s[i] \in Spaces) /\ i \notin q.plain \cup q.literal
  BY <1>7 DEF TokenStep
<1> QED BY <1>5, <1>6, <1>7

LEMMA TokensRun ==
  ASSUME NEW s \in Seq(Letters), NEW q, ~q.escaping
  PROVE  \E g : TokenRun(g, s, q, Len(s)) /\ Tokens(s, q) = FlushToken(g[Len(s)])
<1> DEFINE n == Len(s)
           A == TokenStates
           F == [x \in A \X (1 .. n) |-> TokenStep(s, q, x[1], x[2])]
           ns == [i \in DOMAIN s |-> i]
           it == CHOOSE j : j = [p \in SUBSET DOMAIN ns |->
                   IF p = {} THEN NoTokens ELSE TokenStep(s, q, j[p \ {Max(p)}], ns[Max(p)])]
           g == [i \in 0 .. n |-> it[1 .. i]]
<1>0. n \in Nat /\ DOMAIN s = 1 .. n /\ DOMAIN ns = 1 .. n /\ \A i \in 1 .. n : ns[i] = i
  OBVIOUS
<1>1. Tokens(s, q) = FlushToken(it[1 .. n])
  <2>1. Tokens(s, q) = IF q.escaping THEN Append(it[DOMAIN ns].tokens, Append(it[DOMAIN ns].current, "\\"))
                       ELSE FlushToken(it[DOMAIN ns])
    BY Zenon DEF Tokens, FoldLeft, MapThenFoldSet, TokenStep, NoTokens, FlushToken
  <2> QED BY <1>0, <2>1
<1> HIDE DEF n, ns
<1>2. \E j : j = [p \in SUBSET DOMAIN ns |->
               IF p = {} THEN NoTokens ELSE TokenStep(s, q, j[p \ {Max(p)}], ns[Max(p)])]
  <2>1. \A a \in A : \A i \in 1 .. n : F[<<a, i>>] \in A /\ F[<<a, i>>] = TokenStep(s, q, a, i)
    BY TokenStepIn DEF n
  <2>2. NoTokens \in A
    BY DEF NoTokens, TokenStates
  <2> HIDE DEF F, A
  <2>3. PICK j \in [SUBSET (1 .. n) -> A] : Folds(j, n, NoTokens, F)
    BY <1>0, <2>1, <2>2, FoldIn
  <2>4. \A p \in SUBSET (1 .. n) : p # {} =>
          /\ Max(p) \in 1 .. n /\ j[p \ {Max(p)}] \in A /\ ns[Max(p)] = Max(p)
    <3> TAKE p \in SUBSET (1 .. n)
    <3> HAVE p # {}
    <3>1. Max(p) \in 1 .. n
      BY <1>0, MaxIs
    <3> QED BY <1>0, <2>3, <3>1
  <2>5. j = [p \in SUBSET DOMAIN ns |->
               IF p = {} THEN NoTokens ELSE TokenStep(s, q, j[p \ {Max(p)}], ns[Max(p)])]
    <3> DEFINE e == [p \in SUBSET DOMAIN ns |->
                       IF p = {} THEN NoTokens ELSE TokenStep(s, q, j[p \ {Max(p)}], ns[Max(p)])]
    <3>1. \A p \in SUBSET (1 .. n) :
            j[p] = IF p = {} THEN NoTokens ELSE F[<<j[p \ {Max(p)}], Max(p)>>]
      BY <2>3 DEF Folds
    <3>2. ASSUME NEW p \in SUBSET (1 .. n)
          PROVE  e[p] = j[p]
      <4>1. e[p] = IF p = {} THEN NoTokens ELSE TokenStep(s, q, j[p \ {Max(p)}], ns[Max(p)])
        BY <1>0
      <4>2. j[p] = IF p = {} THEN NoTokens ELSE F[<<j[p \ {Max(p)}], Max(p)>>]
        BY <3>1
      <4> HIDE DEF e
      <4>3. CASE p = {}
        BY <4>1, <4>2, <4>3
      <4>4. CASE p # {}
        <5>1. /\ Max(p) \in 1 .. n /\ j[p \ {Max(p)}] \in A /\ ns[Max(p)] = Max(p)
          BY <2>4, <4>4
        <5>2. F[<<j[p \ {Max(p)}], Max(p)>>] = TokenStep(s, q, j[p \ {Max(p)}], Max(p))
          BY <2>1, <5>1
        <5> QED BY <4>1, <4>2, <4>4, <5>1, <5>2
      <4> QED BY <4>3, <4>4
    <3>3. e = [p \in SUBSET (1 .. n) |-> e[p]] /\ j = [p \in SUBSET (1 .. n) |-> j[p]]
      BY <1>0, <2>3
    <3> HIDE DEF e
    <3>4. j = e
      BY <3>2, <3>3
    <3> QED BY <3>4 DEF e
  <2> QED BY <2>5
<1>3. it = [p \in SUBSET DOMAIN ns |->
               IF p = {} THEN NoTokens ELSE TokenStep(s, q, it[p \ {Max(p)}], ns[Max(p)])]
  BY <1>2
<1> HIDE DEF it
<1>4. g[0] = NoTokens
  BY <1>0, <1>3, PrefixPlaces
<1>5. ASSUME NEW i \in 1 .. n
      PROVE  g[i] = TokenStep(s, q, g[i - 1], i)
  <2>1. /\ 1 .. i \in SUBSET (1 .. n) /\ 1 .. i # {}
        /\ Max(1 .. i) = i /\ (1 .. i) \ {i} = 1 .. i - 1
    BY <1>0, PrefixPlaces
  <2>2. it[1 .. i] = TokenStep(s, q, it[1 .. i - 1], i)
    <3>1. 1 .. i \in SUBSET DOMAIN ns /\ ns[i] = i
      BY <1>0, <2>1
    <3> QED BY <1>3, <2>1, <3>1
  <2> QED BY <1>0, <2>2
<1> DEFINE Good == {i \in 0 .. n : g[i] \in TokenStates}
<1>6. 0 .. n \subseteq Good
  <2>1. 0 \in Good
    <3> HIDE DEF g
    <3>1. NoTokens \in TokenStates
      BY DEF NoTokens, TokenStates
    <3> QED BY <1>0, <1>4, <3>1
  <2>2. ASSUME NEW i \in 1 .. n, i - 1 \in Good
        PROVE  i \in Good
    <3> HIDE DEF g
    <3> QED BY <1>0, <1>5, <2>2, TokenStepIn DEF n
  <2> HIDE DEF Good
  <2> QED BY <1>0, <2>1, <2>2, Inductive
<1>7. TokenRun(g, s, q, n)
  <2> HIDE DEF g
  <2> QED BY <1>4, <1>5, <1>6 DEF TokenRun
<1>8. g[n] = it[1 .. n]
  BY <1>0
<1> HIDE DEF g
<1> QED BY <1>1, <1>7, <1>8 DEF n

LEMMA PlaceFacts ==
  ASSUME NEW x, NEW w, NEW m, NEW pos, Spells(x, w, m, pos), NEW k \in 1 .. m
  PROVE  /\ pos[k] \in Nat /\ pos[k] >= 1 /\ Width(w[k]) \in {1, 2, 3}
         /\ TextPlace(w[k], pos[k]) \in Nat /\ pos[k] <= TextPlace(w[k], pos[k])
         /\ TextPlace(w[k], pos[k]) < pos[k] + Width(w[k]) /\ pos[k] + Width(w[k]) <= Len(x) + 1
         /\ x[TextPlace(w[k], pos[k])] = w[k].text
         /\ w[k].text \notin Spaces /\ w[k].text \in Letters
         /\ w[k].as = "bare" => TextPlace(w[k], pos[k]) = pos[k]
         /\ w[k].as # "bare" => TextPlace(w[k], pos[k]) = pos[k] + 1
<1>1. /\ pos[k] \in Nat /\ pos[k] >= 1 /\ IsWord(w[k]) /\ SpelledAt(x, w[k], pos[k])
      /\ pos[k] + Width(w[k]) <= Len(x) + 1
  BY DEF Spells
<1>2. /\ w[k].as \in {"bare", "escaped"} \cup QuoteMarks /\ Width(w[k]) \in {1, 2, 3}
      /\ w[k].as = "bare" => Width(w[k]) = 1
      /\ w[k].as = "escaped" => Width(w[k]) = 2
      /\ w[k].as \in QuoteMarks => Width(w[k]) = 3
      /\ w[k].text \notin Spaces /\ w[k].text \in Letters
  BY <1>1, WordFacts
<1>3. x[TextPlace(w[k], pos[k])] = w[k].text
  BY <1>1, <1>2, Characters DEF SpelledAt, TextPlace
<1> QED BY <1>1, <1>2, <1>3 DEF TextPlace

LEMMA TokensOver ==
  ASSUME NEW x, NEW w, NEW m, NEW pos, Spells(x, w, m, pos), NEW q,
         q.plain = PlainAt(x, w, m, pos), q.literal = LiteralAt(x, w, m, pos),
         NEW i \in 1 .. Len(x), NEW t \in TokenStates,
         NEW c, NEW begun \in BOOLEAN, TokensTo(t, w, m, pos, i - 1, c, begun)
  PROVE  \E d : \E on \in BOOLEAN : TokensTo(TokenStep(x, q, t, i), w, m, pos, i, d, on)
<1> DEFINE next == TokenStep(x, q, t, i)
           Place(k) == TextPlace(w[k], pos[k])
           End(k) == pos[k] + Width(w[k])
<1>1. i \in Nat /\ i >= 1 /\ m \in Nat /\ c \in 0 .. m /\ c \in Nat
  BY DEF Spells, TokensTo
<1>2. ASSUME NEW k \in 1 .. m
      PROVE  /\ pos[k] \in Nat /\ Place(k) \in Nat /\ End(k) \in Nat
             /\ pos[k] <= Place(k) /\ Place(k) < End(k)
             /\ w[k].text \notin Spaces /\ w[k].text \in Letters /\ x[Place(k)] = w[k].text
             /\ w[k].as = "bare" => Place(k) = pos[k]
             /\ w[k].as # "bare" => Place(k) = pos[k] + 1
  BY PlaceFacts
<1>3. \A j, k \in 1 .. m : j < k => End(j) < pos[k]
  BY DEF Spells
<1>4. \A k \in 1 .. m : Covers(w[k], pos[k], i) <=> pos[k] <= i /\ i < End(k)
  BY DEF Covers
<1>5. /\ t.tokens = [k \in 1 .. c |-> <<w[k].text>>]
      /\ \A k \in 1 .. c : End(k) <= i - 1
      /\ begun => /\ c < m /\ t.current = <<w[c + 1].text>>
                  /\ Place(c + 1) <= i - 1 /\ i - 1 < End(c + 1)
      /\ ~begun => t.current = <<>> /\ \A k \in c + 1 .. m : i - 1 < Place(k)
  BY DEF TokensTo
<1>6. /\ i \in q.plain <=> \/ \A k \in 1 .. m : ~Covers(w[k], pos[k], i)
                           \/ \E k \in 1 .. m : w[k].as = "bare" /\ pos[k] = i
      /\ i \in q.literal <=> \E k \in 1 .. m : w[k].as # "bare" /\ pos[k] + 1 = i
  BY DEF PlainAt, LiteralAt
<1>7. t.tokens \in Seq(Seq(Letters)) /\ t.current \in Seq(Letters)
  BY DEF TokenStates
<1> HIDE DEF Place, End
<1>8. CASE \A k \in 1 .. m : ~Covers(w[k], pos[k], i)
  <2>1. x[i] = Space /\ i \in q.plain
    BY <1>6, <1>8 DEF Spells
  <2>2. next = [tokens |-> FlushToken(t), current |-> <<>>]
    BY <2>1, Characters DEF TokenStep
  <2>3. CASE begun
    <3>1. c < m /\ t.current = <<w[c + 1].text>> /\ Place(c + 1) <= i - 1 /\ i - 1 < End(c + 1)
          /\ c + 1 \in 1 .. m
      BY <1>1, <1>5, <2>3
    <3>2. End(c + 1) <= i
      <4>1. ~(pos[c + 1] <= i /\ i < End(c + 1))
        BY <1>4, <1>8, <3>1
      <4>2. pos[c + 1] <= Place(c + 1) /\ pos[c + 1] \in Nat /\ Place(c + 1) \in Nat /\ End(c + 1) \in Nat
        BY <1>2, <3>1
      <4> HIDE DEF next
      <4> QED BY <1>1, <3>1, <4>1, <4>2
    <3>3. FlushToken(t) = [k \in 1 .. c + 1 |-> <<w[k].text>>]
      <4>1. FlushToken(t) = Append(t.tokens, t.current)
        BY <3>1 DEF FlushToken
      <4> DEFINE T(k) == <<w[k].text>>
      <4>2. t.tokens = [k \in 1 .. c |-> T(k)] /\ t.current = T(c + 1)
        BY <1>5, <3>1
      <4>3. \A k \in 1 .. m : T(k) \in Seq(Letters)
        BY <1>2
      <4> HIDE DEF T
      <4>4. Append([k \in 1 .. c |-> T(k)], T(c + 1)) = [k \in 1 .. c + 1 |-> T(k)]
        <5> DEFINE S == Seq(Letters)
                   f == [k \in 1 .. c |-> T(k)]
        <5>1. \A k \in 1 .. m : T(k) \in S
          BY <4>3
        <5> HIDE DEF S
        <5>2. f \in Seq(S) /\ Len(f) = c
          BY <1>1, <5>1
        <5>3. T(c + 1) \in S
          BY <3>1, <5>1
        <5> QED BY <1>1, <5>2, <5>3
      <4> QED BY <4>1, <4>2, <4>4 DEF T
    <3>4. \A k \in 1 .. c + 1 : End(k) <= i
      <4> TAKE k \in 1 .. c + 1
      <4>1. CASE k = c + 1
        BY <3>2, <4>1
      <4>2. CASE k # c + 1
        <5>1. k \in 1 .. c /\ k \in 1 .. m
          BY <1>1, <4>2
        <5>2. End(k) <= i - 1 /\ End(k) \in Nat
          BY <1>2, <1>5, <5>1
        <5> QED BY <1>1, <5>2
      <4> QED BY <4>1, <4>2
    <3>5. \A k \in (c + 1) + 1 .. m : i < Place(k)
      <4> TAKE k \in (c + 1) + 1 .. m
      <4>1. k \in 1 .. m /\ c + 1 < k
        BY <1>1
      <4>2. End(c + 1) < pos[k] /\ pos[k] <= Place(k)
        BY <1>2, <1>3, <3>1, <4>1
      <4>3. i < pos[k]
        BY <1>1, <1>2, <3>1, <4>1, <4>2
      <4> QED BY <1>1, <1>2, <4>1, <4>2, <4>3
    <3>6. next.tokens = [k \in 1 .. c + 1 |-> <<w[k].text>>] /\ next.current = <<>>
          /\ c + 1 \in 0 .. m
      BY <1>1, <2>2, <3>1, <3>3
    <3> HIDE DEF next
    <3>7. TokensTo(next, w, m, pos, i, c + 1, FALSE)
      BY <3>4, <3>5, <3>6 DEF TokensTo, Place, End
    <3> QED BY <3>7 DEF next
  <2>4. CASE ~begun
    <3>1. next.tokens = t.tokens /\ next.current = <<>>
      BY <1>5, <2>2, <2>4 DEF FlushToken
    <3>2. \A k \in c + 1 .. m : i < Place(k)
      <4> TAKE k \in c + 1 .. m
      <4>1. k \in 1 .. m /\ i - 1 < Place(k)
        BY <1>1, <1>5, <2>4
      <4>2. ~(pos[k] <= i /\ i < End(k))
        BY <1>4, <1>8, <4>1
      <4> QED BY <1>1, <1>2, <4>1, <4>2
    <3>3. \A k \in 1 .. c : End(k) <= i
      BY <1>1, <1>2, <1>5
    <3> HIDE DEF next
    <3>4. TokensTo(next, w, m, pos, i, c, FALSE)
      BY <1>1, <1>5, <3>1, <3>2, <3>3 DEF TokensTo, Place, End
    <3> QED BY <3>4 DEF next
  <2> QED BY <2>3, <2>4
<1>9. ASSUME NEW k \in 1 .. m, Covers(w[k], pos[k], i)
      PROVE  \E d : \E on \in BOOLEAN : TokensTo(next, w, m, pos, i, d, on)
  <2>1. \A l \in 1 .. m : Covers(w[l], pos[l], i) => l = k
    BY <1>1, <1>9, OneWord
  <2>2. pos[k] <= i /\ i < End(k) /\ k \in Nat
    BY <1>1, <1>4, <1>9
  <2>3. \A l \in 1 .. m : l < k => End(l) < i
    BY <1>1, <1>2, <1>3, <2>2
  <2>4. \A l \in 1 .. m : k < l => i < pos[l]
    <3> TAKE l \in 1 .. m
    <3> HAVE k < l
    <3>1. End(k) < pos[l]
      BY <1>3
    <3> QED BY <1>1, <1>2, <2>2, <3>1
  <2>5. \A l \in 1 .. m : l <= c => l < k
    <3> TAKE l \in 1 .. m
    <3> HAVE l <= c
    <3>1. End(l) <= i - 1 /\ l \in Nat
      BY <1>1, <1>5
    <3>2. CASE l = k
      BY <1>1, <1>2, <2>2, <3>1, <3>2
    <3>3. CASE k < l
      <4>1. i < pos[l]
        BY <2>4, <3>3
      <4> QED BY <1>1, <1>2, <3>1, <4>1
    <3> QED BY <2>2, <3>1, <3>2, <3>3
  <2>6. c < k
    <3>1. k <= c => k < k
      BY <2>5
    <3> QED BY <1>1, <2>2, <3>1
  <2>7. begun => k = c + 1 /\ i # Place(k)
    <3> HAVE begun
    <3>1. c + 1 \in 1 .. m /\ Place(c + 1) <= i - 1 /\ i - 1 < End(c + 1)
      BY <1>1, <1>5
    <3>2. ~(c + 1 < k)
      <4> SUFFICES ASSUME c + 1 < k PROVE FALSE
        OBVIOUS
      <4>1. End(c + 1) < i
        BY <2>3, <3>1
      <4> QED BY <1>1, <1>2, <3>1, <4>1
    <3>3. k = c + 1
      BY <1>1, <2>2, <2>6, <3>2
    <3> QED BY <1>1, <1>2, <3>1, <3>3
  <2>8. \A l \in 1 .. c : End(l) <= i
    BY <1>1, <1>2, <1>5
  <2>9. CASE i = Place(k)
    <3>1. ~begun
      BY <2>7, <2>9
    <3>2. k = c + 1
      <4> SUFFICES ASSUME c + 1 < k PROVE FALSE
        BY <1>1, <2>2, <2>6
      <4>1. c + 1 \in 1 .. m
        BY <1>1, <2>2
      <4>2. End(c + 1) < i /\ i - 1 < Place(c + 1)
        BY <1>1, <1>5, <2>3, <3>1, <4>1
      <4> QED BY <1>1, <1>2, <4>1, <4>2
    <3>3. i \in q.plain \cup q.literal
      BY <1>2, <1>6, <2>9
    <3>4. x[i] = w[k].text /\ x[i] \notin Spaces
      BY <1>2, <2>9
    <3>5. next = [t EXCEPT !.current = Append(@, x[i])]
      BY <3>3, <3>4 DEF TokenStep
    <3>6. next.tokens = t.tokens /\ next.current = <<w[c + 1].text>>
      <4>1. next.tokens = t.tokens /\ next.current = Append(t.current, x[i]) /\ t.current = <<>>
        BY <1>5, <3>1, <3>5 DEF TokenStates
      <4>2. Append(<<>>, w[k].text) = <<w[k].text>>
        OBVIOUS
      <4> QED BY <3>2, <3>4, <4>1, <4>2
    <3>7. c < m /\ Place(c + 1) <= i /\ i < End(c + 1)
      BY <1>1, <2>2, <2>9, <3>2
    <3> HIDE DEF next
    <3>8. TokensTo(next, w, m, pos, i, c, TRUE)
      BY <1>1, <1>5, <2>8, <3>6, <3>7 DEF TokensTo, Place, End
    <3> QED BY <3>8
  <2>10. CASE i # Place(k)
    <3>1. i \notin q.plain /\ i \notin q.literal
      <4>1. ASSUME NEW l \in 1 .. m
            PROVE  ~(w[l].as = "bare" /\ pos[l] = i) /\ ~(w[l].as # "bare" /\ pos[l] + 1 = i)
        <5>1. CASE l = k
          BY <1>2, <2>10, <5>1
        <5>2. CASE l # k
          <6>1. ~(pos[l] <= i /\ i < End(l))
            BY <1>4, <2>1, <5>2
          <6> QED BY <1>1, <1>2, <6>1
        <5> QED BY <5>1, <5>2
      <4>2. ~(\A l \in 1 .. m : ~Covers(w[l], pos[l], i))
        BY <1>9
      <4> HIDE DEF next
      <4> QED BY <1>6, <4>1, <4>2
    <3>2. next = t
      BY <3>1 DEF TokenStep
    <3> HIDE DEF next
    <3>3. CASE begun
      <4>1. TokensTo(t, w, m, pos, i, c, TRUE)
        <5>1. k = c + 1 /\ c < m /\ t.current = <<w[c + 1].text>> /\ Place(c + 1) <= i
          BY <1>1, <1>2, <1>5, <2>7, <3>3
        <5> QED BY <1>1, <1>5, <2>2, <2>8, <5>1 DEF TokensTo, Place, End
      <4> QED BY <3>2, <4>1
    <3>4. CASE ~begun
      <4>1. \A l \in c + 1 .. m : i < Place(l)
        <5> TAKE l \in c + 1 .. m
        <5>1. l \in 1 .. m /\ i - 1 < Place(l)
          BY <1>1, <1>5, <3>4
        <5>2. i # Place(l)
          <6> SUFFICES ASSUME i = Place(l) PROVE FALSE
            OBVIOUS
          <6>1. l = k
            BY <1>2, <1>4, <2>1, <5>1
          <6> QED BY <2>10, <6>1
        <5> QED BY <1>1, <1>2, <5>1, <5>2
      <4>2. TokensTo(t, w, m, pos, i, c, FALSE)
        BY <1>1, <1>5, <2>8, <3>4, <4>1 DEF TokensTo, Place, End
      <4> QED BY <3>2, <4>2
    <3> QED BY <3>3, <3>4
  <2> QED BY <2>9, <2>10
<1> QED BY <1>8, <1>9

LEMMA TokensOf ==
  ASSUME NEW x, NEW w, NEW m, NEW pos, Spells(x, w, m, pos)
  PROVE  tokenize_command(x) = [k \in 1 .. m |-> <<w[k].text>>]
<1> DEFINE n == Len(x)
           q == Quoting(x)
<1>1. n \in Nat /\ m \in Nat /\ x \in Seq(Letters)
  BY DEF Spells
<1>2. q.plain = PlainAt(x, w, m, pos) /\ q.literal = LiteralAt(x, w, m, pos) /\ ~q.escaping
  BY QuotingOf
<1> HIDE DEF q
<1>3. PICK g : TokenRun(g, x, q, n) /\ Tokens(x, q) = FlushToken(g[n])
  BY <1>1, <1>2, TokensRun
<1> DEFINE Told(i) == \E c : \E begun \in BOOLEAN : TokensTo(g[i], w, m, pos, i, c, begun)
           Good == {i \in 0 .. n : Told(i)}
<1>4. 0 \in Good
  <2>1. g[0] = NoTokens
    BY <1>3 DEF TokenRun
  <2>2. \A k \in 1 .. m : 0 < TextPlace(w[k], pos[k])
    BY PlaceFacts
  <2>3. TokensTo(NoTokens, w, m, pos, 0, 0, FALSE)
    <3>1. <<>> = [k \in 1 .. 0 |-> <<w[k].text>>] /\ 1 .. 0 = {} /\ 0 + 1 = 1
      OBVIOUS
    <3> QED BY <1>1, <2>2, <3>1 DEF TokensTo, NoTokens
  <2>4. Told(0)
    BY <2>1, <2>3
  <2> HIDE DEF Told
  <2> QED BY <1>1, <2>4
<1>5. ASSUME NEW i \in 1 .. n, i - 1 \in Good
      PROVE  i \in Good
  <2>1. g[i] = TokenStep(x, q, g[i - 1], i) /\ i \in 0 .. n /\ g[i - 1] \in TokenStates
    <3>1. i - 1 \in 0 .. n /\ i \in 0 .. n
      BY <1>1
    <3> QED BY <1>3, <3>1 DEF TokenRun
  <2>2. PICK c : \E begun \in BOOLEAN : TokensTo(g[i - 1], w, m, pos, i - 1, c, begun)
    BY <1>5
  <2>3. PICK begun \in BOOLEAN : TokensTo(g[i - 1], w, m, pos, i - 1, c, begun)
    BY <2>2
  <2>4. \E d : \E on \in BOOLEAN : TokensTo(TokenStep(x, q, g[i - 1], i), w, m, pos, i, d, on)
    BY <1>2, <2>1, <2>3, TokensOver
  <2> QED BY <2>1, <2>4
<1>6. Told(n)
  <2> HIDE DEF Told
  <2>1. 0 .. n \subseteq Good
    <3> HIDE DEF Good
    <3> QED BY <1>1, <1>4, <1>5, Inductive
  <2> QED BY <1>1, <2>1
<1>7. PICK c : \E begun \in BOOLEAN : TokensTo(g[n], w, m, pos, n, c, begun)
  BY <1>6
<1>8. PICK begun \in BOOLEAN : TokensTo(g[n], w, m, pos, n, c, begun)
  BY <1>7
<1> DEFINE t == g[n]
<1>9. t.tokens \in Seq(Seq(Letters)) /\ t.current \in Seq(Letters)
  <2>1. t \in TokenStates
    BY <1>1, <1>3 DEF TokenRun
  <2> HIDE DEF t
  <2> QED BY <2>1 DEF TokenStates
<1> HIDE DEF t, n, Good, Told
<1>10. c \in 0 .. m /\ t.tokens = [k \in 1 .. c |-> <<w[k].text>>]
  BY <1>8 DEF TokensTo, t
<1>11. FlushToken(t) = [k \in 1 .. m |-> <<w[k].text>>]
  <2>1. CASE begun
    <3>1. c < m /\ t.current = <<w[c + 1].text>> /\ n < pos[c + 1] + Width(w[c + 1])
      BY <1>8, <2>1 DEF TokensTo, t
    <3>2. c + 1 = m
      <4>1. c + 1 \in 1 .. m /\ m \in 1 .. m
        BY <1>1, <1>10, <3>1
      <4>2. c + 1 < m => pos[c + 1] + Width(w[c + 1]) < pos[m]
        BY <4>1 DEF Spells
      <4>3. pos[m] + Width(w[m]) <= n + 1 /\ Width(w[m]) \in {1, 2, 3} /\ pos[m] \in Nat
        BY <4>1, PlaceFacts DEF n
      <4>4. pos[c + 1] \in Nat /\ Width(w[c + 1]) \in {1, 2, 3}
        BY <4>1, PlaceFacts
      <4> QED BY <1>1, <1>10, <3>1, <4>1, <4>2, <4>3, <4>4
    <3>3. FlushToken(t) = Append(t.tokens, <<w[c + 1].text>>)
      BY <3>1 DEF FlushToken
    <3> DEFINE T(k) == <<w[k].text>>
               S == Seq(Letters)
               f == [k \in 1 .. c |-> T(k)]
    <3>4. \A k \in 1 .. m : T(k) \in S
      BY PlaceFacts
    <3>5. FlushToken(t) = Append(f, T(c + 1))
      BY <1>10, <3>3
    <3> HIDE DEF S, T
    <3>6. f \in Seq(S) /\ Len(f) = c
      BY <1>1, <1>10, <3>2, <3>4
    <3>7. T(c + 1) \in S
      BY <1>1, <1>10, <3>2, <3>4
    <3>8. Append(f, T(c + 1)) = [k \in 1 .. m |-> T(k)]
      BY <1>1, <1>10, <3>2, <3>6, <3>7
    <3> QED BY <3>5, <3>8 DEF T
  <2>2. CASE ~begun
    <3>1. t.current = <<>> /\ \A k \in c + 1 .. m : n < TextPlace(w[k], pos[k])
      BY <1>8, <2>2 DEF TokensTo, t
    <3>2. c = m
      <4> SUFFICES ASSUME c # m PROVE FALSE
        OBVIOUS
      <4>1. m \in c + 1 .. m /\ m \in 1 .. m
        BY <1>1, <1>10
      <4>2. /\ TextPlace(w[m], pos[m]) < pos[m] + Width(w[m]) /\ pos[m] + Width(w[m]) <= n + 1
            /\ TextPlace(w[m], pos[m]) \in Nat /\ Width(w[m]) \in {1, 2, 3} /\ pos[m] \in Nat
        BY <4>1, PlaceFacts DEF n
      <4> QED BY <1>1, <3>1, <4>1, <4>2
    <3> QED BY <1>10, <3>1, <3>2 DEF FlushToken
  <2> QED BY <2>1, <2>2
<1> QED BY <1>3, <1>11 DEF tokenize_command, q, t

(***************************************************************************)
(* Texts that spell words: one word more, a part of one, one put together. *)
(***************************************************************************)
LEMMA Joined ==
  ASSUME NEW S, NEW a \in Seq(S), NEW b \in Seq(S)
  PROVE  /\ a \o b \in Seq(S) /\ Len(a \o b) = Len(a) + Len(b)
         /\ \A k \in 1 .. Len(a) : (a \o b)[k] = a[k]
         /\ \A k \in 1 .. Len(b) : (a \o b)[Len(a) + k] = b[k]
<1>1. a \o b \in Seq(S) /\ Len(a \o b) = Len(a) + Len(b) /\ Len(a) \in Nat /\ Len(b) \in Nat
  OBVIOUS
<1>2. \A k \in 1 .. Len(a) : (a \o b)[k] = a[k]
  OBVIOUS
<1>3. \A k \in 1 .. Len(b) : (a \o b)[Len(a) + k] = b[k]
  <2> TAKE k \in 1 .. Len(b)
  <2>1. Len(a) + k \in 1 .. Len(a) + Len(b) /\ ~(Len(a) + k <= Len(a)) /\ (Len(a) + k) - Len(a) = k
    BY <1>1
  <2> QED BY <1>1, <2>1
<1> QED BY <1>1, <1>2, <1>3

LEMMA PartIs ==
  ASSUME NEW S, NEW x \in Seq(S), NEW p \in Nat \ {0}, NEW r \in Nat, r <= Len(x), p <= r + 1
  PROVE  /\ SubSeq(x, p, r) \in Seq(S) /\ Len(SubSeq(x, p, r)) = r - p + 1
         /\ \A i \in 1 .. Len(SubSeq(x, p, r)) :
              SubSeq(x, p, r)[i] = x[i + p - 1] /\ i + p - 1 \in 1 .. Len(x)
<1>1. Len(x) \in Nat
  OBVIOUS
<1> QED BY <1>1

(* The places of a word are places of the text.                            *)
LEMMA Inside ==
  ASSUME NEW p \in Nat, p >= 1, NEW d \in {1, 2, 3}, NEW n \in Nat, p + d <= n + 1,
         NEW i \in 0 .. d - 1
  PROVE  p + i \in 1 .. n
<1>1. i \in Nat /\ i < d /\ d \in Nat
  OBVIOUS
<1> QED BY ONLY <1>1, p \in Nat, p >= 1, n \in Nat, p + d <= n + 1

LEMMA SpelledAlike ==
  ASSUME NEW x, NEW y, NEW word, IsWord(word), NEW p \in Nat, NEW r \in Nat, SpelledAt(x, word, p),
         \A i \in 0 .. Width(word) - 1 : y[r + i] = x[p + i]
  PROVE  SpelledAt(y, word, r)
<1>1. word.as = "bare" => Width(word) = 1
  BY WordFacts
<1>2. word.as = "escaped" => Width(word) = 2
  BY WordFacts
<1>3. word.as \in {"bare", "escaped"} \cup QuoteMarks /\ (word.as \in QuoteMarks => Width(word) = 3)
  BY WordFacts
<1>4. CASE word.as = "bare"
  <2>1. y[r + 0] = x[p + 0] /\ r + 0 = r /\ p + 0 = p
    BY <1>1, <1>4
  <2>2. y[r] = x[p]
    BY <2>1
  <2> QED BY <1>4, <2>2 DEF SpelledAt
<1>5. CASE word.as = "escaped"
  <2>1. y[r + 0] = x[p + 0] /\ y[r + 1] = x[p + 1] /\ r + 0 = r /\ p + 0 = p
    BY <1>2, <1>5
  <2>2. y[r] = x[p] /\ y[r + 1] = x[p + 1]
    BY <2>1
  <2> QED BY <1>5, <2>2 DEF SpelledAt
<1>6. CASE word.as \in QuoteMarks
  <2>1. /\ y[r + 0] = x[p + 0] /\ y[r + 1] = x[p + 1] /\ y[r + 2] = x[p + 2]
        /\ r + 0 = r /\ p + 0 = p
    BY <1>3, <1>6
  <2>2. y[r] = x[p] /\ y[r + 1] = x[p + 1] /\ y[r + 2] = x[p + 2]
    BY <2>1
  <2>3. word.as # "bare" /\ word.as # "escaped"
    BY <1>6, Characters
  <2> QED BY <2>2, <2>3 DEF SpelledAt
<1> QED BY <1>3, <1>4, <1>5, <1>6

LEMMA SpellMore ==
  ASSUME NEW x, NEW w, NEW m, NEW pos, Spells(x, w, m, pos), NEW y \in Seq(Letters), NEW p \in Nat \ {0},
         IsWord(w[m + 1]), SpelledAt(y, w[m + 1], p), Len(y) = p + Width(w[m + 1]) - 1,
         Len(x) < p, m > 0 => Len(x) + 1 < p,
         \A i \in 1 .. Len(x) : y[i] = x[i], \A i \in Len(x) + 1 .. p - 1 : y[i] = Space
  PROVE  \E to : Spells(y, w, m + 1, to)
<1> DEFINE to == [k \in 1 .. m + 1 |-> IF k = m + 1 THEN p ELSE pos[k]]
<1>1. m \in Nat /\ Len(x) \in Nat /\ Len(y) \in Nat /\ Width(w[m + 1]) \in {1, 2, 3}
  BY WordFacts DEF Spells
<1>2. \A k \in 1 .. m : /\ pos[k] \in Nat \ {0} /\ IsWord(w[k]) /\ SpelledAt(x, w[k], pos[k])
                        /\ pos[k] + Width(w[k]) <= Len(x) + 1
  BY DEF Spells
<1>3. \A k \in 1 .. m : Width(w[k]) \in {1, 2, 3}
  BY <1>2, WordFacts
<1>4. /\ \A k \in 1 .. m : to[k] = pos[k]
      /\ to[m + 1] = p
      /\ \A k \in 1 .. m + 1 : k \in 1 .. m \/ k = m + 1
      /\ m + 1 \in 1 .. m + 1
  BY <1>1
<1>5. to \in [1 .. m + 1 -> Nat \ {0}]
  <2>1. \A k \in 1 .. m + 1 : (IF k = m + 1 THEN p ELSE pos[k]) \in Nat \ {0}
    BY <1>2, <1>4
  <2> QED BY <2>1
<1> HIDE DEF to
<1>6. ASSUME NEW k \in 1 .. m + 1
      PROVE  /\ IsWord(w[k]) /\ SpelledAt(y, w[k], to[k])
             /\ to[k] + Width(w[k]) <= Len(y) + 1
  <2>1. CASE k \in 1 .. m
    <3>1. \A i \in 0 .. Width(w[k]) - 1 : y[pos[k] + i] = x[pos[k] + i]
      <4> TAKE i \in 0 .. Width(w[k]) - 1
      <4>1. /\ pos[k] \in Nat /\ pos[k] >= 1 /\ Width(w[k]) \in {1, 2, 3}
            /\ pos[k] + Width(w[k]) <= Len(x) + 1
        BY <1>2, <1>3, <2>1
      <4>2. pos[k] + i \in 1 .. Len(x)
        <5>1. Len(x) \in Nat
          BY <1>1
        <5> QED BY <4>1, <5>1, Inside
      <4> QED BY <4>2
    <3>2. SpelledAt(y, w[k], pos[k])
      BY <1>2, <2>1, <3>1, SpelledAlike
    <3>3. /\ pos[k] \in Nat /\ Width(w[k]) \in {1, 2, 3} /\ IsWord(w[k])
          /\ pos[k] + Width(w[k]) <= Len(x) + 1 /\ to[k] = pos[k]
      BY <1>2, <1>3, <1>4, <2>1
    <3>4. pos[k] + Width(w[k]) <= Len(y) + 1
      BY SMTT(30), <1>1, <3>3
    <3> QED BY <3>2, <3>3, <3>4
  <2>2. CASE k = m + 1
    BY <1>1, <1>4, <2>2
  <2> QED BY <1>4, <2>1, <2>2
<1>7. ASSUME NEW j \in 1 .. m + 1, NEW k \in 1 .. m + 1, j < k
      PROVE  to[j] + Width(w[j]) < to[k]
  <2>1. CASE k \in 1 .. m
    <3>1. j \in 1 .. m /\ pos[j] + Width(w[j]) < pos[k]
      BY <1>1, <1>7, <2>1 DEF Spells
    <3> QED BY <1>4, <2>1, <3>1
  <2>2. CASE k = m + 1
    <3>1. j \in 1 .. m /\ m > 0
      BY <1>1, <1>7, <2>2
    <3>2. /\ pos[j] \in Nat /\ Width(w[j]) \in {1, 2, 3} /\ pos[j] + Width(w[j]) <= Len(x) + 1
          /\ to[j] = pos[j] /\ to[k] = p
      BY <1>2, <1>3, <1>4, <2>2, <3>1
    <3> QED BY <1>1, <3>1, <3>2
  <2> QED BY <1>4, <2>1, <2>2
<1>8. ASSUME NEW i \in 1 .. Len(y), \A k \in 1 .. m + 1 : ~Covers(w[k], to[k], i)
      PROVE  y[i] = Space
  <2>1. CASE i <= Len(x)
    <3>1. i \in 1 .. Len(x)
      BY <1>1, <2>1
    <3>2. \A k \in 1 .. m : ~Covers(w[k], pos[k], i)
      <4> TAKE k \in 1 .. m
      <4>1. ~Covers(w[k], to[k], i)
        BY <1>1, <1>8
      <4> QED BY <1>4, <4>1
    <3> QED BY <3>1, <3>2 DEF Spells
  <2>2. CASE i > Len(x)
    <3>1. ~(p <= i /\ i < p + Width(w[m + 1]))
      BY <1>4, <1>8 DEF Covers
    <3>2. i \in Len(x) + 1 .. p - 1
      BY <1>1, <2>2, <3>1
    <3> QED BY <3>2
  <2> QED BY <1>1, <2>1, <2>2
<1>9. Spells(y, w, m + 1, to)
  BY <1>1, <1>5, <1>6, <1>7, <1>8 DEF Spells
<1> QED BY <1>9

LEMMA SpellPart ==
  ASSUME NEW x, NEW w, NEW m, NEW pos, Spells(x, w, m, pos),
         NEW c \in Nat, NEW e \in Nat, c + e <= m,
         NEW p \in Nat \ {0}, NEW r \in Nat, r <= Len(x), p <= r + 1,
         Within(w, m, pos, c, e, p, r), NEW v, Follow(v, w, c, e)
  PROVE  /\ \E to : Spells(SubSeq(x, p, r), v, e, to)
         /\ Len(SubSeq(x, p, r)) = r - p + 1
<1> DEFINE y == SubSeq(x, p, r)
           to == [k \in 1 .. e |-> pos[c + k] - p + 1]
<1>1. m \in Nat /\ Len(x) \in Nat /\ x \in Seq(Letters)
  BY DEF Spells
<1>2. /\ y \in Seq(Letters) /\ Len(y) = r - p + 1
      /\ \A i \in 1 .. Len(y) : y[i] = x[i + p - 1] /\ i + p - 1 \in 1 .. Len(x)
  BY <1>1, PartIs
<1>3. \A k \in 1 .. e : v[k] = w[c + k] /\ to[k] = pos[c + k] - p + 1 /\ c + k \in 1 .. m
  BY <1>1 DEF Follow
<1>4. \A k \in 1 .. m : /\ pos[k] \in Nat \ {0} /\ IsWord(w[k]) /\ SpelledAt(x, w[k], pos[k])
                        /\ pos[k] + Width(w[k]) <= Len(x) + 1
  BY DEF Spells
<1>5. \A k \in 1 .. m : Width(w[k]) \in {1, 2, 3}
  BY <1>4, WordFacts
<1>6. to \in [1 .. e -> Nat \ {0}]
  <2>1. \A k \in 1 .. e : pos[c + k] - p + 1 \in Nat \ {0}
    <3> TAKE k \in 1 .. e
    <3>1. c + k \in 1 .. m /\ c < c + k /\ c + k <= c + e
      BY <1>1
    <3>2. p <= pos[c + k] /\ pos[c + k] \in Nat
      BY <1>4, <3>1 DEF Within
    <3> QED BY <3>2
  <2> QED BY <2>1
<1> HIDE DEF y, to
<1>7. ASSUME NEW k \in 1 .. e
      PROVE  IsWord(v[k]) /\ SpelledAt(y, v[k], to[k]) /\ to[k] + Width(v[k]) <= Len(y) + 1
  <2> DEFINE l == c + k
  <2>1. l \in 1 .. m /\ c < l /\ l <= c + e /\ v[k] = w[l] /\ to[k] = pos[l] - p + 1
    BY <1>1, <1>3
  <2>2. p <= pos[l] /\ pos[l] + Width(w[l]) <= r + 1 /\ pos[l] \in Nat /\ Width(w[l]) \in {1, 2, 3}
        /\ IsWord(w[l]) /\ SpelledAt(x, w[l], pos[l])
    BY <1>4, <1>5, <2>1 DEF Within
  <2> HIDE DEF l
  <2>3. \A i \in 0 .. Width(w[l]) - 1 : y[to[k] + i] = x[pos[l] + i]
    <3> TAKE i \in 0 .. Width(w[l]) - 1
    <3>1. Len(y) = r - p + 1 /\ to[k] = pos[l] - p + 1 /\ i \in Nat /\ i < Width(w[l])
      BY SMTT(30), <1>2, <2>1, <2>2
    <3> DEFINE a == pos[l]
               d == Width(w[l])
    <3>2. a \in Nat /\ d \in {1, 2, 3} /\ p <= a /\ a + d <= r + 1 /\ i < d
      BY <2>2, <3>1
    <3> HIDE DEF a, d
    <3>3. (a - p + 1) + i \in 1 .. r - p + 1 /\ ((a - p + 1) + i) + p - 1 = a + i
      <4>1. a \in Nat /\ i \in Nat /\ p \in Nat /\ r \in Nat /\ p <= a /\ a + i <= r
        BY <3>1, <3>2
      <4> QED BY ONLY <4>1
    <3>4. to[k] + i \in 1 .. Len(y) /\ (to[k] + i) + p - 1 = pos[l] + i
      BY <3>1, <3>3 DEF a
    <3> QED BY <1>2, <3>4
  <2>4. to[k] \in Nat
    BY <1>6
  <2>5. SpelledAt(y, w[l], to[k])
    BY <2>2, <2>3, <2>4, SpelledAlike
  <2>6. Len(y) = r - p + 1
    BY <1>2
  <2>7. to[k] + Width(w[l]) <= Len(y) + 1
    <3> DEFINE a == pos[l]
               d == Width(w[l])
    <3>1. a \in Nat /\ d \in {1, 2, 3} /\ a + d <= r + 1
      BY <2>2
    <3> HIDE DEF a, d
    <3>2. (a - p + 1) + d <= (r - p + 1) + 1
      BY <3>1
    <3> QED BY <2>1, <2>6, <3>2 DEF a, d
  <2> QED BY <2>1, <2>2, <2>5, <2>7
<1>8. ASSUME NEW j \in 1 .. e, NEW k \in 1 .. e, j < k
      PROVE  to[j] + Width(v[j]) < to[k]
  <2>1. c + j \in 1 .. m /\ c + k \in 1 .. m /\ c + j < c + k
    <3> j \in Nat /\ k \in Nat /\ c + j < c + k
      BY <1>8
    <3> QED BY <1>3
  <2>2. pos[c + j] + Width(w[c + j]) < pos[c + k] /\ pos[c + j] \in Nat /\ pos[c + k] \in Nat
        /\ Width(w[c + j]) \in {1, 2, 3}
    BY <1>4, <1>5, <2>1 DEF Spells
  <2>3. v[j] = w[c + j] /\ to[j] = pos[c + j] - p + 1 /\ to[k] = pos[c + k] - p + 1
    BY <1>3
  <2> DEFINE a == pos[c + j]
             b == pos[c + k]
             d == Width(w[c + j])
  <2>4. a \in Nat /\ b \in Nat /\ d \in {1, 2, 3} /\ a + d < b
    BY <2>2
  <2> HIDE DEF a, b, d
  <2>5. (a - p + 1) + d < b - p + 1
    BY <2>4
  <2> QED BY <2>3, <2>5 DEF a, b, d
<1>9. ASSUME NEW i \in 1 .. Len(y), \A k \in 1 .. e : ~Covers(v[k], to[k], i)
      PROVE  y[i] = Space
  <2> DEFINE o == i + p - 1
  <2>1. o \in 1 .. Len(x) /\ y[i] = x[o] /\ p <= o /\ o <= r
    BY <1>2
  <2>2. ASSUME NEW k \in 1 .. m
        PROVE  ~Covers(w[k], pos[k], o)
    <3>1. pos[k] \in Nat /\ Width(w[k]) \in {1, 2, 3}
      BY <1>4, <1>5
    <3>2. CASE k <= c
      BY SMTT(30), <2>1, <3>1, <3>2 DEF Covers, Within
    <3>3. CASE c + e < k
      BY <2>1, <3>1, <3>3 DEF Covers, Within
    <3>4. CASE c < k /\ k <= c + e
      <4>1. k - c \in 1 .. e /\ c + (k - c) = k
        BY <3>4
      <4>2. v[k - c] = w[k] /\ to[k - c] = pos[k] - p + 1 /\ ~Covers(v[k - c], to[k - c], i)
        BY <1>3, <1>9, <4>1
      <4>3. ~(pos[k] - p + 1 <= i /\ i < (pos[k] - p + 1) + Width(w[k]))
        BY <4>2 DEF Covers
      <4>4. o = i + p - 1 /\ i \in Int
        BY <1>2
      <4> HIDE DEF o
      <4>5. ~(pos[k] <= o /\ o < pos[k] + Width(w[k]))
        BY SMTT(30), <3>1, <4>3, <4>4
      <4> QED BY <4>5 DEF Covers
    <3> QED BY <3>2, <3>3, <3>4
  <2> QED BY <2>1, <2>2 DEF Spells
<1>10. Spells(y, v, e, to)
  BY <1>2, <1>6, <1>7, <1>8, <1>9 DEF Spells
<1> QED BY <1>2, <1>10 DEF y

(* Sequences put together one by one.                                      *)
LEMMA Flattened ==
  ASSUME NEW S, NEW u \in Seq(Seq(S)), Len(u) > 0
  PROVE  \E f \in [1 .. Len(u) -> Seq(S)] :
           /\ f[1] = u[1] /\ \A i \in 2 .. Len(u) : f[i] = f[i - 1] \o u[i]
           /\ FlattenSeq(u) = f[Len(u)]
<1> DEFINE n == Len(u)
           A == Seq(S)
           F == [z \in A \X (1 .. n) |-> IF z[2] = 1 THEN u[1] ELSE z[1] \o u[z[2]]]
           Flat(g) == g = [i \in 1 .. n |-> IF i = 1 THEN u[i] ELSE g[i - 1] \o u[i]]
           f == CHOOSE g : Flat(g)
<1>1. n \in Nat /\ n >= 1 /\ \A i \in 1 .. n : u[i] \in A
  OBVIOUS
<1>2. \A a \in A : \A i \in 1 .. n : (IF i = 1 THEN u[1] ELSE a \o u[i]) \in A
  <2>1. \A a, b \in A : a \o b \in A
    OBVIOUS
  <2> HIDE DEF A
  <2> QED BY <1>1, <2>1
<1>3. FlattenSeq(u) = f[n]
  <2>1. Len(u) # 0
    BY <1>1
  <2> QED BY <2>1, Zenon DEF FlattenSeq
<1>4. <<>> \in A
  OBVIOUS
<1> HIDE DEF A
<1>5. \A a \in A : \A i \in 1 .. n : F[<<a, i>>] = IF i = 1 THEN u[1] ELSE a \o u[i]
  OBVIOUS
<1> HIDE DEF F, n
<1>6. PICK it \in [SUBSET (1 .. n) -> A] : Folds(it, n, <<>>, F)
  <2>1. \A a \in A : \A i \in 1 .. n : F[<<a, i>>] \in A
    BY <1>2, <1>5
  <2> QED BY <1>1, <1>4, <2>1, FoldIn
<1> DEFINE g == [i \in 1 .. n |-> it[1 .. i]]
<1>7. ASSUME NEW i \in 1 .. n
      PROVE  it[1 .. i] = (IF i = 1 THEN u[i] ELSE it[1 .. i - 1] \o u[i]) /\ it[1 .. i] \in A
  <2>1. /\ 1 .. i \in SUBSET (1 .. n) /\ 1 .. i # {} /\ 1 .. i - 1 \in SUBSET (1 .. n)
        /\ Max(1 .. i) = i /\ (1 .. i) \ {i} = 1 .. i - 1
    BY <1>1, PrefixPlaces
  <2>2. it[1 .. i] = F[<<it[1 .. i - 1], i>>] /\ it[1 .. i - 1] \in A /\ it[1 .. i] \in A
    BY <1>6, <2>1 DEF Folds
  <2> QED BY <1>5, <2>2
<1>8. Flat(g)
  <2>1. \A i \in 1 .. n : it[1 .. i] = IF i = 1 THEN u[i] ELSE g[i - 1] \o u[i]
    <3> TAKE i \in 1 .. n
    <3>1. i # 1 => g[i - 1] = it[1 .. i - 1]
      BY <1>1
    <3> QED BY <1>7, <3>1
  <2> QED BY <2>1
<1> HIDE DEF g
<1>9. Flat(f)
  BY <1>8
<1> HIDE DEF f
<1>10. f = [i \in 1 .. n |-> IF i = 1 THEN u[i] ELSE f[i - 1] \o u[i]]
  BY <1>9
<1> DEFINE Good == {i \in 0 .. n : i = 0 \/ f[i] \in A}
<1>11. \A i \in 1 .. n : f[i] \in A
  <2>1. 0 \in Good
    BY <1>1
  <2>2. \A i \in 1 .. n : i - 1 \in Good => i \in Good
    <3> TAKE i \in 1 .. n
    <3> HAVE i - 1 \in Good
    <3>1. f[i] = IF i = 1 THEN u[1] ELSE f[i - 1] \o u[i]
      BY <1>10
    <3>2. i # 1 => f[i - 1] \in A
      BY <1>1
    <3>3. f[i] \in A
      BY <1>1, <1>2, <3>1, <3>2
    <3> QED BY <1>1, <3>3
  <2>3. 0 .. n \subseteq Good
    <3> HIDE DEF Good
    <3> QED BY <1>1, <2>1, <2>2, Inductive
  <2> QED BY <1>1, <2>3
<1> HIDE DEF Good
<1>12. f \in [1 .. n -> A]
  <2>1. f = [i \in 1 .. n |-> f[i]]
    BY <1>10
  <2> QED BY <1>11, <2>1
<1>13. f[1] = u[1] /\ \A i \in 2 .. n : f[i] = f[i - 1] \o u[i]
  <2>1. \A i \in 2 .. n : i \in 1 .. n /\ i # 1
    OBVIOUS
  <2>2. \A i \in 1 .. n : f[i] = IF i = 1 THEN u[i] ELSE f[i - 1] \o u[i]
    BY <1>10
  <2> HIDE DEF A, Flat
  <2>3. f[1] = u[1]
    BY <1>1, <2>2
  <2> QED BY <2>1, <2>2, <2>3
<1> QED BY <1>3, <1>12, <1>13 DEF A, n

LEMMA WrittenAsIs ==
  ASSUME NEW word, IsWord(word)
  PROVE  /\ WrittenAs(word) \in Seq(Letters) /\ Len(WrittenAs(word)) = Width(word)
         /\ SpelledAt(WrittenAs(word), word, 1)
<1>1. word.as \in {"bare", "escaped"} \cup QuoteMarks /\ word.text \in Letters
  BY WordFacts
<1>2. CASE word.as = "bare"
  <2>1. WrittenAs(word) = <<word.text>> /\ Width(word) = 1
    BY <1>2, WordFacts DEF WrittenAs
  <2>2. SpelledAt(WrittenAs(word), word, 1)
    BY <1>2, <2>1 DEF SpelledAt
  <2> QED BY <1>1, <2>1, <2>2
<1>3. CASE word.as = "escaped"
  <2>1. WrittenAs(word) = <<"\\", word.text>> /\ Width(word) = 2 /\ "\\" \in Letters
    BY <1>3, Characters, WordFacts DEF WrittenAs
  <2>2. SpelledAt(WrittenAs(word), word, 1)
    BY <1>3, <2>1 DEF SpelledAt
  <2> QED BY <1>1, <2>1, <2>2
<1>4. CASE word.as \in QuoteMarks
  <2>1. word.as # "bare" /\ word.as # "escaped" /\ Width(word) = 3 /\ word.as \in Letters
    BY <1>4, Characters, WordFacts DEF IsWord
  <2>2. WrittenAs(word) = <<word.as, word.text, word.as>>
    BY <2>1 DEF WrittenAs
  <2> QED BY <1>1, <2>1, <2>2 DEF SpelledAt
<1> QED BY <1>1, <1>2, <1>3, <1>4

LEMMA WrittenOutSpells ==
  ASSUME NEW w, NEW m \in Nat, DOMAIN w = 1 .. m, w \in Seq({w[k] : k \in 1 .. m}),
         \A k \in 1 .. m : IsWord(w[k])
  PROVE  \E pos : Spells(WrittenOut(w), w, m, pos)
<1> DEFINE Bit(k) == (IF k = 1 THEN <<>> ELSE <<Space>>) \o WrittenAs(w[k])
           u == [k \in 1 .. m |-> Bit(k)]
<1>1. WrittenOut(w) = FlattenSeq(u)
  BY Zenon DEF WrittenOut
<1>2. \A k \in 1 .. m : /\ WrittenAs(w[k]) \in Seq(Letters) /\ Len(WrittenAs(w[k])) = Width(w[k])
                        /\ SpelledAt(WrittenAs(w[k]), w[k], 1) /\ Width(w[k]) \in {1, 2, 3}
  BY WrittenAsIs, WordFacts
<1>3. Space \in Letters
  BY Characters
<1>4. \A k \in 1 .. m : Bit(k) \in Seq(Letters)
  <2> TAKE k \in 1 .. m
  <2> DEFINE z == WrittenAs(w[k])
  <2>1. z \in Seq(Letters) /\ <<>> \in Seq(Letters) /\ <<Space>> \in Seq(Letters)
    BY <1>2, <1>3
  <2> HIDE DEF z
  <2>2. (IF k = 1 THEN <<>> ELSE <<Space>>) \o z \in Seq(Letters)
    BY <2>1
  <2> QED BY <2>2 DEF z
<1>5. u \in Seq(Seq(Letters)) /\ Len(u) = m
  <2> DEFINE T == Seq(Letters)
  <2>1. \A k \in 1 .. m : Bit(k) \in T
    BY <1>4
  <2> HIDE DEF T, Bit
  <2>2. u \in Seq(T) /\ Len(u) = m
    BY <2>1
  <2> QED BY <2>2 DEF T
<1>6. CASE m = 0
  <2>1. FlattenSeq(u) = u /\ u = <<>>
    BY <1>5, <1>6 DEF FlattenSeq
  <2>2. Spells(<<>>, w, 0, <<>>)
    BY DEF Spells
  <2> QED BY <1>1, <1>6, <2>1, <2>2
<1>7. CASE m > 0
  <2>0. \A k \in 1 .. m : u[k] = Bit(k)
    OBVIOUS
  <2> HIDE DEF u
  <2>1. PICK f \in [1 .. m -> Seq(Letters)] :
           /\ f[1] = u[1] /\ \A i \in 2 .. m : f[i] = f[i - 1] \o u[i]
           /\ FlattenSeq(u) = f[m]
    BY <1>5, <1>7, Flattened
  <2> DEFINE Spelled(i) == \E pos : Spells(f[i], w, i, pos)
             Good == {i \in 0 .. m : i = 0 \/ Spelled(i)}
  <2>2. 0 \in Good
    BY <1>7
  <2>3. ASSUME NEW i \in 1 .. m, i - 1 \in Good
        PROVE  i \in Good
    <3>1. CASE i = 1
      <4>1. f[1] = <<>> \o WrittenAs(w[1])
        <5>1. f[1] = Bit(1) /\ Bit(1) = <<>> \o WrittenAs(w[1])
          <6>1. 1 \in 1 .. m /\ f[1] = u[1]
            BY <1>7, <2>1
          <6> HIDE DEF Good, Spelled
          <6> QED BY <2>0, <6>1
        <5> QED BY <5>1
      <4>2. f[1] = WrittenAs(w[1])
        <5>1. WrittenAs(w[1]) \in Seq(Letters)
          BY <1>2, <1>7
        <5> QED BY <4>1, <5>1
      <4>3. Spells(<<>>, w, 0, <<>>)
        BY DEF Spells
      <4> DEFINE y == f[1]
      <4>4. /\ y \in Seq(Letters) /\ IsWord(w[0 + 1]) /\ SpelledAt(y, w[0 + 1], 1)
            /\ Len(y) = 1 + Width(w[0 + 1]) - 1
        BY <1>2, <1>7, <4>2
      <4> HIDE DEF y
      <4>5. \E to : Spells(y, w, 0 + 1, to)
        <5>1. Len(<<>>) = 0 /\ 1 \in Nat \ {0} /\ 0 + 1 = 1
          OBVIOUS
        <5>2. /\ \A j \in 1 .. Len(<<>>) : y[j] = <<>>[j]
              /\ \A j \in Len(<<>>) + 1 .. 1 - 1 : y[j] = Space
          OBVIOUS
        <5>3. Len(<<>>) < 1 /\ ~(0 > 0)
          OBVIOUS
        <5> DEFINE x == <<>>
        <5>4. Spells(x, w, 0, x) /\ Len(x) < 1 /\ (0 > 0 => Len(x) + 1 < 1)
          BY <4>3, <5>3
        <5>5. /\ \A j \in 1 .. Len(x) : y[j] = x[j]
              /\ \A j \in Len(x) + 1 .. 1 - 1 : y[j] = Space
          BY <5>2
        <5> HIDE DEF x
        <5> QED BY <4>4, <5>1, <5>4, <5>5, SpellMore
      <4>6. Spelled(1)
        <5>1. 0 + 1 = 1
          OBVIOUS
        <5> QED BY <4>5, <5>1 DEF y
      <4> HIDE DEF Spelled
      <4> QED BY <1>7, <3>1, <4>6
    <3>2. CASE i # 1
      <4> DEFINE j == i - 1
                 x == f[j]
                 y == f[i]
                 p == Len(x) + 2
                 z == WrittenAs(w[i])
      <4>1. j \in 1 .. m /\ j + 1 = i /\ j > 0 /\ i \in 2 .. m
        BY <3>2
      <4>2. y = x \o u[i] /\ u[i] = <<Space>> \o z /\ x \in Seq(Letters) /\ y \in Seq(Letters)
        BY <2>0, <2>1, <3>2, <4>1
      <4>3. Spelled(j)
        BY <2>3, <4>1
      <4>4. PICK pos : Spells(x, w, j, pos)
        BY <4>3
      <4>5. z \in Seq(Letters) /\ Len(z) = Width(w[i]) /\ SpelledAt(z, w[i], 1) /\ Len(z) \in {1, 2, 3}
            /\ IsWord(w[i])
        BY <1>2
      <4> HIDE DEF x, y, z, j, Spelled
      <4>6. /\ Len(y) = Len(x) + 1 + Len(z)
            /\ \A k \in 1 .. Len(x) : y[k] = x[k]
            /\ y[Len(x) + 1] = Space
            /\ \A k \in 1 .. Len(z) : y[Len(x) + 1 + k] = z[k]
        <5> DEFINE v == <<Space>> \o z
        <5>1. v \in Seq(Letters) /\ Len(v) = 1 + Len(z) /\ v[1] = Space
              /\ \A k \in 1 .. Len(z) : v[1 + k] = z[k]
          <6>1. <<Space>> \in Seq(Letters) /\ Len(<<Space>>) = 1 /\ <<Space>>[1] = Space
            BY <1>3
          <6> HIDE DEF p
          <6> DEFINE b == <<Space>>
          <6>2. b \in Seq(Letters) /\ Len(b) = 1 /\ b[1] = Space
            BY <6>1
          <6> HIDE DEF b
          <6>3. /\ b \o z \in Seq(Letters) /\ Len(b \o z) = Len(b) + Len(z)
                /\ \A k \in 1 .. Len(b) : (b \o z)[k] = b[k]
                /\ \A k \in 1 .. Len(z) : (b \o z)[Len(b) + k] = z[k]
            <7>1. b \in Seq(Letters) /\ z \in Seq(Letters)
              BY <4>5, <6>2
            <7>2. b \o z \in Seq(Letters) /\ Len(b \o z) = Len(b) + Len(z)
              BY <7>1, Joined
            <7>3. \A k \in 1 .. Len(b) : (b \o z)[k] = b[k]
              BY <7>1, Joined
            <7>4. \A k \in 1 .. Len(z) : (b \o z)[Len(b) + k] = z[k]
              BY <7>1, Joined
            <7> QED BY <7>2, <7>3, <7>4
          <6>4. (b \o z)[1] = Space /\ \A k \in 1 .. Len(z) : (b \o z)[1 + k] = z[k]
            BY <6>2, <6>3
          <6> QED BY <6>2, <6>3, <6>4 DEF b
        <5>2. y = x \o v
          BY <4>2
        <5> HIDE DEF v
        <5> HIDE DEF p
        <5>8. x \in Seq(Letters) /\ v \in Seq(Letters)
          BY <4>2, <5>1
        <5>9. /\ Len(x \o v) = Len(x) + Len(v)
              /\ \A k \in 1 .. Len(x) : (x \o v)[k] = x[k]
              /\ \A k \in 1 .. Len(v) : (x \o v)[Len(x) + k] = v[k]
          <6> HIDE DEF z
          <6>1. Len(x \o v) = Len(x) + Len(v)
            BY <5>8, Joined
          <6>2. \A k \in 1 .. Len(x) : (x \o v)[k] = x[k]
            BY <5>8, Joined
          <6>3. \A k \in 1 .. Len(v) : (x \o v)[Len(x) + k] = v[k]
            BY <5>8, Joined
          <6> QED BY <6>1, <6>2, <6>3
        <5>3. \A k \in 1 .. Len(v) : y[Len(x) + k] = v[k]
          BY <5>2, <5>9
        <5>4. Len(y) = Len(x) + Len(v) /\ \A k \in 1 .. Len(x) : y[k] = x[k]
          BY <5>2, <5>9
        <5>5. y[Len(x) + 1] = v[1]
          <6>1. 1 \in 1 .. Len(v)
            BY <4>5, <5>1
          <6> QED BY <5>3, <6>1
        <5>6. \A k \in 1 .. Len(z) : y[Len(x) + 1 + k] = v[1 + k]
          <6> TAKE k \in 1 .. Len(z)
          <6>1. 1 + k \in 1 .. Len(v) /\ Len(x) + (1 + k) = Len(x) + 1 + k
            BY <4>2, <4>5, <5>1
          <6> QED BY <5>3, <6>1
        <5>7. Len(y) = Len(x) + 1 + Len(z)
          <6>1. Len(x) \in Nat /\ Len(z) \in Nat
            BY <4>2, <4>5
          <6> QED BY <5>1, <5>4, <6>1
        <5> QED BY <5>1, <5>4, <5>5, <5>6, <5>7
      <4>7. SpelledAt(y, w[i], p)
        <5>1. \A k \in 0 .. Width(w[i]) - 1 : y[p + k] = z[1 + k]
          <6> TAKE k \in 0 .. Width(w[i]) - 1
          <6>1. 1 + k \in 1 .. Len(z) /\ Len(x) + 1 + (1 + k) = p + k
            BY <4>2, <4>5
          <6> QED BY <4>6, <6>1
        <5>2. p \in Nat
          BY <4>2
        <5>3. 1 \in Nat /\ IsWord(w[i]) /\ SpelledAt(z, w[i], 1)
          BY <4>5
        <5> HIDE DEF p
        <5> QED BY <5>1, <5>2, <5>3, SpelledAlike
      <4> DEFINE l == Len(x)
      <4>11. l \in Nat /\ p = l + 2 /\ Len(y) = l + 1 + Len(z) /\ Len(z) = Width(w[i])
            /\ Len(z) \in {1, 2, 3}
        BY <4>2, <4>5, <4>6
      <4>8. /\ p \in Nat \ {0} /\ Len(y) = p + Width(w[i]) - 1 /\ Len(x) < p /\ Len(x) + 1 < p
            /\ \A k \in Len(x) + 1 .. p - 1 : k = Len(x) + 1
        <5> HIDE DEF l, p
        <5>1. /\ p \in Nat \ {0} /\ Len(y) = p + Width(w[i]) - 1 /\ l < p /\ l + 1 < p
              /\ \A k \in l + 1 .. p - 1 : k = l + 1
          BY <4>11
        <5> QED BY <5>1 DEF l
      <4>9. \E to : Spells(y, w, j + 1, to)
        <5> HIDE DEF p
        <5>1. \A k \in Len(x) + 1 .. p - 1 : y[k] = Space
          BY <4>6, <4>8
        <5>2. w[j + 1] = w[i]
          BY <4>1
        <5>3. IsWord(w[j + 1]) /\ SpelledAt(y, w[j + 1], p) /\ Len(y) = p + Width(w[j + 1]) - 1
          BY <4>5, <4>7, <4>8, <5>2
        <5>4. j > 0 => Len(x) + 1 < p
          BY <4>8
        <5> QED BY <4>2, <4>4, <4>6, <4>8, <5>1, <5>3, <5>4, SpellMore
      <4>10. Spelled(i)
        BY <4>1, <4>9 DEF Spelled, y
      <4> QED BY <4>10
    <3> QED BY <3>1, <3>2
  <2>4. Spelled(m)
    <3> HIDE DEF Spelled
    <3>1. 0 .. m \subseteq Good
      <4> HIDE DEF Good
      <4> QED BY <2>2, <2>3, Inductive
    <3> QED BY <1>7, <3>1
  <2> QED BY <1>1, <2>1, <2>4
<1> QED BY <1>6, <1>7

(* The plain places of some characters are those of the bare words.        *)
LEMMA PlainOf ==
  ASSUME NEW x, NEW w, NEW m, NEW pos, Spells(x, w, m, pos), NEW wanted, Space \notin wanted
  PROVE  Plain(x, wanted) = {pos[k] : k \in {l \in 1 .. m : w[l].as = "bare" /\ w[l].text \in wanted}}
<1> DEFINE B == {l \in 1 .. m : w[l].as = "bare" /\ w[l].text \in wanted}
<1>1. Plain(x, wanted) = {i \in PlainAt(x, w, m, pos) : x[i] \in wanted}
  BY QuotingOf DEF Plain
<1>2. \A k \in 1 .. m : w[k].as = "bare" => x[pos[k]] = w[k].text /\ pos[k] \in 1 .. Len(x)
  <2> TAKE k \in 1 .. m
  <2> HAVE w[k].as = "bare"
  <2>1. /\ pos[k] \in Nat /\ pos[k] >= 1 /\ Width(w[k]) \in {1, 2, 3} /\ pos[k] + Width(w[k]) <= Len(x) + 1
        /\ x[TextPlace(w[k], pos[k])] = w[k].text /\ TextPlace(w[k], pos[k]) = pos[k]
    BY PlaceFacts
  <2>2. Len(x) \in Nat
    BY DEF Spells
  <2> QED BY <2>1, <2>2
<1>3. ASSUME NEW i \in PlainAt(x, w, m, pos), x[i] \in wanted
      PROVE  \E k \in B : pos[k] = i
  <2>1. i \in 1 .. Len(x) /\ \/ \A k \in 1 .. m : ~Covers(w[k], pos[k], i)
                             \/ \E k \in 1 .. m : w[k].as = "bare" /\ pos[k] = i
    BY DEF PlainAt
  <2>2. (\A k \in 1 .. m : ~Covers(w[k], pos[k], i)) => x[i] = Space
    BY <2>1 DEF Spells
  <2>3. PICK k \in 1 .. m : w[k].as = "bare" /\ pos[k] = i
    BY <1>3, <2>1, <2>2
  <2> QED BY <1>2, <1>3, <2>3
<1>4. ASSUME NEW k \in B
      PROVE  pos[k] \in PlainAt(x, w, m, pos) /\ x[pos[k]] \in wanted
  BY <1>2, <1>4 DEF PlainAt
<1> QED BY <1>1, <1>3, <1>4

LEMMA FirstAndLast ==
  ASSUME NEW x, NEW w, NEW m, NEW pos, Spells(x, w, m, pos), NEW k \in 1 .. m
  PROVE  /\ pos[k] \in 1 .. Len(x) /\ x[pos[k]] \notin Spaces
         /\ pos[k] + Width(w[k]) - 1 \in 1 .. Len(x) /\ x[pos[k] + Width(w[k]) - 1] \notin Spaces
<1>1. /\ IsWord(w[k]) /\ SpelledAt(x, w[k], pos[k]) /\ pos[k] \in Nat /\ pos[k] >= 1
      /\ pos[k] + Width(w[k]) <= Len(x) + 1 /\ Len(x) \in Nat
  BY DEF Spells
<1>2. w[k].as \in {"bare", "escaped"} \cup QuoteMarks /\ Width(w[k]) \in {1, 2, 3}
      /\ w[k].text \notin Spaces
  BY <1>1, WordFacts
<1>3. pos[k] \in 1 .. Len(x) /\ pos[k] + Width(w[k]) - 1 \in 1 .. Len(x)
  BY <1>1, <1>2
<1>4. CASE w[k].as = "bare"
  <2>1. Width(w[k]) = 1 /\ x[pos[k]] = w[k].text
    BY <1>1, <1>4, WordFacts DEF SpelledAt
  <2>2. pos[k] + Width(w[k]) - 1 = pos[k]
    BY <1>1, <2>1
  <2> QED BY <1>2, <1>3, <2>1, <2>2
<1>5. CASE w[k].as = "escaped"
  <2>1. Width(w[k]) = 2 /\ x[pos[k]] = "\\" /\ x[pos[k] + 1] = w[k].text
    BY <1>1, <1>5, WordFacts DEF SpelledAt
  <2>2. pos[k] + Width(w[k]) - 1 = pos[k] + 1
    BY <1>1, <2>1
  <2> QED BY <1>2, <1>3, <2>1, <2>2, Characters
<1>6. CASE w[k].as \in QuoteMarks
  <2>1. w[k].as # "bare" /\ w[k].as # "escaped" /\ w[k].as \notin Spaces /\ Width(w[k]) = 3
    BY <1>1, <1>6, WordFacts, Characters
  <2>2. x[pos[k]] = w[k].as /\ x[pos[k] + 2] = w[k].as
    BY <1>1, <2>1 DEF SpelledAt
  <2>3. pos[k] + Width(w[k]) - 1 = pos[k] + 2
    BY <1>1, <2>1
  <2> QED BY <1>3, <2>1, <2>2, <2>3
<1> QED BY <1>2, <1>4, <1>5, <1>6

LEMMA TrimSpells ==
  ASSUME NEW x, NEW w, NEW m, NEW pos, Spells(x, w, m, pos)
  PROVE  \E to : Spells(Trim(x), w, m, to)
<1> DEFINE told == {i \in DOMAIN x : x[i] \notin Spaces}
           n == Len(x)
<1>1. n \in Nat /\ DOMAIN x = 1 .. n /\ m \in Nat /\ told \subseteq 1 .. n
  BY DEF Spells
<1>2. CASE told = {}
  <2>1. Trim(x) = <<>>
    BY <1>2 DEF Trim
  <2>2. m = 0
    <3> SUFFICES ASSUME m # 0 PROVE FALSE
      OBVIOUS
    <3>1. 1 \in 1 .. m
      BY <1>1
    <3>2. pos[1] \in 1 .. n /\ x[pos[1]] \notin Spaces
      BY <3>1, FirstAndLast
    <3> QED BY <1>1, <1>2, <3>2
  <2>3. Spells(<<>>, w, 0, <<>>)
    BY DEF Spells
  <2> QED BY <2>1, <2>2, <2>3
<1>3. CASE told # {}
  <2> DEFINE p == Min(told)
             r == Max(told)
  <2>1. Trim(x) = SubSeq(x, p, r)
    BY <1>3 DEF Trim
  <2>2. p \in told /\ r \in told /\ \A i \in told : p <= i /\ i <= r
    BY <1>1, <1>3, MinIs, MaxIs
  <2> HIDE DEF p, r
  <2>3. p \in Nat \ {0} /\ r \in Nat /\ r <= n /\ p <= r + 1
    BY <1>1, <2>2
  <2>4. ASSUME NEW k \in 1 .. m
        PROVE  p <= pos[k] /\ pos[k] + Width(w[k]) <= r + 1 /\ k \in Nat
    <3>1. pos[k] \in told /\ pos[k] + Width(w[k]) - 1 \in told
      BY <1>1, FirstAndLast
    <3>2. pos[k] \in Nat /\ Width(w[k]) \in {1, 2, 3}
      BY PlaceFacts
    <3>3. p <= pos[k] /\ pos[k] + Width(w[k]) - 1 <= r
      BY <2>2, <3>1
    <3> QED BY <1>1, <2>3, <3>2, <3>3
  <2> DEFINE c == 0
  <2>5. \A k \in 1 .. m : /\ k <= c => pos[k] + Width(w[k]) <= p
                          /\ c < k /\ k <= c + m => p <= pos[k] /\ pos[k] + Width(w[k]) <= r + 1
                          /\ c + m < k => r < pos[k]
    <3> TAKE k \in 1 .. m
    <3>1. ~(k <= c) /\ ~(c + m < k)
      BY <1>1
    <3> QED BY <2>4, <3>1
  <2>6. c + m <= m /\ c \in Nat /\ Follow(w, w, c, m)
    BY <1>1 DEF Follow
  <2>7. \E to : Spells(SubSeq(x, p, r), w, m, to)
    <3> HIDE DEF c, told
    <3>1. Within(w, m, pos, c, m, p, r)
      BY <2>5 DEF Within
    <3> QED BY <1>1, <2>3, <2>6, <3>1, SpellPart
  <2> QED BY <2>1, <2>7
<1> QED BY <1>2, <1>3

-----
(* The pieces of such a text between the words of C: there are q of them,  *)
(* piece j holds the words between d[j - 1] and d[j].                      *)

LEMMA Ascends ==
  ASSUME NEW x, NEW w, NEW m, NEW pos, Spells(x, w, m, pos), NEW j \in 1 .. m, NEW k \in 1 .. m
  PROVE  /\ j < k => pos[j] < pos[k] /\ pos[j] + Width(w[j]) < pos[k]
         /\ pos[j] < pos[k] => j < k
         /\ pos[j] = pos[k] => j = k
<1>1. /\ pos[j] \in Nat /\ pos[k] \in Nat /\ Width(w[j]) \in {1, 2, 3} /\ Width(w[k]) \in {1, 2, 3}
      /\ j \in Nat /\ k \in Nat
  <2>1. pos[j] \in Nat /\ Width(w[j]) \in {1, 2, 3}
    BY PlaceFacts
  <2>2. pos[k] \in Nat /\ Width(w[k]) \in {1, 2, 3}
    BY PlaceFacts
  <2>3. j \in Nat /\ k \in Nat
    OBVIOUS
  <2> QED BY <2>1, <2>2, <2>3
<1>2. /\ j < k => pos[j] + Width(w[j]) < pos[k]
      /\ k < j => pos[k] + Width(w[k]) < pos[j]
  BY DEF Spells
<1> QED BY <1>1, <1>2

LEMMA PiecesAre ==
  ASSUME NEW x, NEW w, NEW m, NEW pos, Spells(x, w, m, pos),
         NEW C, BareWords(C, w, m)
  PROVE  \E q : \E d : CutInto(Pieces(x, PlacesOf(pos, C)), w, m, pos, C, q, d)
<1> DEFINE n == Len(x)
           cuts == {pos[k] : k \in C}
           S == cuts \cup {n + 1}
           ends == InOrder(S, n + 1)
           q == Cardinality(S)
           Which(i) == IF i = n + 1 THEN m + 1 ELSE CHOOSE k \in C : pos[k] = i
           d == [j \in 0 .. q |-> IF j = 0 THEN 0 ELSE Which(ends[j])]
           from(j) == IF j = 1 THEN 1 ELSE ends[j - 1] + 1
           pieces == Pieces(x, cuts)
<1>1. n \in Nat /\ m \in Nat /\ n + 1 \in Nat /\ x \in Seq(Letters)
  BY DEF Spells
<1>2. \A k \in C : /\ k \in 1 .. m /\ k \in Nat /\ pos[k] \in Nat /\ pos[k] >= 1 /\ pos[k] + 1 <= n + 1
                   /\ Width(w[k]) = 1 /\ pos[k] \in 1 .. n
  <2> TAKE k \in C
  <2>1. k \in 1 .. m /\ w[k].as = "bare"
    BY DEF BareWords
  <2>2. /\ pos[k] \in Nat /\ pos[k] >= 1 /\ IsWord(w[k]) /\ pos[k] + Width(w[k]) <= n + 1
    BY <2>1 DEF Spells
  <2>3. Width(w[k]) = 1
    BY <2>1, <2>2, WordFacts
  <2> QED BY <1>1, <2>1, <2>2, <2>3
<1>3. S \cap (1 .. n + 1) = S
  <2>1. \A i \in S : i \in 1 .. n + 1
    BY <1>1, <1>2
  <2> QED BY <2>1
<1> HIDE DEF n
<1>4. Enumerates(ends, S)
  BY <1>1, <1>3, InOrderIs
<1>5. /\ q \in Nat /\ ends \in [1 .. q -> S]
      /\ \A j, k \in 1 .. q : j < k => ends[j] < ends[k]
      /\ \A i \in S : \E k \in 1 .. q : ends[k] = i
  <2> HIDE DEF ends, S
  <2> QED BY <1>4 DEF Enumerates
<1>6. pieces = [j \in 1 .. q |-> SubSeq(x, from(j), ends[j] - 1)]
  <2>1. pieces = [j \in DOMAIN ends |-> SubSeq(x, from(j), ends[j] - 1)]
    BY DEF Pieces, n
  <2> HIDE DEF pieces, from, ends, S
  <2> QED BY <1>5, <2>1
<1> HIDE DEF ends, pieces
<1>7. \A i \in S : /\ i \in Nat /\ i >= 1 /\ i <= n + 1
                   /\ i = n + 1 => Which(i) = m + 1
                   /\ i # n + 1 => Which(i) \in C /\ pos[Which(i)] = i
  <2> TAKE i \in S
  <2>1. CASE i = n + 1
    BY <1>1, <2>1
  <2>2. CASE i # n + 1
    <3>1. PICK k \in C : pos[k] = i
      BY <2>2
    <3> QED BY <1>1, <1>2, <2>2, <3>1
  <2> QED BY <2>1, <2>2
<1> HIDE DEF Which
<1>8. q >= 1 /\ ends[q] = n + 1 /\ \A j \in 1 .. q : j # q => ends[j] # n + 1
  <2>1. PICK k \in 1 .. q : ends[k] = n + 1
    BY <1>5
  <2>2. k = q
    <3> SUFFICES ASSUME k # q PROVE FALSE
      OBVIOUS
    <3>1. q \in 1 .. q /\ k < q
      BY <1>5
    <3>2. n + 1 < ends[q] /\ ends[q] \in S
      BY <1>5, <2>1, <3>1
    <3> HIDE DEF S
    <3> QED BY <1>1, <1>7, <3>2
  <2>3. \A j \in 1 .. q : j # q => ends[j] # n + 1
    <3> TAKE j \in 1 .. q
    <3> HAVE j # q
    <3>1. j < q /\ q \in 1 .. q
      BY <1>5
    <3>2. ends[j] < n + 1
      BY <1>5, <2>1, <2>2, <3>1
    <3> QED BY <1>1, <3>2
  <2> QED BY <1>5, <2>1, <2>2, <2>3
<1>9. \A i, l \in S : i < l => Which(i) < Which(l)
  <2> TAKE i, l \in S
  <2> HAVE i < l
  <2>1. i # n + 1 /\ Which(i) \in C /\ pos[Which(i)] = i
    <3> HIDE DEF S
    <3>1. i \in Nat /\ l \in Nat /\ l <= n + 1
      BY <1>7
    <3>2. i # n + 1
      BY <1>1, <3>1
    <3> QED BY <1>7, <3>2
  <2>2. CASE l = n + 1
    <3>1. Which(l) = m + 1 /\ Which(i) \in 1 .. m
      BY <1>2, <1>7, <2>1, <2>2
    <3> QED BY <1>1, <3>1
  <2>3. CASE l # n + 1
    <3>1. Which(l) \in C /\ pos[Which(l)] = l
      BY <1>7, <2>3
    <3>2. Which(i) \in 1 .. m /\ Which(l) \in 1 .. m
      BY <1>2, <2>1, <3>1
    <3> QED BY <2>1, <3>1, <3>2, Ascends
  <2> QED BY <2>2, <2>3
<1>10. \A i \in S : Which(i) \in 1 .. m + 1
  <2> TAKE i \in S
  <2>1. i = n + 1 \/ Which(i) \in 1 .. m
    BY <1>2, <1>7
  <2> QED BY <1>1, <1>7, <2>1
<1> HIDE DEF S
<1>11. /\ d[0] = 0 /\ \A j \in 1 .. q : d[j] = Which(ends[j]) /\ d[j] \in 1 .. m + 1
  <2>1. \A j \in 1 .. q : j \in 0 .. q /\ j # 0 /\ ends[j] \in S
    BY <1>5
  <2>2. 0 \in 0 .. q
    BY <1>8, <1>5
  <2> QED BY <1>10, <2>1, <2>2
<1>12. CutAt(C, m, q, d)
  <2>1. d \in [0 .. q -> 0 .. m + 1]
    <3>1. \A j \in 0 .. q : j = 0 \/ j \in 1 .. q
      BY <1>5
    <3>2. \A j \in 0 .. q : d[j] \in 0 .. m + 1
      <4> TAKE j \in 0 .. q
      <4> HIDE DEF d
      <4>1. 0 \in 0 .. m + 1 /\ 1 .. m + 1 \subseteq 0 .. m + 1
        BY <1>1
      <4>2. d[j] = 0 \/ d[j] \in 1 .. m + 1
        BY <1>11, <3>1
      <4> QED BY <4>1, <4>2
    <3>3. d = [j \in 0 .. q |-> d[j]]
      OBVIOUS
    <3> HIDE DEF d
    <3> QED BY <3>2, <3>3
  <2> HIDE DEF d
  <2>2. d[q] = m + 1
    <3>1. q \in 1 .. q /\ ends[q] \in S
      BY <1>5, <1>8
    <3> QED BY <1>7, <1>8, <1>11, <3>1
  <2>3. \A j, k \in 0 .. q : j < k => d[j] < d[k]
    <3> TAKE j, k \in 0 .. q
    <3> HAVE j < k
    <3>1. k \in 1 .. q /\ ends[k] \in S
      BY <1>5
    <3>2. CASE j = 0
      BY <1>1, <1>11, <3>1, <3>2
    <3>3. CASE j # 0
      <4>1. j \in 1 .. q /\ ends[j] \in S
        BY <1>5, <3>3
      <4>2. ends[j] < ends[k]
        BY <1>5, <3>1, <4>1
      <4> QED BY <1>9, <1>11, <3>1, <4>1, <4>2
    <3> QED BY <3>2, <3>3
  <2>4. \A j \in 1 .. q - 1 : d[j] \in C
    <3> TAKE j \in 1 .. q - 1
    <3>1. j \in 1 .. q /\ j # q
      BY <1>5
    <3>2. ends[j] # n + 1 /\ ends[j] \in S
      BY <1>5, <1>8, <3>1
    <3> QED BY <1>7, <1>11, <3>1, <3>2
  <2>5. \A k \in C : \E j \in 1 .. q - 1 : d[j] = k
    <3> TAKE k \in C
    <3>1. pos[k] \in S
      BY DEF S
    <3>2. PICK j \in 1 .. q : ends[j] = pos[k]
      BY <1>5, <3>1
    <3>3. pos[k] # n + 1
      BY <1>1, <1>2
    <3>4. j # q
      BY <1>8, <3>2, <3>3
    <3>5. j \in 1 .. q - 1
      BY <1>5, <3>4
    <3>6. d[j] \in C /\ pos[d[j]] = pos[k]
      BY <1>7, <1>11, <3>1, <3>2, <3>3
    <3>7. d[j] = k
      <4>1. d[j] \in 1 .. m /\ k \in 1 .. m
        BY <1>2, <3>6
      <4> QED BY <3>6, <4>1, Ascends
    <3> QED BY <3>5, <3>7
  <2> QED BY <1>5, <1>8, <1>11, <2>1, <2>2, <2>3, <2>4, <2>5 DEF CutAt
<1> HIDE DEF d
<1>13. ASSUME NEW j \in 1 .. q
       PROVE  /\ pieces[j] = SubSeq(x, from(j), ends[j] - 1)
              /\ from(j) \in Nat \ {0} /\ ends[j] - 1 \in Nat /\ ends[j] - 1 <= n
              /\ from(j) <= (ends[j] - 1) + 1
              /\ d[j] - d[j - 1] - 1 \in Nat /\ d[j - 1] \in Nat
              /\ d[j - 1] + (d[j] - d[j - 1] - 1) = d[j] - 1 /\ d[j] - 1 <= m
              /\ Within(w, m, pos, d[j - 1], d[j] - d[j - 1] - 1, from(j), ends[j] - 1)
  <2>1. pieces[j] = SubSeq(x, from(j), ends[j] - 1)
    BY <1>6
  <2>2. ends[j] \in S /\ ends[j] \in Nat /\ ends[j] >= 1 /\ ends[j] <= n + 1
    BY <1>5, <1>7
  <2>3. d[j] = Which(ends[j]) /\ d[j] \in 1 .. m + 1
    BY <1>11
  <2>4. \/ j = 1 /\ from(j) = 1 /\ d[j - 1] = 0
        \/ /\ j # 1 /\ d[j - 1] \in C /\ from(j) = pos[d[j - 1]] + 1
           /\ pos[d[j - 1]] < ends[j] /\ d[j - 1] < d[j]
    <3>1. CASE j = 1
      BY <1>11, <3>1
    <3>2. CASE j # 1
      <4> DEFINE i == j - 1
      <4>1. i \in 1 .. q /\ i # q /\ i < j /\ j \in 0 .. q /\ i \in 0 .. q
        BY <1>5, <3>2
      <4>2. ends[i] \in S /\ ends[i] # n + 1 /\ ends[i] < ends[j] /\ d[i] = Which(ends[i])
        BY <1>5, <1>8, <1>11, <4>1
      <4>3. d[i] \in C /\ pos[d[i]] = ends[i]
        BY <1>7, <4>2
      <4>4. from(j) = ends[i] + 1
        BY <3>2
      <4>5. d[i] < d[j]
        <5> HIDE DEF i
        <5> QED BY <1>12, <4>1 DEF CutAt
      <4> QED BY <3>2, <4>2, <4>3, <4>4, <4>5
    <3> QED BY <3>1, <3>2
  <2>5. \/ ends[j] = n + 1 /\ d[j] = m + 1
        \/ d[j] \in C /\ pos[d[j]] = ends[j]
    BY <1>7, <2>2, <2>3
  <2> HIDE DEF from
  <2>6. d[j - 1] \in Nat /\ d[j - 1] < d[j] /\ d[j] \in Nat /\ from(j) \in Nat \ {0} /\ from(j) <= ends[j]
    <3>1. CASE j = 1
      BY <1>1, <2>2, <2>3, <2>4, <3>1
    <3>2. CASE j # 1
      <4>1. d[j - 1] \in Nat /\ pos[d[j - 1]] \in Nat
        BY <1>2, <2>4, <3>2
      <4> QED BY <1>1, <2>2, <2>3, <2>4, <3>2, <4>1
    <3> QED BY <3>1, <3>2
  <2> DEFINE c == d[j - 1]
             e == d[j] - d[j - 1] - 1
  <2>7. e \in Nat /\ c \in Nat /\ c + e = d[j] - 1 /\ d[j] - 1 <= m
    BY <1>1, <2>3, <2>6
  <2>8. ASSUME NEW k \in 1 .. m
        PROVE  /\ k <= c => pos[k] + Width(w[k]) <= from(j)
               /\ c < k /\ k <= c + e => from(j) <= pos[k] /\ pos[k] + Width(w[k]) <= (ends[j] - 1) + 1
               /\ c + e < k => ends[j] - 1 < pos[k]
    <3>1. /\ pos[k] \in Nat /\ pos[k] >= 1 /\ Width(w[k]) \in {1, 2, 3} /\ k \in Nat /\ k >= 1
          /\ pos[k] + Width(w[k]) <= n + 1
      BY PlaceFacts DEF n
    <3>2. k <= c => pos[k] + Width(w[k]) <= from(j)
      <4> HAVE k <= c
      <4>1. c \in C /\ from(j) = pos[c] + 1 /\ c \in 1 .. m /\ pos[c] \in Nat /\ Width(w[c]) = 1
        BY <1>2, <2>4, <2>7, <3>1
      <4>2. k < c => pos[k] + Width(w[k]) < pos[c]
        BY <4>1, Ascends
      <4> HIDE DEF c
      <4>3. CASE k = c
        BY <4>1, <4>3
      <4>4. CASE k # c
        BY <2>7, <3>1, <4>1, <4>2, <4>4
      <4> QED BY <4>3, <4>4
    <3>3. c < k => from(j) <= pos[k]
      <4> HAVE c < k
      <4>1. CASE j = 1
        BY <2>4, <3>1, <4>1
      <4>2. CASE j # 1
        <5>1. c \in C /\ from(j) = pos[c] + 1 /\ c \in 1 .. m /\ pos[c] \in Nat /\ Width(w[c]) = 1
          BY <1>2, <2>4, <4>2
        <5>2. pos[c] + Width(w[c]) < pos[k]
          BY <5>1, Ascends
        <5> HIDE DEF c
        <5> QED BY <3>1, <5>1, <5>2
      <4> QED BY <4>1, <4>2
    <3>4. k <= c + e => pos[k] + Width(w[k]) <= (ends[j] - 1) + 1
      <4> HAVE k <= c + e
      <4>1. k < d[j]
        BY <2>6, <2>7, <3>1
      <4>2. CASE ends[j] = n + 1
        BY <1>1, <3>1, <4>2
      <4>3. CASE ends[j] # n + 1
        <5>1. d[j] \in C /\ pos[d[j]] = ends[j] /\ d[j] \in 1 .. m
          BY <1>2, <2>5, <4>3
        <5>2. pos[k] + Width(w[k]) < pos[d[j]]
          BY <4>1, <5>1, Ascends
        <5> QED BY <2>2, <3>1, <5>1, <5>2
      <4> QED BY <4>2, <4>3
    <3>5. c + e < k => ends[j] - 1 < pos[k]
      <4> HAVE c + e < k
      <4>1. d[j] <= k /\ d[j] <= m
        BY SMTT(30), <2>6, <2>7, <3>1, <1>1
      <4>2. d[j] \in C /\ pos[d[j]] = ends[j] /\ d[j] \in 1 .. m
        <5>1. d[j] # m + 1
          BY <1>1, <2>6, <4>1
        <5> HIDE DEF cuts, c, e
        <5> QED BY <1>2, <2>5, <5>1
      <4>3. d[j] < k => pos[d[j]] < pos[k]
        BY <4>2, Ascends
      <4>4. CASE d[j] = k
        BY <2>2, <4>2, <4>4
      <4>5. CASE d[j] # k
        BY <2>2, <2>6, <3>1, <4>1, <4>2, <4>3, <4>5
      <4> QED BY <4>4, <4>5
    <3> QED BY <3>2, <3>3, <3>4, <3>5
  <2>9. Within(w, m, pos, c, e, from(j), ends[j] - 1)
    <3> HIDE DEF c, e
    <3> QED BY <2>8 DEF Within
  <2>10. ends[j] - 1 \in Nat /\ ends[j] - 1 <= n /\ from(j) <= (ends[j] - 1) + 1
    BY <1>1, <2>2, <2>6
  <2> QED BY <2>1, <2>6, <2>7, <2>9, <2>10
<1> HIDE DEF from
<1>14. ASSUME NEW j \in 1 .. q
       PROVE  /\ pieces[j] \in Seq(Letters) /\ Len(pieces[j]) = (ends[j] - 1) - from(j) + 1
              /\ \A v : Follow(v, w, d[j - 1], d[j] - d[j - 1] - 1)
                          => Spelling(pieces[j], v, d[j] - d[j - 1] - 1)
  <2> DEFINE p == from(j)
             r == ends[j] - 1
             c == d[j - 1]
             e == d[j] - d[j - 1] - 1
  <2>1. /\ pieces[j] = SubSeq(x, p, r) /\ p \in Nat \ {0} /\ r \in Nat /\ r <= n /\ p <= r + 1
        /\ c \in Nat /\ e \in Nat /\ c + e <= m /\ Within(w, m, pos, c, e, p, r)
    BY <1>13
  <2> HIDE DEF p, r, c, e
  <2>2. SubSeq(x, p, r) \in Seq(Letters) /\ Len(SubSeq(x, p, r)) = r - p + 1
    BY <1>1, <2>1, PartIs DEF n
  <2>3. ASSUME NEW v, Follow(v, w, c, e)
        PROVE  \E to : Spells(SubSeq(x, p, r), v, e, to)
    <3>1. r <= Len(x)
      BY <2>1 DEF n
    <3> HIDE DEF S, q, cuts
    <3> QED BY <2>1, <2>3, <3>1, SpellPart
  <2>4. \A v : Follow(v, w, c, e) => Spelling(pieces[j], v, e)
    BY <2>1, <2>3 DEF Spelling
  <2> QED BY <2>1, <2>2, <2>4 DEF p, r, c, e
<1>15. pieces \in Seq(Seq(Letters)) /\ Len(pieces) = q
  <2> DEFINE T == Seq(Letters)
  <2>1. \A j \in 1 .. q : pieces[j] \in T
    BY <1>14
  <2>2. pieces = [j \in 1 .. q |-> pieces[j]]
    BY <1>6
  <2> HIDE DEF T
  <2>3. pieces \in Seq(T) /\ Len(pieces) = q
    BY <1>5, <2>1, <2>2
  <2> QED BY <2>3 DEF T
<1>16. q > 1 => Len(pieces[1]) = pos[d[1]] - 1
  <2> HAVE q > 1
  <2>1. 1 \in 1 .. q /\ 1 # q
    BY <1>5
  <2>2. ends[1] \in S /\ ends[1] # n + 1
    BY <1>5, <1>8, <2>1
  <2>3. pos[d[1]] = ends[1]
    BY <1>7, <1>11, <2>1, <2>2
  <2>4. from(1) = 1
    BY DEF from
  <2>5. Len(pieces[1]) = (ends[1] - 1) - from(1) + 1 /\ ends[1] \in Nat
    BY <1>7, <1>14, <2>1, <2>2
  <2> QED BY <2>3, <2>4, <2>5
<1> HIDE DEF q, cuts
<1>17. \A j \in 1 .. q : \A v :
         Follow(v, w, d[j - 1], d[j] - d[j - 1] - 1)
           => Spelling(pieces[j], v, d[j] - d[j - 1] - 1)
  BY <1>14
<1>18. CutInto(pieces, w, m, pos, C, q, d)
  BY <1>12, <1>15, <1>16, <1>17 DEF CutInto
<1> QED BY <1>18 DEF pieces, cuts, PlacesOf

(***************************************************************************)
(* The segments of a text, the runs of words between the pipes.            *)
(***************************************************************************)
LEMMA Between ==
  ASSUME NEW C, NEW m \in Nat, NEW q, NEW d, CutAt(C, m, q, d),
         NEW j \in 1 .. q, NEW k, d[j - 1] < k, k < d[j]
  PROVE  k \notin C
<1> SUFFICES ASSUME k \in C PROVE FALSE
  OBVIOUS
<1>1. /\ q \in Nat /\ \A i \in 0 .. q : d[i] \in Nat
      /\ \A i, l \in 0 .. q : i < l => d[i] < d[l]
  BY DEF CutAt
<1>2. PICK i \in 1 .. q - 1 : d[i] = k
  BY DEF CutAt
<1>3. i \in 0 .. q /\ j \in 0 .. q /\ j - 1 \in 0 .. q
  BY <1>1
<1>4. CASE i < j - 1
  BY <1>1, <1>2, <1>3, <1>4
<1>5. CASE j < i
  BY <1>1, <1>2, <1>3, <1>5
<1>6. CASE i = j \/ i = j - 1
  BY <1>1, <1>2, <1>3, <1>6
<1>7. i < j - 1 \/ j < i \/ i = j \/ i = j - 1
  BY <1>3
<1> QED BY <1>4, <1>5, <1>6, <1>7

LEMMA SegmentsAre ==
  ASSUME NEW x, NEW w, NEW m, NEW pos, Spells(x, w, m, pos)
  PROVE  \E segs : /\ Segmented(segs, w, m)
                   /\ PiecesParsed(x) =
                        IF segs = <<>> THEN NoCommand
                        ELSE [segments |-> segs, mixed |-> contains_sequence_operator(x),
                              redirect |-> contains_unquoted_redirect(x)]
<1> DEFINE C == PipesOf(w, m)
           P == Pieces(x, PlacesOf(pos, C))
<1>1. m \in Nat /\ BareWords(C, w, m) /\ C \subseteq 1 .. m
  BY DEF Spells, PipesOf, BareWords
<1>2. split_unquoted_pipes(x) = P
  <2>1. Space \notin {"|"}
    BY Zenon DEF Space
  <2>2. Plain(x, {"|"}) = {pos[k] : k \in C}
    BY <2>1, PlainOf DEF PipesOf
  <2> QED BY <2>2 DEF split_unquoted_pipes, PlacesOf
<1> HIDE DEF C
<1>3. PICK q : \E d : CutInto(P, w, m, pos, C, q, d)
  BY <1>1, PiecesAre
<1> HIDE DEF P
<1>17. PICK d : CutInto(P, w, m, pos, C, q, d)
  BY <1>3
<1>18. /\ CutAt(C, m, q, d) /\ P \in Seq(Seq(Letters)) /\ Len(P) = q
       /\ \A j \in 1 .. q : \A v :
            Follow(v, w, d[j - 1], d[j] - d[j - 1] - 1) => Spelling(P[j], v, d[j] - d[j - 1] - 1)
  BY <1>17 DEF CutInto
<1>4. /\ q \in Nat /\ q >= 1 /\ d[0] = 0 /\ d[q] = m + 1
      /\ \A j \in 0 .. q : d[j] \in Nat /\ d[j] <= m + 1
      /\ \A j, k \in 0 .. q : j < k => d[j] < d[k]
      /\ \A j \in 1 .. q - 1 : d[j] \in C
      /\ \A k \in C : \E j \in 1 .. q - 1 : d[j] = k
  <2>1. /\ q \in Nat \ {0} /\ d \in [0 .. q -> 0 .. m + 1] /\ d[0] = 0 /\ d[q] = m + 1
        /\ \A j, k \in 0 .. q : j < k => d[j] < d[k]
        /\ \A j \in 1 .. q - 1 : d[j] \in C
        /\ \A k \in C : \E j \in 1 .. q - 1 : d[j] = k
    BY <1>18 DEF CutAt
  <2>2. \A j \in 0 .. q : d[j] \in Nat /\ d[j] <= m + 1
    BY <1>1, <2>1
  <2> QED BY <2>1, <2>2
<1> DEFINE Size(j) == d[j] - d[j - 1] - 1
           Token(j) == tokenize_command(P[j])
           T == {j \in DOMAIN P : Token(j) # <<>>}
           told == InOrder(T, Len(P))
           segs == [k \in DOMAIN told |-> Token(told[k])]
<1>5. PiecesParsed(x) =
        IF segs = <<>> THEN NoCommand
        ELSE [segments |-> segs, mixed |-> contains_sequence_operator(x),
              redirect |-> contains_unquoted_redirect(x)]
  BY <1>2, Zenon DEF PiecesParsed, Parsed
<1>6. ASSUME NEW j \in 1 .. q
      PROVE  /\ Size(j) \in Nat /\ d[j - 1] < d[j] /\ d[j - 1] \in Nat /\ d[j] \in Nat
             /\ Token(j) = [i \in 1 .. Size(j) |-> <<w[d[j - 1] + i].text>>]
             /\ (Token(j) # <<>>) <=> Size(j) > 0
  <2>1. d[j - 1] \in Nat /\ d[j] \in Nat /\ d[j - 1] < d[j]
    <3>1. j \in 0 .. q /\ j - 1 \in 0 .. q /\ j - 1 < j
      BY <1>4
    <3> QED BY <1>4, <3>1
  <2>2. Size(j) \in Nat
    BY <2>1
  <2> DEFINE v == [i \in 1 .. Size(j) |-> w[d[j - 1] + i]]
  <2>3. Follow(v, w, d[j - 1], Size(j))
    BY DEF Follow
  <2>4. PICK to : Spells(P[j], v, Size(j), to)
    <3> HIDE DEF v
    <3> QED BY <1>18, <2>3 DEF Spelling
  <2>5. Token(j) = [i \in 1 .. Size(j) |-> <<v[i].text>>]
    <3> HIDE DEF v, Size
    <3> QED BY <2>4, TokensOf
  <2>6. Token(j) = [i \in 1 .. Size(j) |-> <<w[d[j - 1] + i].text>>]
    <3> HIDE DEF Token, Size
    <3> QED BY <2>5
  <2> HIDE DEF Token, Size, v
  <2>7. Token(j) # <<>> <=> Size(j) > 0
    <3>1. CASE Size(j) = 0
      <4>1. Token(j) = [i \in 1 .. 0 |-> <<w[d[j - 1] + i].text>>]
        BY <2>6, <3>1
      <4>2. Token(j) = <<>>
        BY <4>1
      <4> QED BY <3>1, <4>2
    <3>2. CASE Size(j) # 0
      <4>1. Size(j) > 0 /\ 1 \in 1 .. Size(j) /\ DOMAIN Token(j) = 1 .. Size(j)
        BY <2>2, <2>6, <3>2
      <4>2. 1 \notin DOMAIN <<>>
        OBVIOUS
      <4> QED BY <4>1, <4>2
    <3> QED BY <3>1, <3>2
  <2> QED BY <2>1, <2>2, <2>6, <2>7
<1> HIDE DEF Token
<1>7. T \subseteq 1 .. q /\ \A j \in 1 .. q : j \in T <=> Size(j) > 0
  <2>1. DOMAIN P = 1 .. q
    BY <1>18
  <2> HIDE DEF Size
  <2> QED BY <1>6, <2>1
<1> HIDE DEF T
<1> DEFINE t == Cardinality(T)
<1>8. /\ t \in Nat /\ told \in [1 .. t -> T]
      /\ \A j, k \in 1 .. t : j < k => told[j] < told[k]
      /\ \A j \in T : \E k \in 1 .. t : told[k] = j
  <2>1. T \cap (1 .. q) = T
    BY <1>7
  <2>2. Enumerates(told, T)
    BY <1>18, <1>4, <2>1, InOrderIs
  <2> HIDE DEF told
  <2> QED BY <2>2 DEF Enumerates
<1> HIDE DEF told, t
<1>9. ASSUME NEW j \in T
      PROVE  d[j - 1] + 1 \in Begins(w, m) /\ WordsFrom(Token(j), w, m, d[j - 1] + 1)
  <2> DEFINE k == d[j - 1] + 1
             e == d[j]
  <2>1. /\ j \in 1 .. q /\ Size(j) > 0 /\ d[j - 1] \in Nat /\ d[j] \in Nat /\ Size(j) = e - k
        /\ k < e /\ e <= m + 1 /\ k \in Nat /\ k >= 1 /\ e \in Nat
    <3>1. j \in 1 .. q /\ Size(j) > 0 /\ j \in 0 .. q
      BY <1>4, <1>7
    <3>2. d[j - 1] \in Nat /\ d[j] \in Nat /\ d[j] <= m + 1
      BY <1>4, <1>6, <3>1
    <3> QED BY <3>1, <3>2
  <2>2. \A i : d[j - 1] < i /\ i < d[j] => i \notin C
    BY <1>1, <1>18, <2>1, Between
  <2>3. \A i \in k .. e - 1 : i \notin C
    <3> TAKE i \in k .. e - 1
    <3>1. d[j - 1] < i /\ i < d[j]
      BY <2>1
    <3> QED BY <2>2, <3>1
  <2>4. k \in 1 .. m /\ k \notin C
    <3>1. k \in k .. e - 1 /\ k \in 1 .. m
      BY <1>1, <2>1
    <3> QED BY <2>3, <3>1
  <2>5. k = 1 \/ k - 1 \in C
    <3>1. CASE j = 1
      BY <1>4, <3>1
    <3>2. CASE j # 1
      <4>1. j - 1 \in 1 .. q - 1
        BY <1>4, <2>1, <3>2
      <4>2. d[j - 1] \in C
        BY <1>4, <4>1
      <4>3. k - 1 = d[j - 1]
        BY <2>1
      <4> QED BY <4>2, <4>3
    <3> QED BY <3>1, <3>2
  <2>6. k \in Begins(w, m)
    <3> HIDE DEF k
    <3> QED BY <2>4, <2>5 DEF Begins, C
  <2>7. e = m + 1 \/ e \in C
    <3>1. CASE j = q
      BY <1>4, <3>1
    <3>2. CASE j # q
      <4>1. j \in 1 .. q - 1
        BY <1>4, <2>1, <3>2
      <4> QED BY <1>4, <4>1
    <3> QED BY <3>1, <3>2
  <2>8. Token(j) = [i \in 1 .. e - k |-> <<w[k + i - 1].text>>]
    <3>1. Token(j) = [i \in 1 .. Size(j) |-> <<w[d[j - 1] + i].text>>]
      BY <1>6, <2>1
    <3>2. \A i \in 1 .. Size(j) : d[j - 1] + i = k + i - 1
      BY <2>1
    <3>3. Size(j) = e - k
      BY <2>1
    <3> HIDE DEF Size, k, e
    <3> QED BY <3>1, <3>2, <3>3
  <2>9. e \in k + 1 .. m + 1
    BY <1>1, <2>1
  <2>10. WordsFrom(Token(j), w, m, k)
    <3> HIDE DEF k, e
    <3> QED BY <2>3, <2>7, <2>8, <2>9 DEF WordsFrom, C
  <2> QED BY <2>6, <2>10
<1>10. ASSUME NEW k \in Begins(w, m)
       PROVE  \E j \in T : d[j - 1] + 1 = k
  <2>1. k \in 1 .. m /\ k \notin C /\ (k = 1 \/ k - 1 \in C)
    BY DEF Begins, C
  <2>2. PICK j \in 1 .. q : d[j - 1] + 1 = k
    <3>1. CASE k = 1
      <4>1. 1 \in 1 .. q /\ d[1 - 1] + 1 = k
        BY <1>4, <3>1
      <4> QED BY <4>1
    <3>2. CASE k # 1
      <4>1. PICK i \in 1 .. q - 1 : d[i] = k - 1
        BY <1>4, <2>1, <3>2
      <4>2. i + 1 \in 1 .. q /\ (i + 1) - 1 = i
        BY <1>4
      <4>3. d[(i + 1) - 1] + 1 = k
        BY <1>1, <2>1, <4>1, <4>2
      <4> QED BY <4>2, <4>3
    <3> QED BY <3>1, <3>2
  <2>3. d[j] # k
    <3>1. CASE j = q
      <4>1. d[j] = m + 1
        BY <1>4, <3>1
      <4> QED BY <1>1, <2>1, <4>1
    <3>2. CASE j # q
      <4>1. j \in 1 .. q - 1
        BY <1>4, <3>2
      <4>2. d[j] \in C
        BY <1>4, <4>1
      <4> QED BY <2>1, <4>2
    <3> QED BY <3>1, <3>2
  <2>4. Size(j) > 0
    <3>1. d[j - 1] < d[j] /\ d[j - 1] \in Nat /\ d[j] \in Nat
      BY <1>6
    <3> QED BY <2>2, <2>3, <3>1
  <2> QED BY <1>7, <2>2, <2>4
<1> HIDE DEF Size
<1>11. DOMAIN segs = 1 .. t /\ \A j \in 1 .. t : segs[j] = Token(told[j]) /\ told[j] \in T
  BY <1>8
<1>12. segs = <<>> <=> t = 0
  <2>1. segs = [k \in 1 .. t |-> Token(told[k])]
    BY <1>8
  <2>2. CASE t = 0
    <3>1. segs = [k \in 1 .. 0 |-> Token(told[k])]
      BY <2>1, <2>2
    <3>2. segs = <<>>
      BY <3>1
    <3> QED BY <2>2, <3>2
  <2>3. CASE t # 0
    <3>1. 1 \in 1 .. t /\ 1 \notin DOMAIN <<>>
      BY <1>8, <2>3
    <3> QED BY <1>11, <2>3, <3>1
  <2> QED BY <2>2, <2>3
<1> HIDE DEF segs
<1>13. \A j \in 1 .. t : \E k \in Begins(w, m) : WordsFrom(segs[j], w, m, k)
  <2> TAKE j \in 1 .. t
  <2>1. segs[j] = Token(told[j]) /\ told[j] \in T
    BY <1>11
  <2> QED BY <1>9, <2>1
<1>14. \A k \in Begins(w, m) : \E j \in 1 .. t : WordsFrom(segs[j], w, m, k)
  <2> TAKE k \in Begins(w, m)
  <2>1. PICK j \in T : d[j - 1] + 1 = k
    BY <1>10
  <2>2. PICK i \in 1 .. t : told[i] = j
    BY <1>8
  <2>3. WordsFrom(Token(j), w, m, k)
    BY <1>9, <2>1
  <2>4. segs[i] = Token(j)
    BY <1>11, <2>2
  <2> QED BY <2>3, <2>4
<1>15. ASSUME NEW k \in Begins(w, m), \A l \in Begins(w, m) : k <= l
       PROVE  t > 0 /\ WordsFrom(segs[1], w, m, k)
  <2>1. PICK j \in T : d[j - 1] + 1 = k
    BY <1>10
  <2>2. PICK i \in 1 .. t : told[i] = j
    BY <1>8
  <2>3. t > 0 /\ 1 \in 1 .. t /\ told[1] \in T
    BY <1>8, <2>2
  <2> DEFINE f == told[1]
  <2>4. f \in 1 .. q /\ j \in 1 .. q
    BY <1>7, <2>3
  <2>5. f <= j
    <3>1. CASE i = 1
      BY <2>2, <2>4, <3>1
    <3>2. CASE i # 1
      <4>1. 1 < i
        BY <1>8, <3>2
      <4>2. told[1] < told[i]
        BY <1>8, <2>3, <4>1
      <4> QED BY <2>2, <2>4, <4>2
    <3> QED BY <3>1, <3>2
  <2>6. k <= d[f - 1] + 1
    BY <1>9, <1>15, <2>3
  <2>7. f = j
    <3> SUFFICES ASSUME f < j PROVE FALSE
      BY <2>4, <2>5
    <3> HIDE DEF f
    <3>1. f - 1 \in 0 .. q /\ j - 1 \in 0 .. q /\ f - 1 < j - 1
      BY <1>4, <2>4
    <3>2. d[f - 1] < d[j - 1] /\ d[f - 1] \in Nat /\ d[j - 1] \in Nat
      BY <1>4, <3>1
    <3> QED BY <2>1, <2>6, <3>2
  <2>8. segs[1] = Token(j)
    BY <1>11, <2>3, <2>7
  <2> QED BY <1>9, <2>1, <2>3, <2>8
<1>16. Segmented(segs, w, m)
  BY <1>8, <1>11, <1>12, <1>13, <1>14, <1>15 DEF Segmented
<1> QED BY <1>5, <1>16

-----
(* What is left of a command after its cd spells the words of the script.  *)

LEMMA StartIs ==
  ASSUME NEW P \in Seq(Seq(Letters)), NEW cds \in {0, 1}, cds <= Len(P)
  PROVE  StartAfter(P, cds) = IF cds = 0 THEN 1 ELSE Len(P[1]) + 2
<1> DEFINE s == SubSeq(P, 1, cds)
           A == Nat
           F == [z \in A \X (1 .. cds) |-> z[1] + Len(s[z[2]]) + 1]
           it == CHOOSE j : j = [p \in SUBSET DOMAIN s |->
                   IF p = {} THEN 1 ELSE j[p \ {Max(p)}] + Len(s[Max(p)]) + 1]
<1>1. cds \in Nat /\ DOMAIN s = 1 .. cds /\ \A i \in 1 .. cds : s[i] = P[i] /\ Len(s[i]) \in Nat
  <2> DEFINE T == Seq(Letters)
  <2>1. \A y \in T : Len(y) \in Nat
    OBVIOUS
  <2> HIDE DEF T
  <2>2. Len(P) \in Nat /\ \A i \in 1 .. Len(P) : P[i] \in T
    BY DEF T
  <2>3. CASE cds = 0
    <3>1. s = <<>> /\ DOMAIN s = {} /\ 1 .. 0 = {}
      BY <2>2, <2>3 DEF T
    <3> QED BY <2>3, <3>1
  <2>4. CASE cds = 1
    <3>1. DOMAIN s = 1 .. 1 /\ s[1] = P[1] /\ 1 \in 1 .. Len(P)
      BY <2>2, <2>4 DEF T
    <3> QED BY <2>1, <2>2, <2>4, <3>1
  <2> QED BY <2>3, <2>4
<1>2. StartAfter(P, cds) = it[DOMAIN s]
  BY Zenon DEF StartAfter, FoldLeft, MapThenFoldSet
<1> HIDE DEF s
<1>3. \A a \in A : \A i \in 1 .. cds : F[<<a, i>>] = a + Len(s[i]) + 1 /\ F[<<a, i>>] \in A
  BY <1>1
<1> HIDE DEF F
<1>4. PICK j \in [SUBSET (1 .. cds) -> A] : Folds(j, cds, 1, F)
  BY <1>1, <1>3, FoldIn
<1>5. j = [p \in SUBSET DOMAIN s |-> IF p = {} THEN 1 ELSE j[p \ {Max(p)}] + Len(s[Max(p)]) + 1]
  <2> DEFINE e == [p \in SUBSET DOMAIN s |->
                     IF p = {} THEN 1 ELSE j[p \ {Max(p)}] + Len(s[Max(p)]) + 1]
  <2>1. ASSUME NEW p \in SUBSET (1 .. cds)
        PROVE  e[p] = j[p]
    <3>1. e[p] = IF p = {} THEN 1 ELSE j[p \ {Max(p)}] + Len(s[Max(p)]) + 1
      BY <1>1
    <3>2. j[p] = IF p = {} THEN 1 ELSE F[<<j[p \ {Max(p)}], Max(p)>>]
      BY <1>4 DEF Folds
    <3> HIDE DEF e
    <3>3. CASE p = {}
      BY <3>1, <3>2, <3>3
    <3>4. CASE p # {}
      <4>1. Max(p) \in 1 .. cds /\ j[p \ {Max(p)}] \in A
        <5>1. Max(p) \in 1 .. cds
          BY <1>1, <3>4, MaxIs
        <5> QED BY <1>4, <5>1
      <4>2. F[<<j[p \ {Max(p)}], Max(p)>>] = j[p \ {Max(p)}] + Len(s[Max(p)]) + 1
        BY <1>3, <4>1
      <4> QED BY <3>1, <3>2, <3>4, <4>2
    <3> QED BY <3>3, <3>4
  <2>2. e = [p \in SUBSET (1 .. cds) |-> e[p]] /\ j = [p \in SUBSET (1 .. cds) |-> j[p]]
    BY <1>1, <1>4
  <2> HIDE DEF e
  <2>3. j = e
    BY <2>1, <2>2
  <2> QED BY <2>3 DEF e
<1>6. it = [p \in SUBSET DOMAIN s |-> IF p = {} THEN 1 ELSE it[p \ {Max(p)}] + Len(s[Max(p)]) + 1]
  BY <1>5
<1> HIDE DEF it
<1>7. CASE cds = 0
  <2>1. DOMAIN s = {} /\ {} \in SUBSET DOMAIN s
    BY <1>1, <1>7
  <2>2. it[{}] = 1
    BY <1>6, <2>1
  <2> QED BY <1>2, <1>7, <2>1, <2>2
<1>8. CASE cds = 1
  <2>1. DOMAIN s = 1 .. 1 /\ 1 .. 1 \in SUBSET DOMAIN s /\ {} \in SUBSET DOMAIN s
    BY <1>1, <1>8
  <2>2. Max(1 .. 1) = 1 /\ (1 .. 1) \ {1} = {} /\ 1 .. 1 # {} /\ 1 \in 1 .. 1
    <3>1. 1 \in Nat /\ 1 \in 1 .. 1 /\ (1 .. 1) \ {1} = {} /\ 1 .. 1 # {}
      OBVIOUS
    <3>2. Max(1 .. 1) = 1
      BY <3>1, PrefixPlaces
    <3> QED BY <3>1, <3>2
  <2>3. it[{}] = 1
    BY <1>6, <2>1
  <2>4. it[1 .. 1] = it[{}] + Len(s[1]) + 1
    BY <1>6, <2>1, <2>2
  <2>5. s[1] = P[1] /\ Len(s[1]) \in Nat
    BY <1>1, <1>8
  <2>6. it[1 .. 1] = Len(P[1]) + 2
    BY <2>3, <2>4, <2>5
  <2> QED BY <1>2, <1>8, <2>1, <2>6
<1> QED BY <1>7, <1>8

LEMMA AfterCdsIs ==
  ASSUME NEW s, NEW P \in Seq(Seq(Letters)), NEW cds \in {0, 1}, cds < Len(P),
         \A j \in 1 .. cds : IsCd(tokenize_command(P[j])),
         Len(P) > cds + 1 => ~IsCd(tokenize_command(P[cds + 1]))
  PROVE  AfterCds(s, P) = Trim(SubSeq(s, IF cds = 0 THEN 1 ELSE Len(P[1]) + 2, Len(s)))
<1> DEFINE K == {k \in 0 .. (Len(P) - 1) : \A j \in 1 .. k : IsCd(tokenize_command(P[j]))}
<1>1. Len(P) \in Nat
  OBVIOUS
<1>2. cds \in K
  BY <1>1
<1>3. \A k \in K : k \in Nat /\ k <= cds
  <2> TAKE k \in K
  <2> SUFFICES ASSUME cds < k PROVE FALSE
    BY <1>1
  <2>1. cds + 1 \in 1 .. k /\ Len(P) > cds + 1
    BY <1>1
  <2>2. IsCd(tokenize_command(P[cds + 1]))
    BY <2>1
  <2> QED BY <2>1, <2>2
<1>4. Max(K) = cds
  <2> HIDE DEF K
  <2>1. \E c \in K : \A y \in K : c >= y
    BY <1>2, <1>3
  <2>2. Max(K) \in K /\ \A y \in K : Max(K) >= y
    BY <2>1 DEF Max
  <2>3. Max(K) \in Nat /\ Max(K) <= cds /\ Max(K) >= cds /\ cds \in Nat
    BY <1>2, <1>3, <2>2
  <2> QED BY <2>3
<1>5. AfterCds(s, P) = Trim(SubSeq(s, StartAfter(P, Max(K)), Len(s)))
  BY Zenon DEF AfterCds, StartAfter
<1> HIDE DEF K
<1>6. StartAfter(P, cds) = IF cds = 0 THEN 1 ELSE Len(P[1]) + 2
  BY <1>1, StartIs
<1> QED BY <1>4, <1>5, <1>6

(* The words of a script, after those of its cd.                           *)
LEMMA ScriptWords ==
  ASSUME NEW script \in PlainScripts
  PROVE  /\ script.cd \in BOOLEAN /\ Len(script.words) \in Nat
         /\ DOMAIN script.words = 1 .. Len(script.words)
         /\ \A k \in 1 .. Len(script.words) : IsWord(script.words[k])
         /\ Len(script.words) > 0 => script.words[1].text # "cd"
<1> DEFINE ws == script.words
           W == [text : STRING, as : {"bare", "escaped"} \cup QuoteMarks]
<1>1. /\ script.cd \in BOOLEAN /\ ws \in Seq(W)
      /\ \A k \in DOMAIN ws : EndsAsMarked(ws[k])
      /\ ws # <<>> => ws[1].text # "cd"
      /\ \A k \in DOMAIN ws : ~(ws[k].as = "'" /\ ws[k].text = "\\")
  BY ScriptsAssumption DEF PlainScripts, HasBareBackslash
<1> HIDE DEF W
<1>2. Len(ws) \in Nat /\ DOMAIN ws = 1 .. Len(ws) /\ \A k \in 1 .. Len(ws) : ws[k] \in W
  BY <1>1
<1>3. \A word \in W : word \in [text : Letters, as : {"bare", "escaped"} \cup QuoteMarks]
  <2>1. STRING \subseteq Letters
    BY Zenon DEF Letters
  <2> QED BY <2>1 DEF W
<1>4. \A k \in 1 .. Len(ws) : IsWord(ws[k])
  BY <1>1, <1>2, <1>3 DEF IsWord
<1>5. Len(ws) > 0 => ws # <<>>
  OBVIOUS
<1> HIDE DEF ws
<1>6. /\ script.cd \in BOOLEAN /\ Len(ws) \in Nat /\ DOMAIN ws = 1 .. Len(ws)
      /\ \A k \in 1 .. Len(ws) : IsWord(ws[k])
      /\ Len(ws) > 0 => ws[1].text # "cd"
  BY <1>1, <1>2, <1>4, <1>5
<1> QED BY <1>6 DEF ws

LEMMA BareIsWord ==
  /\ IsWord(Bare("cd")) /\ IsWord(Bare("repo")) /\ IsWord(Bare("&&"))
  /\ \A s : Bare(s).text = s /\ Bare(s).as = "bare"
<1>1. "cd" \notin Spaces /\ "repo" \notin Spaces /\ "&&" \notin Spaces
  BY Zenon DEF Spaces, Space
<1>2. "cd" \notin QuoteMarks /\ "repo" \notin QuoteMarks /\ "&&" \notin QuoteMarks
  BY Zenon DEF QuoteMarks, DoubleQuote
<1>3. \A s \in {"cd", "repo", "&&"} : s \in Letters
  BY Characters
<1>4. /\ "cd" # "\\" /\ "repo" # "\\" /\ "&&" # "\\"
      /\ "bare" # "'" /\ "bare" # DoubleQuote
  BY Zenon DEF DoubleQuote
<1> QED BY <1>1, <1>2, <1>3, <1>4, Characters DEF IsWord, EndsAsMarked, Bare

LEMMA AllWordsAre ==
  ASSUME NEW script \in PlainScripts, NEW c, c = IF script.cd THEN 3 ELSE 0
  PROVE  /\ c \in Nat /\ DOMAIN AllWords(script) = 1 .. c + Len(script.words)
         /\ AllWords(script) \in Seq({AllWords(script)[k] : k \in 1 .. c + Len(script.words)})
         /\ \A k \in 1 .. c + Len(script.words) : IsWord(AllWords(script)[k])
         /\ Follow(script.words, AllWords(script), c, Len(script.words))
         /\ script.cd => /\ AllWords(script)[1] = Bare("cd") /\ AllWords(script)[2] = Bare("repo")
                         /\ AllWords(script)[3] = Bare("&&")
<1> DEFINE ws == script.words
           a == AllWords(script)
           b == IF script.cd THEN CdWords ELSE <<>>
           W == {word \in [text : Letters, as : {"bare", "escaped"} \cup QuoteMarks] : IsWord(word)}
<1>1. /\ script.cd \in BOOLEAN /\ Len(ws) \in Nat /\ DOMAIN ws = 1 .. Len(ws)
      /\ \A k \in 1 .. Len(ws) : IsWord(ws[k])
  BY ScriptWords
<1>2. \A word : IsWord(word) => word \in W
  BY DEF IsWord
<1> HIDE DEF W
<1>3. ws \in Seq(W)
  <2>1. \E T : ws \in Seq(T)
    BY ScriptsAssumption DEF PlainScripts
  <2>2. \A k \in 1 .. Len(ws) : ws[k] \in W
    BY <1>1, <1>2
  <2> HIDE DEF ws
  <2> QED BY <1>1, <2>1, <2>2
<1>4. /\ b \in Seq(W) /\ Len(b) = c /\ c \in Nat
      /\ script.cd => b[1] = Bare("cd") /\ b[2] = Bare("repo") /\ b[3] = Bare("&&")
  <2>1. Bare("cd") \in W /\ Bare("repo") \in W /\ Bare("&&") \in W
    BY <1>2, BareIsWord
  <2>2. CASE script.cd
    <3>1. b = CdWords /\ c = 3
      BY <2>2
    <3> QED BY <2>1, <3>1 DEF CdWords
  <2>3. CASE ~script.cd
    <3>1. b = <<>> /\ c = 0
      BY <2>3
    <3> QED BY <2>3, <3>1
  <2> QED BY <1>1, <2>2, <2>3
<1>5. a = b \o ws
  BY Zenon DEF AllWords, CdWords
<1> HIDE DEF a, b, ws
<1>6. /\ a \in Seq(W) /\ Len(a) = Len(b) + Len(ws)
      /\ \A k \in 1 .. Len(b) : a[k] = b[k]
      /\ \A k \in 1 .. Len(ws) : a[Len(b) + k] = ws[k]
  <2>0. b \in Seq(W) /\ ws \in Seq(W)
    BY <1>3, <1>4
  <2>1. b \o ws \in Seq(W)
    BY <1>3, <1>4, Joined
  <2>2. Len(b \o ws) = Len(b) + Len(ws)
    BY <1>3, <1>4, Joined
  <2>3. \A k \in 1 .. Len(b) : (b \o ws)[k] = b[k]
    BY <1>3, <1>4, Joined
  <2>4. \A k \in 1 .. Len(ws) : (b \o ws)[Len(b) + k] = ws[k]
    BY <2>0, Joined
  <2> QED BY <1>5, <2>1, <2>2, <2>3, <2>4
<1> DEFINE m == c + Len(ws)
<1>7. m \in Nat /\ DOMAIN a = 1 .. m /\ Len(a) = m /\ \A k \in 1 .. m : a[k] \in W
  BY <1>1, <1>4, <1>6
<1>8. \A word \in W : IsWord(word)
  BY DEF W
<1>9. a \in Seq({a[k] : k \in 1 .. m})
  <2> DEFINE T == {a[k] : k \in 1 .. m}
  <2>1. \A k \in 1 .. m : a[k] \in T
    OBVIOUS
  <2>2. a = [k \in 1 .. m |-> a[k]]
    BY <1>6, <1>7
  <2> HIDE DEF T, m
  <2>3. a \in Seq(T)
    BY <1>7, <2>1, <2>2
  <2> QED BY <2>3 DEF T
<1>10. script.cd => a[1] = Bare("cd") /\ a[2] = Bare("repo") /\ a[3] = Bare("&&")
  <2> HAVE script.cd
  <2>1. Len(b) = 3 /\ 1 \in 1 .. 3 /\ 2 \in 1 .. 3 /\ 3 \in 1 .. 3
    BY <1>4
  <2> QED BY <1>4, <1>6, <2>1
<1>11. Follow(ws, a, c, Len(ws))
  BY <1>4, <1>6 DEF Follow
<1>12. \A k \in 1 .. m : IsWord(a[k])
  BY <1>7, <1>8
<1> QED BY <1>4, <1>7, <1>9, <1>10, <1>11, <1>12 DEF a, ws

LEMMA PieceTokens ==
  ASSUME NEW x, NEW v, NEW e, Spelling(x, v, e)
  PROVE  /\ e \in Nat /\ DOMAIN tokenize_command(x) = 1 .. e /\ Len(tokenize_command(x)) = e
         /\ \A k \in 1 .. e : tokenize_command(x)[k] = <<v[k].text>>
<1>1. PICK to : Spells(x, v, e, to)
  BY DEF Spelling
<1>2. e \in Nat
  BY <1>1 DEF Spells
<1>3. tokenize_command(x) = [k \in 1 .. e |-> <<v[k].text>>]
  BY <1>1, TokensOf
<1> QED BY <1>2, <1>3

(* A piece whose first word is not cd is no cd.                            *)
LEMMA NoCd ==
  ASSUME NEW x, NEW v, NEW e, Spelling(x, v, e), e > 0 => v[1].text # "cd"
  PROVE  ~IsCd(tokenize_command(x))
<1> DEFINE t == tokenize_command(x)
<1>1. e \in Nat /\ Len(t) = e /\ \A k \in 1 .. e : t[k] = <<v[k].text>>
  BY PieceTokens
<1> HIDE DEF t
<1> SUFFICES ASSUME IsCd(t) PROVE FALSE
  BY DEF t
<1>2. Len(t) >= 2 /\ t[1] = <<"cd">>
  BY DEF IsCd
<1>3. 1 \in 1 .. e
  BY <1>1, <1>2
<1>4. <<v[1].text>> = <<"cd">>
  BY <1>1, <1>2, <1>3
<1>5. v[1].text = "cd"
  BY <1>4
<1> QED BY <1>1, <1>3, <1>5

(* What is after place p of the words after word c spells them.            *)
LEMMA RestSpells ==
  ASSUME NEW x, NEW w, NEW m, NEW pos, Spells(x, w, m, pos),
         NEW c \in Nat, NEW e \in Nat, m = c + e, NEW v, Follow(v, w, c, e),
         NEW p, p = IF c = 0 THEN 1 ELSE pos[c] + 1, c > 0 => w[c].as = "bare"
  PROVE  \E to : Spells(Trim(SubSeq(x, p, Len(x))), v, e, to)
<1>1. x \in Seq(Letters) /\ Len(x) \in Nat /\ m \in Nat
  BY DEF Spells
<1>2. p \in Nat \ {0} /\ p <= Len(x) + 1
  <2>1. CASE c = 0
    BY <1>1, <2>1
  <2>2. CASE c # 0
    <3>1. c \in 1 .. m
      BY <2>2
    <3>2. pos[c] \in Nat /\ pos[c] \in 1 .. Len(x)
      BY <3>1, FirstAndLast, PlaceFacts
    <3> QED BY <1>1, <2>2, <3>2
  <2> QED BY <2>1, <2>2
<1>3. Within(w, m, pos, c, e, p, Len(x))
  <2> SUFFICES ASSUME NEW k \in 1 .. m
               PROVE  /\ k <= c => pos[k] + Width(w[k]) <= p
                      /\ c < k => p <= pos[k] /\ pos[k] + Width(w[k]) <= Len(x) + 1
    BY DEF Within
  <2>1. pos[k] \in Nat /\ pos[k] >= 1 /\ Width(w[k]) \in {1, 2, 3} /\ pos[k] + Width(w[k]) <= Len(x) + 1
    BY PlaceFacts
  <2>2. CASE c = 0
    BY <2>1, <2>2
  <2>3. CASE c # 0
    <3>1. c \in 1 .. m /\ p = pos[c] + 1
      BY <2>3
    <3>2. pos[c] \in Nat /\ Width(w[c]) \in {1, 2, 3} /\ TextPlace(w[c], pos[c]) = pos[c]
      BY <2>3, <3>1, PlaceFacts
    <3>3. Width(w[c]) = 1
      BY <2>3, <3>1 DEF Width
    <3>4. k < c => pos[k] + Width(w[k]) < pos[c]
      BY <3>1, Ascends
    <3>5. c < k => pos[c] + Width(w[c]) < pos[k]
      BY <3>1, Ascends
    <3>6. k = c => pos[k] + Width(w[k]) = p
      BY <3>1, <3>3
    <3> QED BY <2>1, <3>1, <3>2, <3>3, <3>4, <3>5, <3>6
  <2> QED BY <2>2, <2>3
<1>4. \E to : Spells(SubSeq(x, p, Len(x)), v, e, to)
  <2> DEFINE r == Len(x)
  <2>1. r \in Nat /\ r <= Len(x) /\ c + e <= m /\ p <= r + 1 /\ p \in Nat \ {0}
    BY <1>1, <1>2
  <2>2. Within(w, m, pos, c, e, p, r)
    BY <1>3
  <2> HIDE DEF r
  <2>3. /\ \E to : Spells(SubSeq(x, p, r), v, e, to)
        /\ Len(SubSeq(x, p, r)) = r - p + 1
    <3>1. c \in Nat /\ e \in Nat
      OBVIOUS
    <3> QED BY SMTT(30), <2>1, <2>2, <3>1, SpellPart
  <2> QED BY <2>3 DEF r
<1> QED BY <1>4, TrimSpells

LEMMA StrippedSpells ==
  ASSUME NEW script \in PlainScripts
  PROVE  \E to : Spells(strip_leading_cd_prefix(Trim(CommandOf(script))),
                        script.words, Len(script.words), to)
<1> DEFINE ws == script.words
           e == Len(ws)
           c == IF script.cd THEN 3 ELSE 0
           w == AllWords(script)
           m == c + e
           x == Trim(CommandOf(script))
           C == CdCuts(w, m)
<1>1. /\ script.cd \in BOOLEAN /\ e \in Nat /\ DOMAIN ws = 1 .. e
      /\ \A k \in 1 .. e : IsWord(ws[k])
      /\ e > 0 => ws[1].text # "cd"
  BY ScriptWords
<1>2. /\ c \in Nat /\ DOMAIN w = 1 .. m /\ w \in Seq({w[k] : k \in 1 .. m})
      /\ \A k \in 1 .. m : IsWord(w[k])
      /\ Follow(ws, w, c, e)
      /\ script.cd => w[1] = Bare("cd") /\ w[2] = Bare("repo") /\ w[3] = Bare("&&")
  BY AllWordsAre
<1>3. m \in Nat /\ e \in Nat
  <2> HIDE DEF c, e
  <2> QED BY <1>1, <1>2
<1>4. CommandOf(script) = WrittenOut(w)
  BY DEF CommandOf
<1> HIDE DEF w, ws, e
<1>5. \E pos : Spells(CommandOf(script), w, m, pos)
  <2> HIDE DEF m
  <2>1. \E pos : Spells(WrittenOut(w), w, m, pos)
    BY <1>2, <1>3, WrittenOutSpells
  <2> QED BY <1>4, <2>1
<1>6. PICK pos : Spells(x, w, m, pos)
  <2> HIDE DEF m
  <2> QED BY <1>5, TrimSpells
<1> HIDE DEF x
<1>7. BareWords(C, w, m) /\ C \subseteq 1 .. m
  BY DEF BareWords, CdCuts
<1>8. Plain(x, {"&&"}) = PlacesOf(pos, C)
  <2>1. Space \notin {"&&"}
    BY Zenon DEF Space
  <2> HIDE DEF m
  <2>2. Plain(x, {"&&"}) = {pos[k] : k \in {l \in 1 .. m : w[l].as = "bare" /\ w[l].text \in {"&&"}}}
    BY <1>6, <2>1, PlainOf
  <2> QED BY <2>2 DEF PlacesOf, CdCuts
<1>9. PICK q, d : CutInto(Pieces(x, PlacesOf(pos, C)), w, m, pos, C, q, d)
  <2> HIDE DEF C, m
  <2> QED BY <1>6, <1>7, PiecesAre
<1> DEFINE Q == Pieces(x, PlacesOf(pos, C))
<1>10. strip_leading_cd_prefix(x) = AfterCds(x, Q)
  BY <1>8 DEF strip_leading_cd_prefix
<1> HIDE DEF Q, C
<1>11. /\ CutAt(C, m, q, d) /\ Q \in Seq(Seq(Letters)) /\ Len(Q) = q
       /\ \A j \in 1 .. q : \A v :
            Follow(v, w, d[j - 1], d[j] - d[j - 1] - 1) => Spelling(Q[j], v, d[j] - d[j - 1] - 1)
       /\ q > 1 => Len(Q[1]) = pos[d[1]] - 1
  BY <1>9 DEF CutInto, Q
<1>12. /\ q \in Nat \ {0} /\ d \in [0 .. q -> 0 .. m + 1] /\ d[0] = 0 /\ d[q] = m + 1
       /\ \A j, k \in 0 .. q : j < k => d[j] < d[k]
       /\ \A j \in 1 .. q - 1 : d[j] \in C
       /\ \A k \in C : \E j \in 1 .. q - 1 : d[j] = k
  BY <1>11 DEF CutAt
<1>13. d[1] \in Nat /\ 1 \in 1 .. q /\ d[1] > 0 /\ d[1] <= m + 1
  BY <1>3, <1>12
<1>14. Spelling(Q[1], w, d[1] - 1)
  <2>1. Follow(w, w, 0, d[1] - 1)
    BY <1>13 DEF Follow
  <2>2. d[1 - 1] = 0 /\ d[1] - d[1 - 1] - 1 = d[1] - 1
    BY <1>12, <1>13
  <2>3. Follow(w, w, d[1 - 1], d[1] - d[1 - 1] - 1) => Spelling(Q[1], w, d[1] - d[1 - 1] - 1)
    BY <1>11, <1>13
  <2> QED BY <2>1, <2>2, <2>3
<1>15. CASE ~script.cd
  <2>1. c = 0 /\ m = e
    BY <1>1, <1>15
  <2>2. ~IsCd(tokenize_command(Q[1]))
    <3>1. d[1] - 1 > 0 => w[1].text # "cd"
      <4> HAVE d[1] - 1 > 0
      <4>1. 1 \in 1 .. e /\ e > 0
        BY <1>1, <1>13, <2>1
      <4>2. ws[1] = w[1]
        BY <1>2, <2>1, <4>1 DEF Follow
      <4> QED BY <1>1, <4>1, <4>2
    <3> QED BY <1>14, <3>1, NoCd
  <2>3. AfterCds(x, Q) = Trim(SubSeq(x, 1, Len(x)))
    <3> DEFINE cds == 0
    <3>1. cds \in {0, 1} /\ cds < Len(Q) /\ \A j \in 1 .. cds : IsCd(tokenize_command(Q[j]))
      BY <1>11, <1>12
    <3>2. Len(Q) > cds + 1 => ~IsCd(tokenize_command(Q[cds + 1]))
      BY <2>2
    <3>3. cds = 0
      OBVIOUS
    <3> HIDE DEF cds
    <3>4. AfterCds(x, Q) = Trim(SubSeq(x, IF cds = 0 THEN 1 ELSE Len(Q[1]) + 2, Len(x)))
      BY <1>11, <3>1, <3>2, AfterCdsIs
    <3> QED BY <3>3, <3>4
  <2>4. \E to : Spells(Trim(SubSeq(x, 1, Len(x))), ws, e, to)
    <3>1. Follow(ws, w, 0, e) /\ 0 \in Nat /\ m = 0 + e
      BY <1>2, <1>3, <2>1
    <3> HIDE DEF m
    <3> QED BY <1>3, <1>6, <3>1, RestSpells
  <2> QED BY <1>10, <2>3, <2>4 DEF ws, e, x
<1>16. CASE script.cd
  <2>1. c = 3 /\ m = 3 + e
    BY <1>1, <1>16
  <2>2. 3 \in C /\ 1 \notin C /\ 2 \notin C
    <3>1. "cd" # "&&" /\ "repo" # "&&"
      BY Zenon
    <3>2. w[1].text = "cd" /\ w[2].text = "repo" /\ w[3].text = "&&" /\ w[3].as = "bare"
      BY <1>2, <1>16, BareIsWord
    <3>3. 3 \in 1 .. m
      BY <1>3, <2>1
    <3> QED BY <3>1, <3>2, <3>3 DEF C, CdCuts
  <2>3. d[1] = 3 /\ q > 1
    <3>1. PICK j \in 1 .. q - 1 : d[j] = 3
      BY <1>12, <2>2
    <3>2. j > 1 => d[1] < 3
      BY <1>12, <3>1
    <3>3. 1 \in 1 .. q - 1 /\ d[1] \in C
      BY <1>12, <3>1
    <3>4. d[1] # 1 /\ d[1] # 2
      BY <2>2, <3>3
    <3>5. ~(j > 1)
      BY <1>13, <3>2, <3>4
    <3> QED BY <1>12, <3>1, <3>5
  <2>4. IsCd(tokenize_command(Q[1]))
    <3> DEFINE t == tokenize_command(Q[1])
    <3>1. Spelling(Q[1], w, 2)
      BY <1>14, <2>3
    <3>2. Len(t) = 2 /\ \A k \in 1 .. 2 : t[k] = <<w[k].text>>
      <4> DEFINE two == 2
      <4> HIDE DEF two
      <4>1. Spelling(Q[1], w, two) => Len(t) = two /\ \A k \in 1 .. two : t[k] = <<w[k].text>>
        BY PieceTokens
      <4> QED BY <3>1, <4>1 DEF two
    <3>3. w[1].text = "cd"
      BY <1>2, <1>16, BareIsWord
    <3> HIDE DEF t
    <3>4. t[1] = <<"cd">>
      BY <3>2, <3>3
    <3> QED BY <3>2, <3>4 DEF IsCd, t
  <2>5. Len(Q) > 2 => ~IsCd(tokenize_command(Q[2]))
    <3> SUFFICES ASSUME q > 2 PROVE ~IsCd(tokenize_command(Q[2]))
      BY <1>11
    <3> DEFINE f == d[2] - 4
    <3>1. 2 \in 1 .. q /\ d[2] \in Nat /\ d[2] > 3 /\ d[2] <= m + 1
      BY <1>3, <1>12, <2>3
    <3>2. f \in Nat /\ f <= e
      BY <1>3, <2>1, <3>1
    <3>3. d[2 - 1] = 3 /\ d[2] - d[2 - 1] - 1 = f
      BY <2>3, <3>1
    <3> HIDE DEF f
    <3>4. Follow(ws, w, 3, f)
      BY <1>1, <1>2, <2>1, <3>2 DEF Follow
    <3>5. Follow(ws, w, d[2 - 1], d[2] - d[2 - 1] - 1) => Spelling(Q[2], ws, d[2] - d[2 - 1] - 1)
      BY <1>11, <3>1
    <3>6. Spelling(Q[2], ws, f)
      BY <3>3, <3>4, <3>5
    <3>7. f > 0 => ws[1].text # "cd"
      BY <1>1, <3>2
    <3> QED BY <3>6, <3>7, NoCd
  <2>6. AfterCds(x, Q) = Trim(SubSeq(x, Len(Q[1]) + 2, Len(x)))
    <3> DEFINE cds == 1
    <3>1. cds \in {0, 1} /\ cds < Len(Q) /\ \A j \in 1 .. cds : IsCd(tokenize_command(Q[j]))
      BY <1>11, <1>12, <2>3, <2>4
    <3>2. Len(Q) > cds + 1 => ~IsCd(tokenize_command(Q[cds + 1]))
      BY <2>5
    <3>3. cds = 1
      OBVIOUS
    <3> HIDE DEF cds
    <3>4. AfterCds(x, Q) = Trim(SubSeq(x, IF cds = 0 THEN 1 ELSE Len(Q[1]) + 2, Len(x)))
      BY <1>11, <3>1, <3>2, AfterCdsIs
    <3> QED BY <3>3, <3>4
  <2>7. Len(Q[1]) + 2 = pos[3] + 1
    <3>1. pos[3] \in Nat
      <4>1. 3 \in 1 .. m
        BY <1>3, <2>1
      <4> HIDE DEF m
      <4> QED BY <1>6, <4>1, PlaceFacts
    <3> QED BY <1>11, <2>3, <3>1
  <2>8. \E to : Spells(Trim(SubSeq(x, pos[3] + 1, Len(x))), ws, e, to)
    <3>1. Follow(ws, w, 3, e) /\ 3 \in Nat /\ m = 3 + e
      BY <1>2, <1>3, <2>1
    <3>2. w[3].as = "bare"
      BY <1>2, <1>16, BareIsWord
    <3> HIDE DEF m
    <3> QED BY <1>3, <1>6, <3>1, <3>2, RestSpells
  <2> QED BY <1>10, <2>6, <2>7, <2>8 DEF ws, e, x
<1> QED BY <1>1, <1>15, <1>16

LEMMA Operators ==
  /\ Space \notin SequenceOperators /\ Space \notin Redirects
  /\ "|" \notin SequenceOperators /\ "|" \notin Redirects /\ "|" \notin GitActions
  /\ "dir/" \notin Changers /\ "dir/" \notin ContentReaders
  /\ "dir/" # "find" /\ "dir/" # "fd" /\ "dir/" # "git"
  /\ ShellSeparators = SequenceOperators \cup {"&"} /\ "|" # "&"
BY Zenon DEF Space, SequenceOperators, ShellSeparators, Redirects, GitActions, Changers, ContentReaders

(* What the policy reads of a script's command are its words, in segments. *)
LEMMA PartsAre ==
  ASSUME NEW script \in PlainScripts
  PROVE  \E segs : /\ Segmented(segs, script.words, Len(script.words))
                   /\ command_parts(InventoryInput(script)) = PartsOf(script, segs)
<1> DEFINE ws == script.words
           m == Len(ws)
           c == CommandOf(script)
           x == strip_leading_cd_prefix(Trim(c))
<1>1. m \in Nat
  BY ScriptWords
<1>2. command_parts(InventoryInput(script)) =
        IF Trim(c) # <<>> THEN PiecesParsed(x) ELSE NoCommand
  <2>1. InventoryInput(script).command = c /\ InventoryInput(script).argv = <<>>
    BY Zenon DEF InventoryInput
  <2> HIDE DEF c
  <2> QED BY Zenon, <2>1 DEF command_parts, parse_command
<1>3. PICK pos : Spells(x, ws, m, pos)
  BY StrippedSpells
<1>4. PICK segs : /\ Segmented(segs, ws, m)
                  /\ PiecesParsed(x) =
                       IF segs = <<>> THEN NoCommand
                       ELSE [segments |-> segs, mixed |-> contains_sequence_operator(x),
                             redirect |-> contains_unquoted_redirect(x)]
  <2> HIDE DEF x, ws, m
  <2> QED BY <1>3, SegmentsAre
<1>5. /\ contains_sequence_operator(x) = SomeBare(script, SequenceOperators)
      /\ contains_unquoted_redirect(x) = SomeBare(script, Redirects)
  <2>1. ASSUME NEW texts, Space \notin texts
        PROVE  (Plain(x, texts) # {}) = SomeBare(script, texts)
    <3> DEFINE K == {l \in 1 .. m : ws[l].as = "bare" /\ ws[l].text \in texts}
    <3>1. Plain(x, texts) = {pos[k] : k \in K}
      <4> HIDE DEF x, ws, m
      <4> QED BY <1>3, <2>1, PlainOf
    <3>2. (K # {}) <=> SomeBare(script, texts)
      BY DEF SomeBare, IsBare
    <3> HIDE DEF x, K
    <3>3. Plain(x, texts) # {} <=> K # {}
      BY <3>1
    <3>4. SomeBare(script, texts) \in BOOLEAN
      BY DEF SomeBare
    <3> QED BY <3>2, <3>3, <3>4
  <2> HIDE DEF x
  <2>2. (Plain(x, SequenceOperators) # {}) = SomeBare(script, SequenceOperators)
    BY <2>1, Operators
  <2>3. (Plain(x, Redirects) # {}) = SomeBare(script, Redirects)
    BY <2>1, Operators
  <2> QED BY <2>2, <2>3 DEF contains_sequence_operator, contains_unquoted_redirect
<1>6. CASE Trim(c) # <<>>
  <2> HIDE DEF x, c, ws, m
  <2>1. command_parts(InventoryInput(script)) = PiecesParsed(x)
    BY <1>2, <1>6
  <2>2. PiecesParsed(x) = PartsOf(script, segs)
    BY <1>4, <1>5 DEF PartsOf
  <2> QED BY <1>4, <2>1, <2>2 DEF ws, m
<1>7. CASE Trim(c) = <<>>
  <2> DEFINE w == AllWords(script)
             d == IF script.cd THEN 3 ELSE 0
             n == d + m
  <2>1. /\ d \in Nat /\ DOMAIN w = 1 .. n /\ w \in Seq({w[k] : k \in 1 .. n})
        /\ \A k \in 1 .. n : IsWord(w[k])
    BY AllWordsAre
  <2> HIDE DEF w, d, m
  <2>2. n \in Nat
    BY <1>1, <2>1
  <2> HIDE DEF n
  <2>3. \E to : Spells(WrittenOut(w), w, n, to)
    BY <2>1, <2>2, WrittenOutSpells
  <2>4. PICK to : Spells(Trim(c), w, n, to)
    BY <2>3, TrimSpells DEF CommandOf, w
  <2>5. n = 0
    <3> SUFFICES ASSUME n # 0 PROVE FALSE
      OBVIOUS
    <3>1. 1 \in 1 .. n
      BY <2>2
    <3>2. to[1] \in 1 .. Len(Trim(c))
      BY <2>4, <3>1, FirstAndLast
    <3>3. Len(Trim(c)) = 0
      BY <1>7
    <3> QED BY <3>2, <3>3
  <2>6. m = 0
    BY <1>1, <2>1, <2>5 DEF n
  <2>7. Segmented(<<>>, ws, m)
    <3>1. Begins(ws, m) = {}
      BY <2>6 DEF Begins
    <3>2. DOMAIN <<>> = 1 .. 0 /\ 0 \in Nat
      OBVIOUS
    <3> QED BY <3>1, <3>2 DEF Segmented
  <2>8. command_parts(InventoryInput(script)) = PartsOf(script, <<>>)
    <3>1. PartsOf(script, <<>>) = NoCommand
      BY DEF PartsOf
    <3> QED BY <1>2, <1>7, <3>1
  <2> QED BY <2>7, <2>8 DEF m
<1> QED BY <1>6, <1>7

-----------------------------------------------------------------------------
-----
(* A segment is judged by its first word and by what follows it.           *)

LEMMA FirstsBegin ==
  ASSUME NEW script \in PlainScripts
  PROVE  FirstsOf(script) = Begins(script.words, Len(script.words))
<1> DEFINE ws == script.words
           m == Len(ws)
           pipes == PipesOf(ws, m)
<1>1. m \in Nat /\ DOMAIN ws = 1 .. m
  BY ScriptWords
<1>2. \A k \in 1 .. m : IsBare(script, k, {"|"}) <=> k \in pipes
  BY DEF IsBare, PipesOf
<1>3. \A k \in 1 .. m : k # 1 => k - 1 \in 1 .. m
  BY <1>1
<1> HIDE DEF m, pipes
<1>4. \A k \in 1 .. m : Starts(script, k) <=> k = 1 \/ k - 1 \in pipes
  <2> TAKE k \in 1 .. m
  <2>1. CASE k = 1
    BY <2>1 DEF Starts
  <2>2. CASE k # 1
    <3>1. k - 1 \in 1 .. m
      BY <1>3, <2>2
    <3>2. IsBare(script, k - 1, {"|"}) <=> k - 1 \in pipes
      BY <1>2, <3>1
    <3> QED BY <2>2, <3>2 DEF Starts
  <2> QED BY <2>1, <2>2
<1>5. FirstsOf(script) = {k \in 1 .. m : ~IsBare(script, k, {"|"}) /\ Starts(script, k)}
  BY <1>1 DEF FirstsOf
<1>6. Begins(ws, m) = {k \in 1 .. m : k \notin pipes /\ (k = 1 \/ k - 1 \in pipes)}
  BY DEF Begins, pipes
<1>7. FirstsOf(script) = Begins(ws, m)
  BY <1>2, <1>4, <1>5, <1>6
<1> QED BY <1>7 DEF m

LEMMA Argv0Is ==
  ASSUME NEW seg, NEW text, seg[1] = <<text>>, NEW c, c # "dir/"
  PROVE  argv0(seg) = <<c>> <=> text = c
<1> DEFINE dirs == {i \in DOMAIN seg[1] : seg[1][i] = "dir/"}
<1>1. argv0(seg) = IF dirs = {} THEN seg[1] ELSE SubSeq(seg[1], Max(dirs) + 1, Len(seg[1]))
  BY Zenon DEF argv0
<1>2. DOMAIN seg[1] = {1} /\ seg[1][1] = text /\ Len(seg[1]) = 1
  <2>1. DOMAIN <<text>> = 1 .. 1 /\ <<text>>[1] = text /\ Len(<<text>>) = 1
    OBVIOUS
  <2>2. 1 .. 1 = {1}
    OBVIOUS
  <2> QED BY <2>1, <2>2
<1>3. CASE text # "dir/"
  <2>1. dirs = {}
    BY <1>2, <1>3
  <2>2. argv0(seg) = <<text>>
    BY <1>1, <2>1
  <2> QED BY <2>2
<1>4. CASE text = "dir/"
  <2>1. dirs = 1 .. 1 /\ dirs # {}
    BY <1>2, <1>4
  <2>2. Max(1 .. 1) = 1
    <3>1. 1 \in Nat /\ 1 \in 1 .. 1
      OBVIOUS
    <3> QED BY <3>1, PrefixPlaces
  <2>3. argv0(seg) = SubSeq(<<text>>, 2, 1)
    <3> HIDE DEF dirs
    <3>1. Max(dirs) = 1
      BY <2>1, <2>2
    <3>2. argv0(seg) = SubSeq(seg[1], 1 + 1, 1)
      BY <1>1, <1>2, <2>1, <3>1
    <3> QED BY <3>2
  <2>4. Len(SubSeq(<<text>>, 2, 1)) = 0 /\ Len(<<c>>) = 1
    OBVIOUS
  <2> QED BY <1>4, <2>3, <2>4
<1> QED BY <1>3, <1>4

LEMMA RedirectIs ==
  ASSUME NEW text
  PROVE  is_redirect_token(<<text>>) <=> text \in Redirects
<1>1. ToSet(<<text>>) = {text}
  <2>1. DOMAIN <<text>> = 1 .. 1 /\ <<text>>[1] = text /\ 1 .. 1 = {1}
    OBVIOUS
  <2>2. ToSet(<<text>>) = {<<text>>[i] : i \in DOMAIN <<text>>}
    BY Zenon DEF ToSet
  <2> QED BY <2>1, <2>2
<1> QED BY <1>1 DEF is_redirect_token

LEMMA SegmentFacts ==
  ASSUME NEW script \in PlainScripts, NEW k \in 1 .. Len(script.words), NEW seg,
         WordsFrom(seg, script.words, Len(script.words), k)
  PROVE  \E e \in k + 1 .. Len(script.words) + 1 : SegmentEnds(script, k, seg, e)
<1> DEFINE ws == script.words
           m == Len(ws)
           pipes == PipesOf(ws, m)
<1>1. m \in Nat /\ DOMAIN ws = 1 .. m
  BY ScriptWords
<1>2. \A i \in 1 .. m : IsBare(script, i, {"|"}) <=> i \in pipes
  BY DEF IsBare, PipesOf
<1>3. \A i \in pipes : i \in 1 .. m /\ ws[i].text = "|"
  BY DEF PipesOf
<1>4. PICK e \in k + 1 .. m + 1 :
        /\ e = m + 1 \/ e \in pipes
        /\ \A i \in k .. e - 1 : i \notin pipes
        /\ seg = [i \in 1 .. e - k |-> <<ws[k + i - 1].text>>]
  BY DEF WordsFrom, pipes
<1> HIDE DEF m, pipes
<1>5. k \in Nat /\ k >= 1 /\ k <= m /\ e \in Nat /\ k < e /\ e <= m + 1 /\ e - k \in Nat
  BY <1>1 DEF m
<1>6. \A j \in 1 .. m : IsArgument(script, k, j) <=> k < j /\ j < e
  <2> TAKE j \in 1 .. m
  <2>1. IsArgument(script, k, j) <=> k < j /\ \A i \in k .. j : i \notin pipes
    <3>1. \A i \in k .. j : i \in 1 .. m
      BY <1>1, <1>5
    <3> QED BY <1>2, <3>1 DEF IsArgument
  <2>2. ASSUME k < j, \A i \in k .. j : i \notin pipes
        PROVE  j < e
    BY <1>1, <1>4, <1>5, <2>2
  <2>3. ASSUME k < j, j < e
        PROVE  \A i \in k .. j : i \notin pipes
    BY <1>1, <1>4, <1>5, <2>3
  <2> QED BY <2>1, <2>2, <2>3
<1>7. e <= m => ws[e].text = "|"
  BY <1>1, <1>3, <1>4, <1>5
<1>8. Len(seg) = e - k /\ DOMAIN seg = 1 .. e - k
      /\ \A i \in 1 .. e - k : seg[i] = <<ws[k + i - 1].text>>
  BY <1>4, <1>5
<1> QED BY <1>6, <1>7, <1>8 DEF SegmentEnds, m

LEMMA SegmentJudged ==
  ASSUME NEW script \in PlainScripts, NEW k \in 1 .. Len(script.words), NEW seg,
         WordsFrom(seg, script.words, Len(script.words), k)
  PROVE  /\ is_file_content_read(seg) <=> script.words[k].text \in ContentReaders
         /\ UnsafeAt(script, k) => contains_unsafe_action(seg)
         /\ contains_unsafe_action(seg)
              => \/ UnsafeAt(script, k)
                 \/ \E j \in 1 .. Len(script.words) : script.words[j].text \in Redirects
<1> DEFINE ws == script.words
           m == Len(ws)
           text == ws[k].text
<1>1. m \in Nat /\ DOMAIN ws = 1 .. m
  BY ScriptWords
<1>2. PICK e \in k + 1 .. m + 1 :
        /\ \A j \in 1 .. m : IsArgument(script, k, j) <=> k < j /\ j < e
        /\ e <= m => ws[e].text = "|"
        /\ Len(seg) = e - k /\ DOMAIN seg = 1 .. e - k
        /\ \A i \in 1 .. e - k : seg[i] = <<ws[k + i - 1].text>>
  <2>1. PICK e \in k + 1 .. m + 1 : SegmentEnds(script, k, seg, e)
    BY SegmentFacts
  <2> QED BY <2>1 DEF SegmentEnds
<1>3. k \in Nat /\ k >= 1 /\ k <= m /\ e \in Nat /\ k < e /\ e <= m + 1 /\ 1 \in 1 .. e - k
  BY <1>1
<1> HIDE DEF m
<1>4. seg[1] = <<text>>
  <2>1. k + 1 - 1 = k
    BY <1>3
  <2> QED BY <1>2, <1>3, <2>1
<1>5. \A j \in 1 .. m : k <= j /\ j < e => j - k + 1 \in 1 .. e - k /\ seg[j - k + 1] = <<ws[j].text>>
  <2> TAKE j \in 1 .. m
  <2> HAVE k <= j /\ j < e
  <2>1. j - k + 1 \in 1 .. e - k /\ k + (j - k + 1) - 1 = j
    BY <1>1, <1>3
  <2> QED BY <1>2, <2>1
<1>6. \A i \in 1 .. e - k : k + i - 1 \in 1 .. m
  BY <1>1, <1>3
<1> HIDE DEF text
<1>7. \A c : c # "dir/" => (argv0(seg) = <<c>> <=> text = c)
  <2> TAKE c
  <2> HAVE c # "dir/"
  <2> QED BY <1>4, Argv0Is
<1>8. ASSUME NEW T, "dir/" \notin T
      PROVE  argv0(seg) \in {<<c>> : c \in T} <=> text \in T
  <2>1. \A c \in T : argv0(seg) = <<c>> <=> text = c
    BY <1>7, <1>8
  <2> QED BY <2>1
<1>9. ASSUME NEW T
      PROVE  HasArgument(seg, T) <=> \E j \in 1 .. m : IsArgument(script, k, j) /\ ws[j].text \in T
  <2>1. ASSUME HasArgument(seg, T)
        PROVE  \E j \in 1 .. m : IsArgument(script, k, j) /\ ws[j].text \in T
    <3>1. PICK i \in 2 .. e - k : seg[i] \in {<<c>> : c \in T}
      BY <1>2, <2>1 DEF HasArgument
    <3>2. i \in 1 .. e - k /\ k + i - 1 \in 1 .. m /\ k < k + i - 1 /\ k + i - 1 < e
      BY <1>3, <1>6
    <3>3. seg[i] = <<ws[k + i - 1].text>>
      BY <1>2, <3>2
    <3>4. ws[k + i - 1].text \in T
      BY <3>1, <3>3
    <3> QED BY <1>2, <3>2, <3>4
  <2>2. ASSUME NEW j \in 1 .. m, IsArgument(script, k, j), ws[j].text \in T
        PROVE  HasArgument(seg, T)
    <3>1. k < j /\ j < e
      BY <1>2, <2>2
    <3>2. j - k + 1 \in 2 .. e - k /\ seg[j - k + 1] = <<ws[j].text>>
      BY <1>1, <1>3, <1>5, <3>1
    <3> QED BY <1>2, <2>2, <3>2 DEF HasArgument
  <2> QED BY <2>1, <2>2
<1>10. (\E i \in DOMAIN seg : is_redirect_token(seg[i]))
         => \E j \in 1 .. m : ws[j].text \in Redirects
  <2> SUFFICES ASSUME NEW i \in DOMAIN seg, is_redirect_token(seg[i])
               PROVE  \E j \in 1 .. m : ws[j].text \in Redirects
    OBVIOUS
  <2>1. i \in 1 .. e - k /\ seg[i] = <<ws[k + i - 1].text>> /\ k + i - 1 \in 1 .. m
    BY <1>2, <1>6
  <2>2. ws[k + i - 1].text \in Redirects
    BY <2>1, RedirectIs
  <2> QED BY <2>1, <2>2
<1>11. Len(seg) > 1 /\ seg[2] \in {<<a>> : a \in GitActions}
         <=> k < m /\ ws[k + 1].text \in GitActions
  <2>1. CASE e = k + 1
    <3>1. ~(Len(seg) > 1)
      BY <1>2, <1>3, <2>1
    <3>2. k < m => ws[k + 1].text = "|"
      BY <1>1, <1>2, <1>3, <2>1
    <3> QED BY <3>1, <3>2, Operators
  <2>2. CASE e # k + 1
    <3>1. 2 \in 1 .. e - k /\ Len(seg) > 1 /\ k < m /\ k + 2 - 1 = k + 1
      BY <1>1, <1>2, <1>3, <2>2
    <3>2. seg[2] = <<ws[k + 1].text>>
      BY <1>2, <3>1
    <3> QED BY <3>1, <3>2
  <2> QED BY <2>1, <2>2
<1>12. is_file_content_read(seg) <=> text \in ContentReaders
  BY <1>8, Operators DEF is_file_content_read
<1>13. argv0(seg) \in {<<c>> : c \in Changers} <=> text \in Changers
  BY <1>8, Operators
<1>14. /\ argv0(seg) = <<"find">> <=> text = "find"
       /\ argv0(seg) = <<"fd">> <=> text = "fd"
       /\ argv0(seg) = <<"git">> <=> text = "git"
  BY <1>7, Operators
<1>15. \A c, T : ActsAt(script, k, c, T) <=> text = c /\ HasArgument(seg, T)
  BY <1>1, <1>9 DEF ActsAt, text
<1>16. UnsafeAt(script, k) <=>
         \/ argv0(seg) = <<"find">> /\ HasArgument(seg, FindActions)
         \/ argv0(seg) = <<"fd">> /\ HasArgument(seg, FdActions)
         \/ argv0(seg) \in {<<c>> : c \in Changers}
         \/ argv0(seg) = <<"git">> /\ Len(seg) > 1 /\ seg[2] \in {<<a>> : a \in GitActions}
  BY <1>11, <1>13, <1>14, <1>15 DEF UnsafeAt, text, m
<1>17. contains_unsafe_action(seg) <=>
         (\E i \in DOMAIN seg : is_redirect_token(seg[i])) \/ UnsafeAt(script, k)
  BY <1>16 DEF contains_unsafe_action
<1> QED BY <1>10, <1>12, <1>17 DEF text, m

(***************************************************************************)
(* What the policy decides of a script's command, for every script.        *)
(***************************************************************************)
LEMMA SafeScriptIs ==
  ASSUME NEW script \in PlainScripts, NEW redirects
  PROVE  SafeScript(script, redirects) <=>
           /\ ~SomeBare(script, ShellSeparators)
           /\ \A k \in 1 .. Len(script.words) : k \notin redirects
           /\ \A k \in FirstsOf(script) : ~UnsafeAt(script, k)
           /\ FirstsOf(script) # {}
                => script.words[Min(FirstsOf(script))].text \notin ContentReaders
<1>1. DOMAIN script.words = 1 .. Len(script.words)
  BY ScriptWords
<1>2. SafeScript(script, redirects) <=>
        /\ \A k \in DOMAIN script.words :
             ~IsBare(script, k, ShellSeparators) /\ k \notin redirects
        /\ \A k \in FirstsOf(script) :
             /\ script.words[k].text \notin Changers
             /\ ~ActsAt(script, k, "find", FindActions) /\ ~ActsAt(script, k, "fd", FdActions)
             /\ script.words[k].text = "git" /\ k < Len(script.words)
                  => script.words[k + 1].text \notin GitActions
        /\ FirstsOf(script) # {}
             => script.words[Min(FirstsOf(script))].text \notin ContentReaders
  BY Zenon DEF SafeScript, FirstsOf, ActsAt
<1>3. \A k \in FirstsOf(script) :
        ~UnsafeAt(script, k) <=>
          /\ script.words[k].text \notin Changers
          /\ ~ActsAt(script, k, "find", FindActions) /\ ~ActsAt(script, k, "fd", FdActions)
          /\ script.words[k].text = "git" /\ k < Len(script.words)
               => script.words[k + 1].text \notin GitActions
  BY Zenon DEF UnsafeAt
<1> QED BY <1>1, <1>2, <1>3 DEF SomeBare

LEMMA CompactIs ==
  ASSUME NEW script \in PlainScripts, NEW segs, Segmented(segs, script.words, Len(script.words))
  PROVE  Decision(PartsOf(script, segs), "AllowSafeInventory") = "Compact" <=>
           \/ segs = <<>>
           \/ /\ ~SomeBare(script, SequenceOperators) /\ ~SomeBare(script, Redirects)
              /\ ~\E j \in DOMAIN segs : contains_unsafe_action(segs[j])
              /\ ~is_file_content_read(segs[1])
<1> DEFINE parts == PartsOf(script, segs)
           decision == Decision(parts, "AllowSafeInventory")
           reads == parts # NoCommand /\ contains_file_content_read(parts)
<1>1. decision = CASE parts = NoCommand -> "Compact"
                   [] parts # NoCommand /\ parts.mixed -> "SkipMixedShell"
                   [] ~parts.mixed /\ has_unsafe_action(parts) -> "SkipUnsafeAction"
                   [] OTHER -> IF reads THEN "SkipFileContent" ELSE "Compact"
  BY DEF Decision
<1>2. CASE segs = <<>>
  <2>1. parts = NoCommand /\ ~NoCommand.mixed /\ ~NoCommand.redirect /\ NoCommand.segments = <<>>
    BY <1>2 DEF PartsOf, NoCommand
  <2>2. ~has_unsafe_action(parts)
    <3>1. DOMAIN <<>> = {}
      OBVIOUS
    <3> QED BY <2>1, <3>1 DEF has_unsafe_action
  <2>3. decision = "Compact"
    <3> HIDE DEF parts, decision
    <3> QED BY <1>1, <2>1, <2>2
  <2> QED BY <1>2, <2>3 DEF decision, parts
<1>3. CASE segs # <<>>
  <2>1. /\ parts.segments = segs /\ parts.mixed = SomeBare(script, SequenceOperators)
        /\ parts.redirect = SomeBare(script, Redirects)
    BY <1>3 DEF PartsOf
  <2>2. parts # NoCommand
    BY <1>3, <2>1 DEF NoCommand
  <2>3. has_unsafe_action(parts) <=>
          SomeBare(script, Redirects) \/ \E j \in DOMAIN segs : contains_unsafe_action(segs[j])
    BY <2>1 DEF has_unsafe_action
  <2>4. reads <=> is_file_content_read(segs[1])
    BY <2>1, <2>2 DEF contains_file_content_read
  <2>5. parts.mixed \in BOOLEAN
    BY <2>1 DEF SomeBare
  <2> HIDE DEF parts, decision, reads
  <2>6. decision = "Compact" <=> ~parts.mixed /\ ~has_unsafe_action(parts) /\ ~reads
    BY <1>1, <2>2, <2>5
  <2> QED BY <1>3, <2>1, <2>3, <2>4, <2>6 DEF decision, parts
<1> QED BY <1>2, <1>3

LEMMA NothingBegins ==
  ASSUME NEW script \in PlainScripts, FirstsOf(script) = {}
  PROVE  \A k \in 1 .. Len(script.words) : script.words[k].text = "|"
<1> DEFINE ws == script.words
           m == Len(ws)
           pipes == PipesOf(ws, m)
           S == {0} \cup pipes
<1>1. m \in Nat
  BY ScriptWords
<1>2. Begins(ws, m) = {}
  BY FirstsBegin
<1>3. \A k \in pipes : ws[k].text = "|"
  BY DEF PipesOf
<1> HIDE DEF m, pipes
<1>4. \A i \in 1 .. m : i - 1 \in S => i \in S
  <2> TAKE i \in 1 .. m
  <2> HAVE i - 1 \in S
  <2>1. i = 1 \/ i - 1 \in pipes
    BY <1>1
  <2>2. i \in pipes
    BY <1>2, <2>1 DEF Begins, pipes
  <2> QED BY <2>2
<1>5. 0 \in S
  OBVIOUS
<1> HIDE DEF S
<1>6. 0 .. m \subseteq S
  BY <1>1, <1>4, <1>5, Inductive
<1>7. \A k \in 1 .. m : k \in pipes
  BY <1>1, <1>6 DEF S
<1> QED BY <1>3, <1>7 DEF m

LEMMA CommandIsRead ==
  ASSUME NEW script \in PlainScripts, NEW decision,
         decision = apply_shell_compaction_policy(InventoryInput(script), "AllowSafeInventory")
  PROVE  /\ decision = "Compact" /\ ~SomeBare(script, {"&"}) => SafeScript(script, BareAnglesOf(script))
         /\ SafeScript(script, AnglesOf(script)) => decision = "Compact"
<1> DEFINE ws == script.words
           m == Len(ws)
           firsts == FirstsOf(script)
<1>1. m \in Nat /\ DOMAIN ws = 1 .. m
  BY ScriptWords
<1>2. PICK segs : Segmented(segs, ws, m) /\ command_parts(InventoryInput(script)) = PartsOf(script, segs)
  BY PartsAre
<1>3. decision = "Compact" <=>
        \/ segs = <<>>
        \/ /\ ~SomeBare(script, SequenceOperators) /\ ~SomeBare(script, Redirects)
           /\ ~\E j \in DOMAIN segs : contains_unsafe_action(segs[j])
           /\ ~is_file_content_read(segs[1])
  <2>1. decision = Decision(PartsOf(script, segs), "AllowSafeInventory")
    BY <1>2 DEF apply_shell_compaction_policy
  <2> QED BY <1>2, <2>1, CompactIs
<1>4. PICK t \in Nat :
        /\ DOMAIN segs = 1 .. t /\ (segs = <<>> <=> t = 0)
        /\ \A j \in 1 .. t : \E k \in firsts : WordsFrom(segs[j], ws, m, k)
        /\ \A k \in firsts : \E j \in 1 .. t : WordsFrom(segs[j], ws, m, k)
        /\ \A k \in firsts : (\A l \in firsts : k <= l) => t > 0 /\ WordsFrom(segs[1], ws, m, k)
  BY <1>2, FirstsBegin DEF Segmented
<1>5. firsts \subseteq 1 .. m
  BY <1>1 DEF FirstsOf
<1> HIDE DEF m, firsts
<1>6. \A k \in firsts : \A seg : WordsFrom(seg, ws, m, k) =>
        /\ is_file_content_read(seg) <=> ws[k].text \in ContentReaders
        /\ UnsafeAt(script, k) => contains_unsafe_action(seg)
        /\ contains_unsafe_action(seg) =>
             UnsafeAt(script, k) \/ \E j \in 1 .. m : ws[j].text \in Redirects
  <2> TAKE k \in firsts
  <2> TAKE seg
  <2> HAVE WordsFrom(seg, ws, m, k)
  <2>1. k \in 1 .. Len(script.words) /\ WordsFrom(seg, script.words, Len(script.words), k)
    BY <1>5 DEF m
  <2> QED BY <2>1, SegmentJudged DEF m
<1>7. firsts # {} =>
        /\ Min(firsts) \in firsts /\ t > 0
        /\ is_file_content_read(segs[1]) <=> ws[Min(firsts)].text \in ContentReaders
  <2> HAVE firsts # {}
  <2>1. Min(firsts) \in firsts /\ \A l \in firsts : Min(firsts) <= l
    BY <1>1, <1>5, MinIs
  <2>2. t > 0 /\ WordsFrom(segs[1], ws, m, Min(firsts))
    BY <1>4, <2>1
  <2> QED BY <1>6, <2>1, <2>2
<1>8. ASSUME NEW redirects
      PROVE  SafeScript(script, redirects) <=>
               /\ ~SomeBare(script, SequenceOperators) /\ ~SomeBare(script, {"&"})
               /\ \A k \in 1 .. m : k \notin redirects
               /\ \A k \in firsts : ~UnsafeAt(script, k)
               /\ firsts # {} => ws[Min(firsts)].text \notin ContentReaders
  <2>1. SomeBare(script, ShellSeparators) <=>
          SomeBare(script, SequenceOperators) \/ SomeBare(script, {"&"})
    BY Operators DEF SomeBare, IsBare
  <2> QED BY <2>1, SafeScriptIs DEF m, firsts
<1>9. /\ \A k \in 1 .. m : k \in AnglesOf(script) <=> ws[k].text \in Redirects
      /\ \A k \in 1 .. m : k \in BareAnglesOf(script) <=> IsBare(script, k, Redirects)
  BY <1>1 DEF AnglesOf, BareAnglesOf, IsBare
<1>10. ASSUME decision = "Compact", ~SomeBare(script, {"&"})
       PROVE  SafeScript(script, BareAnglesOf(script))
  <2>1. CASE segs = <<>>
    <3>1. firsts = {}
      BY <1>4, <2>1
    <3>2. \A k \in 1 .. m : ws[k].text = "|"
      BY <3>1, NothingBegins DEF firsts, m
    <3>3. \A k \in 1 .. m : ~IsBare(script, k, SequenceOperators) /\ ~IsBare(script, k, Redirects)
      BY <3>2, Operators DEF IsBare
    <3>4. ~SomeBare(script, SequenceOperators)
      BY <3>3 DEF SomeBare, m
    <3> QED BY <1>8, <1>9, <1>10, <3>1, <3>3, <3>4
  <2>2. CASE segs # <<>>
    <3>1. /\ ~SomeBare(script, SequenceOperators) /\ ~SomeBare(script, Redirects)
          /\ ~\E j \in DOMAIN segs : contains_unsafe_action(segs[j])
          /\ ~is_file_content_read(segs[1])
      BY <1>3, <1>10, <2>2
    <3>2. \A k \in 1 .. m : k \notin BareAnglesOf(script)
      BY <1>9, <3>1 DEF SomeBare, m
    <3>3. \A k \in firsts : ~UnsafeAt(script, k)
      <4> TAKE k \in firsts
      <4>1. PICK j \in 1 .. t : WordsFrom(segs[j], ws, m, k)
        BY <1>4
      <4>2. ~contains_unsafe_action(segs[j])
        BY <1>4, <3>1
      <4> QED BY <1>6, <4>1, <4>2
    <3> QED BY <1>7, <1>8, <1>10, <3>1, <3>2, <3>3
  <2> QED BY <2>1, <2>2
<1>11. ASSUME SafeScript(script, AnglesOf(script)), segs # <<>>
       PROVE  decision = "Compact"
  <2>1. /\ ~SomeBare(script, SequenceOperators)
        /\ \A k \in 1 .. m : ws[k].text \notin Redirects
        /\ \A k \in firsts : ~UnsafeAt(script, k)
        /\ firsts # {} => ws[Min(firsts)].text \notin ContentReaders
    BY <1>8, <1>9, <1>11
  <2>2. ~SomeBare(script, Redirects)
    BY <2>1 DEF SomeBare, IsBare, m
  <2>3. ~\E j \in DOMAIN segs : contains_unsafe_action(segs[j])
    <3> SUFFICES ASSUME NEW j \in DOMAIN segs, contains_unsafe_action(segs[j]) PROVE FALSE
      OBVIOUS
    <3>1. PICK k \in firsts : WordsFrom(segs[j], ws, m, k)
      BY <1>4
    <3> QED BY <1>6, <2>1, <3>1
  <2>4. firsts # {}
    <3>1. t # 0 /\ 1 \in 1 .. t
      BY <1>4, <1>11
    <3> QED BY <1>4, <3>1
  <2> QED BY <1>3, <1>7, <2>1, <2>2, <2>3, <2>4
<1>12. segs = <<>> => decision = "Compact"
  BY <1>3
<1> QED BY <1>10, <1>11, <1>12

-----------------------------------------------------------------------------
(***************************************************************************)
(* A call keeps what it was asked, what was asked is one of the inputs of  *)
(* its tool, and what it is answered is what the tool makes of it.         *)
(***************************************************************************)
FromPrefix(call) ==
  /\ asked.input = call.input /\ asked.frozen_range = call.frozen_range
  /\ asked.matches = call.matches

FromSplice(call) ==
  asked.input = call.input /\ asked.zone = call.zone /\ asked.replacements = call.replacements

CallAsked ==
  /\ asked.tool = "policy" => asked.script \in Scripts
  /\ asked.tool = "look" => asked.look \in Looks
  /\ asked.tool = "volatile" => \E call \in FrozenPrefixes : FromPrefix(call)
  /\ asked.tool = "splice" => \E call \in Splices : FromSplice(call)
  /\ asked.tool = "handoff" => asked.input \in Transcripts

CallAnswered ==
  /\ Answered("policy") =>
       answer.decision = apply_shell_compaction_policy(InventoryInput(asked.script),
                                                       "AllowSafeInventory")
  /\ Answered("look") => answer = run_on_text(asked.look.text, asked.look.op, asked.look.scope)
  /\ Answered("volatile") =>
       answer.findings = detect_volatile_cache_values(asked.input, asked.frozen_range, asked.matches)
  /\ Answered("splice") =>
       answer = splice_live_zone_replacements(asked.input, asked.zone, asked.replacements)
  /\ Answered("handoff") => answer = summarize_subagent_transcript(asked.input)

CallAnswers == (asked = Nothing => answer = None) /\ CallAsked /\ CallAnswered

LEMMA AskedIs ==
  ASSUME NEW tool, NEW inputs, Asked(tool, inputs)
  PROVE  /\ asked'.tool = tool
         /\ \E input \in inputs : \A f \in DOMAIN input : f # "tool" => asked'[f] = input[f]
BY DEF Asked

LEMMA InputsAsked ==
  ASSUME Ask
  PROVE  CallAsked'
<1> DEFINE Tools == {"signal", "templates", "diff", "search", "snippets", "text", "json", "code",
                      "stub", "html", "markdown", "reduce", "rules"}
<1>1. \/ \E tool \in Tools : \E inputs : Asked(tool, inputs)
      \/ Asked("policy", [script : Scripts])
      \/ Asked("look", [look : Looks])
      \/ Asked("volatile", FrozenPrefixes)
      \/ Asked("splice", Splices)
      \/ Asked("handoff", [input : Transcripts])
  BY Zenon DEF Ask
<1>2. CASE \E tool \in Tools : \E inputs : Asked(tool, inputs)
  <2>1. PICK tool \in Tools : \E inputs : Asked(tool, inputs)
    BY <1>2
  <2>2. asked'.tool = tool
    BY <2>1, AskedIs
  <2> QED BY <2>2 DEF CallAsked
<1>3. CASE Asked("policy", [script : Scripts])
  <2>1. asked'.tool = "policy"
    BY <1>3, AskedIs
  <2>2. \E input \in [script : Scripts] : \A f \in DOMAIN input : f # "tool" => asked'[f] = input[f]
    BY <1>3, AskedIs
  <2>3. asked'.script \in Scripts
    BY <2>2
  <2> QED BY <2>1, <2>3 DEF CallAsked
<1>4. CASE Asked("look", [look : Looks])
  <2>1. asked'.tool = "look"
    BY <1>4, AskedIs
  <2>2. \E input \in [look : Looks] : \A f \in DOMAIN input : f # "tool" => asked'[f] = input[f]
    BY <1>4, AskedIs
  <2>3. asked'.look \in Looks
    BY <2>2
  <2> QED BY <2>1, <2>3 DEF CallAsked
<1>5. CASE Asked("volatile", FrozenPrefixes)
  <2>1. asked'.tool = "volatile"
    BY <1>5, AskedIs
  <2>2. PICK input \in FrozenPrefixes : \A f \in DOMAIN input : f # "tool" => asked'[f] = input[f]
    BY <1>5, AskedIs
  <2>3. {"input", "frozen_range", "matches"} \subseteq DOMAIN input
    BY FrozenAssumption
  <2>4. FromPrefix(input)'
    BY <2>2, <2>3 DEF FromPrefix
  <2> QED BY <2>1, <2>4 DEF CallAsked
<1>6. CASE Asked("splice", Splices)
  <2>1. asked'.tool = "splice"
    BY <1>6, AskedIs
  <2>2. PICK input \in Splices : \A f \in DOMAIN input : f # "tool" => asked'[f] = input[f]
    BY <1>6, AskedIs
  <2>3. {"input", "zone", "replacements"} \subseteq DOMAIN input
    BY SplicesAssumption
  <2>4. FromSplice(input)'
    BY <2>2, <2>3 DEF FromSplice
  <2> QED BY <2>1, <2>4 DEF CallAsked
<1>7. CASE Asked("handoff", [input : Transcripts])
  <2>1. asked'.tool = "handoff"
    BY <1>7, AskedIs
  <2>2. \E input \in [input : Transcripts] : \A f \in DOMAIN input : f # "tool" => asked'[f] = input[f]
    BY <1>7, AskedIs
  <2>3. asked'.input \in Transcripts
    BY <2>2
  <2> QED BY <2>1, <2>3 DEF CallAsked
<1> QED BY <1>1, <1>2, <1>3, <1>4, <1>5, <1>6, <1>7

LEMMA ReplyIs ==
  ASSUME CallAnswers, NEW tool, NEW result, Reply(tool, result), tool # "none",
         tool = "policy" => result.decision = apply_shell_compaction_policy(
                              InventoryInput(asked.script), "AllowSafeInventory"),
         tool = "look" => result = run_on_text(asked.look.text, asked.look.op, asked.look.scope),
         tool = "volatile" => result.findings = detect_volatile_cache_values(
                                asked.input, asked.frozen_range, asked.matches),
         tool = "splice" => result = splice_live_zone_replacements(
                              asked.input, asked.zone, asked.replacements),
         tool = "handoff" => result = summarize_subagent_transcript(asked.input)
  PROVE  CallAnswers'
<1>1. asked.tool = tool /\ asked' = asked /\ answer' = result
  BY DEF Reply
<1>2. asked # Nothing
  BY <1>1 DEF Nothing
<1>3. CallAsked'
  BY <1>1 DEF CallAnswers, CallAsked, FromPrefix, FromSplice
<1>4. CallAnswered'
  BY <1>1 DEF CallAnswered, Answered
<1> QED BY <1>1, <1>2, <1>3, <1>4 DEF CallAnswers

LEMMA CallStep ==
  ASSUME CallAnswers, [CallNext]_calls
  PROVE  CallAnswers'
<1>1. CASE Ask
  <2>1. asked = Nothing /\ UNCHANGED answer
    BY <1>1 DEF Ask
  <2>2. answer' = None
    BY <2>1 DEF CallAnswers
  <2> QED BY <1>1, <2>2, InputsAsked DEF CallAnswers, CallAnswered, Answered
<1>2. CASE ShellOutput
  BY <1>2, ReplyIs DEF ShellOutput, InventoryInput
<1>3. CASE RunOp
  BY <1>3, ReplyIs DEF RunOp
<1>4. CASE DetectVolatile
  BY <1>4, ReplyIs DEF DetectVolatile
<1>5. CASE SpliceZone
  BY <1>5, ReplyIs DEF SpliceZone
<1>6. CASE SummarizeSubagent
  BY <1>6, ReplyIs DEF SummarizeSubagent
<1>7. CASE UNCHANGED calls
  BY <1>7 DEF calls, CallAnswers, CallAsked, CallAnswered, Answered, FromPrefix, FromSplice
<1>8. ASSUME ~Ask, ~ShellOutput, ~RunOp, ~DetectVolatile, ~SpliceZone, ~SummarizeSubagent, CallNext
      PROVE  CallAnswers'
  <2> DEFINE Tools == {"signal", "templates", "diff", "search", "snippets", "text", "json", "code",
                       "stub", "html", "markdown", "reduce", "rules"}
  <2>1. \E tool \in Tools : \E result : Reply(tool, result)
    <3>1. /\ SignalLog => \E result : Reply("signal", result)
          /\ LogTemplates => \E result : Reply("templates", result)
          /\ Diff => \E result : Reply("diff", result)
          /\ Search => \E result : Reply("search", result)
          /\ SnippetWindows => \E result : Reply("snippets", result)
          /\ TextCrush => \E result : Reply("text", result)
          /\ SmartCrush => \E result : Reply("json", result)
      BY Zenon DEF SignalLog, LogTemplates, Diff, Search, SnippetWindows, TextCrush, SmartCrush
    <3>2. /\ CodeOutline => \E result : Reply("code", result)
          /\ CodeStubRead => \E result : Reply("stub", result)
          /\ HtmlText => \E result : Reply("html", result)
          /\ HtmlMarkdown => \E result : Reply("markdown", result)
          /\ ReduceExecution => \E result : Reply("reduce", result)
          /\ LoadRules => \E result : Reply("rules", result)
      BY Zenon DEF CodeOutline, CodeStubRead, HtmlText, HtmlMarkdown, ReduceExecution, LoadRules
    <3> QED BY <1>8, <3>1, <3>2 DEF CallNext
  <2>2. PICK tool \in Tools : \E result : Reply(tool, result)
    BY <2>1
  <2>3. tool \notin {"none", "policy", "look", "volatile", "splice", "handoff"}
    OBVIOUS
  <2>4. PICK result : Reply(tool, result)
    BY <2>2
  <2> QED BY <2>3, <2>4, ReplyIs
<1> QED BY <1>1, <1>2, <1>3, <1>4, <1>5, <1>6, <1>7, <1>8

LEMMA CallsFit == CallSpec => []CallAnswers
<1>1. CallInit => CallAnswers
  <2>1. Nothing.tool \notin {"policy", "look", "volatile", "splice", "handoff"}
    BY DEF Nothing
  <2> QED BY <2>1 DEF CallInit, CallAnswers, CallAsked, CallAnswered, Answered
<1>2. CallAnswers /\ [CallNext]_calls => CallAnswers'
  BY CallStep
<1> QED BY <1>1, <1>2, PTL DEF CallSpec

(***************************************************************************)
(* Output of a command that has no "&" of its own and no backslash in      *)
(* single quotes is let through to a summary only for a pipeline of        *)
(* commands that none of the listed ones change anything by and that does  *)
(* not start by reading a file; and for every such command it is let       *)
(* through.  A command is any number of words with blanks between them,    *)
(* each of them bare, in quotes or escaped.                                *)
(* (apply_shell_compaction_policy and what it calls, policy/shell.rs)      *)
(***************************************************************************)
THEOREM PolicyReadsEveryCommand == CallSpec => []PolicyReadsTheCommand
<1>1. CallAnswers => PolicyReadsTheCommand
  <2> SUFFICES ASSUME CallAnswers, Answered("policy"), ~HasBareBackslash(asked.script)
               PROVE  /\ answer.decision = "Compact" /\ ~SomeBare(asked.script, {"&"})
                           => SafeScript(asked.script, BareAnglesOf(asked.script))
                      /\ SafeScript(asked.script, AnglesOf(asked.script)) => answer.decision = "Compact"
    <3>1. asked.script \in PlainScripts => DOMAIN asked.script.words = 1 .. Len(asked.script.words)
      BY ScriptWords
    <3>2. CallAnswers /\ Answered("policy") => asked.script \in Scripts
      BY DEF CallAnswers, CallAsked, Answered
    <3> QED BY Zenon, <3>1, <3>2 DEF PolicyReadsTheCommand, AnglesOf, BareAnglesOf, SomeBare, PlainScripts
  <2>1. /\ asked.script \in PlainScripts
        /\ answer.decision = apply_shell_compaction_policy(InventoryInput(asked.script),
                                                           "AllowSafeInventory")
    BY DEF CallAnswers, CallAsked, CallAnswered, Answered, PlainScripts
  <2> QED BY <2>1, CommandIsRead
<1> QED BY <1>1, CallsFit, PTL

LEMMA FoldRun ==
  ASSUME NEW n \in Nat, NEW A, NEW base \in A, NEW F, Stays(F, A, n),
         NEW it, Follows(it, n, A, base, F)
  PROVE  \E g \in [0 .. n -> A] : g[n] = it[1 .. n] /\ IsRun(g, n, base, F)
<1> USE DEF Stays, Follows, IsRun
<1> DEFINE g == [i \in 0 .. n |-> it[1 .. i]]
           Good == {i \in 0 .. n : it[1 .. i] \in A}
<1>1. ASSUME NEW i \in 1 .. n, i - 1 \in Good
      PROVE  i \in Good /\ it[1 .. i] = F[<<it[1 .. i - 1], i>>]
  <2>1. /\ 1 .. i \in SUBSET (1 .. n) /\ 1 .. i # {}
        /\ Max(1 .. i) = i /\ (1 .. i) \ {i} = 1 .. i - 1
    BY PrefixPlaces
  <2>2. it[1 .. i] = F[<<it[1 .. i - 1], i>>] /\ it[1 .. i] \in A
    BY ZenonT(30), <1>1, <2>1
  <2> QED BY <2>2
<1>2. it[1 .. 0] = base /\ 0 \in Good
  BY PrefixPlaces
<1>3. 0 .. n \subseteq Good
  <2> HIDE DEF Good
  <2> QED BY <1>1, <1>2, Inductive
<1>4. \A i \in 1 .. n : i - 1 \in Good /\ i \in 0 .. n /\ i - 1 \in 0 .. n
  BY <1>3
<1>5. g \in [0 .. n -> A] /\ g[0] = base /\ g[n] = it[1 .. n]
  BY <1>2, <1>3
<1>6. \A i \in 1 .. n : g[i] = F[<<g[i - 1], i>>]
  <2> HIDE DEF Good
  <2> QED BY <1>1, <1>4
<1> HIDE DEF g
<1> QED BY <1>5, <1>6

LEMMA BelowRange ==
  ASSUME NEW S, IsFiniteSet(S), NEW R, Orders(R, S), NEW i \in S
  PROVE  Cardinality(Below(S, R, i)) \in 0 .. Cardinality(S) - 1 /\ Cardinality(S) \in Nat
<1>1. Cardinality(S) \in Nat
  BY FS_CardinalityType
<1>2. Below(S, R, i) \subseteq S /\ i \notin Below(S, R, i)
  BY DEF Below, Orders
<1>3. /\ Cardinality(Below(S, R, i)) <= Cardinality(S)
      /\ Cardinality(Below(S, R, i)) = Cardinality(S) => Below(S, R, i) = S
      /\ IsFiniteSet(Below(S, R, i))
  BY <1>2, FS_Subset
<1>4. Cardinality(Below(S, R, i)) \in Nat
  BY <1>3, FS_CardinalityType
<1> QED BY <1>1, <1>2, <1>3, <1>4

LEMMA BelowGrows ==
  ASSUME NEW S, IsFiniteSet(S), NEW R, Orders(R, S), NEW i \in S, NEW j \in S, <<i, j>> \in R
  PROVE  Cardinality(Below(S, R, i)) < Cardinality(Below(S, R, j))
<1>1. Below(S, R, i) \subseteq Below(S, R, j) /\ Below(S, R, j) \subseteq S
  BY DEF Below, Orders
<1>2. i \in Below(S, R, j) /\ i \notin Below(S, R, i)
  BY DEF Below, Orders
<1>3. IsFiniteSet(Below(S, R, j))
  BY <1>1, FS_Subset
<1>4. /\ Cardinality(Below(S, R, i)) <= Cardinality(Below(S, R, j))
      /\ Cardinality(Below(S, R, i)) = Cardinality(Below(S, R, j)) => Below(S, R, i) = Below(S, R, j)
  BY <1>1, <1>3, FS_Subset
<1>5. Cardinality(Below(S, R, i)) \in Int /\ Cardinality(Below(S, R, j)) \in Int
  BY BelowRange
<1> QED BY <1>2, <1>4, <1>5

LEMMA BelowOnto ==
  ASSUME NEW S, IsFiniteSet(S), NEW R, Orders(R, S), NEW k \in 1 .. Cardinality(S)
  PROVE  \E i \in S : Cardinality(Below(S, R, i)) = k - 1
<1> SUFFICES ASSUME \A i \in S : Cardinality(Below(S, R, i)) # k - 1
             PROVE  FALSE
  OBVIOUS
<1> DEFINE c == Cardinality(S)
           T == (1 .. c) \ {k}
           f == [i \in S |-> Cardinality(Below(S, R, i)) + 1]
<1>1. c \in Nat
  BY FS_CardinalityType
<1>2. f \in [S -> T]
  BY BelowRange
<1>3. IsFiniteSet(1 .. c) /\ Cardinality(1 .. c) = c
  BY <1>1, FS_Interval
<1>4. IsFiniteSet(T) /\ Cardinality(T) = c - 1
  BY <1>3, FS_RemoveElement
<1>5. Cardinality(T) < Cardinality(S)
  BY <1>1, <1>4
<1>6. \E x, y \in S : x # y /\ f[x] = f[y]
  <2> HIDE DEF T, f, c
  <2> QED BY <1>1, <1>2, <1>4, <1>5, FS_PigeonHole
<1>7. PICK x \in S, y \in S : x # y /\ f[x] = f[y]
  BY <1>6
<1>8. Cardinality(Below(S, R, x)) \in Int /\ Cardinality(Below(S, R, y)) \in Int
  BY BelowRange
<1>9. Cardinality(Below(S, R, x)) = Cardinality(Below(S, R, y))
  BY <1>7, <1>8
<1>10. <<x, y>> \in R \/ <<y, x>> \in R
  BY <1>7 DEF Orders
<1> QED BY <1>8, <1>9, <1>10, BelowGrows

LEMMA SortedIs ==
  ASSUME NEW n \in Nat, NEW S, S \subseteq 1 .. n, NEW R, Orders(R, S)
  PROVE  Sorts(Sorted(S, R), S, R)
<1> DEFINE c == Cardinality(S)
           o == Sorted(S, R)
           under(i) == Cardinality(Below(S, R, i))
<1>1. IsFiniteSet(S) /\ c \in Nat
  <2>1. IsFiniteSet(1 .. n)
    BY FS_Interval
  <2> QED BY <2>1, FS_Subset, FS_CardinalityType
<1>2. o = [k \in 1 .. c |-> CHOOSE i \in S : under(i) = k - 1]
  BY DEF Sorted, Below
<1>3. \A k \in 1 .. c : (CHOOSE i \in S : under(i) = k - 1) \in S
                          /\ under(CHOOSE i \in S : under(i) = k - 1) = k - 1
  <2> TAKE k \in 1 .. c
  <2>1. \E i \in S : under(i) = k - 1
    BY <1>1, BelowOnto
  <2> HIDE DEF under
  <2> QED BY <2>1
<1> HIDE DEF o
<1>4. o \in [1 .. c -> S] /\ \A k \in 1 .. c : under(o[k]) = k - 1
  <2> HIDE DEF under
  <2> QED BY <1>2, <1>3
<1>5. \A i \in S : under(i) \in 0 .. c - 1
  BY <1>1, BelowRange
<1>6. \A i, j \in S : <<i, j>> \in R => under(i) < under(j)
  BY <1>1, BelowGrows
<1> HIDE DEF under, c
<1>7. ASSUME NEW j \in 1 .. c, NEW k \in 1 .. c, j < k
      PROVE  <<o[j], o[k]>> \in R
  <2>1. o[j] \in S /\ o[k] \in S /\ under(o[j]) = j - 1 /\ under(o[k]) = k - 1
    BY <1>4
  <2>2. o[j] # o[k] /\ ~(under(o[k]) < under(o[j]))
    BY <1>7, <2>1
  <2> QED BY <1>6, <2>1, <2>2 DEF Orders
<1>8. ASSUME NEW i \in S
      PROVE  \E k \in 1 .. c : o[k] = i
  <2>1. under(i) \in 0 .. c - 1 /\ c \in Nat
    BY <1>1, <1>5
  <2>2. PICK k \in 1 .. c : k - 1 = under(i)
    BY <2>1
  <2>3. o[k] \in S /\ under(o[k]) = under(i)
    BY <1>4, <2>2
  <2>4. ~(under(i) < under(o[k])) /\ ~(under(o[k]) < under(i))
    BY <2>1, <2>3
  <2>5. o[k] = i
    BY <1>6, <2>3, <2>4 DEF Orders
  <2> QED BY <2>5
<1> QED BY <1>1, <1>4, <1>7, <1>8 DEF c, o, Sorts

-----------------------------------------------------------------------------
(***************************************************************************)
(* Sequences, and the items of one at some of its places.                  *)
(***************************************************************************)
LEMMA FunSeq ==
  ASSUME NEW S, NEW n \in Nat, NEW f \in [1 .. n -> S]
  PROVE  f \in Seq(S) /\ Len(f) = n
OBVIOUS

LEMMA Beginning ==
  ASSUME NEW S, NEW s \in Seq(S), NEW k \in 0 .. Len(s)
  PROVE  /\ SubSeq(s, 1, k) \in Seq(S) /\ Len(SubSeq(s, 1, k)) = k
         /\ \A i \in 1 .. k : SubSeq(s, 1, k)[i] = s[i]
OBVIOUS

LEMMA LeastOfTwo ==
  ASSUME NEW a \in Int, NEW b \in Int
  PROVE  /\ Min({a, b}) \in {a, b} /\ Min({a, b}) <= a /\ Min({a, b}) <= b
         /\ Max({a, b}) \in {a, b} /\ Max({a, b}) >= a /\ Max({a, b}) >= b
<1>1. \E x \in {a, b} : \A y \in {a, b} : x <= y
  BY a <= b \/ b <= a
<1>2. \E x \in {a, b} : \A y \in {a, b} : x >= y
  BY a <= b \/ b <= a
<1>3. Min({a, b}) \in {a, b} /\ \A y \in {a, b} : Min({a, b}) <= y
  BY <1>1 DEF Min
<1>4. Max({a, b}) \in {a, b} /\ \A y \in {a, b} : Max({a, b}) >= y
  BY <1>2 DEF Max
<1> QED BY <1>3, <1>4

LEMMA TruncatedIs ==
  ASSUME NEW S, NEW items \in Seq(S), NEW n \in Nat
  PROVE  /\ Truncated(items, n) \in Seq(S) /\ Len(Truncated(items, n)) <= n
         /\ Len(items) <= n => Truncated(items, n) = items
         /\ ToSet(Truncated(items, n)) \subseteq ToSet(items)
<1> DEFINE k == Min({n, Len(items)})
<1>1. k \in 0 .. Len(items) /\ k <= n /\ (Len(items) <= n => k = Len(items))
  <2>1. Len(items) \in Nat /\ Len(items) \in Int /\ n \in Int
    OBVIOUS
  <2>2. k \in {n, Len(items)} /\ k <= n /\ k <= Len(items)
    BY <2>1, Zenon, LeastOfTwo
  <2> HIDE DEF k
  <2> QED BY <2>1, <2>2
<1> HIDE DEF k
<1>2. /\ SubSeq(items, 1, k) \in Seq(S) /\ Len(SubSeq(items, 1, k)) = k
      /\ \A i \in 1 .. k : SubSeq(items, 1, k)[i] = items[i]
  BY <1>1, Beginning
<1>3. Truncated(items, n) = SubSeq(items, 1, k)
  BY DEF Truncated, k
<1>4. k = Len(items) => SubSeq(items, 1, k) = items
  OBVIOUS
<1>5. ToSet(SubSeq(items, 1, k)) \subseteq ToSet(items)
  <2>1. \A i \in 1 .. k : i \in 1 .. Len(items) /\ SubSeq(items, 1, k)[i] = items[i]
    BY <1>1, <1>2
  <2>2. DOMAIN SubSeq(items, 1, k) = 1 .. k /\ DOMAIN items = 1 .. Len(items)
    BY <1>2
  <2> QED BY <2>1, <2>2 DEF ToSet
<1> QED BY <1>1, <1>2, <1>3, <1>4, <1>5

LEMMA ItemsAtIs ==
  ASSUME NEW S, NEW s \in Seq(S), NEW places
  PROVE  ItemsAt(s, places) \in Seq(S)
<1> DEFINE kept == places \cap (1 .. Len(s))
           order == InOrder(places, Len(s))
<1>1. Enumerates(order, kept)
  BY InOrderIs
<1>2. Cardinality(kept) \in Nat /\ order \in [1 .. Cardinality(kept) -> kept]
  BY <1>1 DEF Enumerates
<1>3. ItemsAt(s, places) = [k \in DOMAIN order |-> s[order[k]]]
  BY DEF ItemsAt
<1>4. \A i \in kept : s[i] \in S
  OBVIOUS
<1> HIDE DEF kept, order
<1>5. ItemsAt(s, places) \in [1 .. Cardinality(kept) -> S]
  BY <1>2, <1>3, <1>4
<1> QED BY <1>2, <1>5, FunSeq

LEMMA FlattenedIs ==
  ASSUME NEW S, NEW n \in Nat, NEW u \in [1 .. n -> Seq(S)]
  PROVE  FlattenSeq(u) \in Seq(S)
<1>1. u \in Seq(Seq(S)) /\ Len(u) = n
  <2> DEFINE T == Seq(S)
  <2> HIDE DEF T
  <2>1. u \in [1 .. n -> T]
    BY DEF T
  <2>2. u \in Seq(T) /\ Len(u) = n
    BY <2>1, FunSeq
  <2> QED BY <2>2 DEF T
<1>2. CASE n = 0
  <2>1. FlattenSeq(u) = <<>>
    BY <1>1, <1>2 DEF FlattenSeq
  <2> QED BY <2>1
<1>3. CASE n # 0
  <2>1. Len(u) > 0
    BY <1>1, <1>3
  <2>2. PICK f \in [1 .. Len(u) -> Seq(S)] :
          /\ f[1] = u[1] /\ \A i \in 2 .. Len(u) : f[i] = f[i - 1] \o u[i]
          /\ FlattenSeq(u) = f[Len(u)]
    BY <1>1, <2>1, Flattened
  <2>3. Len(u) \in 1 .. Len(u)
    BY <1>1, <1>3
  <2> QED BY <2>2, <2>3
<1> QED BY <1>2, <1>3

-----------------------------------------------------------------------------
-----
(* The hand-off of a delegated agent, of a transcript of any length.       *)

LEMMA IsEvidence ==
  ASSUME NEW ref \in Refs, NEW event \in Events, NEW line \in Terms
  PROVE  Evidence(ref, event, line) \in AnyEvidence
<1> DEFINE Of(r) == {Evidence(r, e, l) : e \in Events, l \in Terms}
<1>1. Evidence(ref, event, line) \in Of(ref)
  OBVIOUS
<1>2. Of(ref) \in {Of(r) : r \in Refs}
  OBVIOUS
<1> HIDE DEF Of
<1>3. Evidence(ref, event, line) \in UNION {Of(r) : r \in Refs}
  BY <1>1, <1>2
<1> QED BY <1>3 DEF AnyEvidence, Of

LEMMA CleanIs ==
  ASSUME NEW content \in Seq(DOMAIN Said)
  PROVE  clean_block(content) \in Seq(DOMAIN Said)
BY ItemsAtIs DEF clean_block

LEMMA PushedIs ==
  ASSUME NEW S, NEW got \in Seq(S), NEW e \in S
  PROVE  push_unique_evidence(got, e) \in Seq(S) /\ push_unique_string(got, e) \in Seq(S)
<1>1. Append(got, e) \in Seq(S)
  OBVIOUS
<1> QED BY Zenon, <1>1 DEF push_unique_evidence, push_unique_string

LEMMA FromLineIs ==
  ASSUME NEW got \in Seq(AnyEvidence), NEW event \in Events, NEW line \in DOMAIN Said
  PROVE  FromLine(got, event, line) \in Seq(AnyEvidence)
<1>1. line \in Terms /\ event \in Refs /\ Said[line].ref \in Refs
  BY DEF Terms, Refs
<1>2. /\ Evidence(Said[line].ref, event, line) \in AnyEvidence
      /\ Evidence(event, event, line) \in AnyEvidence
  BY <1>1, IsEvidence
<1>3. /\ push_unique_evidence(got, Evidence(Said[line].ref, event, line)) \in Seq(AnyEvidence)
      /\ push_unique_evidence(got, Evidence(event, event, line)) \in Seq(AnyEvidence)
  BY <1>2, PushedIs
<1>4. FromLine(got, event, line) \in
        {push_unique_evidence(got, Evidence(Said[line].ref, event, line)),
         push_unique_evidence(got, Evidence(event, event, line)), got}
  BY DEF FromLine
<1> QED BY <1>3, <1>4

LEMMA LinesFold ==
  ASSUME NEW got \in Seq(AnyEvidence), NEW event \in Events, NEW lines \in Seq(DOMAIN Said)
  PROVE  FoldLeft(LAMBDA o, line : FromLine(o, event, line), got, lines) \in Seq(AnyEvidence)
<1> DEFINE n == Len(lines)
           A == Seq(AnyEvidence)
           F == [x \in A \X (1 .. n) |-> FromLine(x[1], event, lines[x[2]])]
           it == CHOOSE j : j = [p \in SUBSET (1 .. n) |->
                   IF p = {} THEN got ELSE FromLine(j[p \ {Max(p)}], event, lines[Max(p)])]
<1>1. n \in Nat /\ DOMAIN lines = 1 .. n /\ \A i \in 1 .. n : lines[i] \in DOMAIN Said
  OBVIOUS
<1>2. FoldLeft(LAMBDA o, line : FromLine(o, event, line), got, lines) = it[1 .. n]
  BY <1>1, Zenon DEF FoldLeft, MapThenFoldSet
<1>3. /\ \A a \in A : \A i \in 1 .. n : F[<<a, i>>] = FromLine(a, event, lines[i])
      /\ \A a \in A : \A i \in 1 .. n : F[<<a, i>>] \in A
  BY <1>1, FromLineIs
<1> HIDE DEF F, A, n
<1>4. PICK j \in [SUBSET (1 .. n) -> A] : Folds(j, n, got, F)
  BY <1>1, <1>3, FoldIn DEF A
<1>5. \A p \in SUBSET (1 .. n) : p # {} => Max(p) \in 1 .. n /\ j[p \ {Max(p)}] \in A
  <2> TAKE p \in SUBSET (1 .. n)
  <2> HAVE p # {}
  <2>1. Max(p) \in 1 .. n
    BY <1>1, MaxIs
  <2> QED BY <1>4, <2>1
<1>6. j = [p \in SUBSET (1 .. n) |->
             IF p = {} THEN got ELSE FromLine(j[p \ {Max(p)}], event, lines[Max(p)])]
  BY <1>3, <1>4, <1>5 DEF Folds
<1>7. it = [p \in SUBSET (1 .. n) |->
              IF p = {} THEN got ELSE FromLine(it[p \ {Max(p)}], event, lines[Max(p)])]
  BY <1>6
<1> HIDE DEF it
<1>8. Stays(F, A, n) /\ Follows(it, n, A, got, F)
  BY <1>3, <1>5, <1>7 DEF Stays, Follows
<1>9. got \in A
  BY DEF A
<1>10. PICK g \in [0 .. n -> A] : g[n] = it[1 .. n] /\ IsRun(g, n, got, F)
  BY <1>1, <1>8, <1>9, FoldRun
<1>11. it[1 .. n] \in A
  BY <1>1, <1>10
<1> QED BY <1>2, <1>11 DEF A

LEMMA EventsFold ==
  ASSUME NEW transcript \in Seq(Events)
  PROVE  AllEvidence(transcript) \in Seq(AnyEvidence)
<1> DEFINE FromEvent(got, event) ==
             FoldLeft(LAMBDA o, line : FromLine(o, event, line),
                      IF event.path = "none" THEN got
                      ELSE push_unique_evidence(got, evidence_from_metadata(event)),
                      clean_block(event.content))
<1> DEFINE n == Len(transcript)
           A == Seq(AnyEvidence)
           F == [x \in A \X (1 .. n) |-> FromEvent(x[1], transcript[x[2]])]
           it == CHOOSE j : j = [p \in SUBSET (1 .. n) |->
                   IF p = {} THEN <<>> ELSE FromEvent(j[p \ {Max(p)}], transcript[Max(p)])]
<1>0. ASSUME NEW got \in Seq(AnyEvidence), NEW event \in Events
      PROVE  FromEvent(got, event) \in Seq(AnyEvidence)
  <2>1. clean_block(event.content) \in Seq(DOMAIN Said)
    BY CleanIs DEF Events
  <2>2. evidence_from_metadata(event) \in AnyEvidence
    <3> DEFINE lines == clean_block(event.content)
               line == IF lines = <<>> THEN "none" ELSE lines[1]
    <3>1. line \in Terms /\ event \in Refs
      BY <2>1 DEF Terms, Refs
    <3>2. evidence_from_metadata(event) = Evidence(event, event, line)
      BY DEF evidence_from_metadata
    <3> HIDE DEF line
    <3> QED BY <3>1, <3>2, IsEvidence
  <2>3. push_unique_evidence(got, evidence_from_metadata(event)) \in Seq(AnyEvidence)
    BY <2>2, PushedIs
  <2> DEFINE base == IF event.path = "none" THEN got
                     ELSE push_unique_evidence(got, evidence_from_metadata(event))
  <2>4. base \in Seq(AnyEvidence)
    BY <2>3
  <2> HIDE DEF base
  <2>5. FoldLeft(LAMBDA o, line : FromLine(o, event, line), base, clean_block(event.content))
          \in Seq(AnyEvidence)
    BY <2>1, <2>4, LinesFold
  <2> QED BY <2>5, Zenon DEF base
<1>1. n \in Nat /\ DOMAIN transcript = 1 .. n /\ \A i \in 1 .. n : transcript[i] \in Events
  OBVIOUS
<1>2. AllEvidence(transcript) = it[1 .. n]
  BY <1>1, Zenon DEF AllEvidence, FoldLeft, MapThenFoldSet
<1>3. /\ \A a \in A : \A i \in 1 .. n : F[<<a, i>>] = FromEvent(a, transcript[i])
      /\ \A a \in A : \A i \in 1 .. n : F[<<a, i>>] \in A
  <2>1. \A a \in A : \A i \in 1 .. n : FromEvent(a, transcript[i]) \in A
    BY <1>1, <1>0
  <2> HIDE DEF FromEvent, A
  <2> QED BY <2>1
<1>4. <<>> \in A
  OBVIOUS
<1> HIDE DEF F, A, n, FromEvent
<1>5. PICK j \in [SUBSET (1 .. n) -> A] : Folds(j, n, <<>>, F)
  BY <1>1, <1>3, <1>4, FoldIn DEF n
<1>6. \A p \in SUBSET (1 .. n) : p # {} => Max(p) \in 1 .. n /\ j[p \ {Max(p)}] \in A
  <2> TAKE p \in SUBSET (1 .. n)
  <2> HAVE p # {}
  <2>1. Max(p) \in 1 .. n
    BY <1>1, MaxIs DEF n
  <2> QED BY <1>5, <2>1
<1>7. j = [p \in SUBSET (1 .. n) |->
             IF p = {} THEN <<>> ELSE FromEvent(j[p \ {Max(p)}], transcript[Max(p)])]
  BY <1>3, <1>5, <1>6 DEF Folds
<1>8. it = [p \in SUBSET (1 .. n) |->
              IF p = {} THEN <<>> ELSE FromEvent(it[p \ {Max(p)}], transcript[Max(p)])]
  BY <1>7
<1> HIDE DEF it
<1>9. Stays(F, A, n) /\ Follows(it, n, A, <<>>, F)
  BY <1>3, <1>6, <1>8 DEF Stays, Follows
<1>10. PICK g \in [0 .. n -> A] : g[n] = it[1 .. n] /\ IsRun(g, n, <<>>, F)
  BY <1>1, <1>4, <1>9, FoldRun DEF n
<1>11. it[1 .. n] \in A
  BY <1>1, <1>10 DEF n
<1> QED BY <1>2, <1>11 DEF A

LEMMA QuestionsFold ==
  ASSUME NEW lines \in Seq(DOMAIN Said)
  PROVE  FoldLeft(LAMBDA got, line : push_unique_string(got, Said[line].snippet), <<>>, lines)
           \in Seq(Says)
<1> DEFINE n == Len(lines)
           A == Seq(Says)
           F == [x \in A \X (1 .. n) |-> push_unique_string(x[1], Said[lines[x[2]]].snippet)]
           it == CHOOSE j : j = [p \in SUBSET (1 .. n) |->
                   IF p = {} THEN <<>> ELSE push_unique_string(j[p \ {Max(p)}], Said[lines[Max(p)]].snippet)]
<1>1. n \in Nat /\ DOMAIN lines = 1 .. n /\ \A i \in 1 .. n : lines[i] \in DOMAIN Said
  OBVIOUS
<1>2. FoldLeft(LAMBDA got, line : push_unique_string(got, Said[line].snippet), <<>>, lines) = it[1 .. n]
  BY <1>1, Zenon DEF FoldLeft, MapThenFoldSet
<1>3. /\ \A a \in A : \A i \in 1 .. n : F[<<a, i>>] = push_unique_string(a, Said[lines[i]].snippet)
      /\ \A a \in A : \A i \in 1 .. n : F[<<a, i>>] \in A
  <2>1. \A i \in 1 .. n : Said[lines[i]].snippet \in Says
    BY <1>1 DEF Says
  <2> QED BY <2>1, PushedIs
<1>4. <<>> \in A
  OBVIOUS
<1> HIDE DEF F, A, n
<1>5. PICK j \in [SUBSET (1 .. n) -> A] : Folds(j, n, <<>>, F)
  BY <1>1, <1>3, <1>4, FoldIn DEF n
<1>6. \A p \in SUBSET (1 .. n) : p # {} => Max(p) \in 1 .. n /\ j[p \ {Max(p)}] \in A
  <2> TAKE p \in SUBSET (1 .. n)
  <2> HAVE p # {}
  <2>1. Max(p) \in 1 .. n
    BY <1>1, MaxIs DEF n
  <2> QED BY <1>5, <2>1
<1>7. j = [p \in SUBSET (1 .. n) |->
             IF p = {} THEN <<>> ELSE push_unique_string(j[p \ {Max(p)}], Said[lines[Max(p)]].snippet)]
  BY <1>3, <1>5, <1>6 DEF Folds
<1>8. it = [p \in SUBSET (1 .. n) |->
              IF p = {} THEN <<>> ELSE push_unique_string(it[p \ {Max(p)}], Said[lines[Max(p)]].snippet)]
  BY <1>7
<1> HIDE DEF it
<1>9. Stays(F, A, n) /\ Follows(it, n, A, <<>>, F)
  BY <1>3, <1>6, <1>8 DEF Stays, Follows
<1>10. PICK g \in [0 .. n -> A] : g[n] = it[1 .. n] /\ IsRun(g, n, <<>>, F)
  BY <1>1, <1>4, <1>9, FoldRun DEF n
<1>11. it[1 .. n] \in A
  BY <1>1, <1>10 DEF n
<1> QED BY <1>2, <1>11 DEF A

LEMMA QuestionsAre ==
  ASSUME NEW transcript \in Seq(Events)
  PROVE  AllQuestions(transcript) \in Seq(Says)
<1> DEFINE blocks == [k \in DOMAIN transcript |-> clean_block(transcript[k].content)]
           lines == FlattenSeq(blocks)
           asking == ItemsAt(lines, {k \in DOMAIN lines : Said[lines[k]].uncertain \/ Said[lines[k]].question})
<1>1. Len(transcript) \in Nat /\ DOMAIN transcript = 1 .. Len(transcript)
  OBVIOUS
<1>2. \A k \in 1 .. Len(transcript) : clean_block(transcript[k].content) \in Seq(DOMAIN Said)
  <2>1. \A k \in 1 .. Len(transcript) : transcript[k] \in Events
    OBVIOUS
  <2>2. \A event \in Events : event.content \in Seq(DOMAIN Said)
    BY DEF Events
  <2> QED BY <2>1, <2>2, CleanIs
<1>3. blocks \in [1 .. Len(transcript) -> Seq(DOMAIN Said)]
  BY <1>1, <1>2
<1> HIDE DEF blocks
<1>4. lines \in Seq(DOMAIN Said)
  BY <1>1, <1>3, FlattenedIs
<1> HIDE DEF lines
<1>5. asking \in Seq(DOMAIN Said)
  BY <1>4, ItemsAtIs
<1> HIDE DEF asking
<1>6. FoldLeft(LAMBDA got, line : push_unique_string(got, Said[line].snippet), <<>>, asking)
        \in Seq(Says)
  BY <1>5, QuestionsFold
<1>7. AllQuestions(transcript)
        = FoldLeft(LAMBDA got, line : push_unique_string(got, Said[line].snippet), <<>>, asking)
  BY Zenon DEF AllQuestions, asking, lines, blocks
<1> QED BY <1>6, <1>7

LEMMA IsFinding ==
  ASSUME NEW text \in Seq(DOMAIN Said), NEW failure \in BOOLEAN
  PROVE  Finding(text, failure) \in SomeFindings
BY DEF Finding, SomeFindings

LEMMA FallbackFold ==
  ASSUME NEW input, input.transcript \in Seq(Events), NEW policy
  PROVE  fallback_findings(input, policy) \in Seq(SomeFindings)
<1> DEFINE transcript == input.transcript
           Adds(r, event) ==
             LET got == IF event.bad THEN Append(r.out, failure_text(event)) ELSE r.out
             IN  IF r.done THEN r ELSE [out |-> got, done |-> Len(got) >= policy.max_findings]
           none == [out |-> <<>>, done |-> FALSE]
           whole == FoldLeft(LAMBDA r, event : Adds(r, event), none, transcript)
<1> DEFINE n == Len(transcript)
           A == [out : Seq(SomeFindings), done : BOOLEAN]
           F == [x \in A \X (1 .. n) |-> Adds(x[1], transcript[x[2]])]
           it == CHOOSE j : j = [p \in SUBSET (1 .. n) |->
                   IF p = {} THEN none ELSE Adds(j[p \ {Max(p)}], transcript[Max(p)])]
<1>0. ASSUME NEW r \in [out : Seq(SomeFindings), done : BOOLEAN], NEW event \in Events
      PROVE  Adds(r, event) \in [out : Seq(SomeFindings), done : BOOLEAN]
  <2>1. failure_text(event) \in SomeFindings
    <3>1. clean_block(event.content) \in Seq(DOMAIN Said)
      BY CleanIs DEF Events
    <3> QED BY <3>1, IsFinding DEF failure_text
  <2> DEFINE got == IF event.bad THEN Append(r.out, failure_text(event)) ELSE r.out
  <2>2. got \in Seq(SomeFindings)
    BY <2>1
  <2>3. Adds(r, event) = IF r.done THEN r ELSE [out |-> got, done |-> Len(got) >= policy.max_findings]
    OBVIOUS
  <2> HIDE DEF got, Adds
  <2> QED BY <2>2, <2>3
<1>1. n \in Nat /\ DOMAIN transcript = 1 .. n /\ \A i \in 1 .. n : transcript[i] \in Events
  OBVIOUS
<1>2. whole = it[1 .. n]
  BY <1>1, Zenon DEF FoldLeft, MapThenFoldSet
<1>3. /\ \A a \in A : \A i \in 1 .. n : F[<<a, i>>] = Adds(a, transcript[i])
      /\ \A a \in A : \A i \in 1 .. n : F[<<a, i>>] \in A
  <2>1. \A a \in A : \A i \in 1 .. n : Adds(a, transcript[i]) \in A
    BY <1>0, <1>1
  <2> HIDE DEF Adds, A
  <2> QED BY <2>1
<1>4. none \in A
  OBVIOUS
<1> HIDE DEF F, A, n, Adds, none, transcript
<1>5. PICK j \in [SUBSET (1 .. n) -> A] : Folds(j, n, none, F)
  BY <1>1, <1>3, <1>4, FoldIn DEF n, transcript
<1>6. \A p \in SUBSET (1 .. n) : p # {} => Max(p) \in 1 .. n /\ j[p \ {Max(p)}] \in A
  <2> TAKE p \in SUBSET (1 .. n)
  <2> HAVE p # {}
  <2>1. Max(p) \in 1 .. n
    BY <1>1, MaxIs DEF n, transcript
  <2> QED BY <1>5, <2>1
<1>7. j = [p \in SUBSET (1 .. n) |->
             IF p = {} THEN none ELSE Adds(j[p \ {Max(p)}], transcript[Max(p)])]
  BY <1>3, <1>5, <1>6 DEF Folds
<1>8. it = [p \in SUBSET (1 .. n) |->
              IF p = {} THEN none ELSE Adds(it[p \ {Max(p)}], transcript[Max(p)])]
  BY <1>7
<1> HIDE DEF it
<1>9. Stays(F, A, n) /\ Follows(it, n, A, none, F)
  BY <1>3, <1>6, <1>8 DEF Stays, Follows
<1>10. PICK g \in [0 .. n -> A] : g[n] = it[1 .. n] /\ IsRun(g, n, none, F)
  BY <1>1, <1>4, <1>9, FoldRun DEF n, transcript
<1>11. it[1 .. n] \in A
  BY <1>1, <1>10 DEF n, transcript
<1>12. fallback_findings(input, policy) = whole.out
  BY Zenon DEF fallback_findings, whole, Adds, none, transcript
<1> HIDE DEF whole
<1> QED BY <1>2, <1>11, <1>12 DEF A

(* Both ways to come by findings.                                          *)
LEMMA FindingsAre ==
  ASSUME NEW input, input.transcript \in Seq(Events),
         NEW policy, policy.max_findings \in Nat
  PROVE  extract_findings(input, policy) \in Seq(SomeFindings)
<1> DEFINE transcript == input.transcript
           events == {k \in DOMAIN transcript : transcript[k].role = "assistant"}
           last == LastEvent(transcript, LAMBDA e : e.role = "assistant")
<1>1. CASE last = None
  <2>1. extract_findings(input, policy) = fallback_findings(input, policy)
    BY <1>1, Zenon DEF extract_findings
  <2> QED BY <2>1, FallbackFold
<1>2. CASE last # None
  <2>1. last = IF events = {} THEN None ELSE transcript[Max(events)]
    BY DEF LastEvent
  <2>2. events \subseteq 1 .. Len(transcript) /\ Len(transcript) \in Nat
    OBVIOUS
  <2> HIDE DEF events
  <2>3. Max(events) \in 1 .. Len(transcript)
    <3>1. events # {}
      BY <1>2, <2>1
    <3> HIDE DEF transcript
    <3> QED BY <2>2, <3>1, MaxIs
  <2>4. transcript[Max(events)] \in Events
    BY <2>3
  <2>5. last \in Events
    BY <1>2, <2>1, <2>4, Zenon
  <2> HIDE DEF last
  <2>6. AllFindings(last) \in Seq(SomeFindings)
    <3> DEFINE Tells(line) == Said[line].bytes > 0 /\ ~Said[line].heading /\ Said[line].finding
               told == ItemsAt(last.content, {k \in DOMAIN last.content : Tells(last.content[k])})
    <3>1. last.content \in Seq(DOMAIN Said)
      BY <2>5 DEF Events
    <3>2. told \in Seq(DOMAIN Said)
      BY <3>1, ItemsAtIs
    <3>3. AllFindings(last) = IF told = <<>> THEN <<Finding(clean_block(last.content), FALSE)>>
                              ELSE [k \in DOMAIN told |-> Finding(<<told[k]>>, FALSE)]
      BY DEF AllFindings
    <3> HIDE DEF told
    <3>4. Finding(clean_block(last.content), FALSE) \in SomeFindings
      BY <3>1, CleanIs, IsFinding
    <3>5. /\ Len(told) \in Nat /\ DOMAIN told = 1 .. Len(told)
          /\ \A k \in 1 .. Len(told) : <<told[k]>> \in Seq(DOMAIN Said)
      BY <3>2
    <3>6. \A k \in 1 .. Len(told) : Finding(<<told[k]>>, FALSE) \in SomeFindings
      BY <3>5, IsFinding
    <3>7. [k \in DOMAIN told |-> Finding(<<told[k]>>, FALSE)] \in [1 .. Len(told) -> SomeFindings]
      BY <3>5, <3>6
    <3>8. [k \in DOMAIN told |-> Finding(<<told[k]>>, FALSE)] \in Seq(SomeFindings)
      BY <3>5, <3>7, FunSeq
    <3>9. \A x \in SomeFindings : <<x>> \in Seq(SomeFindings)
      <4> DEFINE S == SomeFindings
      <4> HIDE DEF S
      <4>1. \A x \in S : <<x>> \in Seq(S)
        OBVIOUS
      <4> QED BY <4>1 DEF S
    <3>10. <<Finding(clean_block(last.content), FALSE)>> \in Seq(SomeFindings)
      BY <3>4, <3>9, Zenon
    <3> QED BY <3>3, <3>8, <3>10, Zenon
  <2>7. extract_findings(input, policy) = Truncated(AllFindings(last), policy.max_findings)
    BY <1>2, Zenon DEF extract_findings, last, transcript
  <2> QED BY <2>6, <2>7, TruncatedIs
<1> QED BY <1>1, <1>2

-----------------------------------------------------------------------------
-----
(* What the rounds of the budget leave of a hand-off: findings that were   *)
(* there, and the first of the evidence, all of it unless that is told.    *)

LEMMA FrontIs ==
  ASSUME NEW S, NEW s \in Seq(S)
  PROVE  Front(s) \in Seq(S)
BY DEF Front

LEMMA OmittedMore ==
  ASSUME NEW n, NEW x \in Omissions(n)
  PROVE  /\ [x EXCEPT !.findings = @ + 1] \in Omissions(n)
         /\ [x EXCEPT !.evidence = @ + 1] \in Omissions(n)
         /\ [x EXCEPT !.open_questions = @ + 1] \in Omissions(n)
         /\ [x EXCEPT !.byte_truncated = TRUE] \in Omissions(n)
         /\ [x EXCEPT !.byte_truncated = TRUE].byte_truncated
<1> DEFINE N == {n}
           Of == [events : N, findings : Int, evidence : Int, open_questions : Int,
                  byte_truncated : BOOLEAN]
<1>1. x \in Of
  BY DEF Omissions
<1> HIDE DEF N
<1>2. [x EXCEPT !.findings = @ + 1] \in Of
  BY <1>1
<1>3. [x EXCEPT !.evidence = @ + 1] \in Of
  BY <1>1
<1>4. [x EXCEPT !.open_questions = @ + 1] \in Of
  BY <1>1
<1>5. [x EXCEPT !.byte_truncated = TRUE] \in Of /\ [x EXCEPT !.byte_truncated = TRUE].byte_truncated
  BY <1>1
<1> HIDE DEF Of
<1> QED BY <1>2, <1>3, <1>4, <1>5 DEF Omissions, Of, N

LEMMA PoppedIs ==
  ASSUME NEW c, NEW F, NEW S, NEW E \in Seq(S), NEW Q, NEW n, NEW o \in Handed(c, F, E, Q, n)
  PROVE  /\ o.evidence # <<>> => Popped(o, "evidence") \in Handed(c, F, E, Q, n)
         /\ Popped(o, "findings") \in Handed(c, F, E, Q, n)
         /\ Popped(o, "open_questions") \in Handed(c, F, E, Q, n)
<1>1. /\ o \in [conclusion : {c}, findings : Seq(F), evidence : {SubSeq(E, 1, k) : k \in 0 .. Len(E)},
                open_questions : Seq(Q), omitted : Omissions(n)]
      /\ o.omitted.byte_truncated \/ o.evidence = E
  BY DEF Handed
<1>2. Front(o.findings) \in Seq(F) /\ Front(o.open_questions) \in Seq(Q)
  BY <1>1, FrontIs
<1>3. o.evidence # <<>> => Front(o.evidence) \in {SubSeq(E, 1, k) : k \in 0 .. Len(E)}
  <2> HAVE o.evidence # <<>>
  <2>1. PICK k \in 0 .. Len(E) : o.evidence = SubSeq(E, 1, k)
    BY <1>1
  <2>2. Len(SubSeq(E, 1, k)) = k
    BY Beginning
  <2>3. k # 0
    BY <2>1, <2>2
  <2>4. k - 1 \in 0 .. Len(E) /\ SubSeq(SubSeq(E, 1, k), 1, k - 1) = SubSeq(E, 1, k - 1)
    BY <2>3
  <2>5. Front(o.evidence) = SubSeq(E, 1, k - 1)
    BY <2>1, <2>2, <2>4 DEF Front
  <2> QED BY <2>4, <2>5
<1> DEFINE Es == {SubSeq(E, 1, k) : k \in 0 .. Len(E)}
           Fs == Seq(F)
           Qs == Seq(Q)
           Os == Omissions(n)
           Parts == [conclusion : {c}, findings : Fs, evidence : Es, open_questions : Qs, omitted : Os]
<1>4. \A x \in Parts : x.omitted.byte_truncated => x \in Handed(c, F, E, Q, n)
  BY DEF Handed
<1>5. o \in Parts /\ Front(o.findings) \in Fs /\ Front(o.open_questions) \in Qs
      /\ (o.evidence # <<>> => Front(o.evidence) \in Es)
  BY <1>1, <1>2, <1>3
<1>6. o.omitted \in Os
  BY <1>5
<1> HIDE DEF Es, Fs, Qs
<1>7. ASSUME o.evidence # <<>>
      PROVE  Popped(o, "evidence") \in Parts /\ Popped(o, "evidence").omitted.byte_truncated
  <2> DEFINE more == [o.omitted EXCEPT !.evidence = @ + 1]
             told == [more EXCEPT !.byte_truncated = TRUE]
  <2>1. told \in Os /\ told.byte_truncated
    <3>1. more \in Os
      BY <1>6, OmittedMore
    <3> HIDE DEF more
    <3> QED BY <3>1, OmittedMore
  <2>2. Popped(o, "evidence") = [o EXCEPT !.evidence = Front(@), !.omitted = told]
    BY <1>5, <1>6 DEF Popped, Omissions
  <2> HIDE DEF told, Os
  <2> QED BY <1>5, <1>7, <2>1, <2>2
<1>8. Popped(o, "findings") \in Parts /\ Popped(o, "findings").omitted.byte_truncated
  <2> DEFINE more == [o.omitted EXCEPT !.findings = @ + 1]
             told == [more EXCEPT !.byte_truncated = TRUE]
  <2>1. told \in Os /\ told.byte_truncated
    <3>1. more \in Os
      BY <1>6, OmittedMore
    <3> HIDE DEF more
    <3> QED BY <3>1, OmittedMore
  <2>2. Popped(o, "findings") = [o EXCEPT !.findings = Front(@), !.omitted = told]
    BY <1>5, <1>6 DEF Popped, Omissions
  <2> HIDE DEF told, Os
  <2> QED BY <1>5, <2>1, <2>2
<1>9. Popped(o, "open_questions") \in Parts /\ Popped(o, "open_questions").omitted.byte_truncated
  <2> DEFINE more == [o.omitted EXCEPT !.open_questions = @ + 1]
             told == [more EXCEPT !.byte_truncated = TRUE]
  <2>1. told \in Os /\ told.byte_truncated
    <3>1. more \in Os
      BY <1>6, OmittedMore
    <3> HIDE DEF more
    <3> QED BY <3>1, OmittedMore
  <2>2. Popped(o, "open_questions") = [o EXCEPT !.open_questions = Front(@), !.omitted = told]
    BY <1>5, <1>6 DEF Popped, Omissions
  <2> HIDE DEF told, Os
  <2> QED BY <1>5, <2>1, <2>2
<1> QED BY <1>4, <1>7, <1>8, <1>9

LEMMA FittedIs ==
  ASSUME NEW c, NEW F, NEW S, NEW E \in Seq(S), NEW Q, NEW n, NEW o \in Handed(c, F, E, Q, n),
         NEW max_bytes
  PROVE  \E x \in Handed(c, F, E, Q, n) :
           Fitted(o, max_bytes) = x \/ Fitted(o, max_bytes) = Cut(x, max_bytes)
<1> DEFINE Short(x) == format_subagent_summary_markdown(x) <= max_bytes
           Round(x) ==
             CASE Short(x) -> x
               [] ~Short(x) /\ x.evidence # <<>> -> Popped(x, "evidence")
               [] ~Short(x) /\ x.evidence = <<>> /\ x.findings # <<>> -> Popped(x, "findings")
               [] OTHER -> Popped(x, "open_questions")
           spent == FoldLeft(LAMBDA x, k : Round(x), o,
                 [k \in 1 .. Len(o.evidence) + Len(o.findings) + Len(o.open_questions) |-> k])
<1> DEFINE m == Len(o.evidence) + Len(o.findings) + Len(o.open_questions)
           A == Handed(c, F, E, Q, n)
           f == [x \in A \X (1 .. m) |-> Round(x[1])]
           it == CHOOSE j : j = [p \in SUBSET (1 .. m) |->
                   IF p = {} THEN o ELSE Round(j[p \ {Max(p)}])]
<1>0. ASSUME NEW x \in Handed(c, F, E, Q, n)
      PROVE  Round(x) \in Handed(c, F, E, Q, n)
  <2>1. /\ x.evidence # <<>> => Popped(x, "evidence") \in Handed(c, F, E, Q, n)
        /\ Popped(x, "findings") \in Handed(c, F, E, Q, n)
        /\ Popped(x, "open_questions") \in Handed(c, F, E, Q, n)
    BY PoppedIs
  <2> DEFINE fits == Short(x)
  <2>2. Round(x) = CASE fits -> x
               [] ~fits /\ x.evidence # <<>> -> Popped(x, "evidence")
               [] ~fits /\ x.evidence = <<>> /\ x.findings # <<>> -> Popped(x, "findings")
               [] OTHER -> Popped(x, "open_questions")
    OBVIOUS
  <2>3. fits \in BOOLEAN
    OBVIOUS
  <2> HIDE DEF fits, Round
  <2> QED BY <2>1, <2>2, <2>3
<1>1. m \in Nat
  <2>1. o.findings \in Seq(F) /\ o.open_questions \in Seq(Q)
    BY DEF Handed
  <2>2. PICK k \in 0 .. Len(E) : o.evidence = SubSeq(E, 1, k)
    BY DEF Handed
  <2>3. Len(o.evidence) = k
    BY <2>2, Beginning
  <2>4. Len(o.findings) \in Nat /\ Len(o.open_questions) \in Nat
    BY <2>1
  <2>5. Len(o.evidence) \in Nat
    BY <2>3
  <2>6. \A x, y, z \in Nat : x + y + z \in Nat
    OBVIOUS
  <2> QED BY <2>4, <2>5, <2>6, Zenon
<1>2. spent = it[1 .. m]
  BY <1>1, Zenon DEF FoldLeft, MapThenFoldSet
<1>3. /\ \A a \in A : \A i \in 1 .. m : f[<<a, i>>] = Round(a)
      /\ \A a \in A : \A i \in 1 .. m : f[<<a, i>>] \in A
  <2>1. \A a \in A : Round(a) \in A
    BY <1>0
  <2> HIDE DEF Round, A
  <2> QED BY <2>1
<1>4. o \in A
  OBVIOUS
<1> HIDE DEF f, A, m, Round
<1>5. PICK j \in [SUBSET (1 .. m) -> A] : Folds(j, m, o, f)
  BY <1>1, <1>3, <1>4, FoldIn DEF m
<1>6. \A p \in SUBSET (1 .. m) : p # {} => Max(p) \in 1 .. m /\ j[p \ {Max(p)}] \in A
  <2> TAKE p \in SUBSET (1 .. m)
  <2> HAVE p # {}
  <2>1. Max(p) \in 1 .. m
    BY <1>1, MaxIs DEF m
  <2> QED BY <1>5, <2>1
<1>7. j = [p \in SUBSET (1 .. m) |->
             IF p = {} THEN o ELSE Round(j[p \ {Max(p)}])]
  BY <1>3, <1>5, <1>6 DEF Folds
<1>8. it = [p \in SUBSET (1 .. m) |->
              IF p = {} THEN o ELSE Round(it[p \ {Max(p)}])]
  BY <1>7
<1> HIDE DEF it
<1>9. Stays(f, A, m) /\ Follows(it, m, A, o, f)
  BY <1>3, <1>6, <1>8 DEF Stays, Follows
<1>10. PICK g \in [0 .. m -> A] : g[m] = it[1 .. m] /\ IsRun(g, m, o, f)
  BY <1>1, <1>4, <1>9, FoldRun DEF m
<1>11. it[1 .. m] \in A
  <2>1. m \in 0 .. m
    BY <1>1
  <2> QED BY <1>10, <2>1
<1>12. Fitted(o, max_bytes) = IF Short(spent) THEN spent ELSE Cut(spent, max_bytes)
  BY Zenon DEF Fitted, spent, Round
<1> HIDE DEF spent, Short
<1> QED BY <1>2, <1>11, <1>12 DEF A

LEMMA HandedInPlace ==
  ASSUME NEW S, NEW E \in Seq(S), NEW c, NEW Q, NEW n, NEW o \in Handed(c, Attached(E), E, Q, n)
  PROVE  EvidenceIsInPlace(o)
<1>1. /\ o.findings \in Seq(Attached(E)) /\ (o.omitted.byte_truncated \/ o.evidence = E)
      /\ o.omitted.byte_truncated \in BOOLEAN
  BY DEF Handed, Omissions
<1>2. PICK m \in 0 .. Len(E) : o.evidence = SubSeq(E, 1, m)
  BY DEF Handed
<1>3. /\ DOMAIN o.evidence = 1 .. m /\ DOMAIN o.evidence \subseteq DOMAIN E
      /\ \A k \in DOMAIN o.evidence : o.evidence[k] = E[k]
  BY <1>2, Beginning
<1>4. SUFFICES ASSUME NEW f \in ToSet(o.findings)
               PROVE  /\ f.evidence \subseteq DOMAIN o.evidence \/ o.omitted.byte_truncated
                      /\ \A k \in DOMAIN o.evidence :
                           k \in f.evidence <=>
                             \E line \in ToSet(f.text) : o.evidence[k].path \in Said[line].mentions
  BY Zenon DEF EvidenceIsInPlace
<1>5. f \in Attached(E)
  <2> DEFINE T == Attached(E)
  <2>1. o.findings \in Seq(T)
    BY <1>1
  <2> HIDE DEF T
  <2>2. f \in T
    BY <1>4, <2>1 DEF ToSet
  <2> QED BY <2>2 DEF T
<1>6. PICK g \in SomeFindings : f = [g EXCEPT !.evidence = Mentions(g, E)]
  BY <1>5, Zenon DEF Attached
<1>7. f.text = g.text /\ f.evidence = Mentions(g, E)
  <2> DEFINE M == Mentions(g, E)
  <2> HIDE DEF M
  <2>1. f = [g EXCEPT !.evidence = M]
    BY <1>6 DEF M
  <2>2. f.text = g.text /\ f.evidence = M
    BY <2>1 DEF SomeFindings
  <2> QED BY <2>2 DEF M
<1>8. Mentions(g, E) = {k \in DOMAIN E : \E line \in ToSet(g.text) : E[k].path \in Said[line].mentions}
  BY DEF Mentions
<1>9. f.evidence \subseteq DOMAIN E
  BY <1>7, <1>8
<1>10. ASSUME NEW k \in DOMAIN o.evidence
       PROVE  k \in f.evidence <=>
                \E line \in ToSet(f.text) : o.evidence[k].path \in Said[line].mentions
  <2>1. k \in DOMAIN E /\ o.evidence[k] = E[k]
    BY <1>3
  <2> QED BY <1>7, <1>8, <2>1, Zenon
<1> QED BY <1>1, <1>9, <1>10

LEMMA CutInPlace ==
  ASSUME NEW S, NEW E \in Seq(S), NEW c, NEW F, NEW Q, NEW n, NEW o \in Handed(c, F, E, Q, n),
         NEW max_bytes, EvidenceIsInPlace(o)
  PROVE  EvidenceIsInPlace(Cut(o, max_bytes))
<1> DEFINE cut == Cut(o, max_bytes)
<1>1. /\ cut.findings = o.findings /\ cut.evidence = o.evidence
      /\ cut.omitted = [o.omitted EXCEPT !.byte_truncated = TRUE]
  BY DEF Cut, Handed
<1>2. cut.omitted.byte_truncated
  BY <1>1, OmittedMore DEF Handed
<1> HIDE DEF cut
<1>3. EvidenceIsInPlace(cut)
  BY <1>1, <1>2, Zenon DEF EvidenceIsInPlace
<1> QED BY <1>3 DEF cut

LEMMA HandoffInPlace ==
  ASSUME NEW input \in Transcripts
  PROVE  EvidenceIsInPlace(summarize_subagent_transcript(input))
<1> DEFINE policy == input.policy
           E == Truncated(AllEvidence(input.transcript), policy.max_evidence)
           F == attach_evidence_indices(extract_findings(input, policy), E)
           Q == Truncated(AllQuestions(input.transcript), policy.max_open_questions)
           c == extract_conclusion(input)
           extracted == [conclusion |-> c, findings |-> F, evidence |-> E, open_questions |-> Q,
                         omitted |-> NothingOmitted]
           bounded == apply_policy_bounds(extracted, input, policy)
           n == Max({0, Len(input.transcript) - events_represented(extracted)})
           all == Handed(c, Attached(E), E, Says, n)
<1>1. /\ input.transcript \in Seq(Events) /\ policy.max_findings \in Nat
      /\ policy.max_evidence \in Nat /\ policy.max_open_questions \in Nat
  BY TranscriptsAssumption DEF Events
<1>2. E \in Seq(AnyEvidence) /\ Len(E) <= policy.max_evidence
  BY <1>1, EventsFold, TruncatedIs
<1>3. Q \in Seq(Says)
  BY <1>1, QuestionsAre, TruncatedIs
<1>4. F \in Seq(Attached(E))
  <2> DEFINE fs == extract_findings(input, policy)
             With(f) == [f EXCEPT !.evidence = Mentions(f, E)]
  <2>1. fs \in Seq(SomeFindings)
    BY <1>1, FindingsAre
  <2>2. F = [k \in DOMAIN fs |-> With(fs[k])]
    BY Zenon DEF attach_evidence_indices
  <2> HIDE DEF fs, F, E
  <2>3. Len(fs) \in Nat /\ DOMAIN fs = 1 .. Len(fs) /\ \A k \in 1 .. Len(fs) : fs[k] \in SomeFindings
    BY <2>1
  <2>4. \A f \in SomeFindings : With(f) \in Attached(E)
    BY Zenon DEF Attached
  <2> HIDE DEF With
  <2>5. F \in [1 .. Len(fs) -> Attached(E)]
    BY <2>2, <2>3, <2>4
  <2> QED BY <2>3, <2>5, FunSeq
<1> HIDE DEF E, F, Q, c, policy
<1>5. bounded \in all
  <2> DEFINE told == [events |-> n, findings |-> Over(F, policy.max_findings),
                      evidence |-> Over(E, policy.max_evidence),
                      open_questions |-> Over(Q, policy.max_open_questions),
                      byte_truncated |-> FALSE]
             Fs == Truncated(F, policy.max_findings)
             Es == Truncated(E, policy.max_evidence)
             Qs == Truncated(Q, policy.max_open_questions)
  <2>1. bounded = [extracted EXCEPT !.findings = Fs, !.evidence = Es,
                                    !.open_questions = Qs, !.omitted = told]
    <3>1. /\ extracted.findings = F /\ extracted.evidence = E /\ extracted.open_questions = Q
      OBVIOUS
    <3> HIDE DEF extracted
    <3> QED BY <3>1, Zenon DEF apply_policy_bounds
  <2>2. Fs \in Seq(Attached(E)) /\ Es = E /\ Qs \in Seq(Says)
    BY <1>1, <1>2, <1>3, <1>4, TruncatedIs
  <2>3. \A S, m : m \in Nat => \A s \in Seq(S) : Over(s, m) \in Int
    <3> TAKE S, m
    <3> HAVE m \in Nat
    <3> TAKE s \in Seq(S)
    <3>1. Len(s) - m \in Int /\ 0 \in Int
      OBVIOUS
    <3>2. Max({0, Len(s) - m}) \in {0, Len(s) - m}
      BY <3>1, LeastOfTwo, Zenon
    <3> QED BY <3>1, <3>2 DEF Over
  <2>4. /\ Over(F, policy.max_findings) \in Int /\ Over(E, policy.max_evidence) \in Int
        /\ Over(Q, policy.max_open_questions) \in Int
    BY <1>1, <1>2, <1>3, <1>4, <2>3
  <2> HIDE DEF Fs, Es, Qs, n
  <2>5. told \in Omissions(n)
    BY <2>4 DEF Omissions
  <2>6. E \in {SubSeq(E, 1, k) : k \in 0 .. Len(E)}
    <3>1. Len(E) \in 0 .. Len(E) /\ SubSeq(E, 1, Len(E)) = E
      BY <1>2
    <3> QED BY <3>1
  <2> HIDE DEF told, bounded
  <2> DEFINE As == Seq(Attached(E))
             Ss == {SubSeq(E, 1, k) : k \in 0 .. Len(E)}
             Ts == Seq(Says)
             Os == Omissions(n) \cup {NothingOmitted}
             Rs == [conclusion : {c}, findings : As, evidence : Ss, open_questions : Ts, omitted : Os]
  <2>7. Fs \in As /\ Es \in Ss /\ Qs \in Ts /\ told \in Os
    BY <2>2, <2>5, <2>6
  <2>8. F \in As /\ E \in Ss /\ Q \in Ts /\ NothingOmitted \in Os
    BY <1>3, <1>4, <2>6
  <2> HIDE DEF As, Ss, Ts, Os
  <2>9. extracted \in Rs
    BY <2>8
  <2> HIDE DEF extracted
  <2>10. bounded \in Rs /\ bounded.evidence = Es /\ bounded.omitted = told
    BY <2>1, <2>7, <2>9
  <2> QED BY <2>2, <2>5, <2>10 DEF Handed, As, Ss, Ts
<1>6. summarize_subagent_transcript(input) = enforce_byte_budget(bounded, input.max_bytes)
  BY Zenon DEF summarize_subagent_transcript, bounded, extracted, E, F, Q, c, policy
<1> HIDE DEF bounded, n
<1>7. CASE input.max_bytes = 0
  <2> DEFINE got == summarize_subagent_transcript(input)
  <2>1. got.findings = <<>>
    BY <1>5, <1>6, <1>7 DEF enforce_byte_budget, Handed
  <2>2. ToSet(got.findings) = {}
    BY <2>1 DEF ToSet
  <2> HIDE DEF got
  <2>3. EvidenceIsInPlace(got)
    BY <2>2, Zenon DEF EvidenceIsInPlace
  <2> QED BY <2>3 DEF got
<1>8. CASE input.max_bytes # 0
  <2>1. summarize_subagent_transcript(input) = Fitted(bounded, input.max_bytes)
    BY <1>6, <1>8 DEF enforce_byte_budget
  <2>2. PICK x \in all : \/ Fitted(bounded, input.max_bytes) = x
                         \/ Fitted(bounded, input.max_bytes) = Cut(x, input.max_bytes)
    BY <1>2, <1>5, FittedIs
  <2>3. EvidenceIsInPlace(x)
    BY <1>2, HandedInPlace
  <2>4. EvidenceIsInPlace(Cut(x, input.max_bytes))
    BY <1>2, <2>3, CutInPlace
  <2> QED BY <2>1, <2>2, <2>3, <2>4
<1> QED BY <1>7, <1>8

-----------------------------------------------------------------------------
-----
(* The values of a frozen prefix.                                          *)

LEMMA ValueIs ==
  ASSUME NEW offset \in Nat, NEW room \in Int, NEW v \in Values(offset, room)
  PROVE  /\ v.range \in [start : Nat, end : Nat]
         /\ offset <= v.range.start /\ v.range.start < v.range.end /\ v.range.end <= offset + room
<1>1. PICK kind \in ToSet(VolatileKinds), r \in Spans(room) : v = Value(offset, kind, r)
  BY DEF Values
<1>2. v.range = [start |-> offset + r.start, end |-> offset + r.end]
  BY <1>1 DEF Value, Moved, ByteRange
<1>3. r.start \in Nat /\ r.end \in Nat /\ r.start < r.end /\ r.end <= room
  BY DEF Spans
<1> QED BY <1>2, <1>3

LEMMA ValueOf ==
  ASSUME NEW offset, NEW room, NEW kind \in ToSet(VolatileKinds), NEW r \in Spans(room)
  PROVE  /\ Value(offset, kind, r) \in Values(offset, room)
         /\ Value(offset, kind, r).range = Moved(offset, r)
<1> DEFINE x == <<kind, r>>
<1>1. x \in ToSet(VolatileKinds) \X Spans(room) /\ x[1] = kind /\ x[2] = r
  OBVIOUS
<1> HIDE DEF x
<1>2. Value(offset, kind, r) \in Values(offset, room)
  BY <1>1, Zenon DEF Values
<1>3. Value(offset, kind, r).range = Moved(offset, r)
  BY Zenon DEF Value
<1> QED BY <1>2, <1>3

LEMMA AppendedIs ==
  ASSUME NEW S, NEW s \in Seq(S), NEW x \in S
  PROVE  /\ Append(s, x) \in Seq(S) /\ Len(Append(s, x)) = Len(s) + 1 /\ Len(s) \in Nat
         /\ Append(s, x)[Len(s) + 1] = x /\ \A k \in 1 .. Len(s) : Append(s, x)[k] = s[k]
         /\ DOMAIN s = 1 .. Len(s) /\ DOMAIN Append(s, x) = 1 .. Len(s) + 1
         /\ ToSet(s) \subseteq ToSet(Append(s, x)) /\ x \in ToSet(Append(s, x))
BY DEF ToSet

LEMMA AddedIs ==
  ASSUME NEW offset \in Nat, NEW room \in Int, NEW found \in Founds(offset, room),
         NEW kind \in ToSet(VolatileKinds), NEW r \in Spans(room)
  PROVE  /\ AddValue(found, offset, kind, r) \in Founds(offset, room)
         /\ ToSet(found) \subseteq ToSet(AddValue(found, offset, kind, r))
         /\ Touched(AddValue(found, offset, kind, r), offset, r)
<1> DEFINE v == Value(offset, kind, r)
           s == Append(found, v)
<1>1. v \in Values(offset, room) /\ v.range = Moved(offset, r)
  BY ValueOf
<1>2. Overlaps(v.range, Moved(offset, r))
  BY <1>1, ValueIs DEF Overlaps
<1>3. CASE Touched(found, offset, r)
  BY <1>3 DEF AddValue, Touched
<1>4. CASE ~Touched(found, offset, r)
  <2>1. AddValue(found, offset, kind, r) = s
    BY <1>4 DEF AddValue, Touched
  <2> HIDE DEF v
  <2>2. found \in Seq(Values(offset, room)) /\ Apart(found)
    BY DEF Founds
  <2>3. /\ s \in Seq(Values(offset, room)) /\ Len(s) = Len(found) + 1 /\ Len(found) \in Nat
        /\ s[Len(found) + 1] = v /\ \A k \in 1 .. Len(found) : s[k] = found[k]
        /\ DOMAIN found = 1 .. Len(found) /\ DOMAIN s = 1 .. Len(found) + 1
        /\ ToSet(found) \subseteq ToSet(s) /\ v \in ToSet(s)
    BY <1>1, <2>2, AppendedIs
  <2>4. \A k \in 1 .. Len(found) : ~Overlaps(found[k].range, v.range) /\ ~Overlaps(v.range, found[k].range)
    <3> TAKE k \in 1 .. Len(found)
    <3>1. found[k] \in ToSet(found)
      BY <2>3 DEF ToSet
    <3>2. ~Overlaps(found[k].range, v.range)
      BY <1>1, <1>4, <3>1 DEF Touched
    <3> QED BY <3>2 DEF Overlaps
  <2> HIDE DEF s
  <2>5. Apart(s)
    <3> SUFFICES ASSUME NEW j \in DOMAIN s, NEW k \in DOMAIN s, j # k
                 PROVE  ~Overlaps(s[j].range, s[k].range)
      BY DEF Apart
    <3>1. j \in 1 .. Len(found) \/ j = Len(found) + 1
      BY <2>3
    <3>2. k \in 1 .. Len(found) \/ k = Len(found) + 1
      BY <2>3
    <3> QED BY <2>2, <2>3, <2>4, <3>1, <3>2, Zenon DEF Apart
  <2>6. Touched(s, offset, r)
    BY <1>2, <2>3 DEF Touched
  <2> QED BY <2>1, <2>3, <2>5, <2>6 DEF Founds
<1> QED BY <1>3, <1>4

LEMMA AheadIs ==
  ASSUME NEW room \in Int, NEW ranges \in Seq(Spans(room)), Ahead(ranges)
  PROVE  \A k \in 1 .. Len(ranges) : \A j \in 1 .. k - 1 : ranges[j].end <= ranges[k].start
<1> DEFINE n == Len(ranges)
           Good == {k \in 0 .. n : \A j \in 1 .. k - 1 : ranges[j].end <= ranges[k].start}
<1>1. n \in Nat /\ DOMAIN ranges = 1 .. n /\ \A k \in 1 .. n : ranges[k] \in Spans(room)
  OBVIOUS
<1>2. \A k \in 1 .. n : ranges[k].start \in Nat /\ ranges[k].end \in Nat /\ ranges[k].start < ranges[k].end
  BY <1>1 DEF Spans
<1>3. 0 \in Good
  BY <1>1
<1>4. \A k \in 1 .. n : k - 1 \in Good => k \in Good
  <2> TAKE k \in 1 .. n
  <2> HAVE k - 1 \in Good
  <2>1. ASSUME NEW j \in 1 .. k - 1
        PROVE  ranges[j].end <= ranges[k].start
    <3>1. k - 1 \in 1 .. n /\ ranges[k - 1].end <= ranges[k].start
      BY <1>1 DEF Ahead
    <3>2. CASE j = k - 1
      BY <3>1, <3>2
    <3>3. CASE j # k - 1
      <4>1. j \in 1 .. (k - 1) - 1 /\ j \in 1 .. n
        BY <3>3, <1>1
      <4>2. ranges[j].end <= ranges[k - 1].start
        BY <4>1
      <4> HIDE DEF Good, n
      <4> QED BY <1>2, <3>1, <4>1, <4>2
    <3> QED BY <3>2, <3>3
  <2> QED BY <1>1, <2>1
<1> HIDE DEF Good
<1>5. 0 .. n \subseteq Good
  BY <1>1, <1>3, <1>4, Inductive
<1>6. \A k \in 1 .. n : k \in Good
  BY <1>1, <1>5
<1> QED BY <1>6 DEF Good

(* What is collected for one kind, and for the first one every match.      *)
LEMMA CollectIs ==
  ASSUME NEW offset \in Nat, NEW room \in Int, NEW findings \in Founds(offset, room),
         NEW kind \in ToSet(VolatileKinds), NEW ranges \in Seq(Spans(room))
  PROVE  /\ Collect(findings, offset, kind, ranges) \in Founds(offset, room)
         /\ ToSet(findings) \subseteq ToSet(Collect(findings, offset, kind, ranges))
         /\ \A k \in 1 .. Len(ranges) :
              Touched(Collect(findings, offset, kind, ranges), offset, ranges[k])
         /\ findings = <<>> /\ Ahead(ranges) =>
              \A k \in 1 .. Len(ranges) :
                Shows(Collect(findings, offset, kind, ranges), offset, ranges[k])
<1> DEFINE n == Len(ranges)
           A == Founds(offset, room)
           F == [x \in A \X (1 .. n) |-> AddValue(x[1], offset, kind, ranges[x[2]])]
           it == CHOOSE j : j = [p \in SUBSET (1 .. n) |->
                   IF p = {} THEN findings ELSE AddValue(j[p \ {Max(p)}], offset, kind, ranges[Max(p)])]
<1>1. n \in Nat /\ DOMAIN ranges = 1 .. n /\ \A i \in 1 .. n : ranges[i] \in Spans(room)
  OBVIOUS
<1>2. Collect(findings, offset, kind, ranges) = it[1 .. n]
  BY <1>1, Zenon DEF Collect, AddValue, Value, Moved, FoldLeft, MapThenFoldSet
<1>3. /\ \A a \in A : \A i \in 1 .. n : F[<<a, i>>] = AddValue(a, offset, kind, ranges[i])
      /\ \A a \in A : \A i \in 1 .. n : F[<<a, i>>] \in A
  BY <1>1, AddedIs
<1>4. findings \in A
  OBVIOUS
<1> HIDE DEF F, A, n
<1>5. PICK j \in [SUBSET (1 .. n) -> A] : Folds(j, n, findings, F)
  BY <1>1, <1>3, <1>4, FoldIn DEF n
<1>6. \A p \in SUBSET (1 .. n) : p # {} => Max(p) \in 1 .. n /\ j[p \ {Max(p)}] \in A
  <2> TAKE p \in SUBSET (1 .. n)
  <2> HAVE p # {}
  <2>1. Max(p) \in 1 .. n
    BY <1>1, MaxIs DEF n
  <2> QED BY <1>5, <2>1
<1>7. j = [p \in SUBSET (1 .. n) |->
             IF p = {} THEN findings ELSE AddValue(j[p \ {Max(p)}], offset, kind, ranges[Max(p)])]
  BY <1>3, <1>5, <1>6 DEF Folds
<1>8. it = [p \in SUBSET (1 .. n) |->
              IF p = {} THEN findings ELSE AddValue(it[p \ {Max(p)}], offset, kind, ranges[Max(p)])]
  BY <1>7
<1> HIDE DEF it
<1>9. Stays(F, A, n) /\ Follows(it, n, A, findings, F)
  BY <1>3, <1>6, <1>8 DEF Stays, Follows
<1>10. PICK g \in [0 .. n -> A] : g[n] = it[1 .. n] /\ IsRun(g, n, findings, F)
  BY <1>1, <1>4, <1>9, FoldRun DEF n
<1>11. /\ g[0] = findings /\ g[n] = Collect(findings, offset, kind, ranges)
       /\ \A i \in 0 .. n : g[i] \in Founds(offset, room)
       /\ \A i \in 1 .. n : i - 1 \in 0 .. n /\ i \in 0 .. n /\ g[i] = AddValue(g[i - 1], offset, kind, ranges[i])
  <2>1. \A i \in 1 .. n : i - 1 \in 0 .. n /\ i \in 0 .. n
    BY <1>1 DEF n
  <2>2. \A i \in 0 .. n : g[i] \in A
    BY <1>10
  <2>3. \A i \in 1 .. n : F[<<g[i - 1], i>>] = AddValue(g[i - 1], offset, kind, ranges[i])
    BY <1>3, <2>1, <2>2
  <2>4. \A i \in 1 .. n : g[i] = F[<<g[i - 1], i>>]
    BY <1>10 DEF IsRun
  <2>5. g[0] = findings
    BY <1>10 DEF IsRun
  <2> QED BY <1>2, <1>10, <2>1, <2>2, <2>3, <2>4, <2>5 DEF A
<1>12. \A i \in 1 .. n : ToSet(g[i - 1]) \subseteq ToSet(g[i]) /\ Touched(g[i], offset, ranges[i])
  BY <1>1, <1>11, AddedIs
<1> DEFINE Good == {i \in 0 .. n : /\ ToSet(findings) \subseteq ToSet(g[i])
                                  /\ \A k \in 1 .. i : Touched(g[i], offset, ranges[k])}
<1>13. 0 \in Good
  BY <1>1, <1>11 DEF n
<1>14. \A i \in 1 .. n : i - 1 \in Good => i \in Good
  <2> TAKE i \in 1 .. n
  <2> HAVE i - 1 \in Good
  <2>1. \A k \in 1 .. i - 1 : Touched(g[i], offset, ranges[k])
    BY <1>12 DEF Touched
  <2>2. \A k \in 1 .. i : k \in 1 .. i - 1 \/ k = i
    BY <1>1 DEF n
  <2> QED BY <1>11, <1>12, <2>1, <2>2
<1>15. 0 .. n \subseteq Good
  <2> HIDE DEF Good
  <2> QED BY <1>1, <1>13, <1>14, Inductive DEF n
<1>16. n \in 0 .. n
  BY <1>1 DEF n
<1>17. ASSUME findings = <<>>, Ahead(ranges)
       PROVE  \A k \in 1 .. n : Shows(g[n], offset, ranges[k])
  <2> DEFINE Told(i) == /\ DOMAIN g[i] = 1 .. i
                        /\ \A k \in 1 .. i : g[i][k].range = Moved(offset, ranges[k])
             G2 == {i \in 0 .. n : Told(i)}
  <2>1. 0 \in G2
    BY <1>1, <1>11, <1>17 DEF n
  <2>2. ASSUME NEW i \in 1 .. n, i - 1 \in G2
        PROVE  i \in G2
    <3> DEFINE s == g[i - 1]
    <3>1. /\ s \in Seq(Values(offset, room)) /\ DOMAIN s = 1 .. i - 1 /\ i \in Int
          /\ \A k \in 1 .. i - 1 : s[k].range = Moved(offset, ranges[k])
      BY <1>11, <2>2 DEF Founds
    <3>2. Len(s) = i - 1
      <4>1. Len(s) \in Nat /\ 1 .. Len(s) = 1 .. i - 1 /\ i - 1 \in Nat
        BY <3>1, <1>1 DEF n
      <4> HIDE DEF s
      <4> QED BY <4>1
    <3>3. \A k \in 1 .. i - 1 : ~Overlaps(Moved(offset, ranges[k]), Moved(offset, ranges[i]))
      <4> TAKE k \in 1 .. i - 1
      <4>1. ranges[k].end <= ranges[i].start
        BY <1>17, AheadIs DEF n
      <4>2. k \in 1 .. n /\ ranges[k] \in Spans(room) /\ ranges[i] \in Spans(room)
        BY <1>1 DEF n
      <4>3. ranges[k].end \in Nat /\ ranges[i].start \in Nat
        BY <4>2 DEF Spans
      <4> QED BY <4>1, <4>3 DEF Overlaps, Moved, ByteRange
    <3>4. ~Touched(s, offset, ranges[i])
      <4> SUFFICES ASSUME NEW f \in ToSet(s)
                   PROVE  ~Overlaps(f.range, Moved(offset, ranges[i]))
        BY DEF Touched
      <4>1. PICK k \in 1 .. i - 1 : f = s[k]
        BY <3>1 DEF ToSet
      <4> HIDE DEF s
      <4> QED BY <3>1, <3>3, <4>1
    <3>5. g[i] = Append(s, Value(offset, kind, ranges[i]))
      BY <1>11, <3>4 DEF AddValue, Touched
    <3>6. /\ Value(offset, kind, ranges[i]) \in Values(offset, room)
          /\ Value(offset, kind, ranges[i]).range = Moved(offset, ranges[i])
      BY <1>1, ValueOf
    <3> DEFINE v == Value(offset, kind, ranges[i])
    <3> HIDE DEF s, v
    <3>7. /\ DOMAIN g[i] = 1 .. (i - 1) + 1 /\ g[i][(i - 1) + 1] = v
          /\ \A k \in 1 .. i - 1 : g[i][k] = s[k]
      <4>1. g[i] = Append(s, v) /\ v \in Values(offset, room)
        BY <3>5, <3>6 DEF v
      <4>2. /\ Append(s, v)[Len(s) + 1] = v /\ \A k \in 1 .. Len(s) : Append(s, v)[k] = s[k]
            /\ DOMAIN Append(s, v) = 1 .. Len(s) + 1
        BY <3>1, <4>1, AppendedIs
      <4> QED BY <3>2, <4>1, <4>2
    <3>8. \A k \in 1 .. i : k \in 1 .. i - 1 \/ k = i
      BY <1>1 DEF n
    <3>9. (i - 1) + 1 = i
      BY <3>1
    <3> QED BY <1>11, <3>1, <3>6, <3>7, <3>8, <3>9 DEF v
  <2> HIDE DEF G2
  <2>3. 0 .. n \subseteq G2
    BY <1>1, <2>1, <2>2, Inductive DEF n
  <2>4. Told(n)
    BY <1>16, <2>3 DEF G2
  <2> QED BY <2>4 DEF Shows, ToSet
<1> HIDE DEF n
<1>18. n \in Good
  BY <1>15, <1>16
<1> QED BY <1>11, <1>16, <1>17, <1>18 DEF n

LEMMA KindsAre ==
  /\ Len(VolatileKinds) = 4 /\ DOMAIN VolatileKinds = 1 .. 4 /\ VolatileKinds[1] = "jwt"
  /\ \A i \in 1 .. 4 : VolatileKinds[i] \in ToSet(VolatileKinds)
  /\ \A kind \in ToSet(VolatileKinds) : \E i \in 1 .. 4 : kind = VolatileKinds[i]
<1>1. Len(VolatileKinds) = 4 /\ DOMAIN VolatileKinds = 1 .. 4 /\ VolatileKinds[1] = "jwt"
  BY DEF VolatileKinds
<1> QED BY <1>1 DEF ToSet

LEMMA CollectedIs ==
  ASSUME NEW offset \in Nat, NEW room \in Int, NEW matches,
         \A kind \in ToSet(VolatileKinds) :
           matches[kind] \in Seq(Spans(room)) /\ Ahead(matches[kind])
  PROVE  /\ Collected(offset, matches) \in Founds(offset, room)
         /\ \A kind \in ToSet(VolatileKinds) : \A k \in 1 .. Len(matches[kind]) :
              Touched(Collected(offset, matches), offset, matches[kind][k])
         /\ \A k \in 1 .. Len(matches["jwt"]) :
              Shows(Collected(offset, matches), offset, matches["jwt"][k])
<1> DEFINE n == Len(VolatileKinds)
           A == Founds(offset, room)
           F == [x \in A \X (1 .. n) |-> Collect(x[1], offset, VolatileKinds[x[2]], matches[VolatileKinds[x[2]]])]
           it == CHOOSE j : j = [p \in SUBSET (1 .. n) |->
                   IF p = {} THEN <<>>
                   ELSE Collect(j[p \ {Max(p)}], offset, VolatileKinds[Max(p)], matches[VolatileKinds[Max(p)]])]
<1>1. n \in Nat /\ n = 4 /\ DOMAIN VolatileKinds = 1 .. n
  BY KindsAre
<1>2. Collected(offset, matches) = it[1 .. n]
  BY <1>1, Zenon DEF Collected, FoldLeft, MapThenFoldSet
<1>3. /\ \A a \in A : \A i \in 1 .. n : F[<<a, i>>] = Collect(a, offset, VolatileKinds[i], matches[VolatileKinds[i]])
      /\ \A a \in A : \A i \in 1 .. n : F[<<a, i>>] \in A
  BY <1>1, KindsAre, CollectIs
<1>4. <<>> \in A
  <2>1. Apart(<<>>) /\ <<>> \in Seq(Values(offset, room))
    BY DEF Apart
  <2> QED BY <2>1 DEF Founds
<1> HIDE DEF F, A, n
<1>5. PICK j \in [SUBSET (1 .. n) -> A] : Folds(j, n, <<>>, F)
  BY <1>1, <1>3, <1>4, FoldIn DEF n
<1>6. \A p \in SUBSET (1 .. n) : p # {} => Max(p) \in 1 .. n /\ j[p \ {Max(p)}] \in A
  <2> TAKE p \in SUBSET (1 .. n)
  <2> HAVE p # {}
  <2>1. Max(p) \in 1 .. n
    BY <1>1, MaxIs DEF n
  <2> QED BY <1>5, <2>1
<1>7. j = [p \in SUBSET (1 .. n) |->
             IF p = {} THEN <<>>
             ELSE Collect(j[p \ {Max(p)}], offset, VolatileKinds[Max(p)], matches[VolatileKinds[Max(p)]])]
  BY <1>3, <1>5, <1>6 DEF Folds
<1>8. it = [p \in SUBSET (1 .. n) |->
              IF p = {} THEN <<>>
              ELSE Collect(it[p \ {Max(p)}], offset, VolatileKinds[Max(p)], matches[VolatileKinds[Max(p)]])]
  BY <1>7
<1> HIDE DEF it
<1>9. Stays(F, A, n) /\ Follows(it, n, A, <<>>, F)
  BY <1>3, <1>6, <1>8 DEF Stays, Follows
<1>10. PICK g \in [0 .. n -> A] : g[n] = it[1 .. n] /\ IsRun(g, n, <<>>, F)
  BY <1>1, <1>4, <1>9, FoldRun DEF n
<1> DEFINE Kind(i) == VolatileKinds[i]
<1>11. /\ g[0] = <<>> /\ g[4] = Collected(offset, matches) /\ \A i \in 0 .. 4 : g[i] \in Founds(offset, room)
       /\ \A i \in 1 .. 4 : i - 1 \in 0 .. 4 /\ i \in 0 .. 4
             /\ g[i] = Collect(g[i - 1], offset, Kind(i), matches[Kind(i)])
  <2>1. \A i \in 1 .. 4 : i - 1 \in 0 .. 4 /\ i \in 0 .. 4
    OBVIOUS
  <2>2. \A i \in 0 .. 4 : g[i] \in A
    BY <1>1, <1>10
  <2>3. \A i \in 1 .. 4 : F[<<g[i - 1], i>>] = Collect(g[i - 1], offset, Kind(i), matches[Kind(i)])
    BY <1>1, <1>3, <2>1, <2>2
  <2>4. \A i \in 1 .. 4 : g[i] = F[<<g[i - 1], i>>]
    BY <1>1, <1>10 DEF IsRun
  <2>5. g[0] = <<>>
    BY <1>10 DEF IsRun
  <2> QED BY <1>1, <1>2, <1>10, <2>1, <2>2, <2>3, <2>4, <2>5 DEF A
<1>12. \A i \in 1 .. 4 : /\ Kind(i) \in ToSet(VolatileKinds) /\ matches[Kind(i)] \in Seq(Spans(room))
                         /\ Ahead(matches[Kind(i)]) /\ g[i - 1] \in Founds(offset, room)
  BY <1>11, KindsAre
<1> HIDE DEF Kind
<1> DEFINE All(i, e) == \A k \in 1 .. Len(matches[Kind(e)]) : Touched(g[i], offset, matches[Kind(e)][k])
<1>13. \A i \in 1 .. 4 : /\ ToSet(g[i - 1]) \subseteq ToSet(g[i]) /\ All(i, i)
                         /\ \A e \in 1 .. 4 : All(i - 1, e) => All(i, e)
  <2> TAKE i \in 1 .. 4
  <2>1. ToSet(g[i - 1]) \subseteq ToSet(g[i]) /\ All(i, i)
    <3> DEFINE a == g[i - 1]
               kind == Kind(i)
               ranges == matches[Kind(i)]
    <3>1. a \in Founds(offset, room) /\ kind \in ToSet(VolatileKinds) /\ ranges \in Seq(Spans(room))
      BY <1>12
    <3>2. g[i] = Collect(a, offset, kind, ranges)
      BY <1>11
    <3> HIDE DEF a, kind, ranges
    <3>3. ToSet(a) \subseteq ToSet(g[i]) /\ \A k \in 1 .. Len(ranges) : Touched(g[i], offset, ranges[k])
      BY <3>1, <3>2, CollectIs
    <3> QED BY <3>3 DEF a, kind, ranges
  <2>2. \A r : Touched(g[i - 1], offset, r) => Touched(g[i], offset, r)
    BY <2>1 DEF Touched
  <2> QED BY <2>1, <2>2
<1>14. \A k \in 1 .. Len(matches[Kind(1)]) : Shows(g[1], offset, matches[Kind(1)][k])
  <2> DEFINE a == g[0]
             kind == Kind(1)
             ranges == matches[Kind(1)]
  <2>1. 1 \in 1 .. 4 /\ 1 - 1 = 0
    OBVIOUS
  <2>2. /\ a \in Founds(offset, room) /\ kind \in ToSet(VolatileKinds) /\ ranges \in Seq(Spans(room))
        /\ a = <<>> /\ Ahead(ranges) /\ g[1] = Collect(a, offset, kind, ranges)
    BY <1>11, <1>12, <2>1
  <2> HIDE DEF a, kind, ranges
  <2>3. \A k \in 1 .. Len(ranges) : Shows(g[1], offset, ranges[k])
    BY <2>2, CollectIs
  <2> QED BY <2>3 DEF ranges
<1>15. ToSet(g[1]) \subseteq ToSet(g[2]) /\ ToSet(g[2]) \subseteq ToSet(g[3]) /\ ToSet(g[3]) \subseteq ToSet(g[4])
  <2>1. 2 - 1 = 1 /\ 3 - 1 = 2 /\ 4 - 1 = 3 /\ 2 \in 1 .. 4 /\ 3 \in 1 .. 4 /\ 4 \in 1 .. 4
    OBVIOUS
  <2> QED BY <1>13, <2>1, Zenon
<1>16. \A k \in 1 .. Len(matches[Kind(1)]) : Shows(g[4], offset, matches[Kind(1)][k])
  BY <1>14, <1>15 DEF Shows
<1> HIDE DEF All
<1>17. All(4, 1) /\ All(4, 2) /\ All(4, 3) /\ All(4, 4)
  <2>1. \A i \in 1 .. 3 : \A e \in 1 .. 4 : All(i, e) => All(i + 1, e)
    <3> TAKE i \in 1 .. 3
    <3>1. i + 1 \in 1 .. 4 /\ (i + 1) - 1 = i
      OBVIOUS
    <3> QED BY <1>13, <3>1
  <2>2. 1 + 1 = 2 /\ 2 + 1 = 3 /\ 3 + 1 = 4 /\ 1 \in 1 .. 3 /\ 2 \in 1 .. 3 /\ 3 \in 1 .. 3
        /\ 1 \in 1 .. 4 /\ 2 \in 1 .. 4 /\ 3 \in 1 .. 4 /\ 4 \in 1 .. 4
    OBVIOUS
  <2>3. All(1, 1) /\ All(2, 2) /\ All(3, 3) /\ All(4, 4)
    BY <1>13, <2>2
  <2>4. All(2, 1) /\ All(3, 2) /\ All(4, 3)
    BY <2>1, <2>2, <2>3
  <2>5. All(3, 1) /\ All(4, 2)
    BY <2>1, <2>2, <2>4
  <2> QED BY <2>1, <2>2, <2>3, <2>4, <2>5
<1>18. \A i \in 1 .. 4 : All(4, i)
  <2>1. \A i \in 1 .. 4 : i = 1 \/ i = 2 \/ i = 3 \/ i = 4
    OBVIOUS
  <2> QED BY <1>17, <2>1
<1>19. 4 \in 0 .. 4
  OBVIOUS
<1> QED BY <1>11, <1>16, <1>18, <1>19, KindsAre DEF All, Kind

(* Sorted by their start, values that are apart end before the next.       *)
LEMMA ByStartIs ==
  ASSUME NEW offset \in Nat, NEW room \in Int, NEW found \in Founds(offset, room)
  PROVE  /\ ToSet(ByStart(found)) = ToSet(found)
         /\ \A k \in DOMAIN ByStart(found) : ByStart(found)[k] \in Values(offset, room)
         /\ \A j, k \in DOMAIN ByStart(found) :
              j < k => ByStart(found)[j].range.end <= ByStart(found)[k].range.start
<1> DEFINE places == DOMAIN found
           Start(k) == found[k].range.start
           before == {p \in places \X places :
                        Start(p[1]) < Start(p[2]) \/ (Start(p[1]) = Start(p[2]) /\ p[1] < p[2])}
           order == Sorted(places, before)
           n == Len(found)
           c == Cardinality(places)
<1>1. ByStart(found) = [k \in DOMAIN order |-> found[order[k]]]
  BY DEF ByStart
<1>2. n \in Nat /\ places = 1 .. n /\ \A k \in places : found[k] \in Values(offset, room)
  BY DEF Founds
<1>3. \A k \in places : /\ Start(k) \in Int /\ found[k].range.end \in Int
                        /\ Start(k) < found[k].range.end
  <2> TAKE k \in places
  <2>1. found[k] \in Values(offset, room)
    BY <1>2
  <2>2. /\ found[k].range \in [start : Nat, end : Nat]
        /\ found[k].range.start < found[k].range.end
    BY <2>1, ValueIs
  <2> QED BY <2>2
<1>4. \A j, k \in places : <<j, k>> \in before <=> Start(j) < Start(k) \/ (Start(j) = Start(k) /\ j < k)
  OBVIOUS
<1>5. Apart(found)
  BY DEF Founds
<1> HIDE DEF before, Start
<1>6. Orders(before, places)
  <2>1. \A k \in places : k \in Int /\ Start(k) \in Int
    BY <1>2, <1>3
  <2> HIDE DEF places
  <2>2. \A i \in places : <<i, i>> \notin before
    BY <1>4, <2>1
  <2>3. \A i, j, k \in places : <<i, j>> \in before /\ <<j, k>> \in before => <<i, k>> \in before
    BY <1>4, <2>1
  <2>4. \A i, j \in places : i # j => <<i, j>> \in before \/ <<j, i>> \in before
    BY <1>4, <2>1
  <2> QED BY <2>2, <2>3, <2>4 DEF Orders
<1> HIDE DEF places, order, c, n
<1>7. /\ c \in Nat /\ order \in [1 .. c -> places]
      /\ \A j, k \in 1 .. c : j < k => <<order[j], order[k]>> \in before
      /\ \A i \in places : \E k \in 1 .. c : order[k] = i
  <2>1. n \in Nat /\ places \subseteq 1 .. n /\ Orders(before, places)
    BY <1>2, <1>6
  <2>2. Sorts(Sorted(places, before), places, before)
    BY <2>1, SortedIs
  <2> QED BY <2>2 DEF order, c, Sorts
<1>8. /\ DOMAIN ByStart(found) = 1 .. c
      /\ \A k \in 1 .. c : order[k] \in places /\ ByStart(found)[k] = found[order[k]]
  BY <1>1, <1>7
<1>9. ToSet(ByStart(found)) = ToSet(found)
  BY <1>7, <1>8 DEF ToSet, places
<1>10. ASSUME NEW j \in 1 .. c, NEW k \in 1 .. c, j < k
       PROVE  found[order[j]].range.end <= found[order[k]].range.start
  <2> DEFINE a == order[j]
             b == order[k]
  <2>1. a \in places /\ b \in places /\ <<a, b>> \in before
    BY <1>7, <1>10
  <2> HIDE DEF a, b
  <2>2. Start(a) < Start(b) \/ (Start(a) = Start(b) /\ a < b)
    BY <1>4, <2>1
  <2>3. a # b
    BY <1>2, <1>3, <2>1, <2>2
  <2>4. ~(found[a].range.start < found[b].range.end /\ found[b].range.start < found[a].range.end)
    BY <1>5, <2>1, <2>3 DEF Apart, Overlaps, places
  <2>5. found[a].range.end <= found[b].range.start
    BY <1>3, <2>1, <2>2, <2>4 DEF Start
  <2> QED BY <2>5 DEF a, b
<1>11. \A k \in 1 .. c : ByStart(found)[k] \in Values(offset, room)
  BY <1>2, <1>8
<1>12. \A j, k \in 1 .. c : j < k => ByStart(found)[j].range.end <= ByStart(found)[k].range.start
  BY <1>8, <1>10
<1> QED BY <1>8, <1>9, <1>11, <1>12, Zenon

LEMMA MovedBytes ==
  ASSUME NEW offset \in Nat, NEW room, NEW r \in Spans(room)
  PROVE  Bytes(Moved(offset, r)) = {offset + p : p \in Bytes(r)}
<1>1. r.start \in Int /\ r.end \in Int
  BY DEF Spans
<1>2. Moved(offset, r).start = offset + r.start /\ Moved(offset, r).end = offset + r.end
  BY DEF Moved, ByteRange
<1>3. ASSUME NEW x \in Bytes(Moved(offset, r))
      PROVE  x \in {offset + p : p \in Bytes(r)}
  <2>1. x - offset \in Bytes(r) /\ x = offset + (x - offset)
    BY <1>1, <1>2, <1>3 DEF Bytes
  <2> QED BY <2>1
<1>4. ASSUME NEW p \in Bytes(r)
      PROVE  offset + p \in Bytes(Moved(offset, r))
  BY <1>1, <1>2, <1>4 DEF Bytes
<1> QED BY <1>3, <1>4

LEMMA OverlapBytes ==
  ASSUME NEW a, a.start \in Nat, a.end \in Nat, a.start < a.end,
         NEW b, b.start \in Nat, b.end \in Nat, b.start < b.end, Overlaps(a, b)
  PROVE  Bytes(a) \cap Bytes(b) # {}
<1>1. \E x \in Int : x \in Bytes(a) /\ x \in Bytes(b)
  <2>1. CASE a.start <= b.start
    BY <2>1 DEF Overlaps, Bytes
  <2>2. CASE b.start <= a.start
    BY <2>2 DEF Overlaps, Bytes
  <2> QED BY <2>1, <2>2
<1> QED BY <1>1

(* What is told of a frozen prefix is where it says.                       *)
LEMMA FrozenInPlace ==
  ASSUME NEW call \in FrozenPrefixes
  PROVE  FindingsAreInPlace(call, detect_volatile_cache_values(call.input, call.frozen_range, call.matches))
<1> DEFINE frozen == call.frozen_range
           matches == call.matches
           offset == frozen.start
           room == frozen.end - frozen.start
           found == Collected(offset, matches)
           got == ByStart(found)
<1>1. offset \in Nat /\ room \in Int /\ frozen.end \in Nat /\ offset + room = frozen.end
  BY FrozenAssumption
<1>2. ASSUME NEW kind \in ToSet(VolatileKinds)
      PROVE  matches[kind] \in Seq(Spans(room)) /\ Ahead(matches[kind])
  <2> DEFINE m == matches[kind]
  <2>1. /\ m \in Seq([start : Nat, end : Nat])
        /\ \A k \in DOMAIN m : m[k].start < m[k].end /\ m[k].end <= room
        /\ \A k \in DOMAIN m : k > 1 => m[k - 1].end <= m[k].start
    BY FrozenAssumption
  <2> HIDE DEF m, room
  <2>2. /\ Len(m) \in Nat /\ m = [k \in 1 .. Len(m) |-> m[k]] /\ DOMAIN m = 1 .. Len(m)
        /\ \A k \in 1 .. Len(m) : m[k] \in [start : Nat, end : Nat]
    <3> DEFINE S == [start : Nat, end : Nat]
    <3>1. m \in Seq(S)
      BY <2>1
    <3> HIDE DEF S
    <3>2. /\ Len(m) \in Nat /\ m = [k \in 1 .. Len(m) |-> m[k]] /\ DOMAIN m = 1 .. Len(m)
          /\ \A k \in 1 .. Len(m) : m[k] \in S
      BY <3>1
    <3> QED BY <3>2 DEF S
  <2>3. \A k \in 1 .. Len(m) : m[k] \in Spans(room)
    BY <2>1, <2>2 DEF Spans
  <2>4. m \in [1 .. Len(m) -> Spans(room)]
    BY <2>2, <2>3
  <2>5. m \in Seq(Spans(room))
    BY <2>2, <2>4, FunSeq
  <2>6. Ahead(m)
    BY <2>1 DEF Ahead
  <2> QED BY <2>5, <2>6 DEF m
<1> HIDE DEF offset, room, matches
<1>3. /\ found \in Founds(offset, room)
      /\ \A kind \in ToSet(VolatileKinds) : \A k \in 1 .. Len(matches[kind]) :
           Touched(found, offset, matches[kind][k])
      /\ \A k \in 1 .. Len(matches["jwt"]) : Shows(found, offset, matches["jwt"][k])
  BY <1>1, <1>2, CollectedIs
<1> HIDE DEF found
<1>4. /\ ToSet(got) = ToSet(found)
      /\ \A k \in DOMAIN got : got[k] \in Values(offset, room)
      /\ \A j, k \in DOMAIN got : j < k => got[j].range.end <= got[k].range.start
  BY <1>1, <1>3, ByStartIs
<1>5. detect_volatile_cache_values(call.input, frozen, matches)
        = IF IsValidFor(frozen, call.input) THEN got ELSE <<>>
  BY Zenon DEF detect_volatile_cache_values, Collected, found, offset
<1> HIDE DEF got
<1> DEFINE told == {Bytes(f.range) : f \in ToSet(got)}
           Matched(kind) == {{offset + p : p \in Bytes(m)} : m \in ToSet(matches[kind])}
<1>6. \A f \in ToSet(got) : /\ f.range.start \in Nat /\ f.range.end \in Nat
                            /\ offset <= f.range.start /\ f.range.start < f.range.end
                            /\ f.range.end <= offset + room
  <2> TAKE f \in ToSet(got)
  <2>1. f \in Values(offset, room)
    BY <1>4 DEF ToSet
  <2> QED BY <1>1, <2>1, ValueIs
<1>7. UNION told \subseteq Bytes(frozen)
  <2> SUFFICES ASSUME NEW f \in ToSet(got), NEW x \in Bytes(f.range)
               PROVE  x \in Bytes(frozen)
    OBVIOUS
  <2>1. f.range.start \in Nat /\ f.range.end \in Nat /\ offset <= f.range.start /\ f.range.end <= frozen.end
    BY <1>1, <1>6
  <2>2. x \in f.range.start .. f.range.end - 1
    BY DEF Bytes
  <2>3. x \in offset .. frozen.end - 1
    BY <1>1, <2>1, <2>2
  <2> QED BY <2>3 DEF Bytes, offset
<1>8. ASSUME NEW kind \in ToSet(VolatileKinds), NEW m \in ToSet(matches[kind])
      PROVE  /\ m \in Spans(room)
             /\ Bytes(Moved(offset, m)) = {offset + p : p \in Bytes(m)}
             /\ \E k \in 1 .. Len(matches[kind]) : m = matches[kind][k]
  <2>1. matches[kind] \in Seq(Spans(room))
    BY <1>2
  <2>2. PICK k \in 1 .. Len(matches[kind]) : m = matches[kind][k]
    BY <2>1 DEF ToSet
  <2>3. m \in Spans(room)
    BY <2>1, <2>2
  <2> QED BY <1>1, <2>2, <2>3, MovedBytes
<1>9. "jwt" \in ToSet(VolatileKinds)
  BY KindsAre
<1>10. Matched("jwt") \subseteq told
  <2> SUFFICES ASSUME NEW m \in ToSet(matches["jwt"])
               PROVE  {offset + p : p \in Bytes(m)} \in told
    OBVIOUS
  <2>1. Shows(found, offset, m) /\ Bytes(Moved(offset, m)) = {offset + p : p \in Bytes(m)}
    BY <1>3, <1>8, <1>9
  <2>2. PICK f \in ToSet(got) : f.range = Moved(offset, m)
    BY <1>4, <2>1 DEF Shows
  <2> QED BY <2>1, <2>2
<1>11. \A kind \in ToSet(VolatileKinds) : \A M \in Matched(kind) : \E t \in told : M \cap t # {}
  <2> SUFFICES ASSUME NEW kind \in ToSet(VolatileKinds), NEW m \in ToSet(matches[kind])
               PROVE  \E t \in told : {offset + p : p \in Bytes(m)} \cap t # {}
    OBVIOUS
  <2>1. /\ Touched(found, offset, m) /\ m \in Spans(room)
        /\ Bytes(Moved(offset, m)) = {offset + p : p \in Bytes(m)}
    BY <1>3, <1>8
  <2>2. PICK f \in ToSet(got) : Overlaps(f.range, Moved(offset, m))
    BY <1>4, <2>1 DEF Touched
  <2> DEFINE b == Moved(offset, m)
             a == f.range
  <2>3. b.start \in Nat /\ b.end \in Nat /\ b.start < b.end
    BY <1>1, <2>1 DEF Spans, Moved, ByteRange
  <2>4. a.start \in Nat /\ a.end \in Nat /\ a.start < a.end
    BY <1>6
  <2>5. Bytes(a) \cap Bytes(b) # {}
    BY <2>2, <2>3, <2>4, OverlapBytes
  <2> QED BY <2>1, <2>5
<1> HIDE DEF told, Matched
<1>12. CASE ~IsValidFor(frozen, call.input)
  BY <1>5, <1>12 DEF FindingsAreInPlace, matches
<1>13. CASE IsValidFor(frozen, call.input)
  <2>1. FindingsAreInPlace(call, got)
    BY <1>4, <1>7, <1>10, <1>11, <1>13, Zenon DEF FindingsAreInPlace, told, Matched, offset, matches
  <2>2. detect_volatile_cache_values(call.input, frozen, call.matches) = got
    BY <1>5, <1>13 DEF matches
  <2> QED BY <2>1, <2>2
<1> QED BY <1>12, <1>13

-----------------------------------------------------------------------------
-----
(* Hits.                                                                   *)

LEMMA SeqFun ==
  ASSUME NEW S, NEW s \in Seq(S)
  PROVE  /\ Len(s) \in Nat /\ DOMAIN s = 1 .. Len(s) /\ s \in [1 .. Len(s) -> S]
         /\ \A k \in DOMAIN s : s[k] \in S
OBVIOUS

LEMMA HitIs ==
  ASSUME NEW S, NEW text \in Seq(S), NEW h \in HitsOf(text)
  PROVE  /\ h.line \in 1 .. Len(text) /\ h.line \in Nat /\ h.row = text[h.line] /\ h.row \in S
         /\ h \in [line : Nat, row : S]
<1>1. PICK i \in 1 .. Len(text) : h = Hit(i, text[i])
  BY DEF HitsOf
<1>2. text[i] \in S /\ i \in Nat
  OBVIOUS
<1> QED BY <1>1, <1>2 DEF Hit

LEMMA MidIs ==
  ASSUME NEW S, NEW s \in Seq(S), NEW a \in 0 .. Len(s), NEW b \in a .. Len(s)
  PROVE  /\ SubSeq(s, a + 1, b) \in Seq(S) /\ Len(SubSeq(s, a + 1, b)) = b - a
         /\ \A i \in 1 .. b - a : SubSeq(s, a + 1, b)[i] = s[a + i]
OBVIOUS

LEMMA BoundIs ==
  ASSUME NEW bound, IsBound(bound), NEW len \in Nat, NEW default \in 0 .. len
  PROVE  Fixed(bound, default, len) \in 0 .. len
<1>1. CASE bound = <<>>
  BY <1>1 DEF Fixed
<1>2. CASE bound # <<>> /\ bound[1] < 0
  <2>1. bound[1] \in Int
    BY <1>2 DEF IsBound
  <2>2. Fixed(bound, default, len) = Max({len + bound[1], 0})
    BY <1>2 DEF Fixed
  <2> DEFINE b == bound[1]
  <2> HIDE DEF b
  <2>3. /\ Max({len + b, 0}) \in {len + b, 0} /\ Max({len + b, 0}) >= len + b
        /\ Max({len + b, 0}) >= 0
    <3>1. len + b \in Int /\ 0 \in Int
      BY <2>1 DEF b
    <3> QED BY <3>1, LeastOfTwo
  <2>4. len + b <= len /\ b \in Int
    BY <1>2, <2>1 DEF b
  <2> QED BY <2>2, <2>3, <2>4 DEF b
<1>3. CASE bound # <<>> /\ ~(bound[1] < 0)
  <2>1. bound[1] \in Int
    BY <1>3 DEF IsBound
  <2>2. Fixed(bound, default, len) = Min({bound[1], len})
    BY <1>3 DEF Fixed
  <2> DEFINE b == bound[1]
  <2>3. b \in Int /\ b >= 0 /\ len \in Int
    BY <1>3, <2>1
  <2> HIDE DEF b
  <2>4. Min({b, len}) \in {b, len} /\ Min({b, len}) <= len
    BY <2>3, LeastOfTwo
  <2> QED BY <2>2, <2>3, <2>4 DEF b
<1> QED BY <1>1, <1>2, <1>3

LEMMA ScopeIs ==
  ASSUME NEW S, NEW text \in Seq(S), NEW scope, IsBound(scope.from), IsBound(scope.to)
  PROVE  LET r == resolve(scope, Len(text))
             s == apply_scope(text, scope)
         IN  /\ r.start \in 0 .. Len(text) /\ r.end \in r.start .. Len(text)
             /\ s.offset = r.start /\ s.text \in Seq(S) /\ Len(s.text) = r.end - r.start
             /\ \A i \in 1 .. Len(s.text) : s.text[i] = text[r.start + i]
<1> DEFINE len == Len(text)
           a == Fixed(scope.from, 0, len)
           c == Fixed(scope.to, len, len)
           b == Max({a, c})
<1>1. len \in Nat /\ 0 \in 0 .. len /\ len \in 0 .. len
  OBVIOUS
<1>2. a \in 0 .. len /\ c \in 0 .. len
  <2> HIDE DEF len
  <2> QED BY <1>1, BoundIs
<1> HIDE DEF a, c
<1>3. b \in a .. len
  <2>1. a \in Int /\ c \in Int
    BY <1>2
  <2>2. b \in {a, c} /\ b >= a
    BY <2>1, LeastOfTwo
  <2> HIDE DEF b
  <2> QED BY <1>1, <1>2, <2>2
<1>4. resolve(scope, len) = [start |-> a, end |-> b]
  BY DEF resolve, a, c
<1> HIDE DEF b
<1>5. apply_scope(text, scope) = [text |-> SubSeq(text, a + 1, b), offset |-> a]
  BY <1>4 DEF apply_scope
<1>6. /\ SubSeq(text, a + 1, b) \in Seq(S) /\ Len(SubSeq(text, a + 1, b)) = b - a
      /\ \A i \in 1 .. b - a : SubSeq(text, a + 1, b)[i] = text[a + i]
  BY <1>2, <1>3, MidIs
<1> QED BY <1>2, <1>3, <1>4, <1>5, <1>6

LEMMA ShiftedIs ==
  ASSUME NEW S, NEW text \in Seq(S), NEW h \in Seq(HitsOf(text)), NEW t, NEW by \in Nat
  PROVE  IsShift(shift_lines(Hits(h, t), by), h, t, S, by)
<1> DEFINE got == shift_lines(Hits(h, t), by)
           H == [line : Nat, row : S]
           o == Hits(h, t)
           w == [k \in DOMAIN o.hits |->
                   IF o.hits[k].line = 0 THEN o.hits[k] ELSE [o.hits[k] EXCEPT !.line = @ + by]]
<1>0. o.hits = h
  BY DEF Hits
<1>1. Len(h) \in Nat /\ DOMAIN h = 1 .. Len(h) /\ \A k \in 1 .. Len(h) : h[k] \in HitsOf(text)
  BY SeqFun
<1>2. \A k \in 1 .. Len(h) : h[k].line \in 1 .. Len(text) /\ h[k] \in H
  BY <1>1, HitIs
<1>3. Len(text) \in Nat
  OBVIOUS
<1> HIDE DEF o
<1>4. ASSUME NEW x \in H
      PROVE  /\ [x EXCEPT !.line = @ + by] \in H
             /\ [x EXCEPT !.line = @ + by].line = x.line + by
             /\ [x EXCEPT !.line = @ + by].row = x.row
  OBVIOUS
<1>5. \A k \in 1 .. Len(h) : w[k] = [h[k] EXCEPT !.line = @ + by]
  <2> TAKE k \in 1 .. Len(h)
  <2>1. h[k].line # 0
    BY <1>2, <1>3
  <2> QED BY <1>0, <1>1, <2>1
<1> HIDE DEF H
<1>6. \A k \in 1 .. Len(h) : w[k] \in H /\ w[k].line = h[k].line + by /\ w[k].row = h[k].row
  BY <1>2, <1>4, <1>5
<1>7. DOMAIN w = 1 .. Len(h) /\ w = [k \in 1 .. Len(h) |-> w[k]]
  BY <1>0, <1>1
<1> HIDE DEF w
<1>8. w \in Seq(H) /\ Len(w) = Len(h)
  <2>1. w \in [1 .. Len(h) -> H]
    BY <1>6, <1>7
  <2> QED BY <1>1, <2>1, FunSeq
<1>9. got = Hits(w, o.truncated)
  BY Zenon DEF shift_lines, w, o
<1>10. got.hits = w /\ got.truncated = t
  BY <1>9 DEF Hits, o
<1> HIDE DEF got
<1> QED BY <1>6, <1>8, <1>10, Zenon DEF H, IsShift, got

(* What is shown of the whole text for the hits in a slice of it.          *)
LEMMA ShownHits ==
  ASSUME NEW look \in Looks, NEW h, NEW t \in Int,
         h \in Seq(HitsOf(apply_scope(look.text, look.scope).text)),
         run_scoped(apply_scope(look.text, look.scope).text, look.op) = Hits(h, t)
  PROVE  LET got == run_on_text(look.text, look.op, look.scope)
             s == apply_scope(look.text, look.scope)
         IN  /\ Len(got.hits) \in 0 .. Len(h) /\ DOMAIN got.hits = 1 .. Len(got.hits)
             /\ \A k \in DOMAIN got.hits : /\ h[k] \in HitsOf(s.text) /\ h[k].line \in 1 .. Len(s.text)
                                           /\ got.hits[k].line = s.offset + h[k].line
                                           /\ got.hits[k].line \in Scoped(look)
                                           /\ look.text[got.hits[k].line] = got.hits[k].row
             /\ Rising(h) => Rising(got.hits)
             /\ look.op.is # "summarize" => Len(got.hits) + got.truncated = Len(h) + t
<1> DEFINE text == look.text
           s == apply_scope(look.text, look.scope)
           r == resolve(look.scope, Len(look.text))
           got == run_on_text(look.text, look.op, look.scope)
           y == shift_lines(Hits(h, t), s.offset)
           fit == Min({Len(y.hits), max_output_hits})
<1>1. /\ r.start \in 0 .. Len(text) /\ r.end \in r.start .. Len(text)
      /\ s.offset = r.start /\ s.text \in Seq(DOMAIN Row) /\ Len(s.text) = r.end - r.start
      /\ \A i \in 1 .. Len(s.text) : s.text[i] = text[r.start + i]
  BY LooksAssumption, ScopeIs
<1>2. Len(text) \in Nat /\ r.start \in Nat /\ r.end \in Int /\ s.offset \in Nat
  <2>1. Len(text) \in Nat
    BY LooksAssumption
  <2> HIDE DEF text, s, r
  <2> QED BY <1>1, <2>1
<1>3. got = IF look.op.is = "summarize" THEN y ELSE cap(y)
  BY Zenon DEF run_on_text
<1> HIDE DEF s, r, got
<1>4. /\ y.truncated = t /\ y.hits \in Seq([line : Nat, row : DOMAIN Row]) /\ Len(y.hits) = Len(h)
      /\ \A k \in 1 .. Len(h) : y.hits[k].line = h[k].line + s.offset /\ y.hits[k].row = h[k].row
  <2>1. h \in Seq(HitsOf(s.text))
    BY DEF s
  <2> DEFINE S == DOMAIN Row
             x == s.text
             b == s.offset
  <2>2. x \in Seq(S) /\ h \in Seq(HitsOf(x)) /\ b \in Nat
    BY <1>1, <1>2, <2>1
  <2> HIDE DEF S, x, b
  <2>3. IsShift(shift_lines(Hits(h, t), b), h, t, S, b)
    BY <2>2, ShiftedIs
  <2> QED BY <2>3 DEF S, b, IsShift
<1> HIDE DEF y
<1>5. Len(h) \in Nat /\ DOMAIN h = 1 .. Len(h) /\ \A k \in 1 .. Len(h) : h[k] \in HitsOf(s.text)
  BY SeqFun DEF s
<1>6. cap(y) = Hits(SubSeq(y.hits, 1, fit), t + Len(h) - fit) /\ fit \in 0 .. Len(h)
  <2>1. cap(y) = Hits(SubSeq(y.hits, 1, fit), t + Len(h) - fit)
    BY <1>4 DEF cap
  <2>2. Len(y.hits) \in Int /\ max_output_hits \in Int /\ max_output_hits \in Nat /\ Len(y.hits) \in Nat
    BY <1>4, <1>5, LimitsAssumption
  <2>3. fit \in {Len(y.hits), max_output_hits} /\ fit <= Len(y.hits)
    BY <2>2, LeastOfTwo
  <2> HIDE DEF fit
  <2> QED BY <1>4, <2>1, <2>2, <2>3
<1> HIDE DEF fit
<1>7. PICK m \in 0 .. Len(h) :
        /\ Len(got.hits) = m /\ DOMAIN got.hits = 1 .. m
        /\ \A k \in 1 .. m : got.hits[k] = y.hits[k]
        /\ look.op.is # "summarize" => got.truncated = t + Len(h) - m
  <2>1. CASE look.op.is = "summarize"
    <3>1. Len(h) \in 0 .. Len(h) /\ got = y
      BY <1>3, <1>5, <2>1
    <3>2. Len(y.hits) = Len(h) /\ DOMAIN y.hits = 1 .. Len(h)
      BY <1>4
    <3> QED BY <2>1, <3>1, <3>2
  <2>2. CASE look.op.is # "summarize"
    <3>1. got.hits = SubSeq(y.hits, 1, fit) /\ got.truncated = t + Len(h) - fit
      BY <1>3, <1>6, <2>2 DEF Hits
    <3>2. /\ SubSeq(y.hits, 1, fit) \in Seq([line : Nat, row : DOMAIN Row])
          /\ Len(SubSeq(y.hits, 1, fit)) = fit
          /\ \A i \in 1 .. fit : SubSeq(y.hits, 1, fit)[i] = y.hits[i]
      <4> DEFINE H == [line : Nat, row : DOMAIN Row]
      <4>1. y.hits \in Seq(H) /\ fit \in 0 .. Len(y.hits)
        BY <1>4, <1>6
      <4> HIDE DEF H
      <4>2. /\ SubSeq(y.hits, 1, fit) \in Seq(H)
            /\ Len(SubSeq(y.hits, 1, fit)) = fit
            /\ \A i \in 1 .. fit : SubSeq(y.hits, 1, fit)[i] = y.hits[i]
        BY <4>1, Beginning
      <4> QED BY <4>2 DEF H
    <3>3. DOMAIN SubSeq(y.hits, 1, fit) = 1 .. fit
      BY <3>2
    <3> QED BY <1>6, <3>1, <3>2, <3>3
  <2> QED BY <2>1, <2>2
<1>8. ASSUME NEW k \in 1 .. m
      PROVE  /\ h[k] \in HitsOf(s.text) /\ h[k].line \in 1 .. Len(s.text)
             /\ got.hits[k].line = s.offset + h[k].line
             /\ got.hits[k].line \in Scoped(look)
             /\ look.text[got.hits[k].line] = got.hits[k].row
  <2>1. k \in 1 .. Len(h) /\ h[k] \in HitsOf(s.text)
    BY <1>5
  <2>2. h[k].line \in 1 .. Len(s.text) /\ h[k].row = s.text[h[k].line]
    BY <1>1, <2>1, HitIs
  <2>3. got.hits[k].line = h[k].line + r.start /\ got.hits[k].row = h[k].row
    BY <1>1, <1>4, <1>7, <2>1
  <2>4. s.text[h[k].line] = text[r.start + h[k].line]
    BY <1>1, <2>2
  <2>5. r.start + h[k].line \in (r.start + 1) .. r.end /\ h[k].line + r.start = r.start + h[k].line
    BY <1>1, <1>2, <2>2
  <2> QED BY <1>1, <2>1, <2>2, <2>3, <2>4, <2>5 DEF Scoped, r
<1>9. ASSUME Rising(h)
      PROVE  Rising(got.hits)
  <2> SUFFICES ASSUME NEW j \in 1 .. m, NEW k \in 1 .. m, j < k
               PROVE  got.hits[j].line < got.hits[k].line
    BY <1>7 DEF Rising
  <2>1. h[j].line < h[k].line
    BY <1>5, <1>9 DEF Rising
  <2>2. /\ got.hits[j].line = s.offset + h[j].line /\ h[j].line \in 1 .. Len(s.text)
        /\ got.hits[k].line = s.offset + h[k].line /\ h[k].line \in 1 .. Len(s.text)
    BY <1>8
  <2>3. Len(s.text) \in Int
    BY <1>1, <1>2
  <2> QED BY <1>2, <2>1, <2>2, <2>3
<1>10. look.op.is # "summarize" => Len(got.hits) + got.truncated = Len(h) + t
  BY <1>5, <1>7
<1> QED BY <1>7, <1>8, <1>9, <1>10 DEF got, s

LEMMA HitsAt ==
  ASSUME NEW S, NEW text \in Seq(S), NEW c \in Nat, NEW order \in [1 .. c -> DOMAIN text]
  PROVE  LET h == [k \in DOMAIN order |-> Hit(order[k], text[order[k]])]
         IN  /\ h \in Seq(HitsOf(text)) /\ Len(h) = c
             /\ (\A j, k \in 1 .. c : j < k => order[j] < order[k]) => Rising(h)
<1> DEFINE h == [k \in DOMAIN order |-> Hit(order[k], text[order[k]])]
<1>1. DOMAIN order = 1 .. c
  OBVIOUS
<1>2. \A k \in 1 .. c : order[k] \in DOMAIN text
  OBVIOUS
<1>3. \A i \in DOMAIN text : Hit(i, text[i]) \in HitsOf(text)
  BY DEF HitsOf
<1>4. h \in [1 .. c -> HitsOf(text)]
  BY <1>1, <1>2, <1>3
<1>5. h \in Seq(HitsOf(text)) /\ Len(h) = c
  BY <1>4, FunSeq
<1>6. \A k \in 1 .. c : h[k].line = order[k]
  BY <1>1 DEF Hit
<1>7. DOMAIN h = 1 .. c
  BY <1>1
<1> HIDE DEF h
<1>8. (\A j, k \in 1 .. c : j < k => order[j] < order[k]) => Rising(h)
  BY <1>6, <1>7 DEF Rising
<1> QED BY <1>5, <1>8 DEF h

LEMMA AwkFinds ==
  ASSUME NEW S, NEW text \in Seq(S), NEW test
  PROVE  FindsInOrder(awk(text, test), text)
<1> DEFINE picked == {n \in DOMAIN text : AwkTest(test, n, text[n])}
           keep == FirstOf(picked, max_lines)
           shown == InOrder(keep, Len(text))
           kept == keep \cap (1 .. Len(text))
           h == [k \in DOMAIN shown |-> Hit(shown[k], text[shown[k]])]
           t == Cardinality(picked) - Len(shown)
<1>1. awk(text, test) = Hits(h, t)
  BY Zenon DEF awk
<1>2. Len(text) \in Nat /\ DOMAIN text = 1 .. Len(text)
  OBVIOUS
<1>3. Cardinality(picked) \in Nat
  <2>1. picked \subseteq 1 .. Len(text)
    BY <1>2
  <2>2. IsFiniteSet(1 .. Len(text))
    BY <1>2, FS_Interval
  <2> HIDE DEF picked
  <2> QED BY <2>1, <2>2, FS_Subset, FS_CardinalityType
<1>4. Enumerates(shown, kept)
  BY <1>2, InOrderIs
<1> HIDE DEF picked, keep, shown
<1>5. /\ Cardinality(kept) \in Nat /\ shown \in [1 .. Cardinality(kept) -> kept]
      /\ \A j, k \in 1 .. Cardinality(kept) : j < k => shown[j] < shown[k]
  BY <1>4 DEF Enumerates
<1>6. shown \in [1 .. Cardinality(kept) -> DOMAIN text] /\ Len(shown) = Cardinality(kept)
  <2>1. kept \subseteq DOMAIN text
    BY <1>2
  <2> HIDE DEF kept
  <2> QED BY <1>5, <2>1
<1> HIDE DEF kept
<1>7. h \in Seq(HitsOf(text)) /\ Rising(h)
  BY <1>5, <1>6, HitsAt
<1>8. t \in Int
  BY <1>3, <1>5, <1>6
<1> HIDE DEF h, t
<1> QED BY <1>1, <1>7, <1>8 DEF FindsInOrder

LEMMA RegexFinds ==
  ASSUME NEW text \in Seq(DOMAIN Row), NEW pattern
  PROVE  Finds(regex_matches(text, pattern), text)
<1> DEFINE Of(i) == [k \in 1 .. Row[text[i]].times |-> Hit(i, text[i])]
           u == [i \in DOMAIN text |->
                   IF pattern \in Row[text[i]].patterns
                   THEN [k \in 1 .. Row[text[i]].times |-> Hit(i, text[i])] ELSE <<>>]
           all == FlattenSeq(u)
           shown == Min({Len(all), max_hits})
<1>1. Len(text) \in Nat /\ DOMAIN text = 1 .. Len(text)
  OBVIOUS
<1>2. \A i \in 1 .. Len(text) : u[i] \in Seq(HitsOf(text))
  <2> TAKE i \in 1 .. Len(text)
  <2>1. Hit(i, text[i]) \in HitsOf(text)
    BY <1>1 DEF HitsOf
  <2>2. Row[text[i]].times \in Nat
    BY RowAssumption
  <2> DEFINE m == Row[text[i]].times
             H == HitsOf(text)
             x == Hit(i, text[i])
             s == [k \in 1 .. m |-> x]
  <2>3. u[i] = s \/ u[i] = <<>>
    BY <1>1
  <2>4. m \in Nat /\ x \in H
    BY <2>1, <2>2
  <2> HIDE DEF m, H, x, u
  <2>5. s \in [1 .. m -> H]
    BY <2>4
  <2>6. s \in Seq(H) /\ <<>> \in Seq(H)
    BY <2>4, <2>5, FunSeq
  <2> QED BY <2>3, <2>6 DEF H
<1>3. all \in Seq(HitsOf(text))
  <2>1. u \in [1 .. Len(text) -> Seq(HitsOf(text))]
    BY <1>1, <1>2
  <2> HIDE DEF u
  <2> QED BY <1>1, <2>1, FlattenedIs
<1>4. regex_matches(text, pattern) = Hits(SubSeq(all, 1, shown), Len(all) - shown)
  BY Zenon DEF regex_matches
<1> HIDE DEF all
<1>5. Len(all) \in Nat /\ shown \in 0 .. Len(all)
  <2>1. Len(all) \in Nat /\ max_hits \in Nat
    BY <1>3, LimitsAssumption
  <2>2. Len(all) \in Int /\ max_hits \in Int
    BY <2>1
  <2>3. shown \in {Len(all), max_hits} /\ shown <= Len(all)
    BY <2>2, LeastOfTwo
  <2> HIDE DEF shown
  <2> QED BY <2>1, <2>3
<1> HIDE DEF shown
<1>6. SubSeq(all, 1, shown) \in Seq(HitsOf(text)) /\ Len(all) - shown \in Int
  BY <1>3, <1>5, Beginning
<1> QED BY <1>4, <1>6 DEF Finds

LEMMA HeadingsFind ==
  ASSUME NEW S, NEW text \in Seq(S)
  PROVE  Finds(extract_headings(text), text) /\ Len(extract_headings(text).hits) \in Nat
<1> DEFINE Step(r, i) ==
             IF Row[text[i]].fence THEN [r EXCEPT !.fenced = ~@]
             ELSE IF r.fenced \/ Row[text[i]].level \notin 1..6 THEN r
             ELSE IF Len(r.hits) >= max_hits THEN [r EXCEPT !.truncated = @ + 1]
             ELSE [r EXCEPT !.hits = Append(@, Hit(i, text[i]))]
           base == [hits |-> <<>>, truncated |-> 0, fenced |-> FALSE]
           places == [i \in DOMAIN text |-> i]
           read == FoldLeft(LAMBDA r, i : Step(r, i), base, places)
<1> DEFINE n == Len(text)
           A == [hits : Seq(HitsOf(text)), truncated : Int, fenced : BOOLEAN]
           F == [x \in A \X (1 .. n) |-> Step(x[1], places[x[2]])]
           it == CHOOSE j : j = [p \in SUBSET (1 .. n) |->
                   IF p = {} THEN base ELSE Step(j[p \ {Max(p)}], places[Max(p)])]
<1>1. n \in Nat /\ DOMAIN text = 1 .. n /\ DOMAIN places = 1 .. n /\ Len(places) = n
  OBVIOUS
<1>0. ASSUME NEW a \in [hits : Seq(HitsOf(text)), truncated : Int, fenced : BOOLEAN], NEW i \in DOMAIN text
      PROVE  Step(a, i) \in [hits : Seq(HitsOf(text)), truncated : Int, fenced : BOOLEAN]
  <2> DEFINE H == HitsOf(text)
             x == Hit(i, text[i])
  <2>1. x \in H
    BY DEF HitsOf
  <2> HIDE DEF H, x
  <2>2. a \in [hits : Seq(H), truncated : Int, fenced : BOOLEAN]
    BY DEF H
  <2>3. [a EXCEPT !.fenced = ~@] \in [hits : Seq(H), truncated : Int, fenced : BOOLEAN]
    BY <2>2
  <2>4. [a EXCEPT !.truncated = @ + 1] \in [hits : Seq(H), truncated : Int, fenced : BOOLEAN]
    BY <2>2
  <2>5. [a EXCEPT !.hits = Append(@, x)] \in [hits : Seq(H), truncated : Int, fenced : BOOLEAN]
    BY <2>1, <2>2
  <2> QED BY <2>2, <2>3, <2>4, <2>5, Zenon DEF H, x
<1> HIDE DEF Step
<1>2. read = it[1 .. n]
  BY <1>1, Zenon DEF FoldLeft, MapThenFoldSet
<1>3. /\ \A a \in A : \A i \in 1 .. n : F[<<a, i>>] = Step(a, places[i])
      /\ \A a \in A : \A i \in 1 .. n : F[<<a, i>>] \in A
  <2>1. \A i \in 1 .. n : places[i] \in DOMAIN text
    BY <1>1
  <2> QED BY <1>0, <2>1
<1>4. base \in A
  <2>1. <<>> \in Seq(HitsOf(text))
    OBVIOUS
  <2> QED BY <2>1
<1> HIDE DEF F, A, n
<1>5. PICK j \in [SUBSET (1 .. n) -> A] : Folds(j, n, base, F)
  BY <1>1, <1>3, <1>4, FoldIn DEF n
<1>6. \A p \in SUBSET (1 .. n) : p # {} => Max(p) \in 1 .. n /\ j[p \ {Max(p)}] \in A
  <2> TAKE p \in SUBSET (1 .. n)
  <2> HAVE p # {}
  <2>1. Max(p) \in 1 .. n
    BY <1>1, MaxIs DEF n
  <2> QED BY <1>5, <2>1
<1>7. j = [p \in SUBSET (1 .. n) |->
             IF p = {} THEN base ELSE Step(j[p \ {Max(p)}], places[Max(p)])]
  BY <1>3, <1>5, <1>6 DEF Folds
<1>8. it = [p \in SUBSET (1 .. n) |->
              IF p = {} THEN base ELSE Step(it[p \ {Max(p)}], places[Max(p)])]
  BY <1>7
<1> HIDE DEF it
<1>9. Stays(F, A, n) /\ Follows(it, n, A, base, F)
  BY <1>3, <1>6, <1>8 DEF Stays, Follows
<1>10. PICK g \in [0 .. n -> A] : g[n] = it[1 .. n] /\ IsRun(g, n, base, F)
  BY <1>1, <1>4, <1>9, FoldRun DEF n
<1>11. read \in A
  <2>1. n \in 0 .. n
    BY <1>1
  <2> HIDE DEF n, read
  <2> QED BY <1>2, <1>10, <2>1
<1>12. extract_headings(text) = Hits(read.hits, read.truncated)
  BY Zenon DEF extract_headings, Step
<1> HIDE DEF read
<1>13. read.hits \in Seq(HitsOf(text)) /\ read.truncated \in Int
  BY <1>11 DEF A
<1>14. Len(read.hits) \in Nat
  BY <1>13
<1>15. extract_headings(text).hits = read.hits
  BY <1>12 DEF Hits
<1> QED BY <1>12, <1>13, <1>14, <1>15 DEF Finds

(* Windows of lines start within the text.                                 *)
LEMMA Times ==
  ASSUME NEW a \in Nat, NEW b \in Nat
  PROVE  a * b \in Nat
OBVIOUS

LEMMA TimesGrows ==
  ASSUME NEW x \in Nat, NEW y \in Nat, x <= y, NEW w \in Nat
  PROVE  x * w <= y * w
<1>1. (y - x) * w \in Nat
  <2>1. y - x \in Nat
    OBVIOUS
  <2> QED BY <2>1, Times
<1>2. (y - x) * w = y * w - x * w
  OBVIOUS
<1>3. x * w \in Int /\ y * w \in Int
  OBVIOUS
<1> QED BY <1>1, <1>2, <1>3

LEMMA OneLess ==
  ASSUME NEW q \in Int, NEW w \in Int
  PROVE  (q - 1) * w = q * w - w /\ q * w \in Int
OBVIOUS

LEMMA Divided ==
  ASSUME NEW a \in Nat, NEW w \in Nat \ {0}
  PROVE  (a \div w) \in Nat /\ (a \div w) * w <= a
OBVIOUS

LEMMA WindowIs ==
  ASSUME NEW S, NEW text \in Seq(S), NEW w \in 1 .. Windows(text)
  PROVE  WindowStart(w) \in DOMAIN text
<1> DEFINE W == SEARCH_WINDOW_LINES
           len == Len(text)
           q == (len + W - 1) \div W
<1>1. len \in Nat /\ W \in Nat \ {0} /\ DOMAIN text = 1 .. len
  BY LimitsAssumption
<1>2. w \in 1 .. q /\ WindowStart(w) = (w - 1) * W + 1
  BY DEF Windows, WindowStart
<1> HIDE DEF len, W
<1>3. q \in Nat /\ q * W <= len + W - 1
  <2>1. len + W - 1 \in Nat
    BY <1>1
  <2> QED BY <1>1, <2>1, Divided
<1> HIDE DEF q
<1>4. w - 1 \in Nat /\ q - 1 \in Nat /\ w - 1 <= q - 1 /\ W \in Nat /\ W \in Int /\ q \in Int
  BY <1>1, <1>2, <1>3
<1>5. (w - 1) * W <= (q - 1) * W /\ (w - 1) * W \in Nat
  BY <1>4, TimesGrows, Times
<1>6. (q - 1) * W = q * W - W /\ q * W \in Int
  BY <1>4, OneLess
<1> DEFINE a == (w - 1) * W
           b == q * W
<1> HIDE DEF a, b
<1>7. a \in Nat /\ a <= b - W /\ b \in Int /\ b <= len + W - 1
  BY <1>3, <1>5, <1>6 DEF a, b
<1>8. a + 1 \in 1 .. len
  BY <1>1, <1>4, <1>7
<1> QED BY <1>1, <1>2, <1>8 DEF a

LEMMA LinesSumIs ==
  ASSUME NEW S, NEW s \in Seq(S), NEW a \in Nat \ {0}, NEW b \in 0 .. Len(s)
  PROVE  SubSeq(s, a, b) \in Seq(S)
<1>1. CASE a <= b
  BY <1>1
<1>2. CASE b < a
  <2>1. SubSeq(s, a, b) = <<>>
    BY <1>2
  <2> QED BY <2>1
<1> QED BY <1>1, <1>2

LEMMA ScoreSum ==
  ASSUME NEW s \in Seq(DOMAIN Row)
  PROVE  FoldLeft(LAMBDA c, row : c + Row[row].score, 0, s) \in Nat
<1> DEFINE n == Len(s)
           A == Nat
           F == [x \in A \X (1 .. n) |-> x[1] + Row[s[x[2]]].score]
           it == CHOOSE j : j = [p \in SUBSET (1 .. n) |->
                   IF p = {} THEN 0 ELSE j[p \ {Max(p)}] + Row[s[Max(p)]].score]
<1>1. n \in Nat /\ DOMAIN s = 1 .. n /\ \A i \in 1 .. n : s[i] \in DOMAIN Row
  OBVIOUS
<1>2. FoldLeft(LAMBDA c, row : c + Row[row].score, 0, s) = it[1 .. n]
  BY <1>1, Zenon DEF FoldLeft, MapThenFoldSet
<1>3. /\ \A a \in A : \A i \in 1 .. n : F[<<a, i>>] = a + Row[s[i]].score
      /\ \A a \in A : \A i \in 1 .. n : F[<<a, i>>] \in A
  <2>1. \A i \in 1 .. n : Row[s[i]].score \in Nat
    BY <1>1, RowAssumption
  <2> QED BY <2>1
<1>4. 0 \in A
  OBVIOUS
<1> HIDE DEF F, A, n
<1>5. PICK j \in [SUBSET (1 .. n) -> A] : Folds(j, n, 0, F)
  BY <1>1, <1>3, <1>4, FoldIn DEF n
<1>6. \A p \in SUBSET (1 .. n) : p # {} => Max(p) \in 1 .. n /\ j[p \ {Max(p)}] \in A
  <2> TAKE p \in SUBSET (1 .. n)
  <2> HAVE p # {}
  <2>1. Max(p) \in 1 .. n
    BY <1>1, MaxIs DEF n
  <2> QED BY <1>5, <2>1
<1>7. j = [p \in SUBSET (1 .. n) |->
             IF p = {} THEN 0 ELSE j[p \ {Max(p)}] + Row[s[Max(p)]].score]
  BY <1>3, <1>5, <1>6 DEF Folds
<1>8. it = [p \in SUBSET (1 .. n) |->
              IF p = {} THEN 0 ELSE it[p \ {Max(p)}] + Row[s[Max(p)]].score]
  BY <1>7
<1> HIDE DEF it
<1>9. Stays(F, A, n) /\ Follows(it, n, A, 0, F)
  BY <1>3, <1>6, <1>8 DEF Stays, Follows
<1>10. PICK g \in [0 .. n -> A] : g[n] = it[1 .. n] /\ IsRun(g, n, 0, F)
  BY <1>1, <1>4, <1>9, FoldRun DEF n
<1>11. n \in 0 .. n
  BY <1>1 DEF n
<1>12. it[1 .. n] \in Nat
  BY <1>10, <1>11 DEF A
<1> QED BY <1>2, <1>12, Zenon

LEMMA ScoreIs ==
  ASSUME NEW text \in Seq(DOMAIN Row), NEW w \in Nat \ {0}
  PROVE  WindowScore(text, w) \in Nat
<1> DEFINE W == SEARCH_WINDOW_LINES
           a == (w - 1) * W
           b == Min({w * W, Len(text)})
<1>1. W \in Nat /\ w - 1 \in Nat /\ w \in Nat /\ Len(text) \in Nat
  BY LimitsAssumption
<1> HIDE DEF W
<1>2. a \in Nat /\ w * W \in Nat
  BY <1>1, Times
<1>3. b \in 0 .. Len(text)
  <2>1. w * W \in Int /\ Len(text) \in Int
    BY <1>1, <1>2
  <2>2. b \in {w * W, Len(text)} /\ b <= Len(text)
    BY <2>1, LeastOfTwo
  <2> HIDE DEF b
  <2> QED BY <1>1, <1>2, <2>2
<1> HIDE DEF a, b
<1>4. SubSeq(text, a + 1, b) \in Seq(DOMAIN Row)
  <2>1. a + 1 \in Nat \ {0}
    BY <1>2
  <2> QED BY <1>3, <2>1, LinesSumIs
<1>5. WindowLines(text, w) = SubSeq(text, a + 1, b)
  BY DEF WindowLines, WindowStart, a, b, W
<1>6. WindowScore(text, w) = FoldLeft(LAMBDA c, row : c + Row[row].score, 0, WindowLines(text, w))
  BY Zenon DEF WindowScore
<1>7. WindowLines(text, w) \in Seq(DOMAIN Row)
  BY <1>4, <1>5
<1> QED BY <1>6, <1>7, ScoreSum

LEMMA RankFinds ==
  ASSUME NEW text \in Seq(DOMAIN Row), NEW top_k \in Nat
  PROVE  Finds(search_windows(text, top_k), text)
<1> DEFINE n == Windows(text)
           scored == {w \in 1 .. Windows(text) : WindowScore(text, w) > 0}
           Score(w) == WindowScore(text, w)
           better == {p \in scored \X scored :
                        Score(p[1]) > Score(p[2]) \/ (Score(p[1]) = Score(p[2]) /\ p[1] < p[2])}
           best == Sorted(scored, better)
           c == Cardinality(scored)
           shown == Min({Len(best), top_k, max_hits})
           h == [k \in 1 .. shown |-> Hit(WindowStart(best[k]), text[WindowStart(best[k])])]
<1>1. search_windows(text, top_k) = Hits(h, Len(best) - shown)
  BY Zenon DEF search_windows
<1>2. n \in Nat /\ scored \subseteq 1 .. n
  <2> DEFINE W == SEARCH_WINDOW_LINES
  <2>1. Len(text) + W - 1 \in Nat /\ W \in Nat \ {0}
    BY LimitsAssumption
  <2> DEFINE m == Len(text) + W - 1
  <2> HIDE DEF m, W
  <2>2. m \div W \in Nat
    BY <2>1, Divided DEF m
  <2> QED BY <2>2 DEF Windows, m, W
<1>3. \A w \in scored : w \in Nat /\ Score(w) \in Nat /\ WindowStart(w) \in DOMAIN text
  <2> TAKE w \in scored
  <2>1. w \in 1 .. Windows(text) /\ w \in Nat \ {0}
    BY <1>2
  <2> QED BY <2>1, ScoreIs, WindowIs
<1>4. \A i, j \in scored : <<i, j>> \in better <=> Score(i) > Score(j) \/ (Score(i) = Score(j) /\ i < j)
  OBVIOUS
<1> HIDE DEF scored, better, Score, n
<1>5. Orders(better, scored)
  <2>1. \A i \in scored : <<i, i>> \notin better
    BY <1>3, <1>4
  <2>2. \A i, j, k \in scored : <<i, j>> \in better /\ <<j, k>> \in better => <<i, k>> \in better
    BY <1>3, <1>4
  <2>3. \A i, j \in scored : i # j => <<i, j>> \in better \/ <<j, i>> \in better
    BY <1>3, <1>4
  <2> QED BY <2>1, <2>2, <2>3 DEF Orders
<1>6. Sorts(best, scored, better)
  BY <1>2, <1>5, SortedIs
<1> HIDE DEF best
<1>7. c \in Nat /\ best \in [1 .. c -> scored] /\ Len(best) = c
  BY <1>6 DEF Sorts
<1> HIDE DEF c
<1>8. shown \in 0 .. c
  <2> DEFINE T == {c, top_k, max_hits}
             b == Max({c, Max({top_k, max_hits})})
  <2>1. c \in Int /\ top_k \in Int /\ max_hits \in Int /\ max_hits \in Nat
    BY <1>7, LimitsAssumption
  <2>2. \E x \in T : \A y \in T : x <= y
    <3>1. CASE c <= top_k /\ c <= max_hits
      BY <2>1, <3>1
    <3>2. CASE top_k <= c /\ top_k <= max_hits
      BY <2>1, <3>2
    <3>3. CASE max_hits <= c /\ max_hits <= top_k
      BY <2>1, <3>3
    <3> QED BY <2>1, <3>1, <3>2, <3>3
  <2>3. Min(T) \in T /\ \A y \in T : Min(T) <= y
    BY <2>2 DEF Min
  <2>4. shown = Min(T)
    BY <1>7
  <2> HIDE DEF shown
  <2> QED BY <1>7, <2>1, <2>3, <2>4
<1> HIDE DEF shown
<1>9. h \in [1 .. shown -> HitsOf(text)]
  <2>1. \A k \in 1 .. shown : best[k] \in scored
    BY <1>7, <1>8
  <2>2. \A k \in 1 .. shown : WindowStart(best[k]) \in DOMAIN text
    BY <1>3, <2>1
  <2>3. \A i \in DOMAIN text : Hit(i, text[i]) \in HitsOf(text)
    BY DEF HitsOf
  <2> QED BY <2>2, <2>3
<1>10. h \in Seq(HitsOf(text)) /\ Len(best) - shown \in Int
  <2>1. shown \in Nat
    BY <1>7, <1>8
  <2>2. h \in Seq(HitsOf(text))
    BY <1>9, <2>1, FunSeq
  <2> QED BY <1>7, <2>1, <2>2
<1> HIDE DEF h
<1> QED BY <1>1, <1>10 DEF Finds

(* Hits added one by one, at ascending places, are in order.               *)
LEMMA RunRises ==
  ASSUME NEW S, NEW text \in Seq(S), NEW n \in Nat, NEW o \in [1 .. n -> DOMAIN text],
         \A j, k \in 1 .. n : j < k => o[j] < o[k],
         NEW H \in [0 .. n -> Seq(HitsOf(text))], H[0] = <<>>,
         \A i \in 1 .. n : H[i] = H[i - 1] \/ H[i] = Append(H[i - 1], Hit(o[i], text[o[i]]))
  PROVE  Rising(H[n])
<1> DEFINE Upto(i, h) == \A k \in DOMAIN h : \E j \in 1 .. i : h[k].line = o[j]
           Good == {i \in 0 .. n : Rising(H[i]) /\ Upto(i, H[i])}
<1>1. 0 \in Good
  <2>1. DOMAIN H[0] = {}
    OBVIOUS
  <2> QED BY <2>1 DEF Rising
<1>2. ASSUME NEW i \in 1 .. n, i - 1 \in Good
      PROVE  i \in Good
  <2> DEFINE s == H[i - 1]
             x == Hit(o[i], text[o[i]])
  <2>1. Rising(s) /\ Upto(i - 1, s) /\ i - 1 \in 0 .. n /\ i \in 0 .. n /\ i \in 1 .. i
    BY <1>2
  <2>2. s \in Seq(HitsOf(text)) /\ x \in HitsOf(text) /\ x.line = o[i]
    BY <2>1 DEF HitsOf, Hit
  <2>3. \A j \in 1 .. i - 1 : j \in 1 .. i /\ j \in 1 .. n /\ o[j] < o[i]
    <3> TAKE j \in 1 .. i - 1
    <3>1. j \in 1 .. i /\ j \in 1 .. n /\ j < i
      OBVIOUS
    <3> QED BY <3>1
  <2>4. H[i] = s \/ H[i] = Append(s, x)
    OBVIOUS
  <2> HIDE DEF s, x, Good
  <2>5. Upto(i, s)
    BY <2>1, <2>3
  <2>6. Rising(Append(s, x)) /\ Upto(i, Append(s, x))
    <3> DEFINE m == Len(s)
               a == Append(s, x)
    <3>1. /\ m \in Nat /\ DOMAIN s = 1 .. m /\ DOMAIN a = 1 .. m + 1 /\ a[m + 1] = x
          /\ \A k \in 1 .. m : a[k] = s[k]
      BY <2>2, AppendedIs
    <3> HIDE DEF m, a
    <3>2. \A k \in 1 .. m + 1 : k \in 1 .. m \/ k = m + 1
      BY <3>1
    <3>3. Upto(i, a)
      BY <2>1, <2>2, <2>5, <3>1, <3>2
    <3>4. \A k \in 1 .. m : s[k].line < x.line
      <4> TAKE k \in 1 .. m
      <4>1. PICK j \in 1 .. i - 1 : s[k].line = o[j]
        BY <2>1, <3>1
      <4> QED BY <2>2, <2>3, <4>1
    <3>5. ASSUME NEW j \in DOMAIN a, NEW k \in DOMAIN a, j < k
          PROVE  a[j].line < a[k].line
      <4>1. CASE k \in 1 .. m
        <5>1. j \in 1 .. m /\ k \in 1 .. m
          BY <3>1, <3>2, <3>5, <4>1
        <5> QED BY <2>1, <3>1, <3>5, <5>1 DEF Rising
      <4>2. CASE k = m + 1
        <5>1. j \in 1 .. m
          BY <3>1, <3>2, <3>5, <4>2
        <5> QED BY <3>1, <3>4, <4>2, <5>1
      <4> QED BY <3>1, <3>2, <4>1, <4>2
    <3> QED BY <3>3, <3>5 DEF Rising, a
  <2> QED BY <2>1, <2>4, <2>5, <2>6 DEF Good
<1> HIDE DEF Good
<1>3. n \in Good
  <2>1. 0 .. n \subseteq Good
    BY <1>1, <1>2, Inductive
  <2> QED BY <2>1
<1> QED BY <1>3 DEF Good

LEMMA GrepFinds ==
  ASSUME NEW S, NEW text \in Seq(S), NEW pattern, NEW asked_context
  PROVE  FindsInOrder(grep(text, pattern, asked_context), text)
<1> DEFINE context == Min({asked_context, max_lines})
           matching == MatchingLines(text, pattern)
           kept == FirstOf(matching, max_hits)
           near == {i \in DOMAIN text : \E j \in kept : i \in (j - context)..(j + context)}
           reserved == FirstOf(kept, max_lines)
           Step(r, i) ==
             LET remaining == IF i \in reserved THEN r.remaining - 1 ELSE r.remaining
             IN  IF \/ Len(r.hits) + remaining >= max_lines /\ i \notin reserved
                    \/ Len(r.hits) >= max_lines
                 THEN [r EXCEPT !.remaining = remaining, !.truncated = @ + 1]
                 ELSE [r EXCEPT !.remaining = remaining, !.hits = Append(@, Hit(i, text[i]))]
           base == [hits |-> <<>>, truncated |-> Cardinality(matching \ kept),
                    remaining |-> Cardinality(reserved)]
           o == InOrder(near, Len(text))
           c == Cardinality(near \cap (1 .. Len(text)))
           walk == FoldLeft(LAMBDA r, i : Step(r, i), base, o)
<1> DEFINE n == Len(o)
           A == [hits : Seq(HitsOf(text)), truncated : Int, remaining : Int]
           F == [x \in A \X (1 .. n) |-> Step(x[1], o[x[2]])]
           it == CHOOSE j : j = [p \in SUBSET (1 .. n) |->
                   IF p = {} THEN base ELSE Step(j[p \ {Max(p)}], o[Max(p)])]
<1>0. ASSUME NEW a \in [hits : Seq(HitsOf(text)), truncated : Int, remaining : Int], NEW i \in DOMAIN text
      PROVE  /\ Step(a, i) \in [hits : Seq(HitsOf(text)), truncated : Int, remaining : Int]
             /\ Step(a, i).hits = a.hits \/ Step(a, i).hits = Append(a.hits, Hit(i, text[i]))
  <2> DEFINE H == HitsOf(text)
             T == [hits : Seq(H), truncated : Int, remaining : Int]
             x == Hit(i, text[i])
             m == IF i \in reserved THEN a.remaining - 1 ELSE a.remaining
             y == [a EXCEPT !.remaining = m, !.truncated = @ + 1]
             z == [a EXCEPT !.remaining = m, !.hits = Append(@, x)]
  <2>1. x \in H
    BY DEF HitsOf
  <2>2. Step(a, i) = y \/ Step(a, i) = z
    BY Zenon
  <2> HIDE DEF reserved, x, H
  <2>3. a \in T /\ m \in Int
    BY DEF H
  <2> HIDE DEF m
  <2>8. ASSUME NEW w \in T
        PROVE  /\ [w EXCEPT !.truncated = @ + 1] \in T
               /\ [w EXCEPT !.truncated = @ + 1].hits = w.hits
  OBVIOUS
  <2>9. ASSUME NEW w \in T
        PROVE  /\ [w EXCEPT !.hits = Append(@, x)] \in T
               /\ [w EXCEPT !.hits = Append(@, x)].hits = Append(w.hits, x)
    <3> DEFINE q == Append(w.hits, x)
               Q == Seq(H)
    <3>1. q \in Q
      BY <2>1
    <3> HIDE DEF q, Q
    <3>2. [w EXCEPT !.hits = q] \in T /\ [w EXCEPT !.hits = q].hits = q
      BY <3>1 DEF Q
    <3> QED BY <3>2 DEF q
  <2> DEFINE w == [a EXCEPT !.remaining = m]
  <2>10. w \in T /\ w.hits = a.hits
    BY <2>3
  <2>11. y = [w EXCEPT !.truncated = @ + 1] /\ z = [w EXCEPT !.hits = Append(@, x)]
    BY <2>3
  <2> HIDE DEF w, y, z, T
  <2>4. y \in T /\ y.hits = a.hits
    BY <2>8, <2>10, <2>11
  <2>5. z \in T /\ z.hits = Append(a.hits, x)
    BY <2>9, <2>10, <2>11
  <2> HIDE DEF Step
  <2>6. Step(a, i).hits = a.hits \/ Step(a, i).hits = Append(a.hits, x)
    BY <2>2, <2>4, <2>5
  <2>7. Step(a, i) \in T
    BY <2>2, <2>4, <2>5, Zenon
  <2> QED BY <2>6, <2>7 DEF H, x, T
<1> HIDE DEF Step
<1>20. Len(text) \in Nat /\ DOMAIN text = 1 .. Len(text)
  OBVIOUS
<1>21. /\ c \in Nat /\ o \in [1 .. c -> DOMAIN text]
      /\ \A j, k \in 1 .. c : j < k => o[j] < o[k]
  <2> DEFINE W == near \cap (1 .. Len(text))
  <2>1. Enumerates(o, W)
    BY <1>20, InOrderIs
  <2>2. W \subseteq DOMAIN text
    BY <1>20
  <2> HIDE DEF o, W, near
  <2>3. /\ Cardinality(W) \in Nat /\ o \in [1 .. Cardinality(W) -> W]
        /\ \A j, k \in 1 .. Cardinality(W) : j < k => o[j] < o[k]
    BY <2>1 DEF Enumerates
  <2> QED BY <2>2, <2>3 DEF W
<1>22. Cardinality(matching \ kept) \in Nat /\ Cardinality(reserved) \in Nat
  <2>1. matching \subseteq 1 .. Len(text)
    BY <1>20 DEF MatchingLines
  <2>2. IsFiniteSet(1 .. Len(text))
    BY <1>20, FS_Interval
  <2>3. kept \subseteq matching
    BY DEF FirstOf
  <2>4. reserved \subseteq kept
    BY DEF FirstOf
  <2> HIDE DEF matching, kept, reserved
  <2>5. matching \ kept \subseteq 1 .. Len(text) /\ reserved \subseteq 1 .. Len(text)
    BY <2>1, <2>3, <2>4
  <2>6. IsFiniteSet(matching \ kept) /\ IsFiniteSet(reserved)
    BY <2>2, <2>5, FS_Subset
  <2> QED BY <2>6, FS_CardinalityType
<1>23. grep(text, pattern, asked_context) = Hits(walk.hits, walk.truncated)
  BY Zenon DEF grep, Step
<1> HIDE DEF matching, kept, reserved, near, context, c
<1>1. n \in Nat /\ DOMAIN o = 1 .. n /\ o \in [1 .. n -> DOMAIN text] /\ n = c
  BY <1>21
<1> HIDE DEF o
<1>2. walk = it[1 .. n]
  BY <1>1, Zenon DEF FoldLeft, MapThenFoldSet
<1>3. /\ \A a \in A : \A i \in 1 .. n : F[<<a, i>>] = Step(a, o[i])
      /\ \A a \in A : \A i \in 1 .. n : F[<<a, i>>] \in A
  <2>1. \A i \in 1 .. n : o[i] \in DOMAIN text
    BY <1>1
  <2> QED BY <1>0, <2>1
<1>4. base \in A
  <2>1. <<>> \in Seq(HitsOf(text))
    OBVIOUS
  <2> QED BY <1>22, <2>1
<1> HIDE DEF F, A, n
<1>5. PICK j \in [SUBSET (1 .. n) -> A] : Folds(j, n, base, F)
  BY <1>1, <1>3, <1>4, FoldIn DEF n
<1>6. \A p \in SUBSET (1 .. n) : p # {} => Max(p) \in 1 .. n /\ j[p \ {Max(p)}] \in A
  <2> TAKE p \in SUBSET (1 .. n)
  <2> HAVE p # {}
  <2>1. Max(p) \in 1 .. n
    BY <1>1, MaxIs DEF n
  <2> QED BY <1>5, <2>1
<1>7. j = [p \in SUBSET (1 .. n) |->
             IF p = {} THEN base ELSE Step(j[p \ {Max(p)}], o[Max(p)])]
  BY <1>3, <1>5, <1>6 DEF Folds
<1>8. it = [p \in SUBSET (1 .. n) |->
              IF p = {} THEN base ELSE Step(it[p \ {Max(p)}], o[Max(p)])]
  BY <1>7
<1> HIDE DEF it
<1>9. Stays(F, A, n) /\ Follows(it, n, A, base, F)
  BY <1>3, <1>6, <1>8 DEF Stays, Follows
<1>10. PICK g \in [0 .. n -> A] : g[n] = it[1 .. n] /\ IsRun(g, n, base, F)
  BY <1>1, <1>4, <1>9, FoldRun DEF n
<1> DEFINE G == [i \in 0 .. n |-> g[i].hits]
<1>11. \A i \in 0 .. n : g[i] \in A /\ G[i] \in Seq(HitsOf(text))
  BY <1>10 DEF A
<1>12. G \in [0 .. n -> Seq(HitsOf(text))] /\ n \in 0 .. n /\ 0 \in 0 .. n
  BY <1>1, <1>11
<1>13. G[0] = <<>>
  BY <1>10, <1>12 DEF IsRun
<1>14. \A i \in 1 .. n : G[i] = G[i - 1] \/ G[i] = Append(G[i - 1], Hit(o[i], text[o[i]]))
  <2> TAKE i \in 1 .. n
  <2>1. i - 1 \in 0 .. n /\ i \in 0 .. n /\ o[i] \in DOMAIN text
    BY <1>1
  <2>2. g[i] = Step(g[i - 1], o[i])
    <3>1. g[i] = F[<<g[i - 1], i>>]
      BY <1>10 DEF IsRun
    <3> QED BY <1>3, <1>11, <2>1, <3>1
  <2>3. g[i].hits = g[i - 1].hits \/ g[i].hits = Append(g[i - 1].hits, Hit(o[i], text[o[i]]))
    BY <1>0, <1>11, <2>1, <2>2 DEF A
  <2> QED BY <2>1, <2>3
<1> HIDE DEF n
<1>15. Rising(G[n])
  <2>1. \A x, y \in 1 .. n : x < y => o[x] < o[y]
    BY <1>1, <1>21
  <2> HIDE DEF G
  <2> QED BY ZenonT(30), <1>1, <1>12, <1>13, <1>14, <2>1, RunRises
<1>16. walk = g[n]
  BY <1>2, <1>10, Zenon
<1> HIDE DEF walk
<1>17. walk.hits \in Seq(HitsOf(text)) /\ walk.truncated \in Int /\ Rising(walk.hits)
  BY <1>11, <1>12, <1>15, <1>16 DEF A
<1> QED BY <1>17, <1>23 DEF FindsInOrder

(* The overview keeps lines of the start and of the end, in order.         *)
LEMMA CharsSum ==
  ASSUME NEW text \in Seq(DOMAIN Row), NEW s \in Seq(DOMAIN text)
  PROVE  /\ FoldLeft(LAMBDA c, i : c + Row[text[i]].chars + 1, 0, s) \in Nat
         /\ Len(s) = 0 => FoldLeft(LAMBDA c, i : c + Row[text[i]].chars + 1, 0, s) = 0
<1> DEFINE n == Len(s)
           A == Nat
           F == [x \in A \X (1 .. n) |-> x[1] + Row[text[s[x[2]]]].chars + 1]
           it == CHOOSE j : j = [p \in SUBSET (1 .. n) |->
                   IF p = {} THEN 0 ELSE j[p \ {Max(p)}] + Row[text[s[Max(p)]]].chars + 1]
<1>1. n \in Nat /\ DOMAIN s = 1 .. n /\ \A i \in 1 .. n : s[i] \in DOMAIN text
  OBVIOUS
<1>2. FoldLeft(LAMBDA c, i : c + Row[text[i]].chars + 1, 0, s) = it[1 .. n]
  BY <1>1, Zenon DEF FoldLeft, MapThenFoldSet
<1>3. /\ \A a \in A : \A i \in 1 .. n : F[<<a, i>>] = a + Row[text[s[i]]].chars + 1
      /\ \A a \in A : \A i \in 1 .. n : F[<<a, i>>] \in A
  <2>1. \A i \in 1 .. n : Row[text[s[i]]].chars \in Nat
    <3> TAKE i \in 1 .. n
    <3>1. s[i] \in DOMAIN text /\ text[s[i]] \in DOMAIN Row
      BY <1>1
    <3> QED BY <3>1, RowAssumption
  <2>2. \A i \in 1 .. n : \A a \in A : a + Row[text[s[i]]].chars + 1 \in A
    BY <2>1
  <2>3. \A i \in 1 .. n : \A a \in A : F[<<a, i>>] = a + Row[text[s[i]]].chars + 1
    OBVIOUS
  <2> HIDE DEF F, A
  <2> QED BY <2>2, <2>3
<1>4. 0 \in A
  OBVIOUS
<1> HIDE DEF F, A, n
<1>5. PICK j \in [SUBSET (1 .. n) -> A] : Folds(j, n, 0, F)
  BY <1>1, <1>3, <1>4, FoldIn DEF n
<1>6. \A p \in SUBSET (1 .. n) : p # {} => Max(p) \in 1 .. n /\ j[p \ {Max(p)}] \in A
  <2> TAKE p \in SUBSET (1 .. n)
  <2> HAVE p # {}
  <2>1. Max(p) \in 1 .. n
    BY <1>1, MaxIs DEF n
  <2> QED BY <1>5, <2>1
<1>7. j = [p \in SUBSET (1 .. n) |->
             IF p = {} THEN 0 ELSE j[p \ {Max(p)}] + Row[text[s[Max(p)]]].chars + 1]
  BY <1>3, <1>5, <1>6 DEF Folds
<1>8. it = [p \in SUBSET (1 .. n) |->
              IF p = {} THEN 0 ELSE it[p \ {Max(p)}] + Row[text[s[Max(p)]]].chars + 1]
  BY <1>7
<1> HIDE DEF it
<1>9. Stays(F, A, n) /\ Follows(it, n, A, 0, F)
  BY <1>3, <1>6, <1>8 DEF Stays, Follows
<1>10. PICK g \in [0 .. n -> A] : g[n] = it[1 .. n] /\ IsRun(g, n, 0, F)
  BY <1>1, <1>4, <1>9, FoldRun DEF n
<1>11. n \in 0 .. n
  BY <1>1 DEF n
<1>12. it[1 .. n] \in Nat
  BY <1>10, <1>11 DEF A
<1>13. n = 0 => it[1 .. n] = 0
  BY <1>10 DEF IsRun
<1> QED BY <1>2, <1>12, <1>13, Zenon DEF n

LEMMA LongestIs ==
  ASSUME NEW text \in Seq(DOMAIN Row), NEW s \in Seq(DOMAIN text), NEW budget \in Nat
  PROVE  Longest(s, text, budget) \in 0 .. Len(s)
<1> DEFINE Sizes(k) == FoldLeft(LAMBDA c, i : c + Row[text[i]].chars + 1, 0, SubSeq(s, 1, k))
           fit == {k \in 0 .. Len(s) : Sizes(k) <= budget}
<1>1. Longest(s, text, budget) = Max(fit)
  BY Zenon DEF Longest
<1>2. Len(s) \in Nat
  OBVIOUS
<1>3. Sizes(0) = 0
  <2>1. SubSeq(s, 1, 0) \in Seq(DOMAIN text) /\ Len(SubSeq(s, 1, 0)) = 0
    OBVIOUS
  <2> QED BY <2>1, CharsSum
<1> HIDE DEF Sizes
<1>4. 0 \in fit
  BY <1>2, <1>3
<1>5. fit \subseteq 0 .. Len(s)
  OBVIOUS
<1> HIDE DEF fit
<1>6. Max(fit) \in fit
  <2> DEFINE T == {x + 1 : x \in fit}
             n == Len(s) + 1
  <2>1. n \in Nat /\ T \subseteq 1 .. n /\ T # {}
    BY <1>2, <1>4, <1>5
  <2>2. Max(T) \in T /\ \A y \in T : y <= Max(T)
    <3> HIDE DEF T, n
    <3> QED BY <2>1, MaxIs
  <2>3. PICK x \in fit : Max(T) = x + 1
    BY <2>2
  <2>4. \A y \in fit : y <= x /\ y \in Int
    <3> TAKE y \in fit
    <3>1. y + 1 \in T /\ y \in Int /\ x \in Int
      BY <1>2, <1>5
    <3>2. y + 1 <= x + 1
      BY <2>2, <2>3, <3>1
    <3> QED BY <3>1, <3>2
  <2>5. \E z \in fit : \A y \in fit : z >= y
    BY <2>4
  <2> QED BY <2>5 DEF Max
<1> QED BY <1>1, <1>5, <1>6

LEMMA TwoParts ==
  ASSUME NEW S, S \subseteq Int, NEW body \in Seq(S), NEW head \in 0 .. Len(body), NEW tail \in 0 .. Len(body) - head,
         \A j, k \in 1 .. Len(body) : j < k => body[j] < body[k]
  PROVE  LET rest == SubSeq(body, head + 1, Len(body))
             shown == SubSeq(body, 1, head) \o SubSeq(rest, Len(rest) - tail + 1, Len(rest))
         IN  /\ Len(rest) = Len(body) - head
             /\ shown \in [1 .. head + tail -> S]
             /\ \A j, k \in 1 .. head + tail : j < k => shown[j] < shown[k]
<1> DEFINE rest == SubSeq(body, head + 1, Len(body))
           front == SubSeq(body, 1, head)
           back == SubSeq(rest, Len(rest) - tail + 1, Len(rest))
           shown == front \o back
           n == Len(body)
           m == n - head
           At(k) == IF k <= head THEN k ELSE k + (m - tail)
<1>1. n \in Nat /\ head \in Nat /\ tail \in Nat /\ m \in Nat /\ tail <= m /\ m + head = n
  OBVIOUS
<1>2. rest \in Seq(S) /\ Len(rest) = m /\ \A i \in 1 .. m : rest[i] = body[head + i]
  <2>1. n \in head .. n
    BY <1>1
  <2> QED BY <2>1, MidIs
<1>3. front \in Seq(S) /\ Len(front) = head /\ \A i \in 1 .. head : front[i] = body[i]
  BY Beginning
<1> HIDE DEF rest, front, n
<1>4. back \in Seq(S) /\ Len(back) = tail /\ \A i \in 1 .. tail : back[i] = body[At(head + i)]
  <2> DEFINE a == m - tail
  <2>1. a \in 0 .. m /\ m \in a .. m /\ m - a = tail
    BY <1>1
  <2>2. back = SubSeq(rest, a + 1, m)
    BY <1>2
  <2> HIDE DEF back
  <2>3. back \in Seq(S) /\ Len(back) = tail /\ \A i \in 1 .. tail : back[i] = rest[a + i]
    <3> HIDE DEF a, m
    <3> QED BY <1>2, <2>1, <2>2, MidIs
  <2>4. \A i \in 1 .. tail : rest[a + i] = body[At(head + i)]
    <3> TAKE i \in 1 .. tail
    <3>1. a + i \in 1 .. m /\ head + (a + i) = (head + i) + (m - tail) /\ ~(head + i <= head)
      BY <1>1
    <3>2. rest[a + i] = body[head + (a + i)]
      BY <1>2, <3>1
    <3> QED BY <3>1, <3>2
  <2> QED BY <2>3, <2>4
<1> HIDE DEF back
<1>5. /\ shown \in Seq(S) /\ Len(shown) = head + tail
      /\ \A k \in 1 .. head + tail : shown[k] = body[At(k)]
  <2>1. shown \in Seq(S) /\ Len(shown) = head + tail
    BY <1>3, <1>4
  <2>2. \A k \in 1 .. head : shown[k] = body[At(k)]
    BY <1>3, <1>4
  <2>3. \A i \in 1 .. tail : shown[head + i] = body[At(head + i)]
    <3>1. /\ front \in Seq(S) /\ Len(front) = head /\ back \in Seq(S) /\ Len(back) = tail
          /\ head \in Nat /\ tail \in Nat
      BY <1>1, <1>3, <1>4
    <3>2. \A i \in 1 .. tail : shown[head + i] = back[i]
      BY <3>1
    <3> HIDE DEF At, shown
    <3> QED BY <1>4, <3>2
  <2>4. \A k \in 1 .. head + tail : k \in 1 .. head \/ (k - head \in 1 .. tail /\ k = head + (k - head))
    BY <1>1
  <2> HIDE DEF shown, At
  <2> QED BY <2>1, <2>2, <2>3, <2>4
<1> HIDE DEF shown
<1>6. \A k \in 1 .. head + tail : At(k) \in 1 .. n
  BY <1>1
<1>7. \A j, k \in 1 .. head + tail : j < k => At(j) < At(k)
  BY <1>1
<1> HIDE DEF At
<1>8. \A j, k \in 1 .. head + tail : j < k => shown[j] < shown[k]
  BY <1>5, <1>6, <1>7 DEF n
<1>9. shown \in [1 .. head + tail -> S]
  BY <1>5
<1> QED BY <1>2, <1>8, <1>9 DEF shown, rest, front, back, n

LEMMA SummaryFinds ==
  ASSUME NEW text \in Seq(DOMAIN Row), NEW max_chars \in Nat
  PROVE  FindsInOrder(summarize_text(text, max_chars), text)
<1> DEFINE outline == extract_headings(text).hits
           told == {i \in DOMAIN text : Row[text[i]].chars > 0}
           body == InOrder(told, Len(text))
           half == (Max({0, max_chars - Len(outline)})) \div 2
           head == Longest(body, text, half)
           rest == SubSeq(body, head + 1, Len(body))
           tail == Longest(Reverse(rest), text, half)
           shown == SubSeq(body, 1, head) \o SubSeq(rest, Len(rest) - tail + 1, Len(rest))
           h == [k \in DOMAIN shown |-> Hit(shown[k], text[shown[k]])]
           S == DOMAIN text
<1>1. summarize_text(text, max_chars) = Hits(h, 0)
  BY Zenon DEF summarize_text
<1>2. half \in Nat
  <2>1. max_chars - Len(outline) \in Int /\ 0 \in Int
    BY HeadingsFind
  <2> DEFINE d == max_chars - Len(outline)
             b == Max({0, d})
  <2> HIDE DEF d
  <2>2. b \in {0, d} /\ b >= 0
    BY <2>1, LeastOfTwo DEF d
  <2> HIDE DEF b
  <2>3. b \in Nat
    BY <2>1, <2>2 DEF d
  <2>4. b \div 2 \in Nat
    BY <2>3
  <2> QED BY <2>4 DEF b, d
<1> HIDE DEF half
<1>3. Len(text) \in Nat /\ S = 1 .. Len(text) /\ S \subseteq Int
  OBVIOUS
<1>4. body \in Seq(S) /\ \A j, k \in 1 .. Len(body) : j < k => body[j] < body[k]
  <2> DEFINE W == told \cap (1 .. Len(text))
             c == Cardinality(W)
  <2>1. Enumerates(body, W)
    BY <1>3, InOrderIs
  <2>2. W \subseteq S
    BY <1>3
  <2> HIDE DEF body, W, S
  <2>3. c \in Nat /\ body \in [1 .. c -> W] /\ \A j, k \in 1 .. c : j < k => body[j] < body[k]
    BY <2>1 DEF Enumerates
  <2>4. body \in [1 .. c -> S]
    BY <2>2, <2>3
  <2> HIDE DEF c
  <2>5. body \in Seq(S) /\ Len(body) = c
    BY <2>3, <2>4, FunSeq
  <2> QED BY <2>3, <2>5
<1> HIDE DEF body
<1>5. head \in 0 .. Len(body)
  BY <1>2, <1>4, LongestIs
<1> HIDE DEF head
<1>6. Len(body) \in Nat /\ rest \in Seq(S) /\ Len(rest) = Len(body) - head
  <2>1. Len(body) \in Nat /\ Len(body) \in head .. Len(body)
    BY <1>4, <1>5
  <2> HIDE DEF S
  <2> QED BY <1>4, <1>5, <2>1, MidIs
<1> HIDE DEF S
<1>7. Reverse(rest) \in Seq(S) /\ Len(Reverse(rest)) = Len(rest)
  <2> HIDE DEF rest
  <2> DEFINE m == Len(rest)
             r == [k \in 1 .. m |-> rest[(m - k) + 1]]
  <2>1. m \in Nat /\ Reverse(rest) = r /\ \A k \in 1 .. m : rest[(m - k) + 1] \in S
    BY <1>6 DEF Reverse
  <2>2. r \in [1 .. m -> S]
    BY <2>1
  <2> HIDE DEF r, m
  <2>3. r \in Seq(S) /\ Len(r) = m
    BY <2>1, <2>2, FunSeq
  <2> QED BY <2>1, <2>3 DEF m
<1> HIDE DEF rest
<1>8. tail \in 0 .. Len(body) - head
  <2>1. tail \in 0 .. Len(Reverse(rest))
    BY <1>2, <1>7, LongestIs DEF S
  <2> QED BY <1>6, <1>7, <2>1
<1> HIDE DEF tail
<1>9. /\ shown \in [1 .. head + tail -> S]
      /\ \A j, k \in 1 .. head + tail : j < k => shown[j] < shown[k]
  BY <1>3, <1>4, <1>5, <1>8, TwoParts DEF rest
<1>10. head + tail \in Nat
  BY <1>5, <1>6, <1>8
<1> HIDE DEF shown
<1>11. h \in Seq(HitsOf(text)) /\ Rising(h)
  BY <1>9, <1>10, HitsAt DEF S
<1> HIDE DEF h
<1> QED BY <1>1, <1>11 DEF FindsInOrder

-----------------------------------------------------------------------------
-----
(* What sed prints.                                                        *)

LEMMA FitsIs ==
  ASSUME NEW a, IsAddress(a), NEW text, NEW i
  PROVE  /\ a.at = "line" => (Fits(a, text, i) <=> i = a.n)
         /\ a.at = "last" => (Fits(a, text, i) <=> i = Len(text))
         /\ a.at = "re" => (Fits(a, text, i) <=> a.re \in Row[text[i]].patterns)
<1>1. a.at = "line" => (Fits(a, text, i) <=> i = a.n)
  BY DEF Fits, addr_matches
<1>2. a.at = "last" => (Fits(a, text, i) <=> i = Len(text))
  BY DEF Fits, addr_matches
<1>3. a.at = "re" => (Fits(a, text, i) <=> a.re \in Row[text[i]].patterns)
  BY DEF Fits, addr_matches
<1> QED BY <1>1, <1>2, <1>3

LEMMA OpenStep ==
  ASSUME NEW S, NEW text \in Seq(S), NEW cmd, IsAddress(cmd.a1), IsAddress(cmd.a2),
         cmd.a1.at # "none", cmd.a2.at # "none", Apart2(cmd, text),
         NEW i \in 1 .. Len(text), i < Len(text)
  PROVE  OpenAfter(cmd, text, i) <=>
           IF OpenAfter(cmd, text, i - 1) THEN ~Fits(cmd.a2, text, i)
           ELSE Fits(cmd.a1, text, i) /\ ~(cmd.a2.at = "line" /\ cmd.a2.n <= i)
<1> DEFINE A(s) == Fits(cmd.a1, text, s)
           B(e) == Fits(cmd.a2, text, e)
           n == Len(text)
<1>1. n \in Nat /\ i \in Nat /\ i - 1 \in Nat /\ DOMAIN text = 1 .. n
  OBVIOUS
<1>2. \A s \in 1 .. i : s \in 1 .. i - 1 \/ s = i
  BY <1>1
<1>3. \A s \in 1 .. i - 1 : s \in 1 .. i /\ s < i /\ s \in Nat
  BY <1>1
<1>4. CASE cmd.a2.at = "line"
  <2> DEFINE b == cmd.a2.n
  <2>1. b \in Nat /\ (B(i) <=> i = b)
    BY <1>4, FitsIs DEF IsAddress
  <2>2. OpenAfter(cmd, text, i) <=> \E s \in 1 .. i : A(s) /\ i < b
    BY <1>4 DEF OpenAfter, GoesOn
  <2>3. OpenAfter(cmd, text, i - 1) <=> \E s \in 1 .. i - 1 : A(s) /\ i - 1 < b
    BY <1>4 DEF OpenAfter, GoesOn
  <2> HIDE DEF A, B, b
  <2>4. i \in 1 .. i
    BY <1>1
  <2>5. OpenAfter(cmd, text, i) <=> IF OpenAfter(cmd, text, i - 1) THEN ~B(i) ELSE A(i) /\ ~(b <= i)
    <3>1. CASE OpenAfter(cmd, text, i - 1)
      <4>1. (\E s \in 1 .. i : A(s)) /\ i - 1 < b
        BY <1>3, <2>3, <3>1
      <4> QED BY <1>1, <2>1, <2>2, <3>1, <4>1
    <3>2. CASE ~OpenAfter(cmd, text, i - 1)
      <4>1. CASE i - 1 < b
        <5>1. \A s \in 1 .. i - 1 : ~A(s)
          BY <2>3, <3>2, <4>1
        <5>2. (\E s \in 1 .. i : A(s)) <=> A(i)
          BY <1>2, <2>4, <5>1
        <5>3. i < b <=> ~(b <= i)
          BY <1>1, <2>1
        <5> QED BY <2>2, <3>2, <5>2, <5>3
      <4>2. CASE ~(i - 1 < b)
        <5>1. b <= i /\ ~(i < b)
          BY <1>1, <2>1, <4>2
        <5> QED BY <2>2, <3>2, <5>1
      <4> QED BY <4>1, <4>2
    <3> QED BY <3>1, <3>2
  <2> QED BY <1>4, <2>5 DEF A, B, b
<1>5. CASE cmd.a2.at # "line"
  <2>1. OpenAfter(cmd, text, i) <=> \E s \in 1 .. i : A(s) /\ \A e \in 1 .. i : e > s => ~B(e)
    BY <1>5 DEF OpenAfter, GoesOn
  <2>2. OpenAfter(cmd, text, i - 1) <=> \E s \in 1 .. i - 1 : A(s) /\ \A e \in 1 .. i - 1 : e > s => ~B(e)
    BY <1>5 DEF OpenAfter, GoesOn
  <2>3. B(i) /\ OpenAfter(cmd, text, i - 1) => ~A(i)
    <3> SUFFICES ASSUME B(i), OpenAfter(cmd, text, i - 1), A(i)
                 PROVE  FALSE
      OBVIOUS
    <3>1. cmd.a2.at = "re" /\ cmd.a2.re \in Row[text[i]].patterns
      BY <1>1, <1>5, FitsIs DEF IsAddress
    <3>2. CASE cmd.a1.at = "re"
      <4>1. cmd.a1.re \in Row[text[i]].patterns
        BY <3>2, FitsIs
      <4> QED BY <1>1, <3>1, <3>2, <4>1 DEF Apart2
    <3>3. CASE cmd.a1.at = "last"
      BY <1>1, <3>3, FitsIs
    <3>4. CASE cmd.a1.at = "line"
      <4>1. \A s : A(s) <=> s = cmd.a1.n
        BY <3>4, FitsIs
      <4> HIDE DEF A, B
      <4>2. PICK s \in 1 .. i - 1 : A(s)
        BY <2>2
      <4> QED BY <1>3, <4>1, <4>2
    <3> QED BY <3>2, <3>3, <3>4 DEF IsAddress
  <2> HIDE DEF A, B
  <2>4. i \in 1 .. i
    BY <1>1
  <2>5. OpenAfter(cmd, text, i) <=> IF OpenAfter(cmd, text, i - 1) THEN ~B(i) ELSE A(i)
    <3>1. CASE OpenAfter(cmd, text, i - 1)
      <4>1. PICK s \in 1 .. i - 1 : A(s) /\ \A e \in 1 .. i - 1 : e > s => ~B(e)
        BY <2>2, <3>1
      <4>2. ~B(i) => \A e \in 1 .. i : e > s => ~B(e)
        BY <1>2, <4>1
      <4>3. ~B(i) => OpenAfter(cmd, text, i)
        BY <1>3, <2>1, <4>1, <4>2
      <4>4. OpenAfter(cmd, text, i) => ~B(i)
        <5> SUFFICES ASSUME OpenAfter(cmd, text, i), B(i)
                     PROVE  FALSE
          OBVIOUS
        <5>1. PICK x \in 1 .. i : A(x) /\ \A e \in 1 .. i : e > x => ~B(e)
          BY <2>1
        <5>2. x # i
          BY <2>3, <3>1, <5>1
        <5>3. x < i
          BY <1>2, <1>3, <5>2
        <5> QED BY <1>1, <2>4, <5>1, <5>3
      <4> QED BY <3>1, <4>3, <4>4
    <3>2. CASE ~OpenAfter(cmd, text, i - 1)
      <4>1. A(i) => OpenAfter(cmd, text, i)
        <5>1. \A e \in 1 .. i : ~(e > i)
          BY <1>1
        <5> QED BY <2>1, <2>4, <5>1
      <4>2. OpenAfter(cmd, text, i) => A(i)
        <5> SUFFICES ASSUME OpenAfter(cmd, text, i), ~A(i)
                     PROVE  FALSE
          OBVIOUS
        <5>1. PICK x \in 1 .. i : A(x) /\ \A e \in 1 .. i : e > x => ~B(e)
          BY <2>1
        <5>2. x \in 1 .. i - 1
          BY <1>2, <5>1
        <5>3. \A e \in 1 .. i - 1 : e > x => ~B(e)
          BY <1>3, <5>1
        <5> QED BY <2>2, <3>2, <5>1, <5>2, <5>3
      <4> QED BY <3>2, <4>1, <4>2
    <3> QED BY <3>1, <3>2
  <2> QED BY <1>5, <2>5 DEF A, B
<1> QED BY <1>4, <1>5

LEMMA RangeIs ==
  ASSUME NEW S, NEW text \in Seq(S), NEW cmd, IsPrint(cmd), NEW i \in 1 .. Len(text)
  PROVE  i \in SedRange(cmd, text) <=>
           CASE cmd.a1.at = "none" -> TRUE
             [] cmd.a1.at # "none" /\ cmd.a2.at = "none" -> Fits(cmd.a1, text, i)
             [] OTHER -> InRange(cmd, text, i)
<1> DEFINE n == Len(text)
           A(s) == Fits(cmd.a1, text, s)
           B(e) == Fits(cmd.a2, text, e)
           started == {x \in DOMAIN text : A(x)}
           Ended(s, x) == IF cmd.a2.at = "line" THEN x > Max({s, cmd.a2.n})
                          ELSE \E e \in (s + 1)..(x - 1) : B(e)
<1>1. n \in Nat /\ DOMAIN text = 1 .. n /\ i \in Nat /\ i - 1 \in Nat
  OBVIOUS
<1>2. SedRange(cmd, text) =
        CASE cmd.a1.at = "none" -> DOMAIN text
          [] cmd.a1.at # "none" /\ cmd.a2.at = "none" -> started
          [] OTHER -> {x \in DOMAIN text : \E s \in started : s <= x /\ ~Ended(s, x)}
  BY Zenon DEF SedRange, Fits
<1>3. CASE cmd.a1.at = "none"
  BY <1>1, <1>2, <1>3
<1>4. CASE cmd.a1.at # "none" /\ cmd.a2.at = "none"
  <2>1. SedRange(cmd, text) = started
    BY <1>2, <1>4
  <2> HIDE DEF A
  <2>2. i \in started <=> A(i)
    BY <1>1
  <2> QED BY <1>4, <2>1, <2>2 DEF A
<1>5. CASE cmd.a1.at # "none" /\ cmd.a2.at # "none"
  <2>1. SedRange(cmd, text) = {x \in DOMAIN text : \E s \in started : s <= x /\ ~Ended(s, x)}
    BY <1>2, <1>5
  <2> HIDE DEF Ended, A, B
  <2>2. i \in SedRange(cmd, text) <=> \E s \in 1 .. i : A(s) /\ ~Ended(s, i)
    BY <1>1, <2>1
  <2>3. ~Ended(i, i)
    <3>1. CASE cmd.a2.at = "line"
      <4>1. cmd.a2.n \in Int /\ i \in Int
        BY <3>1 DEF IsPrint, IsAddress
      <4>2. Max({i, cmd.a2.n}) >= i /\ Max({i, cmd.a2.n}) \in {i, cmd.a2.n}
        BY <4>1, LeastOfTwo
      <4>3. ~(i > Max({i, cmd.a2.n}))
        BY <4>1, <4>2
      <4> QED BY <3>1, <4>3 DEF Ended
    <3>2. CASE cmd.a2.at # "line"
      BY <1>1, <3>2 DEF Ended
    <3> QED BY <3>1, <3>2
  <2>4. \A s \in 1 .. i - 1 : ~Ended(s, i) <=> GoesOn(cmd, text, s, i - 1)
    <3> TAKE s \in 1 .. i - 1
    <3>1. CASE cmd.a2.at = "line"
      <4> DEFINE b == cmd.a2.n
                 c == Max({s, b})
      <4>1. b \in Int /\ s \in Int /\ s <= i - 1 /\ i \in Int
        BY <1>1, <3>1 DEF IsPrint, IsAddress
      <4>2. c >= s /\ c >= b /\ c \in {s, b}
        BY <4>1, LeastOfTwo
      <4>3. Ended(s, i) <=> i > c
        BY <3>1 DEF Ended
      <4>4. GoesOn(cmd, text, s, i - 1) <=> i - 1 < b
        BY <3>1 DEF GoesOn
      <4> HIDE DEF b, c
      <4> QED BY <4>1, <4>2, <4>3, <4>4
    <3>2. CASE cmd.a2.at # "line"
      <4>1. Ended(s, i) <=> \E e \in (s + 1)..(i - 1) : B(e)
        BY <3>2 DEF Ended
      <4>2. GoesOn(cmd, text, s, i - 1) <=> \A e \in 1 .. i - 1 : e > s => ~B(e)
        BY <3>2 DEF GoesOn, B
      <4>3. \A e : e \in (s + 1)..(i - 1) <=> e \in 1 .. i - 1 /\ e > s
        BY <1>1
      <4> QED BY <4>1, <4>2, <4>3
    <3> QED BY <3>1, <3>2
  <2>5. OpenAfter(cmd, text, i - 1) <=> \E s \in 1 .. i - 1 : A(s) /\ GoesOn(cmd, text, s, i - 1)
    BY DEF OpenAfter, A
  <2>6. \A s : s \in 1 .. i <=> s \in 1 .. i - 1 \/ s = i
    BY <1>1
  <2>7. i \in SedRange(cmd, text) <=> OpenAfter(cmd, text, i - 1) \/ A(i)
    BY <2>2, <2>3, <2>4, <2>5, <2>6
  <2> QED BY <1>5, <2>7 DEF InRange, A
<1> QED BY <1>3, <1>4, <1>5

LEMMA ReadyIs ==
  ASSUME NEW R, NEW H, NEW row \in R,
         NEW b \in [row : R, deleted : BOOLEAN, out : Seq(H), active : [1 .. 1 -> BOOLEAN]]
  PROVE  LET b0 == [b EXCEPT !.row = row, !.deleted = FALSE]
         IN  /\ b0 \in [row : R, deleted : BOOLEAN, out : Seq(H), active : [1 .. 1 -> BOOLEAN]]
             /\ b0.row = row /\ ~b0.deleted /\ b0.out = b.out /\ b0.active = b.active
<1> DEFINE Q == Seq(H)
           V == [1 .. 1 -> BOOLEAN]
           c == [b EXCEPT !.row = row]
           b0 == [b EXCEPT !.row = row, !.deleted = FALSE]
<1> HIDE DEF Q, V
<1>1. b \in [row : R, deleted : BOOLEAN, out : Q, active : V]
  BY DEF Q, V
<1>2. c \in [row : R, deleted : BOOLEAN, out : Q, active : V] /\ c.row = row /\ c.out = b.out /\ c.active = b.active
  BY <1>1
<1>3. b0 = [c EXCEPT !.deleted = FALSE]
  OBVIOUS
<1> HIDE DEF c, b0
<1>4. /\ b0 \in [row : R, deleted : BOOLEAN, out : Q, active : V]
      /\ b0.row = c.row /\ b0.deleted = FALSE /\ b0.out = c.out /\ b0.active = c.active
  BY <1>2, <1>3
<1> QED BY <1>2, <1>4 DEF b0, Q, V

LEMMA SeenIs ==
  ASSUME NEW R, NEW H, NEW on \in BOOLEAN, NEW x \in H,
         NEW b \in [row : R, deleted : BOOLEAN, out : Seq(H), active : [1 .. 1 -> BOOLEAN]],
         NEW v, v = [b.active EXCEPT ![1] = on], NEW was, was = [b EXCEPT !.active = v],
         NEW q, q = Append(b.out, x), NEW did, did = [was EXCEPT !.out = q]
  PROVE  Sees(was, did, R, H, on, x, b)
<1> DEFINE Q == Seq(H)
           V == [1 .. 1 -> BOOLEAN]
<1>1. b.active \in V /\ b.out \in Q /\ q \in Q
  OBVIOUS
<1>2. v \in V /\ v[1] = on
  BY <1>1
<1> HIDE DEF V
<1>4. b \in [row : R, deleted : BOOLEAN, out : Q, active : V]
  BY DEF V
<1> HIDE DEF Q
<1>5. was \in [row : R, deleted : BOOLEAN, out : Q, active : V] /\ was.out = b.out /\ was.active = v
  BY <1>2, <1>4
<1>7. did \in [row : R, deleted : BOOLEAN, out : Q, active : V] /\ did.out = q /\ did.active = was.active
  BY <1>1, <1>5
<1> QED BY <1>2, <1>5, <1>7 DEF Q, V, Sees

LEMMA LinePrints ==
  ASSUME NEW R, NEW text, NEW n \in DOMAIN text, text[n] \in R, NEW b \in Reads(R, text),
         NEW cmds, DOMAIN cmds = 1 .. 1, cmds[1].kind = "p",
         selected(cmds[1], b.active[1], n, n = Len(text), text[n]).active \in BOOLEAN
  PROVE  /\ SedLine(cmds, text, n, TRUE, b) \in Reads(R, text)
         /\ Prints(cmds, text, n, b, SedLine(cmds, text, n, TRUE, b))
<1> DEFINE Picks(r, k) == selected(cmds[k], r.active[k], n, n = Len(text), r.row)
           Seen(r, k) == [r EXCEPT !.active[k] = Picks(r, k).active]
           Step(r, k) ==
             CASE r.deleted -> r
               [] ~r.deleted /\ ~Picks(r, k).picked -> Seen(r, k)
               [] ~r.deleted /\ Picks(r, k).picked /\ cmds[k].kind = "p" ->
                    [Seen(r, k) EXCEPT !.out = Append(@, Hit(n, r.row))]
               [] ~r.deleted /\ Picks(r, k).picked /\ cmds[k].kind = "d" ->
                    [Seen(r, k) EXCEPT !.deleted = TRUE]
               [] OTHER ->
                    IF cmds[k].re \in Row[r.row].patterns
                    THEN [Seen(r, k) EXCEPT !.row = cmds[k].repl,
                            !.out = IF cmds[k].print THEN Append(@, Hit(n, cmds[k].repl)) ELSE @]
                    ELSE Seen(r, k)
           b0 == [b EXCEPT !.row = text[n], !.deleted = FALSE]
           places == [k \in DOMAIN cmds |-> k]
           ran == FoldLeft(LAMBDA r, k : Step(r, k), b0, places)
           it == CHOOSE j : j = [p \in SUBSET (1 .. 1) |->
                   IF p = {} THEN b0 ELSE Step(j[p \ {Max(p)}], places[Max(p)])]
           s == selected(cmds[1], b.active[1], n, n = Len(text), text[n])
           seen == [b0 EXCEPT !.active[1] = s.active]
           told == [seen EXCEPT !.out = Append(@, Hit(n, text[n]))]
<1>1. SedLine(cmds, text, n, TRUE, b) = IF TRUE \/ ran.deleted THEN ran
      ELSE [ran EXCEPT !.out = Append(@, Hit(n, ran.row))]
  BY Zenon DEF SedLine
<1>2. SedLine(cmds, text, n, TRUE, b) = ran
  <2> HIDE DEF ran
  <2> QED BY <1>1
<1>3. DOMAIN places = 1 .. 1 /\ places[1] = 1
  OBVIOUS
<1>4. ran = it[1 .. 1]
  BY <1>3, Zenon DEF FoldLeft, MapThenFoldSet
<1>5. /\ b0 \in Reads(R, text) /\ b0.row = text[n] /\ ~b0.deleted /\ b0.out = b.out
      /\ b0.active = b.active
  BY ReadyIs DEF Reads
<1> HIDE DEF b0
<1>6. Step(b0, 1) = IF s.picked THEN told ELSE seen
  <2> QED BY <1>5
<1> HIDE DEF Step, places
<1>8. it[1 .. 1] = Step(b0, 1)
  <2> DEFINE r == Step(b0, 1)
             j == [p \in SUBSET (1 .. 1) |-> IF p = {} THEN b0 ELSE r]
  <2>1. \A p \in SUBSET (1 .. 1) : p # {} => Max(p) = 1 /\ p \ {Max(p)} = {}
    <3> TAKE p \in SUBSET (1 .. 1)
    <3> HAVE p # {}
    <3>1. Max(p) \in p /\ 1 \in Nat
      BY MaxIs
    <3>2. \A x \in p : x = 1
      OBVIOUS
    <3> QED BY <3>1, <3>2
  <2>2. {} \in SUBSET (1 .. 1) /\ (1 .. 1) \in SUBSET (1 .. 1) /\ (1 .. 1) # {}
    OBVIOUS
  <2>3. j = [p \in SUBSET (1 .. 1) |->
               IF p = {} THEN b0 ELSE Step(j[p \ {Max(p)}], places[Max(p)])]
    <3>1. j[{}] = b0
      BY <2>2
    <3> HIDE DEF r
    <3>2. \A p \in SUBSET (1 .. 1) :
            (IF p = {} THEN b0 ELSE r)
              = (IF p = {} THEN b0 ELSE Step(j[p \ {Max(p)}], places[Max(p)]))
      BY <1>3, <2>1, <3>1 DEF r
    <3> QED BY <3>2
  <2>4. it = [p \in SUBSET (1 .. 1) |->
               IF p = {} THEN b0 ELSE Step(it[p \ {Max(p)}], places[Max(p)])]
    <3> HIDE DEF j
    <3> QED BY <2>3
  <2> HIDE DEF it
  <2>5. it[{}] = b0
    BY <2>2, <2>4
  <2>6. it[1 .. 1] = Step(it[(1 .. 1) \ {Max(1 .. 1)}], places[Max(1 .. 1)])
    BY <2>2, <2>4
  <2> QED BY <1>3, <2>1, <2>2, <2>5, <2>6
<1>9. Hit(n, text[n]) \in HitsOf(text)
  BY DEF HitsOf
<1>10. /\ seen \in Reads(R, text) /\ seen.out = b.out /\ seen.active[1] = s.active
       /\ told \in Reads(R, text) /\ told.active[1] = s.active
       /\ told.out = Append(b.out, Hit(n, text[n]))
  <2> DEFINE H == HitsOf(text)
             x == Hit(n, text[n])
             on == s.active
  <2>1. x \in H /\ on \in BOOLEAN
    BY <1>9
  <2>2. b0 \in [row : R, deleted : BOOLEAN, out : Seq(H), active : [1 .. 1 -> BOOLEAN]]
    BY <1>5 DEF Reads
  <2> HIDE DEF H, x, on
  <2> DEFINE v == [b0.active EXCEPT ![1] = on]
             q == Append(b0.out, x)
  <2>3. /\ seen = [b0 EXCEPT !.active = v] /\ seen.out = b0.out
        /\ told = [seen EXCEPT !.out = q]
    <3>1. seen = [b0 EXCEPT !.active = v]
      BY DEF on
    <3>2. seen.out = b0.out
      <4> HIDE DEF seen, v
      <4> QED BY <2>2, <3>1
    <3> QED BY <3>1, <3>2 DEF x
  <2>4. v = [b0.active EXCEPT ![1] = on] /\ q = Append(b0.out, x)
    OBVIOUS
  <2> HIDE DEF seen, told, v, q
  <2>5. Sees(seen, told, R, H, on, x, b0)
    BY <2>1, <2>2, <2>3, <2>4, SeenIs
  <2> QED BY <1>5, <2>5 DEF H, x, on, Reads, Sees
<1> HIDE DEF seen, told, s, it, ran
<1> QED BY <1>2, <1>4, <1>6, <1>8, <1>10 DEF s, Prints

LEMMA FitsOrNot ==
  ASSUME NEW a, NEW text, NEW i
  PROVE  Fits(a, text, i) \in BOOLEAN
<1> DEFINE x == a.n = i
           y == i = Len(text)
           z == a.re \in Row[text[i]].patterns
           w == CASE a.at = "line" -> x [] a.at = "last" -> y [] OTHER -> z
<1>1. Fits(a, text, i) = w
  BY Zenon DEF Fits, addr_matches
<1>2. x \in BOOLEAN /\ y \in BOOLEAN /\ z \in BOOLEAN
  OBVIOUS
<1> HIDE DEF x, y, z
<1>3. w \in BOOLEAN
  BY <1>2
<1> QED BY <1>1, <1>3

LEMMA SelectedIs ==
  ASSUME NEW cmd, IsPrint(cmd), NEW text, NEW i, NEW active \in BOOLEAN
  PROVE  Selects(cmd, text, i, active, selected(cmd, active, i, i = Len(text), text[i]))
<1> DEFINE first == Fits(cmd.a1, text, i)
           second == Fits(cmd.a2, text, i)
           behind == cmd.a2.at = "line" /\ cmd.a2.n <= i
           starts == ~active /\ first
           hit == CASE cmd.a1.at = "none" -> TRUE
                    [] cmd.a1.at # "none" /\ cmd.a2.at = "none" -> first
                    [] OTHER -> active \/ starts
           goes_on == /\ cmd.a1.at # "none" /\ cmd.a2.at # "none"
                      /\ IF active THEN ~second ELSE starts /\ ~behind
           s == selected(cmd, active, i, i = Len(text), text[i])
<1>1. s = [picked |-> hit # cmd.negate, active |-> goes_on]
  BY Zenon DEF selected, Fits
<1> DEFINE p == hit # cmd.negate
           a == goes_on
<1> HIDE DEF s, first, second, behind, hit, goes_on, p, a
<1>2. s.picked = p /\ s.active = a
  <2>1. s = [picked |-> p, active |-> a]
    BY <1>1 DEF p, a
  <2> QED BY <2>1
<1>3. cmd.negate \in BOOLEAN
  BY DEF IsPrint
<1>4. p <=> (hit # cmd.negate)
  BY DEF p
<1>5. a <=> goes_on
  BY DEF a
<1>6. a \in BOOLEAN
  BY DEF a, goes_on
<1> QED BY <1>2, <1>3, <1>4, <1>5, <1>6 DEF s, first, second, behind, hit, goes_on, Selects

LEMMA SedPrints ==
  ASSUME NEW text \in Seq(DOMAIN Row), NEW cmds, Len(cmds) = 1, DOMAIN cmds = 1 .. 1,
         cmds[1].kind = "p", IsPrint(cmds[1]), Apart2(cmds[1], text)
  PROVE  LET picked == {m \in DOMAIN text : (m \in SedRange(cmds[1], text)) # cmds[1].negate}
         IN  \E h \in Seq(HitsOf(text)) : \E t \in Int :
               /\ sed(text, cmds, TRUE) = Hits(h, t) /\ Len(h) + t = Cardinality(picked)
               /\ \A k \in DOMAIN h : h[k].line \in picked
<1> DEFINE cmd == cmds[1]
           picked == {m \in DOMAIN text : (m \in SedRange(cmd, text)) # cmd.negate}
           places == [i \in DOMAIN text |-> i]
           base == [row |-> "", deleted |-> FALSE, out |-> <<>>, active |-> [k \in DOMAIN cmds |-> FALSE]]
           R == DOMAIN Row \cup {base.row}
           read == FoldLeft(LAMBDA r, i : SedLine(cmds, text, i, TRUE, r), base, places)
           shown == Min({Len(read.out), max_lines})
<1>0. sed(text, cmds, TRUE) = Hits(SubSeq(read.out, 1, shown), Len(read.out) - shown)
  BY Zenon DEF sed
<1> HIDE DEF base
<1> DEFINE n == Len(text)
           A == Reads(R, text)
           F == [x \in A \X (1 .. n) |-> SedLine(cmds, text, places[x[2]], TRUE, x[1])]
           it == CHOOSE j : j = [p \in SUBSET (1 .. n) |->
                   IF p = {} THEN base ELSE SedLine(cmds, text, places[Max(p)], TRUE, j[p \ {Max(p)}])]
<1>1. n \in Nat /\ DOMAIN text = 1 .. n /\ DOMAIN places = 1 .. n /\ Len(places) = n
  OBVIOUS
<1>2. read = it[1 .. n]
  BY <1>1, Zenon DEF FoldLeft, MapThenFoldSet
<1>3. /\ \A a \in A : \A i \in 1 .. n : F[<<a, i>>] = SedLine(cmds, text, places[i], TRUE, a)
      /\ \A a \in A : \A i \in 1 .. n : F[<<a, i>>] \in A
  <2>1. \A a \in A : \A i \in 1 .. n : SedLine(cmds, text, places[i], TRUE, a) \in A
    <3> TAKE a \in A
    <3> TAKE i \in 1 .. n
    <3>1. i \in DOMAIN text /\ text[i] \in R /\ places[i] = i
      BY <1>1
    <3>2. a \in Reads(R, text) /\ a.active[1] \in BOOLEAN
      BY DEF Reads
    <3> HIDE DEF R
    <3>3. selected(cmds[1], a.active[1], i, i = Len(text), text[i]).active \in BOOLEAN
      BY <3>2, SelectedIs DEF Selects
    <3>4. SedLine(cmds, text, i, TRUE, a) \in Reads(R, text)
      BY <3>1, <3>2, <3>3, LinePrints
    <3> QED BY <3>1, <3>4
  <2> HIDE DEF A
  <2>2. \A a \in A : \A i \in 1 .. n : F[<<a, i>>] = SedLine(cmds, text, places[i], TRUE, a)
    OBVIOUS
  <2> HIDE DEF F
  <2> QED BY <2>1, <2>2
<1>4. base \in A
  <2> DEFINE x == ""
             v == [k \in DOMAIN cmds |-> FALSE]
             H == HitsOf(text)
  <2>1. base = [row |-> x, deleted |-> FALSE, out |-> <<>>, active |-> v]
    BY Zenon DEF base
  <2>2. v \in [1 .. 1 -> BOOLEAN] /\ <<>> \in Seq(H)
    OBVIOUS
  <2> HIDE DEF x, H, v
  <2>3. base.row = x
    BY <2>1
  <2>4. x \in R
    BY <2>3
  <2> HIDE DEF R
  <2>5. base \in [row : R, deleted : BOOLEAN, out : Seq(H), active : [1 .. 1 -> BOOLEAN]]
    BY <2>1, <2>2, <2>4
  <2> QED BY <2>5 DEF Reads, H
<1> HIDE DEF F, A, n
<1>5. PICK j \in [SUBSET (1 .. n) -> A] : Folds(j, n, base, F)
  BY <1>1, <1>3, <1>4, FoldIn DEF n
<1>6. \A p \in SUBSET (1 .. n) : p # {} => Max(p) \in 1 .. n /\ j[p \ {Max(p)}] \in A
  <2> TAKE p \in SUBSET (1 .. n)
  <2> HAVE p # {}
  <2>1. Max(p) \in 1 .. n
    BY <1>1, MaxIs DEF n
  <2> QED BY <1>5, <2>1
<1>7. j = [p \in SUBSET (1 .. n) |->
             IF p = {} THEN base ELSE SedLine(cmds, text, places[Max(p)], TRUE, j[p \ {Max(p)}])]
  BY <1>3, <1>5, <1>6 DEF Folds
<1>8. it = [p \in SUBSET (1 .. n) |->
              IF p = {} THEN base ELSE SedLine(cmds, text, places[Max(p)], TRUE, it[p \ {Max(p)}])]
  BY <1>7
<1> HIDE DEF it
<1>9. Stays(F, A, n) /\ Follows(it, n, A, base, F)
  BY <1>3, <1>6, <1>8 DEF Stays, Follows
<1>10. PICK g \in [0 .. n -> A] : g[n] = it[1 .. n] /\ IsRun(g, n, base, F)
  BY <1>1, <1>4, <1>9, FoldRun DEF n
<1> DEFINE before(i) == g[i - 1]
           s(i) == selected(cmd, g[i - 1].active[1], i, i = Len(text), text[i])
           H == HitsOf(text)
<1>11. n \in Nat /\ DOMAIN text = 1 .. n /\ \A i \in 1 .. n : text[i] \in R /\ i \in DOMAIN text
                                                     /\ places[i] = i /\ i \in 0 .. n /\ i - 1 \in 0 .. n
  BY <1>1 DEF n
<1>12. base.active[1] = FALSE /\ base.out = <<>>
  <2> DEFINE x == ""
             v == [k \in DOMAIN cmds |-> FALSE]
  <2>1. base = [row |-> x, deleted |-> FALSE, out |-> <<>>, active |-> v]
    BY Zenon DEF base
  <2>2. v[1] = FALSE
    OBVIOUS
  <2> HIDE DEF x, v
  <2> QED BY <2>1, <2>2
<1> HIDE DEF places, R
<1>13. \A i \in 0 .. n : g[i] \in Reads(R, text) /\ g[i].active[1] \in BOOLEAN /\ g[i].out \in Seq(H)
  <2> TAKE i \in 0 .. n
  <2>1. g[i] \in Reads(R, text)
    BY <1>10 DEF A
  <2> HIDE DEF H
  <2>2. g[i] \in [row : R, deleted : BOOLEAN, out : Seq(H), active : [1 .. 1 -> BOOLEAN]]
    BY <2>1 DEF Reads, H
  <2> QED BY <2>1, <2>2
<1>14. \A i \in 1 .. n : /\ g[i].active[1] = s(i).active
                         /\ g[i].out = IF s(i).picked THEN Append(g[i - 1].out, Hit(i, text[i])) ELSE g[i - 1].out
  <2> TAKE i \in 1 .. n
  <2>1. g[i] = F[<<g[i - 1], i>>] /\ g[i - 1] \in A
    BY <1>10, <1>11 DEF IsRun
  <2>2. g[i] = SedLine(cmds, text, i, TRUE, g[i - 1])
    BY <1>3, <1>11, <2>1
  <2>3. g[i - 1] \in Reads(R, text) /\ g[i - 1].active[1] \in BOOLEAN /\ i \in DOMAIN text /\ text[i] \in R
    BY <1>11, <1>13
  <2> DEFINE b == g[i - 1]
  <2> HIDE DEF b
  <2>4. b \in Reads(R, text) /\ b.active[1] \in BOOLEAN /\ g[i] = SedLine(cmds, text, i, TRUE, b)
    BY <2>2, <2>3 DEF b
  <2>5. selected(cmds[1], b.active[1], i, i = Len(text), text[i]).active \in BOOLEAN
    BY <2>4, SelectedIs DEF Selects
  <2>6. Prints(cmds, text, i, b, SedLine(cmds, text, i, TRUE, b))
    BY <2>3, <2>4, <2>5, LinePrints
  <2> QED BY <2>4, <2>6 DEF b, Prints
<1> HIDE DEF s, H
<1>15. \A i \in 1 .. n :
         /\ cmd.a1.at = "none" => (s(i).picked <=> ~cmd.negate)
         /\ cmd.a1.at # "none" /\ cmd.a2.at = "none" => (s(i).picked <=> (Fits(cmd.a1, text, i) # cmd.negate))
         /\ cmd.a1.at # "none" /\ cmd.a2.at # "none" =>
              /\ s(i).picked <=> ((g[i - 1].active[1] \/ Fits(cmd.a1, text, i)) # cmd.negate)
              /\ s(i).active <=> IF g[i - 1].active[1] THEN ~Fits(cmd.a2, text, i)
                                 ELSE Fits(cmd.a1, text, i) /\ ~(cmd.a2.at = "line" /\ cmd.a2.n <= i)
  <2> TAKE i \in 1 .. n
  <2>1. g[i - 1].active[1] \in BOOLEAN
    BY <1>11, <1>13
  <2> DEFINE active == g[i - 1].active[1]
  <2> HIDE DEF active
  <2>2. active \in BOOLEAN /\ s(i) = selected(cmd, active, i, i = Len(text), text[i])
    BY <2>1 DEF active, s
  <2> HIDE DEF cmd
  <2>3. IsPrint(cmd)
    BY DEF cmd
  <2> HIDE DEF n, F, A, it, read
  <2>4. Selects(cmd, text, i, active, selected(cmd, active, i, i = Len(text), text[i]))
    BY <2>2, <2>3, SelectedIs
  <2>5. Selects(cmd, text, i, active, s(i))
    BY <2>2, <2>4
  <2> QED BY <2>5 DEF active, Selects
<1>16. ASSUME cmd.a1.at # "none", cmd.a2.at # "none"
       PROVE  \A i \in 0 .. n : i < n => (g[i].active[1] <=> OpenAfter(cmd, text, i))
  <2> DEFINE T == {i \in 0 .. n : i < n => (g[i].active[1] <=> OpenAfter(cmd, text, i))}
  <2>1. 0 \in T
    <3>1. ~OpenAfter(cmd, text, 0)
      BY DEF OpenAfter
    <3>2. g[0] = base
      BY <1>10 DEF IsRun
    <3> QED BY <1>11, <1>12, <3>1, <3>2
  <2>2. ASSUME NEW i \in 1 .. n, i - 1 \in T
        PROVE  i \in T
    <3> SUFFICES ASSUME i < n
                 PROVE  g[i].active[1] <=> OpenAfter(cmd, text, i)
      BY <1>11
    <3>1. g[i - 1].active[1] <=> OpenAfter(cmd, text, i - 1)
      BY <1>11, <2>2
    <3>2. OpenAfter(cmd, text, i) <=>
            IF OpenAfter(cmd, text, i - 1) THEN ~Fits(cmd.a2, text, i)
            ELSE Fits(cmd.a1, text, i) /\ ~(cmd.a2.at = "line" /\ cmd.a2.n <= i)
      <4> HIDE DEF cmd
      <4>1. IsAddress(cmd.a1) /\ IsAddress(cmd.a2) /\ Apart2(cmd, text)
        BY DEF cmd, IsPrint
      <4>2. i \in 1 .. Len(text) /\ i < Len(text)
        BY DEF n
      <4> QED BY <1>16, <4>1, <4>2, OpenStep
    <3>3. g[i].active[1] <=> s(i).active
      BY <1>14
    <3> HIDE DEF T, cmd
    <3> QED BY <1>15, <1>16, <3>1, <3>2, <3>3
  <2> HIDE DEF T
  <2>3. 0 .. n \subseteq T
    BY <1>11, <2>1, <2>2, Inductive
  <2> QED BY <2>3 DEF T
<1>17. \A i \in 1 .. n : s(i).picked <=> i \in picked
  <2> TAKE i \in 1 .. n
  <2> DEFINE within == i \in SedRange(cmd, text)
  <2>1. within <=> CASE cmd.a1.at = "none" -> TRUE
                     [] cmd.a1.at # "none" /\ cmd.a2.at = "none" -> Fits(cmd.a1, text, i)
                     [] OTHER -> InRange(cmd, text, i)
    <3> HIDE DEF cmd
    <3>1. IsPrint(cmd) /\ i \in 1 .. Len(text)
      BY DEF cmd, n
    <3> QED BY <3>1, RangeIs
  <2>2. i \in picked <=> (within # cmd.negate)
    BY <1>11
  <2>3. cmd.negate \in BOOLEAN
    BY DEF IsPrint
  <2> HIDE DEF within, cmd
  <2>4. CASE cmd.a1.at = "none"
    <3>1. within
      BY <2>1, <2>4
    <3> QED BY <1>15, <2>2, <2>3, <2>4, <3>1
  <2>5. CASE cmd.a1.at # "none" /\ cmd.a2.at = "none"
    <3>1. within <=> Fits(cmd.a1, text, i)
      BY <2>1, <2>5
    <3>2. s(i).picked <=> (Fits(cmd.a1, text, i) # cmd.negate)
      BY <1>15, <2>5
    <3> DEFINE fits == Fits(cmd.a1, text, i)
    <3> HIDE DEF fits
    <3>3. (within <=> fits) /\ (s(i).picked <=> (fits # cmd.negate))
      BY <3>1, <3>2 DEF fits
    <3>4. fits \in BOOLEAN /\ within \in BOOLEAN
      <4>1. fits \in BOOLEAN
        BY FitsOrNot DEF fits
      <4>2. within \in BOOLEAN
        BY DEF within
      <4> QED BY <4>1, <4>2
    <3> QED BY <2>2, <2>3, <3>3, <3>4
  <2>6. CASE cmd.a1.at # "none" /\ cmd.a2.at # "none"
    <3>1. within <=> OpenAfter(cmd, text, i - 1) \/ Fits(cmd.a1, text, i)
      BY <2>1, <2>6 DEF InRange
    <3>2. i - 1 \in 0 .. n /\ i - 1 < n
      BY <1>11
    <3>3. g[i - 1].active[1] <=> OpenAfter(cmd, text, i - 1)
      BY <1>16, <2>6, <3>2
    <3>4. s(i).picked <=> ((g[i - 1].active[1] \/ Fits(cmd.a1, text, i)) # cmd.negate)
      BY <1>15, <2>6
    <3> QED BY <2>2, <2>3, <3>1, <3>3, <3>4
  <2> QED BY <2>4, <2>5, <2>6
<1>18. picked \subseteq 1 .. n
  BY <1>11
<1> HIDE DEF picked
<1> DEFINE Counted(i) == /\ Len(g[i].out) = Cardinality(picked \cap (1 .. i))
                         /\ \A k \in DOMAIN g[i].out : g[i].out[k].line \in picked
<1>19. \A i \in 0 .. n : Counted(i)
  <2> DEFINE T == {i \in 0 .. n : Counted(i)}
  <2>1. 0 \in T
    <3>1. picked \cap (1 .. 0) = {} /\ g[0] = base /\ 0 \in 0 .. n
      BY <1>10, <1>11 DEF IsRun
    <3>2. Cardinality({}) = 0 /\ Len(<<>>) = 0 /\ DOMAIN <<>> = {}
      BY FS_EmptySet
    <3>3. g[0].out = <<>>
      BY <1>12, <3>1
    <3> QED BY <3>1, <3>2, <3>3
  <2>2. ASSUME NEW i \in 1 .. n, i - 1 \in T
        PROVE  i \in T
    <3> DEFINE o == g[i - 1].out
               x == Hit(i, text[i])
    <3>1. Counted(i - 1) /\ o \in Seq(H) /\ i - 1 \in 0 .. n
      BY <1>11, <1>13, <2>2
    <3>2. x \in H /\ x.line = i
      BY <1>11 DEF H, HitsOf, Hit
    <3>3. IsFiniteSet(picked \cap (1 .. i - 1)) /\ i \notin picked \cap (1 .. i - 1)
      <4>1. IsFiniteSet(1 .. i - 1)
        BY FS_Interval
      <4>2. IsFiniteSet(picked \cap (1 .. i - 1))
        BY <4>1, FS_Subset
      <4> QED BY <4>2
    <3>4. CASE i \in picked
      <4>1. picked \cap (1 .. i) = (picked \cap (1 .. i - 1)) \cup {i}
        BY <3>4
      <4>2. Cardinality(picked \cap (1 .. i)) = Cardinality(picked \cap (1 .. i - 1)) + 1
        BY <3>3, <4>1, FS_AddElement
      <4>3. g[i].out = Append(o, x)
        BY <1>14, <1>17, <3>4
      <4> HIDE DEF o, x
      <4>4. /\ Len(Append(o, x)) = Len(o) + 1
            /\ \A k \in DOMAIN Append(o, x) : Append(o, x)[k] = x \/ (k \in DOMAIN o /\ Append(o, x)[k] = o[k])
        BY <3>1, <3>2
      <4>5. Len(o) = Cardinality(picked \cap (1 .. i - 1)) /\ \A k \in DOMAIN o : o[k].line \in picked
        BY <3>1 DEF o
      <4>6. Len(g[i].out) = Cardinality(picked \cap (1 .. i))
        BY <4>2, <4>3, <4>4, <4>5
      <4>7. \A k \in DOMAIN g[i].out : g[i].out[k].line \in picked
        BY <3>2, <3>4, <4>3, <4>4, <4>5
      <4> QED BY <4>6, <4>7
    <3>5. CASE i \notin picked
      <4>1. picked \cap (1 .. i) = picked \cap (1 .. i - 1)
        BY <3>5
      <4>2. g[i].out = o
        BY <1>14, <1>17, <3>5
      <4>3. Len(o) = Cardinality(picked \cap (1 .. i - 1)) /\ \A k \in DOMAIN o : o[k].line \in picked
        BY <3>1
      <4> HIDE DEF o
      <4>4. Len(g[i].out) = Cardinality(picked \cap (1 .. i))
        BY <4>1, <4>2, <4>3
      <4>5. \A k \in DOMAIN g[i].out : g[i].out[k].line \in picked
        BY <4>2, <4>3
      <4> QED BY <4>4, <4>5
    <3> QED BY <3>4, <3>5
  <2> HIDE DEF T
  <2>3. 0 .. n \subseteq T
    BY <1>11, <2>1, <2>2, Inductive
  <2> QED BY <2>3 DEF T
<1> HIDE DEF Counted
<1> DEFINE got == g[n].out
           h == SubSeq(got, 1, shown)
           t == Len(got) - shown
<1> HIDE DEF read
<1>20. read = g[n] /\ n \in 0 .. n
  BY <1>2, <1>10, <1>11
<1>21. got \in Seq(H) /\ Counted(n) /\ Len(got) \in Nat
  <2>1. got \in Seq(H) /\ Counted(n)
    BY <1>13, <1>19, <1>20
  <2> QED BY <2>1
<1>22. picked \cap (1 .. n) = picked
  BY <1>18
<1>23. shown = Min({Len(got), max_lines})
  BY <1>20
<1> HIDE DEF shown
<1>24. shown \in 0 .. Len(got) /\ shown \in Nat
  <2>1. Len(got) \in Int /\ max_lines \in Int /\ max_lines \in Nat
    BY <1>21, LimitsAssumption
  <2> DEFINE c == Len(got)
  <2> HIDE DEF c
  <2>2. shown \in {c, max_lines} /\ shown <= c
    BY <1>23, <2>1, LeastOfTwo DEF c
  <2> QED BY <1>21, <2>1, <2>2 DEF c
<1>25. h \in Seq(H) /\ Len(h) = shown /\ \A i \in 1 .. shown : h[i] = got[i]
  <2> HIDE DEF got
  <2> QED BY <1>21, <1>24, Beginning
<1>26. t \in Int /\ Len(h) + t = Cardinality(picked)
  <2>1. Len(got) = Cardinality(picked)
    BY <1>21, <1>22 DEF Counted
  <2> HIDE DEF h, got
  <2> QED BY <1>21, <1>24, <1>25, <2>1
<1>27. \A k \in DOMAIN h : h[k].line \in picked
  <2>1. DOMAIN h = 1 .. shown /\ \A k \in 1 .. shown : k \in DOMAIN got
    BY <1>21, <1>24, <1>25
  <2> QED BY <1>21, <1>25, <2>1 DEF Counted
<1>28. sed(text, cmds, TRUE) = Hits(h, t)
  BY <1>0, <1>20
<1> HIDE DEF h, t
<1> QED BY <1>25, <1>26, <1>27, <1>28 DEF H, picked, cmd

(***************************************************************************)
(* An operation over a stored text shows lines where they are.             *)
(***************************************************************************)
LEMMA OpFinds ==
  ASSUME NEW look \in Looks, NEW x \in Seq(DOMAIN Row)
  PROVE  /\ look.op.is \notin {"sed", "links"} => Finds(run_scoped(x, look.op), x)
         /\ look.op.is \in {"find", "grep", "awk", "summarize"} => FindsInOrder(run_scoped(x, look.op), x)
<1> DEFINE op == look.op
           o == run_scoped(x, look.op)
<1>1. op.is \in Ops
  BY LooksAssumption
<1>2. FindsInOrder(o, x) => Finds(o, x)
  BY DEF Finds, FindsInOrder
<1>3. CASE op.is = "grep"
  <2>1. o = grep(x, op.pattern, op.context)
    BY <1>3 DEF run_scoped
  <2>2. FindsInOrder(o, x)
    BY <2>1, GrepFinds
  <2> QED BY <1>2, <2>2
<1>4. CASE op.is = "find"
  <2>1. o = grep(x, op.pattern, 0)
    BY <1>4 DEF run_scoped
  <2>2. FindsInOrder(o, x)
    BY <2>1, GrepFinds
  <2> QED BY <1>2, <2>2
<1>5. CASE op.is = "regex"
  <2>1. o = regex_matches(x, op.pattern)
    BY <1>5 DEF run_scoped
  <2>2. Finds(o, x)
    BY <2>1, RegexFinds
  <2> QED BY <1>5, <2>2
<1>6. CASE op.is = "rank"
  <2>1. o = search_windows(x, op.top_k) /\ op.top_k \in Nat
    BY <1>6, LooksAssumption DEF run_scoped
  <2>2. Finds(o, x)
    BY <2>1, RankFinds
  <2> QED BY <1>6, <2>2
<1>7. CASE op.is = "awk"
  <2>1. o = awk(x, op.test)
    BY <1>7 DEF run_scoped
  <2>2. FindsInOrder(o, x)
    BY <2>1, AwkFinds
  <2> QED BY <1>2, <2>2
<1>8. CASE op.is = "headings"
  <2>1. o = extract_headings(x)
    BY <1>8 DEF run_scoped
  <2>2. Finds(o, x)
    BY <2>1, HeadingsFind
  <2> QED BY <1>8, <2>2
<1>9. CASE op.is = "summarize"
  <2>1. o = summarize_text(x, op.max_chars) /\ op.max_chars \in Nat
    BY <1>9, LooksAssumption DEF run_scoped
  <2>2. FindsInOrder(o, x)
    BY <2>1, SummaryFinds
  <2> QED BY <1>2, <2>2
<1>10. CASE op.is \in {"sed", "links"}
  BY <1>10
<1> HIDE DEF o
<1> QED BY <1>1, <1>3, <1>4, <1>5, <1>6, <1>7, <1>8, <1>9, <1>10 DEF Ops, o

LEMMA MovedCount ==
  ASSUME NEW n \in Nat, NEW S, S \subseteq 1 .. n, NEW by \in Nat
  PROVE  Cardinality({by + i : i \in S}) = Cardinality(S)
<1> DEFINE T == {by + i : i \in S}
           f == [i \in S |-> by + i]
<1>1. IsFiniteSet(S)
  <2>1. IsFiniteSet(1 .. n)
    BY FS_Interval
  <2> QED BY <2>1, FS_Subset
<1>2. f \in [S -> T] /\ \A t \in T : \E i \in S : f[i] = t
  OBVIOUS
<1>3. \A i, j \in S : f[i] = f[j] => i = j
  OBVIOUS
<1>4. f \in Bijection(S, T)
  <2>1. DOMAIN f = S
    OBVIOUS
  <2> HIDE DEF f, T
  <2>2. IsInjective(f)
    BY <1>3, <2>1 DEF IsInjective
  <2> QED BY <1>2, <2>2 DEF Bijection, Injection, Surjection
<1>5. ExistsBijection(S, T)
  BY <1>4 DEF ExistsBijection
<1> HIDE DEF T
<1> QED BY <1>1, <1>5, FS_Bijection DEF T

LEMMA LookInPlace ==
  ASSUME NEW look \in Looks
  PROVE  LookIsInPlace(look, run_on_text(look.text, look.op, look.scope))
<1> DEFINE op == look.op
           got == run_on_text(look.text, look.op, look.scope)
           s == apply_scope(look.text, look.scope)
           x == s.text
           cmd == op.cmds[1]
           picked == {m \in DOMAIN x : (m \in SedRange(cmd, x)) # cmd.negate}
           lines == {s.offset + n : n \in picked}
<1>1. /\ x \in Seq(DOMAIN Row) /\ s.offset \in Nat /\ Len(look.text) \in Nat
  <2>1. look.text \in Seq(DOMAIN Row) /\ Len(look.text) \in Nat
    BY LooksAssumption
  <2> DEFINE r == resolve(look.scope, Len(look.text))
             text == look.text
  <2>2. x \in Seq(DOMAIN Row) /\ s.offset = r.start /\ r.start \in 0 .. Len(text)
    BY LooksAssumption, ScopeIs
  <2> HIDE DEF r, x, s
  <2> QED BY <2>1, <2>2
<1>2. ASSUME NEW h \in Seq(HitsOf(x)), NEW t \in Int, run_scoped(x, op) = Hits(h, t)
      PROVE  /\ Len(got.hits) \in 0 .. Len(h) /\ DOMAIN got.hits = 1 .. Len(got.hits)
             /\ \A k \in DOMAIN got.hits : /\ got.hits[k].line = s.offset + h[k].line
                                           /\ got.hits[k].line \in Scoped(look)
                                           /\ look.text[got.hits[k].line] = got.hits[k].row
             /\ Rising(h) => Rising(got.hits)
             /\ op.is # "summarize" => Len(got.hits) + got.truncated = Len(h) + t
  BY <1>2, ShownHits
<1> HIDE DEF got, s, x
<1>3. ASSUME op.is \notin {"sed", "links"}, NEW k \in DOMAIN got.hits
      PROVE  got.hits[k].line \in Scoped(look) /\ look.text[got.hits[k].line] = got.hits[k].row
  <2>1. Finds(run_scoped(x, op), x)
    BY <1>1, <1>3, OpFinds
  <2>2. PICK h \in Seq(HitsOf(x)), t \in Int : run_scoped(x, op) = Hits(h, t)
    BY <2>1 DEF Finds
  <2> QED BY <1>2, <1>3, <2>2
<1>4. ASSUME op.is \in {"find", "grep", "awk", "summarize"}
      PROVE  \A j, k \in DOMAIN got.hits : j < k => got.hits[j].line < got.hits[k].line
  <2>1. FindsInOrder(run_scoped(x, op), x)
    BY <1>1, <1>4, OpFinds
  <2>2. PICK h \in Seq(HitsOf(x)), t \in Int : run_scoped(x, op) = Hits(h, t) /\ Rising(h)
    BY <2>1 DEF FindsInOrder
  <2>3. Rising(got.hits)
    BY <1>2, <2>2
  <2> QED BY <2>3 DEF Rising
<1>5. ASSUME PrintsOnly(op, x)
      PROVE  /\ Len(got.hits) + got.truncated = Cardinality(lines)
             /\ \A k \in DOMAIN got.hits :
                  got.hits[k].line \in lines /\ got.hits[k].row = look.text[got.hits[k].line]
  <2> DEFINE cmds == op.cmds
  <2>1. op.is = "sed" /\ op.quiet = TRUE /\ Len(cmds) = 1 /\ DOMAIN cmds = 1 .. 1 /\ cmds[1].kind = "p"
    <3>1. op.is = "sed" /\ op.quiet /\ Len(cmds) = 1 /\ cmds[1].kind = "p"
      BY <1>5 DEF PrintsOnly
    <3>2. op.quiet \in BOOLEAN /\ DOMAIN cmds = 1 .. Len(cmds)
      BY <3>1, LooksAssumption
    <3> QED BY <3>1, <3>2
  <2>2. IsPrint(cmds[1])
    BY <2>1, LooksAssumption
  <2>3. Apart2(cmds[1], x)
    BY <1>5 DEF PrintsOnly, Apart2
  <2>4. run_scoped(x, op) = sed(x, cmds, TRUE)
    <3>1. run_scoped(x, op) = sed(x, cmds, op.quiet)
      BY <2>1 DEF run_scoped
    <3> QED BY <2>1, <3>1
  <2>5. PICK h \in Seq(HitsOf(x)), t \in Int :
          /\ sed(x, cmds, TRUE) = Hits(h, t) /\ Len(h) + t = Cardinality(picked)
          /\ \A k \in DOMAIN h : h[k].line \in picked
    <3> HIDE DEF cmds
    <3> QED BY <1>1, <2>1, <2>2, <2>3, SedPrints DEF cmds
  <2>6. Cardinality(lines) = Cardinality(picked)
    <3>1. picked \subseteq 1 .. Len(x) /\ Len(x) \in Nat
      BY <1>1
    <3> HIDE DEF picked
    <3> QED BY <1>1, <3>1, MovedCount
  <2> HIDE DEF cmds, picked
  <2>7. /\ Len(got.hits) \in 0 .. Len(h) /\ DOMAIN got.hits = 1 .. Len(got.hits)
        /\ \A k \in DOMAIN got.hits : /\ got.hits[k].line = s.offset + h[k].line
                                      /\ look.text[got.hits[k].line] = got.hits[k].row
        /\ Len(got.hits) + got.truncated = Len(h) + t
    BY <1>2, <2>1, <2>4, <2>5
  <2>8. \A k \in DOMAIN got.hits : k \in DOMAIN h
    <3>1. DOMAIN h = 1 .. Len(h) /\ Len(h) \in Nat
      BY SeqFun
    <3> HIDE DEF op
    <3> QED BY <2>7, <3>1
  <2>9. \A k \in DOMAIN got.hits : s.offset + h[k].line \in lines
    BY <2>5, <2>8
  <2> HIDE DEF lines
  <2> QED BY <2>5, <2>6, <2>7, <2>9
<1> HIDE DEF lines
<1> QED BY <1>3, <1>4, <1>5, Zenon DEF LookIsInPlace, got, s, x, op, cmd, picked, lines

-----------------------------------------------------------------------------
(***************************************************************************)
(* Every place a host is shown is where it says it is, for every text,     *)
(* scope, script, transcript and frozen prefix: a hit names its line of    *)
(* the whole text and what is on it, in order where the operation promises *)
(* it; a sed script that prints by addresses prints their lines and counts *)
(* the ones it has no room for; the values found in a frozen prefix are    *)
(* apart, inside it, and every match is told or overlaps one that is; and  *)
(* a finding names the evidence its lines mention.  (repl/mod.rs           *)
(* run_on_text, scope.rs, ops.rs, sed.rs, awk.rs; live_zone.rs             *)
(* detect_volatile_cache_values; conversation/subagent.rs                  *)
(* summarize_subagent_transcript)                                          *)
(***************************************************************************)
THEOREM EveryHitIsInPlace == CallSpec => []HitsAreInPlace
<1>1. CallAnswers => HitsAreInPlace
  <2> SUFFICES ASSUME CallAnswers
               PROVE  HitsAreInPlace
    OBVIOUS
  <2>1. ASSUME Answered("look")
        PROVE  LookIsInPlace(asked.look, answer)
    <3>1. asked.look \in Looks /\ answer = run_on_text(asked.look.text, asked.look.op, asked.look.scope)
      BY <2>1 DEF CallAnswers, CallAsked, CallAnswered, Answered
    <3> QED BY <3>1, LookInPlace
  <2>2. ASSUME Answered("volatile")
        PROVE  FindingsAreInPlace(asked, answer.findings)
    <3>1. PICK call \in FrozenPrefixes : FromPrefix(call)
      BY <2>2 DEF CallAnswers, CallAsked, Answered
    <3>2. answer.findings = detect_volatile_cache_values(call.input, call.frozen_range, call.matches)
      BY <2>2, <3>1 DEF CallAnswers, CallAnswered, FromPrefix
    <3>3. FindingsAreInPlace(call, answer.findings)
      BY <3>2, FrozenInPlace
    <3>4. FindingsAreInPlace(asked, answer.findings) <=> FindingsAreInPlace(call, answer.findings)
      BY <3>1 DEF FindingsAreInPlace, FromPrefix
    <3> QED BY <3>3, <3>4
  <2>3. ASSUME Answered("handoff")
        PROVE  EvidenceIsInPlace(answer)
    <3>1. asked.input \in Transcripts /\ answer = summarize_subagent_transcript(asked.input)
      BY <2>3 DEF CallAnswers, CallAsked, CallAnswered, Answered
    <3> QED BY <3>1, HandoffInPlace
  <2> QED BY <2>1, <2>2, <2>3 DEF HitsAreInPlace
<1> QED BY <1>1, CallsFit, PTL

-----------------------------------------------------------------------------
-----
(* Replacements in a prompt.                                               *)

LEMMA EditsArranged ==
  ASSUME NEW given \in Seq(Edits)
  PROVE  ByStart(given) \in Seq(Edits) /\ \E o : Arranged(ByStart(given), given, o)
<1> DEFINE n == Len(given)
           places == DOMAIN given
           Start(k) == given[k].range.start
           before == {p \in places \X places :
                        Start(p[1]) < Start(p[2]) \/ (Start(p[1]) = Start(p[2]) /\ p[1] < p[2])}
           order == Sorted(places, before)
           s == ByStart(given)
<1>1. n \in Nat /\ places = 1 .. n /\ \A k \in places : given[k] \in Edits
  OBVIOUS
<1>2. \A k \in places : Start(k) \in Nat /\ k \in Nat
  BY <1>1 DEF Edits
<1>3. s = [k \in DOMAIN order |-> given[order[k]]]
  BY DEF ByStart
<1>4. \A j, k \in places : <<j, k>> \in before <=> Start(j) < Start(k) \/ (Start(j) = Start(k) /\ j < k)
  OBVIOUS
<1> HIDE DEF before, Start, s
<1>5. Orders(before, places)
  <2> HIDE DEF places
  <2>1. \A i \in places : <<i, i>> \notin before
    BY <1>2, <1>4
  <2>2. \A i, j, k \in places : <<i, j>> \in before /\ <<j, k>> \in before => <<i, k>> \in before
    BY <1>2, <1>4
  <2>3. \A i, j \in places : i # j => <<i, j>> \in before \/ <<j, i>> \in before
    BY <1>2, <1>4
  <2> QED BY <2>1, <2>2, <2>3 DEF Orders
<1> HIDE DEF places, order
<1>6. Sorts(order, places, before)
  <2>1. places \subseteq 1 .. n
    BY <1>1
  <2> QED BY <1>1, <1>5, <2>1, SortedIs DEF order
<1>7. Cardinality(places) = n
  <2> HIDE DEF n
  <2> QED BY <1>1, FS_Interval
<1>8. /\ order \in [1 .. n -> 1 .. n] /\ DOMAIN s = 1 .. n
      /\ \A k \in 1 .. n : order[k] \in places /\ s[k] = given[order[k]]
      /\ \A i \in 1 .. n : \E k \in 1 .. n : order[k] = i
      /\ \A j, k \in 1 .. n : j < k => <<order[j], order[k]>> \in before
  <2> HIDE DEF n
  <2> QED BY <1>1, <1>3, <1>6, <1>7 DEF Sorts
<1>9. \A k \in 1 .. n : s[k] \in Edits /\ s[k].range.start = Start(order[k])
  <2> HIDE DEF n
  <2> QED BY <1>1, <1>8 DEF Start
<1>10. \A j, k \in 1 .. n : j < k =>
         \/ s[j].range.start < s[k].range.start
         \/ s[j].range.start = s[k].range.start /\ order[j] < order[k]
  <2> TAKE j, k \in 1 .. n
  <2> HAVE j < k
  <2> DEFINE a == order[j]
             b == order[k]
  <2> HIDE DEF n
  <2>1. a \in places /\ b \in places /\ <<a, b>> \in before
    BY <1>8
  <2>2. s[j].range.start = Start(a) /\ s[k].range.start = Start(b)
    BY <1>9
  <2> HIDE DEF a, b
  <2>3. Start(a) < Start(b) \/ (Start(a) = Start(b) /\ a < b)
    BY <1>4, <2>1
  <2> QED BY <2>2, <2>3 DEF a, b
<1>11. Arranged(s, given, order)
  <2> HIDE DEF n
  <2> QED BY <1>8, <1>9, <1>10 DEF Arranged, n
<1>12. s \in Seq(Edits)
  <2>1. s = [k \in 1 .. n |-> s[k]] /\ \A k \in 1 .. n : s[k] \in Edits
    <3>1. DOMAIN s = DOMAIN order
      BY <1>3
    <3> HIDE DEF n
    <3> QED BY <1>3, <1>8, <1>9, <3>1
  <2> HIDE DEF n
  <2>2. s \in [1 .. n -> Edits]
    BY <2>1
  <2> QED BY <1>1, <2>2, FunSeq
<1> QED BY <1>11, <1>12 DEF s

-----------------------------------------------------------------------------
-----
(* Sums.                                                                   *)

LEMMA TotalExists ==
  ASSUME NEW n \in Nat, NEW F, \A i \in 1 .. n : F[i] \in Int
  PROVE  \E h : Totals(h, n, F)
<1> DEFINE G == [x \in Int \X (1 .. n) |-> x[1] + F[x[2]]]
<1>1. \A a \in Int : \A i \in 1 .. n : G[<<a, i>>] = a + F[i] /\ G[<<a, i>>] \in Int
  OBVIOUS
<1>2. 0 \in Int
  OBVIOUS
<1> HIDE DEF G
<1>3. PICK it \in [SUBSET (1 .. n) -> Int] : Folds(it, n, 0, G)
  BY <1>1, <1>2, FoldIn
<1>4. Follows(it, n, Int, 0, G)
  BY <1>3 DEF Folds, Follows
<1>5. Stays(G, Int, n)
  BY <1>1 DEF Stays
<1>6. PICK h \in [0 .. n -> Int] : h[n] = it[1 .. n] /\ IsRun(h, n, 0, G)
  BY <1>2, <1>4, <1>5, FoldRun
<1>7. \A i \in 1 .. n : h[i] = h[i - 1] + F[i]
  <2> TAKE i \in 1 .. n
  <2>1. h[i - 1] \in Int
    OBVIOUS
  <2> QED BY <1>1, <1>6, <2>1 DEF IsRun
<1> QED BY <1>6, <1>7 DEF Totals, IsRun

LEMMA TotalsDiffer ==
  ASSUME NEW n \in Nat, NEW F, NEW G, NEW j \in 1 .. n, NEW h, NEW g,
         Totals(h, n, F), Totals(g, n, G), \A i \in 1 .. n : F[i] \in Int /\ G[i] \in Int,
         \A i \in 1 .. n : i # j => G[i] = F[i]
  PROVE  h[n] = g[n] + F[j] - G[j]
<1> DEFINE Good == {i \in 0 .. n : h[i] = IF i < j THEN g[i] ELSE g[i] + F[j] - G[j]}
<1>1. 0 \in Good
  BY DEF Totals
<1>2. ASSUME NEW i \in 1 .. n, i - 1 \in Good
      PROVE  i \in Good
  <2>1. /\ h[i] = h[i - 1] + F[i] /\ g[i] = g[i - 1] + G[i]
        /\ h[i - 1] \in Int /\ g[i - 1] \in Int
    BY DEF Totals
  <2>2. h[i - 1] = IF i - 1 < j THEN g[i - 1] ELSE g[i - 1] + F[j] - G[j]
    BY <1>2
  <2>3. /\ F[i] \in Int /\ G[i] \in Int /\ F[j] \in Int /\ G[j] \in Int
        /\ i \in 0 .. n /\ (i # j => G[i] = F[i])
    OBVIOUS
  <2>4. h[i] = IF i < j THEN g[i] ELSE g[i] + F[j] - G[j]
    <3>1. CASE i < j
      BY <2>1, <2>2, <2>3, <3>1
    <3>2. CASE i = j
      BY <2>1, <2>2, <2>3, <3>2
    <3>3. CASE i > j
      BY <2>1, <2>2, <2>3, <3>3
    <3> QED BY <3>1, <3>2, <3>3
  <2> QED BY <2>3, <2>4
<1> HIDE DEF Good
<1>3. n \in Good
  <2>1. n \in 0 .. n
    OBVIOUS
  <2> QED BY <1>1, <1>2, <2>1, Inductive
<1>4. h[n] = IF n < j THEN g[n] ELSE g[n] + F[j] - G[j]
  BY <1>3 DEF Good
<1>5. ~(n < j)
  OBVIOUS
<1> QED BY <1>4, <1>5, Zenon

LEMMA TotalNone ==
  ASSUME NEW n \in Nat, NEW F, NEW h, Totals(h, n, F), \A i \in 1 .. n : F[i] = 0
  PROVE  h[n] = 0
<1> DEFINE Good == {i \in 0 .. n : h[i] = 0}
<1>1. 0 \in Good /\ \A i \in 1 .. n : i - 1 \in Good => i \in Good
  BY DEF Totals
<1>2. n \in Good
  <2>1. n \in 0 .. n
    OBVIOUS
  <2> HIDE DEF Good
  <2> QED BY <1>1, <2>1, Inductive
<1> QED BY <1>2

LEMMA TotalOfIs ==
  ASSUME NEW n \in Nat, NEW F, \A i \in 1 .. n : F[i] \in Int, NEW o, Counts(o, n)
  PROVE  /\ TotalOf(o, n, F, {}) = 0
         /\ \A p \in SUBSET (1 .. n) : TotalOf(o, n, F, p) \in Int
         /\ \A p \in SUBSET (1 .. n) : \A x \in p :
              TotalOf(o, n, F, p) = F[x] + TotalOf(o, n, F, p \ {x})
         /\ \A p \in SUBSET (1 .. n) : \A h : Totals(h, n, Only(o, n, F, p)) => h[n] = TotalOf(o, n, F, p)
<1>1. ASSUME NEW p
      PROVE  /\ \A i \in 1 .. n : /\ Only(o, n, F, p)[i] = IF o[i] \in p THEN F[o[i]] ELSE 0
                                  /\ Only(o, n, F, p)[i] \in Int /\ o[i] \in 1 .. n
             /\ \E h : Totals(h, n, Only(o, n, F, p))
  <2>1. \A i \in 1 .. n : /\ Only(o, n, F, p)[i] = IF o[i] \in p THEN F[o[i]] ELSE 0
                          /\ Only(o, n, F, p)[i] \in Int /\ o[i] \in 1 .. n
    BY DEF Only, Counts
  <2> QED BY <2>1, TotalExists
<1> DEFINE H(p) == CHOOSE h : Totals(h, n, Only(o, n, F, p))
<1>2. \A p : Totals(H(p), n, Only(o, n, F, p)) /\ TotalOf(o, n, F, p) = H(p)[n]
  BY <1>1 DEF TotalOf
<1> HIDE DEF H
<1>3. TotalOf(o, n, F, {}) = 0
  <2>1. \A i \in 1 .. n : Only(o, n, F, {})[i] = 0
    BY <1>1
  <2> QED BY <1>2, <2>1, TotalNone
<1>4. ASSUME NEW p \in SUBSET (1 .. n), NEW x \in p
      PROVE  TotalOf(o, n, F, p) = F[x] + TotalOf(o, n, F, p \ {x})
  <2>1. PICK j \in 1 .. n : o[j] = x
    BY DEF Counts
  <2> DEFINE f == Only(o, n, F, p)
             g == Only(o, n, F, p \ {x})
             a == H(p)
             b == H(p \ {x})
  <2>2. f[j] = F[x] /\ g[j] = 0 /\ F[x] \in Int
    BY <1>1, <2>1
  <2>3. ASSUME NEW i \in 1 .. n, i # j
        PROVE  g[i] = f[i]
    <3>1. o[i] # x
      BY <2>1, <2>3 DEF Counts
    <3>2. o[i] \in p \ {x} <=> o[i] \in p
      BY <3>1
    <3> QED BY <1>1, <3>2
  <2>4. \A i \in 1 .. n : f[i] \in Int /\ g[i] \in Int
    BY <1>1
  <2>5. Totals(a, n, f) /\ Totals(b, n, g)
    BY <1>2
  <2> HIDE DEF f, g, a, b
  <2>6. a[n] = b[n] + f[j] - g[j] /\ b[n] \in Int
    <3>1. b[n] \in Int
      BY <2>5 DEF Totals
    <3>2. a[n] = b[n] + f[j] - g[j]
      BY <2>3, <2>4, <2>5, TotalsDiffer
    <3> QED BY <3>1, <3>2
  <2> QED BY <1>2, <2>2, <2>6 DEF a, b
<1>5. \A p \in SUBSET (1 .. n) : TotalOf(o, n, F, p) \in Int
  <2> TAKE p \in SUBSET (1 .. n)
  <2>1. H(p)[n] \in Int
    BY <1>2 DEF Totals
  <2> QED BY <1>2, <2>1
<1>6. ASSUME NEW p \in SUBSET (1 .. n), NEW h, Totals(h, n, Only(o, n, F, p))
      PROVE  h[n] = TotalOf(o, n, F, p)
  <2> DEFINE g == H(p)
             f == Only(o, n, F, p)
             Good == {i \in 0 .. n : h[i] = g[i]}
  <2>1. Totals(h, n, f) /\ Totals(g, n, f)
    BY <1>2, <1>6
  <2> HIDE DEF f, g
  <2>2. 0 \in Good /\ \A i \in 1 .. n : i - 1 \in Good => i \in Good
    BY <2>1 DEF Totals
  <2>3. n \in Good
    <3>1. n \in 0 .. n
      OBVIOUS
    <3> HIDE DEF Good
    <3> QED BY <2>2, <3>1, Inductive
  <2> QED BY <1>2, <2>3 DEF g
<1> QED BY <1>3, <1>4, <1>5, <1>6

LEMMA WaysSplit ==
  ASSUME NEW n \in Nat, NEW F, \A i \in 1 .. n : F[i] \in Int, NEW o, Counts(o, n)
  PROVE  Splits(Ways(o, n, F), n, F)
<1>1. /\ TotalOf(o, n, F, {}) = 0
      /\ \A p \in SUBSET (1 .. n) : \A x \in p :
           TotalOf(o, n, F, p) = F[x] + TotalOf(o, n, F, p \ {x})
  BY TotalOfIs, SMTT(30)
<1> QED BY <1>1 DEF Splits, Ways

LEMMA SumExists ==
  ASSUME NEW n \in Nat, NEW F, \A i \in 1 .. n : F[i] \in Int, NEW o, Counts(o, n)
  PROVE  \E it : Sums(it, n, F)
<1> DEFINE w == Ways(o, n, F)
<1>1. w = [p \in SUBSET (1 .. n) |-> w[p]]
  BY DEF Ways
<1>2. Splits(w, n, F)
  BY WaysSplit
<1> HIDE DEF w
<1>3. ASSUME NEW p \in SUBSET (1 .. n)
      PROVE  w[p] = IF p = {} THEN 0 ELSE F[AnyOf(p)] + w[p \ {AnyOf(p)}]
  <2>1. p # {} => AnyOf(p) \in p
    BY DEF AnyOf
  <2> QED BY <1>2, <2>1 DEF Splits
<1>4. w = [p \in SUBSET (1 .. n) |-> IF p = {} THEN 0 ELSE F[AnyOf(p)] + w[p \ {AnyOf(p)}]]
  BY <1>1, <1>3
<1> QED BY <1>4 DEF Sums

LEMMA SumIsTotal ==
  ASSUME NEW n \in Nat, NEW F, \A i \in 1 .. n : F[i] \in Int, NEW o, Counts(o, n),
         NEW it, Sums(it, n, F), NEW t, Totals(t, n, Only(o, n, F, 1 .. n))
  PROVE  it[1 .. n] = t[n]
<1> DEFINE T == Ways(o, n, F)
           Good == {c \in 0 .. n : \A p \in SUBSET (1 .. n) : Cardinality(p) = c => it[p] = T[p]}
<1>0. T[{}] = 0 /\ \A p \in SUBSET (1 .. n) : \A x \in p : T[p] = F[x] + T[p \ {x}]
  <2>1. Splits(T, n, F)
    BY WaysSplit
  <2> HIDE DEF T
  <2> QED BY <2>1 DEF Splits
<1>9. t[n] = T[1 .. n]
  <2>1. \A p \in SUBSET (1 .. n) : \A h : Totals(h, n, Only(o, n, F, p)) => h[n] = TotalOf(o, n, F, p)
    BY TotalOfIs
  <2>2. t[n] = TotalOf(o, n, F, 1 .. n)
    BY <2>1
  <2> QED BY <2>2 DEF Ways
<1> HIDE DEF T
<1>1. \A p \in SUBSET (1 .. n) : it[p] = IF p = {} THEN 0 ELSE F[AnyOf(p)] + it[p \ {AnyOf(p)}]
  BY DEF Sums
<1>2. IsFiniteSet(1 .. n) /\ Cardinality(1 .. n) = n
  BY FS_Interval
<1>3. 0 \in Good
  <2> SUFFICES ASSUME NEW p \in SUBSET (1 .. n), Cardinality(p) = 0
               PROVE  it[p] = T[p]
    OBVIOUS
  <2>1. IsFiniteSet(p)
    BY <1>2, FS_Subset
  <2>2. p = {}
    BY <2>1, FS_EmptySet
  <2> QED BY <1>0, <1>1, <2>2
<1>4. ASSUME NEW c \in 1 .. n, c - 1 \in Good
      PROVE  c \in Good
  <2>0. c \in 0 .. n /\ c - 1 \in 0 .. n
    OBVIOUS
  <2> SUFFICES ASSUME NEW p \in SUBSET (1 .. n), Cardinality(p) = c
               PROVE  it[p] = T[p]
    BY <2>0, Zenon
  <2>1. p # {} /\ IsFiniteSet(p)
    <3>1. IsFiniteSet(p)
      BY <1>2, FS_Subset
    <3> QED BY <3>1, FS_EmptySet
  <2> DEFINE x == AnyOf(p)
  <2>2. x \in p
    BY <2>1 DEF AnyOf
  <2> HIDE DEF x
  <2>3. Cardinality(p \ {x}) = c - 1
    BY <2>1, <2>2, FS_RemoveElement
  <2>4. it[p \ {x}] = T[p \ {x}]
    BY <1>4, <2>3
  <2>5. T[p] = F[x] + T[p \ {x}]
    BY <1>0, <2>2
  <2> QED BY <1>1, <2>1, <2>4, <2>5 DEF x
<1> HIDE DEF Good
<1>5. n \in Good
  <2>1. n \in 0 .. n
    OBVIOUS
  <2> QED BY <1>3, <1>4, <2>1, Inductive
<1>6. it[1 .. n] = T[1 .. n]
  BY <1>2, <1>5 DEF Good
<1> QED BY <1>6, <1>9

LEMMA EditIs ==
  ASSUME NEW e \in Edits
  PROVE  /\ e.range.start \in Nat /\ e.range.end \in Nat /\ e.text \in Seq(STRING)
         /\ Len(e.text) \in Nat /\ Cardinality(Bytes(e.range)) \in Nat
         /\ e.range.start <= e.range.end =>
              Cardinality(Bytes(e.range)) = e.range.end - e.range.start
<1>1. e.range.start \in Nat /\ e.range.end \in Nat /\ e.text \in Seq(STRING) /\ Len(e.text) \in Nat
  BY DEF Edits
<1> DEFINE a == e.range.start
           b == e.range.end - 1
<1>2. a \in Int /\ b \in Int /\ Bytes(e.range) = a .. b
  BY <1>1 DEF Bytes
<1> HIDE DEF a, b
<1>3. IsFiniteSet(a .. b) /\ Cardinality(a .. b) = IF a > b THEN 0 ELSE b - a + 1
  BY <1>2, FS_Interval
<1> QED BY <1>1, <1>2, <1>3 DEF a, b

LEMMA ShiftIs ==
  ASSUME NEW given \in Seq(Edits), NEW p \in Int, NEW o, Counts(o, Len(given)),
         NEW h, Totals(h, Len(given), [i \in 1 .. Len(given) |-> Moves(given[o[i]], p)])
  PROVE  Shift(given, p) = h[Len(given)]
<1> DEFINE n == Len(given)
           F == [k \in 1 .. n |-> Moves(given[k], p)]
           it == CHOOSE j : j = [s \in SUBSET (1 .. n) |->
                   IF s = {} THEN 0
                   ELSE Moves(given[CHOOSE x \in s : TRUE], p) + j[s \ {CHOOSE x \in s : TRUE}]]
<1>1. n \in Nat /\ DOMAIN given = 1 .. n
  OBVIOUS
<1>2. Shift(given, p) = it[1 .. n]
  BY <1>1, Zenon DEF Shift, MapThenSumSet, MapThenFoldSet, Moves
<1>3. \A k \in 1 .. n : F[k] = Moves(given[k], p) /\ F[k] \in Int
  <2> TAKE k \in 1 .. n
  <2> DEFINE e == given[k]
  <2>1. e \in Edits
    BY <1>1
  <2> HIDE DEF e
  <2>2. Moves(e, p) \in Int
    BY <2>1, EditIs DEF Moves
  <2> QED BY <2>2 DEF e
<1> HIDE DEF n
<1>4. PICK j : Sums(j, n, F)
  <2> HIDE DEF F
  <2> QED BY <1>1, <1>3, SumExists DEF n
<1>5. j = [s \in SUBSET (1 .. n) |->
             IF s = {} THEN 0
             ELSE Moves(given[CHOOSE x \in s : TRUE], p) + j[s \ {CHOOSE x \in s : TRUE}]]
  <2>1. \A s \in SUBSET (1 .. n) : s # {} => AnyOf(s) \in 1 .. n
    BY DEF AnyOf
  <2> HIDE DEF F
  <2>2. \A s \in SUBSET (1 .. n) : s # {} => F[AnyOf(s)] = Moves(given[AnyOf(s)], p)
    BY <1>3, <2>1
  <2>3. j = [s \in SUBSET (1 .. n) |->
               IF s = {} THEN 0 ELSE F[AnyOf(s)] + j[s \ {AnyOf(s)}]]
    BY <1>4, Zenon DEF Sums
  <2>4. j = [s \in SUBSET (1 .. n) |->
               IF s = {} THEN 0 ELSE Moves(given[AnyOf(s)], p) + j[s \ {AnyOf(s)}]]
    BY <2>2, <2>3
  <2> QED BY <2>4, Zenon DEF AnyOf
<1>6. it = [s \in SUBSET (1 .. n) |->
             IF s = {} THEN 0
             ELSE Moves(given[CHOOSE x \in s : TRUE], p) + it[s \ {CHOOSE x \in s : TRUE}]]
  BY <1>5, Zenon
<1> HIDE DEF it
<1>7. Sums(it, n, F)
  <2>1. \A s \in SUBSET (1 .. n) : s # {} => AnyOf(s) \in 1 .. n
    BY DEF AnyOf
  <2> HIDE DEF F
  <2>2. \A s \in SUBSET (1 .. n) : s # {} => F[AnyOf(s)] = Moves(given[AnyOf(s)], p)
    BY <1>3, <2>1
  <2>3. it = [s \in SUBSET (1 .. n) |->
               IF s = {} THEN 0 ELSE Moves(given[AnyOf(s)], p) + it[s \ {AnyOf(s)}]]
    BY <1>6, Zenon DEF AnyOf
  <2>4. it = [s \in SUBSET (1 .. n) |->
               IF s = {} THEN 0 ELSE F[AnyOf(s)] + it[s \ {AnyOf(s)}]]
    BY <2>2, <2>3
  <2> QED BY <2>4, Zenon DEF Sums
<1>8. Totals(h, n, Only(o, n, F, 1 .. n))
  <2>1. Only(o, n, F, 1 .. n) = [i \in 1 .. n |-> Moves(given[o[i]], p)]
    <3>1. \A i \in 1 .. n : o[i] \in 1 .. n
      BY DEF Counts, n
    <3> HIDE DEF F
    <3> QED BY <1>3, <3>1 DEF Only
  <2> QED BY <2>1 DEF n
<1> HIDE DEF F
<1>9. it[1 .. n] = h[n]
  <2>1. Counts(o, n)
    BY DEF n
  <2>2. \A i \in 1 .. n : F[i] \in Int
    BY <1>3
  <2> QED BY <1>1, <1>7, <1>8, <2>1, <2>2, SumIsTotal
<1> QED BY <1>2, <1>9 DEF n

-----
(* The rewritten prompt: what is between the replacements, each behind the *)
(* end of the last one, and the replacements.                              *)

LEMMA SliceIs ==
  ASSUME NEW input \in Seq(STRING), NEW a \in Nat, NEW b \in Nat, a <= b, b <= Len(input)
  PROVE  /\ SubSeq(input, a + 1, b) \in Seq(STRING) /\ Len(SubSeq(input, a + 1, b)) = b - a
         /\ \A k \in 1 .. b - a : SubSeq(input, a + 1, b)[k] = input[a + k]
OBVIOUS

LEMMA CursorIs ==
  ASSUME NEW n \in Nat, NEW s, NEW len \in Nat, Chained(s, n, len), NEW k \in 1 .. n + 1
  PROVE  CursorAt(s, k) \in Nat /\ CursorAt(s, k) <= len
<1>1. CASE k = 1
  BY <1>1 DEF CursorAt
<1>2. CASE k # 1
  <2>1. k - 1 \in 1 .. n
    BY <1>2
  <2> DEFINE e == s[k - 1]
  <2>2. e \in Edits /\ e.range.end <= len
    BY <2>1 DEF Chained
  <2>3. CursorAt(s, k) = e.range.end
    BY <1>2 DEF CursorAt
  <2> HIDE DEF e
  <2> QED BY <2>2, <2>3, EditIs
<1> QED BY <1>1, <1>2

LEMMA SplicedRuns ==
  ASSUME NEW n \in Nat, NEW input \in Seq(STRING), NEW s, Chained(s, n, Len(input))
  PROVE  \E g : Pasted(g, s, n, input) /\ g[n] = Spliced(s, input)
<1> DEFINE A == Seq(STRING)
           Add(a, i) == a \o SubSeq(input, CursorAt(s, i) + 1, s[i].range.start) \o s[i].text
           F == [x \in A \X (1 .. n) |-> Add(x[1], x[2])]
           places == [k \in 1 .. n |-> k]
           it == CHOOSE j : j = [p \in SUBSET (1 .. n) |->
                   IF p = {} THEN <<>> ELSE Add(j[p \ {Max(p)}], places[Max(p)])]
<1>1. DOMAIN s = 1 .. n
  BY DEF Chained
<1>2. Spliced(s, input) = it[1 .. n]
  <2>1. Spliced(s, input) = FoldLeft(LAMBDA a, k : Add(a, k), <<>>, places)
    BY <1>1, Zenon DEF Spliced
  <2>2. DOMAIN places = 1 .. n
    OBVIOUS
  <2> HIDE DEF places
  <2> QED BY <2>1, <2>2, Zenon DEF FoldLeft, MapThenFoldSet
<1>3. \A a \in A : \A i \in 1 .. n : F[<<a, i>>] = Add(a, i) /\ F[<<a, i>>] \in A
  <2> TAKE a \in A
  <2> TAKE i \in 1 .. n
  <2> DEFINE e == s[i]
             c == CursorAt(s, i)
  <2>1. e \in Edits /\ c <= e.range.start /\ e.range.start <= e.range.end /\ e.range.end <= Len(input)
    BY DEF Chained
  <2>2. c \in Nat
    <3>1. Len(input) \in Nat /\ i \in 1 .. n + 1
      OBVIOUS
    <3> QED BY <3>1, CursorIs
  <2> HIDE DEF e, c
  <2>3. e.range.start \in Nat /\ e.text \in A /\ e.range.end \in Nat
    BY <2>1, EditIs
  <2>4. SubSeq(input, c + 1, e.range.start) \in A
    <3>1. e.range.start <= Len(input)
      BY <2>1, <2>3
    <3> QED BY <2>1, <2>2, <2>3, <3>1, SliceIs
  <2>5. a \o SubSeq(input, c + 1, e.range.start) \o e.text \in A
    BY <2>3, <2>4
  <2> QED BY <2>5 DEF e, c
<1>4. <<>> \in A
  OBVIOUS
<1> HIDE DEF F, A
<1>5. PICK j \in [SUBSET (1 .. n) -> A] : Folds(j, n, <<>>, F)
  BY <1>3, <1>4, FoldIn
<1>6. \A p \in SUBSET (1 .. n) : p # {} =>
         Max(p) \in 1 .. n /\ places[Max(p)] = Max(p) /\ j[p \ {Max(p)}] \in A
  <2> TAKE p \in SUBSET (1 .. n)
  <2> HAVE p # {}
  <2>1. Max(p) \in 1 .. n
    BY MaxIs
  <2> QED BY <1>5, <2>1
<1> HIDE DEF Add, places
<1>7. j = [p \in SUBSET (1 .. n) |-> IF p = {} THEN <<>> ELSE Add(j[p \ {Max(p)}], places[Max(p)])]
  <2>1. \A p \in SUBSET (1 .. n) : p # {} =>
          F[<<j[p \ {Max(p)}], Max(p)>>] = Add(j[p \ {Max(p)}], places[Max(p)])
    BY <1>3, <1>6
  <2>2. j = [p \in SUBSET (1 .. n) |-> IF p = {} THEN <<>> ELSE F[<<j[p \ {Max(p)}], Max(p)>>]]
    BY <1>5, Zenon DEF Folds
  <2>3. [p \in SUBSET (1 .. n) |-> IF p = {} THEN <<>> ELSE F[<<j[p \ {Max(p)}], Max(p)>>]]
          = [p \in SUBSET (1 .. n) |-> IF p = {} THEN <<>> ELSE Add(j[p \ {Max(p)}], places[Max(p)])]
    BY <2>1
  <2> QED BY <2>2, <2>3, Zenon
<1>8. it = [p \in SUBSET (1 .. n) |-> IF p = {} THEN <<>> ELSE Add(it[p \ {Max(p)}], places[Max(p)])]
  BY <1>7
<1> HIDE DEF it
<1>9. Stays(F, A, n) /\ Follows(it, n, A, <<>>, F)
  <2>1. Stays(F, A, n)
    BY <1>3 DEF Stays
  <2>2. it[{}] = <<>>
    BY <1>8
  <2>3. ASSUME NEW p \in SUBSET (1 .. n), p # {}, it[p \ {Max(p)}] \in A
        PROVE  it[p] = F[<<it[p \ {Max(p)}], Max(p)>>]
    <3> DEFINE a == it[p \ {Max(p)}]
    <3>1. it[p] = Add(a, places[Max(p)])
      BY <1>8, <2>3
    <3>2. Max(p) \in 1 .. n /\ places[Max(p)] = Max(p)
      BY <1>6, <2>3
    <3> HIDE DEF a
    <3>3. F[<<a, Max(p)>>] = Add(a, Max(p))
      BY <1>3, <2>3, <3>2 DEF a
    <3> QED BY <3>1, <3>2, <3>3 DEF a
  <2> QED BY <2>1, <2>2, <2>3 DEF Follows
<1>10. PICK g \in [0 .. n -> A] : g[n] = it[1 .. n] /\ IsRun(g, n, <<>>, F)
  BY <1>4, <1>9, FoldRun
<1>11. \A i \in 1 .. n : g[i] = Add(g[i - 1], i)
  <2> TAKE i \in 1 .. n
  <2>1. g[i - 1] \in A
    OBVIOUS
  <2> QED BY <1>3, <1>10, <2>1 DEF IsRun
<1>12. Pasted(g, s, n, input)
  BY <1>10, <1>11 DEF Pasted, IsRun, Add, A
<1> QED BY <1>2, <1>10, <1>12

LEMMA GainIs ==
  ASSUME NEW e \in Edits
  PROVE  Gain(e) \in Int
<1> DEFINE l == Len(e.text)
           a == e.range.start
           b == e.range.end
<1>1. l \in Nat /\ a \in Nat /\ b \in Nat
  BY EditIs
<1>2. Gain(e) = l - (b - a)
  BY DEF Gain
<1> HIDE DEF l, a, b
<1> QED BY <1>1, <1>2

LEMMA ThreeJoined ==
  ASSUME NEW S, NEW a \in Seq(S), NEW b \in Seq(S), NEW c \in Seq(S)
  PROVE  /\ a \o b \o c \in Seq(S) /\ Len(a \o b \o c) = Len(a) + Len(b) + Len(c)
         /\ \A k \in 1 .. Len(a) : (a \o b \o c)[k] = a[k]
         /\ \A k \in 1 .. Len(b) : (a \o b \o c)[Len(a) + k] = b[k]
OBVIOUS

LEMMA TwoJoined ==
  ASSUME NEW S, NEW a \in Seq(S), NEW b \in Seq(S)
  PROVE  /\ a \o b \in Seq(S) /\ Len(a \o b) = Len(a) + Len(b)
         /\ \A k \in 1 .. Len(a) : (a \o b)[k] = a[k]
         /\ \A k \in 1 .. Len(b) : (a \o b)[Len(a) + k] = b[k]
OBVIOUS

LEMMA PastedPlaced ==
  ASSUME NEW n \in Nat, NEW input \in Seq(STRING), NEW s, Chained(s, n, Len(input)),
         NEW g, Pasted(g, s, n, input), NEW h, Totals(h, n, [i \in 1 .. n |-> Gain(s[i])])
  PROVE  Len(g[n]) = CursorAt(s, n + 1) + h[n] /\ Placed(g[n], s, n, h, input, n)
<1> DEFINE len == Len(input)
           Long(i) == Len(g[i]) = CursorAt(s, i + 1) + h[i]
           Good == {i \in 0 .. n : Long(i) /\ Placed(g[i], s, n, h, input, i)}
<1>1. len \in Nat
  OBVIOUS
<1>2. 0 \in Good
  <2>1. g[0] = <<>> /\ h[0] = 0 /\ CursorAt(s, 0 + 1) = 0
    BY DEF Pasted, Totals, CursorAt
  <2>2. Placed(g[0], s, n, h, input, 0)
    BY DEF Placed
  <2> QED BY <2>1, <2>2
<1>3. ASSUME NEW i \in 1 .. n, i - 1 \in Good
      PROVE  i \in Good
  <2> DEFINE a == g[i - 1]
             c == CursorAt(s, i)
             e == s[i]
             b == SubSeq(input, c + 1, e.range.start)
             d == h[i - 1]
             r == g[i]
  <2>1. a \in Seq(STRING) /\ r = a \o b \o e.text
    <3>1. g \in [0 .. n -> Seq(STRING)] /\ i - 1 \in 0 .. n
      BY DEF Pasted
    <3>2. a \in Seq(STRING)
      BY <3>1
    <3>3. r = a \o b \o e.text
      BY Zenon DEF Pasted
    <3> QED BY <3>2, <3>3
  <2>2. d \in Int /\ h[i] = d + Gain(e)
    BY DEF Totals
  <2>3. /\ e \in Edits /\ c <= e.range.start /\ e.range.start <= e.range.end
        /\ e.range.end <= len
    BY DEF Chained
  <2>4. Len(a) = c + d /\ Placed(a, s, n, h, input, i - 1)
    <3>1. (i - 1) + 1 = i
      OBVIOUS
    <3> QED BY <1>3, <3>1
  <2>5. CursorAt(s, i + 1) = e.range.end
    <3>1. i + 1 # 1 /\ (i + 1) - 1 = i
      OBVIOUS
    <3> QED BY <3>1 DEF CursorAt
  <2>6. c \in Nat
    <3>1. i \in 1 .. n + 1
      OBVIOUS
    <3> HIDE DEF len
    <3> QED BY <1>1, <3>1, CursorIs DEF len
  <2>7. /\ e.range.start \in Nat /\ e.range.end \in Nat /\ e.text \in Seq(STRING)
        /\ Len(e.text) \in Nat
    BY <2>3, EditIs
  <2>8. /\ b \in Seq(STRING) /\ Len(b) = e.range.start - c
        /\ \A k \in 1 .. e.range.start - c : b[k] = input[c + k]
    <3> HIDE DEF c, e
    <3>1. e.range.start <= len
      BY <1>1, <2>3, <2>7
    <3> QED BY <2>3, <2>6, <2>7, <3>1, SliceIs
  <2> HIDE DEF b
  <2>9. /\ Len(r) = Len(a) + Len(b) + Len(e.text)
        /\ \A k \in 1 .. Len(a) : r[k] = a[k]
        /\ \A k \in 1 .. Len(b) : r[Len(a) + k] = b[k]
    <3> DEFINE t == e.text
    <3>1. a \in Seq(STRING) /\ b \in Seq(STRING) /\ t \in Seq(STRING) /\ r = a \o b \o t
      BY <2>1, <2>7, <2>8
    <3> HIDE DEF a, r, t
    <3>2. /\ Len(a \o b \o t) = Len(a) + Len(b) + Len(t)
          /\ \A k \in 1 .. Len(a) : (a \o b \o t)[k] = a[k]
          /\ \A k \in 1 .. Len(b) : (a \o b \o t)[Len(a) + k] = b[k]
      BY <3>1, ThreeJoined
    <3> QED BY <3>1, <3>2, Zenon DEF t
  <2>10. Gain(e) = Len(e.text) - (e.range.end - e.range.start)
    BY DEF Gain
  <2>11. Long(i)
    <3> HIDE DEF a, c, e, d, r
    <3> DEFINE x == e.range.start
               y == e.range.end
               z == Len(e.text)
               l == Len(a)
               w == Len(b)
    <3>1. Len(r) = l + w + z /\ l = c + d /\ w = x - c
      BY <2>4, <2>8, <2>9
    <3>2. h[i] = d + (z - (y - x)) /\ d \in Int
      BY <2>2, <2>10
    <3>3. c \in Int /\ x \in Int /\ y \in Int /\ z \in Int
      BY <2>6, <2>7
    <3> HIDE DEF x, y, z, l, w
    <3>4. Len(r) = y + h[i]
      BY <3>1, <3>2, <3>3
    <3> QED BY <2>5, <3>4 DEF r, e, y
  <2>12. ASSUME NEW m \in 0 .. n, NEW q \in 1 .. len, m < i, LiesBetween(s, n, m, q)
         PROVE  q + h[m] \in 1 .. Len(r) /\ r[q + h[m]] = input[q]
    <3>1. CASE m < i - 1
      <4>1. q + h[m] \in 1 .. Len(a) /\ a[q + h[m]] = input[q]
        BY <2>4, <2>12, <3>1 DEF Placed
      <4> HIDE DEF a, c, e, d, r
      <4>2. Len(a) <= Len(r) /\ Len(a) \in Int /\ Len(r) \in Int
        <5>1. Len(a) \in Nat /\ Len(b) \in Nat
          BY <2>1, <2>8
        <5> DEFINE z == Len(e.text)
                   l == Len(a)
                   w == Len(b)
        <5>2. Len(r) = l + w + z /\ l \in Nat /\ w \in Nat /\ z \in Nat
          BY <2>7, <2>9, <5>1
        <5> HIDE DEF z, l, w
        <5> QED BY <5>2 DEF l
      <4> DEFINE x == q + h[m]
      <4>3. x \in 1 .. Len(a) /\ a[x] = input[q]
        BY <4>1
      <4> HIDE DEF x
      <4>4. r[x] = a[x]
        BY <2>9, <4>3
      <4>5. x \in 1 .. Len(r)
        BY <4>2, <4>3
      <4> QED BY <4>3, <4>4, <4>5 DEF x
    <3>2. CASE m = i - 1
      <4>1. h[m] = d /\ c < q /\ q <= e.range.start
        <5>1. m + 1 = i /\ m < n
          BY <3>2
        <5> QED BY <2>12, <3>2, <5>1 DEF LiesBetween
      <4> HIDE DEF a, c, e, d, r
      <4>2. q - c \in 1 .. Len(b) /\ q - c \in 1 .. e.range.start - c /\ c + (q - c) = q
        BY <2>6, <2>7, <2>8, <4>1
      <4>3. r[Len(a) + (q - c)] = input[q]
        BY <2>8, <2>9, <4>2
      <4>4. Len(a) + (q - c) = q + h[m]
        BY <2>2, <2>4, <2>6, <4>1
      <4>5. Len(a) \in Nat
        BY <2>1
      <4>6. q + h[m] \in 1 .. Len(r)
        <5> DEFINE l == Len(a)
                   w == Len(b)
                   z == Len(e.text)
                   k == q - c
        <5>1. Len(r) = l + w + z
          BY <2>9
        <5>2. l \in Nat /\ w \in Nat /\ z \in Nat /\ k \in 1 .. w
          BY <2>7, <2>8, <4>2, <4>5
        <5> HIDE DEF l, w, z, k
        <5>3. l + k \in 1 .. Len(r)
          BY <5>1, <5>2
        <5> QED BY <4>4, <5>3 DEF l, k
      <4> QED BY <4>3, <4>4, <4>6
    <3> QED BY <2>12, <3>1, <3>2
  <2>13. Placed(r, s, n, h, input, i)
    BY <2>12 DEF Placed
  <2>14. i \in 0 .. n
    OBVIOUS
  <2> HIDE DEF Long
  <2> QED BY <2>11, <2>13, <2>14
<1> HIDE DEF Good, Long
<1>4. n \in Good
  <2>1. n \in 0 .. n
    OBVIOUS
  <2> QED BY <1>2, <1>3, <2>1, Inductive
<1> QED BY <1>4 DEF Good, Long

(* What comes behind the last replacement has all that was gained.         *)
LEMMA RestPlaced ==
  ASSUME NEW n \in Nat, NEW input \in Seq(STRING), NEW s, Chained(s, n, Len(input)),
         NEW h, Totals(h, n, [i \in 1 .. n |-> Gain(s[i])])
  PROVE  LET made == Spliced(s, input) \o SubSeq(input, CursorAt(s, n + 1) + 1, Len(input))
         IN  /\ made \in Seq(STRING) /\ Len(made) = Len(input) + h[n]
             /\ Placed(made, s, n, h, input, n + 1)
<1>1. PICK g : Pasted(g, s, n, input) /\ g[n] = Spliced(s, input)
  BY SplicedRuns
<1> DEFINE a == Spliced(s, input)
           c == CursorAt(s, n + 1)
           b == SubSeq(input, c + 1, Len(input))
           r == a \o b
<1>2. a \in Seq(STRING) /\ Len(a) = c + h[n] /\ Placed(a, s, n, h, input, n)
  <2>1. a \in Seq(STRING)
    BY <1>1 DEF Pasted
  <2>2. Len(g[n]) = c + h[n] /\ Placed(g[n], s, n, h, input, n)
    BY <1>1, PastedPlaced
  <2> QED BY <1>1, <2>1, <2>2
<1>3. c \in Nat /\ c <= Len(input) /\ Len(input) \in Nat
  <2>1. Len(input) \in Nat /\ n + 1 \in 1 .. n + 1
    OBVIOUS
  <2> QED BY <2>1, CursorIs
<1>4. h[n] \in Int
  BY DEF Totals
<1> HIDE DEF a, c
<1>5. b \in Seq(STRING) /\ Len(b) = Len(input) - c /\ \A k \in 1 .. Len(input) - c : b[k] = input[c + k]
  BY <1>3, SliceIs
<1> HIDE DEF b
<1>6. /\ r \in Seq(STRING) /\ Len(r) = Len(a) + Len(b)
      /\ \A k \in 1 .. Len(a) : r[k] = a[k]
      /\ \A k \in 1 .. Len(b) : r[Len(a) + k] = b[k]
  <2>1. a \in Seq(STRING) /\ b \in Seq(STRING)
    BY <1>2, <1>5
  <2>2. /\ a \o b \in Seq(STRING) /\ Len(a \o b) = Len(a) + Len(b)
        /\ \A k \in 1 .. Len(a) : (a \o b)[k] = a[k]
        /\ \A k \in 1 .. Len(b) : (a \o b)[Len(a) + k] = b[k]
    BY <2>1
  <2> QED BY <2>2, Zenon
<1> HIDE DEF r
<1>7. Len(r) = Len(input) + h[n]
  BY <1>2, <1>3, <1>4, <1>5, <1>6
<1>8. ASSUME NEW m \in 0 .. n, NEW q \in 1 .. Len(input), m < n + 1, LiesBetween(s, n, m, q)
      PROVE  q + h[m] \in 1 .. Len(r) /\ r[q + h[m]] = input[q]
  <2> DEFINE x == q + h[m]
  <2>1. CASE m < n
    <3>1. x \in 1 .. Len(a) /\ a[x] = input[q]
      BY <1>2, <1>8, <2>1 DEF Placed
    <3> HIDE DEF x
    <3>2. Len(a) \in Nat /\ Len(b) \in Nat
      BY <1>2, <1>5
    <3>3. x \in 1 .. Len(r) /\ r[x] = a[x]
      BY <1>6, <3>1, <3>2
    <3> QED BY <3>1, <3>3 DEF x
  <2>2. CASE m = n
    <3>1. c < q
      BY <1>8, <2>2 DEF LiesBetween, c
    <3>2. q - c \in 1 .. Len(b) /\ q - c \in 1 .. Len(input) - c /\ c + (q - c) = q
      BY <1>3, <1>5, <3>1
    <3>3. r[Len(a) + (q - c)] = input[q]
      BY <1>5, <1>6, <3>2
    <3>4. Len(a) + (q - c) = x
      BY <1>2, <1>3, <1>4, <2>2
    <3>5. x \in 1 .. Len(r)
      BY <1>2, <1>5, <1>6, <3>2, <3>4
    <3> QED BY <3>3, <3>4, <3>5
  <2> QED BY <2>1, <2>2
<1>9. Placed(r, s, n, h, input, n + 1)
  BY <1>8 DEF Placed
<1> QED BY <1>6, <1>7, <1>9 DEF r, a, b, c

-----
(* A byte that no replacement has lies between two of them; those before   *)
(* it are the first ones, and their gains are how far it is moved.         *)

LEMMA CountsAll ==
  ASSUME NEW given \in Seq(Edits), NEW s, NEW o, Arranged(s, given, o)
  PROVE  Counts(o, Len(given))
<1> DEFINE n == Len(given)
           Start(k) == s[k].range.start
<1>1. n \in Nat
  OBVIOUS
<1>2. \A k \in 1 .. n : Start(k) \in Nat
  <2> TAKE k \in 1 .. n
  <2>1. s[k] \in Edits
    BY DEF Arranged
  <2> HIDE DEF n
  <2> QED BY <2>1, EditIs
<1>3. /\ o \in [1 .. n -> 1 .. n] /\ \A i \in 1 .. n : \E k \in 1 .. n : o[k] = i
  BY DEF Arranged
<1>4. \A j, k \in 1 .. n : j < k => o[j] # o[k]
  <2> TAKE j, k \in 1 .. n
  <2> HAVE j < k
  <2>1. s[j] = given[o[j]] /\ s[k] = given[o[k]]
    BY DEF Arranged
  <2>2. Start(j) < Start(k) \/ (Start(j) = Start(k) /\ o[j] < o[k])
    BY DEF Arranged
  <2>3. o[j] \in Int /\ o[k] \in Int /\ Start(j) \in Int /\ Start(k) \in Int
    <3> HIDE DEF n, Start
    <3> QED BY <1>1, <1>2, <1>3
  <2> SUFFICES ASSUME o[j] = o[k] PROVE FALSE
    OBVIOUS
  <2>4. Start(j) = Start(k)
    BY <2>1
  <2> HIDE DEF Start
  <2> QED BY <2>2, <2>3, <2>4
<1> HIDE DEF n
<1>5. \A j, k \in 1 .. n : j # k => o[j] # o[k]
  <2> TAKE j, k \in 1 .. n
  <2> HAVE j # k
  <2>1. j < k \/ k < j
    OBVIOUS
  <2> QED BY <1>4, <2>1
<1> QED BY <1>3, <1>5 DEF Counts, n

LEMMA RowIs ==
  ASSUME NEW given \in Seq(Edits), NEW s, NEW o, Arranged(s, given, o), NEW len \in Nat,
         Chained(s, Len(given), len)
  PROVE  InRow(s, Len(given)) /\ Counts(o, Len(given))
<1> DEFINE n == Len(given)
           Start(k) == s[k].range.start
           End(k) == s[k].range.end
<1>1. n \in Nat
  OBVIOUS
<1>2. \A k \in 1 .. n : /\ Start(k) \in Nat /\ End(k) \in Nat /\ CursorAt(s, k) <= Start(k)
  <2> TAKE k \in 1 .. n
  <2> DEFINE e == s[k]
  <2>1. e \in Edits /\ CursorAt(s, k) <= e.range.start
    BY DEF Chained
  <2> HIDE DEF e
  <2>2. e.range.start \in Nat /\ e.range.end \in Nat
    BY <2>1, EditIs
  <2> QED BY <2>1, <2>2 DEF e
<1>3. \A j \in 1 .. n - 1 : CursorAt(s, j + 1) = End(j)
  <2> TAKE j \in 1 .. n - 1
  <2>1. j + 1 # 1 /\ (j + 1) - 1 = j
    OBVIOUS
  <2> QED BY <2>1 DEF CursorAt
<1>4. \A j, k \in 1 .. n : j < k => Start(j) <= Start(k)
  <2>1. \A j, k \in 1 .. n : j < k => Start(j) < Start(k) \/ Start(j) = Start(k)
    BY DEF Arranged
  <2> HIDE DEF n, Start
  <2> QED BY <1>2, <2>1
<1>5. Counts(o, n)
  BY CountsAll
<1> HIDE DEF n, Start, End
<1>6. ASSUME NEW j \in 1 .. n, NEW k \in 1 .. n, j < k
      PROVE  End(j) <= Start(k)
  <2>1. j \in 1 .. n - 1 /\ j + 1 \in 1 .. n /\ (j + 1 = k \/ j + 1 < k)
    BY <1>1, <1>6
  <2>2. End(j) <= Start(j + 1)
    BY <1>2, <1>3, <2>1
  <2>3. Start(j + 1) <= Start(k)
    BY <1>2, <1>4, <2>1
  <2> QED BY <1>2, <2>1, <2>2, <2>3
<1>7. InRow(s, n)
  BY <1>6 DEF InRow, Start, End
<1> QED BY <1>5, <1>7 DEF n

LEMMA KeptBetween ==
  ASSUME NEW n \in Nat, NEW s, NEW len \in Nat, Chained(s, n, len), InRow(s, n),
         NEW q \in 1 .. len, \A k \in 1 .. n : q - 1 \notin Bytes(s[k].range)
  PROVE  \E m \in 0 .. n : LiesBetween(s, n, m, q) /\ EndsBy(s, n, m, q - 1)
<1> DEFINE Start(k) == s[k].range.start
           End(k) == s[k].range.end
           B == {k \in 1 .. n : End(k) <= q - 1}
           m == IF B = {} THEN 0 ELSE Max(B)
<1>1. \A k \in 1 .. n : /\ Start(k) \in Nat /\ End(k) \in Nat /\ Start(k) <= End(k)
                        /\ ~(Start(k) <= q - 1 /\ q - 1 < End(k))
  <2> TAKE k \in 1 .. n
  <2> DEFINE e == s[k]
  <2>1. e \in Edits /\ e.range.start <= e.range.end /\ q - 1 \notin Bytes(e.range)
    BY DEF Chained
  <2> HIDE DEF e
  <2>2. e.range.start \in Nat /\ e.range.end \in Nat
    BY <2>1, EditIs
  <2>3. ~(e.range.start <= q - 1 /\ q - 1 < e.range.end)
    BY <2>1, <2>2 DEF Bytes
  <2> QED BY <2>1, <2>2, <2>3 DEF e
<1>2. \A j, k \in 1 .. n : j < k => End(j) <= Start(k)
  BY DEF InRow
<1>3. \A j \in 1 .. n : CursorAt(s, j + 1) = End(j)
  <2> TAKE j \in 1 .. n
  <2>1. j + 1 # 1 /\ (j + 1) - 1 = j
    OBVIOUS
  <2> QED BY <2>1 DEF CursorAt
<1>4. CursorAt(s, 0 + 1) = 0
  BY DEF CursorAt
<1> HIDE DEF Start, End
<1>5. /\ m \in 0 .. n /\ (m # 0 => End(m) <= q - 1)
      /\ \A k \in 1 .. n : End(k) <= q - 1 => k <= m
  <2>1. CASE B = {}
    BY <2>1
  <2>2. CASE B # {}
    <3>1. B \subseteq 1 .. n
      OBVIOUS
    <3> HIDE DEF B
    <3>2. Max(B) \in B /\ \A y \in B : y <= Max(B)
      BY <2>2, <3>1, MaxIs
    <3> QED BY <2>2, <3>2 DEF B
  <2> QED BY <2>1, <2>2
<1> HIDE DEF m, B
<1>6. \A k \in 1 .. n : k <= m => End(k) <= q - 1
  <2> TAKE k \in 1 .. n
  <2> HAVE k <= m
  <2>1. m # 0 /\ m \in 1 .. n
    BY <1>5
  <2>2. CASE k = m
    BY <1>5, <2>1, <2>2
  <2>3. CASE k < m
    <3>1. End(k) <= Start(m) /\ Start(m) <= End(m) /\ End(m) <= q - 1
      BY <1>1, <1>2, <1>5, <2>1, <2>3
    <3> QED BY <1>1, <2>1, <3>1
  <2> QED BY <1>5, <2>2, <2>3
<1>7. EndsBy(s, n, m, q - 1)
  BY <1>5, <1>6 DEF EndsBy, End
<1>8. CursorAt(s, m + 1) < q
  <2>1. CASE m = 0
    BY <1>4, <2>1
  <2>2. CASE m # 0
    <3>1. m \in 1 .. n
      BY <1>5, <2>2
    <3>2. CursorAt(s, m + 1) = End(m) /\ End(m) <= q - 1 /\ End(m) \in Nat
      BY <1>1, <1>3, <1>5, <2>2, <3>1
    <3> QED BY <3>2
  <2> QED BY <2>1, <2>2
<1>9. m < n => q <= s[m + 1].range.start
  <2> HAVE m < n
  <2>1. m + 1 \in 1 .. n /\ ~(m + 1 <= m)
    BY <1>5
  <2>2. ~(End(m + 1) <= q - 1)
    BY <1>5, <2>1
  <2>3. ~(Start(m + 1) <= q - 1)
    BY <1>1, <2>1, <2>2
  <2>4. q <= Start(m + 1)
    BY <1>1, <2>1, <2>3
  <2> QED BY <2>4 DEF Start
<1> QED BY <1>5, <1>7, <1>8, <1>9 DEF LiesBetween

LEMMA ShiftedBy ==
  ASSUME NEW given \in Seq(Edits), NEW s, NEW o, Arranged(s, given, o), Counts(o, Len(given)),
         NEW len \in Nat, Chained(s, Len(given), len),
         NEW h, Totals(h, Len(given), [i \in 1 .. Len(given) |-> Gain(s[i])]),
         NEW p \in Int, NEW m \in 0 .. Len(given), EndsBy(s, Len(given), m, p)
  PROVE  Shift(given, p) = h[m]
<1> DEFINE n == Len(given)
           F == [i \in 1 .. n |-> Moves(given[o[i]], p)]
<1>1. n \in Nat
  OBVIOUS
<1>2. \A i \in 1 .. n : F[i] \in Int /\ F[i] = IF i <= m THEN Gain(s[i]) ELSE 0
  <2> TAKE i \in 1 .. n
  <2> DEFINE e == s[i]
  <2>1. F[i] = Moves(e, p) /\ e \in Edits /\ e.range.start <= e.range.end
        /\ (e.range.end <= p <=> i <= m)
    BY DEF Arranged, Chained, EndsBy
  <2> HIDE DEF e, F
  <2>2. Cardinality(Bytes(e.range)) = e.range.end - e.range.start
    BY <2>1, EditIs
  <2>3. e.range.end \in Nat /\ e.range.start \in Nat /\ Len(e.text) \in Nat
    BY <2>1, EditIs
  <2>4. Moves(e, p) = IF i <= m THEN Gain(e) ELSE 0
    BY <2>1, <2>2, <2>3 DEF Moves, Gain
  <2>5. Gain(e) \in Int
    BY <2>3 DEF Gain
  <2> QED BY <2>1, <2>4, <2>5 DEF e
<1> HIDE DEF n, F
<1>3. PICK t : Totals(t, n, F)
  BY <1>1, <1>2, TotalExists
<1>4. Shift(given, p) = t[n]
  BY <1>3, ShiftIs DEF n, F
<1>5. /\ \A i \in 0 .. n : h[i] \in Int /\ t[i] \in Int
      /\ h[0] = 0 /\ t[0] = 0
      /\ \A i \in 1 .. n : h[i] = h[i - 1] + Gain(s[i]) /\ t[i] = t[i - 1] + F[i]
  BY <1>3 DEF Totals, n
<1> DEFINE Good == {i \in 0 .. n : t[i] = h[IF i <= m THEN i ELSE m]}
<1>6. 0 \in Good
  BY <1>1, <1>5 DEF n
<1>7. ASSUME NEW i \in 1 .. n, i - 1 \in Good
      PROVE  i \in Good
  <2>1. t[i] = t[i - 1] + F[i] /\ t[i - 1] = h[IF i - 1 <= m THEN i - 1 ELSE m] /\ i \in 0 .. n
        /\ m \in 0 .. n
    BY <1>5, <1>7 DEF n
  <2>2. CASE i <= m
    <3>1. F[i] = Gain(s[i]) /\ t[i - 1] = h[i - 1]
      BY <1>1, <1>2, <2>1, <2>2
    <3> QED BY <1>5, <2>1, <2>2, <3>1
  <2>3. CASE i > m
    <3>1. F[i] = 0 /\ t[i - 1] = h[m]
      <4>1. ~(i <= m) /\ (i - 1 <= m => i - 1 = m)
        BY <1>1, <2>1, <2>3
      <4> QED BY <1>2, <2>1, <4>1
    <3>2. t[i] = h[m] /\ ~(i <= m)
      BY <1>5, <2>1, <2>3, <3>1
    <3> QED BY <2>1, <3>2
  <2> QED BY <1>1, <2>1, <2>2, <2>3
<1> HIDE DEF Good
<1>8. n \in Good
  <2>1. n \in 0 .. n
    BY <1>1
  <2> QED BY <1>1, <1>6, <1>7, <2>1, Inductive
<1>9. t[n] = h[m]
  <2>1. m \in 0 .. n /\ (n <= m => n = m)
    BY <1>1 DEF n
  <2> QED BY <1>1, <1>8, <2>1 DEF Good
<1> QED BY <1>4, <1>9

-----------------------------------------------------------------------------
-----
(* The replacements of a call: a rewrite has no problem with any of them,  *)
(* and where none is wrong there is no error.                              *)

LEMMA ProblemIs ==
  ASSUME NEW input, NEW zone, NEW s, NEW n, NEW k \in 1 .. n
  PROVE  Problem(input, zone, s, k) = "none" <=>
           /\ IsValidFor(s[k].range, input) /\ ~Overlaps(s[k].range, zone.frozen_prefix)
           /\ \E block \in zone.mutable_blocks : Holds(block, s[k].range)
           /\ k > 1 => ~Overlaps(s[k - 1].range, s[k].range)
<1> DEFINE a == IsValidFor(s[k].range, input)
           b == Overlaps(s[k].range, zone.frozen_prefix)
           c == \E block \in zone.mutable_blocks : Holds(block, s[k].range)
           d == k > 1 /\ Overlaps(s[k - 1].range, s[k].range)
<1>1. Problem(input, zone, s, k) =
        CASE ~a -> "InvalidRange" [] b -> "FrozenRangeModified"
          [] ~c -> "ReplacementOutsideMutableBlock" [] d -> "OverlappingReplacements"
          [] OTHER -> "none"
  BY DEF Problem
<1> HIDE DEF a, b, c, d
<1>2. Problem(input, zone, s, k) = "none" <=> a /\ ~b /\ c /\ ~d
  <2>1. CASE ~a
    BY <1>1, <2>1
  <2>2. CASE a /\ b
    BY <1>1, <2>2
  <2>3. CASE a /\ ~b /\ ~c
    BY <1>1, <2>3
  <2>4. CASE a /\ ~b /\ c /\ d
    BY <1>1, <2>4
  <2>5. CASE a /\ ~b /\ c /\ ~d
    BY <1>1, <2>5
  <2> QED BY <2>1, <2>2, <2>3, <2>4, <2>5
<1> QED BY <1>2 DEF a, b, c, d

LEMMA CleanWhereAllowed ==
  ASSUME NEW given \in Seq(Edits), NEW s, NEW o, Arranged(s, given, o), Counts(o, Len(given)),
         NEW input, NEW zone, MayReplace(input, zone, given)
  PROVE  Clean(input, zone, s, Len(given))
<1> DEFINE n == Len(given)
<1>1. n \in Nat /\ DOMAIN given = 1 .. n
  OBVIOUS
<1>2. \A k \in 1 .. n : /\ IsValidFor(given[k].range, input)
                        /\ ~Overlaps(given[k].range, zone.frozen_prefix)
                        /\ \E block \in zone.mutable_blocks : Holds(block, given[k].range)
                        /\ \A j \in 1 .. k - 1 : ~Overlaps(given[j].range, given[k].range)
  BY <1>1 DEF MayReplace
<1>3. \A k \in 1 .. n : s[k] = given[o[k]]
  BY DEF Arranged
<1>4. Counts(o, n)
  BY DEF n
<1> HIDE DEF n
<1>5. ASSUME NEW k \in 1 .. n
      PROVE  /\ IsValidFor(s[k].range, input) /\ ~Overlaps(s[k].range, zone.frozen_prefix)
             /\ \E block \in zone.mutable_blocks : Holds(block, s[k].range)
  <2>1. o[k] \in 1 .. n
    BY <1>4 DEF Counts
  <2> QED BY <1>2, <1>3, <2>1
<1>6. ASSUME NEW k \in 1 .. n, k > 1
      PROVE  ~Overlaps(s[k - 1].range, s[k].range)
  <2> DEFINE a == o[k - 1]
             b == o[k]
  <2>1. k - 1 \in 1 .. n /\ k - 1 # k
    BY <1>1, <1>6
  <2>2. a \in 1 .. n /\ b \in 1 .. n /\ a # b
    BY <1>4, <2>1 DEF Counts
  <2> HIDE DEF a, b
  <2>3. a \in 1 .. b - 1 \/ b \in 1 .. a - 1
    BY <1>1, <2>2
  <2>4. ~Overlaps(given[a].range, given[b].range) \/ ~Overlaps(given[b].range, given[a].range)
    BY <1>2, <2>2, <2>3
  <2>5. ~Overlaps(given[a].range, given[b].range)
    BY <2>4 DEF Overlaps
  <2> QED BY <1>3, <2>1, <2>5 DEF a, b
<1> QED BY <1>5, <1>6 DEF Clean, n

LEMMA AllowedWhereClean ==
  ASSUME NEW given \in Seq(Edits), NEW s, NEW o, Arranged(s, given, o), Counts(o, Len(given)),
         NEW input, NEW zone, ZoneIsValid(input, zone), Clean(input, zone, s, Len(given)),
         InRow(s, Len(given))
  PROVE  MayReplace(input, zone, given)
<1> DEFINE n == Len(given)
<1>1. n \in Nat /\ DOMAIN given = 1 .. n
  OBVIOUS
<1>2. \A k \in 1 .. n : s[k] = given[o[k]] /\ s[k] \in Edits
  BY DEF Arranged
<1>3. Counts(o, n) /\ InRow(s, n) /\ Clean(input, zone, s, n)
  OBVIOUS
<1> HIDE DEF n
<1>4. \A i \in 1 .. n : \E k \in 1 .. n : o[k] = i
  BY <1>3 DEF Counts
<1>5. ASSUME NEW i \in 1 .. n
      PROVE  /\ IsValidFor(given[i].range, input) /\ ~Overlaps(given[i].range, zone.frozen_prefix)
             /\ \E block \in zone.mutable_blocks : Holds(block, given[i].range)
  <2>1. PICK k \in 1 .. n : o[k] = i
    BY <1>4
  <2>2. s[k] = given[i]
    BY <1>2, <2>1
  <2> QED BY <1>3, <2>2 DEF Clean
<1>6. ASSUME NEW i \in 1 .. n, NEW j \in 1 .. i - 1
      PROVE  ~Overlaps(given[j].range, given[i].range)
  <2>1. j \in 1 .. n /\ j # i
    BY <1>1
  <2>2. PICK a \in 1 .. n, b \in 1 .. n : o[a] = j /\ o[b] = i
    BY <1>4, <2>1
  <2> DEFINE x == s[a]
             y == s[b]
  <2>3. x = given[j] /\ y = given[i] /\ x \in Edits /\ y \in Edits
    BY <1>2, <2>2
  <2>4. a < b \/ b < a
    BY <1>1, <2>1, <2>2
  <2>5. x.range.end <= y.range.start \/ y.range.end <= x.range.start
    BY <1>3, <2>4 DEF InRow
  <2> HIDE DEF x, y
  <2>6. /\ x.range.start \in Nat /\ x.range.end \in Nat
        /\ y.range.start \in Nat /\ y.range.end \in Nat
    BY <2>3, EditIs
  <2>7. ~Overlaps(x.range, y.range)
    BY <2>5, <2>6 DEF Overlaps
  <2> QED BY <2>3, <2>7
<1>7. \A range \in {zone.frozen_prefix} \cup zone.mutable_blocks : IsValidFor(range, input)
  BY DEF ZoneIsValid
<1> QED BY <1>1, <1>5, <1>6, <1>7 DEF MayReplace

-----------------------------------------------------------------------------
-----
(* What the splice answers: refused, a panic, or rewritten.                *)

LEMMA SpliceCases ==
  ASSUME NEW input, NEW zone, NEW given, NEW n, DOMAIN ByStart(given) = 1 .. n
  PROVE  LET s == ByStart(given)
             made == splice_live_zone_replacements(input, zone, given)
             fine == ZoneIsValid(input, zone) /\ Clean(input, zone, s, n)
         IN  /\ made.what = "error" => ~fine
             /\ made.what = "panic" => fine /\ \E k \in 1 .. n : CursorAt(s, k) > s[k].range.start
             /\ made.what = "rewrite" =>
                  /\ fine /\ \A k \in 1 .. n : ~(CursorAt(s, k) > s[k].range.start)
                  /\ made.text = Rewritten(s, input)
                  /\ made.frozen_prefix_preserved = Preserves(input, Rewritten(s, input), zone.frozen_prefix)
<1> DEFINE s == ByStart(given)
           made == splice_live_zone_replacements(input, zone, given)
           a == \E range \in {zone.frozen_prefix} \cup zone.mutable_blocks : ~IsValidFor(range, input)
           problems == {k \in DOMAIN s : Problem(input, zone, s, k) # "none"}
           b == \E k \in DOMAIN s : CursorAt(s, k) > s[k].range.start
           kept == Preserves(input, Rewritten(s, input), zone.frozen_prefix)
           rewrite == [what |-> "rewrite", text |-> Rewritten(s, input), replaced_blocks |-> Len(s),
                       frozen_prefix_preserved |-> kept]
           refused == Refused(Problem(input, zone, s, Min(problems)))
<1>1. made = IF a THEN Refused("InvalidRange") ELSE IF problems # {} THEN refused
            ELSE IF b THEN [what |-> "panic"] ELSE rewrite
  BY Zenon DEF splice_live_zone_replacements, Rewritten, Spliced, CursorAt, Preserves
<1>2. a <=> ~ZoneIsValid(input, zone)
  BY Zenon DEF ZoneIsValid
<1>3. problems = {} <=> Clean(input, zone, s, n)
  <2>1. problems = {} <=> \A k \in 1 .. n : Problem(input, zone, s, k) = "none"
    OBVIOUS
  <2> HIDE DEF s, problems
  <2> QED BY <2>1, ProblemIs DEF Clean
<1>4. Refused("InvalidRange").what = "error" /\ refused.what = "error"
  BY DEF Refused
<1>5. /\ rewrite.what = "rewrite" /\ rewrite.text = Rewritten(s, input)
      /\ rewrite.frozen_prefix_preserved = kept
  <2> HIDE DEF kept, s
  <2> QED OBVIOUS
<1>6. [what |-> "panic"].what = "panic"
  OBVIOUS
<1>7. b <=> \E k \in 1 .. n : CursorAt(s, k) > s[k].range.start
  OBVIOUS
<1> HIDE DEF made, a, problems, refused, rewrite, b
<1>8. made.what = "error" => ~(ZoneIsValid(input, zone) /\ Clean(input, zone, s, n))
  BY <1>1, <1>2, <1>3, <1>5, <1>6
<1>9. made.what = "panic" => ZoneIsValid(input, zone) /\ Clean(input, zone, s, n) /\ b
  BY <1>1, <1>2, <1>3, <1>4, <1>5
<1>10. made.what = "rewrite" => ZoneIsValid(input, zone) /\ Clean(input, zone, s, n) /\ ~b /\ made = rewrite
  BY <1>1, <1>2, <1>3, <1>4, <1>6
<1> QED BY <1>5, <1>7, <1>8, <1>9, <1>10 DEF made

LEMMA CleanRanges ==
  ASSUME NEW given \in Seq(Edits), NEW s, NEW o, Arranged(s, given, o), NEW input \in Seq(STRING),
         NEW zone, Clean(input, zone, s, Len(given)), NEW k \in 1 .. Len(given)
  PROVE  /\ s[k] \in Edits /\ s[k].range.start \in Nat /\ s[k].range.end \in Nat
         /\ s[k].range.start <= s[k].range.end /\ s[k].range.end <= Len(input)
<1> DEFINE e == s[k]
<1>1. e \in Edits /\ IsValidFor(e.range, input)
  BY DEF Arranged, Clean
<1> HIDE DEF e
<1>2. e.range.start \in Nat /\ e.range.end \in Nat
  BY <1>1, EditIs
<1>3. e.range.start <= e.range.end /\ e.range.end <= Len(input)
  BY <1>1 DEF IsValidFor
<1> QED BY <1>1, <1>2, <1>3 DEF e

LEMMA PanicMeans ==
  ASSUME NEW given \in Seq(Edits), NEW s, NEW o, Arranged(s, given, o), NEW input \in Seq(STRING),
         NEW zone, Clean(input, zone, s, Len(given)), NEW k \in 1 .. Len(given),
         CursorAt(s, k) > s[k].range.start
  PROVE  EmptyAfter(given)
<1> DEFINE n == Len(given)
           j == k - 1
           x == s[j].range
           y == s[k].range
<1>1. n \in Nat /\ DOMAIN given = 1 .. n
  OBVIOUS
<1>2. y.start \in Nat /\ y.end \in Nat /\ y.start <= y.end
  BY CleanRanges
<1>3. k > 1 /\ CursorAt(s, k) = x.end
  <2>1. k # 1
    <3> SUFFICES ASSUME k = 1 PROVE FALSE
      OBVIOUS
    <3>1. CursorAt(s, k) = 0
      BY DEF CursorAt
    <3> HIDE DEF y
    <3>2. 0 > y.start
      BY <3>1 DEF y
    <3> QED BY <1>2, <3>2
  <2> QED BY <1>1, <2>1 DEF CursorAt
<1>4. j \in 1 .. n /\ j < k
  BY <1>1, <1>3
<1>5. x.start \in Nat /\ x.end \in Nat
  <2> HIDE DEF j, n
  <2> QED BY <1>4, CleanRanges DEF n
<1>6. /\ s[j] = given[o[j]] /\ s[k] = given[o[k]] /\ o[j] \in 1 .. n /\ o[k] \in 1 .. n
      /\ x.start < y.start \/ (x.start = y.start /\ o[j] < o[k])
  <2> HIDE DEF j
  <2> QED BY <1>4 DEF Arranged
<1>7. ~(x.start < y.end /\ y.start < x.end)
  <2>1. ~Overlaps(x, y)
    BY <1>3 DEF Clean
  <2> QED BY <2>1 DEF Overlaps
<1>8. x.end > y.start
  BY <1>3
<1> HIDE DEF x, y, j, n
<1>9. x.start = y.start /\ y.end = y.start /\ x.start < x.end /\ o[j] < o[k]
  BY <1>2, <1>5, <1>6, <1>7, <1>8
<1>10. Bytes(x) # {} /\ Bytes(y) = {}
  <2>1. x.start \in Bytes(x)
    BY <1>5, <1>9 DEF Bytes
  <2>2. Bytes(y) = {}
    BY <1>2, <1>9 DEF Bytes
  <2> QED BY <2>1, <2>2
<1> QED BY <1>1, <1>6, <1>9, <1>10 DEF EmptyAfter, x, y

LEMMA ChainedIs ==
  ASSUME NEW given \in Seq(Edits), NEW s, NEW o, Arranged(s, given, o), NEW input \in Seq(STRING),
         NEW zone, Clean(input, zone, s, Len(given)),
         \A k \in 1 .. Len(given) : ~(CursorAt(s, k) > s[k].range.start)
  PROVE  Chained(s, Len(given), Len(input))
<1> DEFINE n == Len(given)
<1>1. DOMAIN s = 1 .. n /\ n \in Nat
  BY DEF Arranged
<1>2. ASSUME NEW k \in 1 .. n
      PROVE  /\ s[k] \in Edits /\ CursorAt(s, k) <= s[k].range.start
             /\ s[k].range.start <= s[k].range.end /\ s[k].range.end <= Len(input)
  <2>1. /\ s[k] \in Edits /\ s[k].range.start \in Nat /\ s[k].range.end \in Nat
        /\ s[k].range.start <= s[k].range.end /\ s[k].range.end <= Len(input)
    BY <1>2, CleanRanges
  <2>2. CursorAt(s, k) \in Nat
    <3>1. k = 1 \/ k - 1 \in 1 .. n
      BY <1>1
    <3>2. k - 1 \in 1 .. n => s[k - 1].range.end \in Nat
      <4> DEFINE j == k - 1
      <4> HIDE DEF j
      <4>1. j \in 1 .. n => s[j].range.end \in Nat
        BY CleanRanges
      <4> QED BY <4>1 DEF j
    <3> QED BY <3>1, <3>2 DEF CursorAt
  <2>3. ~(CursorAt(s, k) > s[k].range.start)
    BY <1>2
  <2> DEFINE c == CursorAt(s, k)
             b == s[k].range.start
  <2>4. c <= b
    <3>1. c \in Nat /\ b \in Nat /\ ~(c > b)
      BY <2>1, <2>2, <2>3
    <3> HIDE DEF c, b
    <3> QED BY <3>1
  <2> QED BY <2>1, <2>4
<1> QED BY <1>1, <1>2 DEF Chained

LEMMA RewriteKeeps ==
  ASSUME NEW given \in Seq(Edits), NEW s, NEW o, Arranged(s, given, o), NEW input \in Seq(STRING),
         Chained(s, Len(given), Len(input)), Len(s) = Len(given)
  PROVE  LET made == Rewritten(s, input)
         IN  /\ made \in Seq(STRING) /\ Len(made) = Len(input) + Shift(given, Len(input))
             /\ \A p \in 1 .. Len(input) :
                  (\A k \in 1 .. Len(given) : p - 1 \notin Bytes(given[k].range)) =>
                    /\ p + Shift(given, p - 1) \in 1 .. Len(made)
                    /\ made[p + Shift(given, p - 1)] = input[p]
<1> DEFINE n == Len(given)
           F == [i \in 1 .. n |-> Gain(s[i])]
           made == Rewritten(s, input)
           len == Len(input)
<1>1. n \in Nat /\ len \in Nat
  OBVIOUS
<1>2. Counts(o, n) /\ InRow(s, n)
  BY <1>1, RowIs
<1>3. \A i \in 1 .. n : F[i] \in Int
  <2> TAKE i \in 1 .. n
  <2> DEFINE e == s[i]
  <2>1. e \in Edits
    BY DEF Chained
  <2> HIDE DEF e
  <2>2. Gain(e) \in Int
    BY <2>1, GainIs
  <2> QED BY <2>2 DEF e
<1>4. PICK h : Totals(h, n, F)
  <2> HIDE DEF F, n
  <2> QED BY <1>1, <1>3, TotalExists
<1>5. made \in Seq(STRING) /\ Len(made) = len + h[n] /\ Placed(made, s, n, h, input, n + 1)
  <2> DEFINE r == Spliced(s, input) \o SubSeq(input, CursorAt(s, n + 1) + 1, Len(input))
  <2>1. r \in Seq(STRING) /\ Len(r) = Len(input) + h[n] /\ Placed(r, s, n, h, input, n + 1)
    BY <1>1, <1>4, RestPlaced
  <2>2. made = r
    BY Zenon DEF Rewritten
  <2> HIDE DEF made, r, n
  <2> QED BY <2>1, <2>2
<1> HIDE DEF made
<1>6. Shift(given, len) = h[n]
  <2>1. EndsBy(s, n, n, len)
    <3>1. \A k \in 1 .. n : s[k].range.end <= len
      BY DEF Chained
    <3> HIDE DEF n, len
    <3> QED BY <1>1, <3>1 DEF EndsBy
  <2>2. n \in 0 .. n
    BY <1>1
  <2> QED BY <1>1, <1>2, <1>4, <2>1, <2>2, ShiftedBy
<1>7. ASSUME NEW p \in 1 .. len, \A k \in 1 .. n : p - 1 \notin Bytes(given[k].range)
      PROVE  /\ p + Shift(given, p - 1) \in 1 .. Len(made)
             /\ made[p + Shift(given, p - 1)] = input[p]
  <2>1. \A k \in 1 .. n : p - 1 \notin Bytes(s[k].range)
    <3> TAKE k \in 1 .. n
    <3>1. s[k] = given[o[k]] /\ o[k] \in 1 .. n
      BY DEF Arranged
    <3> HIDE DEF n
    <3> QED BY <1>7, <3>1
  <2>2. PICK m \in 0 .. n : LiesBetween(s, n, m, p) /\ EndsBy(s, n, m, p - 1)
    BY <1>1, <1>2, <2>1, KeptBetween
  <2>3. Shift(given, p - 1) = h[m]
    <3>1. p - 1 \in Int
      BY <1>1
    <3> QED BY <1>1, <1>2, <1>4, <2>2, <3>1, ShiftedBy
  <2>4. m < n + 1
    BY <1>1
  <2> QED BY <1>5, <2>2, <2>3, <2>4 DEF Placed
<1> QED BY <1>5, <1>6, <1>7 DEF made

LEMMA SliceSame ==
  ASSUME NEW a \in Seq(STRING), NEW b \in Seq(STRING), NEW x \in Nat, NEW y \in Nat, x <= y,
         y <= Len(a), y <= Len(b), \A p \in 1 .. y : b[p] = a[p]
  PROVE  SubSeq(a, x + 1, y) = SubSeq(b, x + 1, y)
OBVIOUS

\* What is replaced behind the frozen prefix leaves its bytes where they were.
LEMMA PrefixKept ==
  ASSUME NEW given \in Seq(Edits), NEW s, NEW o, Arranged(s, given, o), NEW input \in Seq(STRING),
         NEW zone, Clean(input, zone, s, Len(given)), Chained(s, Len(given), Len(input)),
         Len(s) = Len(given), zone.frozen_prefix \in [start : Nat, end : Nat],
         IsValidFor(zone.frozen_prefix, input),
         \A k \in 1 .. Len(given) : given[k].range.end > zone.frozen_prefix.start
  PROVE  Preserves(input, Rewritten(s, input), zone.frozen_prefix)
<1> DEFINE n == Len(given)
           len == Len(input)
           made == Rewritten(s, input)
           fp == zone.frozen_prefix
           a == fp.start
           b == fp.end
<1>1. n \in Nat /\ len \in Nat /\ a \in Nat /\ b \in Nat
  OBVIOUS
<1>2. a <= b /\ b <= len
  BY DEF IsValidFor
<1>3. /\ made \in Seq(STRING)
      /\ \A p \in 1 .. len : (\A k \in 1 .. n : p - 1 \notin Bytes(given[k].range)) =>
           p + Shift(given, p - 1) \in 1 .. Len(made) /\ made[p + Shift(given, p - 1)] = input[p]
  BY RewriteKeeps
<1>4. \A k \in 1 .. n : /\ s[k].range.start \in Nat /\ s[k].range.end \in Nat
                        /\ b <= s[k].range.start /\ s[k].range.start <= s[k].range.end
  <2> TAKE k \in 1 .. n
  <2> DEFINE r == s[k].range
  <2>1. r.start \in Nat /\ r.end \in Nat /\ r.start <= r.end
    BY CleanRanges
  <2>2. r.end > a
    <3>1. s[k] = given[o[k]] /\ o[k] \in 1 .. n
      BY DEF Arranged
    <3> QED BY <3>1
  <2>3. ~(r.start < b /\ a < r.end)
    <3>1. ~Overlaps(r, fp)
      BY DEF Clean
    <3> QED BY <3>1 DEF Overlaps
  <2> HIDE DEF r, a, b
  <2>4. b <= r.start
    BY <1>1, <2>1, <2>2, <2>3
  <2> QED BY <2>1, <2>4 DEF r
<1>5. Counts(o, n)
  BY CountsAll
<1>6. ASSUME NEW p \in 1 .. b
      PROVE  p \in 1 .. Len(made) /\ made[p] = input[p]
  <2>1. p \in 1 .. len /\ p - 1 \in Int /\ p - 1 < b
    <3> HIDE DEF len, b
    <3> QED BY <1>1, <1>2
  <2>2. \A k \in 1 .. n : p - 1 < s[k].range.start /\ p - 1 < s[k].range.end
    <3> TAKE k \in 1 .. n
    <3> DEFINE c == s[k].range.start
               d == s[k].range.end
    <3>1. c \in Nat /\ d \in Nat /\ b <= c /\ c <= d
      BY <1>4
    <3> HIDE DEF b, c, d
    <3>2. p - 1 < c /\ p - 1 < d
      BY <1>1, <2>1, <3>1
    <3> QED BY <3>2 DEF c, d
  <2>3. \A k \in 1 .. n : p - 1 \notin Bytes(given[k].range)
    <3> TAKE i \in 1 .. n
    <3>1. PICK k \in 1 .. n : o[k] = i
      BY <1>5 DEF Counts
    <3>2. given[i] = s[k]
      BY <3>1 DEF Arranged
    <3> DEFINE c == s[k].range
    <3>3. p - 1 < c.start /\ c.start \in Nat
      BY <1>4, <2>2
    <3>4. given[i].range = c
      BY <3>2
    <3> HIDE DEF c
    <3> QED BY <2>1, <3>3, <3>4 DEF Bytes
  <2>4. Shift(given, p - 1) = 0
    <3> DEFINE F == [i \in 1 .. n |-> Gain(s[i])]
    <3>1. \A i \in 1 .. n : F[i] \in Int
      <4> TAKE i \in 1 .. n
      <4> DEFINE e == s[i]
      <4>1. e \in Edits
        BY DEF Chained
      <4> HIDE DEF e
      <4>2. Gain(e) \in Int
        BY <4>1, GainIs
      <4> QED BY <4>2 DEF e
    <3>2. PICK h : Totals(h, n, F)
      <4> HIDE DEF F, n
      <4> QED BY <1>1, <3>1, TotalExists
    <3>3. EndsBy(s, n, 0, p - 1)
      <4> SUFFICES ASSUME NEW k \in 1 .. n
                   PROVE  s[k].range.end <= p - 1 <=> k <= 0
        BY Zenon DEF EndsBy
      <4> DEFINE d == s[k].range.end
      <4>1. d \in Nat /\ p - 1 < d
        BY <1>4, <2>2
      <4> HIDE DEF d, n
      <4>2. ~(d <= p - 1) /\ ~(k <= 0)
        BY <1>1, <2>1, <4>1
      <4> QED BY <4>2 DEF d
    <3>4. 0 \in 0 .. n
      BY <1>1
    <3>5. Shift(given, p - 1) = h[0]
      BY <1>1, <1>5, <2>1, <3>2, <3>3, <3>4, ShiftedBy
    <3> QED BY <3>2, <3>5 DEF Totals
  <2>5. p + Shift(given, p - 1) = p
    <3> HIDE DEF b
    <3> QED BY <1>1, <2>1, <2>4
  <2> HIDE DEF n, len, b, made
  <2> QED BY <1>3, <2>1, <2>3, <2>5
<1>7. b <= Len(made)
  <2>1. Len(made) \in Nat
    BY <1>3
  <2> HIDE DEF b, made
  <2>2. b = 0 \/ b \in 1 .. b
    BY <1>1
  <2> QED BY <1>1, <1>6, <2>1, <2>2
<1>8. SubSeq(input, a + 1, b) = SubSeq(made, a + 1, b)
  <2> HIDE DEF a, b, made
  <2> QED BY <1>1, <1>2, <1>3, <1>6, <1>7, SliceSame DEF len
<1>9. BytesAt(input, fp) = {SubSeq(input, a + 1, b)}
  BY <1>2 DEF BytesAt
<1>10. BytesAt(made, fp) = {SubSeq(made, a + 1, b)}
  <2> HIDE DEF made
  <2> QED BY <1>7 DEF BytesAt
<1> QED BY <1>8, <1>9, <1>10 DEF Preserves

LEMMA SpliceFaithful ==
  ASSUME NEW call \in Splices, NEW made,
         made = splice_live_zone_replacements(call.input, call.zone, call.replacements)
  PROVE  SpliceIsFaithful(call, made)
<1> DEFINE input == call.input
           zone == call.zone
           given == call.replacements
           n == Len(given)
           s == ByStart(given)
           text == Rewritten(s, input)
           kept == DOMAIN input \ {p + 1 : p \in UNION {Bytes(given[k].range) : k \in DOMAIN given}}
           behind == \A k \in DOMAIN given : given[k].range.end > zone.frozen_prefix.start
<1>1. input \in Seq(STRING) /\ zone.frozen_prefix \in [start : Nat, end : Nat] /\ given \in Seq(Edits)
  BY SplicesAssumption DEF Edits
<1> HIDE DEF input, zone, given
<1>2. n \in Nat /\ DOMAIN given = 1 .. n /\ DOMAIN input = 1 .. Len(input) /\ Len(input) \in Nat
  BY <1>1
<1>3. s \in Seq(Edits)
  BY <1>1, EditsArranged
<1>4. PICK o : Arranged(s, given, o)
  BY <1>1, EditsArranged
<1>5. Counts(o, n) /\ DOMAIN s = 1 .. n
  BY <1>1, <1>4, CountsAll DEF Arranged
<1> HIDE DEF s
<1>6. Len(s) = n
  BY <1>2, <1>3, <1>5
<1>7. /\ made.what = "error" => ~(ZoneIsValid(input, zone) /\ Clean(input, zone, s, n))
      /\ made.what = "panic" =>
           Clean(input, zone, s, n) /\ \E k \in 1 .. n : CursorAt(s, k) > s[k].range.start
      /\ made.what = "rewrite" =>
           /\ ZoneIsValid(input, zone) /\ Clean(input, zone, s, n)
           /\ \A k \in 1 .. n : ~(CursorAt(s, k) > s[k].range.start)
           /\ made.text = text
           /\ made.frozen_prefix_preserved = Preserves(input, text, zone.frozen_prefix)
  <2>1. made = splice_live_zone_replacements(input, zone, given)
    BY DEF input, zone, given
  <2> HIDE DEF n
  <2> QED BY <1>5, <2>1, SpliceCases DEF s
<1>8. MayReplace(input, zone, given) => made.what # "error"
  <2> SUFFICES ASSUME MayReplace(input, zone, given)
               PROVE  ZoneIsValid(input, zone) /\ Clean(input, zone, s, n)
    BY <1>7
  <2>1. ZoneIsValid(input, zone)
    BY DEF MayReplace, ZoneIsValid
  <2>2. Clean(input, zone, s, n)
    BY <1>1, <1>4, <1>5, CleanWhereAllowed
  <2> QED BY <2>1, <2>2
<1>9. made.what = "panic" => EmptyAfter(given)
  <2> SUFFICES ASSUME made.what = "panic"
               PROVE  EmptyAfter(given)
    OBVIOUS
  <2>1. PICK k \in 1 .. n : CursorAt(s, k) > s[k].range.start
    BY <1>7
  <2>2. Clean(input, zone, s, n)
    BY <1>7
  <2> QED BY <1>1, <1>4, <2>1, <2>2, PanicMeans
<1>10. ASSUME made.what = "rewrite"
       PROVE  /\ MayReplace(input, zone, given)
              /\ Len(made.text) = Len(input) + Shift(given, Len(input))
              /\ \A p \in kept : made.text[p + Shift(given, p - 1)] = input[p]
              /\ behind => made.frozen_prefix_preserved
  <2>1. /\ ZoneIsValid(input, zone) /\ Clean(input, zone, s, n)
        /\ \A k \in 1 .. n : ~(CursorAt(s, k) > s[k].range.start)
        /\ made.text = text
        /\ made.frozen_prefix_preserved = Preserves(input, text, zone.frozen_prefix)
    BY <1>7, <1>10
  <2>2. Chained(s, n, Len(input))
    BY <1>1, <1>4, <2>1, ChainedIs
  <2>3. InRow(s, n)
    BY <1>1, <1>2, <1>4, <2>2, RowIs
  <2>4. MayReplace(input, zone, given)
    BY <1>1, <1>4, <1>5, <2>1, <2>3, AllowedWhereClean
  <2>5. /\ Len(text) = Len(input) + Shift(given, Len(input))
        /\ \A p \in 1 .. Len(input) : (\A k \in 1 .. n : p - 1 \notin Bytes(given[k].range)) =>
             text[p + Shift(given, p - 1)] = input[p]
    BY <1>1, <1>4, <1>6, <2>2, RewriteKeeps
  <2>6. ASSUME NEW p \in kept
        PROVE  p \in 1 .. Len(input) /\ \A k \in 1 .. n : p - 1 \notin Bytes(given[k].range)
    <3>1. p \in 1 .. Len(input)
      BY <1>2
    <3>2. p \in Int /\ (p - 1) + 1 = p
      BY <1>2, <3>1
    <3>3. p - 1 \notin UNION {Bytes(given[k].range) : k \in DOMAIN given}
      BY <3>2
    <3>4. \A k \in 1 .. n : p - 1 \notin Bytes(given[k].range)
      <4> HIDE DEF n
      <4> QED BY <1>2, <3>3
    <3> QED BY <3>1, <3>4
  <2>7. ASSUME behind
        PROVE  made.frozen_prefix_preserved
    <3>1. IsValidFor(zone.frozen_prefix, input)
      BY <2>1 DEF ZoneIsValid
    <3>2. \A k \in 1 .. Len(given) : given[k].range.end > zone.frozen_prefix.start
      BY <1>2, <2>7
    <3>3. Preserves(input, text, zone.frozen_prefix)
      BY <1>1, <1>4, <1>6, <2>1, <2>2, <3>1, <3>2, PrefixKept
    <3> QED BY <2>1, <3>3
  <2> HIDE DEF kept, behind, text
  <2>8. \A p \in kept : made.text[p + Shift(given, p - 1)] = input[p]
    BY <2>1, <2>5, <2>6
  <2> QED BY <2>1, <2>4, <2>5, <2>7, <2>8
<1> HIDE DEF kept, behind, text, n
<1> QED BY <1>8, <1>9, <1>10, Zenon DEF SpliceIsFaithful, kept, behind, input, zone, given

-----------------------------------------------------------------------------
(***************************************************************************)
(* A prompt with replacements is rewritten exactly where a host may put    *)
(* them, for every prompt, zone and list of replacements: then there is    *)
(* no error, the text is as long as they make it, every byte that none of  *)
(* them has is moved by what those before it gained, and a frozen prefix   *)
(* before all of them is as it was; the only panic is an empty replacement *)
(* listed after one that starts where it does.  This is what               *)
(* ReformatIsFaithful says of a splice.  (live_zone.rs                     *)
(* splice_live_zone_replacements)                                          *)
(***************************************************************************)
THEOREM SpliceKeepsThePrompt ==
  CallSpec => [](Answered("splice") => SpliceIsFaithful(asked, answer))
<1>1. CallAnswers => (Answered("splice") => SpliceIsFaithful(asked, answer))
  <2> SUFFICES ASSUME CallAnswers, Answered("splice")
               PROVE  SpliceIsFaithful(asked, answer)
    OBVIOUS
  <2>1. PICK call \in Splices : FromSplice(call)
    BY DEF CallAnswers, CallAsked, Answered
  <2>2. answer = splice_live_zone_replacements(call.input, call.zone, call.replacements)
    BY <2>1 DEF CallAnswers, CallAnswered, FromSplice
  <2>3. SpliceIsFaithful(call, answer)
    BY <2>2, SpliceFaithful
  <2>4. SpliceIsFaithful(asked, answer) <=> SpliceIsFaithful(call, answer)
    BY <2>1 DEF SpliceIsFaithful, FromSplice
  <2> QED BY <2>3, <2>4
<1> QED BY <1>1, CallsFit, PTL
=============================================================================
