------------------------------ MODULE ToolOutput ------------------------------
(***************************************************************************)
(* What becomes of one tool result: compact_tool_output of                 *)
(* src/tool_integration.rs (the summary stage, then the router), the router*)
(* of src/compress.rs and the typed pipeline of src/pipeline/runner.rs,    *)
(* over a store of which only the CcrStore contract is known.              *)
(*                                                                         *)
(* The store is shared: other requests put into it and it forgets, between *)
(* any two steps.  A put and what the request makes of its answer is one   *)
(* step; a request that goes on to another stage takes another step.       *)
(*                                                                         *)
(* A text is its length, a classification is a choice, and a compressor    *)
(* declines or gives a text of some length, lossy or not.  The notice that *)
(* goes with an answer and the statistics are left out.                    *)
(***************************************************************************)
EXTENDS Integers

CONSTANTS
  Originals,    \* everything that may be put into the store
  Original,     \* the content of this request
  ContentBytes, \* its length
  FooterBytes,  \* the length of a recovery footer
  Asks          \* the requests considered, see below

ASSUME OriginalAssumption == Original \in Originals

ASSUME LengthsAssumption ==
  /\ ContentBytes \in Nat \ {0}
  /\ FooterBytes \in Nat \ {0}

(***************************************************************************)
(* A request: how it was made, and what is known of the content from the   *)
(* start.  "router" is a host that calls the router itself; "off" stands   *)
(* for Auto as well, which the tool integration refuses alike.             *)
(***************************************************************************)
Options == [ccr : BOOLEAN, lossy : BOOLEAN, handle : BOOLEAN, router : BOOLEAN]

Requests ==
  [profile    : {"off", "light", "full", "router"},
   recovery   : BOOLEAN,  \* the tool is the one that gets originals back
   context    : BOOLEAN,  \* the host bound a summary call to the result
   compaction : BOOLEAN,  \* compaction_enabled
   options    : Options,  \* as configured
   tokens     : {"few", "some", "many"},  \* below ccr_min_tokens / 4, between, from ccr_min_tokens
   size       : {"tiny", "small", "big"}, \* below the log floor, between, from min_bytes_to_compress
   command    : BOOLEAN,  \* a command or argv came with it
   log        : BOOLEAN,  \* the kind is Log
   typed      : {"both", "offload", "none"}] \* the typed transforms for its kind

ASSUME AsksAssumption == Asks \subseteq Requests

VARIABLES
  held, reply, \* the store
  ask,         \* the request
  at,          \* the stage it is in
  opts,        \* CompressOptions as the stages see it
  out          \* the answer

Store == INSTANCE CcrContract WITH Tokens <- Originals

vars    == <<held, reply, ask, at, opts, out>>
store   == <<held, reply>>
request == <<ask, at, opts, out>>

-----------------------------------------------------------------------------

Output == [by    : {"none", "summary", "handle", "typed", "compressor"},
           bytes : Nat, lossy : BOOLEAN, token : BOOLEAN]

Passthrough == [by |-> "none", bytes |-> ContentBytes, lossy |-> FALSE, token |-> FALSE]

(* Light: no CCR, and no loss without it.  `floor` says that ccr_min_tokens*)
(* is as configured and not 0.                                             *)
options_for_agent(a) ==
  [ccr    |-> a.options.ccr /\ a.profile # "light",
   lossy  |-> a.options.lossy /\ a.profile # "light",
   handle |-> a.options.handle,
   router |-> a.options.router,
   floor  |-> TRUE]

Enough == ask.tokens = "many" \/ ~opts.floor      \* tokens >= ccr_min_tokens

(* A compacted body of at most half the tokens, of at least a quarter of   *)
(* the floor.  Tokens are in proportion to length.                         *)
heavy_crush(bytes) == 2 * bytes <= ContentBytes /\ (ask.tokens # "few" \/ ~opts.floor)

(* Seeded fault: a handle is offered although nothing may be stored.       *)
handle_applies_unstored == opts.handle /\ Enough

handle_applies == opts.handle /\ opts.ccr /\ Enough

Init ==
  /\ Store!Init
  /\ ask \in Asks
  /\ at = "begin"
  /\ opts = options_for_agent(ask)
  /\ out = Passthrough

Goto(stage) == at' = stage /\ UNCHANGED <<ask, opts, out>>

Answer(given) == at' = "done" /\ out' = given /\ UNCHANGED <<ask, opts>>

-----------------------------------------------------------------------------
(* The tool integration.                                                   *)

(* An explicit handle is honoured before any model call.                   *)
considers_summary ==
  /\ ask.profile = "full" \/ (ask.profile = "light" /\ ask.context)
  /\ ~(handle_applies /\ ask.compaction)

Begin ==
  /\ at = "begin"
  /\ IF ask.profile = "router" THEN Goto("floor")
     ELSE IF ask.profile = "off" \/ ask.recovery THEN Answer(Passthrough)
     ELSE IF considers_summary THEN Goto("summary")
     ELSE IF ask.compaction THEN Goto("floor") ELSE Answer(Passthrough)
  /\ UNCHANGED store

(* The stage declined or was not available: on with the deterministic part.*)
SummaryDeclined ==
  /\ at = "summary"
  /\ IF ask.compaction THEN Goto("floor") ELSE Answer(Passthrough)
  /\ UNCHANGED store

(* After a timeout the router is to give a preview and a handle.           *)
SummaryTimedOut ==
  /\ at = "summary" /\ ask.context
  /\ ask.options.ccr \/ opts.lossy
  /\ IF ask.compaction
     THEN /\ opts' = [opts EXCEPT !.handle = TRUE, !.floor = FALSE, !.ccr = ask.options.ccr]
          /\ at' = "floor"
          /\ UNCHANGED <<ask, out>>
     ELSE Answer(Passthrough)
  /\ UNCHANGED store

Summary(bytes, token) ==
  [by |-> "summary", bytes |-> bytes + (IF token THEN FooterBytes ELSE 0),
   lossy |-> TRUE, token |-> token]

(* Seeded fault: a summary is final whether or not its original was kept.  *)
SummaryWrittenBlindly(bytes) ==
  /\ at = "summary" /\ ask.context
  /\ IF ask.options.ccr
     THEN /\ Store!Put(Original)
          /\ Answer(Summary(bytes, reply'.retained))
     ELSE /\ opts.lossy
          /\ Answer(Summary(bytes, FALSE))
          /\ UNCHANGED store

(* A summary is final, once its original is kept or may be lost.  Light    *)
(* keeps it as configured, although its router may not.                    *)
SummaryWritten(bytes) ==
  /\ at = "summary" /\ ask.context
  /\ \/ /\ ask.options.ccr
        /\ Store!Put(Original)
        /\ IF reply'.retained \/ opts.lossy THEN Answer(Summary(bytes, reply'.retained))
           ELSE IF ask.compaction THEN Goto("floor") ELSE Answer(Passthrough)
     \/ /\ ~ask.options.ccr /\ opts.lossy
        /\ Answer(Summary(bytes, FALSE))
        /\ UNCHANGED store

-----------------------------------------------------------------------------
(* The router, stage by stage.                                             *)

(* The router is off or the content too small, an exact file read, or a    *)
(* command the shell policy leaves alone.                                  *)
TurnedAway ==
  /\ at = "floor"
  /\ Answer(Passthrough)
  /\ UNCHANGED store

Admitted ==
  /\ at = "floor"
  /\ opts.router /\ ask.size # "tiny"
  /\ Goto(IF handle_applies THEN "handle" ELSE "bloat")
  /\ UNCHANGED store

(* Seeded fault: the handle is given out without asking whether the store  *)
(* kept the original.                                                      *)
HandleUnchecked(view) ==
  /\ at = "handle"
  /\ Store!Put(Original)
  /\ IF view < ContentBytes
     THEN Answer([by |-> "handle", bytes |-> view, lossy |-> TRUE, token |-> TRUE])
     ELSE Goto("bloat")

(* A view is the preview with its footer.                                  *)
Handle(view) ==
  /\ at = "handle"
  /\ Store!Put(Original)
  /\ IF reply'.retained /\ view < ContentBytes
     THEN Answer([by |-> "handle", bytes |-> view, lossy |-> TRUE, token |-> TRUE])
     ELSE Goto("bloat")

LowBloat ==
  /\ at = "bloat"
  /\ ~ask.command
  /\ Answer(Passthrough)
  /\ UNCHANGED store

Bloated ==
  /\ at = "bloat"
  /\ Goto(IF ask.command \/ ask.typed = "none" THEN "compressor" ELSE "reformat")
  /\ UNCHANGED store

-----------------------------------------------------------------------------
(* The typed pipeline: reformats, then offloads, then finalize_typed_output*)

may_offload == opts.ccr /\ Enough

(* Seeded fault: the footer is not counted.                                *)
FinalizedUncounted(bytes) ==
  IF bytes >= ContentBytes THEN Goto("compressor")
  ELSE Answer([by |-> "typed", bytes |-> bytes + FooterBytes, lossy |-> TRUE, token |-> TRUE])

(* A lossy body with its footer; one that is no shorter is dropped.        *)
Finalized(bytes) ==
  IF bytes >= ContentBytes THEN Goto("compressor")
  ELSE IF bytes + FooterBytes >= ContentBytes THEN Answer(Passthrough)
  ELSE Answer([by |-> "typed", bytes |-> bytes + FooterBytes, lossy |-> TRUE, token |-> TRUE])

(* No offload applies; a reformat of fewer bytes, or none at all.          *)
Reformat(bytes) ==
  /\ at = "reformat"
  /\ ask.typed = "both"
  /\ bytes < ContentBytes
  /\ Answer([by |-> "typed", bytes |-> bytes, lossy |-> FALSE, token |-> FALSE])
  /\ UNCHANGED store

NoTransform ==
  /\ at = "reformat"
  /\ Goto("compressor")
  /\ UNCHANGED store

(* An offload that was not retained declines, and the pipeline is left with*)
(* what the reformats made of the content.                                 *)
Offload(bytes) ==
  /\ at = "reformat"
  /\ may_offload
  /\ Store!Put(Original)
  /\ \/ reply'.retained /\ Finalized(bytes)
     \/ ~reply'.retained /\ Goto("compressor")
     \/ /\ ~reply'.retained
        /\ ask.typed = "both" /\ bytes < ContentBytes
        /\ Answer([by |-> "typed", bytes |-> bytes, lossy |-> FALSE, token |-> FALSE])

-----------------------------------------------------------------------------
(* The compressors, and what may be done with what they produce.           *)

(* Below the global floor only a log or a command's output goes on.        *)
BelowFloor ==
  /\ at = "compressor"
  /\ ask.size = "small" /\ ~ask.log /\ ~ask.command
  /\ Answer(Passthrough)
  /\ UNCHANGED store

ccr_for_call(bytes) == opts.ccr /\ (Enough \/ heavy_crush(bytes))

(* Nobody compresses it, it does not shrink, or what was dropped could not *)
(* be kept and may not be lost.                                            *)
Unproduced(bytes, lossy) ==
  \/ bytes >= ContentBytes
  \/ lossy /\ ~ccr_for_call(bytes) /\ ~opts.lossy

Compressed(bytes, lossy, token) ==
  [by |-> "compressor", bytes |-> bytes + (IF token THEN FooterBytes ELSE 0),
   lossy |-> lossy, token |-> token]

Compress(bytes, lossy) ==
  /\ at = "compressor"
  /\ ask.size = "big" \/ ask.log \/ ask.command
  /\ \/ /\ Unproduced(bytes, lossy)
        /\ Answer(Passthrough)
        /\ UNCHANGED store
     \/ /\ ~Unproduced(bytes, lossy) /\ ~ccr_for_call(bytes)
        /\ Answer(Compressed(bytes, lossy, FALSE))
        /\ UNCHANGED store
     \/ /\ ~Unproduced(bytes, lossy) /\ ccr_for_call(bytes)
        /\ Store!Put(Original)
        /\ Answer(IF ~reply'.retained
                  THEN IF lossy THEN Passthrough ELSE Compressed(bytes, lossy, FALSE)
                  ELSE IF bytes + FooterBytes >= ContentBytes THEN Passthrough
                  ELSE Compressed(bytes, lossy, TRUE))

-----------------------------------------------------------------------------
(* Other requests, and whatever makes the store forget.                    *)
Others == Store!Next /\ UNCHANGED request

Stages ==
  \/ Begin \/ SummaryDeclined \/ SummaryTimedOut
  \/ TurnedAway \/ Admitted \/ LowBloat \/ Bloated \/ NoTransform \/ BelowFloor
  \/ \E bytes \in 1 .. ContentBytes :
       \/ Handle(bytes) \/ Reformat(bytes) \/ Offload(bytes)
       \/ bytes < ContentBytes /\ SummaryWritten(bytes)
       \/ \E lossy \in BOOLEAN : Compress(bytes, lossy)

Next == Stages \/ Others

Spec == Init /\ [][Next]_vars

-----------------------------------------------------------------------------

(* Types, and a stage that only its requests reach.                        *)
TypeOK ==
  /\ held \subseteq Originals
  /\ ask \in Asks
  /\ at \in {"begin", "summary", "floor", "handle", "bloat", "reformat", "compressor", "done"}
  /\ opts \in [ccr : BOOLEAN, lossy : BOOLEAN, handle : BOOLEAN, router : BOOLEAN, floor : BOOLEAN]
  /\ out \in Output
  /\ at = "handle" => opts.ccr /\ opts.handle
  /\ at = "summary" => ask.profile \in {"full", "light"}

(* "Nothing is ever silently lost": an answer that drops something names   *)
(* the original, unless the host accepts the loss.  Light never does, also *)
(* where the configuration does.                                           *)
LossyIsRecoverable ==
  at = "done" /\ out.lossy
  => out.token \/ (ask.options.lossy /\ ask.profile # "light")

(* An answer names the original only when its own put has just left it in  *)
(* the store, on each of the four ways there, whatever earlier puts of the *)
(* same request were told and whatever was forgotten since.                *)
AdvertisedIsHeld ==
  [][at # "done" /\ at' = "done" /\ out'.token => Original \in held']_vars

(* "Pass-through safe": what the router answers in place of the original   *)
(* is shorter than it, the footer counted.  (A summary is compared without *)
(* its footer.)                                                            *)
ShorterOrUntouched ==
  at = "done" => \/ out.by \in {"none", "summary"}
                 \/ out.bytes < ContentBytes

(* With CCR switched off nothing of the request is stored, on any route.   *)
OffStoresNothing ==
  [][at' # at /\ ~ask.options.ccr => UNCHANGED store]_vars

(* Light: "Keep only non-lossy reductions; disables CCR-backed lossy       *)
(* compaction".  What it may lose is to a summary the host asked for, or   *)
(* the handle that stands in for one.                                      *)
LightKeepsExact ==
  at = "done" /\ ask.profile = "light" /\ out.lossy => out.by \in {"summary", "handle"}
=============================================================================
