----------------------------- MODULE MCSummarize -----------------------------
EXTENDS Summarize

CONSTANTS s1, s2, f, p  \* two scopes, a focus and a page

Question(s) == [scope |-> s, focus |-> f, page |-> p]

Usual == [enabled |-> TRUE, auto |-> TRUE, context |-> TRUE, limited |-> TRUE,
          ccr |-> TRUE, lossy |-> FALSE, tokens |-> "apt"]

(* On ingest a limited request whose original has to be kept in one scope, *)
(* one that waits for ever and may lose it in the other; and the requests  *)
(* each guard turns away.                                                  *)
Patient == [Usual EXCEPT !.limited = FALSE, !.ccr = FALSE, !.lossy = TRUE]

TurnedAway ==
  {[Usual EXCEPT !.enabled = FALSE], [Usual EXCEPT !.context = FALSE],
   [Usual EXCEPT !.auto = FALSE], [Usual EXCEPT !.ccr = FALSE],
   [Usual EXCEPT !.tokens = "few"], [Usual EXCEPT !.tokens = "many"]}

Ingested(s, options) == {[q |-> Question(s), options |-> o, ingest |-> TRUE] : o \in options}
Demanded(s, options) == {[q |-> Question(s), options |-> o, ingest |-> FALSE] : o \in options}

(* On demand only one question is asked, with a limit and without: calls   *)
(* for different keys share nothing but the cache and the breakers, which  *)
(* the other scope's ingest disturbs as well.                              *)
MCAsks ==
  Ingested(s1, {Usual} \cup TurnedAway) \cup Ingested(s2, {Patient})
  \cup Demanded(s1, {Usual, Patient, [Usual EXCEPT !.enabled = FALSE]})

(* One question, for the liveness run.                                     *)
MCOneQuestion == Ingested(s1, {Usual}) \cup Demanded(s1, {Usual, Patient})

MCOnDemand == Demanded(s1, {Usual})
=============================================================================
