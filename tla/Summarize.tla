------------------------------- MODULE Summarize -------------------------------
(***************************************************************************)
(* The LLM summary stage: src/summarize/mod.rs (ingest) and                *)
(* src/summarize/on_demand.rs (juice_summarize), sharing one SummaryState. *)
(*                                                                         *)
(* The state is three maps, each behind a mutex of its own that is never   *)
(* held across another or across an await.  Every time one is taken is a   *)
(* step of its own, so requests and model calls interleave between them.   *)
(* An ingest request makes its model call itself; an on-demand request     *)
(* waits on a call that runs as a task and outlives it.                    *)
(*                                                                         *)
(* The model is the host's: it may summarize, decline, fail, panic, or     *)
(* never answer.  A reply that is empty or no shorter than what was sent   *)
(* is treated as a failure by the code, and is one here.                   *)
(***************************************************************************)
EXTENDS Queues

CONSTANTS
  Clients,        \* the tasks that ask for summaries
  Asks,           \* the requests they make, see below
  Calls,          \* names for the tasks that run an on-demand call
  CACHE_ENTRIES,
  BREAKER_SCOPES,
  MAX_CONSECUTIVE_FAILURES

(* Seeded fault: every scope shares one summary of a page.                 *)
cache_key_unscoped(q) == <<q.focus, q.page>>

(* Everything that shapes a summary; the tool's name is part of the page.  *)
(* The parts are length-prefixed, so different tuples give different keys. *)
cache_key(q) == <<q.scope, q.focus, q.page>>

(* A request, on ingest or on demand, with what CompressOptions and the    *)
(* payload decide of it: which guards it meets, and whether the waiting is *)
(* limited (llm_summary_timeout_ms is not 0).                              *)
Options == [enabled : BOOLEAN, auto : BOOLEAN, context : BOOLEAN, limited : BOOLEAN,
            ccr : BOOLEAN, lossy : BOOLEAN, tokens : {"few", "apt", "many"}]

Questions == {a.q : a \in Asks}
Scopes    == {q.scope : q \in Questions}
Keys      == {cache_key(q) : q \in Questions}

ASSUME AsksAssumption ==
  \A a \in Asks :
    /\ a = [q |-> a.q, options |-> a.options, ingest |-> a.ingest]
    /\ a.q = [scope |-> a.q.scope, focus |-> a.q.focus, page |-> a.q.page]
    /\ a.options \in Options /\ a.ingest \in BOOLEAN

ASSUME BoundsAssumption ==
  /\ {CACHE_ENTRIES, BREAKER_SCOPES, MAX_CONSECUTIVE_FAILURES} \subseteq Nat \ {0}
  /\ IsFiniteSet(Clients) /\ IsFiniteSet(Calls) /\ IsFiniteSet(Keys)
  /\ Cardinality(Calls) + 1 >= Cardinality(Clients) + Cardinality(Keys)  \* one is free to start

VARIABLES
  cache,     \* SummaryCache: summaries by key, oldest first in order
  breakers,  \* Breakers: failures in a row by scope, oldest first in order
  in_flight, \* per key, the call to wait on
  calls,     \* the tasks
  req,       \* per client, its request
  streak,    \* history: failures in a row by scope, never forgotten
  forgotten  \* history: scopes pushed out of the breakers since a success

vars == <<cache, breakers, in_flight, calls, req, streak, forgotten>>

Idle   == [phase |-> "idle"]
NoCall == [phase |-> "none"]
Bounded(n) == IF n > MAX_CONSECUTIVE_FAILURES THEN MAX_CONSECUTIVE_FAILURES ELSE n

Init ==
  /\ cache = [entries |-> [k \in {} |-> 0], order |-> <<>>]
  /\ breakers = [failures |-> [s \in {} |-> 0], order |-> <<>>]
  /\ in_flight = [k \in {} |-> 0]
  /\ calls = [i \in Calls |-> NoCall]
  /\ req = [c \in Clients |-> Idle]
  /\ streak = [s \in Scopes |-> 0]
  /\ forgotten = {}

-----------------------------------------------------------------------------
(* The two bounded maps.                                                   *)

With(f, x, v) == [y \in DOMAIN f \cup {x} |-> IF y = x THEN v ELSE f[y]]
Less(f, S) == [y \in DOMAIN f \ S |-> f[y]]

(* while order.len() > cap: the front is popped, and its entry removed.    *)
Overflow(order, cap) == IF Len(order) > cap THEN Len(order) - cap ELSE 0
PushedOut(order, cap) == {order[i] : i \in 1 .. Overflow(order, cap)}
Newest(order, cap) == SubSeq(order, Overflow(order, cap) + 1, Len(order))

Entered(f, order, x) == IF x \in DOMAIN f THEN order ELSE Append(order, x)

(* Seeded fault: a key remembered again is queued again.                   *)
RememberedTwice(key, summary) ==
  LET order == Append(cache.order, key)
  IN  [entries |-> Less(With(cache.entries, key, summary), PushedOut(order, CACHE_ENTRIES)),
       order   |-> Newest(order, CACHE_ENTRIES)]

Remembered(key, summary) ==
  LET order == Entered(cache.entries, cache.order, key)
  IN  [entries |-> Less(With(cache.entries, key, summary), PushedOut(order, CACHE_ENTRIES)),
       order   |-> Newest(order, CACHE_ENTRIES)]

Failures(scope) == IF scope \in DOMAIN breakers.failures THEN breakers.failures[scope] ELSE 0

(* A count is kept up to the value it is compared with.                    *)
Counted(scope) ==
  LET order == Entered(breakers.failures, breakers.order, scope)
  IN  [failures |-> Less(With(breakers.failures, scope, Bounded(Failures(scope) + 1)),
                         PushedOut(order, BREAKER_SCOPES)),
       order    |-> Newest(order, BREAKER_SCOPES)]

Cleared(scope) ==
  [failures |-> Less(breakers.failures, {scope}),
   order    |-> Without(breakers.order, scope)]

record_failure(scope) ==
  /\ breakers' = Counted(scope)
  /\ streak' = [streak EXCEPT ![scope] = Bounded(@ + 1)]
  /\ forgotten' = forgotten \cup PushedOut(Entered(breakers.failures, breakers.order, scope),
                                           BREAKER_SCOPES)

(* Seeded fault: a success leaves the count as it is.                      *)
record_success_uncleared(scope) ==
  /\ streak' = [streak EXCEPT ![scope] = 0]
  /\ forgotten' = forgotten \ {scope}
  /\ UNCHANGED breakers

record_success(scope) ==
  /\ breakers' = Cleared(scope)
  /\ streak' = [streak EXCEPT ![scope] = 0]
  /\ forgotten' = forgotten \ {scope}

unrecorded == UNCHANGED <<breakers, streak, forgotten>>

-----------------------------------------------------------------------------
(* A request, up to the model.                                             *)

(* What the guards ahead of the shared state conclude.                     *)
IngestGate(o) ==
  IF ~o.enabled \/ ~o.auto \/ ~o.context \/ o.tokens = "few" THEN "not needed"
  ELSE IF o.tokens = "many" THEN "too large"
  ELSE IF ~o.ccr /\ ~o.lossy THEN "not needed"
  ELSE "open"

OnDemandGate(o) == IF ~o.enabled \/ ~o.context THEN "not needed" ELSE "open"

Done(outcome) == [phase |-> "done", outcome |-> outcome]
Written(q, text) == [phase |-> "done", q |-> q, outcome |-> "written", text |-> text]

Answer(c, answer) == req' = [req EXCEPT ![c] = answer]

Ask(c, a) ==
  LET gate == IF a.ingest THEN IngestGate(a.options) ELSE OnDemandGate(a.options)
  IN  /\ req[c].phase \in {"idle", "done"}
      /\ Answer(c, IF gate = "open"
                   THEN [phase |-> "cache", ingest |-> a.ingest, q |-> a.q,
                         limited |-> a.options.limited,
                         lossy |-> a.options.lossy \/ ~a.ingest]
                   ELSE Done(gate))
      /\ UNCHANGED <<cache, breakers, in_flight, calls, streak, forgotten>>

(* finish: the original goes to the CCR store, which keeps it or not.  On  *)
(* demand the answer replaces nothing, so nothing has to be kept.          *)
Finished(c, text) ==
  \E kept \in BOOLEAN :
    Answer(c, IF kept \/ req[c].lossy THEN Written(req[c].q, text)
              ELSE Done("not needed"))

Goto(c, phase) == req' = [req EXCEPT ![c].phase = phase]

LookInCache(c) ==
  /\ req[c].phase = "cache"
  /\ LET key == cache_key(req[c].q)
     IN  IF key \in DOMAIN cache.entries
         THEN Finished(c, cache.entries[key])
         ELSE Goto(c, "breaker")
  /\ UNCHANGED <<cache, breakers, in_flight, calls, streak, forgotten>>

breaker_tripped(scope) == Failures(scope) >= MAX_CONSECUTIVE_FAILURES

AskBreaker(c) ==
  /\ req[c].phase = "breaker"
  /\ IF breaker_tripped(req[c].q.scope) THEN Answer(c, Done("disabled"))
     ELSE Goto(c, IF req[c].ingest THEN "model" ELSE "join")
  /\ UNCHANGED <<cache, breakers, in_flight, calls, streak, forgotten>>

-----------------------------------------------------------------------------
(* Ingest: the request makes the call itself.                              *)

IngestReply(c, reply) ==
  /\ req[c].phase = "model"
  /\ CASE reply = "summary"  -> record_success(req[c].q.scope) /\ Goto(c, "remember")
       [] reply = "declined" -> unrecorded /\ Answer(c, Done("not needed"))
       [] reply = "failed"   -> record_failure(req[c].q.scope)
                                /\ Answer(c, Done("failed"))
  /\ UNCHANGED <<cache, in_flight, calls>>

(* The limit drops the call and counts as a failure.                       *)
IngestTimeout(c) ==
  /\ req[c].phase = "model" /\ req[c].limited
  /\ record_failure(req[c].q.scope)
  /\ Answer(c, Done("timed out"))
  /\ UNCHANGED <<cache, in_flight, calls>>

Remember(c) ==
  /\ req[c].phase = "remember"
  /\ cache' = Remembered(cache_key(req[c].q), req[c].q)
  /\ Finished(c, req[c].q)
  /\ UNCHANGED <<breakers, in_flight, calls, streak, forgotten>>

-----------------------------------------------------------------------------
(* On demand: the request joins the call for its key, or starts one.       *)

Waiters(r, i) == {c \in Clients : r[c].phase = "wait" /\ r[c].call = i}

(* A call that has ended and nobody can reach any more frees its name.     *)
Reachable(flying, cs, r) ==
  [i \in Calls |->
     IF cs[i].phase \in {"called", "remember", "send", "sent"}
        \/ (\E k \in DOMAIN flying : flying[k] = i) \/ Waiters(r, i) # {}
     THEN cs[i] ELSE NoCall]

(* Seeded fault: a call is started whether or not one is running.          *)
JoinOrStartAlways(c) ==
  /\ req[c].phase = "join"
  /\ LET new == CHOOSE i \in Calls : calls[i] = NoCall
     IN  /\ in_flight' = With(in_flight, cache_key(req[c].q), new)
         /\ calls' = [calls EXCEPT ![new] = [phase |-> "called", q |-> req[c].q]]
         /\ req' = [req EXCEPT ![c] = [phase |-> "wait", q |-> req[c].q,
                                       limited |-> req[c].limited, call |-> new]]
  /\ UNCHANGED <<cache, breakers, streak, forgotten>>

JoinOrStart(c) ==
  /\ req[c].phase = "join"
  /\ LET key == cache_key(req[c].q)
         new == CHOOSE i \in Calls : calls[i] = NoCall
         i   == IF key \in DOMAIN in_flight THEN in_flight[key] ELSE new
     IN  /\ in_flight' = With(in_flight, key, i)
         /\ calls' = IF key \in DOMAIN in_flight THEN calls
                     ELSE [calls EXCEPT ![i] = [phase |-> "called", q |-> req[c].q]]
         /\ req' = [req EXCEPT ![c] = [phase |-> "wait", q |-> req[c].q,
                                       limited |-> req[c].limited, call |-> i]]
  /\ UNCHANGED <<cache, breakers, streak, forgotten>>

Progress(i, phase, reply) ==
  calls' = [calls EXCEPT ![i] = [phase |-> phase, q |-> @.q, reply |-> reply]]

(* run_call: the host's reply and what it means for the breaker.           *)
CallReplies(i, reply) ==
  /\ calls[i].phase = "called"
  /\ CASE reply = "summary"  -> record_success(calls[i].q.scope) /\ Progress(i, "remember", reply)
       [] reply = "declined" -> unrecorded /\ Progress(i, "send", reply)
       [] reply = "failed"   -> record_failure(calls[i].q.scope) /\ Progress(i, "send", reply)
  /\ UNCHANGED <<cache, in_flight, req>>

CallRemembers(i) ==
  /\ calls[i].phase = "remember"
  /\ cache' = Remembered(cache_key(calls[i].q), calls[i].q)
  /\ Progress(i, "send", calls[i].reply)
  /\ UNCHANGED <<breakers, in_flight, req, streak, forgotten>>

CallSends(i) ==
  /\ calls[i].phase = "send"
  /\ Progress(i, "sent", calls[i].reply)
  /\ UNCHANGED <<cache, breakers, in_flight, req, streak, forgotten>>

CallLeaves(i) ==
  /\ calls[i].phase = "sent"
  /\ in_flight' = Less(in_flight, {cache_key(calls[i].q)})
  /\ calls' = Reachable(in_flight', [calls EXCEPT ![i].phase = "left"], req)
  /\ UNCHANGED <<cache, breakers, req, streak, forgotten>>

(* The task unwinds: the sender is dropped, in_flight keeps the receiver.  *)
CallPanics(i) ==
  /\ calls[i].phase = "called"
  /\ Progress(i, "dead", "none")
  /\ UNCHANGED <<cache, breakers, in_flight, req, streak, forgotten>>

Leave(c, answer) ==
  /\ Answer(c, answer)
  /\ calls' = Reachable(in_flight, calls, req')
  /\ UNCHANGED <<cache, breakers, in_flight, streak, forgotten>>

Ended(call) == call.phase \in {"sent", "left", "dead"}

(* Seeded fault: a waiter is woken by a value only, not by a dead sender.  *)
ReceiveValue(c) ==
  /\ req[c].phase = "wait"
  /\ LET call == calls[req[c].call]
     IN  /\ call.phase \in {"sent", "left"}
         /\ Leave(c, IF call.reply = "summary" THEN Written(req[c].q, call.q) ELSE Done("failed"))

(* wait_for answers with the value sent, or that the sender is gone.       *)
Receive(c) ==
  /\ req[c].phase = "wait"
  /\ LET call == calls[req[c].call]
     IN  /\ Ended(call)
         /\ Leave(c, IF call.reply = "summary" THEN Written(req[c].q, call.q)
                     ELSE Done(IF call.reply = "declined" THEN "not needed" ELSE "failed"))

(* The limit ends the waiting, not the call, and is no failure.            *)
WaitTimeout(c) ==
  /\ req[c].phase = "wait" /\ req[c].limited
  /\ ~Ended(calls[req[c].call])
  /\ Leave(c, Done("timed out"))

(* The caller goes away at an await, or the host's model panics in it.     *)
Abandon(c) ==
  /\ req[c].phase \in {"wait", "model"}
  /\ Leave(c, Idle)

-----------------------------------------------------------------------------

ClientStep(c) ==
  \/ LookInCache(c) \/ AskBreaker(c)
  \/ IngestTimeout(c) \/ Remember(c)
  \/ JoinOrStart(c) \/ Receive(c) \/ WaitTimeout(c)

CallStep(i) == CallRemembers(i) \/ CallSends(i) \/ CallLeaves(i)

Host ==
  \E reply \in {"summary", "declined", "failed"} :
    (\E c \in Clients : IngestReply(c, reply)) \/ (\E i \in Calls : CallReplies(i, reply))

Next ==
  \/ \E c \in Clients, a \in Asks : Ask(c, a)
  \/ \E c \in Clients : ClientStep(c) \/ Abandon(c)
  \/ \E i \in Calls : CallStep(i) \/ CallPanics(i)
  \/ Host

Spec == Init /\ [][Next]_vars

(* The runtime runs a task that can go on, and timers fire.  Nothing is    *)
(* assumed of the host's model.                                            *)
Fairness ==
  /\ \A c \in Clients : WF_vars(ClientStep(c))
  /\ \A i \in Calls : WF_vars(CallStep(i))

FairSpec == Spec /\ Fairness

-----------------------------------------------------------------------------

Texts == Questions
Phases == {"called", "remember", "send", "sent", "left", "dead"}
Replies == {"summary", "declined", "failed", "none"}
Outcomes == {"not needed", "too large", "disabled", "failed", "timed out"}

Requests ==
  {Idle}
  \cup [phase : {"cache", "breaker", "join", "model", "remember"}, ingest : BOOLEAN,
        q : Questions, limited : BOOLEAN, lossy : BOOLEAN]
  \cup [phase : {"wait"}, q : Questions, limited : BOOLEAN, call : Calls]
  \cup [phase : {"done"}, outcome : Outcomes]
  \cup [phase : {"done"}, q : Questions, outcome : {"written"}, text : Texts]

Mirrors(order, f, cap) ==
  /\ {order[i] : i \in DOMAIN order} = DOMAIN f
  /\ Len(order) = Cardinality(DOMAIN f)
  /\ Len(order) <= cap

(* Types: a count is at least one, what waits, waits on a real call, and   *)
(* SummaryCache and Breakers stay within their bounds, each order listing  *)
(* its map's keys once each: one listed twice would let an old place in    *)
(* the queue push a newer entry out.                                       *)
TypeOK ==
  /\ Mirrors(cache.order, cache.entries, CACHE_ENTRIES)
  /\ Mirrors(breakers.order, breakers.failures, BREAKER_SCOPES)
  /\ DOMAIN cache.entries \subseteq Keys /\ cache.order \in Seq(Keys)
  /\ \A k \in DOMAIN cache.entries : cache.entries[k] \in Texts
  /\ DOMAIN breakers.failures \subseteq Scopes /\ breakers.order \in Seq(Scopes)
  /\ \A s \in DOMAIN breakers.failures : breakers.failures[s] \in 1 .. MAX_CONSECUTIVE_FAILURES
  /\ DOMAIN in_flight \subseteq Keys
  /\ \A k \in DOMAIN in_flight : in_flight[k] \in Calls /\ calls[in_flight[k]] # NoCall
  /\ \A i \in Calls : \/ calls[i] = NoCall
                     \/ calls[i] \in [phase : {"called"}, q : Questions]
                     \/ calls[i] \in [phase : Phases, q : Questions, reply : Replies]
  /\ req \in [Clients -> Requests]
  /\ \A c \in Clients : req[c].phase = "wait" => calls[req[c].call] # NoCall
  /\ streak \in [Scopes -> 0 .. MAX_CONSECUTIVE_FAILURES] /\ forgotten \subseteq Scopes

(* join_or_start: a key has at most one call that has not yet left, and it *)
(* is the one a new request for the key would find.                        *)
OneCallPerKey ==
  \A i \in Calls :
    calls[i].phase \in {"called", "remember", "send", "sent"}
    => /\ cache_key(calls[i].q) \in DOMAIN in_flight
       /\ in_flight[cache_key(calls[i].q)] = i

(* "a page summarized for one question is never handed back for another":  *)
(* through the cache, a joined call or its own call, whatever interleaves. *)
AnswersItsQuestion ==
  \A c \in Clients :
    req[c].phase = "done" /\ req[c].outcome = "written" => req[c].text = req[c].q

(* The breaker counts a scope's failures since its last success exactly,   *)
(* while calls and requests of the scope end in any order; a scope pushed  *)
(* out by newer ones is only ever treated better than it deserves.         *)
BreakerIsExact ==
  \A s \in Scopes :
    /\ Failures(s) <= streak[s]
    /\ s \notin forgotten => Failures(s) = streak[s]

(* No request with a limit stays without an answer, whatever the host's    *)
(* model does, and none, with a limit or without, sleeps through the end   *)
(* of the call it waits on, a panic included.                              *)
InProgress(c) == req[c].phase \notin {"idle", "done"}

RequestsEnd ==
  \A c \in Clients :
    /\ (InProgress(c) /\ req[c].limited) ~> ~InProgress(c)
    /\ (req[c].phase = "wait" /\ Ended(calls[req[c].call])) ~> ~InProgress(c)

(* join_or_start subscribes "to the call already running": what a request  *)
(* joins has not died.                                                     *)
JoinsRunningCall ==
  [][\A c \in Clients :
       req[c].phase = "join" /\ req'[c].phase = "wait"
       => calls'[req'[c].call].phase # "dead"]_vars
=============================================================================
