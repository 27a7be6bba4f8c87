---------------------------- MODULE Conversation ----------------------------
(***************************************************************************)
(* src/conversation: compacting a chat transcript in rounds.  The library  *)
(* is pure; the agent that holds the transcript, appends to it and calls   *)
(* the helpers in this order is the host's, and external.                  *)
(*                                                                         *)
(* Positions are the code's: `start` messages come before the cut.  A text *)
(* is its serial number, a tool result's content what it says and how long *)
(* it is, a summary the set of the parts of texts it covers.               *)
(***************************************************************************)
EXTENDS Queues, FiniteSetsExt, SequencesExt

CONSTANTS
  MaxMessages,    \* bound on the messages the host appends
  MaxCalls,       \* bound on the tool calls
  MaxRounds,      \* bound on the compactions
  MaxDigests,     \* bound on the digest passes
  ExchangeCounts, \* numbers of user exchanges a round keeps
  TokenBudgets,   \* budgets a round keeps its tail within: tokens, min_tail
  Protections,    \* HeadProtections, without compaction_count
  LongTexts,      \* the texts that are longer than a line of the prompt
  Contents,       \* what a tool can answer
  Chars,          \* its length, by content, and that of a digest
  DigestOptions   \* ToolDigestOptions

VARIABLES
  messages,         \* the transcript
  pending,          \* calls that have no result yet, of the host
  said, called,     \* history: texts said and calls made so far
  compaction_count, \* HeadProtection.compaction_count
  digested,         \* digest passes so far
  protection, allow_lossy_fallback \* the host's choices

vars == <<messages, pending, said, called, compaction_count, digested, protection,
          allow_lossy_fallback>>

ASSUME OptionsAssumption ==
  /\ {MaxMessages, MaxCalls, MaxRounds, MaxDigests} \subseteq Nat
  /\ ExchangeCounts \subseteq Nat \ {0}
  /\ LongTexts \subseteq Nat
  /\ TokenBudgets \subseteq [tokens : Nat, min_tail : Nat]
  /\ Protections \subseteq [protect_system_prompt : BOOLEAN, protect_first_n_messages : Nat,
                            decay_head : BOOLEAN]
  /\ DigestOptions \subseteq [max_full : Nat, keep_recent : Nat]
  /\ "digest" \notin Contents /\ Chars \in [Contents \cup {"digest"} -> Nat]

-----------------------------------------------------------------------------
(***************************************************************************)
(* Messages.                                                               *)
(***************************************************************************)
Chat(role, n, hidden) ==
  [kind |-> "chat", role |-> role, n |-> n, hidden |-> hidden, is_compaction_summary |-> FALSE]

SummaryMessage(summary) ==
  [kind |-> "chat", role |-> "system", n |-> 0, hidden |-> FALSE,
   is_compaction_summary |-> TRUE, summary |-> summary]

AssistantToolCalls(ids, n) == [kind |-> "calls", ids |-> ids, n |-> n] \* n = 0: no text

ToolResults(results) == [kind |-> "results", results |-> results]

is_compaction_summary_message(m) == m.kind = "chat" /\ m.is_compaction_summary

is_real_user_message(m) ==
  m.kind = "chat" /\ m.role = "user" /\ ~m.is_compaction_summary /\ ~m.hidden

is_visible_assistant(m) ==
  \/ m.kind = "chat" /\ m.role = "assistant" /\ ~m.is_compaction_summary /\ ~m.hidden
  \/ m.kind = "calls" /\ m.n # 0

call_ids(ms) == UNION {ms[i].ids : i \in {j \in DOMAIN ms : ms[j].kind = "calls"}}

ResultIds(m) == {r.id : r \in ToSet(m.results)}

result_ids(ms) == UNION {ResultIds(ms[i]) : i \in {j \in DOMAIN ms : ms[j].kind = "results"}}

After(ms, start) == SubSeq(ms, start + 1, Len(ms))

Texts(ms) == {m.n : m \in {x \in ToSet(ms) : x.kind # "results"}} \ {0}

(***************************************************************************)
(* one_line: a text is its first 240 characters, and a long one what more  *)
(* of it a line of 500 holds, and the rest.  "..." is all that tells of a  *)
(* part that is cut off.                                                   *)
(***************************************************************************)
Line(n) == {n} \X (IF n \in LongTexts THEN {"lead", "line"} ELSE {"lead"})

Rest(n) == {n} \X (IF n \in LongTexts THEN {"rest"} ELSE {})

Earlier(a, b) == IF a < b THEN a ELSE b
Later(a, b) == IF a < b THEN b ELSE a

-----------------------------------------------------------------------------
(***************************************************************************)
(* align_tail_start_for_tool_boundaries: back to the call of the first     *)
(* result that has lost its own, until none has.  Of a message of several  *)
(* results only the first without a call in the tail is looked at.         *)
(***************************************************************************)
Parents(ms, start, id) == {i \in 1 .. start : ms[i].kind = "calls" /\ id \in ms[i].ids}

FirstMissing(ms, start, i) ==
  LET r == ms[i].results
      retained_calls == call_ids(After(ms, start))
      k == SelectInSeq(r, LAMBDA x : x.id \notin retained_calls)
  IN  {r[j].id : j \in {k} \ {0}}

MissingParents(ms, start) ==
  LET reach == [i \in {j \in start + 1 .. Len(ms) : ms[j].kind = "results"} |->
                  UNION {Parents(ms, start, id) : id \in FirstMissing(ms, start, i)}]
      found == {i \in DOMAIN reach : reach[i] # {}}
  IN  IF found = {} THEN {} ELSE reach[Min(found)]

(* Seeded fault: the cut moves back once, and is not looked at again.      *)
AlignOnce(ms, tail_start) ==
  LET start == Earlier(tail_start, Len(ms))
      found == MissingParents(ms, start)
  IN  IF found = {} THEN start ELSE Max(found) - 1

Align(ms, tail_start) ==
  LET align[start \in 0 .. Len(ms)] ==
        LET found == MissingParents(ms, start)
        IN  IF found = {} THEN start ELSE align[Max(found) - 1]
  IN  align[Earlier(tail_start, Len(ms))]

(* Seeded fault: calls without results are left in. *)
SanitizeResultsOnly(ms) ==
  LET kept(m) == IF m.kind # "results" THEN m
                 ELSE ToolResults(SelectSeq(m.results, LAMBDA r : r.id \in call_ids(ms)))
  IN  SelectSeq([i \in DOMAIN ms |-> kept(ms[i])],
                LAMBDA m : m.kind = "results" => m.results # <<>>)

(***************************************************************************)
(* sanitize_orphan_tool_messages.                                          *)
(***************************************************************************)
Sanitize(ms) ==
  LET all_results == result_ids(ms)
      all_calls   == call_ids(ms)
      kept(m) ==
        CASE m.kind = "chat"  -> m
          [] m.kind = "calls" -> [m EXCEPT !.ids = @ \cap all_results]
          [] OTHER -> ToolResults(Picked(m.results,
                        {j \in DOMAIN m.results : m.results[j].id \in all_calls}))
      stays(m) ==
        CASE m.kind = "chat"  -> TRUE
          [] m.kind = "calls" -> m.ids # {} \/ m.n # 0
          [] OTHER -> m.results # <<>>
  IN  Picked([i \in DOMAIN ms |-> kept(ms[i])], {i \in DOMAIN ms : stays(kept(ms[i]))})

LatestIndex(ms, Test(_)) == SelectLastInSeq(ms, Test) - 1 \* -1: there is none

split_partial_conversation(ms, head_end, tail_start) ==
  LET h == Earlier(head_end, Len(ms))
      t == Later(h, Earlier(tail_start, Len(ms)))
  IN  [head |-> SubSeq(ms, 1, h), middle |-> SubSeq(ms, h + 1, t), tail |-> After(ms, t)]

rejoin_partial_conversation(split, replacement) ==
  Sanitize(split.head \o replacement \o split.tail)

tail_start_for_last_user_exchanges(ms, head_end, exchange_count) ==
  LET users == {i \in head_end + 1 .. Len(ms) : is_real_user_message(ms[i])}
  IN  IF exchange_count = 0 \/ head_end >= Len(ms) THEN Len(ms)
      ELSE IF Cardinality(users) < exchange_count THEN head_end
      ELSE LET nth == CHOOSE i \in users :
                        Cardinality({j \in users : j >= i}) = exchange_count
           IN  Later(head_end, Align(ms, nth - 1))

-----------------------------------------------------------------------------
(***************************************************************************)
(* budget.rs.  The token estimate of a text is one, of an id one.          *)
(***************************************************************************)
Length(content) == Chars[IF content.digest = <<>> THEN content.says ELSE "digest"]

estimate_message_tokens(m) ==
  CASE m.kind = "chat"  -> 4 + 1 + 1
    [] m.kind = "calls" -> 4 + (IF m.n # 0 THEN 1 ELSE 0) + Cardinality(m.ids) * (12 + 3)
    [] OTHER -> FoldLeft(LAMBDA sum, r : sum + 8 + 1 + Length(r.content), 4, m.results)

EstimateTokens(ms) == FoldLeft(LAMBDA sum, m : sum + estimate_message_tokens(m), 0, ms)

protected_head_end(ms) ==
  LET system == SelectInSeq(ms, LAMBDA m : m.kind # "chat" \/ m.role # "system")
      system_end == IF ~protection.protect_system_prompt THEN 0
                    ELSE IF system = 0 THEN Len(ms) ELSE system - 1
      keep == ~protection.decay_head \/ compaction_count = 0
  IN  Later(system_end,
            IF keep THEN Earlier(protection.protect_first_n_messages, Len(ms)) ELSE 0)

(***************************************************************************)
(* select_tail_by_budget, with a soft ceiling of one and a half times the  *)
(* budget: the whole region, or as many of the last messages as fit.       *)
(***************************************************************************)
select_tail_by_budget(ms, head_end, budget) ==
  LET soft_ceiling == (3 * budget.tokens + 1) \div 2
      select[start \in head_end .. Len(ms)] ==
        LET count    == Len(ms) - start
            selected == EstimateTokens(After(ms, start))
            next     == estimate_message_tokens(ms[start])
            keep     == \/ count < budget.min_tail
                        \/ selected + next <= budget.tokens
                        \/ count = 0 /\ next <= soft_ceiling
        IN  IF start = head_end \/ ~keep THEN start ELSE select[start - 1]
  IN  CASE head_end >= Len(ms) -> Len(ms)
        [] EstimateTokens(After(ms, head_end)) <= soft_ceiling -> head_end
        [] OTHER -> select[Len(ms)]

-----------------------------------------------------------------------------
(***************************************************************************)
(* summary.rs.                                                             *)
(***************************************************************************)
WithoutSummaries(ms) == Picked(ms, {i \in DOMAIN ms : ~is_compaction_summary_message(ms[i])})

rehydrate_summary(ms) ==
  UNION {m.summary : m \in {x \in ToSet(ms) : is_compaction_summary_message(x)}}

LeadingSystem(ms) ==
  LET k == SelectInSeq(ms, LAMBDA m : m.kind # "chat" \/ m.role # "system"
                                      \/ m.is_compaction_summary)
  IN  IF k = 0 THEN Len(ms) ELSE k - 1

(* Seeded fault: a summary that is there already stays. *)
InsertSummary(ms, summary) ==
  InsertAt(ms, LeadingSystem(ms) + 1, SummaryMessage(summary))

upsert_compaction_summary(ms, summary) ==
  LET first == SelectInSeq(ms, is_compaction_summary_message)
      rest  == WithoutSummaries(ms)
      index == IF first = 0 THEN LeadingSystem(rest) ELSE first - 1
  IN  InsertAt(rest, Earlier(index, Len(rest)) + 1, SummaryMessage(summary))

SummaryErrorKinds ==
  {"NoProvider", "ModelUnavailable", "Timeout", "MalformedOutput", "Auth", "Permission",
   "Network", "IneffectiveCompression", "Other"}

(* Seeded fault: the fallback is taken without asking for consent.         *)
DecideFallback(kind) ==
  IF kind \in {"NoProvider", "ModelUnavailable", "Timeout", "MalformedOutput"}
  THEN "UseDeterministicFallback" ELSE "PreserveMessages"

decide_summary_failure(kind) ==
  CASE kind \in {"Auth", "Permission", "Network"} -> "PreserveMessages"
    [] kind \in {"NoProvider", "ModelUnavailable", "Timeout", "MalformedOutput"}
         /\ allow_lossy_fallback -> "UseDeterministicFallback"
    [] kind = "IneffectiveCompression" -> "RetryLater"
    [] OTHER -> "PreserveMessages"

(* render_message_for_prompt: a chat message on a line of 500 characters,  *)
(* and the whole text of one that makes calls.                             *)
Rendered(m) ==
  CASE m.n = 0          -> {}
    [] m.kind = "calls" -> Line(m.n) \cup Rest(m.n)
    [] OTHER            -> Line(m.n)

Shown(ms) == UNION {Rendered(m) : m \in {x \in ToSet(ms) : x.kind # "results"}}

(* Seeded fault: the request leaves out the summary it is to replace. *)
SummaryOfMiddle(middle, previous) == Shown(middle)

(* What the prompt shows the model: the previous summary, and the history. *)
build_summary_prompt(middle, previous) ==
  Shown(WithoutSummaries(middle)) \cup previous

(***************************************************************************)
(* deterministic_fallback_summary, with one item to a section: the first   *)
(* 240 characters of the first user's and of the first assistant's text.   *)
(* Nothing of an earlier summary.                                          *)
(***************************************************************************)
deterministic_fallback_summary(middle) ==
  UNION {LET k == SelectInSeq(middle, LAMBDA m : m.kind = "chat" /\ m.role = role)
         IN  {<<middle[i].n, "lead">> : i \in {k} \ {0}} : role \in {"user", "assistant"}}

-----------------------------------------------------------------------------
(***************************************************************************)
(* digest_old_tool_results.                                                *)
(***************************************************************************)
AllResults(ms) ==
  FoldLeft(LAMBDA all, m : IF m.kind = "results" THEN all \o m.results ELSE all, <<>>, ms)

Full(says) == [says |-> says, digest |-> <<>>]

Digest(r, newer) ==
  [r EXCEPT !.content.digest = Append(@, [of |-> r.id, duplicate_of |-> newer])]

(* Seeded fault: the copy that is kept is the oldest. *)
OldestWith(all, content) == Min({i \in DOMAIN all : all[i].content = content})

NewestWith(all, content) == Max({i \in DOMAIN all : all[i].content = content})

Digested(all, r, serial, options) ==
  LET recent    == Len(all) - serial < options.keep_recent
      newest    == NewestWith(all, r.content)
      duplicate == newest # serial
  IN  IF ~recent /\ (duplicate \/ Length(r.content) > options.max_full)
      THEN Digest(r, IF duplicate THEN all[newest].id ELSE 0) ELSE r

digest_old_tool_results(ms, options) ==
  LET all == AllResults(ms)
      before(i) == Len(AllResults(SubSeq(ms, 1, i - 1)))
  IN  [i \in DOMAIN ms |->
         IF ms[i].kind # "results" THEN ms[i]
         ELSE ToolResults([j \in DOMAIN ms[i].results |->
                             Digested(all, ms[i].results[j], before(i) + j, options)])]

-----------------------------------------------------------------------------
(***************************************************************************)
(* The host.                                                               *)
(***************************************************************************)
Init ==
  /\ messages = <<Chat("system", 0, FALSE)>>
  /\ pending = {}
  /\ said = 0 /\ called = 0
  /\ compaction_count = 0 /\ digested = 0
  /\ protection \in Protections
  /\ allow_lossy_fallback \in BOOLEAN

Room == said + called < MaxMessages

UserSays(hidden) ==
  /\ Room
  /\ messages' = Append(messages, Chat("user", said + 1, hidden))
  /\ said' = said + 1
  /\ UNCHANGED <<pending, called, compaction_count, digested, protection, allow_lossy_fallback>>

AssistantSays ==
  /\ Room
  /\ messages' = Append(messages, Chat("assistant", said + 1, FALSE))
  /\ said' = said + 1
  /\ UNCHANGED <<pending, called, compaction_count, digested, protection, allow_lossy_fallback>>

AssistantCalls(count, text) ==
  /\ Room /\ called + count <= MaxCalls
  /\ LET ids == called + 1 .. called + count
     IN  /\ messages' = Append(messages, AssistantToolCalls(ids, IF text THEN said + 1 ELSE 0))
         /\ pending' = pending \cup ids
         /\ called' = called + count
         /\ said' = IF text THEN said + 1 ELSE said
  /\ UNCHANGED <<compaction_count, digested, protection, allow_lossy_fallback>>

(* One or several calls in progress are answered, in one message.          *)
ToolsAnswer(ids, says) ==
  /\ messages' = Append(messages, ToolResults(
                   [i \in DOMAIN ids |-> [id |-> ids[i], content |-> Full(says)]]))
  /\ pending' = pending \ ToSet(ids)
  /\ UNCHANGED <<said, called, compaction_count, digested, protection, allow_lossy_fallback>>

DigestPass(options) ==
  /\ digested < MaxDigests
  /\ messages' = digest_old_tool_results(messages, options)
  /\ digested' = digested + 1
  /\ UNCHANGED <<pending, said, called, compaction_count, protection, allow_lossy_fallback>>

(***************************************************************************)
(* A round: the middle of the split is summarised by the host's provider,  *)
(* which answers or fails.                                                 *)
(***************************************************************************)
Round(tail_start) ==
  LET split == split_partial_conversation(messages, protected_head_end(messages), tail_start)
      Replaced(summary) ==
        /\ messages' =
             upsert_compaction_summary(rejoin_partial_conversation(split, <<>>), summary)
        /\ compaction_count' = compaction_count + 1
  IN  /\ compaction_count < MaxRounds
      /\ split.middle # <<>>
      /\ \/ Replaced(build_summary_prompt(split.middle, rehydrate_summary(messages)))
         \/ /\ \E kind \in SummaryErrorKinds :
                  decide_summary_failure(kind) = "UseDeterministicFallback"
            /\ Replaced(deterministic_fallback_summary(split.middle))
         \/ /\ \E kind \in SummaryErrorKinds :
                  decide_summary_failure(kind) # "UseDeterministicFallback"
            /\ UNCHANGED <<messages, compaction_count>>
      /\ UNCHANGED <<pending, said, called, digested, protection, allow_lossy_fallback>>

CompactKeepingExchanges(exchange_count) ==
  Round(tail_start_for_last_user_exchanges(messages, protected_head_end(messages),
                                           exchange_count))

(* The tail of the budget, lengthened to the anchors and to whole pairs.   *)
Anchored(start, Test(_)) ==
  LET latest == LatestIndex(messages, Test)
  IN  IF latest >= 0 THEN Earlier(start, latest) ELSE start

CompactToBudget(budget) ==
  LET start == select_tail_by_budget(messages, protected_head_end(messages), budget)
  IN  Round(Align(messages,
        Anchored(Anchored(start, is_real_user_message), is_visible_assistant)))

Next ==
  \/ \E hidden \in BOOLEAN : UserSays(hidden)
  \/ AssistantSays
  \/ \E count \in 1 .. 2, text \in BOOLEAN : AssistantCalls(count, text)
  \/ \E S \in (SUBSET pending) \ {{}}, says \in Contents :
       \E ids \in SetToSeqs(S) : ToolsAnswer(ids, says)
  \/ \E options \in DigestOptions : DigestPass(options)
  \/ \E exchange_count \in ExchangeCounts : CompactKeepingExchanges(exchange_count)
  \/ \E budget \in TokenBudgets : CompactToBudget(budget)

Spec == Init /\ [][Next]_vars

-----------------------------------------------------------------------------

SummariesOf(ms) == {i \in DOMAIN ms : is_compaction_summary_message(ms[i])}

OneOf(ms, i, j, id) ==
  ms[i].kind = "calls" /\ id \in ms[i].ids /\ ms[j].kind = "results" /\ id \in ResultIds(ms[j])

(* Every variable keeps its type; after any number of rounds there is one  *)
(* summary, and where the system's prompt is protected it is in the part   *)
(* that the next round protects, where it is replaced and not nested       *)
(* (upsert_compaction_summary).                                            *)
TypeOK ==
  /\ \A i \in DOMAIN messages : messages[i].kind \in {"chat", "calls", "results"}
  /\ Texts(messages) \subseteq 1 .. said /\ call_ids(messages) \subseteq 1 .. called
  /\ pending \subseteq 1 .. called
  /\ compaction_count \in 0 .. MaxRounds /\ digested \in 0 .. MaxDigests
  /\ Cardinality(SummariesOf(messages)) = IF compaction_count = 0 THEN 0 ELSE 1
  /\ protection.protect_system_prompt =>
       \A i \in SummariesOf(messages) : i <= protected_head_end(messages)

(* Unless the caller has accepted a lossy fallback, of everything that     *)
(* user and assistant said at least the line of 500 characters that a      *)
(* prompt shows of it is in the transcript or covered by its summary, over *)
(* any number of rounds.  The rest of a long chat message goes with its    *)
(* first summary, consent or no (SummaryFailurePolicy, SummaryRequest,     *)
(* render_message_for_prompt).                                             *)
NothingIsForgotten ==
  ~allow_lossy_fallback =>
    \A n \in 1 .. said :
      n \in Texts(messages) \/ Line(n) \subseteq rehydrate_summary(messages)

Compacted == compaction_count' # compaction_count

(* After a round every result comes after its call, and every call has a   *)
(* result: providers refuse anything else (rejoin_partial_conversation).   *)
PairsStay ==
  [][Compacted =>
       /\ result_ids(messages') = call_ids(messages')
       /\ \A i, j \in DOMAIN messages', id \in 1 .. called :
            OneOf(messages', i, j, id) => i < j
       /\ \A m \in ToSet(messages') :
            /\ m.kind = "calls" => m.ids # {} \/ m.n # 0
            /\ m.kind = "results" => m.results # <<>>]_vars

(***************************************************************************)
(* What of a stretch of the transcript a round must not touch: the texts   *)
(* and the results, in their order.                                        *)
(***************************************************************************)
IsSpoken(m) == m.kind # "calls" /\ ~is_compaction_summary_message(m)

Spoken(ms) == Picked(ms, {i \in DOMAIN ms : IsSpoken(ms[i])})

NoOrphans(ms) == result_ids(ms) \subseteq call_ids(ms)

LastExchanges(ms, head_end, n) ==
  LET users == {i \in head_end + 1 .. Len(ms) : is_real_user_message(ms[i])}
  IN  IF Cardinality(users) < n THEN After(ms, head_end)
      ELSE SubSeq(ms, Max({i \in users : Cardinality({j \in users : j >= i}) >= n}), Len(ms))

(* A round that keeps n exchanges leaves the last n user texts with all    *)
(* that came after them, results included, as they were, and the protected *)
(* head; so does one that works to a budget with the latest texts of user  *)
(* and assistant (split_for_last_user_exchanges, latest_real_user_index,   *)
(* latest_visible_assistant_index).  Of transcripts with a result whose    *)
(* call is gone see AlignedTailIsWhole.                                    *)
RecentStays ==
  [][NoOrphans(messages) /\ Compacted =>
       LET head_end == protected_head_end(messages)
       IN  /\ \A n \in ExchangeCounts :
                CompactKeepingExchanges(n) =>
                  IsSuffix(Spoken(LastExchanges(messages, head_end, n)), Spoken(messages'))
           /\ \A anchor \in {LatestIndex(messages, is_real_user_message),
                              LatestIndex(messages, is_visible_assistant)} :
                (\E budget \in TokenBudgets : CompactToBudget(budget)) /\ anchor >= head_end =>
                  IsSuffix(Spoken(After(messages, anchor)), Spoken(messages'))
           /\ Texts(SubSeq(messages, 1, head_end)) \subseteq Texts(messages')]_vars

(* A digest pass keeps, of every content that is not too long, the newest  *)
(* copy in full, leaves the most recent results alone, and what it says is *)
(* a duplicate is one of the later result it names                         *)
(* (digest_old_tool_results).                                              *)
DigestKeepsNewest ==
  [][\A options \in DigestOptions :
       digested' # digested /\ DigestPass(options) =>
         LET before == AllResults(messages)
             after  == AllResults(messages')
         IN  /\ Len(after) = Len(before) /\ \A i \in DOMAIN before : after[i].id = before[i].id
             /\ \A i \in DOMAIN before :
                  \/ after[i] = before[i]
                  \/ /\ i <= Len(before) - options.keep_recent
                     /\ Length(before[i].content) <= options.max_full =>
                          \E j \in i + 1 .. Len(before) :
                            /\ Last(after[i].content.digest).duplicate_of = before[j].id
                            /\ after[j] = before[j] /\ before[j].content = before[i].content]_vars

(* Wherever a tail is cut, aligned it has the call of each of its results  *)
(* that has one before the cut.                                            *)
AlignedTailIsWhole ==
  \A cut \in 0 .. Len(messages) :
    LET start == Align(messages, cut)
    IN  result_ids(After(messages, start)) \cap call_ids(messages)
          \subseteq call_ids(After(messages, start))
=============================================================================
