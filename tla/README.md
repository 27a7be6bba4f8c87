# Verification of tinyjuice

TLA+ models of tinyjuice, TLC runs that check them on small instances, and TLAPS
proofs about them for every instance. The source is the reference: each
definition is translated from the lines `PROJECT.json` names for it under `map`.

## The system

tinyjuice compresses what an agent is about to read (tool results, file reads,
pages, conversations). What it drops it keeps in a store of originals (CCR), and
the compressed text carries a token to get the original back. It runs as a
library, as a command, and as a module on a host's bus.

| Component | State | Operations | What makes it correct |
|---|---|---|---|
| In-memory CCR store (`src/cache/store.rs`) | originals by token, eviction queue, byte total, limits | put, get, configure | caps hold, accounting exact, `retained` is true, oldest goes first |
| Process-global store and disk tier (`store.rs`, `disk_tier.rs`) | the same map, an optional durable tier, a directory of files shared between processes | offload, retrieve, configure, sweep | what is advertised can be retrieved, a sweep takes no more than it must |
| Instance store and its migration (`storage.rs`, `migration.rs`, `blob_store.rs`) | a memory tier, a durable handle, the host's blobs | put, get, set_durable, transform | what was acknowledged as durable lives as long as was said |
| Module service (`service.rs`) | options, limits, store, savings | setup, install, compress, retrieve, savings | an install is whole or leaves nothing |
| Router and typed pipeline (`compress.rs`, `pipeline/`) | none of its own; puts into a store | route | lossy output only with a retained original, never longer than its input |
| Tool integration (`tool_integration.rs`) | none | compact one tool result | summary first, then compressors, exactly one output |
| LLM summary stage (`summarize/mod.rs`) | summary cache, breakers | maybe_summarize | a summary answers its own question, breaker counts are right |
| On-demand summaries (`summarize/on_demand.rs`) | calls in flight | summarize_on_demand, the call's task | one call per key, every waiter is answered |
| Savings (`savings_store.rs`, `savings/ledger.rs`) | ledger, stored document, three flags | record, stats, reset, import | nothing lost, doubled or resurrected |
| Conversation (`conversation/`) | none; pure over messages, in rounds | split, sanitize, summarize, digest | a tool result stays with its call, nothing a prompt shows is forgotten silently |
| Delegated agents (`conversation/subagent.rs`) | none | hand-off of a transcript | the last answer survives, what is cut is counted |
| Live zone (`live_zone.rs`) | none | splice, detect | the frozen prefix is untouched |
| Compressors (`compressors/`) | none | one text in, one out | what is left out is counted, signals survive |
| Rule engine and shell policy (`reduce.rs`, `classify.rs`, `rules/`, `policy/shell.rs`) | none | reduce the output of a command | the best rule is used, a command is read as a shell reads it |
| REPL over stored outputs (`repl/`) | none | grep, find, search, sed, awk, ... under a scope | hits are where they say they are |
| Host plumbing, SDK, binaries, dashboard | one-shot tickets, configuration | | see *Not modelled* |

Components meet in a few places. The router, the typed transforms and the
summary stage all put into *some* `CcrStore` and believe its `retained` answer;
the instance store builds one `CcrStore` out of a memory store and a durable
one; the service shares one instance store, one summary state and one ledger
among the worker threads; the host's model is a callback awaited by the summary
stage; the host's document store is awaited by the ledger under its lock; the
commands share one directory of files.

What is hard to test is the order things happen in: a reconfigure between the
two halves of a get, a summary that arrives after its reader gave up, two
requests for one page, a model that panics, a storage write whose answer is
lost, a restart between a change and its write, the tenth compaction of a
conversation. And, in the pure parts, the combinations: a marker's number that is
one off, an error row that loses its place to a spread of others. `hazards` in
`PROJECT.json` lists these at their lines, with the properties aimed at each.

## The modules

| Module | Models |
|---|---|
| `Queues` | sequences without repetitions, as the stores and the summary cache keep them |
| `CcrInner` | `Inner`, the bounded map behind every in-memory store: operators only |
| `CcrContract` | what a caller may rely on in any `CcrStore` |
| `MemoryCcrStore`, `MCMemoryCcrStore` | the isolated in-memory store under concurrent callers |
| `CcrInnerProofs`, `MemoryCcrStoreProofs` | proofs about the two |
| `GlobalStore`, `MCGlobalStore`, `GlobalStoreProofs` | the process-global store with a durable tier or files below it, and proofs |
| `InstanceStore`, `MCInstanceStore`, `InstanceStoreProofs` | the module's service as a keeper of originals, and proofs |
| `ToolOutput`, `MCToolOutput`, `ToolOutputProofs` | tool integration, router and typed pipeline, over `CcrContract`; proofs about them, and about the shell policy, the hits and the replacements of `ContentTools` |
| `SavingsStore`, `MCSavingsStore`, `SavingsStoreProofs` | the savings ledger and its stored document, and proofs |
| `Summarize`, `MCSummarize`, `SummarizeProofs` | the summary stage, on ingest and on demand, and proofs |
| `Conversation`, `MCConversation`, `ConversationProofs` | compaction of a conversation, round upon round |
| `ContentTools`, `MCContentTools` | one call of any of the pure tools, which the modules below define |
| `ContentNotions` | the notions of the proofs about them; models nothing |
| `Lines` | what the line compressors share: kept lines and markers for the gaps |
| `LogLines`, `DiffHunks`, `SearchHits`, `TextCrusher`, `JsonTable`, `CodeStub`, `HtmlPage` | the compressors |
| `ShellPolicy`, `RuleEngine`, `RuleLayers` | the policy for shell commands, the rule engine, the layers rules are loaded from |
| `Inspect` | the operations over a stored output |
| `LiveZone`, `Handoff` | replacements in a prompt, and what a delegated agent hands back |

`CcrInner` is composed into the three stores; `CcrContract` is implemented by
`MemoryCcrStore` and is what `ToolOutput` runs over.

Definitions commented *seeded fault* are not part of any specification: each
is a changed copy of a definition, the way a plausible bug would change it, and
is there to show that a property notices. `mutants` in `PROJECT.json` says
which property notices which fault.

### In-memory store

`CcrInner` is the map, the queue and the byte total as a record. A token is the
hash of its original, so the token stands for the content and `Bytes` gives the
length of a set of originals; it is assumed additive rather than defined by
recursion, so that proofs can use it. The eviction loop is stated without
recursion: it stops at the first number of pops at which its condition fails.

`MemoryCcrStore` has an action per lock scope. `put` holds the read guard of the
limits through its insertion and `configure` the write guard through its trim,
so each is one step; `get` lets the guard go between reading the lifetime and
looking up, so it is two, and a `configure` or `put` may come between.
`stats`, which changes nothing, is left out. `CcrContract` is the abstract
store: a step puts one original or forgets some. `KeepsContract` is the
refinement, with the residents for what is held.

### Process-global store

`GlobalStore` is one process over a directory of files. A look at the file system
is a step, and between any two of them another process may write a file or its
sweep remove one. A write empties the file first: one that fails, ours or another's, or
is not done when it is looked at leaves it torn (`torn`), to be counted as nothing by a
sweep and answered as it is by a retrieve. A part of a text that got written stands with
the empty file. A sweep is two steps: the listing with its times, and the
removals it decides; the listing stays with the call in between. What a sweep removes
(`Evicted`) is stated in closed form, and `EvictedIsTheLoop` in `MCGlobalStore` is an
assumption TLC evaluates: for every listing of the instance it is what the loop of
`disk_tier.rs` removes. `Restart` begins the next command or hook, with empty memory,
a zero write count and the files that are there. `set_durable_tier` and
`configure_disk` are called at start-up, so the tiers are chosen in `Init`. What
the durable tier answers for is external. An original's file name is its token.

A call carries `calm`, a history flag that is false as soon as another caller,
another process, the clock or a configuration came between its steps. The
properties about what a call finds hold for calm calls: a store may forget at any
time, and no code here promises otherwise.

### Instance store

`InstanceStore` is the service as a keeper of originals. `Serve` follows
the migration of the legacy keys, blob by blob, that the host steps through before
it serves the object. `install` is five steps: the refusal before anything is
written, the caps, the durable store, the options and the answer, each under its
own lock. `compress` reads the options and then puts into memory, reads the
durable handle, and writes a blob; `retrieve` looks in memory, reads the handle,
reads the blob. `blobs` is the host's: it survives `Restart`, a write may be
applied although its answer is an error, and a read may fail.

The blobs of schema v1 that `Init` finds have any deadline or none: the drivers read
and migrate those with a ttl as well, and keep it. An install may ask for any lifetime,
zero included.

History variables: `origin`, the install each part of the configuration comes
from; `overlap`, two installs were in progress together; `promised`, until when an
original was last acknowledged to be durable; `shortened`, the originals whose blob was
then given a nearer deadline by a write that was applied but not acknowledged, or by the
migration. Only an acknowledged write changes a promise.

### Tool output

`ToolOutput` follows one result through `compact_tool_output`: the profile, the
summary stage, then the router with the handle, the typed pipeline and the
compressors. `at` is the stage, `opts` the options as the stages see them (Light
and the fallback after a timeout change them), `out` the answer. The store is
`CcrContract`: what holds here holds with every store that keeps the contract,
and `MemoryCcrStore` is proved to. Other requests put into the same store, and
it forgets, between any two stages; a put and what the request makes of its
answer is one step, because no answer is looked at twice.

A text is its length, and a compressor's result is a length and whether it is
lossy. Which kind was detected, the bloat score and the shell policy are choices,
so `TurnedAway` and `LowBloat` may happen whenever the stage is reached. The
profile "router" is a host that calls the router directly; "off" stands for Auto
too, which the tool integration refuses alike (`types.rs:13` says Auto is taken
as Full where it is not resolved). The summary stage is a choice among its
outcomes, `Summarize` is the model of how it gets there. Notices, reports and
statistics are left out.

### Savings

One lock is held through each call, so calls do not overlap; inside a call
every await is a step. A write may be applied although its answer is an error,
the document may be unreadable for any length of time, and the process may
restart anywhere. The cooldown between connection attempts is abstracted to "an
attempt may be unavailable". Aggregates are counts per event, which keeps apart
every loss and doubling; saturation and float costs are left out. The mode of
the instance (governed, legacy, standalone) is chosen at the start.

The host is external. It is assumed to record an event once, to retry only
after an error and only within one process, and to hand over the legacy
snapshot until told true. A host that retries across a restart could count an
event twice, which nothing in this code prevents.

### Summaries

The three maps are behind three locks, none held across another or across an
await; each acquisition is a step. An ingest request makes its own call; an
on-demand request waits on a task that outlives it. The host's model may
summarize, decline, fail, panic or never answer. Payloads, prompts and token
counts are abstracted to which guards they meet. A page includes the tool name.
Breaker counts are kept up to the threshold they are compared with. A task's
name is used again once nothing refers to it.

### Conversation

The library is pure. The agent that holds the transcript, appends to it and
calls the helpers is external, and `Conversation` is that agent: users, assistants
and tools speak, several calls may be in progress at once, some results come
late or in one message, and a round of compaction may begin at any time, by
exchanges or to a budget. A round is the split, the moves of the cut, the
sanitising of both halves, the summary with its failure policy, and the upsert.
A text is a serial number, and has up to three parts: its first 240 characters, what
more of it a line of 500 holds, and the rest (`Line`, `Rest`; only `LongTexts` have the
last two). A summary is the set of parts it covers: this is what
lets `NothingIsForgotten` look through any number of rounds. A prompt shows the line of
a chat message and the whole text of one with tool calls; the fallback keeps 240
characters of the first user's and assistant's text. A text between 240 and 500
characters stands with the short ones, of which only the fallback, which has to be
consented to, shows less. Tool results, of which a prompt shows 300 characters, are no texts
here. Positions are the
code's. Prompt wording, and the redaction of JSON values in a digest, are left
out.

### Content tools

Every tool that takes a text and answers once is an operator, and
`ContentTools` asks it with every text over a small alphabet. A behaviour is one
call: `Ask` chooses the tool and its input, one action per tool answers. The
properties relate the answer to the input; none of them is stated with the
operator it is about.

A text is a sequence of lines (rows, segments, tokens of a page) and an answer a
sequence of entries: a line by its number, or a marker with the number it says.
What the code *recognises* in a line (a keyword, a level, a path, JSON) is given
with the line by a constant, since regular expressions and parsers are not the
hard part; everything done with it is modelled, including the limits, which the
`.cfg` scales down. Lengths are lines times a constant.

What the inputs may be is said by named assumptions: the words of a command, any
that a shell ends where the marks around it say (`ScriptsAssumption`), the scopes and operations of a script over a stored output
(`LooksAssumption`), the matches of the detector, each within the text
(`FrozenAssumption`), the replacements in a prompt (`SplicesAssumption`), the
transcript of a delegated agent (`TranscriptsAssumption`), and in `Inspect` the rows
of a text (`RowAssumption`) and its limits (`LimitsAssumption`). They are types and the least a caller of the
code is sure of; the proofs need no more.

* `LogLines`: signal selection with its caps and stack traces, and templates.
* `DiffHunks`: context trimming, noise by path, the counts in its markers.
* `SearchHits`: grouping, ranking within a file, snippet windows.
* `TextCrusher`: greedy choice of segments by score within a budget.
* `JsonTable`: rows by shape, error rows, discriminators, change points,
  duplicates, spread anchors, constants; a query's rows. Scores in hundredths.
* `CodeStub`: brace depth collapse and the stub modes, from brace counts on; the
  tree-sitter build is not modelled.
* `HtmlPage`: the scanner of text and Markdown, tag by tag. Entities are not.
* `ShellPolicy`: the tokenizer and the five scans, character class by character
  class. Spellings of a word are bare, quoted or escaped; a quote may stand in the other
  quotes or behind a backslash, a backslash behind another or in single quotes. Words are
  apart, so operators glued to a word are no case; nor are substitutions and subshells.
  What changes something is what is on the code's lists, no wrapper such as `xargs` is
  looked through.
* `RuleEngine`: a line is its kind and its words. Filters, counters, on-empty and
  output matches, head and tail, the rewrites for `git status` and `gh`, the
  clamps, and what is answered. No colour escapes; exit code 0 stands for none. The run
  uses the rules as they are shipped where a property speaks of one
  (`generic__fallback.json`, `git__status.json`, `cloud__gh.json`), with their skip patterns,
  deduplication, counters and failure parts, and their heads and tails scaled down so that
  outputs are longer. The counters of `git__status.json` are left out: `reduce.rs:705` never
  shows any for its family.
* `RuleLayers`: directories as sequences of files, each readable, broken, a link
  or none of ours; custom, new and legacy directories.
* `Inspect`: operations under a scope, from a parsed script on; the cap is in
  number of hits. HTML headings and links, jq and the statistics are left out.
  A sed address 0 has no case of its own: the code takes the script `0,5p` and, no
  line being number 0, prints nothing for it.
* `LiveZone`: bytes, with characters of more than one; ranges as in the code. The
  detector starts from the matches of its expressions.
* `Handoff`: what is read in a line is given; the budget loop is the code's, over
  the length of the Markdown.

## The runs

| Run | Bounds | Shows |
|---|---|---|
| `memory_store` | 3 originals of 1, 2, 4 bytes; caps of 1 or 3 entries and 3 or 5 bytes; ttl none or 1; 1 reader; clock to 2 | the invariants, fair eviction, the contract |
| `global_store` | a short and a long original, one caller, a disk cap one of them fits, files whole or torn, a sweep at each second write, a clock to 1 | what is advertised is found, a sweep is fair |
| `instance_store` | one long original, at first no blob or one of v1 with any deadline, 2 requests at a time, 2 installs out of 4 kinds, one of them with a lifetime of zero, clock to 2 | installs are whole, promises are kept |
| `tool_output` | content of 5, footer of 2; every profile, option and size class; one other original | lossy is recoverable, tokens are good, nothing grows |
| `savings` | 2 events, the legacy batch, 3 modes | ledger and document agree with what was answered |
| `summarize` | 2 clients, 2 scopes, 3 calls, cache and breakers of 1 | one call per key, right answers, exact breaker |
| `summarize_live` | 2 clients, 1 question, 2 calls | requests end |
| `conversation` | a system prompt, 4 texts, two of them long, and calls with their results, 2 calls, 2 rounds, 1 digest pass | pairs stay, what is recent stays, no text is forgotten beyond the cut of its line |
| `content_tools` | all texts of up to five entries over alphabets of three to nine, and directed ones for the limits | accounting, signals, choice, faithfulness, places |
| `joins_running`, `light_exact`, `aligned_tail` | smaller | disagreements between the code and what it says of itself, below |

Bounds are chosen so that the cases meet. A content of five units and a footer of
two give a body that shrinks, one that is too long only with its footer, a heavy
crush that fits with it, and a body that does not shrink. Three originals fit, fill and overflow
both caps alone and in pairs, and one alone can be over the byte cap. One reader
between its halves is enough, because readers share nothing but the store.
Caches of one entry evict at every second key. The third failure of the real
breaker is the second here, one above the boundary case of one. Three names for
calls are enough for two clients: a starting call always finds one, which the
module's assumption states. Time stops at `MaxTime`; it is bounded so that
lifetimes of one tick can pass.

In `global_store` the second process is the environment, so one caller of our own
meets every file operation of others. The long original is refused by the
memory under one of the limits and expires under the other, so each of the three
tiers has to answer. In `instance_store` an install that takes the original and
one that refuses it, with a durable tier and without, make every mixture of
configuration observable with one original; more of them would only add
evictions, which `memory_store` has. Two calls and two rounds are the
least with which a result can lose its call in the second round. The limits of the
compressors are two or three, so that five lines go past each of them.

Properties worth noting:

* `CapsHold` is about the caps in force now, not those a put began under.
* `EvictionIsFair` holds *while the queue mirrors the map*. The antecedent is
  needed: an expired get breaks it, see below.
* `InstallIsWhole` holds while installs do not overlap: the service has no lock
  around one, and two at a time may leave the caps of one and the tier of the
  other. A compress that runs between the steps of one is covered.
* `PromiseKept`: across re-offloads under other lifetimes, lost answers, restarts and
  the migration, an original lives as long as was last acknowledged, but for those in
  `shortened`, until a write makes good for them: the code does not keep that promise
  (see below), and the property names the two steps that break it. Nothing else ever
  takes an original away, no failing write, install, restart or other blob's migration.
* `AdvertisedIsRetrievable` holds at the moment put answers, and excepts a
  lifetime of zero, under which it does not, see below.
* `LinesAreAccounted` for the fallback rule: adjacent equal lines go without a word
  (`dedupeAdjacent`), and every other line between the first and the last that is told is
  shown or counted.
* `SignalSurvives` for a git status: a path's state goes only in the omitted middle of a
  status longer than the rule's head and tail, where it is counted, and the rest is shown.
* `PolicyReadsTheCommand` judges by what separates commands for a shell, `&` included;
  it excepts commands with a bare `&` and with a backslash in single quotes, which are
  misread, see below.
* `NothingIsForgotten` promises the line of 500 characters and not the whole of a chat
  message: what is cut goes with the first summary that covers the message.
* `LedgerIsWhatWasTold` compares the ledger to what the answers given to the
  host add up to, on top of the document found at start-up.
* `AdvertisedIsHeld` is about the step that gives the token: a store may forget a
  moment later, so "the original is in store" is no invariant, and a token may
  not be given on the strength of an earlier put either.
* `ShorterOrUntouched` leaves summaries out. The stage compares a summary to
  the content before its footer is appended, so the whole may be longer.
* `BreakerIsExact` compares each breaker to a history of failures since the
  last success; a scope pushed out of the bounded map may be treated better.
* `ReformatIsFaithful` leaves out the texts named in its comment; they are
  known disagreements, below.

### Fairness

Only `Summarize` has liveness. `Fairness` is weak fairness of each client's own
steps and of each task's own steps after the host's reply: the runtime polls a
task that can go on, and timers fire. Nothing is assumed of the host's model:
its replies, panics and silence are free. This is why `RequestsEnd` promises
an end only to requests with a limit, and to any waiter whose call has ended. No
other component waits for anything but a lock or the host, and the pure tools
answer in one step.

## Where code and what it says disagree

Three have a run and a finding:

* `joins_running`: a panic in the host's call leaves its receiver in the map of
  running calls, and later requests for the key join it.
* `light_exact`: Light keeps only non-lossy reductions. After a summary timed out
  the fallback turns CCR on for the whole router; where the handle is not taken,
  a lossy transform or compressor answers.
* `aligned_tail`: a results message whose first result without a call is an orphan
  is not aligned for those after it, and the retained tail loses a call.

Others were met while modelling. The models follow the code, and the properties
leave the case out where they have to.

Stores:

* `store.rs:114` says configure keeps the entries that still fit. An expired
  get leaves its token in the queue (`store.rs:169`), and a live original that
  fits may be evicted for it.
* `store.rs:272` says one oversized item is rejected without wiping the store.
  The loop at 268 has evicted every other original by then.
* `blob_store.rs:36` says a tier without a ttl keeps originals until something deletes
  them. A rewrite under a ttl whose answer is lost (116) gives such an original an end
  that nobody is told of; so does migrating a blob of v1 with a deadline over one without.
* With `ccr_ttl_secs` of `Some(0)`, which install passes on (`service.rs:115`), the memory
  store answers retained (`store.rs:48`) and no get ever finds the original; the blob
  store refuses a zero lifetime.
* A file that a failing write has emptied, or that another process is writing, is
  answered as the original (`disk_tier.rs:57`, 86): nothing compares what was read with
  the hash.
* The sweep at each 128th write (`disk_tier.rs:24`) counts the writes of one process,
  and a hook process makes a few.
* `ResetSavings` "clears the totals, in memory and in storage"
  (`docs/specs/tinybus-module.md:133`). Best-effort storage answers Ok without it
  (`savings_store.rs:233`), and a restart brings the totals back.
* `on_demand.rs:12` says a repeat joins the running call. Cache and running calls are
  looked up under different locks, so a call that ends in between is made again.
* Reused call ids, and a call still in progress when its message is compacted away,
  are not matched again (`boundary.rs:23`, 43); the lossy fallback ignores the
  previous summary and keeps the first and not the latest items (`summary.rs:478`);
  an inserted summary shifts what `protect_first_n` counts.
* `build_summary_prompt` shows 500 characters of a chat message (`summary.rs:450`) and 300 of a
  tool result (471), and says "..." for the rest: it is gone once the summary replaces
  the message, although no lossy fallback was consented to.

Compressors and rules:

* `html_to_text` swallows the text after a "<" that starts no tag (`html.rs:173`);
  `html_to_markdown` has the check. A nested "<script" in a script counts twice.
* A log line with a literal "{}" makes a template ambiguous (`log.rs:280`); the last
  cut of a signal log is not counted (238-242). In `json.rs`, 1 and "1" show alike,
  as do null and "null", and flattened keys may collide. The marker of a diff
  undercounts lines such as "+++x". Lines between matches that are no matches are
  dropped without a count by `search.rs:141`, and so are those a rule's keep, skip or
  dedupe drops: `generic__fallback.json` drops adjacent equal lines uncounted.
* The elision that `enforce_stub_budget` adds is numbered by the lines of the stub,
  not of the source (`code.rs:484`). In the public mode a line with a keep marker may
  be elided.
* Tiny output is said to be returned verbatim (`reduce.rs:28`), but a shorter
  rewrite is preferred. The raw and shell-policy answers do not tell a failing
  exit code (802-815). No token is given when the rewrite is longer than the
  raw text, though lines were dropped (864). A `gh` record without a title is dropped.
* Mixed shell sequences are said to stay raw (`README.md:310`). A single `&` is no
  operator to the policy (`shell.rs:220`), so the output of `ls & rm x` is summarised; a
  backslash in single quotes, which a shell takes as it is, escapes the closing quote for
  the policy (203) and can hide what follows.
* A quoted ">" is taken for a redirection (`shell.rs:331`), which keeps output whole.
* A range of sed whose end line was deleted by an earlier `d` stays open
  (`sed.rs:240`); headings under a scope that starts inside a fence are inverted.

Live zone and hand-off:

* Replacements that overlap are refused with an error. An empty one listed after
  another at its place passes the comparison (`live_zone.rs:149`) and the slice at
  158 ends before it starts, which panics.
* What the policy cuts is never counted: each extraction truncates before
  `apply_policy_bounds` compares (`subagent.rs:310`, 370, 404 and 439-451).
* The numbers after a finding stay when the byte budget removes the evidence they
  name (473). `omitted_events` subtracts items from events (435).
* An empty last answer of the assistant gives one empty finding (303), and the
  conclusion comes from an earlier one.

## The proofs

`MemoryCcrStoreProofs` proves, for every finite set of originals, lengths,
caps, lifetimes, clients and clock bound: `TypeCorrect`, `CapsAlwaysHold`,
`AccountingAlwaysExact`, `NothingOrphaned`, `AnswersAreTrue`, `ContractKept` and
`EvictionStaysFair`.

`ToolOutputProofs` proves, for every set of originals, lengths of content and
footer and set of requests, and over every store that keeps the contract:
`TypeCorrect`, `NothingLostSilently`, `NeverLonger`, `TokensAreGood` and
`OffIsOff`. The strengthening is `Permitted`: the options as the stages see them
never allow a loss or a put that the host's own do not, whatever Light and the
fallback did to them. With it, each answer is shown to be one that is promised,
and the two properties of steps follow from the same invariant.
`NothingOrphaned` (`NoOrphan`) and `OffIsOff` (`OffStoresNothing`) are proved and
have no run.

The assumptions are those of the modules: `Bytes` maps sets of originals to
naturals and is additive over disjoint sets, originals are finite in number,
caps are positive, which `configure` ensures with `max(1)`, and "no lifetime" is
not a number; contents and footers are not empty.

For the store the argument is one inductive invariant, `IInv`: type
correctness, exact accounting, no orphan, caps and truthful answers together.
None is inductive alone. The caps are kept by eviction only because every resident original is
queued, so that popping the whole queue empties the map and, the accounting
being exact, brings the total to zero; and a put answers truthfully because the
loop stops before the newest entry unless that one is alone. `CcrInnerProofs`
has the lemmas: what `Dropped`, `Popped`, `Without`, `Evictions`, `Refreshed`,
`Pushed` and `Inserts` preserve. `Without` (retain) is the only one that needs
induction-like reasoning, done with a rank function that is a bijection.

`EvictionStaysFair` needs a second invariant, `AgedInv`: the queue is in order of age,
counting only the last place of an original. A queue that mirrors the map lists
nothing twice, so the original that is popped is the oldest; a queue with stale places
is ordered all the same, and the property says nothing of it. That a fitting put
evicts nothing and only what is too long is refused follows from the accounting.

`InstanceStoreProofs` proves every property of the instance store, for any number
of callers, installs and requests: `TypesHold`, `InstallsAreWhole`,
`PromisesAreKept`, `RetrievableIsFound` and `AdvertisedIsKept`. The types (`Typed`)
carry the byte accounting through the lemmas of `CcrInnerProofs`. Three
strengthenings rest on them:

* `WholeInv`: the install in progress is the last one begun, and it has written a
  prefix of caps, tier and options; so options <= tier <= caps <= begun, by the
  number of the install each comes from.
* `KeptInv`: each promise to an original that is not in `shortened` is covered by a blob
  under either key that expires no sooner. The migration may write an old blob over a
  newer one, with a nearer deadline; that is one of the two ways into `shortened`.
* `CalmInv`: what the tiers hold for a request nobody interferes with, phase by
  phase. Every step that could take an original away ends the calm, except a lookup
  under the lifetime in force, which drops only what is expired.

All five assume only what the modules do: installs may ask for any lifetime. What a
lifetime of zero takes back is said in `AdvertisedIsRetrievable` itself.

`SavingsStoreProofs` proves every property of the ledger, for any set of events and
every order of losses, retries and restarts: `TypeCorrect`, `LedgerIsTold`,
`NothingCountsTwice`, `AcknowledgedStaysStored` and `ResetStays`. It assumes
`AbsentAssumption` (no document is not a document). The invariant has four parts
besides the types: `Modal`, which steps each mode can be in; `Balanced`, the ledger is
the document found plus what was answered, and what the step in progress still owes is
said by its phase; `Single`, an event counts once in whichever of ledger and
document it is in; `Governed`, the flags say truly whether the ledger was
loaded and the legacy batch imported. None holds without the others: an import may be
retried only because the flag set after it is believed.

`SummarizeProofs` proves the safety properties of the summary stage, for any number
of clients, calls and keys: `TypeCorrect`, `KeyHasOneCall`, `OwnAnswer` and
`BreakerCounts`. The invariant says what is in the maps (`CacheHolds`, `BreakersHold`),
which running call a key, a task and a waiter agree on (`CallsMatch`), which names are in use
(`NamesInUse`), and that an answer is one the host gave for the same question
(`AnswersItsQuestion`). That a call which starts finds a free name is the lemma
`OneIsFree`, by counting: it needs the sets of clients, calls and keys finite, which
`BoundsAssumption` says.

`GlobalStoreProofs` proves every property of the global store, for any number of
callers, originals, limits and disk caps: `TypeCorrect`, `AdvertisedIsKept`,
`RetrievableIsFound` and `SweepStaysFair`. `CalmInv` is what an undisturbed call
still relies on, tier by tier and phase by phase: where the original it put is, or
which tier is known not to have it. It is preserved one action at a time, and each
action of one caller ends the calm of the others or changes no tier, which is one
lemma. `SweepStaysFair` is a property of steps: what is removed is the oldest, and no
more than must be. Its argument is that the evicted set is downward closed in age
order, so the files older than the first survivor are all of it, and the first survivor
shows that what is left fits. Which files are torn is
part of what an undisturbed call relies on. Lifetimes may be zero here too, as the library's
`configure` lets them be, with the exception that `AdvertisedIsRetrievable` states; the run
has lifetimes of one and none.

`ConversationProofs` proves, for transcripts of any length, any number of rounds and
any calls and answers of the host: `TypeCorrect`, `NothingForgotten`,
`PairsAreKept`, `RecentIsKept` and `NewestIsKept`. The proofs do not compute where a
round cuts: both loops are shown to end on a place between two messages
(`StepsDownFacts`, `AlignFacts`, `BudgetCutFacts`), the aligned one on a place from
which no result has lost its call (`TailIsWhole`), and that is enough. What sanitising and the upsert make of the parts
is related to the transcript by an order-preserving map of places (`Within`), along
which the invariant carries over. The invariant adds to the properties that no call
comes after one of its results (`Ordered`), that only the system's messages come before
a summary (`Seated`, which is why the protected head has it in it and the upsert puts
the next in its place), and that results have ids that were handed out, so that a new
call is never taken for an old one's.
`RecentIsKept` follows what is spoken after a place through the four parts of a round,
the cut, the cleaning, the removal of old summaries and the insertion of the new one:
each has it in the same order with nothing else that is spoken in between (`EndsLike`,
`PickKeeps`), which makes it a suffix (`SuffixFromPlaces`). `NewestIsKept` needs what the fold over
the results computes: that the fold exists, and that it has the results of each message
where the pass counts them (`FoldExists`, `FlatFacts`), are inductions over the
messages, done by the least counterexample, as those over the loops are.
`OptionsAssumption` says that budgets, protections and digest options are made of naturals.

`SavingsStoreProofs`, `SummarizeProofs`, `GlobalStoreProofs` and `ConversationProofs`
assume what their modules do and nothing else: `GlobalStore` that
disk caps are naturals and a lifetime is a natural or none.

Two invariants of the content tools, and a part of a third, are proved as well, in
`ToolOutputProofs`, for texts of any length. They say what folds compute, and the
library's induction theorems are out of reach; so a fold is read as a run of states, one
for each prefix (`FoldRun`), and a fact about runs is an induction by the least
counterexample. The invariant of all three is `CallAnswers`: what is asked is one of the
inputs there are, and an answer given is that of the tool for what was asked. The
words they are stated in, from a fold's run to a text that spells words, are
in `ContentNotions`.

`PolicyReadsEveryCommand` (`PolicyReadsTheCommand`): however the words of a command
are spelled, the policy answers for the command that was meant. The argument
follows the text through the code. A command spells its words at ascending
places, with spaces between them; the quoting scan is in the state the spelling
says at every place, and outside of quotes between words; so the tokens are the words, the
pieces between operators and the segments are those of the words, and
stripping a leading `cd` takes what was put there. Of quoted `<` and `>` it says only
that a bare one is always seen. `ScriptsAssumption` says no more of a word than that a
shell, too, ends it where its spelling does: a quote of its own is in the other quotes or
escaped, a backslash escaped or in single quotes. The last is where code and shell
differ, and commands that have it are excepted by the property, as are those with a
bare `&` from the half about what is let through; both are known disagreements.

`EveryHitIsInPlace` (`HitsAreInPlace`): a hit that a script shows carries the number its
line has in the whole stored output, in order where the operation promises it; sed prints the
lines of its addresses and counts those it has no room for; the values found in a frozen
prefix are inside it; and a finding that is handed over names the evidence its
lines mention. Four arguments meet in it:

* the hits of a slice are those of the output, shifted by where the slice
  starts (`ShownHits`), whichever operation found them; windows, summaries and rankings are
  sorted sequences, of which only the order and the members are used (`SortedIs`);
* sed is a scan with an open range: what `OpenAfter` says is open after a line is what the
  ranges up to it say (`OpenStep`, `RangeIs`), and with it the lines printed
  are those selected, in order and up to the cap (`SedPrints`);
* the values found in a frozen prefix are apart whichever expression found them, since
  one that overlaps an earlier one is dropped (`FrozenInPlace`);
* whatever the limits and the budget of a hand-over take away, findings and evidence
  that stay are beginnings of what was extracted, so the numbers of the evidence that
  stays still fit; only when bytes were short may a finding name evidence that
  is gone (`HandoffInPlace`).

The assumptions are `LooksAssumption`, `FrozenAssumption`,
`TranscriptsAssumption`, `RowAssumption` and `LimitsAssumption`.

`SpliceKeepsThePrompt` is what `ReformatIsFaithful` says of a prompt with replacements,
for prompts and lists of any length. The code sorts the replacements, compares each
with the one before it only, and copies what is between them; the property speaks of
the list as the host gave it, of every two replacements, and of where each byte ends up.
What joins the two:

* no slice that is copied ends before it starts, and the starts are in order, so each
  replacement ends before all the later ones start (`RowIs`): that neighbours do not
  overlap is then enough for all pairs (`AllowedWhereClean`);
* a slice that does end before it starts is two neighbours that start at one place, the
  second one empty: the only panic (`PanicMeans`);
* the text up to the k-th replacement is as long as the prompt up to there and what was
  gained by then, and each byte that was kept is moved by what was gained before it
  (`PastedPlaced`); that total, taken in sorted order, is the sum over the host's list (`SumIsTotal`, `ShiftedBy`).

The assumption is `SplicesAssumption`.

Model-checked only:

* `RequestsEnd`: liveness is out of the prover's reach.
* Four invariants of `ContentTools`: `LinesAreAccounted`, `SignalSurvives`,
  `NothingBetterIsLeftOut` and `ReformatIsFaithful`, of which the part about
  replacements is proved. Each ranges over up to ten tools, with sums over markers
  or scores, and each fold in them needs its own induction written out, as those of
  the policy, the hits and the splice have; this has not been done. The
  prover does not expand `SortSeq`, `SelectSeq`, `@@` or `Permutations` either, so that
  the compressors that are built on them would have to be reasoned about through other
  definitions.
* `EvictedIsTheLoop` for listings of any length, for the same reason.

## Not modelled

* `retrieve_range`, recovery markers, notices, reports and statistics: text
  around what the models carry as a token and a length.
* Host plumbing (`src/host`): a one-shot ticket, whose check and removal are one
  lock scope, and two wrappers around the store and the model.
* Detection, token counts and BM25: choices or given scores in the models.
* `web_extract.rs` and `log_template.rs`, which nothing in the library calls, and
  `adaptive.rs`, `anchors.rs` and `tag_protect.rs`, which are no modules of the crate.
* The tree-sitter build of `code.rs`, `generic.rs`, jq, the statistics of the REPL,
  `rules/verify.rs` and the cache of loaded rules.
* SDK, protocol, binaries, bus types, dashboard: parsing, I/O and wire formats.
* Recorder callbacks of `src/savings.rs`, and the sampling of oversized inputs.

## The plan

The model is complete as far as state goes. Every property a run checks of a module
with state is a theorem, `RequestsEnd` apart, and so are two of the six of the
content tools and the splice part of a third. What is left is listed above under
"Model-checked only": first
`LinesAreAccounted` for `Lines`, which the line compressors share, then one
compressor after the other.
