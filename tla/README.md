# A verification project for model-router

TLA+ modules, TLC configurations and TLAPS proofs for the routing gateway in this
repository: an OpenAI-compatible server that decides, per request and under a policy, which
provider and model answer it, streams the answer with fallback to other providers, and
accounts for what happened. Every definition is translated from the Go source;
`PROJECT.json` maps each one to its lines. Where a comment, test or document says something
else than the code does, the module follows the code; where TLC shows the
difference, the [table below](#disagreements-found) names the run or configuration, and the
disagreements that are only described come after it.

Contents: [the system](#the-system), [modules](#the-modules-and-the-code),
[runs](#the-runs), [bounds](#bounds), [fairness](#fairness), [proofs](#proofs),
[disagreements found](#disagreements-found), [only model-checked](#only-model-checked),
[not modelled](#not-modelled), [plan](#plan).

## The system

A request `POST /v1/chat/completions` passes the authentication middleware and then
`ChatCompletionsHandler` (internal/server/chat.go), in this order:

1. `applyBudget`: reject with 402, force cheap mode, or let pass;
2. look up the policy of the project, its tenant or the default (and a shadow policy);
3. look in the decision cache, if the job is low-risk and not sensitive;
4. otherwise `Engine.Decide`: evaluate the rules, then disabled / blocked / pinned / filtered
   and scored; health is read live;
5. store the decision, if it is one and cacheable;
6. enqueue a decision event, whatever the decision was;
7. call the provider: `streamWithFallback` goes down the candidates; a non-streaming request
   runs through the context pipeline and the prompt rules and makes one call, which the
   provider's adapter may retry; every attempt is recorded with health and as an event.

Before step 1 the body becomes a job descriptor: features of the text, a task, a risk, a
sensitivity, and the client's hints.

One worker goroutine takes events off a bounded queue and hands them to the log, the metrics,
the spend tracker, the budget ledger, the comparison tracker and the request log. `cmd/router`
wires all this, saves the spend tracker every 30 s and once on shutdown; `cmd/worker` sweeps
expired data.

### Components

| component | state | operations | talks to |
|---|---|---|---|
| request path (server/chat.go) | none of its own; one goroutine per request | the steps above | everything below |
| streaming with fallback (server/chat.go, provider/openai.go) | per request: candidate, contexts, channel; per attempt a reader goroutine | open, first chunk / timeout / error / close, drain, record, cancel | health, event queue, provider adapters |
| routing engine (engine) | registry snapshot, conservative switch | Decide, hard filter, score, fallback chain | policy, registry, health |
| policy language (policy/parser.go, compiled.go) | none | parse, validate, compile, match | policy store, registry |
| policy store (policy/compiled.go) | map of compiled policies behind an atomic value | Evaluate, Active, Reload | engine, audit |
| decision cache (decisioncache) | map with expiry | Get, Put | request path |
| budget (budget) | caps; ledger per tenant and project | Check, Add | request path reads, the queue's worker writes |
| event queue (eventlog) | channel, drop counter | Enqueue, Run with panic recovery and drain | all request goroutines to one worker |
| spend (spend, cmd/router) | totals per model and tenant; a file | count, Snapshot, SaveJSON, LoadJSON | worker, ticker, main |
| health (health) | ring of outcomes per provider | Record, Health, Snapshot | attempts write, engine reads |
| request log, comparison tracker (eventlog) | bounded memories | Handle, List | worker writes, dashboard reads |
| provider, retry and prompt adapters (provider) | none | Complete, with retries; rewrite of system messages | request path, providers |
| context pipeline (contextproc) | per request: a copy and a goroutine per processor | run processors, fail open | request path |
| registry, profiles | immutable snapshots | Active, Swap | engine |
| classifier, job descriptor (classifier, router/job.go) | none | features, task, risk, sensitivity, hints | engine, policy, decision cache |
| keys, tenants, audit (auth, tenant, audit) | key map, audit log | authenticate, revoke, record | middleware |
| outcomes | list of reported outcomes | record | dashboard |
| retention (retention, cmd/worker) | windows per tenant; a ticker | plan, sweep, purge | tables |
| simulator, cost, secrets, metrics, evals, tools | none or counters | text and number conversion | |

### What is hard, and what correct means

- **Streaming.** Handler and reader meet on an unbuffered channel; the wait for the first
  chunk selects over the channel, a timer and the client; a reader whose context ends may
  abandon its chunk. Correct: the client reads bytes of one candidate only; every attempt is
  recorded once; no reader is left behind; the request ends; `[DONE]` means everything came.
- **Event queue.** Any number of producers, one consumer, a full buffer, panics, a stop while
  events arrive. Correct: every event meets one fate, in order; a panic does not stop the
  worker; a graceful stop handles everything accepted before it.
- **Routing.** Rules merge in order, four paths lead through `Decide`, floors and forces
  interact. Correct: no path forgets a restriction, no fallback weakens a risky answer.
- **Spend file.** Two savers, one temporary name, crashes, restarts. Correct: the file is
  never torn, invents nothing and never goes back to less than it held, as long as savers do not
  overlap and a start can read the file it finds.
- **Health.** A ring buffer and a feedback loop from outcomes to routing. Correct: only recent
  outcomes count, and a dead provider is left alone.
- **Request path.** Budget read before, charged long after; decisions computed under one
  policy and stored under another; entries that outlive what they were made from. Correct: a
  decision answers the request it is used for; a cap is overspent by no more than
  what is under way and what the queue dropped.
- **Non-streaming call.** Processors that hang, panic or answer late, three kinds of timers,
  retries, a client that leaves. Correct: what is sent carries the edits of the processors
  that are reported as applied and of no other; the pipeline fails open; a dead request is not
  retried; the request ends and so does every goroutine that can.
- **Descriptor.** Hints by several routes, risk raised step by step. Correct: a hint raises
  and never hides; what is shared through the cache shows no feature of risk that the classifier
  recognises.
- **Policy reload.** A sequence of sources compiled one by one while requests evaluate and the
  registry is swapped. Correct: a request is answered by one policy in one version, and merged
  hints name only what exists.
- **Memories behind the queue.** A lossy queue, a handler that panics, IDs chosen twice, a ring
  that evicts. Correct: a row never shows another request's outcome.
- **Retention.** One window per tenant, a default sweep for the others, failing statements,
  restarts. Correct: nothing is purged early, everything expired goes in the end.

The hazards are listed one by one, at their lines, in `PROJECT.json`.

## The modules and the code

`M_proofs` holds the theorems about `M`, `PolicyRouting_proofs` those about `PolicyStore` and
`Routing`, `Windows_proofs` those about `HealthRouting` and `Retention`; `MCM` gives TLC values
that a cfg cannot express. Definitions called "Variant of X" or "Mutants" in their comments are
the plausible bugs that the mutants of `PROJECT.json` put in the place of X to show that a
property can fail.

### StreamFallback, StreamContract

`StreamFallback` is `streamWithFallback` against one reader per candidate. The handler's `pc`
says where it is: about to open the candidate `cur` (chat.go:329), waiting for its first
chunk (346), draining it (414), returned. `ctx[c]`, `reader[c]` and `pend[c]` are the attempt
context, the goroutine of `OpenAIAdapter.Stream` and the chunk it is about to send. A chunk
changes hands when the handler receives it (`FirstData`, `NextErr`, ...); `Abandon` is the other
branch of `sendStreamChunk`'s select. Each way out of the first wait is an action
(`FirstErr`, `FirstClosed`, `FirstTimeout`, `ClientLeft`) with its own record, cancel and
continue. `success` and `failure` count `recordStream` calls.

`StreamContract` is the same request without goroutines, channels and timers: candidates are
given up in order, the first byte fixes the source, the response ends once. `StreamFallback`
implements it (`ImplementsContract`).

### EventQueue, LossyFifo, RequestLog

`EventQueue` is `Queue`: `Enqueue` (accept or drop and count), the worker's select, the handler
call as two steps (`Take`, `HandlerEnds`, with `recover`), the cancellation, and the drain, whose
handler calls are not recovered (`DrainPanics`). `LossyFifo` is what the rest of the system
relies on: events settle in the order accepted, one is turned away only while `Size` wait.

`RequestLog` composes the queue with both its ends. Requests enqueue a decision and then the
attempts of the primary and of a fallback (`Decide`, `Call`, `FallBack`). The steps of the worker
that end a handler call also run the fan-out of eventlog/multi.go (`FanOut`): the comparison
tracker (`Compare`) and the request log (`Log`, with `addDecision` and `fillAttempt`) in that
order, each possibly cut short by a panic. Two requests may carry one ID, since the client
chooses it; then `fillAttempt` writes into the newest row of that ID, whoever it belongs to, and
the properties speak only of requests whose ID is their own.

### Classifier, JobDescriptor

`Classifier` is features.go, task.go and risk.go as operators. A text is the set of the phrases
in it, one phrase for all terms the rules cannot tell apart; a phrase that holds a shorter term
also hits the rules of the shorter one, as substring search does. `JobDescriptor` is
`NewJobDescriptor` with the places a hint is looked for, in order, and `Cacheable`. Its two
actions are the first request (`Describe`) and a conversation that goes on by a phrase
(`Continue`) and stays as long or grows, since a client sends the whole conversation each time.
The sensitivity hint replaces the derived value in one field, `sensitivityHint`, which is logged
(job.go:230) and decides nothing: `Cacheable` reads the sensitivity of the text.

### PolicyLanguage, PolicyStore

`PolicyLanguage` is parser.go and the compilation and matching of compiled.go over the tree the
YAML library delivers: decoders with their vocabularies, `Validate` against a registry
snapshot, hint normalisation (`Compiled`), matchers (`Matches`) and the merge of all route
sections (`Merge`). A mapping with a repeated key keeps its last value. Which path a glob
matches is a constant relation. A hint fills a field only if the rule's own section leaves it
unset; a stricter hint beside a section (`max_cost_usd`, `retention`) is therefore dropped.

`PolicyStore` is `Cache` and the registry's `Store` while requests evaluate. A reload takes one
source per step (`CompileSource`), may be refused at any of them (`RejectReload`), installs the
map at once and audits scope by scope; a request holds the policy it looked up (`Ask`) and goes
through its rules one per step (`EvaluateRule`). One reload runs at a time. `cmd/router` builds
the cache once and calls neither `Cache.Reload` nor the registry's `Reload`: the module is about
the two types as the package offers them.

### PolicyMerge, RouteEngine, Routing

`PolicyMerge` is `mergeRoute`: how one more matching rule changes the route. `RouteEngine` has the
engine's pure parts as operators: the tier floor, the hard filter, the ranking as any order of
the candidates (the weights of the score are abstracted away, so the properties hold for every
score), and the fallback chain. `Routing` composes them: matching rules are merged one at a time
in any order, then one of `DecideDisabled`, `DecideBlocked`, `DecidePinned`, `DecideScored`
decides. The set of models seen as healthy is any set, since filter and score read the live
tracker.

### SpendPersistence (with EventQueue)

The tracker counts what `EventQueue`'s worker settles (INSTANCE). The ticker and main's
shutdown each run `SaveJSON` step by step: read the model totals, read the tenant totals, open
and truncate `path.tmp`, write, rename. Directory entries point to inodes, so that two savers
may hold the same or different files. A crash ends the process anywhere, a write may fail, and
`Restart` loads the file (`Load`): it starts from zero when the file is missing or does not parse,
and also when the read of a whole file fails, since main takes every error of `LoadJSON` for a
warning. `unread` remembers such a start, after which the next flush does replace the file by
less.

### CallPath

A non-streaming request from the context pipeline to the answer. `pc` says where the handler is.
Each processor works on a clone (`CopyFor`) in a goroutine of its own (`worker`), reports on a
channel with room for one (`done`), and is waited for until its result, its hard timeout, the
pipeline's timeout or the client's departure; a goroutine given up on goes on. Several ready cases
of a select are several enabled actions. Then the prompt rules (`AdaptRequest`), and the
attempts with their deadlines, errors and backoff (`Attempt` to `BackoffCancelled`), the record
and the answer. The module covers the routed and the legacy request, and providers with and
without `RetryAdapter` (`req.wrapped`); `cmd/router` wraps none, the adapter is there for the
configurations that do. As the code has it, a client that leaves counts as a failure of the
provider, and a retriable error that outlasts the retries becomes a 504 whatever it was.

### SlidingWindow, HealthTracker, HealthRouting

`HealthTracker` is the ring of outcomes and the score derived from it; `SlidingWindow` says
what it stands for, the sequence of the last `Window` outcomes. `HealthRouting` closes the
loop: requests are routed over healthy providers (or pinned), their chain is fixed at that
moment, attempts fail or succeed with the provider, outcomes are recorded, providers go down
and come back. Every request there is decided anew; what the decision cache does to it is in
`Gateway`.

### BudgetCaps, DecisionCache, Gateway

`BudgetCaps` and `DecisionCache` are the two components, one operator per method. A scope is a
tenant with a project or the tenant as a whole; a project's cap governs its requests even if
it is unlimited. An entry of the cache carries the clock units it has left, since only
differences of times are compared.

`Gateway` composes them along the request path, one action per point where another goroutine can
come in between: `Admit` (`applyBudget`), `CacheHit` / `CacheMiss` / `CacheBypassed` (the policy
lookup and `Get`), `Decide`, `Store` (`Put`) and `Send` (`enqueueDecision`); `Charge` is the
ledger's handler on the worker; `Reload` and `TimePasses` go on around it. A decision is reduced
to whether it routes, what it costs and the question it answers, in `made`. The event queue is the
`LossyFifo` that `EventQueue` implements, seen by decision events alone: attempt events share the
channel, so a decision event may be dropped (`Drop`) however few decision events wait. A dropped
event is never charged; `incurred` and `dropped` keep what was decided and what was lost. Policy versions are assumed to tell policies apart, as
the key does: a reload that changes rules and keeps the version string is outside the model.

### Retention

The cleaner and its worker process: the plan of DELETEs that a sweep builds from the settings
(`SweepPlan`), executed one by one (`Purged`, `PurgeFails`), the ticker with its channel of one,
cancellation, kill and restart, while rows are written and days pass. `Matched` is the WHERE
clause of `SQLPurger`. The default sweep excludes every tenant in the settings, and each of
those has a sweep of its own, also when it only inherits the default. `cmd/worker` runs the
cleaner with the purger that logs instead of deleting, and configures no tenant; the module
is about the package with the purger that deletes.

## The runs

Passing runs:

| run | what it shows |
|---|---|
| `stream_fallback` | one request, three candidates, one with a deadline of its own: one verdict per attempt, readers cancelled and released, `[DONE]` after every frame, one source per response and one end of it (the contract), and that the request ends |
| `request_log` | three requests, two of them under one ID, a channel of two, two rows: the drain's promise, the FIFO, accepted events are handled, rows tell the success of their own request, both memories hold the newest of what reached them |
| `routing` | every ordered pair of 14 kinds of rules, every kind of job: deny lists, risky requests never downward, uncertain ones never cheap, and scored attempts within the capabilities and latencies of every rule |
| `policy_store` | reloads that are accepted, refused by the parser, by the registry, by a glob or by their scopes: a request is answered by one policy of one offer in all its rules, merged references resolve, no rule that spoke is weakened |
| `job_descriptor` | conversations of up to three phrases with every hint: what is shared shows no feature of risk the classifier recognises, hints only raise, two derivations of sensitivity agree, stakes in context are at least high, risk drops only by a stated intent |
| `call_path` | one request, two processors, one retry: what is sent carries what was applied, late results are dropped, the pipeline fails open, one orphaned attempt at most, the request is answered, no goroutine leaks |
| `spend_persistence` | three lives, both savers, failing reads and writes, crashes between any two steps: a torn file only after overlapping saves, nothing invented, no loss without overlap or a start that could not read |
| `health_routing` | two requests, two providers, a window of two: the ring is a window, a dead provider is shed |
| `gateway` | two concurrent requests, a blocking and a downgrading cap, one cache entry, a queue of one: a request's decision is its own, no block is bypassed through the cache, over budget means cheap mode, the overspend is bounded up to dropped events |
| `retention` | three tables, one broken, tenants with longer, shorter and inherited windows: only expired rows are purged, and they are purged in the end |

Runs that TLC is expected to refute are in [disagreements found](#disagreements-found).

Each property of a passing run has a mutant in `PROJECT.json`: a changed definition under
which the same run finds the property violated. The type invariants are not among the runs'
properties: the theorems `TypeCorrect` state them for every instance, and elsewhere the typing
is a part of a proved invariant (`Inv` of `SpendPersistence`, `RecordsInv`, `StoreInv`,
`CleanerInv`).

## Bounds

- `StreamFallback`: N = 3 candidates give a first, a middle and a last; two data frames give a
  first and a later one, so a frame can be dropped between two others. One candidate has an
  adapter deadline, the others wait for the handler to cancel them.
- `RequestLog`: six events that can be sent against two slots and one in hand, so
  drops, a full buffer at the cancellation, and a poisonous event in front of or behind others
  all happen. r1 falls back, r3 shares the ID of r2, r2's decision makes a handler panic; with
  `Limit = 2` a row is evicted before its attempt arrives.
- `Routing`: `MaxRules = 2`, since every field merges pairwise; five models cover two providers,
  three tiers, a switched-off model, an unknown latency, a model without json_schema, and one
  provider name shared by two models; 99 is a model that a rule denies and clients name although
  the registry has it no more.
- `SpendPersistence`: three lives of one event each, so that a second restart loads what a
  restarted process saved; a queue of one; three inodes (the file, the temporary file, and one
  for the next open). Inodes are symmetric.
- `HealthRouting`: a window of two wraps and is judged once full; one success in two keeps a
  provider in, none throws it out, as with 100 and a threshold of 0.1.
- `PolicyStore`: `MaxReloads = 3`, `MaxSwaps = 1`: an accepted offer can be followed by a
  refused one and by another accepted one, around a swap. One request, since requests only
  read; eleven documents, fourteen offers, three registries (one invalid), four inputs.
- `JobDescriptor`: a conversation begins with any pair of phrases and is followed to three
  (`MaxPhrases`); no rule needs more than three phrases to fire. Hints are varied without further
  needs of the request and needs without hints, since no rule joins the two. The sizes 2 and 5
  stand for 240 and 32000; requests are of size 0 (empty), 1, 3 or 5, and a conversation grows
  to any larger of 1, 3 and 5, so that it crosses both.
- `CallPath`: three of the kinds of request, routed and legacy, with and without pipeline, system
  message and retries, each of them at least once; two processors give a first and a last; one
  retry gives a backoff and a last attempt; the replies are a success, an undecodable success, a
  retried status and one whose body says the model is gone.
- `Retention`: a default of two days against overrides of three, one and none, so the default
  cutoff is on either side of a tenant's own. Rows do not interact, so `MaxRows = 1`; `MaxDay = 4`
  lets the longest window pass; `MaxLives = 2` gives a restart. The first table of the sweep
  always fails.
- `Gateway`: the bound on the overspend is limit - 1 + MaxCost * (Size + 1 + slots) = 4 with
  these values, and one more per dropped event; five requests (`MaxRequests`) are the fewest that could exceed
  it. One tenant with one project has both scopes; two policy versions, one of which blocks;
  one cache entry, so that storing clears the other. Slots are symmetric.

## Fairness

Only where the code's scheduling gives it, weak but for one case, and never on the environment:

- `StreamFallback`: the handler runs; a reader whose context is done notices (its select and its
  read both end); the deadline of an adapter that has one arrives. No provider is obliged to
  send anything and no client to leave. Writing to the client is a part of the handler's steps:
  that they end assumes that the client's socket accepts writes, or its connection fails, since
  main sets no WriteTimeout (main.go:246). That is enough for `HandlerReturns` only because the
  candidate that is drained either has a deadline or keeps being read; the property says so.
- `RequestLog`: the worker runs and handler calls return (all handlers of the repository are
  bounded in-memory work). Go's select may prefer events to the cancellation, but only while
  there are events, and these are finite.
- `HealthRouting`: attempts end, since the adapters in cmd/router have deadlines, and requests
  keep coming. Providers may stay down or up.
- `CallPath`: the handler runs, a goroutine with room to report does, and timers fire: the
  pipeline's, a processor's, and the deadline of an attempt (the HTTP clients of cmd/router
  have timeouts, main.go:62 and 96). Processors and providers owe nothing.
- `Retention`: the worker's goroutine runs and the ticker ticks. Strong fairness, the only one,
  is about a table that works: a statement that is tried in sweep after sweep succeeds in the
  end, though it may fail any number of times before. A broken table gets none.
- `Routing`, `PolicyStore`, `JobDescriptor`, `SpendPersistence` and `Gateway` claim no liveness
  and assume no fairness.

## Proofs

TLAPS proves, for every value of the constants under the named assumptions of the modules:

- **StreamFallback_proofs.** `InvHolds` for any number of candidates and length of stream: the
  candidates before `cur` are rejected, cancelled and recorded once, those after it
  untouched, the current one in step with its reader (frames read = frames forwarded, or one
  more while a chunk is in hand). Safety alone is not inductive: that a late candidate has no
  verdict yet is needed to show that it gets only one. From it `TypeCorrect`, the safety
  properties of the run, and `Refinement`: `SafeSpec => ImplementsContract`.
- **RequestLog_proofs.** About `EventQueue` first. `InvHolds`: the drain is entered only after
  the cancellation, and what was promised is never more than what is settled, in hand or in
  the channel. From it `TypeCorrect`, `DrainKeepsPromiseHolds`, `PanicContainedHolds`, and
  `Refinement` to the FIFO. `AcceptedAdvances`: an accepted event keeps its number, and every
  step of the worker brings it closer to the end of its handler call, whatever is enqueued
  meanwhile; this is the ranking that `AcceptedIsHandled` rests on, and all of it but the use of
  fairness. Then `QueueInside`: the composition runs the queue as specified, so
  `PromiseToRequests` carries promise and FIFO over to the request path without a second proof.
  Last the memories, with `RecordsInv`. That rows tell the success of their own request is not
  inductive: it needs that a decision comes before every attempt of its request in all that was
  accepted, that a request has at most one success (both by `stage`, whatever is dropped in
  between), that rows are of distinct requests whose decisions were handled, and that the log
  misses exactly the poisoned events. `RecordsAreNewestHolds` rests on two lemmas about
  positions (`LogOfMore`, `RecentOfMore`): one more position puts one more in front of each of
  the others, in `Newest` and in `First` alike.
- **PolicyRouting_proofs.** For `Routing`, `InvHolds`: the merged route contains the restrictions
  of every rule merged so far. From it `TypeCorrect`, `DenyListsHold` on every path through
  `Decide` (denied models by ID or by the name a disabled request gives, denied providers of the
  models named by ID: a disabled request by a provider's own name escapes, `NoOverridePath`),
  `RiskyNeverDownward`, `UncertainNeverCheap`, and `ScoredWithinConstraints`: a merged latency is
  the least of those set and denied capabilities are united, so what passes the hard filter has,
  lacks and is fast enough for what each rule says, json_schema apart. For `PolicyStore`, `StoreInv`: the map under construction is made of the first sources
  of its offer, the active map of all of its own; what a request holds is the policy the precedence
  of scopes names in the offer that was in force when it asked; and after n rules its match list,
  its block and the restrictions in its route are those of the rules up to n that speak to it.
  From it `AnswerOfOneOffer`, `ReferencesResolve` and `RestrictionsSurvive`, for any documents,
  offers, registries and requests. Then the two modules are joined: `Seen` is what the engine
  reads of a merged route; `MergeIsSeen` says that merging commutes with it (`Merge` there is
  `MergeRoute` here), and `EvaluationIsRouting` that an evaluation goes by `Routing`'s rule
  steps: the rules `Routing` merges are not an idealisation of the parsed ones.
- **SpendPersistence_proofs.** `InvHolds`: as long as savers have not overlapped, path.tmp and
  path are different inodes, path is whole and not ahead of memory, and a saver works alone on
  what it will rename. That the file is not ahead of memory holds only of a life that could read
  what it found (`unread` is false); the rest holds of every life. From it `TornOnlyByOverlap`,
  `NothingInvented` and the action property `PersistedNeverShrinks`, with the same exception.
- **Windows_proofs.** The two that look back over a window. `HealthRouting`: before it is full the
  ring has not wrapped (`InvHolds`). From it `TypeCorrect`, `WindowImplemented` (the refinement
  mapping reads the ring from the oldest slot) and `ScoreOfRecent`. `Retention`: a statement of
  the plan has a cutoff no later than what its tenant's window allows today, and a default
  sweep excludes every tenant of the settings where there is a tenant to exclude
  (`CleanerInvHolds`); days only go forward, so a plan stays lawful however late it is executed.
  From it the action property `OnlyExpiredIsPurged`.
- **Gateway_proofs.** `RequestsAndCacheAgree`: every stored decision answers exactly the
  questions its key stands for, and every request has a decision for its own question. That the
  key determines the question (`KeyTellsApart`) is the step that a key without tenant, project,
  mode or policy would break. From it `DecisionIsOwn`, `CacheBypassesNoBlock` and
  `OverBudgetIsCheap`. For `OverspendBounded`, `LedgerBehind` relates the ledger to what is
  owed through the history `accrued`: what is owed exceeds the ledger by no more than the
  waiting events, each of `MaxCost` (no recursion over the queue is needed); a request is
  admitted only below the limit, and its event takes out of what is in flight as much as it
  adds to what is owed (`ChargesBounded`). What was decided is owed, or was lost with a dropped
  event (`CostsInv`), which adds the term for the drops. `TypeCorrect` includes the size of cache and queue.

- **CallPath_proofs.** The invariant says which copy carries what: copy 0 the edits of the
  applied processors and, after `AdaptRequest`, the prompt rules once; a processor that still
  runs touches only its own. It needs that at most one processor is waited for and that a
  processor behind it has not begun. From it `SentIsWhatWasApplied`, `LateIsDropped`,
  `FailsOpen` and `OneOrphan`, for any number of processors, rules and retries.
- **JobDescriptor_proofs.** `RiskIsMonotone`: for one task, more features never mean less risk,
  whatever the order of the escalation's steps. `DropsOnlyByIntent` (the action property
  `RiskDropsOnlyByIntent`) needs more: the features of a longer conversation include those of the
  shorter (`FeaturesGrow`), outside the three exceptions the task only moves to one of no less
  base risk (`TaskRises`), and the client's hint, which raises only, cannot turn that around
  (`HintIsMonotone`). `HintsNeverLower`, `SensitivitiesAreOne`, `StakesAreHigh` and
  `SharedShowsNoRisk` for every request and any length of conversation; the last has a lemma that
  a signal of risk leaves low only with a stated intent beside it (`SignalNeedsIntent`).

The assumptions are those in the ASSUME of each module: finiteness of slots and inodes, at least
one candidate, a capacity of at least one, rules and jobs of the right type, a limit of at least
one row, windows that are numbers of days, and for `PolicyStore` that the starting offer is one
`NewCache` accepts, that "none" names no document, that documents are sequences of rules and that amounts are whole numbers. TLC
evaluates each of them in a run.

Two limits of the prover shape the modules. Theorems of induction over data take an operator as
a parameter, which no backend can instantiate; where an argument needs a least or a greatest
element (`LeastExists`, `GreatestIndex`), the well-foundedness of the natural numbers as a set of
pairs gives it. And sequences defined by recursion (`SelectSeq`, folds) cannot be unfolded, so
`RecordsAreNewest` speaks of positions in `settled` and of how many come after them.

## Disagreements found

Each row is one property that TLC refutes. The first two are runs of `PROJECT.json`, where the
lines are quoted; the others are refuted by the configurations named, over the instance of the
module's passing run, with the property named as their only one. The properties
of the passing runs leave out exactly these cases, and their comments say so.

| property | run or configuration | the code | the document |
|---|---|---|---|
| `BlockedNeverRouted` | run `routing_blocked` | disabled mode routes past a blocking rule | routing policy reference: a block has the highest priority |
| `WhitelistsIntersect` | run `routing_whitelists` | two disjoint whitelists allow everything | the same, 6.3: intersection over all rules |
| `NoOverridePath` | `RoutingOverrides.cfg` of `MCRouting` | `decideDisabled` (engine.go:166) knows models by ID only: a provider's own name for a denied model, or for a model of a denied provider, is routed as it is. The decision names no provider, so the gateway goes on to the legacy path with the client's name (chat.go:220) | filter.go:236-240, which names disabled mode: "no override path can ever bypass a project's denylist or allowlist" |
| `DeniedCapabilitiesFiltered` | `RoutingDeniedCaps.cfg` of `MCRouting` | the switch at filter.go:83 has no case for json_schema, which the policy language accepts | routing policy reference:178: models with these capabilities are filtered out |
| `ConstraintsBeatOverrides` | `RoutingPinned.cfg` of `MCRouting` | a model the client names is checked against the lists only (engine.go:112, `decidePinned`) | the same, 278-279: where an override conflicts with constraints, the constraints win |
| `SensitiveIsNeverShared` | `JobDescriptorShared.cfg` of `MCJobDescriptor` | pii, secrets and the like make no keyword and signal risk only where no intent is stated (task.go:314): beside a summary the decision is low and cacheable | 07-caching.md:48: not when the prompt holds sensitive data |
| `SavingsSurviveRestarts` | `SpendRestarts.cfg` of `MCSpendPersistence` | when a whole file cannot be read (persist.go:66) main only warns (main.go:148), starts from zero, and the next flush replaces the file | main.go:142-144: the savings survive restarts |

More were met while modelling. The modules follow the code, and no property states the
document's side:

- A stream that a dead context cuts is recorded as a success and gets no terminal frame;
  ISSUE-012:50 says an interruption is not to pass for a success. `StreamFallback` has it in
  `FirstClosed` and the drain's end without a terminal chunk.
- main returns without waiting for the worker's drain, although main.go:270 says "drain event
  queue gracefully"; `SpendPersistence` lets the process end before the drain.
- A provider that is filtered out for its outcomes gets no outcomes that could bring it back; the
  PRD (02-prd.md:77) says its health is lowered temporarily.
- A cached decision is used whatever the health of its provider; 07-caching.md:45-49 rules that
  out while health is degraded.
- A request that speaks of production or urgency and of nothing else that is at stake stays
  low (`Escalate`); ISSUE-018 says such language raises risk, and that a simple chat is low
  only without risk signals.
- A block without a status gets 403; the policy reference says 451 (line 148).

Known from the passing run of the spend file and worth saying here: overlapping saves of the
ticker and of main's shutdown can leave an empty or mixed spend file, because both write
`path.tmp` (`TornOnlyByOverlap` states that nothing else can), although persist.go:41 calls
the save atomic.

Noticed while reading, without a run: the engine never reads `max_cost_usd`, which the reference
(6.3) calls an upper limit; a client's hint that its request is sensitive does not keep the
decision out of the cache; a conservative switch with a forced cheap profile leaves no candidate; a pinned
model is not asked whether it is enabled; decisions that fail are counted under an empty model
ID; pinned and disabled decisions carry no estimated cost, so the ledger never charges them;
and a project cap with limit 0 shadows its tenant's cap.

## Only model-checked

- Liveness: `HandlerReturns`, `ReadersReleased`, `AcceptedIsHandled`, `DeadProviderIsShed`,
  `RequestAnswered`, `NoGoroutineLeaks`, `ExpiredIsPurged`. The prover has no rules for fairness
  and ENABLED. Every invariant and every action property of the passing runs, and both refinements
  and the sliding window's, have a theorem.
- The refutations above, which need only one instance.

## Not modelled

- Scores: any order of the candidates. Amounts of spend: counts of events. Prompts, task
  classes and metadata in the cache key: one of each. Wording, headers, logging, JSON.
- A crash is the end of the process; the machine and its disk stay up. SaveJSON does not sync,
  so a power failure could lose more than the model shows.
- Streaming, tools, max_tokens and the conservative switch are absent from the cache key and
  from `Gateway`'s questions; `DecisionIsOwn` says nothing of them.
- The request path's shadow decision, usage headers and prompt logging, and the legacy
  streaming path, which has one source and no fallback.
- `RetryAdapter.Stream`, which retries only the opening of a stream and which nothing wires, and
  the mock provider. Mapping of wire formats.
- Explanations, reasons, confidence numbers and log fields of the classifier and of policies.
- `ComparisonTracker`'s other counters, sums over flags like the one that is modelled.
  `PromptLoggingEnabled` of the retention settings, which nothing reads.
- Authentication: one map lookup among keys that are added before serving starts. Outcomes: a
  list under one mutex. Cost: one product and quotient of arbitrary-precision integers with a
  checked conversion. None has two steps that could interleave or fail apart.
- Secret masking, metrics, wire types, the policy runner, the SDK, the simulator, evals and
  tools: text processing, exports, or offline programs.

## Plan

Built in this order: StreamFallback, EventQueue, Routing, SpendPersistence, HealthRouting,
Gateway; then CallPath, JobDescriptor with Classifier, PolicyStore with PolicyLanguage,
RequestLog, Retention. What remains:

1. That `Gateway`'s queue is the one `EventQueue` implements, for the amounts it carries, by the
   argument of `QueueInside`.
2. Rankings like `AcceptedAdvances` for the streaming handler and the context pipeline, whose
   liveness is only model-checked.
3. The legacy streaming path beside `StreamFallback`, and the shadow decision.
