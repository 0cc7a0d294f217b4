# OrchestraAI: TLA+ models and proofs

This directory models the OrchestraAI runtime: the queue and locks that schedule run execution, the life of a run in the
orchestrator, what a run does with tools, files, models and money, and what is kept and shown of it. The modules are
checked with TLC on small instances; the safety results of both queues, the run, the approvals and changesets, the tools,
the coordination between instances, the run store, the answer caches and the parts around a run (registry, memory, plans,
verification, accounts, git, checkpoints) are proved with TLAPS for every value of the constants. Paths below are relative
to `src/backend/src/` unless they start with `src/` or name `server.js` (`src/backend/server.js`); which definition models
which lines is `map` in `PROJECT.json`.

1. [Inventory](#1-inventory) - 2. [Plan](#2-plan) - 3. [Modules and code](#3-modules-and-code) -
4. [Runs](#4-runs-and-what-they-show) - 5. [Fairness](#5-fairness) - 6. [Proofs](#6-proofs) -
7. [Known departures](#7-known-departures) - 8. [Not modelled](#8-not-modelled)

## 1. Inventory

OrchestraAI is a Node service that runs LLM agent tasks for a web console. `server.js` accepts HTTP requests, puts run
execution on a job queue and takes a distributed lock per run; the orchestrator drives the run through its state machine
(context, model choice, model call, tools, checkpoint); the execution controller offers pause, continuation, approvals,
plans, verification, git and changesets; stores, event log and caches keep what others read. Commands run in a separate
sandbox worker. Several processes may share one redis and one postgres.

| Component | State it keeps | Operations | What is hard | What makes it correct |
|---|---|---|---|---|
| Job queue, redis (`infrastructure/queue.js`, `redis-atomic.js`) | pending list, processing hash; per process: keys in flight, waiters, timers | enqueue, claim, renew, settle, retry, reclaim, close | crash between two steps, lost lease, lost reply, stale scan | run execution delivered at most once; nothing dropped; every job ends |
| Job queue, in memory (same file) | lanes, running jobs, timers, waiters of `enqueueAndClaim` | the same | claim, outcome, grace window and time limit race to answer one request | the same promise; the answer is true |
| Distributed locks (`infrastructure/locks.js`, `redis.js`) | keys and tokens with expiry | tryAcquire, renew, release, withLock | a lease ends while the function goes on | one worker per run while leases hold; no lock stays |
| Rate limits (`infrastructure/rate-limit.js`, `server.js`) | bucket, shared window | allow | INCR and EXPIRE are two calls | the limit holds, every window ends |
| Startup (`server.js`, `config.js`, `readiness.js`) | queue and coordinator in use, jobs carried | probe, exchange, carry, ready | requests in the old queue while it is exchanged | accepted requests are answered; ready means shared |
| Webhooks (`billing-webhooks.js`, `idempotency.js`) | reserved and completed keys | deliver, reserve, complete | redelivery to another instance | an event is accepted once |
| Run lifecycle (`core/orchestrator.js`, `state-machine.js`) | status, control record, spend, counters | startRun, loop steps, cancel, deadline, retry | late replies of a run that ended; ends racing | one execution, one terminal event, terminal is final |
| Run registry (same) | activeRuns, terminalRuns, waiters | create, retire, evict, resurrect, wait, cleanup | awaits between check and start | a run is known once; waiters are told |
| Controller (`execution/controller.js`, `plans-episodes.js`) | episodes, pause, plans, constraints, verification records | continue, pause, plan edits, verify, git | requests interleaving at awaits | chain of episodes; user's limits stand; verdicts are backed |
| Checkpoints (`checkpoint/`, `core/recovery-service.js`, `execution/recovery.js`) | sealed snapshots with cursor, accounting, effects | capture, retain, plan, decide, restore | snapshots that share live arrays; old checkpoints | no repeated step; nothing unsealed restored |
| Approvals, changesets (`execution/`) | approvals with binding and expiry; records, backups, files | request, decide, consume; propose, apply, restore, roll back | overlapping requests, failing file operations, user edits | single use; applied once, approved, all or nothing |
| Tool calls (`impl/tool-executor.js`, `idempotency.js`, policy files) | keys, results, calls in flight | gate, execute, time out, persist | duplicates in flight, eviction, late handlers, restart | every effect explained by a call that was allowed |
| Sandbox, fetches, patches (`execution/isolated-executor.js`, `environment.js`, `src/sandbox-worker/`) | directories and children of the worker; files | run, fetch with redirects, patch | worker dies, reply lost; redirects; shared temporary names | results are true; directories go unless a removal fails; no hop to a forbidden address |
| Events (`events/`, `infrastructure/event-log.js`, `services/sse-service.js`, `src/frontend/src/`) | bounded logs, durable log, stream, console state | emit, replay, reconnect, resynchronise, restart | snapshot and stream answered out of order | the console shows what happened, or knows it missed some |
| Run store (`persistence.js`, `infrastructure/run-store.js`, `postgres.js`, `privacy.js`) | index and files of runs | periodic and per-step saves, purge, retention, restore | writers interleave at every await | recorded ends and retention stand |
| Routing (`impl/model-router.js`, `model-registry.js`, `decisions/`) | registry, health, stickiness, excluded models | route, fail over, reprice, discover | registry changes under a routing in flight | no ineligible model, no return to one that refused |
| Provider calls, conversation (`providers/provider-adapter.js`) | request, stream buffer, history | call, retry, parse, window | a stream cut anywhere; a cancelled execution beside the next one | the answer is what was sent; calls are answered |
| Money (`cost/`, `savings/`, `economics/`) | records, budget, savings | record, estimate, save, charge | unknown amounts, moving prices | budget covers charges; fee only on recorded savings |
| Caches (`impl/cache-manager.js`, `intelligence/semantic-cache.js`) | bounded maps | look up, store, evict, invalidate | switch while a call is in flight | reuse within tenant and model, for the prompt or one of its fingerprint |
| Context, memory, learning (`impl/`, `intelligence/`) | items, records, counters | select, compress, remember, evict, ingest | order of ends, purges and restarts | prompts fit; memory trusted; own evidence |
| Accounts, tenancy, keys (`tenant-store.js`, `auth.js`, `providers/credential-store.js`) | users, sessions, owners, sealed keys | sign up, log in, see a run, connect, resolve | two stores, requests at an await | one user per address; one rule of access; own keys |

Not modelled: HTTP plumbing, reports and benchmarks, analytics, telemetry, comparison API, console pages (section 8).
The hazards of the code, each at its line with the properties that are about it, are in `PROJECT.json`.

## 2. Plan

Order: what loses or repeats work first, then what changes a user's files, then coordination and tools, then what is
observed, then models, money and the platform.

| Step | Modules | Run | State |
|---|---|---|---|
| 1 | `JobQueue`, `JobPromise` (abstract), `JobQueueProofs` | `queue_*` | done, proved |
| 2 | `RunLifecycle`, `RunLifecycleProofs` | `life_*` | done, proved |
| 3 | `Approvals`, `ApprovalsProofs`, `Changesets`, `ChangesetsProofs` | `changesets` | done, proved |
| 4 | `Locks`, `MemoryQueue` (refines `JobPromise`), `RateLimit`, `Startup`, `Webhooks`, `CoordinationProofs` | `coordination` | done, proved |
| 5 | `ToolPolicy`, `ToolCalls`, `ToolCallsProofs`, `Sandbox`, `ToolHandlers` | `tools` | done, proved |
| 6 | `EventStream`, `ConsoleView`, `RunStore`, `EventsProofs` | `events` | done; `RunStore` proved |
| 7 | `RouterRules`, `Routing`, `ProviderCalls`, `Conversation`, `Accounting` | `models` | done; `RouterRules` and `Routing` proved |
| 8 | `ContextWindow`, `Memory`, `RunRegistry`, `Plans`, `Verification`, `Tenancy`, `GitLayer`, `Checkpoints`, `Caching`, `PlatformProofs` | `platform` | done; proved but for `ContextWindow` |
| 9 | what is only model-checked so far: `ConsoleFaithful`, `AnswersFaithful`, `CostsHonest`, `PromptSound` | - | later |
| 10 | composition of `JobQueue` and `Locks` with several runs; fork and duplicate once they are reachable | - | later |

## 3. Modules and code

A Node process runs one continuation at a time. In every module a step is the code between two awaits of real I/O (a
redis call, a provider reply, a timer, a file operation); awaits that wait for nothing belong to the step that reaches
them. Definitions whose name begins with `Bug` are mutated forms of the definition after them; no specification uses them.

**Composition.** `Changesets` and `ToolCalls` extend `Approvals`, `ToolCalls` and `Sandbox` extend `ToolPolicy`, `Routing`
extends `RouterRules`: there the state is shared. `MemoryQueue` and `JobQueue` both implement `JobPromise`. The modules
`MCCoordination`, `MCTools`, `MCEvents`, `MCModels` and `MCPlatform` put modules side by side that share no variable: a
constant choice `part` says which of them moves, so that one run checks them all and their state spaces add up instead
of multiplying. Nothing is lost by it, since no action of one reads the state of another.

**Queue.** `JobQueue` models `RedisJobQueue` and the parts of `BaseJobQueue` it uses. `pending` and `processing` are the
redis list and hash; a record carries the token and version that stand for its raw JSON text (every script compares that
text) and whether its deadline has passed. `exec[t]` is one claim from `ClaimNext` through handler, `Release` and
settlement; `inflight`, `timers`, `stale`, `draining`, `waiter` are the state of a process that a crash forgets.
`Renew`/`RenewReply`, `ReclaimScan`/`ReclaimTake`/`ReclaimSkip` and `Release`/`AfterFailureRetry`/`TimerFires` are separate
steps because an await lies between them. `evalRedis` calls a script a second time when the first call throws, so
`...ReplyLost` actions apply a script whose reply is lost; when both calls throw, settlement, renewal and reclaim read the
record and write later (`ReleaseRead`, `RenewRead`, `ReclaimRead`; `checks` holds the reads whose write is to come). `JobPromise` is what the header of `queue.js` promises:
deliveries and terminal states only. `MemoryQueue` is the provider without redis, with the request that waits for its job.

**Run.** `RunLifecycle` models one run. `run` is its runtime state and control record, `loop[e]` the place where the e-th
call of `_executeRun` waits, `cancels` the `cancelRun` calls in their 25 ms wait. The operators from `LoopTop` to
`Persisted` follow the loop body from one wait to the next and return the set of possible outcomes; each action
(`ModelReturns`, `ModelFails`, `BackoffEnds`, `HoldEnds`, `ToolReturns`, `PersistReturns`) resumes an execution with one
of them. `STATE_TRANSITIONS` is the table of `state-machine.js`; an illegal transition throws into the failure path.
`RunRegistry` has many runs and no loop body: the two maps, their limit, resurrection and waiting. `Checkpoints` has one
run's snapshots: they hold the arrays of the live context, so what the run adds changes them under their hash, until a
restore makes copies.

**Files.** `Approvals` models the store and the tool gate `_preGate`. An action stands for the binding (run, action type,
fingerprint of the parameters); `late` for `expiresAt <= now`, set by `Elapse` at any moment. `Changesets` adds the
workspace and the changeset requests: each file operation of `propose`, `apply`, the restore loop and `rollback` is a
step, any of which may fail; the user edits files, and a restart forgets approvals, records and backups. A content is
the text a user wrote and the changesets on top. `GitLayer` has the index and its requests; `ToolHandlers` one file under
concurrent `apply_patch` calls, where a temporary name is the millisecond it was made in.

**Coordination.** `Locks`: a worker is one delivery of a run.execute job, `held` the key per store; the in-memory
SET NX is a read and a write. `RateLimit`: INCR and EXPIRE are two steps, windows and buckets end at any moment.
`Startup`: a configuration is checked, requests go to the old queue, the probe answers once, jobs are carried one push at
a time. `Webhooks`: reservation and completion in the shared or the own store, with failing stores and crashes.

**Tools.** `ToolPolicy` has the table of tool definitions as sets and the policy as operators; `ToolCalls` the gate, the
keys, handlers that outlive their call, persistence of keys and a restart; `Sandbox` the client and the worker with its
directory, child and time limit, where a removal may fail unnoticed and the ways a child may end at its limit are told apart;
`ToolHandlers` the checks of each hop, where a name is reduced to what a look-up answers, and the patches, whose temporary
file is opened (and so emptied), written, renamed and read back in steps of their own.

**Observed state.** `EventStream`: an event is its number; the console's view is the set of events its snapshot reflects.
`ConsoleView`: what the reducer makes of status, piece, answer and tool events beside what the run records for the snapshot;
a text is the set of the model calls whose pieces it holds, and events come complete and in order (that is `EventStream`).
`RunStore`: each awaited store call of the tick, the run-end and step hooks, the purge and the sweep is a step, over files
(one document, read and written back) or postgres (rows). A write may be refused, and an index file that has grown too
large is cut to its newest entries whatever their tenants (`SaveIndex`).

**Models and money.** `RouterRules` is `ModelRouter.route` as operators in integer units chosen so that the arithmetic of
the code is exact; `Routing` is a run's selections while the shared registry changes. `ProviderCalls` has the wire as a
sequence of symbols whose data lines are two halves, cut into chunks anywhere. `Conversation` grows `ctrl.history` and the
window of it that is sent, by executions (`cLoop`) of which a cancelled one may still be in a tool when the next is launched, with
backoffs, refused transitions and retries from a checkpoint. `Accounting` has records, budget, savings and fee with null and
missing usage, and a retry that restores budget and records; a reference model that is not registered at run creation is left out.

**Platform.** `ContextWindow` (items, selection, compression, guard), `Memory` (stores, limits, purge, and what is learned
from the ends of runs, one per continuation), `Caching` (the response cache and the semantic index),
`Plans` (plan, episodes, constraints: three independent parts; the gate compares the texts of paths, `QInside` and `QEnds`, and the
write goes where they resolve to, `QBeneath`), `Verification` (records in arrays that a verification takes
at its start and publishes at its end), `Tenancy` (accounts over files or a database; access in each group of routes; keys).

## 4. Runs and what they show

`tlc -workers 2 -config <cfg> <module>`; the longest takes about three minutes. Every property of a passing run has a
mutant in `PROJECT.json`: a plausible mistake in the code that TLC then finds with that property.

| Run | Checks | Shows |
|---|---|---|
| `queue_faults` | TypeOK, NonRetryableRunsOnce, NoSilentLoss, ImplementsPromise | two processes, a run execution and a maintenance job under one key, a crash, a lost reply, lost leases: run execution is delivered once, only a crash or fault drops a job |
| `queue_leases` | LiveLeaseIsRespected | with renewals, loss and reclaim, nobody but its worker ends a lease that has not expired, unless both forms of a script call failed and the fallback wrote after an outdated read |
| `queue_live` | StableQueue, EventuallyEnds | while leases of live workers hold and none is renewed across a settlement, crash and shutdown never duplicate a job, end it two ways or exceed its attempts; every accepted job ends unless a crash took it from a backoff timer |
| `life_core` | TypeOK, OneLoop, OneTerminalEvent, ExecutionGuarded | start, cancel, retry and pause against failures and the deadline: a waiting execution keeps the busy flag and its deadline, and no checkpointed step is repeated |
| `life_live` | TerminalIsFinal, EventuallyTerminal | all requests, reopening included: late continuations do not move an ended run, every execution ends |
| `life_two_loops` (violation) | OneLoop | a run continued after a cancellation can have two executions |
| `changesets` | TypeOK, SingleUse, EveryPassApproved, AppliedOnce, AllOrNothing | overlapping requests, failing file operations, user edits, expiry and a restart |
| `coordination` | InstancesAgree, AnswerIsHonest, MemoryKeepsPromise, WaitsEnd | run lock, in-memory queue, rate limits, boot and webhooks: two executions of a run need a lost lease, limits and windows hold, a ready instance shares its queue, an event is accepted once; what a waiting request is told is true, and nothing waits for ever |
| `tools` | EffectsExplained, EveryRunAuthorised, ToolsHonest, WorkspaceDestroyed | a call is repeated only for a reason the code cannot know of, and carried out only under the policy and approval in force; sandbox, fetch and patch results are true; every directory of the worker goes, but where its removal failed |
| `events` | ConsoleFaithful, StoreKept | the console's view across gaps, reconnects, switches and restarts, and what it makes of pieces, tool calls, retries and cancellations; the index and files under interleaved writers |
| `models` | RoutingSound, AnswersFaithful, CostsHonest | one decision over 29 000 inputs, routing over a run, a stream cut anywhere, the conversation, money |
| `platform` | PromptSound, LearningSound, RegistryTrue, PlansSound, UserWins, VerdictSound, TenantsApart, RecoverySound, ReuseIsSafe | each part around a run against its own races, faults and restarts |

Several of these are conjunctions of properties of the modules put side by side; the comment above each names them, and
the type invariants of the modules are conjuncts too (`CoordTypeOK`, `ToolsTypeOK`, `StreamTypeOK`, `StoreTypeOK`). Where the code cannot
promise a thing outright, the property names the exceptions by history variables (`gone`, `excuse`, `complete`, `late`,
`spoiled`, `cBroken`, `absorbed`, what is `explained`), so that it says precisely what is left to go wrong; section 7 lists those ways.

Deadlock is not checked: in all these systems "nothing left to do" is a legal end (bounded histories included), and the
liveness properties show that work does not stop before that.

**Bounds.**
*Queue*: at most two processes (the hazards need a worker and one reclaimer), two jobs under one key (conflict, one of
them non-retryable), `MaxAttempts` 2 (one retry, then the limit), `Concurrency` 1 (the smallest limit that can be
exceeded; 2 in `queue_live`, where a closing process drains what it still runs), `Token` bounds the claims in a behaviour, `MaxVer` the renewals of a lease (one is enough to make a compared
record old), `MaxFaults` (lost replies and failed scripts) and `MaxCrashes` one each. `queue_leases` has two claims, a worker and the one a
reclaim makes possible, and one fault, which is one fallback. Processes and tokens are interchangeable where symmetry is used;
`queue_live` uses none. A job whose type has no handler (`Orphan`) does not occur in these runs; the proofs cover it, and
`coordination` has one in the in-memory queue.
*Lifecycle*: `MaxExec` 2 (an execution and its successor: every race here is between two), `MaxSteps` 2 (a checkpointed
step and one after it), one tool round of at most two calls (the second call sees the budget and limits after the
first), `MaxRetries` 1, one cancel request under way, `EndsBound` 2 (OneTerminalEvent needs only "more than one"). The
theorems do not depend on these bounds.
*Changesets*: two changesets that share a file, one of two files and gated, one of one file and free; two requests in
flight; one approval id and two bindings; two texts, one user edit, one restart, one pending approval per run. With one id
a second approval never arises in this run; the theorems of `ChangesetsProofs` cover any number.
*Coordination*: three deliveries of a run, two on one server (a late handler and its successor) and one on the other; one
expiry, lost reply and crash. In-memory queue: a job without handler,
two jobs under one key, one retryable, one slot.
Rate: a limit of 1 with three requests on two servers, two windows, one fault. Boot: three jobs, two under one key, one
failed push. Webhooks: one event, three deliveries over two servers, two faults.
*Tools*: two calls of one key and one other, stores that overflow by one, one crash, one failed write, one policy change;
two commands and one death of the worker; two redirects and every class of address; two patches over two
milliseconds, a reader and one user edit.
*Events*: logs of one event and room for one log, so that every further event overflows and every second run prunes; two
disturbances (drops, restarts, switches). Console: two tools, a slice of two and a window of three messages, a snapshot window
of one record, three model calls, two episodes, one load of a snapshot. Store: two runs of one tenant and one of another, an index of one entry each.
*Models*: nine model profiles, eight policies and ten situations are paired for one decision; three models for a run with
two switches, one candidate in the short list of a larger or cheaper switch, three prices of which one is unknown; up to three stream events in chunks of at most three symbols, LF and CRLF, both formats; a conversation of two launches, two steps and two rounds of two
calls, where a model may ask for three, in a window of seven turns (so that it cuts a round) and with four calls allowed; three calls at four price levels with unknowns.
*Platform*: the smallest numbers at which each limit is passed (`GKeep`, `LMaxEvals`, `MMaxLong`, `KMax`, `VKeep`,
`QLimit`) with two or three actors each; three runs of two tenants for reuse, with three prompts of which two share a
fingerprint. Paths: two files, one in a directory, and two of the other ways to write them. Git: two files and a pathspec
that covers both.

## 5. Fairness

*Queue* (`Fairness`): weak fairness of what a live process schedules for itself: replies, drain loop, polls, backoff
timers, reclaim interval; handlers, since `_invoke` races them with a timeout; the clock passing an unrenewed deadline;
restart of a crashed process by its supervisor. No fairness is assumed of enqueueing, crashes, faults, lease loss or
shutdown. EventuallyEnds needs one process that stays open (`Closers` is a proper subset).
*Lifecycle*: weak fairness of each execution's next step and of the end of a cancel's wait. Providers and tools are called
with timeouts, a backoff is a timer, a pause hold is capped at 15 minutes (`controller.js` 361), the cancel wait at
25 ms, and persistence is I/O that resolves or rejects. The deadline is *not* fair: EventuallyTerminal holds without it.
No fairness of any client request is assumed.
*Coordination*: a key with an expiry ends in redis and in memory; at boot the event loop starts queued jobs, the probe
resolves or times out, each push resolves or fails, and handlers end (they have a time limit).
*Tools*: the worker's event loop goes on, a child exits or its time limit kills it (SIGKILL), and a killed child stops.
Nothing is assumed of clients; a worker that dies loses its directories with its container, so WorkspaceDestroyed
speaks of a worker that lives.
The other runs check safety only.

## 6. Proofs

Constants are arbitrary up to the named assumptions of the modules that declare them: numbers are naturals, functions
have their types, placeholders are not members of the sets they stand beside. Four say a little more, each from the code:
`ToolCallsAssumption` (a policy patch carries a legal autonomy and mode, as the API validates them, and the key store has a
limit), `RoutingAssumption` (the catalogue of models at start is finite, and prices are numbers or unknown), `LocksAssumption` (`"redis"`, the name of the shared store, names no server) and `MemoryQueueAssumption` (at least
one attempt, one slot). TLC evaluates all of them in the runs. Eight modules hold the theorems that `PROJECT.json` lists:

| Module | Theorems (property) |
|---|---|
| `JobQueueProofs` | TypeCorrect, RunExecutionOnce (NonRetryableRunsOnce), PromiseKept (ImplementsPromise), LeaseRespected (LiveLeaseIsRespected), NothingLost (NoSilentLoss), StableAlways (StableQueue) |
| `RunLifecycleProofs` | TypeCorrect, OneExecution (OneLoop), TerminalOnce (OneTerminalEvent), EndIsFinal (TerminalIsFinal), GuardsHold (ExecutionGuarded) |
| `ApprovalsProofs` | StoreSingleUse (SingleUse) |
| `ChangesetsProofs` | TypeCorrect, ApprovalsSingleUse (SingleUse), PassesApproved (EveryPassApproved), AppliedAtMostOnce (AppliedOnce), NothingLeftBehind (AllOrNothing) |
| `ToolCallsProofs` | CallsTyped, EffectsAccounted (EffectsExplained), CallsAuthorised (EveryRunAuthorised), ToolsHonestAlways (ToolsHonest) |
| `CoordinationProofs` | InstancesAgreeAlways (InstancesAgree), AnswersHonest (AnswerIsHonest), MemoryPromiseKept (MemoryKeepsPromise) |
| `EventsProofs` | StoreKeptAlways (StoreKept) |
| `PlatformProofs` | RegistryTrueAlways (RegistryTrue), LearningSoundAlways (LearningSound), UserWinsAlways (UserWins), PlansSoundAlways (PlansSound), VerdictSoundAlways (VerdictSound), TenantsApartAlways (TenantsApart), RecoverySoundAlways (RecoverySound), ReuseSafeAlways (ReuseIsSafe), RouteIsSound, RoutingSoundAlways (RoutingSound) |

**`JobQueueProofs`.** NonRetryableRunsOnce alone is not inductive, since a copy left in the list or in a timer would be
claimed later; `OnceInv` adds that a non-retryable job is in the list at most once, only before its claim, and never in a
backoff timer. Every step that inserts a job (enqueue, timer) or claims one preserves it, lost replies included. For
ImplementsPromise, under `claims <- Claims`, `ended <- outcomes`, every step is a delivery, a terminal mark or a stutter;
OnceInv gives the guard of the delivery. LiveLeaseIsRespected needs to know which versions of a record can be compared
at all: `LeaseInv` says that a record in the hash, and each result of a scan, carries a version that its execution wrote or
is writing (`Reach`), and that a scan result which still equals its record is an expired one, so `ReclaimTake` can only hit
expired leases, unless the fallback of a failed script deletes after a read that is out of date (`Outdated`, the exception of
the property). NoSilentLoss is a property of one step: one lemma per action shows where the job goes on living. StableQueue has the hypotheses
`LeaseLoss = FALSE`, `MaxFaults = 0` and `MaxVer = 0`: with a lost lease, a lost reply or a renewal in flight when the job is
settled the code really leaves a second copy (section 7). Under them `SteadyInv` is inductive: a record in the hash is
its worker's, unchanged, and runs out only when that worker is dead, so a scan names records of dead workers only
(`RecordInv`); a job is in one place, list, hash or timer (`OnePlace`), its attempts count its deliveries (`Counted`) and
an ended job is in none; a job that was not accepted has no claims, and none ended both ways (`Ended`).

**`RunLifecycleProofs`.** `TypeCorrect` and `EndIsFinal` hold for every request and bound. OneExecution, TerminalOnce and
GuardsHold assume `"continue" \notin Requests`: with continuation of a cancelled run they are false, which
`life_two_loops` shows. `LifeInv` = OneLoop, OneTerminalEvent and `OpenInv` (a run that has not ended has emitted nothing
and a waiting execution keeps `running`), `EndedInv` (when it has ended, an execution can only be waiting if the run is
`Dead`: retired as cancelled), `PlaceInv` (a retired run has a terminal status; a failed run left active is within budget).
The argument: the steps of the loop are sets of outcomes, so one lemma per operator shows that from an open run each
outcome is either still open with the same execution (`Opened`) or closed with exactly one terminal event and the execution
done (`Closed`), and that from a dead run nothing is emitted, because CANCELLED has no successor in the table. A retry
needs FAILED, which a dead run is not, so it never starts beside a waiting execution. EndIsFinal adds `CalmInv`: status
and state machine agree on the end, and no row of the table leaves it, so what a late continuation does to an ended run
(`Final`) is not a change of status. GuardsHold adds `GuardInv`: a live execution is at or beyond the checkpoint it
resumed from and has its deadline or an abort; the lemmas named `...Keeps` carry this through every part of a step.

**`ApprovalsProofs`** treats the store by itself; its steps are those of `Changesets` and of `ToolCalls`, which both cite
it. `ApprInv`: an approval that was used is marked consumed or forgotten, and APPROVED means that a user granted it;
`MapInv`: the store is a map over ids that were issued.

**`ChangesetsProofs`.** `Inv` has, beside these, `CallInv` (a request that walks over files works on a proposed changeset
with one image per file, and stays within it), `PassInv` (the approvals of requests that have paid and not begun their
pass are distinct, granted for this changeset and in no pass yet) and `ApplyInv` (the status is the lock: APPLYING belongs
to one request, all others of this changeset are idle or at the gate, and a changeset counted as applied never returns to a
status from which apply starts). NothingLeftBehind adds `CleanInv`: a changeset whose status says that nothing of it is
left is in no file (`StatusTrue`), and a request on its way knows which of its files can be dirty (`PlaceTrue`: those it has
written, shrinking as it restores). A step either only cleans (`Falls`) or dirties one file its own request knows of.
As in the property, histories in which an edit of the user was written over (`spoiled`) are excluded.

**`ToolCallsProofs`.** EffectsExplained is proved key by key (`KeyInv`): the handlers carried out under a key and those in
flight are at most one more than the excuses counted for it (a call given up while its handler goes on, calls at the same
time, a record evicted or not written, a restart), and no more than the excuses when no call of the key waits for its
handler and memory and file do not both hold its record, since then the next call starts; `SaveKeeps` shows that a save
keeps the record in both or counts the excuse. EveryRunAuthorised comes from `AuthInv`: for each action of
high or critical risk, starts past and to come are at most the approvals used up for it, and in production only a read or
a command for the sandbox is started or waits to be. That a dangerous action is always gated is proved for every
legal mode and tier, and `IssuedInv` (only finitely many approvals were issued) makes the counting sound. ToolsHonest is
proved of the three parts it speaks of, which share no variable: `SandboxInv` (a directory is there only while the worker
is at its request or when its removal failed, a reply that says how the child ended was sent when the directory was gone or had
failed to go, and a local command is none of the worker's), `FetchInv` (no hop connects twice and each passed checks of its own, so there are at most as many
connections as hops) and `PatchInv`: which file a descriptor still writes to (the temporary one, or the file it has become since), that
temporary files of patches without a common name hold what their patch wrote, and that the base and the result of a verified patch are
texts that the file had.

**`CoordinationProofs`.** The parts of the run share no variable, so each has an inductive invariant of its own, and a
step of the whole is a step or a stutter of each. `LockInv`: a worker in its function holds the key of its store, unless
its lease ran out or was overwritten (`gone`); of two deliveries to a server at most one is started and not settled; and
who found the key free in memory, and has not written it yet, is beside no worker that has its lease. `RateInv`: each admitted request, and the one between INCR and EXPIRE, has a count of its own, so the
limit holds, and a counter without time to live has the request that will give it one. `StartInv`: a job said to wait or
to be carried is in the list it is said to be in, and readiness comes after the last one. `HookInv`: a reserved key pays for one acceptance, past
or to come, in the store where it was reserved, and a shared key that ended for one more per fault. `QueueInv`: the list holds each pending job
once, a job was delivered once per failed attempt and once more while it runs, and a request that still waits has a job
that can answer it; under `claims <- {<<j, n>> : n <= runs}` each step is then a step of `JobPromise` or a stutter, the
bound of the attempts giving the delivery its token.

**`EventsProofs`.** `StoreInv` is inductive for StoreKept. The index is built by `Kept`, which picks entries by their rank
among the places that stay, so the module first proves that ranks number a finite ordered set (`Ranks`), that `Kept` lists
its places in their order (`KeptLists`), and that `Retain` leaves of each tenant all entries or exactly `Cap`
(`RetainCount`, `RetainOf`). From these come what an upsert and a merge do to a recorded end (`UpsertedIs`, `MergedIs`): it
is still listed as completed, or its tenant has `Cap` others (`Recorded`); `SavedIndex` adds the cut of a too large index,
which takes what it drops out of the recorded ends. Beside this (`HistoryInv`) the invariant says
that no run has two entries in an index, also in the copy the tick holds (`IndexType`); that a listed run was created, and
that "failed" is said only of a run of an earlier process whose end was not recorded (`EntriesInv`): without it, the merge
of an old copy or the purge could put another status in the place of the recorded one; that a save under way is of a run
of this process and carries a text if postgres will write one (`JobsInv`); where the purge is (`PurgeInv`); and that raw
content of a run that knows of the new mode is only where the purge has yet to come or a writer named in `late` put it
(`ContentInv`, which also holds while the purge runs; RetentionObeyed speaks only of its end).

**`PlatformProofs`.** As in `CoordinationProofs`, `PlatformInv` joins one inductive invariant per part, and `PartsMove` says
that a step is a step or a stutter of each. `RegistryInv`: no run is in both maps, the order of
retirement lists those in history once and within its limit, a run in history has ended while the latest loop of a running
one is not over, and a request waits for a loop that was started, or for the first. `MemoryInv`: what each store may
hold, and that active records are within their limit but for the writes that were quarantined (`mHeld`). `LearningInv`: counters and
evaluations, in memory and in the saved file, rest on ends of runs of their tenant. `PlanInv`: a
dependency that no edit has rewired points to an earlier step or to none of the plan, so the earliest pending step is ready
unless one before it was skipped or failed; `EpisodeInv`: episodes form a chain of which only the last may be open;
`ConstraintInv`: what was forbidden while there was room is in the list, and an allowed path is one the user named; that on plain
paths the texts tell where a write goes is `PathsAssumption`.
`VerificationInv`: verifications under way together know of each other, one alone finds its own diff last in its array, and
a record of tests that nothing overlapped is in every array that may still be published. `AccountsInv`: one user per
address, what is on disk is part of what is in memory, an answered sign-up is saved in both files, and an ended session is
in neither place, nor among the requests that were found a session after its end. `TenancyInv`: every group of routes decides by the one rule, and keys are kept per tenant. `GitInv`: an
approved operation is in one place (unused, with one request, or done), and what is staged between the look of a limited
commit and its end is the run's own or came late, and what is staged the user staged or an approved add covers. `CheckpointsInv`: the newest completed checkpoint was taken after as many
steps as the run has (`Tracks`), and completed ones are lost only to newer ones that fill the list (`Behind`). `CacheInv`: every kept entry carries the tenant,
model, prompt (so its fingerprint) and tools of the call that made it, and a call in flight what it will be kept under. The recursive filters of
`Memory`, `Verification` and `Caching` are functions defined along a sequence; that they keep exactly the elements meant, in their
order, is proved by a least counterexample (`LeastNat`, `FilterExists`), since the induction theorems of the library take an operator
as parameter.

The router has a theorem of its own, `RouteIsSound`, for every finite list of models with ids of their own, every policy and
every situation. Its core is that "cheaper per expected success, else a better score, else the smaller id" (`Wins`)
is a strict total order although it compares quotients and treats unknown costs apart (`Quotients`, `CheaperOrder`, `WinsOrder`), so
a finite field has a least member (`FiniteLeast`) and the `CHOOSE` of `SelectByObjective` means what the sort of the code gives.
`PoolIs` says what the pipeline of filters leaves and when it gives up, `RouteIs` that a decision is the winner, the preferred
model of the pool or the incumbent. `RoutingSoundAlways` takes this over a run: `RoutingInv` says that what the run named as
refusing is marked unavailable and stays marked (no step of the registry heals it: observations heal only `degraded`), that a routing in
flight holds each model once, its object the registry's or an older one, and none that had been named when it was read
(`HeldOK`), and that the loop's own routing is not older than the last refusal; the price handler's may be, the first exception
of the property (`stale`). A model that refused was named, or another one was named in its place because a price reselection
had landed during the call: the second exception (`excused`). `RouterSound` is then `RouteIsSound` on the inputs of the run.

**Only model-checked.** Liveness (EventuallyEnds, EventuallyTerminal, WaitsEnd, WorkspaceDestroyed): fairness and ENABLED
are outside the prover's reach. ConsoleFaithful (the stream and the reducer), AnswersFaithful, CostsHonest (sums
over sequences of records) and PromptSound: they speak of what sorting, folds over a sequence and parsing compute, induction
over data that the prover cannot instantiate, and are checked over enumerated inputs.

## 7. Known departures

Where the code, read closely, does something else than a comment, doc or test says, or where a limit of it matters to a
reader of the models. The models have these behaviours; properties name them as exceptions.

*Queue and coordination*
* A crash during backoff loses the job: `_release` (`queue.js` 883) takes it from the hash before a `setTimeout` (885-900)
  pushes the copy back; `_reclaim` has the same window (805-831). The header (27-28) says every job ends as "completed |
  failed | dead_letter". EventuallyEnds excludes it by `Held`.
* A renewal in flight at settlement: `lease.raw` changes only when the reply arrives (724-727) and `stopRenewal` (877) does not
  wait, so the release compares an older record and deletes nothing; after expiry a completed job is reclaimed.
* When both forms of a script call throw, settlement, renewal and reclaim read and write in two steps (`queue.js` 702-708,
  728-736, 808-814): a lease renewed or taken over in between is ended or overwritten. LiveLeaseIsRespected names it.
* Two processes accept the same idempotency key: keys are per process (249-253 against 19-21, 94).
* When a lease is lost, worker and reclaimer may both requeue the job: more than `maxAttempts` deliveries (883-884 against 22-23).
* A webhook reservation left by a failed or crashed delivery answers all later ones as duplicates, so the event is lost;
  before redis is wired the instance's own store accepts.

*Runs*
* Continuing a cancelled run beside its waiting execution (`controller.js` 591; `life_two_loops`). An abort settles a provider
  call or a tool's handler at once (`Due`), but not the verification of a patch, a backoff or a pause hold. More generally
  `continueRun` reopens a cancelled run (611-616), while `state-machine.js` 34-36, FRONTEND.md:72 and
  ARCHITECTURE.md:147 call CANCELLED final. A continuation during the recovery await of a retry also starts a second loop.
* A retry forgets spend since the checkpoint (`checkpoint-manager.js` 436 against 435, "Spend is authoritative: resuming must
  not forgive or duplicate cost"). SpendCoversCharges is about the calls the run still accounts for.
* A round of tool calls can be left unanswered in the history: when the transition after the recorded turn is refused
  (`orchestrator.js` 1245-1249 against 1242, "Anthropic requires the assistant tool_use turn immediately before user
  tool_result blocks"), and when a cancelled run is continued while its old execution is in a tool, whose
  results then come behind the new message (888, 2271-2275). CallsAnswered excepts both (`cBroken`).
* A pause outside a hold makes the run fail: `pauseRun` goes to PAUSING at once, from where only PAUSED and CANCELLED are
  legal (`state-machine.js` 30), so the transition after the operation in flight throws (`plans-episodes.js` 184-186: "Pause
  never kills a provider/network request").
* A blocked retry leaves the FAILED run in `activeRuns` (`orchestrator.js` 2310-2315 against 2116-2117).
* A message in the 25 ms wait of a cancel resets `abort`; the run ends failed (879 against 2187-2188).
* The deadline sets `abort` first, so a timeout is reported as cancelled and is not retryable (942-945).
* `createRun` checks `maxConcurrentRuns` before an await, and resurrection does not count: the limit can be exceeded.
* A run acknowledged but not yet persisted is lost in a crash; shutdown does not stop messages and continuations; retirement
  precedes the asynchronous save. Fork and duplicate are unreachable by their route patterns and throw.
* Snapshots share the live context arrays under a hash taken once: a tool result, compression or continuation since makes the
  checkpoint corrupt and the retry refused (1342: "integrity-sealed. Recovery resumes from the newest one"). Incomplete
  checkpoints displace completed ones. The newest may belong to an earlier episode (`checkpoint-manager.js` 484 against
  465-466). A retry without one renumbers its steps, so the tools' keys differ (`orchestrator.js` 2368-2370). A
  destructive tool that timed out can be retried.
* Dependents of skipped or failed plan steps never become ready; dependencies in `create` can never name its own steps; an
  episode stays RUNNING after the run's end, a cancelled one is recorded COMPLETED.
* Overlapping verifications lose records and mix diffs; `buildResult` looks only at active runs; a cached result is served for
  ever.

*Files and tools*
* A user edit between the hash check and the rename, or before a later restore, is overwritten (`changesets.js` 162-165,
  180-189, 207-215). AllOrNothing excludes it by `spoiled`. Overlapping applies of changesets that share a file: the restore
  of one can undo the other. A restart in the middle of apply leaves half a changeset; a restore that fails leaves it half
  applied. A rollback that reports "rollback blocked" has reverted the other files (245).
* `decideApproval` settles an approval of another run before it refuses (`controller.js` 422-424). An approval is consumed before
  status, dedup and cancel are looked at (491). The limit of pending approvals counts those past their time (`approvals.js` 113).
* Calls in flight with one key are not shared, and only the local store is asked (`tool-executor.js` 667-700, 796-804).
* Constraints beyond 20 paths are dropped; one written with a trailing slash protects nothing, and a path written with `/./` or `//`
  passes the gate and resolves to a forbidden file (`plans-episodes.js` 299-306, `changesets.js` 45-49): UserInCharge speaks of plain
  paths. What the API applies as a changeset passes no such gate (`controller.js` 472-509). `git add` is checked against forbidden paths only when the allowed list is not
  empty, and takes `./`, `*` and `:/`, which git reads as pathspecs (`changesets.js` 388-399, "explicit files"); files staged
  between look and commit are committed; a commit without changesets has no limit of paths.
* A command that handles the SIGTERM of its limit, or has to be killed, is reported as passed or failed with a code ("the contract is numeric exitCode or null
  on timeout", `src/sandbox-worker/server.js` 279-280). A failing
  removal of a worker's directory is swallowed (`src/sandbox-worker/server.js` 300): it stays while the worker lives, which
  ToolsHonest and WorkspaceDestroyed name.
* Two patches of one millisecond share a temporary name (`tool-executor.js` 494): one can empty or overwrite what the other has renamed
  (against 493, "Atomic apply"). PatchHonest excepts these.
* A name is resolved again when the connection is made (`environment.js` says so); the worker's browse does not resolve names.

*Events and stores*
* A stream that starts at cursor 0 is never told of a gap; holes in merged windows go unseen; numbering after a restart can
  fall behind an old cursor; a stale snapshot rolls the console back; a failed resynchronisation is silent.
* Texts streamed for calls that asked for tools or failed stay marked as streaming, so the next piece is appended to them
  unless a tool line came between; a replayed tool call shows as a success while the snapshot keeps the last recorded
  outcome; a pause (`execution.paused`) leaves the console's status as it was.
* A tick or purge that read before an end was recorded writes it back as running; the purge misses active runs not in the
  index; a too large `runs.json` is cut across tenants (StoreKept names this); a refused write of a purge goes unnoticed, so content
  stays; postgres restores the oldest 50 logs.
* `migrate.js` sets a corrupt file aside and ends well, so the next start has empty data.
* A failed write of a tenant file goes unnoticed: a revoked session is back after a restart. A sign-up race leaves an
  organisation without users.

*Models and money*
* The reliability floor yields when no model reaches it (`model-router.js` 197-198), but not to the budget: when the reliable
  models are all over a hard budget the router gives up (221-224), also if a less reliable model fits it.
* The router can hold an incumbent it excluded; the context-overflow fallback admits models that lack capabilities; unknown
  latency meets a latency target; a null expected cost becomes 0. The workload-aware prediction is never used (it reads
  `.length` of a function). The model that is blamed for a failure may be another than the one that failed: after a price reselection
  during the call the new model is marked and the refusing one stays a candidate (`orchestrator.js` 1196; RoutingSound names both
  cases). Budget and price switches bypass the stickiness gate.
* An error in mid-stream is handed on as it is; an OpenAI stream without its last line end keeps only usage of the tail; CR and
  LF in different chunks end two lines. The 10-turn window may start with results whose call is cut off (against 1242).
* Missing usage counts as 0 (1622); an unpriced call adds estimate and charge (1673); null amounts are shown as zero; economics
  are frozen at the first terminal read.
* A gated best hit hides a usable second one in the semantic index; an overwrite at the limit evicts another entry. The index compares
  the plan's fingerprint, which leaves out the history and the texts of the items (`semantic-cache.js` 85, `context-engine.js` 449-464),
  so a hit may be the answer to another prompt.

*Platform*
* Long-term memory records carry no organisation, so they never cross runs; quarantined items do not count against the limit;
  eviction crosses runs. Consolidation, which no route calls so far, merges the longer text as it came into a durable record
  (`memory-intelligence.js` 252-262, `memory-manager.js` 359-371 against 204-206), a secret or an unvetted claim too, which
  MemoryTrusted names. What must be kept is cut to 800 characters in the prompt, the task to 2000
  (`context-manager.js` 317 against 368-369, `orchestrator.js` 1053), which PromptSound says. Compressed context is not used again; `currentTokens` only grows. The second check of the window is
  skipped when it is unknown.
* A cancelled run counts as a failure of its model; every continuation's end is learned again.
* Rollback of a changeset and the decision on an approval look them up by their own id, whatever run the path names (`server.js` 2739-2746,
  `controller.js` 511-517): AccessUniform excepts them (`ByIdSent`). With a database a request whose session was found before a
  logout is served after it (`tenant-store.js` 177-182).
* A live run of the installation's administrator never finds the deployment's key (`orchestrator.js` 1541 against `server.js`
  559-561); a failing connect marks the working key failed; a delete during a connect is lost; keys that no longer decrypt
  count as configured; stored runs of an organisation without an owner are hidden from it; the savings of a stored run answer 500.

## 8. Not modelled

*Whole parts*: HTTP routing, headers and the static console; keyword heuristics, benchmarks, evaluation and analytics reports
(floating point over finished runs, no shared state); telemetry export; the comparison API; the pages of the console, which
render what `ConsoleView`'s snapshot holds; sample data.

*In the modelled parts*: the redis queue's own list when it has no client, and its claim when the
client has no `eval` (mock clients, 655-672); validation of request bodies; fork
and duplicate, which throw; `clearRun`, `mark` and `controller.recover`, which nothing calls, and `execution-state.js` and most
of `policy-engine.js`, likewise; provenance; search and listing tools; archives of the worker; schema migration; plan tables of billing;
signatures, passwords and encryption (a value fits or does not). Texts are reduced to what a check asks of them: patterns
are shapes, similarity and scores are numbers from small sets, tokens are units. The parts put side by side in one run
do not interact in the models; where in the code they do (a run's loop with registry, context and routing), the one sees
the other's outcome as a choice.
