# GigiDC: specifications, model checking and proofs

GigiDC is a Discord assistant written in Go. Slash commands and messages that mention the
bot come in through the gateway. Commands change permissions, plugins, credentials, settings
and memory; messages become plugin dispatches, chat answers or *agent runs*: a planner (an
LLM) returns a short plan of tool calls, an executor runs it under limits, permission checks
and a cancellation flag, and every step is kept in PostgreSQL. Beside these there are a queue
of durable jobs with worker pools, and an ingestor that stores messages as memory.

This directory holds TLA+ modules for the parts of that program whose correctness depends
on the *order* of things - which statement ran before which, what was read before an await
and used after it, what failed half way - and for the decisions other parts rely on. It says
what they model, what TLC checks on small instances and what TLAPS proves for every instance.

    tlc -config AgentRun_races.cfg MCAgentRun.tla       # one run of the model checker
    tlapm AgentRunProofs.tla                            # the proofs of a module

`PROJECT.json` lists the components, the runs, for every checked property a mutation of the
model that violates it, for every definition the lines of code it stands for, the hazards
and the theorems. Definitions called `X_Bug` are those mutations; no specification uses them.

## 1. Inventory

| Component (under `src/internal`) | State | Operations | Hard behaviour | What makes it correct | Module |
|---|---|---|---|---|---|
| Agent runner and executor (`agent/runner.go`, `executor.go`, `planning.go`, `policy.go`) | locals of one goroutine per request | plan, check, execute tools, confirm, answer, complete | every check is a query whose answer is old when it is used; errors of the store are dropped | a cancellation wins, writes wait for a confirmation, limits hold, every run returns | `AgentRun` |
| Durable run store (`agent/run_store.go`, migration 9) | `agent_runs`, `agent_run_steps`, `agent_run_confirmations` | StartRun, CompleteRun, RecordStep, RequestCancelRun, CreateConfirmation, ResolveConfirmation, ... | conditional updates racing each other, a statement that failed but was applied | the row of a run follows a life cycle, a confirmation is resolved once, counters match steps | `AgentRun` |
| Agent commands (`discord/agent_commands.go`) | none | /agent cancel, pending, confirm, reject, trace, stats | load, compare, update in separate statements, by two users at once | one of them is told it succeeded, and that is what is stored | `AgentRun`, `FrontDoor` |
| Follow-up store (`agent/followup.go`) | bounded map of snapshots with a TTL | Load, Save | limit and TTL, several conversations | exactly the recent ones are found; the newest is not the one dropped | `RecentRuns` |
| Trace store (`agent/trace.go`) | bounded FIFO of runs, last run per conversation | record, last run | eviction of a run that is still being recorded | the last run of a conversation is found while it is kept, and never another's | `RecentRuns` |
| LLM planner, answerer (`agent/llm_planner.go`, `llm_answerer.go`, `memory_planner.go`, `tool_planner.go`) | none | make a plan or an answer of a model's text | whatever a model may return | no write escapes the question for a confirmation; answers cite evidence | `ModelAnswers` |
| Job queue (`jobs/queue.go`, migrations 1 and 11) | `jobs` | Enqueue, Claim, Complete, Fail, Cancel | several processes; updates by id alone; two definitions of the table | a job has one holder, ended jobs stay ended, attempts are counted | `JobQueue` |
| Worker pool (`jobs/worker.go`), job tools (`agent/job_tools.go`) | `active`, context, WaitGroup, goroutines | Start, poll, dispatch, process, Stop | a limit read in one critical section and used in others; Stop with work in flight | at most MaxWorkers jobs, Stop returns, jobs end | `JobQueue` |
| App, gateway, migrations (`app/app.go`, `discord/client.go`, `storage/migrations.go`) | session, started flag, server, database handle, workers | Run, Shutdown, Start, Close | Close against a cancelled context; a signal at any moment; errors half way | what uses the database is gone before it closes; a signal ends the process | `AppLifecycle`, `GigiProcess` |
| Memory ingestor (`memory/ingestor.go`, `discord/messages.go`) | a bounded channel, one consumer | enqueue (lossy), consume | events dropped when the queue is full, deletions before creations | a deleted message is not kept | `MemoryIngest` |
| Memory store (`memory/store.go`) | policies, messages, tombstones | RecordMessage, DeleteMessage, policies, counts, searches | policy read in one statement, message written in another | only messages of allowed channels; queries find what they should | `MemoryIngest`, `Evidence` |
| Context broker (`contextbroker/`), memory tools | none | fetch and pack evidence | budgets, omitted markers, a previous state | the pack fits, keeps what is pinned, says what it left out | `Evidence` |
| LLM credentials and profiles (`llm/provider/store.go`, `service.go`) | `llm_credentials`, `llm_model_profiles` | upsert, revoke, select, test, resolve | transactions at read committed, a test that spans an HTTP call | a revoked credential is never used, a purpose keeps its model | `CredentialStore` |
| LLM commands (`discord/llm.go`) | tokens of credential modals, with a TTL | /llm provider, model, usage, routing | a token is used once, in time, by its user | the secret gets to who opened the modal | `FrontDoor` |
| Capabilities (`capability/`) | grants of users and roles | grant, revoke, evaluate | a check in two statements, grants and roles that change meanwhile, batches in a transaction | nothing is done that nobody was allowed at any moment of the request | `FrontDoor`, `Commands` |
| Plugin catalog (`plugins/store.go`) and manifests (`plugins/manifest.go`, `matcher.go`) | versions, installs | import, enable, disable, match, dispatch | an upsert under an enabled version, several enabled versions | only what was consented to is dispatched | `FrontDoor`, `Manifests` |
| Message router, assistant (`discord/messages.go`, `assistant/`) | chain of handlers, live debug cards | handle one message | audit before or after the reply, handler order, semantic routing | what a reply claims is on record | `FrontDoor` |
| Command router (`discord/commands.go` and the command files) | registered commands | route, authorize, parse, change, audit | three lists of commands that must agree; a change without its audit row | as above; each command needs what it should | `Commands`, `FrontDoor` |
| Audit, identity, latency and live debug settings | rows; one map | append, resolve, set, read | an append that fails | | in `FrontDoor` |
| LLM runtime and clients, web tools, secret sealing, analytics, configuration, health server, storage helpers, evaluation harness | little or none | | | HTTP, text, cryptography or plain reads | not modelled, section 6 |

How they interact: the gateway's callbacks serve each event in a goroutine of its own. The
command router checks a capability, audits the decision, parses, changes the store and audits
the change. The message router asks its handlers in turn: a count question, a plugin command
(direct, or proposed by a routing model), an agent run, a chat answer. `PlanningHandler` loads
a follow-up snapshot and calls `Runner.Run`; the runner calls the planner, the context fetcher,
the policy (capability evaluator), the executor and the run store; the executor calls
tools, among them the job and memory tools, and saves the follow-up snapshot. The `/agent`
commands only meet a run through the run store, workers and tools only through the jobs table.
Creations and deletions of messages go through the channel of the ingestor to its one
goroutine. All of it ends in `App.Shutdown`: workers first, gateway, database, HTTP server.

## 2. Modules

| Module | What it is | Proofs |
|---|---|---|
| `RunLifecycle` | abstract: the life of an `agent_runs` row as its readers see it | |
| `AgentRun` | runner, executor, run store, commands, crash | `AgentRunProofs`, `AgentExecutorProofs` |
| `ModelAnswers` | operators: what planners and answerer make of any text of a model | `AgentRunProofs` |
| `JobLifecycle` | abstract: the life of a job | |
| `JobQueue` | jobs table, worker pools, job tools, clock | `JobQueueProofs` |
| `AppLifecycle` | main, Run, Shutdown, gateway, HTTP server, database handle | `AppLifecycleProofs` |
| `GigiProcess` | `AppLifecycle` composed with one pool of `JobQueue` | `JobQueueProofs` |
| `MemoryIngest` | gateway callbacks, ingestor, memory store, settings, crash | `MemoryIngestProofs` |
| `Evidence` | operators: the queries of the memory store, snippets, `BuildPack` | |
| `CredentialStore` | credentials and profiles of an owner, statement by statement | `CredentialStoreProofs` |
| `Manifests` | operators: manifests of external apps, sources, matching | `FrontDoorProofs` |
| `Commands` | operators: registered commands, capabilities, presets, parsers; extends `Manifests` | `FrontDoorProofs` |
| `FrontDoor` | slash commands, modals, messages, capability checks, audit; extends `AppLifecycle` and `Commands` | `FrontDoorProofs` |
| `RecentRuns` | follow-up store and trace store | `RecentRunsProofs` |
| `MCAgentRun`, `MCJobQueue`, `MCGigiProcess`, `MCMemoryIngest`, `MCCredentialStore`, `MCFrontDoor` | values for TLC | |

### AgentRun

*State.* `row`, `steps` and `conf` are the three tables, by run id (a run creates at most one
confirmation, because the executor stops there). `runner[r]` is the goroutine of request `r`:
where it is (`pc`) and the locals of `Run` and `Execute` that are used again (the scope of
the context asked for, dry run, whether a context pack was fetched, the offset of the step
indexes, the plan, the index in it, the outcome). `cmd[c]` is one `/agent` interaction between
its statements. `snapshots` is the follow-up store, `executed` and `late` are history.

*Actions.* One action is one call out of the runner with the code up to the next call:
`Receive` (PlanningHandler and the guards at the top of `Runner.Run`), `StartRun`,
`CheckStarted`, `Route`, `FetchContext`, `MakePlan`, then in the executor `CheckTool`,
`DeferWrite`, `CreateConfirmation`, `RefuseTool`, `ExecuteTool`, `CheckAnswer`, `Answer`, and
`Complete`. A command is `LoadRun` and then `RequestCancel`, or `LoadPending` and `Resolve`.
`Crash` takes away the runners, the commands and the follow-up store and keeps the tables.
With `StoreFaults` every statement may fail, and an update that failed may have been applied;
`StepFaults` says the same of step records, whose errors nobody looks at.

*Abstraction.* A tool of a plan is one of four kinds: a free read tool, one that needs a
capability, a write tool, an unknown name. The planner may return any plan up to `MaxPlan`
tools, none, a question, or a plan to be confirmed as a whole; a tool, the answerer, the
permission checks and the routing policy may go either way. Texts, hashes, audit metadata and
timings are left out. `Trace.Record` belongs to the action of the call it records: the
counters it charges are read by no guard.

*Compared with the abstract machine.* `RunLifecycle` says: none, running, then perhaps
cancelling, then one final status, which after cancelling is `canceled`; a run whose process
died stays where it is. `RefinesLifecycle` maps a row to that phase with `PhaseOf`.

### ModelAnswers

No state. A model's output is an error, a text without a JSON object, or an object whose fields
may each be missing. `LLMPlan` is `LLMPlanner.Plan` with its second prompt (intents, aliases, the cut
at `MaxToolCalls`, unknown tools, the confirmation of a plan with a write), `MemoryPlan` the semantic
memory planner, `DeployedPlan` the two in the order `MultiPlanner` asks them; `AnswerWith` is
`LLMAnswerer.Answer` with its check of citations (checked by TLC only, `MemoryAnswersAreCited`). `AgentRun` takes *any* plan and *any* answer, which the
interfaces allow; this module says which ones the deployed implementations produce, for every
output (section 4). Prompts are left out.

### JobQueue

*State.* The columns of `jobs` by job id; for each pool the poll loop, whether its context is
cancelled, the limit of the claim under way, the claimed jobs not yet dispatched and `active`;
the goroutines as a set of records `work`; the clock `now` in ticks of the poll interval and
the unit of the backoff (five seconds).

*Actions.* A SQL statement is one action: PostgreSQL runs each of them atomically with respect
to the rows it updates. `for update skip locked` lets a claim pass over rows another statement
holds at that moment; `Overlap` lets `Claim` skip any set of them. The poll loop is `Poll`,
`Claim` or `ClaimFails`, `Dispatch` per job, `EndLoop`; a goroutine is `Process`, `Return`,
`Settle`, `Leave`. `Stop` cancels the context, after which statements fail, applied or not; `Die`
takes a process away, which a panic of a handler does too, as nothing recovers from it.
A pool is the one of its process and has a worker id of its own, and is not started again.

*The table.* `Migrations` is the list of `create table if not exists` statements in the order
they run. The code names the column `max_attempts` and the status `cancelled`, which only the
second definition has; the first one wins, so on a fresh database every enqueue and claim
fails. `JobQueue_schema` shows that (section 5). All other runs give `Migrations` the durable
table alone: they show what the queue does on the table it was written for.

### AppLifecycle and GigiProcess

*State.* `main` is where the main goroutine is in `Run`, in `Shutdown` (`down_*`) or in the cleanup
of `Run` after the server failed (`fail_*`). `signalled` and `expired` are the two contexts, `started`
and `session` the gateway's flag and discordgo's session, `closer` the goroutine of `Gateway.Close`,
`db`, `server` and `jobs` what else is opened and closed.

*Actions.* Each call of `Run` and `Shutdown` with its error path: `StartJobs`, `OpenGateway`,
`SyncCommands`, `Serve`, `RunReturns`, `StopJobs`, `CloseDatabase`, `StopServer`. `Close` is one set of
actions for its three callers: `BeginClose`, then `CloseAnswered` or, when the context is done first,
`CloseGivesUp`, which leaves the goroutine running and `started` set. Only `Shutdown` returns the error.
A signal, the deadline, a failing server and `SessionCloses` come at any time.

`GigiProcess` lets `main` start the pool `Own` of `JobQueue` and wait in `Stop` for its poll loop and
goroutines; the signal cancels the pool's context, which may lag behind. Other pools are those of
other processes. Left out: `New`, which builds everything once, but for the deployment it chooses.

### MemoryIngest

*State.* `discord` is what the users did; `callbacks` are the goroutines discordgo starts, one per
event, that have not yet reached the queue, in no order; `queue` is `LiveIngestor.queue`,
`consumer` its goroutine with the event and the mode it has read; `policy` and `stored` are the
tables. `tooMuch` and `missed` are history: records beyond what a channel allows since it was
set, and deletions that did not reach their row.

*Actions.* `Callback` is `TryEnqueueMessage` at the end of the three handlers, which drops an event
when the queue is full. The consumer is `Take`, `ReadChannel`, `ReadGuild`, `Record` or
`DeleteMessage`, one statement each, and comes to rest after an error. `SetPolicy` is
`/memory settings set`. `Crash` empties callbacks, queue and consumer: nothing drains them at exit.

*Abstraction.* A row is absent, holds a message with or without its text, or is a tombstone.
`Recorded` and `Deleted` are what the two statements make of it. Retention only filters what is
read, and `PurgeExpiredMessages` has no caller: both are left out. Segments are deleted with
their message and written by nothing. A message whose text normalizes to nothing is in `Blank`.
The gateway may hand out a creation again after a resume (`Copies`).

### Evidence

No state. A text is a sequence of letters, a row has its channel, author, time and marks for a tombstone
and for the end of its retention. `CountMentions`, `SearchMessages` and `RecentMessages` are the three
queries with their limits; `Occurrences` counts as the SQL does, taking matches out from the left.
`FetchedSnippets` and `ResultSnippets` make snippets of rows. `BuildPack` goes through the snippets, the
pinned ones first, with a budget of characters: what is cut, what is omitted for the budget or as
unchanged since a previous state, and which earlier snippets it takes back. `MCMemoryIngest` compares
these with reference definitions over all small inputs. Hashes and the rendering of a pack are left out.

### CredentialStore

*State.* `cred` and `prof` are the tables of one owner; `req[r]` is one request: an `/llm` command
or a resolution by the runtime. A request is used once, and the id of a row and the secret are
named after the request that brought them. `before`, the credentials revoked when a resolution
began, is history.

*Actions.* One statement each. `Add` is the upsert of `AddCredential` and `RotateCredential`;
`Revoke`, `Sweep`, `CommitRevoke` are the transaction of `RevokeCredential`; `LookUp` (the list
behind `credentialByLabel`), `Select`, `Replace`, `Insert`, `InsertFails`, `CommitSelect` are
`/llm model set`; `ReadForTest`, `StoreTest` are `TestCredential` around the call of the provider;
`ReadProfile`, `ReadCredential` are `ResolveActiveModel`. `Fail` ends any of them with an error. A
commit that fails and was applied is the commit: nobody reads the answer.

*Read committed.* A statement sees what was committed when it began, waits for rows that another
transaction has updated, and looks at them again after that: `Sweep` and `Select` take the rows,
`CommitRevoke` and `Replace` go on when they are free, and `Disabled` skips the ones that are no
longer enabled. A write of a transaction is invisible until its commit, so it is done by the commit, and
`CredLocked`, `ProfLocked` say which rows it holds. The insert of a profile reads its credential
without waiting, and its foreign key takes a key share lock, which an update of other columns
does not conflict with. The partial unique indexes are in `Labelled` (at most one active credential
per label) and in `Insert` (one enabled profile per purpose). Statements that are a whole
transaction are evaluated when they get their row.

### Manifests and Commands

No state. `Manifests` has `Manifest.Validate` (`Valid`) with the rules between surfaces, safety,
permissions and dispatch, `Fetched` for the redirects of a URL and for an attachment, and the matcher:
the plan a text gets (`PlanCommand`) and whether it may be dispatched (`ShouldDispatch`). `Commands` has the table of the registered commands,
the capability each needs, what its parser accepts, the known capabilities and presets, and the rows
a grant or revocation asks for. A text is a mark, a word and arguments; a polite opening is a flag.

### FrontDoor

*State.* The tables (`grants`, `catalog`, `enabled`, `routing`, `latency`), what Discord keeps (`guildRoles`,
`memberRoles`), what the process keeps (`debug`, `modals`) and `req`, the handlers under way, each with its
place, the roles its event carried, its decision, plan, trail of audit rows and reply. `installed`,
`consented`, `opened` and `seen` are history: what was enabled, which contents were imported with
consent, which modals were opened, and what held at some moment of each request.

*Actions.* `Arrive` starts a handler for any event, while the session is open. `CheckUser`, `CheckRole`,
`RecordCheck`, `UseDecision` are `Evaluator.Check`, one statement each, around which grants may
change. Then come the handler of the command (`ChangeGrants`, `CreateRole` and `GrantCreated`,
`ChangeMember`, `ImportManifest`, `EnablePlugin`, `DisablePlugin`, `OpenModal`, `ConsumeModal`, `SaveSecret`,
`SetRouting`, ...), and `RecordChange`; or the chain for a message (`CountMentions`, `LookUpPlugins`,
`ReadRouting`, `PlanSemantically`, `RecordOutcome`, `RunAgent`, `Chat`, `RecordTurn`), with a debug card
around it, whose post and last edit Discord may refuse, and `Send`. Every statement may fail and does so once the database is closed: the
shutdown of `AppLifecycle` takes place underneath, and waits for no handler.

*Abstraction.* One guild, one plugin. Changes kept elsewhere are one step, `ChangeElsewhere`, as their
stores are modelled in `CredentialStore`, `MemoryIngest` and `AgentRun`. Audit rows of refused and failed
requests, whose own failure the code ignores, and the wording of replies are left out.

### RecentRuns

*State.* `items` and `sequence` of the follow-up store, `runs`, `keys` and `order` of the trace store, a
clock, and as history what was saved and recorded, in order. *Actions.* `Save` (with the purge of what is
over and the drop of the oldest), `Load`, `RecordTraceEvent` (a new run, its conversation's last run, the
eviction), `RecentTick`; each holds the mutex of its store. `AgentRun` keeps only whether a snapshot exists.


## 3. Runs

Every run is exhaustive for its constants. A faulty statement, a cancelled context and a
death are nondeterministic at every step where they can happen.

| Run | Instance | Shows |
|---|---|---|
| `AgentRun_races` | one run, two commands, owner and administrator, one crash, plans up to two tools, failing statements, step records that work | the inductive invariant, types included; accepted cancellations win, at most one late effect, one resolution; steps are kept; a complete row and a resolved confirmation never change; the response tells the stored status, a hint has a confirmation; refinement |
| `AgentRun_plans` | two runs of one user, plans up to three tools, limits of two tools and four steps, faults | writes wait, counters and limits, complete snapshots |
| `AgentRun_live` | one run, one command, faults, fairness | every run that got to the run store returns; an accepted cancellation ends it |
| `AgentRun_confirmation` | a plan that is to be confirmed as a whole | violation, section 5 |
| `JobQueue_races` | two jobs, two pools of two workers, faults, stop, death, locked rows | one holder, reports meet their own attempt, limits, refinement |
| `JobQueue_live` | module `MCGigiProcess`, in two parts: "queue" has two jobs, two pools of one worker, one of which may be stopped or die; "process" has one job, and that pool belongs to a process with signals, a failing server and a `session.Close` that may hang; fairness | which jobs may be lost, all others end, nothing of the pool is at work once the database is closed or the process left, Stop returns, a signal ends the process |
| `JobQueue_schema` | the table the migrations leave | violation, section 5 |
| `MemoryIngest_queue` | two messages, one of them blank, one channel, a queue of two, creations handed out twice, two changes of the settings, faults, a crash, fairness | one late record, tombstones stay, every deletion is accounted for, one that is queued in time wipes its row |
| `MemoryIngest_deleted` | no faults, no crash | violation, section 5 |
| `CredentialStore_races` | five requests of any kind, one label, two providers, two purposes | revoked credentials are neither used nor written, a purpose keeps its model |
| `CredentialStore_revoke` | three requests | violation, section 5 |
| `FrontDoor_guild` | two handlers, an administrator and a member, two roles, one plugin in two versions, one modal token; in eight parts, below | every effect was permitted, every dispatch consented, what a reply claims is on record, a modal is its opener's, a shutdown releases in order, recent runs are found |

`FrontDoor_guild` explores the parts of `MCFrontDoor` one at a time, about 1.1 million states: permissions
(127,000), plugins (411,000), routing (163,000), modals (111,000), settings with everything that must be
refused (176,000), stop (53,000), and of `RecentRuns` the follow-up store (35,000) and the trace store
(45,000). Each part has its own events, because requests of different parts read and write different
tables. Only "stop" lets the process end. In "plugins" and "routing" one of the two handlers serves a
command and the other one a mention, which writes nothing another request reads.

The pure operators are compared with reference definitions in assumptions that TLC evaluates:
`CountsAreRight`, `SearchesAreRight`, `PacksAreRight`, `EvidenceIsPacked` (`MCMemoryIngest`: all texts up to
five letters of two, three rows, packs of up to three snippets with and without a previous state),
`PlansAreSafe` (`MCAgentRun`: all model outputs over small fields), `MemoryAnswersAreCited` (`MCAgentRun`:
after any plan of the memory planner, with any messages it or the fetched context brought, a model's
text is shown only if it names one of them; after a web tool and without a found message the code
asks for no label), and `CommandsFitTogether`
(`MCFrontDoor`: the list registered at Discord, the parsers and the table of permissions agree).

*Why the bounds are enough.* One run meets its commands only in its own rows, so one run with
two commands has every race between a runner, a cancellation and two resolutions; two runs
are needed only for what one leaves to another, the follow-up snapshot. Plans of two tools
have a tool before and after a write; three tools with limits of two and four reach
both limits, with and without the context step. Two jobs and two pools are the least with
contention for a job and for a worker; `MaxAttempts = 2` has a first, a retried and a last attempt.
The clock stops at `MaxTime`, where every job is due; a delay beyond it counts as `MaxTime`.
`MaxCrashes = 1`: what a crash leaves behind is never taken up, so a second one adds nothing
to a run.

Messages and channels of the ingestor meet only in the queue and the consumer; a queue of two
is full soon enough, and one message can be handed out twice. Five credential requests
are an addition, a first selection, and three that race; `Symmetric` is sound because requests
are interchangeable in every action and property.

Two handlers of `FrontDoor` are a request and the change that races it; handlers take up new requests
when they have answered, so grants, versions and modals go through any sequence of changes before and
between them, and `MCSymmetry` is sound because the two are interchangeable. A token is drawn
once, so one modal suffices: a second one would be another key of the map. Three conversations
and four runs overflow stores of two entries in every order; five saves or events come back to
a conversation after it was dropped.

*Fairness.* A goroutine that has started runs on, and its calls return, with a result or an
error (`WF` on the steps of each runner, command, poll loop and job goroutine): contexts carry
deadlines, and handlers have a timeout of five minutes. Nobody is obliged to send a message or
a command, to schedule, to cancel or to stop, and no process is obliged to die or to live. The
poll loop's `select` chooses at random when both the ticker and the cancelled context are ready:
`EndLoop` is strongly fair, so it is chosen at some time. The consumer of the ingestor is weakly fair:
each of its statements has two seconds. The main goroutine of a process runs whenever it can, the pool's
context follows the signal's, and the five seconds of a shutdown run out; `session.Close` may hang
for ever, and a server need not fail.

## 4. Proofs

TLAPS proves, for every set of runs, commands, users, jobs and pools and all limits that meet
`RunAssumption` and `QueueAssumption`, for messages and channels under `IngestAssumption`, for requests
under `CredentialAssumption`, for tools and limits under `ToolAssumption`, for conversations, runs and limits
under `RecentAssumption`, and for handlers, members, roles and events under `CapabilityAssumption` and
`EventAssumption`:

| Theorem | States |
|---|---|
| `AgentRunProofs!TypeCorrect` | `TypeOK` always |
| `AgentRunProofs!LifecycleCorrect` | `LifecycleInv` always |
| `AgentRunProofs!CancelWinsAlways`, `LateEffectsBounded`, `FinishedStaysFinal` | `CancelWins`, `AtMostOneLateEffect`, `FinishedIsFinal` |
| `AgentRunProofs!RefinementHolds` | `AgentRun` implements `RunLifecycle` |
| `AgentExecutorProofs!WritesAlwaysWait`, `SnapshotsAreComplete` | `WritesWait`, `SnapshotIsComplete` |
| `AgentExecutorProofs!ResponsesAreTruthful`, `HintsHaveConfirmations` | `ResponseIsTruthful`, `HintHasConfirmation` |
| `AgentExecutorProofs!OneResolutionAlways`, `ResolutionStaysFinal` | `OneResolution`, `ResolutionIsFinal` |
| `AgentExecutorProofs!UsageIsAlwaysAccurate`, `StepsAreAlwaysKept` | `UsageIsAccurate`, `StepsAreKept` |
| `AgentRunProofs!DeployedPlansAreSafe` | no output of a model makes a plan that runs a write or an unregistered tool (but the memory planner's) or more than the limit |
| `JobQueueProofs!TypeCorrect` | `TypeOK` always, on the durable table |
| `JobQueueProofs!QueueCorrect` | `QueueInv` always |
| `JobQueueProofs!HoldersAlwaysOwn`, `OneHolderAlways`, `AttemptsAlwaysUsed`, `EndedStaysFinal` | `HoldersOwnTheirJob`, `OneHolder`, `AttemptsAreUsed`, `EndedIsFinal` |
| `JobQueueProofs!WorkersAlwaysBounded`, `LostAlwaysHaveACause` | `WorkersAreBounded`, `LostJobsHaveACause` |
| `JobQueueProofs!RefinementHolds` | `JobQueue` implements `JobLifecycle` |
| `JobQueueProofs!ProcessRunsTheQueue` | in `GigiProcess` the pools behave as `JobQueue` says, so that what is proved of it holds there |
| `JobQueueProofs!WorkersAlwaysEndFirst`, `ProcessJobsHaveACause` | `WorkersEndFirst` with `ShutdownReleases`, and `LostJobsHaveACause`, in `GigiProcess` |
| `AppLifecycleProofs!ReleaseOrder` | `ShutdownReleases` always: pool and, unless the server failed, gateway before the database; handlers under way are not waited for |
| `MemoryIngestProofs!TypeCorrect` | `TypeOK` always |
| `MemoryIngestProofs!LateRecordsBounded`, `TombstonesStay`, `DeletionsAccountedFor` | `AtMostOneLateRecord`, `TombstoneIsFinal`, `DeletedIsAccountedFor` |
| `CredentialStoreProofs!StoreCorrect` | `StoreInv` always |
| `CredentialStoreProofs!RevokedNeverUsed`, `RevokedStaysFinal`, `ModelStays` | `RevokedIsNotUsed`, `RevokedIsFinal`, `ModelIsKept` |
| `RecentRunsProofs!RecentInvariant` | `FollowInv` and `TraceInv` always |
| `RecentRunsProofs!RecentRunsAreAlwaysFound` | `RecentRunsAreFound` |
| `FrontDoorProofs!FrontInvariant` | `FrontInv` always |
| `FrontDoorProofs!EffectsAlwaysPermitted`, `DispatchAlwaysConsented` | `EffectsWerePermitted`, `DispatchIsConsented` |
| `FrontDoorProofs!TrailAlwaysComplete`, `ModalsAlwaysOwn`, `FrontReleases` | `TrailIsComplete`, `ModalIsItsOwn`, `ShutdownReleases` |

*The argument for runs.* That a cancellation wins is not inductive: `CompleteRun` keeps
`canceled` only if the request was in the row, and the request is accepted only on a row that
is running and not complete. `LifecycleInv` ties the row to the program counter of its runner:
it is running while the runner is under way, complete only when the runner is done, and has at
most one late effect, none of them before the executor has passed its check. Each action
preserves it because a runner writes its own row only, and a command only sets the request flag
of a running row.

*The argument for the executor.* `ExecOK` says, for each place of a runner, how far its plan was
executed: nothing before there is a plan, all tools before the current one while the executor works,
and no confirmation until it stops at a write, which is then the one confirmed. Every step is one
of a few moves (before the plan, after it, to a tool, at a tool), and each keeps it. For responses `ToldOK` adds that a
complete row has what the runner said, or was cancelled before; for resolutions `WonInv` adds that a command
told `confirmed` or `canceled` is the only one of its run and the confirmation says the same.

*The argument for steps and usage.* The unique index of `agent_run_steps` refuses a step whose index is
taken, silently. `StepOK` says that it never does: the recorded indexes lie below the one of the current tool
(`Below`; at most it, while that tool's own step has been taken), and the counters are the sizes of the
sets of steps (`Counted`). The limits hold because the plan was checked against them before its first tool,
together with the steps recorded around it (`Within`). It rests on `ExecInv` and `LifecycleInv`.

*The argument for jobs.* `Complete` and `Fail` update by id, whoever holds the row. `QueueInv` says
that a goroutine that has not reported yet still owns the row with the attempt it was given, and
is the only one: a claim takes queued rows, and only the owner's report, never a cancellation,
takes a row out of running. A lost claim leaves a row running with no owner, which nobody takes
up, and so breaks nothing. The attempts, the finality of ended jobs and the refinement follow.

*The argument for pools.* The limit of a claim is read in one critical section and used in others.
`PoolInv` says that `active` is the number of the pool's goroutines, and that with the claimed jobs, or
with the limit of the claim under way, it stays within `MaxWorkers`. Goroutines are a set, so the
count needs that none turns into one that is already there (`LeftInv`). `LostInv` says that a running row is claimed, held by a goroutine, or in the history of a
failed statement, a stop or a death; a loop with claimed jobs is dispatching (`Dispatching`).

*The argument for the process.* `LifeInv` says for each place of `main` what was started and what was
stopped: the session is never opened again, `started` is set whenever the session is open, and
`Shutdown` is past the workers and the gateway when it closes the database. With the pool, `StopInv` adds that
its loop is new only before `main` has started it, and gone with all goroutines wherever `main` is past a
`Stop`; nothing of a pool comes back once both are gone (`GoneStaysGone`), as only the loop starts
goroutines. `ProcessRunsTheQueue` maps each step of the process to a step of the queue or a stutter.
`ModelAnswers` has no steps and needs no invariant.

*The argument for memory.* One consumer reads a policy and records under it, so `LateRecordInv`
adds where the consumer is: before it has read, or with a mode that is in force, nothing late
is in its hands; otherwise nothing late was recorded yet. That deletions are accounted for
is inductive: each step moves a deletion on, makes a tombstone of its row, or adds it to `missed`.

*The argument for credentials.* `StoreInv` says what makes the two transactions safe at read
committed: a revocation has its credential for itself until it commits (`RevokesAlone`), so
no test result and no rotation is written under it; the rows a transaction is about to update
keep the credential or the purpose they were chosen for (`TargetsAreRight`); ids are new
(`IdsAreNew`). A resolution reads the credential by its status in its second statement, and what was
revoked stays so (`BeforeIsRevoked`): that is why the profile it found before does not matter.

*The argument for recent runs.* The properties speak of the histories, the stores of what is left, so
`FollowInv` and `TraceInv` relate each entry to the save or event it comes from. An entry's sequence number is
the index of its save, so that the oldest entry is that of the earliest save: when it is dropped the others
are all later ones, and there are as many of them as the limit (`LaterStay`, `ForgottenOK`). A run in the
trace store holds its events since it began (`RunOK`), one that is not there was followed by as many others as
the store keeps (`DroppedOK`), and `keys` names a kept run of the same conversation (`KeyOK`, `KeyIsThere`). The lemmas
count finite sets of numbers, and find a first one by the well-foundedness of `<`.

*The argument for the front door.* A handler acts on answers that are old, so its effect is compared with
`seen`, what held at some moment of the request. `FrontInv` has three parts. `HandlersOK`: whatever holds *now* of
grants, offers, the routing mode and fresh tokens is in `seen` (`Current`), and what the handler has in its
hands, its decision, its plan, its trail and its reply, follows from its `seen` alone (`Seeing`, `Alone`).
`CatalogOK`: every version in the catalog is sound and was imported with the consent its manifest needs, so a
handler that has read it may dispatch it whatever replaces it afterwards. `ModalOK`: a token is with the store, or with the
one handler that saves, or used up. The record of a handler changes in one of a few *moves* (`Move`), each of them a
relation between an old and a new record; each move keeps `Alone` and `Seeing`, as `seen` only grows, and
each action of the module is a move of one handler that leaves the others alone.

*What is assumed.* `EventAssumption` says that an event is a registered command or a message, which is all the
gateway has handlers for, and that what an import decodes is a record of `Manifest`'s fields (`IsManifest`), which is
what `json.Unmarshal` into that struct makes of any document that is accepted. `CapabilityAssumption` says that
the known capabilities are names the evaluator accepts; `OwnAssumption` that the pool of the process
is one that may be stopped and may die. The other assumptions say that limits are natural numbers and that
constants meant to be different are.

*Only model-checked:* liveness and the temporal properties of the fair specifications (`CancelTakesEffect`,
`EveryRunReturns`, `JobsEnd`, `StopReturns`, `SignalEndsProcess`, `QueuedDeletionForgets`), because TLAPS has no proof of
`ENABLED` and fairness. The reference definitions of `Evidence` and `Commands` speak of recursive functions and folds
over data, which the provers here have no induction for. Every safety invariant and action property
that a passing run checks is stated by one of the theorems.

## 5. What the code does and its texts do not say

- `AgentRun_confirmation`: a plan that needs confirmation as a whole ends its run as
  `confirmation_required` without a confirmation (`runner.go:128`), and `LLMPlanner` makes every plan with a
  write such a plan: nothing can be confirmed, while `docs/bot-commands.mdx:678` points the user to
  `/agent pending` and `/agent confirm`.
- `JobQueue_schema`: migration 11 does not replace the `jobs` table of migration 1, so jobs
  cannot be scheduled or claimed on a fresh database.
- `MemoryIngest_deleted`: a deletion that overtakes its creation, or finds the queue full, leaves
  the message stored, while `docs/permissions.mdx:101` excludes deleted content.
- `CredentialStore_revoke`: a selection that commits after the revocation has begun to disable
  profiles leaves an enabled profile on the revoked credential. It resolves to an error, never
  to the secret (`RevokedIsNotUsed`); selecting another model mends it.

Seen while modelling, and part of the model. Runs and plans:

- A run with a budget of one LLM call that skips its answer is charged two (`run_store.go:272`).
- `app.go` wires no limits: steps and LLM calls are unlimited, tools default to five.
- A run whose first cancellation check fails is stored as failed with the reason `canceled`
  (`runner.go:72`).
- The runs of a process that died stay running. A pending confirmation of a canceled run can still be
  confirmed, and a confirmed write tool is not executed by anything.
- The step of a confirmation is the index of the tool in the plan (`executor.go:45`), while its recorded
  step is shifted by the context step (`executor.go:27`).
- The executor's own path for writes (`DeferWrite`, `CreateConfirmation`) is out of reach of the deployed
  planners (`DeployedPlansAreSafe`). `AgentRun` keeps it: the interface allows such plans.
- Calls beyond the planner's limit are cut without a word, and unknown tools among them go unnoticed.
  The memory planner does not ask whether its tool is registered.
- `BuildPack` uses one map as previous and as next state and marks a snippet as seen before it looks
  at the budget: one that was cut for its budget is "unchanged" next time. The deployed callers
  pass no previous state.
- The text of an answer made from a context pack is kept in the follow-up snapshot as it is.
- The labels of the context pack and those of the results of the memory tools are both numbered from S1
  (`packer.go:178`, `memory_tools.go`), so a label of either meets the demand for a citation of the other.
- When `CompleteRun` fails the user has a final answer while the row says running (`runner.go:163`).

Jobs, process, memory, credentials:

- Jobs whose worker died or whose report failed stay running.
- `Enqueue` on an existing id overwrites the job; the tool always picks a fresh one.
- The five seconds of a shutdown begin before the workers are stopped, so waiting for a handler
  uses them up, and closing the gateway then gives up at once.
- Turning the memory of a channel off leaves what was stored searchable: readers do not ask the
  channel's policy. The table `guild_memory_policies` has no writer; events in the queue are lost at
  exit; `MemoryContextProvider` and `PurgeExpiredMessages` have no caller.
- A credential that is rotated while its old secret is being tested gets the old one's result.
- Adding a credential under a label that another provider has fails with "returned no row".

Commands and messages:

- A change whose audit row fails is committed and answered with "Command failed." Creating a role leaves
  the role in Discord when its grants fail.
- `/llm model set` for an automatic choice without a default model selects nothing and is audited as
  a success (`NoDefaultModel`).
- The submission of a modal asks for `llm.provider.write` again; a token is used up by its first
  submission, also by one that is too late or another user's.
- The live debug card of a handler that failed may say "succeeded", and one whose last edit Discord
  refuses goes on saying "running" (`messages.go:268` drops the error).
- Routing of tools starts as "off"; the routing model is shown the triggers of legacy manifests only.
- Handlers of events run under `context.Background()`, so a shutdown does not cancel them: their
  statements fail when the database is closed.

## 6. Not modelled, and the plan

Left out for good:

- `llm/provider` runtime, client, tester and `secret.go`, `agent/web_tools.go`: one HTTP call each,
  text extraction, cryptography. What a model or a page returns is arbitrary in `AgentRun` and
  `ModelAnswers`.
- `agent/analytics.go`, the printing parts of `agent_trace.go` and `agent_stats.go`, `llm/provider/usage.go`,
  the plugin, permission and usage tools: reads and tables of text.
- Prompts, formatting of replies, parsing of count questions, fields of audit rows.
- Configuration, health server, storage helpers, evaluation harness: no state that others race for.
- Retention and the purge of messages: a filter of reads, and a statement nothing calls.

Next, in this order:

1. `GigiProcess` implements `AppLifecycle` as well: a theorem beside `ProcessRunsTheQueue`.
2. Lemmas about `Evidence` that need no induction: what a pack keeps of one snippet, how a count relates to
   the rows it was taken from.
3. Abstract specifications of the capability check and of the ingestor's table, with refinements.
4. The classification of provider errors in the LLM runtime, and what a request does after each.
