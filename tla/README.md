# Coulisse in TLA+

Coulisse is one Rust process that serves an OpenAI-compatible API on top of
configured agents. This directory models the parts of it whose correctness
depends on order: what happens when requests, workers, watchers, spawned tasks,
shell commands, providers and crashes interleave. TLC checks the models on
small instances; TLAPS proves the main safety properties for every value of the
constants.

`PROJECT.json` is the index: components, runs, the mapping from every definition
to the source lines it stands for, the hazards of the code with the properties
that guard them, and one seeded bug per property that makes the property fail.

Contents: [1 Inventory](#1-inventory), [2 Modules](#2-modules),
[3 Runs](#3-runs), [4 Fairness](#4-fairness), [5 Proofs](#5-proofs),
[6 Disagreements](#6-disagreements-met), [7 Not modelled](#7-not-modelled),
[8 Plan](#8-plan), [9 Running it](#9-running-it).

## 1 Inventory

### Shape of the system

- One process (`coulisse start`), a tokio runtime, an axum server: `/v1/*` for
  clients, `/admin/*` for the studio, `/mcp/*` for OAuth callbacks.
- One SQLite database, WAL mode, a pool of five connections, shared by all
  stores. A transaction is *deferred*: its first SELECT pins a snapshot, and a
  later write is refused if another connection has committed meanwhile.
- One YAML file, watched. Most sections are read at boot; agents, judges,
  experiments and smoke tests are lists that database rows overlay.
- Sidecar processes, MCP servers, model providers and OAuth providers outside.
- Cancellation: axum drops the future of a handler when its client leaves, so
  any `.await` of a handler may be its last step. `tokio::spawn`ed work survives
  the client and dies with the process.

### Components

| Component | State | Operations | Hard part | What makes it correct |
|---|---|---|---|---|
| Task queue and workers (`crates/tasks`, `cli/src/workers.rs`) | `tasks` rows | enqueue, next_runnable, mark_done, mark_errored, reap, poll loop | claims race; busy snapshots; outcome of a finished task not writable; crash while running | exclusive claims, at most one execution, oldest first, every orphan explained, no starvation |
| Triggers (`crates/triggers`) | cron timers, the webhook routes | boot, cron, webhook submissions, substitution of payloads, validation | boot triggers run before the port is bound; a `{{…}}` agent escapes validation for every kind of trigger | a valid file submits tasks of declared agents, one per firing |
| File storage (`crates/storage`, `cli/src/files.rs`) | `files` rows, blob directory | upload, delete, get_content, list, eviction, boot reconciliation | blob and row written separately; eviction inside a transaction that may roll back | no content indexed twice, quota kept, oldest evicted first, every mismatch has a cause |
| Server lifecycle (`cli/src/commands`) | pid file, ready marker, port, database files | start, stop, restart, reset, boot | checks that are stale when used; the bind is the only mutual exclusion and comes late | a start that met no other command: one server, truthful reports, its database left alone |
| MCP OAuth (`crates/mcp` pool, vault, routes) | vault rows, client registrations, session cache | get_or_spawn, refresh, connect, callback | rotating refresh tokens exchanged twice, or exchanged and never saved; rows deleted on an error that is somebody else's success | newest token kept unless it was lost with its only holder, bounded refreshes, only dead rows deleted |
| Chat completions (`cli/src/server.rs`, `stream.rs`) | conversation, counters | admission, completion, format repair, SSE, finalisation | consumption checked before, recorded after; client leaves mid-stream | exact counters, bounded overrun, consumed usage recorded, question before answer, every request settles |
| Rate limits (`crates/limits`) | one row per user and window kind | check, record | fixed windows; a late record replaces a newer window | no counter above what was recorded |
| API tokens and budgets (`crates/auth/src/token.rs`) | tokens, usage ledger | verify, check_budget, record_spend, revoke, mint, list | revocation between verify and budget check | overrun bounded by one turn |
| Configuration (`cli/src/config_store.rs`, `admin_extras.rs`) | the YAML file, the document in memory, the write lock | write_section, write_all, watcher reload, provider/mcp/singleton editors | watcher, editors and humans write one file; drained events | valid document in memory, other sections kept, watcher catches up |
| Database overlays (`crates/agents`, `judges`, `experiments`, `smoke`: store, merge, admin) | rows with tombstones and the live list, for each of four lists | put, reset, delete, rebuild, reload, admin view | two rebuilds publish in the wrong order; a reload takes the lists one after another; rows are not validated | live list = YAML overlaid by rows; only edits leave a reference dangling; a removal lasts |
| Experiments (`crates/experiments`) | routing table built at boot | resolve, score-aware pick, shadow sampling | cumulative weights, rounding, empty or invalid rows | sticky and weighted routing |
| Judges (`crates/judges`) | `scores` rows | sample, score, bandit averages | the list is read after the reply; agents edited meanwhile | a score names the agent that spoke and a stored reply |
| Shadow runs (`cli/src/shadow.rs`) | none | replay | runs after the reply, next to new requests | scored under the replaying agent, not stored as conversation |
| Smoke tests (`crates/smoke`, `cli/src/smoke_runner.rs`) | run rows, run messages | dispatch, run loop, run page | any step fails; restart leaves `running` | the row tells the truth about the messages |
| Agent runtime (`crates/agents/src/runtime.rs`, `tools`) | call stack | completion, streaming completion, tools, subagents, hop limit, repairs | circular subagents, errors three levels down, edits during a turn | bounded work, every error reported upwards |
| Telemetry (`crates/telemetry`) | span extensions, channel, `events`, `tool_calls` | on_new_span, on_record, on_close, writer task | spans close in any order, writes lost | a turn's tree is the tree of its calls |
| Memory (`crates/memory`) | messages, memories with embeddings | append, context assembly, recall, extract, remember_if_novel | extractions of one user overlap | no fact twice, history within the budget |
| Authentication (`crates/auth`) | the schemes fixed at boot, OIDC session (library) | validate `auth:`, guard each scope, Basic, bearer and API-token headers, identity of a chat | identity from three places (header, body, default) with different trimming | a request is served only as the user its credentials stand for |
| MCP connections (`crates/mcp` server, routes, tools) | entries, boot connections, flows, registrations, SSE streams | connect, discover, register, start, callback, disconnect, tools of a turn, SSE client | a flow that spans a reboot with another configuration; states and browsers mixed up; tool names cleaned and deduplicated; a time limit over a whole stream | a row holds what was granted to its user's request on its server; scopes are asked in the documented order; a tool reaches the server that owns it; every SSE request is answered or fails |
| Migrations (`crates/core/src/migrate.rs`) | version table | one transaction per step | crash between steps, two boots of two releases | every schema reached once |
| Sidecars (`crates/sidecars`) | child processes | spawn, wait, restart with backoff | a killed server leaves its children | at most one child per sidecar and server |
| Secrets (`cli/src/secrets.rs`) | secrets file, generated with `create_new` | environment, load or create | torn file at first boot, two first boots | one key for ever |
| Skills (`crates/skills`) | catalog read at boot | scan, list, load, read a file | directory order decides between equal names | an agent sees the skills it lists and no path outside the directory |
| Configuration documents (`cli/src/config.rs`, the `config.rs` of each crate) | none | expand `${VAR}`, parse, validate every section | references between sections | a document that validates can be booted (as far as validation reaches, section 6) |
| Providers and pricing (`crates/providers`) | price table | call, price | external | usage priced once |
| Wire format (`crates/proxy`), studio pages, OpenAPI, one-shot commands | none or read-only | parsing, rendering | none across requests | (tests reach them) |

### Interactions

- *Calls*: the chat handler calls auth → limits → memory → runtime → limits →
  memory → judges. Workers and smoke runs enter at the runtime.
- *Shared state*: the database (all stores), `ArcSwap` lists (agents), the
  config document (`RwLock`), the pid file and the port (processes).
- *Messages*: the span layer sends rows down an unbounded channel; the file
  watcher sends events to the reload task; the SSE loop reads runtime events.
- *Spawned work*: the flush of a stream, shadow runs, judges, extraction and
  smoke runs start when a handler ends and outlive it.

## 2 Modules

Every module keeps the control of the code (state changes, guards, early
returns, error paths, their order) and abstracts its data to what the properties
tell apart. A step of a model is what runs between two awaits that another
actor can observe.

| Module | Stands for | State ↔ code |
|---|---|---|
| `TaskBoard` | the abstract promise of the queue | who holds which task; no rows, transactions or clocks |
| `TaskQueue` | the queue, workers, triggers, boot reap | `state`, timestamps = columns of `tasks`; `cur`, `pc`, `fresh` = a worker's row, position and whether its snapshot is the latest commit; `phase` = down, booting, serving |
| `FileStore` | the file store | `rows` and `blobs` = index and directory; one element of `Files` is an upload; `fresh`, `writer` = WAL snapshot and write lock; `torn`, `spared`, `leaked` remember which failure, and which boot that cleaned nothing, explains a mismatch |
| `ServerLifecycle` | shell commands and server processes | `pidFile`, `ready`, `port` = the files and the socket; `launcher[p]`, `server[p]` = the two halves of a start; `met` remembers the starts that another command met under way |
| `Boot` | secrets, migrations and sidecars, for overlapping boots of two releases | `file` = the secrets file; `stored`, `tables` = the version rows and whose tables exist; `holder` = the port; `sidecar`, `orphans` = a supervisor's state, children whose server is gone |
| `McpTokens` | vault, registrations, session cache of one user and server | tokens numbered as issued; `vault`, `clientRow` = the two rows, `session` = the cache; `pc[r]`, `flow[f]` = a turn in get_or_spawn, a browser flow; the provider's side (`refreshable`, `accepted`, `owner`) is external; `lost` remembers tokens whose holder was dropped before it saved them |
| `Access` | the `auth:` section, the guard of each scope, API tokens | one section, one token row, one request at a time; a header is the scheme and the credentials it carries |
| `McpShapes` | entries under `mcp:` and how their transport is inferred | pure operators |
| `McpTools` | the tools of one turn: selection, placeholders, name cleaning and deduplication, dispatch | pure operators over sequences of name parts |
| `McpConnect` (extends `McpShapes`) | connections at boot, browser flows with discovery, registration and sealed state, several users and servers | `links` = the sealed links turns handed out; `client`, `token` = the tables; `tab` = a browser tab with its request in flight: the seal its state names (`seal`), the one it was sent to the provider with (`sent`), the account that consented (`account`); `Publishes` = what a provider may say of scopes over time; `cfg` = what the last boot read; `raced`, `churned`, `lent` are history |
| `McpSse` | the legacy SSE client: handshake, endpoint, requests, time limit | pure: a stream is a sequence of events and sends |
| `Triggers`, `Skills` (extend `McpShapes`), `Documents` (extends `Triggers`) | which triggers fire and what they submit, the skill catalog, `Config::from_path` with the validation of every section | pure operators |
| `Quotas` | rate-limit windows and token ledger | `window[k]` = the row of a kind, `ledger` = sums of `token_usage` |
| `ChatTurn` (extends `Quotas`) | one request from admission to finalisation | `pc[r]`; `usage` = final_usage; `log` = messages by rowid; `owed` remembers what each window was charged, `uncounted` and `unpaid` whose inserts failed |
| `Memory` | context assembly, appends of a turn, recall, extraction | `messages`, `facts` = the two tables by rowid; `pc[t]` = a turn, `job[t]` = its spawned extraction; `embedder` = the model the process resolved at boot; an embedding is how close two texts are |
| `Overlay` | merge and admin view of a list | pure operators |
| `ConfigStore` (extends `Overlay`) | file, watcher, editors, overlay | `file`, `snapshot` (the document in memory), `yaml` (the list of the last load), `rows`, `live` (what requests use); `lock` = write_lock; `pending` = an event in the watcher's channel; `root`, `arg`, `db` = what an actor read before it waits |
| `Studio` (extends `Overlay`) | the four lists under requests, reloads and boots | `declared` = the `yaml_*` lists, `stored` = the rows, `served` = what the crates' lists hold, `scoring` and `routing` = the judges and the router of the process; `editor[x]` = a handler or a reload with its locals |
| `Experiments` | validation and strategies | pure operators over integer seeds and weights |
| `Evaluation` (extends `Experiments`) | chat routing, shadow, smoke, judges, scores | `reply` = one entry per agent call with the judges still to run; `scores`, `run`, `messages` = the tables; `task` = the spawned run_once |
| `Spans` | span layer, channel and writer | `queue`, `events`, `calls` = channel and tables; `lost` = inserts that failed |
| `AgentRuntime` (extends `Spans`) | completion loop, tools, subagents | `stack[a]` = the agents an act runs, each called by the one before; `live` = the list names are looked up in; `made` remembers every span and its fate |
| `*Proofs` | theorems about the module they extend | |
| `MC*` | constants for TLC | |

The pure modules (`McpShapes`, `McpTools`, `McpSse`, `Triggers`, `Skills`,
`Documents`) have no transitions of their own: `MCMcpConnect` draws one input as
a `case`, and the property compares what the operators answer with a definition
written independently of them. `Access`, `Boot` and `Studio` share no state with
`McpTokens`, `TaskQueue` and `Memory`; the runs of these hold both, and a variable
`part` chosen at Init says which of the two a behaviour is about.

Composition: `ChatTurn` shares the clock and the two stores of `Quotas`;
`ConfigStore` runs the `Overlay` operators on the document it serves, for one list
and with every step of the file; `Studio` runs them on all four, for files that
have passed the validation;
`Evaluation` routes through `Experiments` and feeds scores back into it;
`AgentRuntime` opens and closes the spans that `Spans` stores. `TaskQueue` is
shown to implement `TaskBoard` by a refinement mapping (holder of a task = the
worker that is executing it).

Actions follow the handlers. Three examples:

- `next_runnable` is `ClaimRead` (the SELECT pins a snapshot), then
  `ClaimCommit`, or `ClaimMiss` when the snapshot is stale and the UPDATE is
  refused; the worker logs and sleeps, as in `workers.rs`.
- `upload` is `Put`, `FindDuplicate`, `TxRead`, a loop of `EvictBlob` and
  `EvictRow`, `InsertCommit`; `Abort` may cut it at any await, which rolls back
  rows and never blobs.
- `FlushGuard::drop` is the branch of `Disconnect` for streams: the handler is
  gone, the spawned flush goes on with the usage known so far.

Variables called history in the modules (`owed`, `torn`, `exact`, `apart`, `met`,
`lost`, `made` and the like) decide nothing: no guard reads them, and they let a property speak
about the past.

## 3 Runs

| Run | Instance | Shows |
|---|---|---|
| `taskqueue` | 3 tasks, 2 workers, 3 seconds, 2 faults; or 3 boots, 2 at a time, of two releases with two migrators, one secrets file, one sidecar, 2 kills or failing steps | exclusive claims, at-most-once execution, explained orphans (`ClaimsSound`), `OldestFirst`, the refinement `ImplementsBoard`, `NoStarvation`; `KeysSound`, `SchemaSound`, `SidecarsSound` |
| `filestore` | 6 uploads: two of equal bytes, quota 3, one over the quota, one over the file limit; 1 fault | `IndexSound`, `QuotaRespected`, `EvictsOldestFirst` |
| `lifecycle` | 2 detached starts and a foreground one, stops, resets, timeouts, 1 crash or failed boot, any of which overlap | `CommandsTruthful`, `DatabaseSpared` for the starts no other command met; `StartReturns` always |
| `mcp` | 2 turns, 2 browser flows, 4 tokens, 3 lapses, 1 failed call, turns and callbacks dropped at any await, rotating provider, discovered client; or one of some 30 `auth:` sections, two token rows, one request after the other, two months | `RefreshBudget` always; `VaultIsLatest`, `DeletesOnlyDead` while turns and flows do not overlap; `AccessHolds` |
| `chat` | scenarios: 3 turns one after the other, one a stream and one with a JSON format, clock across hour, day and month, with 1 crash or 1 fault; a stream and a plain turn together, both with a JSON format, 1 revocation, 1 disconnect; 2 repairs | `CountersSound` (one after the other: exact, and no overrun beyond the last turn), `NeverOvercounted`, `TurnKept` (`UsageRecorded`: the ledger always, the windows one after the other; `QuestionFirst`), `TurnsSettle` |
| `chat_disconnect` | one stream | violated: `UsageOnDisconnect` (section 6) |
| `config` | 1 agent and a name nothing declares, 2 requests, 2 providers, keys that are set or not, 1 of 2 hand edits, 1 fault, fair tasks | `ServedAsConfigured`, `SectionsKept`, `Settles` (several names: the theorems) |
| `config_race` | 1 name, 2 requests | violated: `EditsAreLive` (section 6) |
| `evaluation` | 2 agents, 4 judges (one always, one sampled, one at rate 0, one created after boot), 7 experiments, 3 smoke tests, 1 restart or edit | `ScoresSound`, `RoutingSound`, `RunsTruthful`, `BackgroundEnds` |
| `runtime` | a request, its shadow replay and a background task, 4 agents with circular lists, depth 1, 2 model rounds, 1 mishap | `WorkBounded`, `SpansFaithful`, `ActsEnd` |
| `memory` | 2 turns of a user, one a stream, 4 facts, contexts of 4 tokens of which 2 for memories, recall of 2, at most 3 facts, 2 mishaps (failures, disconnects, restarts); or an agent, its judge, an experiment and a smoke test in 2 files, 2 tasks that make 3 requests and reloads in all, 1 failure, disconnect or reboot | `ContextFaithful`, `FactsSound`; `StudioSound` (pages show what runs, references dangle only after edits, removals last, a boot is refused only for a stored judge) |
| `connections` | 2 users, 2 tabs, 1 link, 2 servers, any account in any browser, any sealed state at the callback, reboots with other configurations, 1 mishap; or one of the users on the server that registers, whose tabs return with their own states, and a provider that names scopes for the resource, the server, the registration or nowhere, or registers nobody, and changes its mind; or SSE streams of up to 5 events; every file that differs from a good one in one section, texts of up to 2 tokens, templates of up to 2 pieces, two skill directories | `GrantsBelong`, `ClientSound`, `CodesHonoured`, `DocumentsSound`, `ToolsUsable`, `StreamFaithful` |

Type invariants are checked by TLC while a module is written and proved as
theorems for the modules of section 5; the other runs spend their
properties elsewhere.

### Why these bounds

- *Two actors and a third item*: the races of the queue, the store, the config
  store and the vault are between a reader that is about to write and one
  writer. A third task or file is what makes "oldest" and "evict until it
  fits" differ from "the other one".
- *Clocks of two or three ticks* cross each boundary the code compares with:
  `<` against the boot second, equal timestamps, hour ⊂ day ⊂ month. Calendar
  months have a different length from the month window so that the ledger and
  the window do not roll over together.
- *Faults*: one or two. Two are needed where the second hits the repair of the
  first (a crash after a failed mark); elsewhere each property is about one
  cause at a time, which history variables name.
- *Files*: a quota of three with sizes 1, 2, 4, 5 reaches no eviction, one, two,
  a file larger than the quota, and a file refused.
- *Depth 1, two rounds*: the hop limit is reached by a call of a call, which the
  circular lists allow; deeper limits repeat the same frame.
- *Scale 3*: with weights 1 and 2 every boundary of the cumulative walk is a
  seed, the seed that rounds to 1.0 included.
- *Three starts* in `lifecycle`: two overlap, and the third is one that nobody met,
  before or after them. A single fault leaves the files behind that the next start
  has to see through; stops, timeouts and overlaps are not faults.
- *Two users, two tabs, two servers* in `connections`: a grant can go to the
  wrong user, to the wrong server or to the wrong tab's flow, and each needs a
  second one; so does a state or a browser that is not the flow's own. The scopes asked of a
  user depend on nobody else, so one user meets every publication. The configurations of later boots differ in the public URL, the
  key, the scopes, the kind of server or its OAuth mode.
- *One changed section per file*: a rule of the validation relates at most two
  sections, and the good file holds one entry of each, so that each rule is met
  by a change at either end.
- *Three requests or reloads by two tasks* in the lists of the studio: two meet
  and a third settles the list, or undoes what the first did, before a reboot.
- *MaxRepairs 0 in `runtime`*: format repairs are covered by the chat runs and
  would only multiply model rounds here.

## 4 Fairness

No fairness is assumed for clients, operators, edits, faults, disconnects,
crashes or clocks. What is assumed, and why:

| Module | Assumption | Justification |
|---|---|---|
| `TaskQueue` | WF of each worker's steps, WF of `Boot` | the worker is a loop on a tokio task; the supervisor (or operator) brings the server back. `MarkFails` is not fair, only bounded |
| `ServerLifecycle` | WF of the server's and the launcher's steps | both are sequential programs; the launcher polls with a deadline |
| `ChatTurn` | WF of each request's own steps | a polled future makes progress; a provider call returns or fails |
| `ConfigStore` | WF of the watcher task, WF of each request's work | spawned task and handler futures |
| `Evaluation` | WF of chat, smoke and background steps, and of starting a dispatched run | spawned tasks; a model answers or fails |
| `AgentRuntime` | WF of the writer task and of each act | the same; no tool is assumed to succeed |

Weak fairness suffices everywhere: no step needs another actor to leave it
enabled infinitely often, except the claim of a worker, where a stale snapshot
may refuse the UPDATE. There the number of foreign commits is bounded by
`MaxFaults`, as the writes of other stores are in any real stretch of time in
which a claim takes microseconds and polls are a second apart; this is an
assumption about load and not a guarantee of the code.

## 5 Proofs

The theorems hold for every value of the constants that satisfies the named
assumption of the module (`TaskQueueAssumption` and so on: finite sets where
cardinalities are used, naturals for bounds, sentinels outside the sets). No
theorem fixes a number of tasks, workers, files, requests, tokens or a bound.

| Theorem (module) | States | Argument |
|---|---|---|
| `TypeCorrect`, `SoundClaims`, `FinalOutcomes`, `ClaimsOldest` (`BackgroundProofs`) | the invariants and action properties of the queue | `IInv` adds to `ClaimsSound`: a fresh snapshot's candidate is still queued and still oldest (`FreshIsOldest`), nobody executes while the process is down (`DownIsQuiet`), a worker that marks has an outcome (`MarkHasOutcome`), a row that was never claimed was never executed (`ClaimCounts`). The guard of the UPDATE gives exclusive claims; only the snapshot gives the order: the UPDATE does not ask whether the row is still the oldest |
| `Refinement` (`BackgroundProofs`) | `TaskQueue` implements `TaskBoard` | `HolderFacts`: the mapping names one holder; each action is a board action or a stutter |
| `TypeCorrect`, `SoundIndex`, `FifoEviction` (`FileStoreProofs`) | the index | `IInv` adds what a fresh snapshot is worth (`Snapshots`: the rows less its victims, none with this content, every victim no younger than what stays), that victims have left the view (`Victims`), that only settled files can be chosen by a delete or an eviction (`Settled`), and that the blob of an upload in flight is there (`Blobs`). `UniqueContent` needs `Snapshots`: no UNIQUE constraint backs the duplicate check |
| `WithinQuota` (`FileStoreProofs`) | the quota | `Total` is a fold over a finite set. The laws of the sum (of a union with one element, of a subset, of a difference) are proved by well-founded induction in its set form: the smallest set that breaks a law would have a smaller one. What a transaction has evicted and is about to insert is then bounded by what its snapshot held (`Snapshots`) |
| `AccessIsHeld` (`FileStoreProofs`) | who is answered, as whom, within which budget | `AccessIInv` types the section and the rows and keeps ids and secrets apart; the rest is one case per scheme and scope, and the two sums of a period over the same rows |
| `TypeCorrect`, `TruthfulCommands`, `DatabaseSafe` (`ServerProofs`) | the shell commands, whichever overlap | `IInv` says that either everything under way or alive has met another command (`Overlapped`) or the commands have been `Strict`: one past its check found no live server, and while it runs only the server it spawned may come to life (`OneCommand`, `Quiet`, `OwnMarker`, `Alone`). A check that passes while nothing else is under way leads back to `Strict` (`Passed`), so a start after the mess is as good as the first |
| `VaultTypeCorrect`, `BoundedRefresh`, `NoSpentToken` (`McpProofs`) | the vault | the grants a turn can have spent are bounded by where it stands (`Spent`); while `apart`, whatever is newer than the row is lost or with the one actor that is about to save it (`Alone`, `InVault`), and what is about to be saved is the newest and not lost (`Fresh`, `Newest`) |
| `OnlyDeadDeleted` (`McpProofs`) | discovered clients, no overlap, no failed call: only dead rows are deleted | `Custody`: every refresh token the provider honours belongs to the cached client (`Owned`), the turn under way holds the row as it is (`InHand`), and nobody saves an empty pair (`Filled`); a refresh is then refused only for a token that is dead |
| `TypeCorrect`, `NoOvercount` (`ChatTurnProofs`) | the counters | the window that a row names never holds more than was owed to it, since an upsert either adds to that window or opens one with the amount just owed |
| `QuestionsFirst` (`ChatTurnProofs`) | question first | `AnswersAsked`: the question of a turn about to append its answer is in the log, unless a fault let a stream go on without it |
| `UsageIsRecorded`, and with `QuestionsFirst` `TurnsKept` (`ChatTurnProofs`) | what was consumed is charged | `Recorded`: a turn that was not cut has taken over what its provider consumed before it reaches the flush. The sum over turns that are past their charge is then below the ledger (`AllCharged`), the sum over those past an upsert of a window below what that window was owed (`AllCounted`), and the ledger holds no more than was consumed (`Within`); the sums are folds over finite sets and change by one turn at a step. `CountersExact` takes what was owed to what the row says |
| `CountersAreSound` (`ChatTurnProofs`) | exact counters and bounded overrun, one turn after the other | `OneAtATime`, then what the turn under way may still add (`UsageBound`) fits between what its admission read and the cap (`WindowRoom`, `BudgetRoom`); `RowsFollow` keeps each row equal to what was recorded in its window |
| `TypeCorrect`, `GrantsAreOwn`, `ClientsAreSound`, `CodesAreHonoured` (`McpProofs`) | browser flows | a tab that was let in has a seal that names a user and an authorised server (`LinksSealed`, `Admitted`); a callback carries any state, and the exchange goes through only if the verifier of that state is the one of the request the browser was sent with (`Legs`, `Bound`), so what it stores was granted to the user and server of the state; the account is that user's own unless the link was `lent`; one registration runs at a time (`Once`), so that the client of a request is the one the server is known by, unless registrations met, a boot changed the file or the state is another one's (`Presents`); the scopes asked are compared with those offers in their order (`ScopesAsked`) |
| `StreamsServed`, `ToolsOffered` (`McpProofs`) | what an SSE worker delivered and the tools of a turn | There is no state to be inductive about: each follows from a theorem on all inputs. `StreamsAreFaithful`: for a stream of any length over any messages, by the least place at which the worker's run would differ; a message is the `n`-th delivered exactly when it is the `n`-th of its kind among the events the worker took (`InTurn`). `ToolsAreUsable`: for any names and any number of tools; a free number exists because a list cannot hold more names than it has tools (pigeonhole), so a list that is renamed one tool at a time stays clean and distinct (`Tidy`), and what a prefix is renamed to does not depend on what follows |
| `DocumentsServed` (`McpProofs`) | `coulisse.yaml` and what lies beside it | Again from theorems on all inputs, of which the runs' are some (`DocumentCases`). `EntriesAreDocumented`: the cases of the inference. `TextsAreExpanded`: what a flattened list holds is what its parts hold (`Flattened`), so a pass leaves the tokens of other kinds and brings in those of the values (`AfterReplacing`, `MentionsLeft`); two passes then ask for what the body, the table and the values used ask for. `TemplatesAreSubstituted`, `SkillsAreSandboxed`: piece by piece, and directory by directory with the highest of those that claim a name (`Highest`). `FilesAreChecked`: in an accepted file each reference is followed to its callee (`AcceptedFiles`); in a file that fails nowhere else and is not refused for form, each conjunct of the validation holds because the code that follows the reference found its callee (`HarmlessFiles`); sections with as many names as entries have one entry a name, by counting (`NamedAlone`) |
| `TypeCorrect`, `SectionsAreKept`, `ServedIsConfigured` (`ConfigStoreProofs`) | the configuration | `Locking`: a writer between read and rename holds the guard and its document is still the file, or an outside editor overtook it; `Current`: what a rebuild carries is current unless another overlapped |
| `SoundScores` (`BackgroundProofs`) | `ScoresSound` | `ScoreIInv`: every reply has one list of judges that were still to run, and it drains from the front (`Drains`): the rows with its id and a judge number at most how often the judge was named in the part that has been consumed, which the rest of the list can no longer repeat. The user and the agent of a row are those of the reply, because the list travels with the reply and not with the agent that an edit may change |
| `TruthfulRuns` (`BackgroundProofs`) | `RunsTruthful` | `RunIInv`: the `i`-th message of a conversation is the one whose turn and role tell the place `i` (`Place`, `Spoken`), and the rows are the same messages (`Truthful`). The order the page sorts by is that of the places, so exactly `i - 1` rows precede the `i`-th, which a bijection with `1 .. i - 1` counts |
| `SoundRouting` (`BackgroundProofs`) | `RoutingSound` | `RouteIInv`: every reply names the user, the message, the agent and the table of scores it was routed by (`WellRouted`), and a chat turn the arm of its sticky seed. `Cumulative`, `Summary` and `ShadowVariants` are recursive functions: `Recursion` proves once that one exists whenever each value is fixed by earlier ones, and the facts are then compared at the first place where they would fail (`Everywhere`). The pick lies in the notch of the cumulative weights that holds the seed (`Notch`, `Between`), so the seeds an arm gets are an interval (`Shares`); the bandit serves the arms without enough samples first and then the one with the best mean, whatever the table of scores (`BestServed`) |
| `SoundFacts` (`MemoryProofs`) | the extractor | an extraction about to insert has compared its fact with every row of its embedder, and while no other runs none was added since (`Undisturbed`); a turn is extracted once, after its answer was stored (`ExtractedOnce`); facts stored plus facts left never exceed the cap (`WithinTurn`) |
| `FaithfulContext` (`MemoryProofs`) | `ContextFaithful` | `PromptIInv`: what a turn recalled is the best of the facts that were there when it looked, and what it was handed of the history is a suffix that fits; both stay true of a prompt that is under way because rows are only appended. The sort of the recall is the rank of a fact among those as close (`Ranked`), the budget a running total (`Totals`): that it is monotone makes the longest suffix that fits unique |
| `SoundStudio` (`MemoryProofs`) | `StudioSound` | `StudioIInv`: a task that met no other rebuild of a list (`Alone`) holds the file's list and the rows as they are (`Current`), because whoever changes either begins a rebuild of its own; what it publishes is their merge (`Merged`), a removed entry has its tombstone (`Buried`), and pages and references follow from that |
| `BootTypeCorrect`, `OneKey`, `SchemaReached`, `SidecarsKept` (`ServerProofs`) | overlapping boots | the secrets file has one writer at a time and a key is the file's only when the file is whole (`KeysKept`); tables are only added, and a walk has those up to the version it stands at (`WalksKept`); a supervisor lives inside its server (`ChildrenKept`) |
| `WorkIsBounded` (`AgentProofs`) | model calls of one run | `WorkIInv`: every agent of a stack has a room (`Fits`): what was asked plus what the agent on top may still set off (`ToCome`: its rounds, and the calls of the rounds at the price of a call one level down) fits in its own, and an agent's room plus what its caller may still set off fits in the caller's. A call moves room down, a return gives back what is left, and nothing else makes any; `Cost`, the price, is a recursive function whose existence `CostDefined` proves first |
| `SpansAreFaithful` (`AgentProofs`) | what the studio shows of a turn | `SpansFaithful` speaks of rows in the tables only, and rows get there through a channel that may lose them. `SpanIInv` therefore follows them from the start: every span of an act that runs is open on its stack or has become a row (`Emitted`), every ordinal was given to a row (`Numbered`), a row tells its span's parent and what became of its call (`RowOk`), the turn's own row is sent last and a call after those it caused, with the larger ordinal (`Ordered`), and the channel and the log keep that order (`LogOk`). A turn is stored last, so a page that has it and lacks nothing has everything (`WholeOk`). The depths that the page computes and those of the calls are recursive functions: `RankDefined` proves once that such a function exists, because every row hangs under one with a smaller number, and then both are compared at the first row where they would differ |

### Only model-checked

- Every liveness property: `NoStarvation`, `StartReturns`, `TurnsSettle`,
  `Settles`, `BackgroundEnds`, `ActsEnd`. The prover has no rules for fairness.
  Every other property of a passing run is stated by a theorem.

Induction over data is only possible here in its set form: a theorem whose
hypothesis is an operator (`NatInduction` and its like) cannot be instantiated,
but the least element of a set of counterexamples can be taken. The sums of
`FileStoreProofs`, the drained lists of `BackgroundProofs` and the recursive
`Cost`, `Depths` and `Nesting` of `AgentProofs`, the running totals of
`MemoryProofs`, the walks over weights and scores of `BackgroundProofs`, and the
event loop, the renaming of tools and the flattened texts of `McpProofs` are done
that way. Seeds are finite in the model, which two formulas have to
say: the number of seeds an arm gets differs from its share by less than one seed
(`WeightsRespected`; it is exact when the total weight divides `Scale`), and no
experiment has more arms than there are seeds (`EvaluationAssumption`; the code
hashes to 64 bits).

## 6 Disagreements met

Two are violated runs:

- `chat_disconnect`: the comment on the flush guard (`cli/src/stream.rs:187`)
  says usage is recorded when the client disconnects. Usage is only known at the
  `Done` event, so a turn cut before it is charged to nobody.
- `config_race`: `crates/agents/src/admin.rs:25` says that admin edits reach the
  live list immediately after every write. Two rebuilds are not ordered; the
  older one may publish last.

The others were met while modelling; the models follow the code.

*Queue, files, lifecycle.*
- `storage/src/store.rs:183` says that a row whose delete was cut short "is cleaned
  at the next boot reconciliation". `reconcile_at_boot` returns when the directory
  lists no blob (it may be a backend that cannot list), so the row of a lone file
  survives every boot and counts against the quota until a boot finds another blob.
  `IndexSound` names such rows `spared`.
- `store.rs:276` says that the orphan blob of an upload cut short "is collected at
  the next boot". No boot deletes a blob; `IndexSound` names such blobs `leaked`.
- `serve.rs:375` says that the readiness marker keeps `coulisse start` from "falsely
  reporting success". Two starts under way share the marker, and one takes the
  other's for its own. `CommandsTruthful` claims nothing of a start that was `met`.
- `reset.rs:5` says that reset "refuses to run while a server holds the database
  open". Its check is as old as the confirmation, and a server that is starting has
  no pid file yet; `DatabaseSpared` lets a reset hit only a server it `met`.
- `serve.rs:731` says that a task still running at boot "is by definition orphaned".
  Two servers that boot at once both reap before either binds (`DatabaseSpared`).
- The boot reap compares with `<` in whole seconds: a task claimed in the second
  of the boot stays `running`. Named as a cause in `ClaimsSound`.
- Nothing orders the commands of a shell: of overlapping starts the later one also
  runs the boot triggers before its bind fails. The lifecycle theorems speak of
  starts that no other command met, and of these without further assumption.

*OAuth.*
- `pool.rs:292` says that a refresh "stores the new token pair". Between the exchange
  and the save lies an await of the chat handler: a client that leaves there takes
  the pair with it, the provider has retired the one in the vault, and the user has
  to authorise again. `VaultIsLatest` exempts exactly those tokens (`lost`).
- Two turns that refresh at once: the loser's error deletes the row that the
  winner just stored. `VaultIsLatest` and `DeletesOnlyDead` hold while they do
  not overlap.
- A refresh looks its client up in the registration table, where the client of
  `oauth: static` is never stored: such a user has to authorise again at every
  expiry.
- `dcr.rs:10-12` says each user's token is bound to their own provider account.
  Nothing ties the browser to the user: whoever opens a link of that user and
  consents has their account stored under the user's row (`GrantsBelong` names such
  users `lent`). What keeps a state from being answered with the code of another
  flow is the provider's check of the PKCE verifier, which is external.
- A cached session is reused after its token expired; two registrations at once
  can leave tokens of one client beside the id of the other.

- Comments of the boot connections promise that a server that was down "can be
  retried on the next chat turn"; nothing retries it before the next boot.
- The SSE client says "From here on, no timeout", but the request's limit of 15
  seconds covers the body: the stream ends 15 seconds after it was opened, and
  the dead connection keeps offering its tools.
- The message of a tool whose server is not connected calls the link
  "single-use"; it may be used until it expires.
- A cached registration keeps the redirect of the public URL it was made with.
- The suffix that makes a tool name unique can take it past 128 characters, and
  which of two equal names gets it depends on the order of a hash map. Names are
  made unique among MCP tools only: a subagent or skill can have the same one.

*Boot.*
- docs/src/features/sidecars.md says that sidecars die with Coulisse and that
  `coulisse stop` is a clean SIGTERM. No handler for SIGTERM exists, so a stop
  leaves its children running, next to those of the following start.
- A process that dies between creating and writing the secrets file leaves an
  empty file that every later boot refuses.

*Authentication.*
- The auth section describes a `/mcp-admin` endpoint guarded by its token; no
  route uses it.
- `mcp_consumer_secret` is documented as required when a server declares oauth;
  validation treats it as optional.
- A Basic user name with a colon validates and can never authenticate.
- The comment on the bearer scheme says case-insensitively; `Bearer ` and
  `bearer ` are accepted.
- `coulisse token create` neither trims nor refuses a blank label or principal,
  as the studio does. A padded principal is refused whenever the body names a user.
- `default_user_id` is not trimmed while the ids of requests are.
- A positive budget below a micro-dollar is stored as a cap of zero.

*Documents, triggers, skills.*
- `coulisse check` and the boot share a validation that does not reach the
  embedder, the extraction model, the S3 block or the bind address; those are
  refused by the boot alone.
- A templated agent (`{{…}}`) is skipped by validation for every trigger, but
  only webhooks substitute: boot and cron triggers then submit a task for an
  agent of that literal name.
- Webhook paths with parameters that overlap validate and panic when mounted.
- A cron schedule without a future day validates and never fires, which the
  comment of the validation says cannot happen.
- One malformed SKILL.md fails the boot; two skills of one name are decided by
  directory order; `skill_file` reads the files of every skill, not only those
  its agent lists.

*Chat, limits, tokens.*
- `docs` (rate limiting, roadmap) call the counters in-memory; they are SQLite
  rows and survive a restart.
- A cap or budget is exceeded by the last admitted turn, and by each overlapping
  one. A token revoked after `verify` still serves the request.
- A record delayed across a boundary can replace a newer window with an older
  one, which loses counts; it never adds any.
- Usage of nested subagents is dropped, while the docs charge total tokens.

*Configuration and overlays.*
- `POST /admin/agents` upserts; api.md promises 409 for a taken name.
- studio-ui.md:57 has judges, experiments and smoke edits go to the YAML file;
  they go to the database (studio-ui.md:21 agrees).
- Provider and mcp editors start from the expanded document in memory, so
  `${VAR}` placeholders of that section are written out as their values; telemetry.md
  says that YAML expands nothing. A save does not expand placeholders at all, so it
  accepts one that is not set; every reload and boot then refuses the file.
- Two provider edits that overlap lose one of them: the map is read before the
  write lock is taken.
- `remove_agent` chooses tombstone or delete from a list that a reload may
  replace before it writes.
- A hand edit between the load at boot and the start of the watcher is missed
  until the next event.

- Studio rows are not validated: a judge without rubrics is accepted and fails
  the next boot. Judges are built at boot only, so the comment that a missing
  judge "is a programmer error" is false after an edit, and so is the one that
  database-only judges are usable from their creation.

*Memory.*
- docs/src/features/memory.md:37 says that similarity must exceed the threshold;
  the code treats an equal one as a duplicate.
- Two extractions of a user that overlap store the same fact twice.
- A streamed turn is stored after its last chunk was sent, so a client that
  answers at once may be served without it.
- An embedder that fails during recall fails the chat request.

*Experiments, judges, smoke.*
- Comments in the router rely on validation; rows from the studio are not
  validated, so empty variants and a missing primary reach it.
- A tie of the bandit goes to the last arm (`max_by`), the comment says first.
- A hash mapped to "[0, 1)" can round to 1.0 in f32; the walk then falls through
  to its last variant.
- `shadow_variants` documents an empty list for other strategies and yields all.
- An agent that lists a judge twice is scored twice.
- Judge rows are not validated either, and the studio's new-judge form starts from
  `rubrics: {}`. Such a judge is listed and harmless until the process restarts;
  then `build_judges` fails and so does every boot, until somebody edits the
  database (`JudgesBuilt`).
- `docs/src/features/studio-ui.md:57` says that judges, experiments and smoke
  tests are written to YAML; they go to the database, as line 21 says.
- A removal decides between tombstone and delete on the file it saw first. If a
  reload adds the entry and another request removes it meanwhile, the delete of
  the first takes the tombstone of the second away (the exception in
  `RemovedStayGone`).
- Smoke runs stay `running` after a restart; a run is routed anew at each turn,
  while the docs speak of one variant per run.

*Runtime and telemetry.*
- Subagents are looked up in the live list, while a comment of the runtime says
  that requests in flight keep their snapshot.
- A shadow replay opens a second `turn` span under the turn id it replays, so
  ordinals are not unique per turn id.
- Roots other than `turn` are not recorded: tool calls of background tasks and
  smoke personas have no place in the studio.
- `dispatch_task` and `tasks_status` never record an error; a subagent or `skill_file`
  called with unreadable arguments, or `skill_file` without its `skill` or `path`,
  leaves by `?` and records nothing.

## 7 Not modelled

- *Inside covered components*: MIME sniffing and the S3 backend (no listing, so
  no reconciliation to get wrong), the arithmetic of cron schedules (a library),
  encryption and token hashing, the OIDC middleware (a library), prompt texts,
  studio reads, response wording, the secrets file on systems other than Unix.
- *Providers and pricing*: external; a call answers anything or fails. The price
  table is data: the models charge a price per token.
- *Wire format*: parsing and serialisation of one request; no state.
- *Studio pages, OpenAPI, banner*: rendering of what other components read.
- *One-shot commands*: `check` is `Config::from_path` (`Documents`) and `token
  create` is in `Access`; the others write one file or print.

## 8 Plan

The order is by what can go wrong most quietly.

1. `TaskQueue` with `TaskBoard`, `FileStore`, `ServerLifecycle`, `McpTokens`,
   `Quotas` with `ChatTurn`, `Overlay` with `ConfigStore`, `Experiments` with
   `Evaluation`, `Spans` with `AgentRuntime`. *Done, with proofs.*
2. `Memory`: context, recall, extraction. *Done, with proofs.*
3. `Boot`: secrets, migrations, sidecars. *Done, with proofs.*
4. `Access`, and `McpConnect` with `McpTools`, `McpShapes`, `McpSse`. *Done, with proofs.*
5. `Triggers`, `Skills`, `Documents`. *Done, with proofs.*
6. `Studio`: the lists that refer to each other across reloads, studio edits and
   boots. *Done, with proofs.* Left: `ChatTurn` with the context of `Memory`; the serial and concurrent runs merged by a history variable;
   handoff events and their order in the stream.
7. Theorems. *Done* for every component but those under "only model-checked".

## 9 Running it

```
tlc -workers 2 -config TaskQueue.cfg MCTaskQueue     # any run of section 3
tlapm BackgroundProofs.tla                           # any *Proofs module
```

The longest runs (`connections`, `config`, `lifecycle`, `filestore`, `evaluation`, `taskqueue`) take one and a
half to three minutes each with two workers.
