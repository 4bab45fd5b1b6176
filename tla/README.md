# A verification project for KrakeyBot

KrakeyBot runs one agent ("Self") as an endless series of *heartbeats*.  Channels
and tools push *stimuli* into one buffer; a heartbeat drains the buffer, asks
memory what it knows about the stimuli, shows everything to an LLM, carries out
what the LLM decided, and idles until something new, something urgent or an
interval ends the wait.  Everything but the LLM, the databases, the tools'
processes and the dashboard's web server runs on one asyncio event loop, so
interleaving happens at `await`s, and there is a lot of it: a beat suspends at
several dozen places while channels push, tool tasks finish, a stop is asked for
and a plugin reload takes tools out of the registry.  The web server has a thread
and a loop of its own; what a user types there is handed over to the main loop
(`plugins/dashboard/channel.py`), so it is a push like any other, but a plugin
reload asked for there is awaited on the server's loop
(`plugins/dashboard/services/adapters.py`).

The TLA+ modules here describe that machinery.  TLC checks small instances, TLAPS
proves the theorems of the `*_proofs` modules for every value of the constants.

## Inventory

| Part | State | Operations | Meets the others through |
|---|---|---|---|
| Stimulus buffer, queue half (`runtime/stimuli/stimulus_buffer.py`) | list, recall index, two events | `push`, `drain`, `peek_unrecalled` | everyone pushes, the heartbeat drains |
| Stimulus buffer, channel half (same file) | registered, running and paused channels | `start_all`, `start_one`, `pause_non_urgent`, `resume_all`, `stop_all`, `deregister` | runtime start and stop, hot reload, sleep |
| Heartbeat (`engines/heartbeat/`) | locals of a beat, the recall session, fatigue, stop and pause flags | thirteen phases, the retry loop, idling | buffer, recall, memory, history, decision, dispatch |
| Commands (`runtime/commands/`) | none | `/status`, `/memory_stats`, `/sleep`, `/kill` | run inside a beat |
| Recall session (`engines/recall/`) | processed stimuli, weights | `add_stimuli`, `finalize` | uncovered stimuli go back to the buffer |
| Explicit history (`engines/explicit_history/`, `engines/heartbeat/compact.py`) | rounds in memory and in a file | append, pop, compact, split, prune, load | what leaves the window goes to the graph memory |
| Decision (`engines/decision/`, `self_agent.py`) | none | translate an answer into tool calls | parse failures become urgent stimuli |
| Dispatch and batch tracker (`engines/dispatch/`, `runtime/stimuli/batch_tracker.py`) | a task per call, pending ids | dispatch, complete | results and notices are pushed into the buffer |
| Memory (`engines/memory/`) | graph nodes and edges, communities, knowledge bases, registry | ingest, remember, search, a seven-phase sleep | heartbeat, tools, dashboard |
| Runtime (`runtime/runtime.py`) | the engines, stop flag, pause file | run, hot reload, trigger sleep, stop, pause | all |
| Plugin loader (`runtime/plugin_register/`, `plugin_system/`) | tools, channels, modifiers by plugin | register, unregister | tool registry, channels |
| LLM clients, embedder, reranker (`engines/llm_*`, `engines/embedder`, `engines/reranker`) | cached clients | calls with retries and fallbacks | all engines |
| MCP connector (`plugins/mcp_connector/`) | a session per server | call, reconnect | tools |
| Decision (`engines/decision/`) and engine registry (`engine_system/`) | none; files a user may damage | parse, resolve | heartbeat; start-up |
| Environments (`environment/`) | router, registered environments, the guest agent | compose, preflight, run | command and GUI tools, browser plugin |
| Browser plugin (`plugins/browser_exec/`) | a detached server, `server.json`, tabs, a queue of jobs | find or start, submit, time out | tools, environments |
| Web chat (`plugins/dashboard/web_chat/`) | a cache and a JSONL file | receive, resend, reply, receipt | its own thread; buffer, event bus |
| Dashboard settings, bootstrap, onboarding | `config.yaml`, its backups, `self_model.yaml` | save, strike out, restart | three writers of one file |
| Command line (`cli/lifecycle.py`) | pid file, pause file | start, run, stop, pause, resume, restart | processes that meet in two files |
| Installation (`install/service.py`) | installed packages, `install_state.json` | collect, pip, post-install, check | start-up, dashboard |
| Web search (`plugins/searxng_search/`) | a container, `settings.yml` | start, search | tools |
| Prompt, embedder, external memories, small plugins | mostly none while running | assembly, calls | the edge of the system |

What is hard in it, and what makes each part correct:

* **Buffer.** The heartbeat sleeps on two events that have to agree with the
  list at every moment; drain resets four things at once.
* **Heartbeat.** A stimulus can come into a beat at its head, in the middle of a
  retry wait, or again because recall did not cover it.  Commands must be
  filtered on all paths; nothing may be shown without end, lost unnoticed, or
  wait forever; urgency and a stop must always get through.
* **Dispatch.** Results come in any order, across beats, from tools that may have
  vanished.  The notice "all completed" must be a barrier.
* **History.** Between the pop of a round and its arrival in the memory lie LLM
  calls; crashes and failing writes must neither lose more than is admitted nor
  bring back what was consolidated.
* **Memory sleep.** Many separate commits over two kinds of database with writers
  going on; a crash between them must neither lose nor double an entry.
* **Channels and reload.** `await start()` between check and mark; components that
  fail to build, register, start or stop; names two plugins share.
* **Processes.** A pid file and a pause file, neither locked, between shells,
  runtimes, signals and a successor the dashboard starts.
* **Graph writers.** A check and its insertion are two statements, and an
  operator's page writes on another thread over the same connection.
* **Calls that time out.** MCP, browser, shell and sandbox calls end for the caller
  before they end for the callee; what Self is told decides whether it repeats them.
* **Files written in place.** The chat history, `config.yaml`, the self model and
  the installation record, each with several writers and a process that may end.

`PROJECT.json` lists every part and every hazard with its line in the source.

## Plan

Written, in this order: `StimulusBuffer`; `Heartbeat`, which composes the buffer with
the beat; `Dispatch` over the buffer,
implementing the abstract barrier `BatchCompletion`; `HistoryWindow`; `MemorySleep`,
implementing `LongTermMemory`; then the components around the heartbeat, which share
no state with one another: `PluginReload`, `ProcessLifecycle`, `WebChat`,
`GraphWrites`, `McpConnection`, `BrowserServer`, `Environments`, `DecisionParsing`,
`LlmCalls`, `EngineResolution`, `InstallState`, `FirstBoot`, `WebSearch`.

Proved since: every safety property a passing run checks, invariants and action properties,
the types of all components, and the refinements of `BatchCompletion` and of
`LongTermMemory`.  What is left to TLC is liveness (see *What is proved*).

## The modules

A module `X_proofs` holds the theorems about `X`; `HostServices_proofs` those about
`LlmCalls`, `InstallState`, `EngineResolution`, `Environments`, `FirstBoot`,
`ProcessLifecycle` and `DecisionParsing`, `ToolServices_proofs` about `McpConnection`,
`BrowserServer`, `GraphWrites` and `WebSearch`, `ChatServices_proofs` about `WebChat` and
`PluginReload`.  They speak of `MCServices`, the specification the run checks, so that a
theorem and a run state the same formula.  All three use the lemmas on recursion in
`StimulusBuffer_proofs`; the first also extends the other two, for the theorem about all
types at its end.

### StimulusBuffer

`queue`, `recalledUpTo`, `adrenalinEvent`, `newEvent` are the fields of the class;
`Push`, `Drain` and `PeekUnrecalled` its methods.  None of them suspends, so each
is one step.  Drain sorts by time stamp; the order matters to nobody but the
scan for commands, and is added where it does.  `Spec` bounds the list for TLC
(`MaxQueue`); `OpenSpec` does not, and is what the theorems are about.

### Heartbeat

`phase` is where the beat is suspended; each action is the stretch of code up to
the next suspension, or one round of a loop over stimuli.

| Code | Actions |
|---|---|
| `DefaultHeartbeatEngine.run` | `LeaveLoop`, and `BeginBeat`'s guard |
| `_phase_drain_and_seed_recall` | `BeginBeat` |
| `_phase_handle_commands` | `RunStatus`, `RunSleep`, `RunKill`, `RunBareSlash`, `ScanDone` |
| `_phase_compute_fatigue`, `_phase_compact` | `ComputeFatigue`, `Compact` |
| `_phase_finalize_recall_and_pushback` | `FinalizeRecall`, `PushBack`, `PushBackDone` |
| `_phase_run_self` | `EnforceBudget`, `CallSelf`, `CallFails`, `RetryTimeout`, `GiveUp`, `SelfAnswers` |
| `_reassemble_on_adrenalin` | `RetryInterrupted`, then the command scan in phase `recommands` |
| `_phase_auto_ingest_feedback`, `_phase_apply_decision` | `IngestFeedback`, `ApplyDecision`, `ReportDecision`, `RefuseSleep`, `GrantSleep` |
| `_perform_sleep`, `trigger_memory_sleep` | `SleepDone`, `SleepNoop`, `SleepFails` |
| `_phase_idle`, `idle_with_recall` | `EnterIdle`, `IdlePeek`, `IdleBreak`, `IdleAgain`, `IdleTimeout` |
| channels, tool tasks, signal handler | `Arrive`, `RequestStop` |

`batch` is `beat()`'s local `stimuli`, `folded` the one of `_phase_run_self`; they
part when a retry is interrupted.  `session` is what the recall session has
processed, `retries` the count kept in a stimulus's metadata.  `shown`, `runs` and
`ingested` only record history.

Abstractions.  An LLM answer is valid or not; recall covers any part of what it
was given; a level of fatigue is below all thresholds, above one, or at the
force-sleep one; an interval has elapsed or not.  Stimuli the runtime makes itself
(command output, refusals, wake-ups) wake the heartbeat through the buffer, but
what a beat does with one it drained is not followed.  The pause loop is in
`ProcessLifecycle`.  Outside identities are given in order of arrival,
which is the order of the time stamps.

### Dispatch and BatchCompletion

`task` is the state of each call's asyncio task, `pending` the tracker's set.
"Push the answer, mark the call, push the notice" is one step because none of
the three suspends (`AnswerAndMark`); lookup and execution are separate steps,
between which the beat dispatches more.  `ToolLost` is the task that ends without
marking its call: it was cancelled (`CancelledError` is no `Exception`) or returned
something that is no `Stimulus`, which fails outside the `try`.  A look-up that
fails is possible for every call, since a reload may take any tool away.
`BatchCompletion` is the promise on its own: one barrier over all open calls and
one notice each time it empties.  `Dispatch` implements it with `open` = the calls
not answered and `answered` = those answered.

### HistoryWindow

`rounds` and `disk` are the window and its file; `held` is the round popped and not
yet in the memory; `inGM` the rounds whose extraction was stored.  `Stop` is the
process ending at any point, `Start` loads the file, with the start-up drop.
`Persist` replaces the file or fails and is logged.  Sizes are token counts; the
prompt is over budget or not by choice.  A file that cannot be parsed (read as
empty) is left out.

### MemorySleep and LongTermMemory

`MemorySleep` is one sleep cycle after another, with the writers of the graph beside
them.  `graph`, `pending` and `community` are the rows of `gm_nodes` and
`gm_node_communities`; `registry` is `kb_registry`; `entries` the contents of each KB's
file.  A node is an item that was stored or the index node of a KB, which is a
node like any other and may be clustered and migrated.  The other variables are the
locals of the cycle.

| Code | Actions |
|---|---|
| `auto_ingest`, `explicit_write`, `remember_extraction`, operator's category edit | `Ingest`, `Remember`, `UpdateNodeCategory` |
| `request_sleep`, `classify_and_link_pending` | `RequestSleep`, `ClassifyAndLinkPending` |
| `run_leiden_clustering` | `PersistCommunity`, `ClusteringDone` |
| `migrate_gm_to_kb` | `FindOrCreateKbForCommunity`, `DedupOrWrite`, `DeleteMigrated`, `MigrationDone` |
| `consolidate_kbs`, `delete_kb` | `KeepKb`, `MergeKb`, `MoveEntry`, `DropRow`, `UnlinkFile`, `ConsolidationDone` |
| `archive_excess_kbs` | `SetArchived`, `DropIndexNode` |
| phases 5 and 6 | `DeleteFocus`, `UpsertIndexNode`, `CycleCompletes` |
| an exception of the LLM, the embedder or a database, a crash | `CycleAborts` |

A step ends with a commit, since that is what a crash cannot undo, or changes one row
on the connection the writers share, since their commits take it along.  A crash and
a failure differ for the graph and the KBs in nothing but what was not committed.
What is similar (communities, duplicates, KBs to merge or to revive) and what is least
important is a choice.  `FACT` stands for the three categories that migrate.  Two
texts judged the same share an entry, which then counts for both.  Left out: edges,
texts, importance, the operator's deletions and edits of KBs, a failing `INSERT`
into the registry.

`LongTermMemory` is the promise: an item is held once stored; only what is stored as a
mere `FOCUS` is ever let go.  `MemorySleep` implements it with `held` = the items with a
node, or with an entry in a registered KB.

### The components around the heartbeat

Thirteen modules, each with one component.  Where they touch the loop (a push, a tool
execution, a pause), the heartbeat's side is in `Heartbeat` and `Dispatch`.

| Module | Code | A step is | Actions |
|---|---|---|---|
| `PluginReload` | `loader.py`, `hot_reload_plugins`, channel half of the buffer | one component registered, taken down, started or stopped | `Save`, `Reloading` |
| `ProcessLifecycle` | `cli/lifecycle.py`, `_pause_io.py`, `poll_pause_file`, `_restart_self` | one access to the pid or pause file, one signal, one turn of the loop | `Command`, `Launching`, `Loop`, `Mishap`, `SpawnSuccessor`, `LeaveToSuccessor`, `DeadlinePasses` |
| `WebChat` | `web_chat/`, the dashboard's channel and tool | one access of a thread to cache or file | `Socket`, `Reply`, `MarkRead`, `HandleReceipt`, `AppendToFile`, `Truncate`, `ReadNext`, `CloseFile`, `StopChannel`, `ServerEnds`, `Reload`, `Restart` |
| `GraphWrites` | `writer.py`, `graph_memory.py`, `gm/`, `tools/graph.py`, `web.py` | one statement of the database | one action per write asked for, then `Statement` |
| `McpConnection` | `server_connection.py`, `proxy_tool.py`, `loop_thread.py` | up to the next await | `Execute`, `Returns`, `ReplyLost`, `CallFails`, `BeginClose`, `BeginConnect`, `Connected`, `ConnectFails`, `TimesOut` |
| `BrowserServer` | `tool.py`, `snippets.py`, `server.py` | one file access, request or job | `Client`, `Process` |
| `Environments` | factory, router, local and sandbox environments, preflight, agent | one request, one end of a child | `Compose`, `Preflight`, `Stop`, `Provision`, `GuestDown`, `Call`, `HeirsMove` |
| `DecisionParsing` | `self_agent.py`, both decision engines | the whole translation of one answer | `Translate` |
| `LlmCalls` | the client, its factory, embedder, reranker | one post, one wait | `ResolveTag`, `BuildBody`, `Answered`, `AnsweredShort`, `PostFails`, `Backoff`, `CallAgain` |
| `EngineResolution` | `registry.py`, `meta_loader.py`, `defaults.py` | the resolution of one slot | `ResolveSlot` |
| `InstallState` | `install/service.py` | one phase of an installation | `Collect`, `PipInstalls`, `PipFails`, `RunPostInstall`, `WriteInstallState`, `Killed`, `Redeclare`, `EditConfig` |
| `FirstBoot` | bootstrap modifier, self model, `config_backup.py`, `FileConfigService.write` | one read or write of a file | `SaveSettings`, `Onboard`, `Start`, `Exit`, `TornConfig`, `TornModel`, `NoteUnfinished`, `CompletionFails`, `Complete`, `Removes`, `Restore`, `Tick` |
| `WebSearch` | searxng `lifecycle.py`, `client.py`, `tool.py` | one look at the host, one page | `NothingToStart` to `WaitEnds`, `Execute`, `FetchPage`, `FetchFails`, `Restarted`, and what docker and the operator do |

Notes on the less obvious choices.

* `DecisionParsing` and `EngineResolution` are algorithms, written as operators; a
  behaviour is one input and its result.  An answer is a sequence of section
  headers, tags and pieces of payload; calls and failures are named by their place
  in it.  A site is a `meta.yaml` (missing, unreadable, with entries complete or
  not, importable or not), a user's override and the emergency table.
* `GraphWrites` keeps a node's name, category and whether it still has to be
  classified.  Whether a text resembles a stored one is a choice.  The runtime's
  own writers run one after the other; the page's thread is the second writer.
* `ProcessLifecycle`'s `wanted` records which processes somebody asked to pause.
  `crossed` becomes true when a launch passes its check while the pid file does not
  say what is going on (`Window`): another launch is between its check and its entry, a
  process that was hung up or told to stop is still closing, a stop is waiting with the
  removal before it.  From then on nothing is claimed; up to then everything is, in
  every interleaving, and no launch is forbidden.
* `PluginReload` takes any set of managers that reload at once.  With two the
  registries diverge, since nothing serialises reloads and each awaits channels on
  its own loop; the run has one.  A stop or a start that raises leaves a channel at
  work without a mark (`strays`); a plugin whose list of components is empty, or all of
  whose registrations are refused, is loaded like any other.
* `WebChat` has one record of operation per thread.  A rewrite truncates the file,
  reads the cache record by record and reaches the disk at its close, at the beginning
  of the file; an append enters the cache, then the file.  `clobbered` becomes true when
  one thread writes the file between the other's truncation and its close.  A tab shows
  as failed what it last heard failed, and may resend it although another tab has
  done so; the deletion then finds nothing, and the message goes out all the same.
* `Environments` follows, for each command, the direct child and what it started
  (`heirs`: attached to the pipes, detached, ended).  Encoding the standard input may fail
  after the spawn, which leaves the child to itself and Self with an error.
* `BrowserServer` takes any number of servers.  `server.json` is checked and written
  without a lock, so two first calls of one decision may start two; the run has one.  A
  `new_tab` that fails after the tab was entered leaves it open; a reply may be lost
  between host and sandbox at any time, while the job is queued too.
* `InstallState`'s hash is the collected set itself: no collisions.  What is installed only
  grows: its property holds for specifications that do not conflict, as the
  repository's do not.
* `FirstBoot` describes `config.yaml` by the editions people wrote into it (`from`) and by
  whether it lists the bootstrap.  A settings page holds the file as it was when it was
  opened, however long ago, and saves that form whole with its edit; the wizard writes a
  file of its own.  A write that is killed leaves an empty file.  The clock never goes
  back, though backups are named by local time.
* `WebSearch` models docker and the operator as an environment: a container may end
  at any time, a daemon come and go, settings be edited.  A settings file that cannot be
  written ends the building of the tool (`SettingsFail`).
* `EngineResolution` tells apart a `meta.yaml` that is missing, cannot be parsed or lacks
  entries (each yields the emergency table) from one that cannot be read or decoded,
  whose error nobody turns into a default; an import that fails with an `ImportError`
  (degrades) from one that fails otherwise or names a factory that is not there
  (raises); and the emergency class is the in-tree module itself, so that it too may fail.

`MCServices` sets these components and the buffer side by side.  They share no
variable, so each is explored by itself: `component` is chosen at the start, its
steps are the behaviour, everything else stays in an initial state (`Pinned`
chooses one where a component has many).  The states are the sum of the components'
states, and a property of one component is checked in all of them.

## What the runs check

| Run | Bounds | What it shows |
|---|---|---|
| `heartbeat` | 2 outside stimuli of every kind and urgency, retry cap 1, stimuli arriving at any suspension of any number of beats | commands stay out of prompts, no stimulus twice in the buffer, recall's preload is what was peeked, prompts with one stimulus bounded by the retry cap, nothing unanswered leaves except by sleep or stop |
| `heartbeat_live` | 2 stimuli, an urgent message and calm feedback | urgency is taken up though no interval elapses; stop ends the loop; no stimulus stays forever |
| `command_runs_once` | as `heartbeat` | violated: a command executed twice |
| `seen_feedback_ingested` | as `heartbeat` | violated: feedback answered, never ingested |
| `dispatch` | 4 calls, answers may be lost | answers reach Self exactly once, results before the notice, the tracker implements the barrier, each answer is read |
| `stale_notice` | 2 calls | violated: "all completed" read with calls running |
| `history` | 6 rounds, 5 of them possibly on disk at first, two sizes, cap 2, 2 pops, 2 prunes, 2 chunks | nothing consolidated comes back, oldest first, bounded window, known losses only, backlog shrinks |
| `memory_sleep` | 2 items, 2 communities in all, `min_community_size` 2, at most 1 active KB, any number of cycles, ending at any commit | what is stored stays stored; an entry or a KB goes only when a registered KB has its entries; a completed cycle leaves each active KB with an index node |
| `stale_index_node` | the same, no failures, 2 active KBs | violated: the index node of a merged KB stays |
| `graph_acyclic` | 3 names, one extraction with two links, 3 writes | violated: two writers close a cycle |
| `reload_follows_config` | 2 plugins, 2 reloads | violated: a reload after a save follows the list read at start-up |
| `services` | see below | thirteen components and the buffer, each by itself |

The properties of `services`, with the bounds each is explored under:

| Property | Bounds | What it says |
|---|---|---|
| `EventsExact` | 4 stimuli, list of 4 | the buffer's two events say what list and index say |
| `WholeAtRest` | 2 plugins of 2 components, 4 channel instances, 2 reloads | after a reload, whatever failed in it, registries, loader and running channels agree, but for what a stop or a start that raised left at work |
| `LaunchIsClean` | 2 processes, 1 shell | until a launch crosses another's window: one runtime, named by the pid file; no pause inherited from a dead process |
| `TimedPauseEnds` | the same | a timed pause ends once the operator types nothing more |
| `FileIsCache` | 1 text, 2 sends and a reply, 2 tabs, 2 loads | with both threads idle the chat file holds what the cache holds, unless one wrote inside the other's rewrite or an old history is in use |
| `AcyclicUnlessRaced` | 3 names, 4 ids, 3 writes | no cycle, unless an edge went in between a writer's walk and its insertion |
| `EdgesJoinTheLinked` | the same | no dangling edge; an edge that goes in joins rows of the names its writer was asked to link |
| `AtMostOneRetry` | 2 calls, 3 transports | a call has its effect at most twice, once without reconnect; no answer is made up |
| `AnswersAreTrue` | 2 calls, 1 server | nothing is done twice, "done" was, "not sent" never will be; a tab an answered call has open, failed or not, is in the list it was shown |
| `RetryIsInformed` | 1 command, 3 starts | refused never ran; an exit code or a host timeout means that the process and all that held its pipes have ended; an environment that is missing has a reason |
| `NoCallLostSilently` | answers of 4 pieces | a call in the decision is dispatched or lies in a reported failure |
| `DamageDegrades` | 2 short names, 1 plugin engine | the asked engine where it can be had; a damaged `engines/` tree degrades to the default but for four kinds of damage that end the start |
| `RepeatsOnlyTransient` | 0 or 2 retries, 2 token counts | retries only after transient failures and within the cap; a reranker always answers |
| `NothingPendingIsMissing` | 2 units, 1 package, 2 installers, 1 edit | the record never claims what is not installed, for specifications that do not conflict |
| `LossesAreRevertible` | 3 editions, 1 backup kept, 1 second | what takes an edition out of `config.yaml`, an old form too, leaves the file in a backup; the bootstrap's rewriting loses one only if it fell in between or it was cut off |
| `SearchIsExhaustive` | 1 address and none, 2 pages of 2, at most 3 results, 4 by default | a search returns the first distinct results, none skipped, and fewer than it owes (what was asked for, within the cap) only when there are no more |

Why these bounds suffice.  Two stimuli are what the heartbeat's hazards take: one
being processed and one arriving in the middle (a push-back beside an arrival, a
fold beside a batch, a command beside a message); the phase at which the second
comes is free, and the retry cap is the one in the code.  Any number of beats are
explored.  Four calls allow two batches of two, so that stragglers of one meet
answers of the other, and a third batch.  Six rounds with a backlog of five
exceed twice the cap of two, so the start-up drop, capped compaction, splitting,
pruning and saving all happen in one behaviour.

Two communities are two KBs: enough for one to be merged into the other, archived,
revived by the other's community, reused by a node that follows its old community, and
recreated over a file whose unlink failed.  With an index node of each there are
four nodes to cluster.  `min_community_size` 2 makes communities
too small to migrate; the default 1 has fewer cases.  Items differ in name only, so symmetry over
them is sound for the safety properties of that run.

In `services`, two of everything that races (installers, calls, tabs, writers,
plugins, processes) and one spare attempt are what the hazards take: a resend, a
retry, a restart between two steps.  Retry counts 0 and 2 and token counts on either
side of the provider's minimum are the boundaries the client distinguishes.  Four
tokens hold a header, an opening tag, a call and a closing tag, with any of them
missing, doubled or out of place.  `Servers = 1` and one manager are restrictions of the
environment, named above, not sizes.  Two tabs are what a resend that was resent takes,
and three editions a form that is older than the file it overwrites.  Commands share
nothing but the environment, whose steps treat each alike, so one is as good as many;
three starts generate a token, use it, and meet a guest that was given another.

Each property of a passing run has a mutant: a definition changed as a plausible
bug would change it, under which TLC finds the property violated.  They stand
before the definition they mutate and are named `Mutant...`.

**Fairness.** `FairSpec` of `Heartbeat` is weak fairness of the beat's own steps: the
event loop runs a coroutine that is ready.  That intervals elapse is *not*
assumed by `FairSpec`; `StopIsHonoured` and `NothingIsStuck` name it as a
premise, and the latter also that the LLM keeps giving a valid answer now and
then (strong fairness, since its being called comes and goes).  `UrgentIsTakenUp`
holds without either, which is its point.  `Dispatch` assumes that ready tasks run
and that executions end: the tools in this repository have time-outs of
their own.

`services` assumes of `ProcessLifecycle` that a runtime's loop keeps polling (twice a
second while paused, in `DefaultHeartbeatEngine.run`) and that the clock advances;
nothing of the operator.

`Heartbeat` has an explicit `Ended` step where the program ends, so deadlock is
checked in the runs of the core.  The components of `services` come to rest when their
bounded inputs are used up, so it is not checked there.
No liveness is claimed of the sleep cycle: it may fail every time.

### Where the code and its documents disagree

* A `/status` that recall does not cover is executed again by the next beat
  (`command_runs_once`), because commands are seeded into the recall session
  before they are filtered.
* Feedback folded in by an interrupted retry is answered but neither ingested nor
  saved in the round (`seen_feedback_ingested`).
* "All dispatched tools completed." may be read while newer calls are running
  (`stale_notice`).
* "Only active KBs get GM nodes", but the index node of a merged KB is left in the
  graph (`stale_index_node`): archiving drops it, merging does not.
* An edge of the operator's page, inserted between another writer's walk and its
  insertion, closes a cycle in a graph said to be acyclic (`graph_acyclic`).
* "Apply changes" says it re-reads `config.yaml`, but goes by the list of plugins read
  at start-up (`reload_follows_config`).
* Stated in a module, refuted by TLC when checked, and in no run:
  `BacklogShrinks` with `max_pops_per_beat: 1`, an accepted setting under which no backlog
  drains; `WebChat.FileIsTruth` ("the file is the single source of truth"), since a reply
  written between a receipt's truncation and its end is overwritten (`history.py:81-83`);
  `WebChat.ToldOnce`, since a deletion is not told to the other tabs and its failure is
  ignored (`ws_route.py:55-62`): a second tab resends what the first has resent;
  `WebChat.ListedOnce` ("so the history doesn't accumulate duplicates"), since a line
  appended after a rewrite has read its record is in the file twice;
  `ProcessLifecycle.StartNeverDoubles` ("start won't double-launch on top of an active
  foreground run", `cli/lifecycle.py:7`), with three launches: a terminal hangs up, `start`
  follows while the old process is closing, whose cleanup then takes the new entry away,
  and the next `start` finds none; `PluginReload.NothingRunsUnmarked` ("must drain any
  background task"), since a stop that raises first is passed over;
  `Environments.NothingOutlivesTimeout`, since only the direct child is killed;
  `FirstBoot.EverySaveRevertible` ("a bad save can always be reverted"), since backups
  are named by the second, trimmed to the newest, and every start makes one
  (`config_backup.py`): two saves within a second leave one; `WebSearch.WithinCap` ("Hard
  cap is 50 regardless", `searxng_search/meta.yaml:71`; "Hard ceiling on results-per-call",
  `tool.py:25`), since only the count Self asks for is cut to it (`tool.py:205`) and not
  `default_max_results`; `BrowserServer.SelfKnowsTabs` with two servers;
  `EngineResolution.UnknownNameRaises`, since a misspelt name of a slot in the emergency
  table gets its engine and a warning; `DecisionParsing.AllBlocksParse`, since only the decision's
  section is scanned when there are sections; `LlmCalls.ThinkingFitsOutput`, since a small `max_output_tokens`
  leaves no room for the minimal budget (`_client.py`).
* "OR the module itself doesn't import ... `FALLBACK_ENGINES[slot]` is consulted"
  (`registry.py:262-267`), but only when the import fails with an `ImportError`, and then
  the same in-tree module is imported again where the table names it (`defaults.py`).
* Seen while modelling: a command on the host whose descendants keep its pipes is never
  answered (`local_environment.py:61` waits for them after the kill); the bootstrap's completion is remembered by the identity it
  wrote, so "re-enable" completes again at the first note; a hot reload brings back a
  modifier that "deactivates itself for the rest of the session"; back-off is "capped
  at 30s" before jitter is added; a failure on a later page of a search discards the
  earlier pages; a search container killed between creating and filling
  `settings.yml` never serves JSON again.
* Seen earlier: `parse_command` fails on a
  lone `/` and ends the loop (modelled, `RunBareSlash`); a round pruned for the
  prompt budget is dropped if its extraction fails, although the docstring of
  `enforce_input_budget` promotes it "so nothing is lost" (modelled, `PruneFails`);
  a node that stays behind when its community migrates goes on following that community,
  of which it is then the only member: with `min_community_size` above 1 it never migrates
  (modelled, `Joins` and `SizeOf`; nothing is lost by it).

## What is proved

`StimulusBuffer_proofs`, for any set of stimuli and lists of any length: type
correctness and the exactness of both events, over `OpenSpec` and, because its
steps are among those, over `Spec`.  The exactness of each event is inductive once
typed; the work is in `UrgentConcat`: what is urgent in a concatenation.

`Heartbeat_proofs`, for any number of arrivals, any arrivals and any retry cap:

* Every step of the heartbeat is one push, drain or peek, or leaves the buffer alone (the
  lemma `NextUsesBuffer`), so what is proved of the buffer holds in the heartbeat:
  `UrgencyCorrect`.
* `TypeCorrect`, which stands in for a check of `TypeOK` in the runs: the types of the
  beat's own state (`BeatTypeOK`), one lemma per group of actions, with the buffer's
  type from `NextUsesBuffer`.
* `CommandsStayOutOfBand`: inductive as it stands once the scan is known to be
  finished only when no command is left in it (`ScanDone`), for both `batch` and
  `folded`.

`Dispatch_proofs`, for any number of calls, whether executions may be lost or not.
The invariant is `Tracked`: the calls issued so far are exactly those with a task, and
the tracker's set is exactly the unanswered calls.  The second part fails to be
inductive without the first, which is why a new batch is disjoint from the old ones.

* `TrackerImplementsBarrier`: `Spec => TrackerKeepsPromise`.  Dispatching maps to
  `Dispatch(batch)`, the three ways a call is answered to `Answer(c)`, all else to
  stuttering; `Tracked` makes "the tracker holds only this call" the same as "only
  this call is open".
* `ResultsComeFirst`: `ResultsPrecedeNotice`, strengthened by `AnswersReach` (every
  answer given is read or in the list).  When the last call is answered every other
  call is, so its answer is read or in the list the notice is appended to.
* `TypeCorrect`.

* `AnswersAreConserved`: each answer is in the list once or has been read, never both,
  and every answer comes from an answered call (`Conserved`, with `OneAnswerEach`).  A
  push is of a call that had no answer so far, which `Tracked` says.

`Heartbeat_proofs` goes on with what becomes of a stimulus.  None of the four
properties is inductive; `HeartbeatInv` adds where a stimulus may be in which phase
(`ListsInPhase`, `RecallIsDrained`, `NothingPeeked`), that ids are not shared
(`ObjectsKnown`) and what its deliveries cost (`DeliveriesPaid`).

* `NothingWaitsTwice`: a push-back puts back only what is not in the buffer, because what
  recall works on was drained from it.
* `PreloadIsWhatWasPeeked`: idle extends the session by what it peeks, and a drain undoes
  both.
* `RedeliveryIsBounded`: prompts that showed a stimulus, plus the one it is due for, never
  exceed one plus its retry count, and a push-back counts before it pushes.
* `NothingLeavesUnseen`, an action property: every stimulus held before a step is held
  after it or `Accounted` for, action by action.

`HistoryWindow_proofs`, for any rounds, sizes, caps and backlog, writes failing or not.
`HistoryInv` adds to the types that window and file are increasing, that a round in the
memory is in neither unless its pop was not written (`NotShownTwice`), that a restart
would show nothing else than the window shows (`RestartShowsNoMore`, without which a
crash breaks the former), and that what has left is older (`LeftIsOlder`).

* `NothingResurrected`, `OldestLeavesFirst` follow from it; `LossesKnown` is an action
  property of its own; `WindowStaysBounded` and `BacklogDrains` rest on the length of
  the window in each phase, measured against its length when the beat began
  (`WindowShrinks`).
* `BacklogDrains` assumes `MaxPops >= 2`.  The code's default is 5, but it accepts 1
  (`_sanitize_positive_int`), and then TLC refutes the property.

`MemorySleep_proofs`, for any items, communities and settings, cycles aborting anywhere.
`SleepInv` says what each phase's locals know: what is counted as copied has an entry in
a registered KB (`MigrationSound`), the file of an unregistered KB holds nothing that is
not elsewhere (`FilesAreCovered`), an entry of a KB being merged is still to be moved or
is in the target (`ConsolidationSound`), an active KB without an index node is on the
list (`IndexUnderWay`).

* `NothingStoredIsLost` and `NoActiveKbIsForgotten`, the second from `IndexUnderWay`.
* `SleepImplementsMemory`: `Spec => MemoryKeepsPromise`, the step simulation of
  `LongTermMemory`.  Deleting a migrated node, dropping a row and clearing `FOCUS` are the
  steps with something to show; the invariant makes the first two stutter.

The services.  In `MCServices` one component moves and the others keep still: a lemma
`...Moves` says so of one component, and `...GoesOn` that its steps keep its invariant.
What each invariant adds to the property:

* `LaunchesAreClean` (`LaunchIsClean`), without a restriction on launches: until one has
  crossed another's window, a launch past its check is alone (`EntersAlone`), and so is a
  process that closes (`ClosesAlone`), the file names what runs (`NamedByFile`), a stop under
  way takes nobody else's entry away (`StopsAreApt`), and a pause was asked for from
  start-up on (`PausesWereAsked`).
* `OnlyTransientRepeated`, `DamageIsSurvived`, `RetriesAreInformed`: each phase of a call, a
  resolution or a command fixes what may have happened before.
* `EditsCanBeReverted` (`LossesAreRevertible`), an action property: what the bootstrap holds
  between its read and its write is the file, unless somebody wrote meanwhile (`BootInv`),
  and of the backups a save makes the newest is never trimmed away (`BackupMade`).
* `PendingIsNoticed`: what an installer that is under way has found is installed, done,
  or still on its list (`UnderWay`), although a second installer and edits go on.
* `EffectsRepeatOnce`: the second execution is possible only after a reconnect, and a
  call reconnects once.
* `BrowserAnswersTruly`, for any number of servers: nobody was told anything definite of
  a job that is still queued (`Queued`), no job is in two queues (`JobsDistinct`), and a tab
  was listed in the envelope of the answer that left it open.
* `LinksGoWhereAsked` (`EdgesJoinTheLinked`): an id a writer holds was given to a row of
  the name it holds it for; that row may be gone, but the id is no other's (`Holds`), as
  ids are never given twice.  Rows may lose their category, never their name (`Keeps`).
* `FileIsTheCache` (`FileIsCache`): while no rewrite is under way, what is in the cache is in
  the file or about to be appended by the thread that entered it (`InFile`, `Entered`); a
  rewrite has in hand what it has read of the cache, and at its end all but what the other
  thread is still to append (`InHand`).  Each thread has one operation at a time, since
  the sockets share one loop and the tools the other.
* `WholeAtRestHolds` (`WholeAtRest`), assuming `OneManager` and `NamesApart`, as the run does:
  one reload at a time, and no name shared between two plugins or between a channel and
  another component.  No code enforces either; without them TLC finds registries that
  disagree.  A name is registered by the plugin recorded to own it, and what is still
  registered of a plugin being taken down is still on the manager's list (`RegistryIsOwned`,
  `ChannelsAreOwned`); a channel that runs is marked under the name it is registered by, or
  is being stopped, or was left by one that raised (`RunningIsMarked`); no job to come loads what is loaded or what another
  job is about (`JobsAreSound`).
* `CyclesAreRaced` (`AcyclicUnlessRaced`): a graph is acyclic when each non-empty set of its
  edges has a node on only one of them, which is what `Forest` says with cardinalities
  (`ForestIsAcyclic`).  A finished walk that missed the other end leaves a closed set that
  holds one end and not the other (`WalkIsSound`, `Apart`), and an edge between two such
  ends keeps the graph acyclic; no argument over paths is needed.
* `SearchesAreExhaustive` (`SearchIsExhaustive`): what was taken is what the definition of the
  first distinct results gives for the pages read so far (`Taken`), carried from page to
  page and from result to result.
* `CallsAreNotLost` (`NoCallLostSilently`): an answer's variables never change but to be
  translated, so the work is in what the scan computes.  After `n` tokens it remembers the
  earliest opening tag of the decision that is not closed, and every enclosed piece is in
  a block or behind that tag (`Scanned`, kept by `ScanGoesOn`; `BlocksAreFound`).
* `TypesAreKept` (`ServicesTypeOK`): types that say something need their invariant: the
  transport a call names was opened (`Opened`), a backup's second is no other's, so that
  trimming keeps at most `keep_last` (`SecondsApart`),
  a manager at work has a job (`Aims`).

Recursive functions (the scan of an answer, the walk over a graph, the list a page extends,
the lists of a reload) are proved about by a least counterexample: `Least` gives a smallest
element of a set of naturals, `Iteration` a function that satisfies the equations of a
recursion over `0..n`, `UpTo` that what holds at 0 and is passed on holds up to `n`.  The
predicate of each induction is a set named in the lemma, so that no operator is passed as a
parameter, as the library's induction theorems would ask.

Assumptions are the named `ASSUME`s on the constants, which TLC evaluates in the runs:
bounds are numbers, at least one where the code hands one out (`BoundsAssumption`, which also asks that backups be kept;
`NodeMaxAssumption`); counts of results are positive (`WantsAssumption`); plugins are
listed each once and a manifest is a list (`BundleAssumption`); a process builds at
least one history (`ChatAssumption`); retries are an integer from the configuration,
which may be negative (`RetriesAssumption`); names of classes are distinct
(`NamesAreDistinct`), as a class is found by its name; the absent process id is no pid
(`NobodyIsNoProcess`); the extractor's answer is read as lists of items and of pairs of
names (`ExtractionAssumption`), and `FACT`, with which an ingested text starts, is a
category of the schema (`FactIsACategory`).

Model-checked only: all liveness (`UrgentIsTakenUp`, `StopIsHonoured`, `NothingIsStuck`,
`CallsAreAnswered`, `TimedPauseEnds`), which is out of the prover's reach.

## What is not modelled

* Text: prompts, logging, formatting, the wording of reports, the repair of JSON
  inside a tool call; and the ranking of recall, where any choice is allowed.
* The embeddings, importance and access counts of the graph, full-text and vector
  search, the operator's edits of knowledge bases, the daily log.
* Composition and close of the runtime, the parsing of configuration values.
* The dashboard's views, uploads, attachments and logs; the join of its own server
  thread when a reload stops the channel that carries the request.
* External memory services, whose state is not in this repository; the DuckDuckGo
  and Telegram clients beyond starting and stopping a channel; the note of
  `in_mind_note`, one small file.
* The Windows branches of the command line, self-update, the onboarding dialogue.
* Hazards of the code that are listed nowhere else because no property covers them:
  `create_kb` enters a KB in `_open` before its `INSERT`; migration may reuse an archived
  KB; `set_metadata` and `auto_ingest` read, await and write back; a sleep asked for
  during a cycle is coalesced; communities of earlier cycles win over new ones.
