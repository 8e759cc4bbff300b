# Formal model of the LangGraph agent service

TLA+ modules, TLC configurations and TLAPS proofs for the agent service in this
repository: a FastAPI application that runs a LangGraph agent on conversation
threads kept in PostgreSQL, with a human approval gate in front of the agent
whose tools have side effects.

Paths below are relative to the repository; `AO` stands for
`app/modules/agent_orchestration` and `E` for `AO/infrastructure/langgraph_engine`.

## 1. Inventory

| part | state it keeps | operations | talks to |
|---|---|---|---|
| Agent thread (`E/main_graph_builder.py`, `E/subgraphs/supervisor`, `E/shared_nodes`, the three use cases, the chat and approval routers) | the checkpoints of each thread (LangGraph saver); per request: the node it is at and its copy of the state values | chat, stream, resume, get_state | the saver, the models, the two tool subgraphs |
| Human approval gate (`human_review_node.py`, `approval_router.py`) | `next_agent`, `human_feedback` and the pending interrupt, in the thread | interrupt, resume with a decision | thread, approval router |
| Routing (`AO/domain/routing_rules`, `task_delegator.py`) | none | pure rules; the delegator applies an override and a fallback to the model's answer | thread |
| Memory (`AO/domain/memory_policy.py`, `memory_manager_node.py`, `agent_result.py`) | the `messages` channel | decide, cut, remove, add a summary; hide the summary from replies | thread |
| Tool loop (`E/subgraphs/researcher`, `E/subgraphs/workspace`) | messages, `retrieved_context`, `search_queries`, `context_is_sufficient` | plan, run tools, collect, validate, synthesise | thread, tools, output cap |
| Checkpoint saver (`E/memory/postgres_saver.py`, `database/postgres/bootstrap.py`, the lifespan in `app/main.py`) | the database and its checkpoint tables; per process the module globals `_pool`, `_saver` | create the database, init, ensure, get, close | every request, every Celery task |
| Accounts (`app/modules/users`, `app/modules/sessions`, unit of work, JWT) | the users and sessions tables; one transaction per request | register, log in, refresh, update, delete; create, list, rename, delete sessions | PostgreSQL |
| Orchestrator cache and tool registry (`app/api/dependencies.py`, `di_container.py`) | the container's singletons, the signature on the orchestrator | get or rebuild, register tools, compile | thread, settings, saver |
| MCP bootstrap and gateways (`mcp_bootstrap.py`, `client_factory.py`, `path_interceptor.py`) | the tools discovered at boot | load, name, refuse collisions, rewrite path arguments | MCP servers, registry |
| Celery workers (`workers/`) | the broker's messages and the one a worker holds | run one turn on a thread, retry, acknowledge | orchestrator cache, saver, thread |
| Prompts, model gateways, settings, container, logging, health, migrations, scripts | configuration | – | – |

The service has no lock per thread: two requests may run the graph on one thread,
suspended at every `await`; a node may raise; a stream's client may go away; the
process may restart. What each finds next time is whatever the saver holds. Around
that core, transactions on the account tables interleave statement by statement at READ
COMMITTED; endpoints resolve their orchestrator in threads, side by side, while
`.env` may be edited; workers retry and are given messages twice. `PROJECT.json` lists
the hazards of all parts at their lines, with the property that covers each or the
reason none does.

What makes each part correct:

* **Thread and gate**: workspace tools run for a turn only after a human approved
  that turn; a rejection is final for its run; a reply belongs to the message it
  answers; answered turns stay in the history; a pending review is lost only to a
  decision or a newer message; every request ends.
* **Memory**: what a saved history has lost are intermediate steps of one turn, never a question, an answer
  that was kept, or an earlier turn; the reply survives a compaction; summaries stay internal; the history stays bounded.
* **Tool loop**: what is judged and synthesised are the results of this pass, each
  once; in the saved conversation results follow their call; effects repeat only with
  resumes; a pass ends, in a reply; the output cap holds.
* **Saver**: a request that is served has tables and a saver, whichever process made them.
* **Orchestrator cache and tools**: no request works with tools or a graph that its settings
  had replaced; no request fails over names.
* **Paths**: what a caller means inside the sandbox arrives as its absolute path, anything
  else arrives as written; rewriting twice is rewriting once.
* **Accounts**: one user per address whatever interleaves; no session without its
  user; a user goes with all its sessions at once; a request changes what its token owns;
  every request is answered, deadlocks included.
* **Workers**: the turns of a task are bounded by attempts and redeliveries, and every
  task is finished with.

## 2. Plan

The modules, in the order they were written, the most important behaviour first:

1. `Routing`, `MemoryPolicy`: the pure rules.
2. `ApprovalGate`: the abstract promise of the gate.
3. `SupervisorThread`, composed of 1 and shown to implement 2, with `SupervisorThreadProofs` (types, gate,
   refinement), `ThreadMessagesProofs` (histories and replies) and `ThreadSerialProofs` (clients that send one
   request at a time), each resting on the one before.
4. `ToolLoop`: one pass of the researcher or workspace subgraph, with `ToolLoopProofs`.
5. `Directory`, `Accounts`: the promise of the account store and the transactions that
   implement it, with `AccountsProofs` and, for deadlocks, lost updates and errors, `AccountsRacesProofs`.
6. `ToolCatalog`, `AgentProcess`: the processes around the thread (boot, saver, orchestrator
   cache, workers), with `AgentProcessProofs`.
7. `PathRewriting`: the arguments of file tools on their way to the server, with `PathRewritingProofs`.

Each component has an MC module; `MCProcess` runs 6 and 7. What is left is listed in
sections 5 (what only the model checker says) and 7 (what is not modelled).

## 3. The modules

### `Routing`, `MemoryPolicy`

Direct translations of `approval_router.py`, the decision part of
`task_delegator.py`, `researcher_router.py` and `memory_policy.py`. The truth tests
of Python on `None` and `""` are both `NoAgent`. The delegator's input is any
name, so the legacy name `file_writer`, the override for local-time questions and the
fallback without workspace tools are all reachable.

### `SupervisorThread`

One thread. Variables and what they stand for:

| variable | in the code |
|---|---|
| `ckpts` | the master checkpoints of the thread in the saver; `sub` is the supervisor subgraph's checkpoint saved under the same one, `asked` the stored interrupt |
| `kind`, `action` | which endpoint a request called, and what a resume says |
| `pc` | where its handler stands: not sent, loaded, pause checked, running, run ended, answered, refused with a conflict, failed |
| `base`, `at`, `vals` | the checkpoint the run works from, the node it executes next, its copy of the channels |
| `resume` | the value of `Command(resume=...)` until an `interrupt()` takes it |
| `interrupted` | the flag of the response |
| `decided`, `ran` | history: decisions consumed by the review, runs of workspace tools |

| action | in the code |
|---|---|
| `ChatLoad`, `ChatBegin` | `invoke` / `stream`: `ainvoke`/`astream` loads the channels, then writes them back with the new message and the reset fields |
| `ResumeCheck`, `ResumeBegin` | `resume`: `snapshot_is_paused` on one snapshot, `ainvoke(Command(...))` on the next |
| `Delegate`, `AskHuman`, `HumanReview`, `Researcher`, `WorkspaceTools`, `WorkspaceReply`, `Chat`, `MemoryManager` | the nodes of `build_supervisor_graph`, each with the edge that follows it |
| `SupervisorEnd`, `ErrorHandler` | the master graph's two steps |
| `Respond` | `to_run_result`, `last_ai_reply` |
| `Fail`, `Disconnect`, `Crash` | an exception of a node, a cancelled stream, a restart |

Messages carry an id, a kind and the turn (the request) they belong to. A summary carries the ids of the
messages it was written from, which may be fewer than a compaction removes: `Payload` is the part of the removed prefix
that has room in `summary_max_chars`, the oldest messages first (`Rooms` gives the possible numbers of whole
messages; one that is cut off in the middle is not counted). Texts, prompts and tool arguments are left out; what a model
answers is chosen nondeterministically.

**What is assumed of LangGraph** (version in `uv.lock`; not part of the repository):

* a thread is a log of checkpoints and the latest one counts; a fresh input loads its
  channel values, drops its unfinished task and writes a new checkpoint;
* a compiled subgraph used as a node saves its own checkpoints in a namespace keyed by the
  parent's task, so a run that continues the parent checkpoint continues the subgraph
  where it stood;
* an exception or a restart leaves the checkpoint with its `next`;
* `Command(resume=v)` without a pending interrupt is accepted: the pending task runs
  and `v` is returned by the first `interrupt()` it reaches; on a finished thread it
  runs nothing;
* the interrupt stays stored with its checkpoint;
* a step's checkpoint is written before the next step starts (the saver's background
  write is not modelled);
* the subgraph's final values are merged into the parent's channels by their reducers.

The subgraphs of the researcher and the workspace agent are compiled the same way;
their own progress is abstracted: on a resume the tools may run again or be
remembered, and either is possible in the model. One pass adds at most one round of
tool results (`ToolResults` gives the possible sizes). The state's `error` field is left out because no node of
any graph writes it; the routing rules are called with no error.

### `ToolLoop`

One pass of the researcher graph. The workspace graph has the same nodes and edges
under other names and prompts, so one module stands for both. `SupervisorThread` sees a
pass as one step (two for the gated agent); `ToolLoop` opens it.

| variable | in the code |
|---|---|
| `messages`, `context`, `sufficient`, `queries` | the channels of `ResearcherState`; of `search_queries` only whether there are any |
| `history` | the conversation the pass started from |
| `at`, `status`, `steps` | the node that runs next; running, stopped by a failure or the limit, or ended; steps of this invocation |
| `attempt`, `done` | what the current step holds in local variables: the attempt of `plan_search`, the results of the calls that have ended |
| `prompt` | the conversation the last model call was given |
| `effects`, `resumes` | history: executions of each call, resumptions |

| action | in the code |
|---|---|
| `PlanSearch`, `PlanRetry` | `plan_search`, its edge, and its second attempt after a tool format error |
| `RunTool`, `Search` | the `ToolNode`: one call ends; all have ended and their messages are added |
| `CollectContext`, `ValidateContext`, `Synthesize` | the other nodes with their edges, `route_researcher` from `Routing` |
| `Stop`, `Resume` | an exception, a cancellation or a restart, and the thread's next resume |

A message carries its kind, the plan it belongs to, the place of its call in the plan
and a size. Sizes count characters in the output cap and tokens in the trimming; no
property relates the two. The notice of the output cap has one length, the
digits of the count it prints left aside.

**What is assumed of LangGraph and LangChain**: a step is saved when it ends, and a
resume starts the unsaved step anew; the calls of one plan run concurrently, an
exception of a tool becomes a result, and the results are added in the order of the calls; an
invocation stops at a limit on steps, counted from its start; `trim_messages` with
strategy "last" keeps the longest suffix that fits.

### `Accounts`, `Directory`

`Accounts` has the endpoints of the authentication, user and session routers, each with
the service, the unit of work and the repository under it. One action is one SQL statement
(or one part of a flush), because that is where other transactions come in.

| variable | in the code |
|---|---|
| `users`, `sessions` | the tables as committed, with the columns the rules look at |
| `issued` | the tokens `jwt_service.py` has signed |
| `pc`, `call` | the statement a request comes to next; what it asks, and for which user |
| `seen`, `dirty`, `targets` | the row `update_user` read first; the columns its flush finds changed; the rows the next statement writes |
| `row`, `userRows`, `sessionRows` | what the open transaction has written, and the rows it holds by that |
| `answer`, `alone` | the response; history: whether another writer overlapped |

| action | in the code |
|---|---|
| `Login`, `Refresh`, `ReadUser`, `ReadSessions`, `RefuseToken`, `RefusePath` | requests of one statement, and those refused before any |
| `Register`, `UpdateUser`, `DeleteUser`, `CreateSession`, `RenameSession`, `DeleteSession` | the first statement of a request that writes, with its early refusals |
| `CheckAddress` | `get_by_email` of an update |
| `RefetchToUpdate`, `RefetchToDelete`, `RefetchSession`, `LoadSessions` | the repository's `session.get`, and the load of the sessions an ORM delete cascades to |
| `WriteSessions`, `WriteUser`, `EraseUser`, `Cascade`, `Index`, `InsertSession` | the statements of the flush, and what the database does under them |
| `Commit`, `Fail`, `Deadlock` | `uow.commit()`; any await that raises, rolled back by `__aexit__`; the victim the database picks |

A request's answer is `ok`, `refused` (a 4xx with a handler), `error` (an exception no
handler maps, a 500) or `failed` (an outage). A lost acknowledgement of a commit is
`failed` as well.

**What is assumed of PostgreSQL and SQLAlchemy**: READ COMMITTED (the engine sets no
other level); a statement sees the rows committed when it starts, a writer waits for the rows and
index entries other open transactions have written; an INSERT into `sessions` shares the
key of its user; `ON DELETE CASCADE` and the unique index as in the migration; a deadlock
ends one of its transactions; a flush writes only changed columns, and raises
if an UPDATE finds no row; the identity map holds its objects weakly.

`Directory` is the store without requests: rows are put and removed by whole operations,
an address only when it is free, a user together with its sessions.

### `ToolCatalog`, `AgentProcess`

`ToolCatalog` names tools: the built-in ones and `server__tool` for those of MCP servers.
A name is the sequence of its segments between `__`, because different pairs may make
the same name; `BootFails` and `RegistryFails` are the two places names are compared.

`AgentProcess` is about what a run needs before it can start. A slot is what works on a
run: an HTTP request, or a worker with the one task it works on.

| variable | in the code |
|---|---|
| `versions`, `edits` | what `.env` has held; `get_settings()` reads the last |
| `database`, `tables` | the database and the checkpoint tables in it |
| `phase`, `booted` | how far `lifespan` has come, and the settings it read |
| `saver`, `cached` | per process: the global `_saver`, the container's orchestrator |
| `step`, `home` | how far a slot is in `_get_orchestrator` and the orchestrator's run; its process |
| `asked`, `made`, `got` | the settings of the signature read; the versions the signature, tools and graph of the orchestrator it built are of; the orchestrator it works with |
| `queue`, `held`, `runs`, `redelivered` | the messages of a task by attempt, the one a worker has not acknowledged; history: turns run, redeliveries |

| action | in the code |
|---|---|
| `Start`, `FindDatabase`, `CreateDatabase`, `OpenPool`, `SetupTables`, `LoadTools`, `Shutdown`, `Die` | `lifespan` and what it calls, in its order; `Die` is an exception in it or the end of the process |
| `Edit` | somebody edits `.env` |
| `Arrive`, `Resolve`, `Build`, `Register` | `_get_orchestrator`; endpoints' dependencies are plain functions, so FastAPI runs them in threads, and each of the steps may interleave with another's |
| `Ensure`, `OpenOwnPool`, `SetupOwnTables`, `Compile` | `_ensure_graph`: `ensure_checkpointer_ready`, then the compilation that reads the settings a third time |
| `Run`, `Result`, `Raise` | the run up to its first checkpoint, what is done with its result, an exception anywhere |
| `Take`, `Retry`, `Acknowledge`, `Redeliver` | Celery with late acknowledgement: the task, `self.retry`, the end of the message, its second delivery (with or without the death of the worker) |

What `Run` starts is the thread of `SupervisorThread`; that a message may be added
several times for a task is the chat request of that module sent again.

**What is assumed**: FastAPI runs the dependencies that are plain functions in threads;
the lifespan ends after the last response; the supervisor of the API process starts it
again; Celery works on one message per worker process (`worker_prefetch_multiplier=1`)
and its broker may deliver a message again; the worker has imported
`workers/agent_tasks.py` (section 6 says that it does not by itself). `CREATE DATABASE` fails
if the database exists. `AsyncPostgresSaver.setup` is idempotent.

### `PathRewriting`

`normalize_path_string` and its callers, branch by branch, over paths as sequences of parts;
`Links` are symbolic links, each with the place it stands for once other links are followed
(`PathAssumption`: no link is on the way to that place), and `RealPath` is `Path.resolve`. A call goes through the
wrapped tool and then through the client's interceptor or past it, as the docstring of the
wrapper describes. `Meant` says independently of the code which place a caller means.
Windows paths, the characters around a path and unreadable directories are left out.

### `ApprovalGate`

What the gate promises: grants and uses of turns only grow and a use needs its turn's grant.
`SupervisorThread!Gate` instantiates it with the approved decisions and the tool runs.

## 4. Runs

The thread's runs are on `MCSupervisorThread`, which adds the symmetry of the requests,
the tool loop's on `MCToolLoop`, which gives the conversations a pass starts from, the
others on `MCAccounts` and `MCProcess`. TLC explores each passing run exhaustively.
Deadlock is not checked because the history of requests is finite: once all are over, or
the pass has ended, the system rests, as the service does. (Transactions that wait for each
other are not such a deadlock; `DeadlocksAreOfUsers` and `EveryRequestEnds` are about them.)

| run | cfg | instance | shows |
|---|---|---|---|
| `thread_concurrent` | `SupervisorThread.cfg` | 3 requests interleaved, model always delegates to workspace, 1 restart | `TypeOK`, `ToolsOnlyAfterApproval`, `ConsumedRejectionIsFinal`, `ReplyIsOfTheTurn`, `GateSpec` |
| `thread_serial` | `SerialThread.cfg` | 3 requests in sequence, all routes, 1 restart | `ReplyIsOfTheTurn`, `OnlyOwnStepsAreLost`, `AnsweredTurnsAreKept`, `OneDecisionPerReview`, `InterruptedIsOwn`, `PendingReviewStays` |
| `thread_liveness` | `ThreadLiveness.cfg` | 2 requests interleaved, fairness | `EveryRequestEnds` |
| `thread_paused_means_asked` | `PausedMeansAsked.cfg` | sequential | finding: a failed run counts as paused |
| `thread_tools_after_request_shown` | `ToolsOnlyAfterRequestShown.cfg` | sequential | finding: a resume of a run that failed early answers the review unseen |
| `thread_rejecting_runs_nothing` | `RejectingRunsNothing.cfg` | sequential | finding: a rejection after a failed approved run runs the tools again |
| `thread_summary_is_internal` | `SummaryIsInternal.cfg` | sequential, rounds of up to `Keep` results | finding: the internal summary is the reply |
| `thread_history_is_compacted` | `HistoryIsCompacted.cfg` | sequential | finding: the persisted history is never shortened |
| `tool_loop` | `ToolLoop.cfg` | a new and a continued conversation, up to 2 concurrent calls, 6 steps, 1 resume | `TypeOK`, `ContextIsOfThePass`, `ResultsFollowTheirCall`, `EffectsAreBounded`, `PassEndsInReply`, `ResultsAreCapped`, `PassStops` |
| `tool_loop_prompt_keeps_pairs` | `PromptKeepsPairs.cfg` | the same, no resume | finding: trimming separates results from their call |
| `accounts` | `Accounts.cfg` | 3 requests on 2 users, 1 session, 3 addresses | `TypeOK`, `OneUserPerAddress`, `SessionsHaveUser`, `ErrorsAreRaces`, `DeadlocksAreOfUsers`, `StoreSpec`, `OnlyOwnDataChanges`, `ChangesAreAskedOrReadBack`, `EveryRequestEnds` |
| `process` | `Process.cfg` | API processes with requests and edits, or workers with a task, or one call of a file tool | `TypeOK`, `NothingOutdated`, `NoRequestMeetsClash`, `RequestsFindTables`, `RunsAreBounded`, `EveryRunEnds`, `MovedIntoSandboxOrLeft`, `TwiceIsOnce` |

**Bounds.** `Requests` is the length of the client history. Three suffice for a
message, a decision and a second decision or a newer message, which is what the
properties relate; a failure or restart between any two steps is free.
`MaxCrashes = 1` puts one restart anywhere. `Trigger = 3`, `Keep = 2` make a
compaction happen within the first turn with tools and again in every later one, and are on
both sides of `max(trigger, keep + 1)`. `Rooms = {2, 9}` in the run with all routes is a payload that
is cut off behind the second removed message, and one that has room for more than any run removes. `RawAgents` covers the gated route alone where
interleavings are explored, and every route (through the legacy name, the
override and the fallback) where requests are sequential. `ToolResults = {1}` keeps
rounds below `Keep`; the finding about summaries uses `{1, 2}`.

In the tool loop, six steps are a full round and the plan and tools of a second, so the limit
strikes inside a round; after the resume six more complete it. Two calls can end in either
order. `Sizes` has one size below and one above the output cap, which leaves room for the notice; a cap that does not is in the
theorem about `ResultsAreCapped` only. `MaxContextTokens`
is such that a prompt keeps a part of a round. The earlier pass in one of the starting
conversations ends in a reply, as a thread's does; results at the very end of
a conversation are only met after a pass without a synthesis, and the user's next message
follows them.

Of the three account requests (`MayAsk`) one asks anything but a new session, one takes
away or changes what the others rely on, and one creates a session. That is two writers for every
conflict and a third that both may wait for or miss; two deletions that deadlock over
sessions need the third to add one. Three addresses are two in use and a free one; two texts
stand for a changed and an unchanged column.

`Crews` bounds the processes: two requests of one process with two edits (there and
back, which is what can deceive the signature); two processes that boot side by side, one of them
with a request; no API process, and a task with two workers, one edit, one retry and one
redelivery. The settings are a base, one that changes the tools and
has servers whose names clash, and one with a server twice. The database and its tables may be there from an
earlier life or not. One API process may die once. Paths have up to four parts
out of six names and "..", absolute or not, in quotes or not, with a link out of the
sandbox and one into it. The processes and the path call share no state, so an instance
runs one or the other.

**Sequential properties.** Four properties (`AnsweredTurnsAreKept`, `OneDecisionPerReview`,
`InterruptedIsOwn`, `PendingReviewStays`) are promises to a client that sends one
request at a time (`Serial`). With overlapping requests they do not hold, nor does
the code suggest they should: a run may save over what another one saved, and the
flag of a response may be about another run. The others hold under every interleaving:
`thread_concurrent` checks them where there are no routes to choose from, `thread_serial` checks
`OnlyOwnStepsAreLost` and `ReplyIsOfTheTurn` with all routes, and the theorems have both at once.

**What is lost.** A compaction removes the whole prefix but summarises only what has room in `summary_max_chars`, so
messages can be in no history and no summary (`memory_manager_node.py:31`, a finding). `OnlyOwnStepsAreLost` says which: ids that a
checkpoint's history lacks belong to one pass, lie after its question and before the messages its compaction kept, and a
summary of that turn was written from them or from nothing but older messages. Earlier turns are safe because the removals
end with the subgraph: the master's channel keeps what it had (the finding of `HistoryIsCompacted`). If the
removals were forwarded to the master, the property would fail: questions would go too, and behind a cut-off payload
messages of earlier turns without a trace.

**Fairness.** `FairSpec` asks weak fairness of each request's own steps: the event
loop resumes every handler whose await has ended, model and tool calls end (the
clients have timeouts), and the tool loop is cut off by LangGraph's recursion limit. In the
tool loop `FairSpec` asks weak fairness of the pass's steps, and `PassStops` shows that the
limit on steps, which is a guard of the model, is what ends it. Nothing is
asked of clients, failures or restarts. `Accounts` asks weak fairness of the statements of all
requests together (the database goes on as long as any transaction can, and ends one of a deadlock);
`AgentProcess` of each slot's work and of each worker's broker steps, and nothing of boots, edits, arrivals,
deaths and redeliveries. In the thread `EveryRequestEnds` then says that no route of
the graph waits inside a request for something only another request can bring; in
particular the review ends the request that reaches it.

## 5. Proofs

`SupervisorThreadProofs` proves, for any set of requests, any number of crashes and
any settings that satisfy the assumptions of the module:

* `TypeCorrect`: `Spec => []TypeOK`;
* `GateHolds`: `Spec => []ToolsOnlyAfterApproval`;
* `RejectionHolds`: `Spec => []ConsumedRejectionIsFinal`;
* `GateRefined`: `Spec => GateSpec`, step by step: each action is a `Grant`, a `Use`
  or a stutter of `ApprovalGate`.

The assumptions are the two `ASSUME`s of `SupervisorThread`, in the next two modules as well (types of the constants,
and that the string for "no agent" is not a request).

`ToolsOnlyAfterApproval` is not inductive: a run at the workspace node has not run
anything yet. The invariant `IInv` is the conjunction of

* `TypeOK`;
* `BaseInv`: a run in progress works from a checkpoint that exists;
* `ResumeInv`: a resume value not consumed yet, and every decision consumed, is what
  its own resume request said, and a checked pause is on a thread that has checkpoints;
* `GateInv`: the turn of every run that stands at the workspace node, of every saved
  subgraph checkpoint that does, and of every use of the tools, was approved. This is
  the part that carries the argument through failures and resumes: the approval has to be
  attached to what is saved, since any later request may continue it;
* `RejectInv`: a run whose review consumed a rejection is past every tool and every
  review, and a run that used the tools is past every review.

`NextInv` has one step per action; the node actions share the lemma that a `GoOn`
step keeps the invariant when the new values do. The abstract gate follows from the
same invariant.

`ThreadMessagesProofs` proves, still for every interleaving, `OnlyOwnStepsLost` (`OnlyOwnStepsAreLost`) and
`ReplyOfTheTurn` (`ReplyIsOfTheTurn`). Saved histories alone do not carry the argument, because the memory manager
removes messages in the subgraph that `add_messages` later merges into the parent's history. `MsgInv` says of every history, saved or
in a run:

* `HistoriesAreWhole`: ids grow along it and a summary is written from older messages only. Lemmas show that each way the code writes a history (`Extended`, `Compacted`,
  `AddMessages`) keeps this, the merge of two histories included;
* `CheckpointsReply`, `RunsReply`, `AnswersReply`: past the node that replies, there is a reply of the own turn,
  younger than anything the parent checkpoint has (so the merge adds it) and, before a compaction, outside of what
  is cut. The last needs that a round of tools leaves fewer results than `Keep`, the condition in the property.

For what is lost, `LostInv` adds that each id up to the last is in the master's history or was removed by its own pass
(`CheckpointsAccount`), and that a run of the supervisor graph, and its saved progress, has every id since the question
its checkpoint ends with, except at the end of the graph, where its compaction may have removed some (`RunsAccount`).
The memory manager is only left towards the end, so a pass compacts once (`CompactedRemoves`); the merge takes over that pass's
summary with what is left of the pass and keeps all the master had, the question included (`MergedAccounts`).

`ThreadSerialProofs` proves, for clients that send one request at a time, `AnsweredTurnsKept` (`AnsweredTurnsAreKept`),
`ReviewsDecidedOnce` (`OneDecisionPerReview`), `FlagIsOfTheRun` (`InterruptedIsOwn`) and `PendingReviewIsKept`
(`PendingReviewStays`). `SerialInv` ties the one run in progress to the latest checkpoint: it works from it and its saved
progress is where the run stands (`OneAtATime`, `InStep`, `LatestFits`); a turn that stands before its review or at it is not decided
yet, so a decision leaves the review for good even if its run fails (`ReviewsPassed`); from its
first checkpoint on, a run's message is in the latest history (`AnsweredKept`).

`AccountsProofs` proves, for any requests, users, sessions, addresses and any initial tables that satisfy
`StoreAssumption`: `AccountTypes` (`TypeOK`), `UniqueAddresses` (`OneUserPerAddress`), `NoOrphanSessions`
(`SessionsHaveUser`), `StoreRefined` (`StoreSpec`) and `OnlyOwnData` (`OnlyOwnDataChanges`). The tables alone are not
inductive: what makes a commit right was checked statements before it. The invariant adds

* `Own`: what a transaction holds and will write is its own user's, of the kind its request writes, for every statement it can be at;
* `AddressIsFree`: the address a transaction about to commit has written belongs to nobody else in the tables;
* `Apart`: two open transactions hold different rows and have written different addresses, and none is about to
  delete a user for which another has inserted a session.

From these, lemmas show that a commit is one operation of `Directory`; every other statement leaves the tables alone.

`AccountsRacesProofs` goes on to what overlapping costs:

* `UserDeadlocks` (`DeadlocksAreOfUsers`): if every member of a set of transactions waits for another one of it, all delete one user or all change
  addresses. Who can be waited for, and while doing what, follows from `Own` and `Apart`: whoever waits for a row that is deleted
  waits for a deletion of its own user, whoever waits for an address waits for somebody who has written it,
  and no other statement waits while it holds what these want;
* `LostUpdatesInventNothing` (`ChangesAreAskedOrReadBack`): the row an open update has written takes each column from the request or
  from what it has read (`AllSourced`);
* `ErrorsComeFromRaces` (`ErrorsAreRaces`): as long as no other writer has overlapped a request, what it read still holds
  (`ReadsHold`), its address is free, and tokens and sessions are of users whose registration is over
  (`TokensOfRegistered`, `CreatorsRegistered`).

`AgentProcessProofs` proves, for any processes, workers, tasks, servers, tools and edits: `ProcessTypes`
(`TypeOK`), `NeverOutdated` (`NothingOutdated`), `ClashesEndTheBoot` (`NoRequestMeetsClash`) and `TablesAreThere`
(`RequestsFindTables`). Its invariant says where slots are (`Homes`), that a process that serves has booted without clashes and
with tables (`ServingIsBooted`, `RequestsAreServed`), that a builder reads its signature before it makes
tools and the cache holds only what was made (`BuildersAreRecent`, `CachedIsMade`), and `ServedFits`: a slot
with an orchestrator has one of its signature. That no clash is met uses that built-in names have one segment
and the names of MCP tools at least two.

`RunsBounded` (`RunsAreBounded`), in the same module, says for any number of retries and redeliveries how often a task runs. The number of runs is not
inductive, since a message still to be taken will add more. The invariant `Chances` counts them: a message of an attempt is good
for one run of that attempt and of each later one, wherever it is, with the broker (`QueuedRuns`) or with a worker that
has not run it or has a retry to send (`TakenRuns`). The runs so far and these two finite sets together stay within
`(MaxRetries + 1) * (redelivered + 1)`: taking a message or sending a retry moves its runs from one set to the other, a run uses one
up, a failure before the run or an acknowledgement drops some, and only a redelivery adds, at most one for each attempt.

`ToolLoopProofs` proves, for any conversations, sizes, numbers of calls, rounds and resumes that satisfy
`SizesAssumption` and `HistoriesAssumption`: `LoopTypes` (`TypeOK`), `ResultsStayWithCalls` (`ResultsFollowTheirCall`),
`EffectsBounded` (`EffectsAreBounded`), `ResultsCapped` (`ResultsAreCapped`) and `PassReplies` (`PassEndsInReply`).
The properties speak of what is saved; the invariant adds what is true while tools run:

* `PlanIsLast`: tools run for the call that ends the conversation, so their results can only go behind it;
* `CallsAnswered`, `ResultsCalled`, `ResultsFit`: of the messages of this pass, a call is either that last one or
  followed by all its results, and a result has its call, an effect and a length the cap allows;
* `OncePerInvocation`: a call whose result is not there was executed by earlier invocations only, at most once in each;
* `EffectsOfRounds`: a call has at most one effect per invocation, and its round, named by where its call stands,
  is already in the conversation, so a new round has no effects yet.

`ContextOfThePass` (`ContextIsOfThePass`) has its own invariant in the same module, `ContextInv`: outside of `collect_context` the context has the
results of the pass so far, counted (`Gathers`), and at `collect_context` it has those up to the last call, behind which there
are only results. So the node's backward scan for trailing results finds exactly the round that is missing. The property
counts the results up to a place with `Cardinality`, because the recursive `SelectSeq` is opaque to the prover.

`PathRewritingProofs` proves, for any sandbox, links and working directory that satisfy `PathAssumption` and paths of
any length, `PathsMovedOrLeft` (`MovedIntoSandboxOrLeft`) and `SecondLayerIdle` (`TwiceIsOnce`), of `CallSpec`. They rest on three facts
about `RealPath`: no link is on the way to the place a path leads to (`RealPathResolves`), such a place is its own path
(`ResolvedStays`), and it is its root followed by the rest (`RootAndRest`). From these `NormalizeSends` shows branch by branch that `Normalize` returns
what `Meant` asks for, and `SentStays` that doing it again changes nothing.

**Induction over data.** Induction theorems that take the induction hypothesis as an operator cannot be instantiated here. Where one is
needed (`ThreadMessagesProofs`, `PathRewritingProofs`) the module has `LeastNatural`: a set of naturals that
is not empty has a least element, from the well-foundedness of `<`. A proof then takes the least
counterexample and refutes it. That also gives the recursive function inside `RealPath` its defining equation (`WalkExists`).

Model-checked only: the liveness properties `EveryRequestEnds` (of the thread and of the accounts), `PassStops` and
`EveryRunEnds`, which are out of the prover's reach, and the violations. Every other property of the
passing runs is a theorem.
The proofs say nothing about the libraries and servers beyond the assumptions of section 3.

## 6. Findings

`PROJECT.json` lists them with the quoted lines. Six are shown by runs (section 4).
The others were met while modelling and are visible by reading:

* the error handler can never have an error to handle;
* `[DONE]` is not sent when a stream fails;
* the memory trigger is "more than", not "at least", and the summary size setting cuts
  the text to be summarised;
* a compaction may remove a call and leave its results;
* `retrieved_context` holds all rounds of a pass, not the latest, and goes untrimmed into
  two prompts;
* a message above the routing budget leaves the delegator an empty conversation;
* the Celery task reads its result as a dict, so every task fails after its run and is retried;
* the worker as documented never imports the task;
* a setup that fails leaves a saver without tables to the worker's next task;
* an edit of `.env` while an orchestrator is built, taken back later, leaves it with the wrong tools;
* names of MCP tools are not compared with built-in ones at boot, and cannot clash with them;
* a path that leads out of the sandbox is passed on as it came, not made absolute;
* an update of a user writes back columns it was not asked to change;
* a registration that loses the race for its address, and a session for a user that has left, are a 500;
* listing the users returns the caller alone, and deleting a session keeps its conversation;
* the approval actions are spelled differently in one document.

## 7. Not modelled

Left out for good: prompts, the prompt registry and the model gateways (static assets and constructors, no
state a step could break), `tool_partition.py` (a look-up by name), the transports of MCP servers,
logging, health checks, rate limits (a third party's counter), the redis manager (no code of the core
calls it), migrations and scripts. In the
thread: texts (of `summary_max_chars` only how many messages it has room for), the trimming of the delegator's prompt (what a model sees, not
what the thread keeps), `get_state` (reads only), and authentication of the endpoints, which
`Accounts` has. In `Accounts`: hashes, expiry times and time stamps. In `AgentProcess`: the connections of the pool, and
what a pool does in an event loop other than its own, which is covered only by the choice that any step of a task may raise.
