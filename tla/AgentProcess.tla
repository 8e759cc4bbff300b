---------------------------- MODULE AgentProcess ----------------------------
(***************************************************************************)
(* The processes that run agents, and what each builds before it can: an   *)
(* API process boots (database, checkpoint tables, MCP tools) and then     *)
(* answers requests, each in a thread until its orchestrator is found; a   *)
(* Celery worker builds all of it inside the task it works on.  The .env   *)
(* file may be edited at any time, and is read again wherever the code     *)
(* calls get_settings(); a process may die at any point.                   *)
(*                                                                         *)
(* A slot is what works on one run: an HTTP request, or a worker, which    *)
(* does one task at a time.  An orchestrator is known by the slot that has *)
(* built it and by the versions of the settings it was built from.  Crews   *)
(* says which API processes are in use, which requests come, which tasks    *)
(* are sent and how often .env is edited, together.                        *)
(***************************************************************************)
EXTENDS Naturals, Sequences, ToolCatalog

CONSTANTS Apis, Workers, Requests, Tasks, Crews, Settings, InitialSettings, None,
          MaxRetries, MaxDeaths, MaxRedeliveries

Processes == Apis \cup Workers
Slots == Requests \cup Workers
Attempts == 0..MaxRetries

ASSUME ProcessAssumption ==
    /\ Requests \cap Workers = {}
    /\ Apis # {} /\ Apis \cap Workers = {}
    /\ None \notin Slots \cup (Tasks \X Attempts)
    /\ Crews \subseteq [apis : SUBSET Apis, requests : SUBSET Requests, tasks : SUBSET Tasks, edits : Nat]
    /\ InitialSettings \in Settings
    /\ \A settings \in Settings :
         settings.servers \in Seq(ServerNames) /\ settings.search \in BOOLEAN
    /\ MaxRetries \in Nat /\ MaxDeaths \in Nat /\ MaxRedeliveries \in Nat

VARIABLES
    versions,       \* the settings .env has held, the last is what it holds
    edits,          \* how often .env is still to be edited
    database,       \* whether the database exists
    tables,         \* whether its checkpoint tables exist
    deaths,         \* of API processes so far
    phase,          \* how far an API process has booted
    booted,         \* the version of the settings it has booted with
    saver,          \* whether a process has published its checkpoint saver
    cached,         \* the orchestrator in its container
    step,           \* how far a slot has come
    home,           \* the process a slot is in
    asked,          \* the version a slot has read for its signature
    made,           \* the orchestrator a slot has built: the versions it is of
    got,            \* the orchestrator a slot works with
    answer,         \* what a request was answered
    queue,          \* how many messages of each attempt the broker holds
    held,           \* the message a worker has taken and not acknowledged
    runs,           \* how often the run of a task was started on its thread
    redelivered     \* how often a message of a task was delivered again

durable == <<versions, edits, database, tables>>
process == <<deaths, phase, booted, saver, cached>>
slot == <<step, home, asked, made, got, answer>>
broker == <<queue, held, runs, redelivered>>
vars == <<durable, process, slot, broker>>

Latest == Len(versions)

(* What an orchestrator is cached under: not all settings are in it *)
Signature(settings) == [servers |-> settings.servers, search |-> settings.search]
SignatureOf(version) == Signature(versions[version])

Orchestrators == [signature : Nat, tools : Nat, graph : Nat]
NotMade == [signature |-> 0, tools |-> 0, graph |-> 0]

Steps == {"idle", "resolve", "build", "register", "ensure", "open", "setup",
          "compile", "run", "result", "retry", "acknowledge", "done"}
Phases == {"unused", "down", "database", "create", "open", "setup", "tools", "serving"}

(* Only the lifespan of an API process registers mcp_tools *)
McpTools(p) == IF p \in Apis THEN Discovered(versions[booted[p]].servers) ELSE {}

-----------------------------------------------------------------------------
Init ==
    /\ versions = <<InitialSettings>>
    /\ database \in BOOLEAN
    /\ tables \in {FALSE, database}
    /\ deaths = 0
    /\ booted = [p \in Apis |-> 1]
    /\ saver = [p \in Processes |-> FALSE]
    /\ cached = [p \in Processes |-> None]
    /\ home \in [Slots -> Processes]
    /\ \A w \in Workers : home[w] = w
    /\ asked = [s \in Slots |-> 1]
    /\ made = [s \in Slots |-> NotMade]
    /\ got = [s \in Slots |-> None]
    /\ answer = [r \in Requests |-> "none"]
    /\ \E crew \in Crews :
         /\ edits = crew.edits
         /\ phase = [p \in Apis |-> IF p \in crew.apis THEN "down" ELSE "unused"]
         /\ \A r \in crew.requests : home[r] \in crew.apis
         /\ \A r \in Requests \ crew.requests : home[r] = CHOOSE p \in Apis : TRUE
         /\ step = [s \in Slots |-> IF s \in Requests \ crew.requests THEN "done" ELSE "idle"]
         /\ queue = [m \in Tasks \X Attempts |-> IF m[1] \in crew.tasks /\ m[2] = 0 THEN 1 ELSE 0]
    /\ held = [w \in Workers |-> None]
    /\ runs = [t \in Tasks |-> 0]
    /\ redelivered = [t \in Tasks |-> 0]

(* Someone edits .env *)
Edit ==
    /\ edits > 0
    /\ edits' = edits - 1
    /\ \E settings \in Settings \ {versions[Latest]} : versions' = Append(versions, settings)
    /\ UNCHANGED <<database, tables, process, slot, broker>>

-----------------------------------------------------------------------------
(* The boot of an API process: lifespan, up to its yield. *)

Boots(p, from, to) ==
    /\ phase[p] = from
    /\ phase' = [phase EXCEPT ![p] = to]

Start(p) ==
    /\ Boots(p, "down", "database")
    /\ booted' = [booted EXCEPT ![p] = Latest]
    /\ UNCHANGED <<durable, deaths, saver, cached, slot, broker>>

(* ensure_database_exists: it looks, and creates in another statement *)
FindDatabase(p) ==
    /\ Boots(p, "database", IF database THEN "open" ELSE "create")
    /\ UNCHANGED <<durable, deaths, booted, saver, cached, slot, broker>>

(* CREATE DATABASE fails if another process was faster *)
CreateDatabase(p) ==
    /\ Boots(p, "create", IF database THEN "down" ELSE "open")
    /\ database' = TRUE
    /\ UNCHANGED <<versions, edits, tables, deaths, booted, saver, cached, slot, broker>>

(* init_postgres_checkpoint_saver: the saver is published before its setup *)
OpenPool(p) ==
    /\ Boots(p, "open", "setup")
    /\ saver' = [saver EXCEPT ![p] = TRUE]
    /\ UNCHANGED <<durable, deaths, booted, cached, slot, broker>>

(* Mutant: the setup is left to others *)
SetupTablesSkipped(p) ==
    /\ Boots(p, "setup", "tools")
    /\ UNCHANGED <<durable, deaths, booted, saver, cached, slot, broker>>

SetupTables(p) ==
    /\ Boots(p, "setup", "tools")
    /\ tables' = TRUE
    /\ UNCHANGED <<versions, edits, database, deaths, booted, saver, cached, slot, broker>>

(* The client is made and asks its servers for their tools; it and the       *)
(* process end if they cannot be named apart *)
LoadTools(p) ==
    /\ phase[p] = "tools"
    /\ LET fails == BootFails(versions[booted[p]])
       IN  /\ phase' = [phase EXCEPT ![p] = IF fails THEN "down" ELSE "serving"]
           /\ saver' = [saver EXCEPT ![p] = ~fails]
    /\ UNCHANGED <<durable, deaths, booted, cached, slot, broker>>

InApi(p) == {r \in Requests : home[r] = p /\ step[r] \notin {"idle", "done"}}

(* The end of the lifespan, after the last response *)
Shutdown(p) ==
    /\ Boots(p, "serving", "down")
    /\ InApi(p) = {}
    /\ saver' = [saver EXCEPT ![p] = FALSE]
    /\ cached' = [cached EXCEPT ![p] = None]
    /\ UNCHANGED <<durable, deaths, booted, slot, broker>>

(* A step of the boot raises, or the process is killed *)
Die(p) ==
    /\ phase[p] \notin {"unused", "down"}
    /\ deaths < MaxDeaths
    /\ deaths' = deaths + 1
    /\ phase' = [phase EXCEPT ![p] = "down"]
    /\ saver' = [saver EXCEPT ![p] = FALSE]
    /\ cached' = [cached EXCEPT ![p] = None]
    /\ step' = [s \in Slots |-> IF s \in InApi(p) THEN "done" ELSE step[s]]
    /\ answer' = [r \in Requests |-> IF r \in InApi(p) THEN "lost" ELSE answer[r]]
    /\ UNCHANGED <<durable, booted, home, asked, made, got, broker>>

-----------------------------------------------------------------------------
(* The work of a slot. *)

GoesTo(s, next) == step' = [step EXCEPT ![s] = next]

At(s, current) ==
    /\ step[s] = current
    /\ UNCHANGED <<versions, edits, database, deaths, phase, booted, home>>

(* An exception: a request is answered with it, a task is retried *)
Fails(s, outcome) ==
    IF s \in Requests
    THEN GoesTo(s, "done") /\ answer' = [answer EXCEPT ![s] = outcome]
    ELSE GoesTo(s, "retry") /\ UNCHANGED answer

(* _get_orchestrator reads the settings its signature is of *)
Arrive(r) ==
    /\ At(r, "idle")
    /\ r \in Requests /\ phase[home[r]] = "serving"
    /\ GoesTo(r, "resolve")
    /\ asked' = [asked EXCEPT ![r] = Latest]
    /\ UNCHANGED <<tables, saver, cached, made, got, answer, broker>>

(* Mutant: a message goes to more than one worker *)
TakeTwice(w) ==
    /\ At(w, "idle")
    /\ \E m \in Tasks \X Attempts :
         /\ queue' = [queue EXCEPT ![m] = @ - 1]
         /\ held' = [held EXCEPT ![w] = m]
    /\ GoesTo(w, "resolve")
    /\ asked' = [asked EXCEPT ![w] = Latest]
    /\ UNCHANGED <<tables, saver, cached, made, got, answer, runs, redelivered>>

Take(w) ==
    /\ At(w, "idle")
    /\ \E m \in Tasks \X Attempts :
         /\ queue[m] > 0
         /\ queue' = [queue EXCEPT ![m] = @ - 1]
         /\ held' = [held EXCEPT ![w] = m]
    /\ GoesTo(w, "resolve")
    /\ asked' = [asked EXCEPT ![w] = Latest]
    /\ UNCHANGED <<tables, saver, cached, made, got, answer, runs, redelivered>>

(* The cached orchestrator is taken if its signature is the one read *)
Resolve(s) ==
    /\ At(s, "resolve")
    /\ LET existing == cached[home[s]]
       IN  IF existing # None /\ SignatureOf(made[existing].signature) = SignatureOf(asked[s])
           THEN GoesTo(s, "ensure") /\ got' = [got EXCEPT ![s] = existing]
           ELSE GoesTo(s, "build") /\ UNCHANGED got
    /\ UNCHANGED <<tables, saver, cached, asked, made, answer, broker>>

(* _build_tool_registry reads the settings again *)
Build(s) ==
    /\ At(s, "build")
    /\ IF RegistryFails(versions[Latest], McpTools(home[s]))
       THEN Fails(s, "clash") /\ UNCHANGED made
       ELSE /\ GoesTo(s, "register")
            /\ made' = [made EXCEPT ![s] = [NotMade EXCEPT !.tools = Latest]]
            /\ UNCHANGED answer
    /\ UNCHANGED <<tables, saver, cached, asked, got, broker>>

(* Mutant: the signature is read once the tools are there *)
RegisterLate(s) ==
    /\ At(s, "register")
    /\ made' = [made EXCEPT ![s].signature = Latest]
    /\ cached' = [cached EXCEPT ![home[s]] = s]
    /\ got' = [got EXCEPT ![s] = s]
    /\ GoesTo(s, "ensure")
    /\ UNCHANGED <<tables, saver, asked, answer, broker>>

(* The orchestrator gets the signature read first, and replaces any other *)
Register(s) ==
    /\ At(s, "register")
    /\ made' = [made EXCEPT ![s].signature = asked[s]]
    /\ cached' = [cached EXCEPT ![home[s]] = s]
    /\ got' = [got EXCEPT ![s] = s]
    /\ GoesTo(s, "ensure")
    /\ UNCHANGED <<tables, saver, asked, answer, broker>>

(* ensure_checkpointer_ready: in a worker the first task initialises *)
Ensure(s) ==
    /\ At(s, "ensure")
    /\ GoesTo(s, IF saver[home[s]] THEN "compile" ELSE "open")
    /\ UNCHANGED <<tables, saver, cached, asked, made, got, answer, broker>>

OpenOwnPool(s) ==
    /\ At(s, "open")
    /\ IF database
       THEN GoesTo(s, "setup") /\ saver' = [saver EXCEPT ![home[s]] = TRUE] /\ UNCHANGED answer
       ELSE Fails(s, "error") /\ UNCHANGED saver
    /\ UNCHANGED <<tables, cached, asked, made, got, broker>>

SetupOwnTables(s) ==
    /\ At(s, "setup")
    /\ tables' = TRUE
    /\ GoesTo(s, "compile")
    /\ UNCHANGED <<saver, cached, asked, made, got, answer, broker>>

(* _compile reads the settings once more, the first time only *)
Compile(s) ==
    /\ At(s, "compile")
    /\ LET o == got[s]
       IN  made' = IF made[o].graph = 0 THEN [made EXCEPT ![o].graph = Latest] ELSE made
    /\ GoesTo(s, "run")
    /\ UNCHANGED <<tables, saver, cached, asked, got, answer, broker>>

(* The run starts by adding the user's message to the thread *)
Run(s) ==
    /\ At(s, "run")
    /\ IF tables
       THEN /\ GoesTo(s, "result")
            /\ runs' = IF s \in Workers THEN [runs EXCEPT ![held[s][1]] = @ + 1] ELSE runs
            /\ UNCHANGED answer
       ELSE Fails(s, "error") /\ UNCHANGED runs
    /\ UNCHANGED <<tables, saver, cached, asked, made, got, queue, held, redelivered>>

(* A request is answered.  A task fails even so: the result of a run has no  *)
(* method get *)
Result(s) ==
    /\ At(s, "result")
    /\ Fails(s, "ok")
    /\ UNCHANGED <<tables, saver, cached, asked, made, got, broker>>

(* Reading .env, loading a model and any await may raise *)
Raise(s) ==
    /\ step[s] \in {"build", "open", "setup", "compile", "run", "result"}
    /\ At(s, step[s])
    /\ Fails(s, "error")
    /\ UNCHANGED <<tables, saver, cached, asked, made, got, broker>>

-----------------------------------------------------------------------------
(* Celery: a message is acknowledged when its task has ended. *)

(* Mutant: the retry does not count *)
RetryUncounted(w) ==
    /\ At(w, "retry")
    /\ queue' = [queue EXCEPT ![held[w]] = @ + 1]
    /\ GoesTo(w, "acknowledge")
    /\ UNCHANGED <<tables, saver, cached, asked, made, got, answer, held, runs, redelivered>>

(* self.retry sends the message of the next attempt, or gives up *)
Retry(w) ==
    /\ At(w, "retry")
    /\ LET next == <<held[w][1], held[w][2] + 1>>
       IN  queue' = IF next[2] \in Attempts THEN [queue EXCEPT ![next] = @ + 1] ELSE queue
    /\ GoesTo(w, "acknowledge")
    /\ UNCHANGED <<tables, saver, cached, asked, made, got, answer, held, runs, redelivered>>

(* Mutant: the message stays with the worker *)
AcknowledgeNever(w) ==
    /\ At(w, "acknowledge")
    /\ GoesTo(w, "idle")
    /\ UNCHANGED <<tables, saver, cached, asked, made, got, answer, broker>>

Acknowledge(w) ==
    /\ At(w, "acknowledge")
    /\ held' = [held EXCEPT ![w] = None]
    /\ GoesTo(w, "idle")
    /\ UNCHANGED <<tables, saver, cached, asked, made, got, answer, queue, runs, redelivered>>

(* The broker delivers a message again: its worker has died, or has kept it  *)
(* for longer than the broker waits *)
Redeliver(w) ==
    /\ held[w] # None
    /\ LET t == held[w][1]
       IN  /\ redelivered[t] < MaxRedeliveries
           /\ redelivered' = [redelivered EXCEPT ![t] = @ + 1]
    /\ queue' = [queue EXCEPT ![held[w]] = @ + 1]
    /\ \/ UNCHANGED <<held, process, slot>>
       \/ /\ held' = [held EXCEPT ![w] = None]
          /\ saver' = [saver EXCEPT ![w] = FALSE]
          /\ cached' = [cached EXCEPT ![w] = None]
          /\ step' = [step EXCEPT ![w] = "idle"]
          /\ UNCHANGED <<deaths, phase, booted, home, asked, made, got, answer>>
    /\ UNCHANGED <<durable, runs>>

-----------------------------------------------------------------------------
Boot(p) ==
    FindDatabase(p) \/ CreateDatabase(p) \/ OpenPool(p) \/ SetupTables(p) \/ LoadTools(p)

Work(s) ==
    \/ Resolve(s) \/ Build(s) \/ Register(s) \/ Ensure(s) \/ OpenOwnPool(s) \/ SetupOwnTables(s)
    \/ Compile(s) \/ Run(s) \/ Result(s)

Deliver(w) == Take(w) \/ Retry(w) \/ Acknowledge(w)

Next ==
    \/ Edit
    \/ \E p \in Apis : Start(p) \/ Boot(p) \/ Shutdown(p) \/ Die(p)
    \/ \E r \in Requests : Arrive(r)
    \/ \E s \in Slots : Work(s) \/ Raise(s)
    \/ \E w \in Workers : Deliver(w) \/ Redeliver(w)

Fairness ==
    /\ \A s \in Slots : WF_vars(Work(s))
    /\ \A w \in Workers : WF_vars(Deliver(w))

Spec == Init /\ [][Next]_vars /\ Fairness

-----------------------------------------------------------------------------
Versions == 1..Latest

TypeOK ==
    /\ versions \in Seq(Settings) /\ versions # <<>> /\ edits \in Nat
    /\ database \in BOOLEAN /\ tables \in BOOLEAN
    /\ deaths \in 0..MaxDeaths
    /\ phase \in [Apis -> Phases]
    /\ booted \in [Apis -> Versions]
    /\ saver \in [Processes -> BOOLEAN]
    /\ cached \in [Processes -> Slots \cup {None}]
    /\ step \in [Slots -> Steps]
    /\ home \in [Slots -> Processes]
    /\ asked \in [Slots -> Versions]
    /\ made \in [Slots -> [signature : 0..Latest, tools : 0..Latest, graph : 0..Latest]]
    /\ got \in [Slots -> Slots \cup {None}]
    /\ answer \in [Requests -> {"none", "ok", "clash", "error", "lost"}]
    /\ queue \in [Tasks \X Attempts -> Nat]
    /\ held \in [Workers -> (Tasks \X Attempts) \cup {None}]
    /\ runs \in [Tasks -> Nat]
    /\ redelivered \in [Tasks -> 0..MaxRedeliveries]

Served == {"ensure", "open", "setup", "compile", "run", "result"}

(* A version that a slot does not want: read before the settings it has     *)
(* asked with were in force, and of another signature. *)
Outdated(version, s) == version < asked[s] /\ SignatureOf(version) # SignatureOf(asked[s])

(* A run works with an orchestrator cached under the settings its request    *)
(* has read, and neither its tools nor its graph are of settings that had    *)
(* been replaced by then, unless they were replaced and put back while it   *)
(* was built: threads build and replace orchestrators side by side, and each *)
(* part is of the settings in force when it was made. *)
NothingOutdated ==
    \A s \in Slots : step[s] \in Served =>
      LET o == made[got[s]]
          early == {version \in {o.tools, o.graph} \ {0} : Outdated(version, s)}
      IN  /\ SignatureOf(o.signature) = SignatureOf(asked[s])
          /\ \A version \in early : o.signature < version

(* No request fails because two of its tools have one name: the servers that *)
(* would bring them do not get past the boot of the process, whatever the   *)
(* settings become while it serves. *)
NoRequestMeetsClash == \A r \in Requests : answer[r] # "clash"

(* Requests of an API process find the checkpoint tables, of whichever       *)
(* process made them, and a saver: only a worker, which publishes its saver  *)
(* inside a task, can run without the tables, once their setup has failed. *)
RequestsFindTables ==
    \A r \in Requests : step[r] \in Served =>
      /\ tables /\ saver[home[r]]
      /\ step[r] \notin {"open", "setup"}

(* A task puts its message on the thread at most once for each attempt, and  *)
(* as often again for each time the broker delivered it again. *)
RunsAreBounded ==
    \A t \in Tasks : runs[t] <= (MaxRetries + 1) * (redelivered[t] + 1)

Pending(t) ==
    \/ \E a \in Attempts : queue[<<t, a>>] > 0
    \/ \E w \in Workers : held[w] # None /\ held[w][1] = t

(* Every request that has arrived is answered, and every task is finished    *)
(* with: retries, redeliveries and the deaths of workers come to an end. *)
EveryRunEnds ==
    /\ \A r \in Requests : step[r] # "idle" ~> step[r] = "done"
    /\ \A t \in Tasks : <>[]~Pending(t)
=============================================================================
