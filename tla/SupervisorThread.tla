--------------------------- MODULE SupervisorThread ---------------------------
(***************************************************************************)
(* One conversation thread of the agent service: the checkpoints the       *)
(* LangGraph saver keeps for it, and the HTTP requests (chat, stream,      *)
(* resume) that run the supervisor graph on it, each suspended at every    *)
(* await while the others go on.  Nothing in the code serialises them.     *)
(*                                                                         *)
(* A fresh message starts a run at "delegate" on a new checkpoint.  A      *)
(* resume continues the task the latest checkpoint left unfinished.  The   *)
(* supervisor is a subgraph: its own progress is saved under the master    *)
(* checkpoint it runs from (sub), so whoever continues that checkpoint     *)
(* continues from there.  Reading a thread means reading its latest        *)
(* checkpoint, whichever run wrote it.                                     *)
(*                                                                         *)
(* The saver's I/O, prompts, tool arguments and texts are abstracted;      *)
(* model answers are nondeterministic.  The state of the graph lists no    *)
(* error field: no node of the graph ever sets one (see README).           *)
(***************************************************************************)
EXTENDS Integers, Sequences, Routing, MemoryPolicy

CONSTANTS
  Requests,          \* the requests of the history, each used once
  Serial,            \* whether clients send one request at a time
  RawAgents,         \* what the routing model may answer
  LocalTime,         \* whether a message may ask for the local time somewhere
  IncludeWorkspace,  \* whether any workspace tool is registered
  ToolResults,       \* how many results one round of tools may leave
  Trigger, Keep,     \* memory_trigger_messages, memory_keep_recent_messages
  Rooms,             \* how many whole messages summary_max_chars may hold
  MaxCrashes         \* bound on process restarts

ASSUME RequestsAssumption == NoAgent \notin Requests
ASSUME SettingsAssumption ==
  /\ Serial \in BOOLEAN
  /\ LocalTime \subseteq BOOLEAN
  /\ IncludeWorkspace \in BOOLEAN
  /\ ToolResults \subseteq Nat
  /\ Trigger \in Int
  /\ Keep \in Int
  /\ Rooms \subseteq Nat
  /\ MaxCrashes \in Nat

VARIABLES
  ckpts,        \* master checkpoints of the thread, oldest first
  kind,         \* [Requests -> Kinds], chosen when the request arrives
  action,       \* [Requests -> Actions], what a resume request says
  pc,           \* [Requests -> where the handler stands]
  base,         \* [Requests -> the master checkpoint the run works from]
  at,           \* [Requests -> the node the run executes next]
  vals,         \* [Requests -> the run's own copy of the state values]
  resume,       \* [Requests -> the resume value not consumed yet]
  interrupted,  \* [Requests -> the flag of the response]
  crashes,
  decided,      \* history: resume values consumed by the review node
  ran           \* history: executions of workspace tools

vars == <<ckpts, kind, action, pc, base, at, vals, resume, interrupted, crashes,
          decided, ran>>

requestVars == <<kind, action, base>>
historyVars == <<decided, ran>>

Kinds == {"chat", "stream", "resume"}
Actions == {"approved", "rejected"}
NoAction == "no action"

\* Nodes of the supervisor graph, then where the master graph goes on.
SupervisorNodes == {"delegate", "human_review", "researcher", "workspace", "chat",
                    "memory_manager"}
Nodes == SupervisorNodes \cup {"end", "error_handler", "finished"}
LlmNodes == SupervisorNodes \ {"human_review"}

Progress == {"idle", "loaded", "checked", "running", "ended",
             "done", "conflict", "failed"}
Over == {"done", "conflict", "failed"}

(***************************************************************************)
(* Messages.  turn is the turn a message belongs to; a call is an AI       *)
(* message that requests tools; a summary is an AI message written from    *)
(* the messages in of.  add_messages gives every message a fresh id; here  *)
(* ids count up, so that they grow along every history.                    *)
(***************************************************************************)
MessageKinds == {"human", "ai", "call", "tool", "summary"}
Message == [id : Nat, kind : MessageKinds, turn : Requests, of : SUBSET Nat]

LastId(messages) == IF messages = <<>> THEN 0 ELSE messages[Len(messages)].id

\* messages followed by new ones of the given kinds.
Extended(messages, kinds, turn) ==
  messages \o [i \in 1..Len(kinds) |-> [id |-> LastId(messages) + i, kind |-> kinds[i],
                                        turn |-> turn, of |-> {}]]

\* The channels of SupervisorState; turn names the request whose message
\* the state is about (it is the last human message before compaction).
Values == [messages : Seq(Message), next_agent : Agents \cup {NoAgent},
           human_feedback : Actions \cup {NoAction}, turn : Requests]

Checkpoint == [next : {"supervisor", "error_handler", "finished"}, values : Values,
               sub : [at : Nodes, values : Values], asked : BOOLEAN]

Latest == ckpts[Len(ckpts)]

\* Mutant: any interrupt the thread ever had counts as a pause.
PausedEver == \E c \in DOMAIN ckpts : ckpts[c].asked

\* snapshot_is_paused: a node still to run counts as paused, asked or not.
Paused == ckpts # <<>> /\ (Latest.next # "finished" \/ Latest.asked)

InProgress == {r \in Requests : pc[r] \notin Over \cup {"idle"}}

LastReply(messages) ==
  LET replies == {i \in DOMAIN messages : messages[i].kind \in {"ai", "call"}}
  IN  IF replies = {} THEN messages[Len(messages)] ELSE messages[Max(replies)]

-----------------------------------------------------------------------------
(* What a node returns, applied to the values it read. *)

Says(v, kinds) == [v EXCEPT !.messages = Extended(@, kinds, v.turn)]

\* Mutant: the messages channel has no reducer, the input replaces it.
InitialStateAlone(messages, r) ==
  [messages |-> Extended(<<>>, <<"human">>, r), next_agent |-> NoAgent,
   human_feedback |-> NoAction, turn |-> r]

\* _build_initial_state merged over the loaded values.
InitialState(messages, r) ==
  [messages |-> Extended(messages, <<"human">>, r), next_agent |-> NoAgent,
   human_feedback |-> NoAction, turn |-> r]

\* What one pass of a tool-using subgraph adds.  A plan that asks for no tool is
\* a reply of its own, which the synthesis then repeats; a round of tools ends in
\* another plan, in the synthesis, or (route_researcher's end) in nothing.
AgentOutputs ==
  LET some(k, n) == [i \in 1..n |-> k]
      round(n) == <<"call">> \o some("tool", n)
  IN  {some("ai", 2)} \cup {round(n) \o some("ai", m) : n \in ToolResults, m \in 0..2}

UsesTools(new) == \E i \in DOMAIN new : new[i] = "call"

RoutePostReply(v) ==
  IF ShouldSummarizeMessages(Len(v.messages), Trigger, Keep)
  THEN "memory_manager" ELSE "end"

\* _build_summary_payload: of the cut messages the oldest that have room in
\* summary_max_chars; one that is cut off in the middle does not count.
Payload(cut, room) == {i \in 1..cut : i <= room}

\* What a summary is written from: the messages of its payload, and what the
\* summaries among them were written from.
Summary(messages, payload, turn) ==
  [id |-> LastId(messages) + 1, kind |-> "summary", turn |-> turn,
   of |-> {messages[i].id : i \in payload} \cup UNION {messages[i].of : i \in payload}]

\* Mutant: one message more is removed.
CompactedOffByOne(messages, turn, room) ==
  LET n == Len(messages)
      cut == SummaryCutIndex(n, Keep)
  IN  IF cut = 0 THEN messages
      ELSE Append(SubSeq(messages, cut + 2, n), Summary(messages, Payload(cut, room), turn))

\* Mutant: the recent messages go too.
CompactedKeepNothing(messages, turn, room) ==
  LET n == Len(messages)
  IN  IF SummaryCutIndex(n, Keep) = 0 THEN messages
      ELSE <<Summary(messages, Payload(n, room), turn)>>

\* RemoveMessage for the whole prefix, whatever of it the summary was written from,
\* then the summary appended after what is kept.
Compacted(messages, turn, room) ==
  LET n == Len(messages)
      cut == SummaryCutIndex(n, Keep)
  IN  IF cut = 0 THEN messages
      ELSE Append(SubSeq(messages, cut + 1, n), Summary(messages, Payload(cut, room), turn))

\* add_messages of the master's channel, given what the supervisor subgraph ends
\* with: the messages it already has stay where they are, and a message missing
\* on the right is not a removal.
AddMessages(left, right) ==
  LET known == {i \in DOMAIN right : right[i].id <= LastId(left)}
  IN  left \o SubSeq(right, Cardinality(known) + 1, Len(right))

\* Mutant: a rejection adds no message.
AfterReviewSilent(v, answer) == [v EXCEPT !.human_feedback = answer]

AfterReview(v, answer) ==
  LET told == [v EXCEPT !.human_feedback = answer]
  IN  IF answer = "approved" THEN told ELSE Says(told, <<"ai">>)

-----------------------------------------------------------------------------
Init ==
  /\ ckpts = <<>>
  /\ kind = [r \in Requests |-> "chat"]
  /\ action = [r \in Requests |-> NoAction]
  /\ pc = [r \in Requests |-> "idle"]
  /\ base = [r \in Requests |-> 0]
  /\ at = [r \in Requests |-> "finished"]
  /\ vals = [r \in Requests |-> InitialState(<<>>, r)]
  /\ resume = [r \in Requests |-> NoAction]
  /\ interrupted = [r \in Requests |-> FALSE]
  /\ crashes = 0
  /\ decided = {}
  /\ ran = {}

Arrive(r) ==
  /\ pc[r] = "idle"
  /\ Serial => InProgress = {}

(***************************************************************************)
(* POST /chat and /chat/stream: ainvoke or astream with a fresh state.     *)
(* The values are loaded from the latest checkpoint, then (one await       *)
(* later) written back with the new message as a new checkpoint, which     *)
(* drops whatever task the older one still had.                            *)
(***************************************************************************)
ChatLoad(r) ==
  /\ Arrive(r)
  /\ \E k \in {"chat", "stream"} : kind' = [kind EXCEPT ![r] = k]
  /\ vals' = [vals EXCEPT ![r] =
                InitialState(IF ckpts = <<>> THEN <<>> ELSE Latest.values.messages, r)]
  /\ pc' = [pc EXCEPT ![r] = "loaded"]
  /\ UNCHANGED <<ckpts, action, base, at, resume, interrupted, crashes, decided, ran>>

ChatBegin(r) ==
  /\ pc[r] = "loaded"
  /\ ckpts' = Append(ckpts, [next |-> "supervisor", values |-> vals[r],
                             sub |-> [at |-> "delegate", values |-> vals[r]],
                             asked |-> FALSE])
  /\ base' = [base EXCEPT ![r] = Len(ckpts) + 1]
  /\ at' = [at EXCEPT ![r] = "delegate"]
  /\ pc' = [pc EXCEPT ![r] = "running"]
  /\ UNCHANGED <<kind, action, vals, resume, interrupted, crashes, historyVars>>

(***************************************************************************)
(* POST /runs/{thread}/resume: the pause is checked on one snapshot; the   *)
(* ainvoke after it loads the latest checkpoint again.                     *)
(***************************************************************************)
ResumeCheck(r) ==
  /\ Arrive(r)
  /\ \E a \in Actions : action' = [action EXCEPT ![r] = a]
  /\ kind' = [kind EXCEPT ![r] = "resume"]
  /\ pc' = [pc EXCEPT ![r] = IF Paused THEN "checked" ELSE "conflict"]
  /\ UNCHANGED <<ckpts, base, at, vals, resume, interrupted, crashes, decided, ran>>

ResumeBegin(r) ==
  LET from == IF Latest.next = "supervisor" THEN Latest.sub
              ELSE [at |-> Latest.next, values |-> Latest.values]
  IN  /\ pc[r] = "checked"
      /\ base' = [base EXCEPT ![r] = Len(ckpts)]
      /\ at' = [at EXCEPT ![r] = from.at]
      /\ vals' = [vals EXCEPT ![r] = from.values]
      /\ resume' = [resume EXCEPT ![r] = action[r]]
      /\ pc' = [pc EXCEPT ![r] = IF from.at = "finished" THEN "ended" ELSE "running"]
      /\ UNCHANGED <<ckpts, kind, action, interrupted, crashes, historyVars>>

-----------------------------------------------------------------------------
(***************************************************************************)
(* The supervisor graph.  A node's step ends by saving the subgraph's      *)
(* checkpoint under the master checkpoint the run works from; two runs     *)
(* from the same one overwrite each other's.                               *)
(***************************************************************************)
Step(r, node) == pc[r] = "running" /\ at[r] = node

\* Mutant: the subgraph keeps no checkpoint of its own.
GoOnUnsaved(r, node, v) ==
  /\ at' = [at EXCEPT ![r] = node]
  /\ vals' = [vals EXCEPT ![r] = v]
  /\ UNCHANGED <<ckpts, requestVars, pc, interrupted, crashes>>

GoOn(r, node, v) ==
  /\ at' = [at EXCEPT ![r] = node]
  /\ vals' = [vals EXCEPT ![r] = v]
  /\ ckpts' = [ckpts EXCEPT ![base[r]].sub = [at |-> node, values |-> v]]
  /\ UNCHANGED <<requestVars, pc, interrupted, crashes>>

Delegate(r) ==
  /\ Step(r, "delegate")
  /\ \E raw \in RawAgents, asksLocalTime \in LocalTime :
       LET v == [vals[r] EXCEPT
                   !.next_agent = Delegation(raw, asksLocalTime, IncludeWorkspace)]
       IN  GoOn(r, RouteToHumanReview(FALSE, v.next_agent), v)
  /\ UNCHANGED <<resume, decided, ran>>

\* Mutant: the interrupt is caught and the run goes on to the end.
AskHumanCaught(r) ==
  /\ Step(r, "human_review")
  /\ resume[r] = NoAction
  /\ ckpts' = [ckpts EXCEPT ![base[r]].asked = TRUE]
  /\ at' = [at EXCEPT ![r] = "end"]
  /\ UNCHANGED <<requestVars, pc, vals, resume, interrupted, crashes, historyVars>>

\* Mutant: the request stays open until the answer comes.
AskHumanWaits(r) ==
  /\ Step(r, "human_review")
  /\ resume[r] = NoAction
  /\ ckpts' = [ckpts EXCEPT ![base[r]].asked = TRUE]
  /\ UNCHANGED <<requestVars, pc, at, vals, resume, interrupted, crashes, historyVars>>

\* interrupt() finds no resume value: the run stops here, the request is kept.
AskHuman(r) ==
  /\ Step(r, "human_review")
  /\ resume[r] = NoAction
  /\ ckpts' = [ckpts EXCEPT ![base[r]].asked = TRUE]
  /\ pc' = [pc EXCEPT ![r] = "ended"]
  /\ UNCHANGED <<requestVars, at, vals, resume, interrupted, crashes, historyVars>>

\* interrupt() returns the value this run was resumed with, and uses it up.
HumanReview(r) ==
  /\ Step(r, "human_review")
  /\ resume[r] # NoAction
  /\ LET v == AfterReview(vals[r], resume[r])
     IN  GoOn(r, RouteAfterHumanReview(v.human_feedback, v.next_agent), v)
  /\ resume' = [resume EXCEPT ![r] = NoAction]
  /\ decided' = decided \cup {[by |-> r, turn |-> vals[r].turn, action |-> resume[r]]}
  /\ UNCHANGED ran

Researcher(r) ==
  /\ Step(r, "researcher")
  /\ \E new \in AgentOutputs :
       LET v == Says(vals[r], new) IN GoOn(r, RoutePostReply(v), v)
  /\ UNCHANGED <<resume, decided, ran>>

\* The tools run before anything is saved; the subgraph may come back for more.
WorkspaceTools(r) ==
  /\ Step(r, "workspace")
  /\ ran' = ran \cup {[by |-> r, turn |-> vals[r].turn]}
  /\ UNCHANGED <<ckpts, requestVars, pc, at, vals, resume, interrupted, crashes, decided>>

\* A reply has tool results iff this run used tools, or an earlier run of the turn
\* did and the subgraph's own checkpoint kept them.
WorkspaceReply(r) ==
  /\ Step(r, "workspace")
  /\ \E new \in AgentOutputs :
       /\ [by |-> r, turn |-> vals[r].turn] \in ran => UsesTools(new)
       /\ UsesTools(new) => \E x \in ran : x.turn = vals[r].turn
       /\ LET v == Says(vals[r], new) IN GoOn(r, RoutePostReply(v), v)
  /\ UNCHANGED <<resume, decided, ran>>

Chat(r) ==
  /\ Step(r, "chat")
  /\ LET v == Says(vals[r], <<"ai">>) IN GoOn(r, RoutePostReply(v), v)
  /\ UNCHANGED <<resume, decided, ran>>

MemoryManager(r) ==
  /\ Step(r, "memory_manager")
  /\ \E room \in Rooms :
       GoOn(r, "end", [vals[r] EXCEPT !.messages = Compacted(@, vals[r].turn, room)])
  /\ UNCHANGED <<resume, decided, ran>>

-----------------------------------------------------------------------------
(* The master graph: supervisor, error_handler, END. *)

Commit(r, next, v) ==
  /\ ckpts' = Append(ckpts, [next |-> next, values |-> v,
                             sub |-> [at |-> next, values |-> v], asked |-> FALSE])
  /\ base' = [base EXCEPT ![r] = Len(ckpts) + 1]
  /\ at' = [at EXCEPT ![r] = next]
  /\ vals' = [vals EXCEPT ![r] = v]
  /\ UNCHANGED <<kind, action, resume, interrupted, crashes, historyVars>>

\* The subgraph's values become an update of the master's.
SupervisorEnd(r) ==
  /\ Step(r, "end")
  /\ Commit(r, "error_handler",
            [vals[r] EXCEPT !.messages = AddMessages(ckpts[base[r]].values.messages, @)])
  /\ UNCHANGED pc

\* No error was ever recorded: the handler adds nothing.
ErrorHandler(r) ==
  /\ Step(r, "error_handler")
  /\ Commit(r, "finished", vals[r])
  /\ pc' = [pc EXCEPT ![r] = "ended"]

\* chat and resume read the thread again for the flag of the response.
Respond(r) ==
  /\ pc[r] = "ended"
  /\ pc' = [pc EXCEPT ![r] = "done"]
  /\ interrupted' = [interrupted EXCEPT ![r] = kind[r] # "stream" /\ Paused]
  /\ UNCHANGED <<ckpts, requestVars, at, vals, resume, crashes, historyVars>>

-----------------------------------------------------------------------------
(* A node raises: the exception leaves the graph, the use case turns it into *)
(* an error response, and the checkpoint stays as it was.                    *)
Fail(r) ==
  /\ pc[r] = "running"
  /\ at[r] \in LlmNodes
  /\ pc' = [pc EXCEPT ![r] = "failed"]
  /\ UNCHANGED <<ckpts, requestVars, at, vals, resume, interrupted, crashes, historyVars>>

\* The client of a stream goes away: the generator is cancelled at its await.
Disconnect(r) ==
  /\ kind[r] = "stream"
  /\ pc[r] \in {"loaded", "running", "ended"}
  /\ pc' = [pc EXCEPT ![r] = "failed"]
  /\ UNCHANGED <<ckpts, requestVars, at, vals, resume, interrupted, crashes, historyVars>>

\* The process dies with every request it serves.
Crash ==
  /\ crashes < MaxCrashes
  /\ InProgress # {}
  /\ crashes' = crashes + 1
  /\ pc' = [r \in Requests |-> IF r \in InProgress THEN "failed" ELSE pc[r]]
  /\ UNCHANGED <<ckpts, requestVars, at, vals, resume, interrupted, historyVars>>

RunStep(r) ==
  \/ ChatBegin(r) \/ ResumeBegin(r)
  \/ Delegate(r) \/ AskHuman(r) \/ HumanReview(r)
  \/ Researcher(r) \/ WorkspaceReply(r) \/ Chat(r) \/ MemoryManager(r)
  \/ SupervisorEnd(r) \/ ErrorHandler(r) \/ Respond(r)

Next ==
  \/ \E r \in Requests :
       \/ ChatLoad(r) \/ ResumeCheck(r)
       \/ RunStep(r) \/ WorkspaceTools(r)
       \/ Fail(r) \/ Disconnect(r)
  \/ Crash

Spec == Init /\ [][Next]_vars

\* The event loop goes on with every handler it serves; model and tool calls
\* end, and the tool loop is cut off by LangGraph's recursion limit.
FairSpec == Spec /\ \A r \in Requests : WF_vars(RunStep(r))

-----------------------------------------------------------------------------
(* Properties *)

\* Every variable holds a value the code can put there.
TypeOK ==
  /\ ckpts \in Seq(Checkpoint)
  /\ kind \in [Requests -> Kinds]
  /\ action \in [Requests -> Actions \cup {NoAction}]
  /\ pc \in [Requests -> Progress]
  /\ base \in [Requests -> 0..Len(ckpts)]
  /\ at \in [Requests -> Nodes]
  /\ vals \in [Requests -> Values]
  /\ resume \in [Requests -> Actions \cup {NoAction}]
  /\ interrupted \in [Requests -> BOOLEAN]
  /\ crashes \in 0..MaxCrashes
  /\ decided \subseteq [by : Requests, turn : Requests, action : Actions]
  /\ ran \subseteq [by : Requests, turn : Requests]

Granted(turn) ==
  \E d \in decided : /\ d.turn = turn
                     /\ d.action = "approved"
                     /\ kind[d.by] = "resume"
                     /\ action[d.by] = "approved"

\* Workspace tools run for a turn only if some resume request saying "approved"
\* was consumed by the review node in that very turn: no interleaving of runs,
\* failure, restart or approval of an earlier turn opens the gate
\* (supervisor_graph.py's edges, approval_router.py, human_review_node.py).
ToolsOnlyAfterApproval == \A x \in ran : Granted(x.turn)

\* A run whose review consumed "rejected" executes no workspace tool, then or
\* later (human_review_node.py and route_after_human_review).
ConsumedRejectionIsFinal ==
  \A x \in ran, d \in decided : d.action = "rejected" => x.by # d.by

\* What a run that went through an agent or a review answers with is an AI message
\* of its own turn, not the question nor an internal summary: also when the history
\* was compacted on the way, another run has replaced the thread's latest checkpoint,
\* or the run was resumed, as long as a round of tools leaves fewer results than Keep
\* (AgentRunResult.last_ai_reply, memory_manager_node.py).
ReplyIsOfTheTurn ==
  (\A n \in ToolResults : n < Keep) =>
    \A r \in Requests :
      (pc[r] \in {"ended", "done"} /\ at[r] = "finished" /\ vals[r].next_agent # "end")
        => LET reply == LastReply(vals[r].messages)
           IN  reply.turn = vals[r].turn /\ reply.kind \in {"ai", "call"}

\* The message n is missing from a history because the pass of one turn added it
\* and the compaction at the end of that pass removed it: it lies after the turn's
\* question and before the Keep messages left verbatim, and the turn's summary was
\* written from it, or from nothing but older messages.
RemovedByItsPass(messages, n) ==
  \E q, s \in DOMAIN messages :
    /\ messages[q].kind = "human"
    /\ messages[s].kind = "summary"
    /\ messages[q].turn = messages[s].turn
    /\ messages[q].id < n
    /\ n + Keep < messages[s].id
    /\ n \in messages[s].of \/ \A m \in messages[s].of : m < n

\* Along every line of checkpoints, a message that is no longer there was an
\* intermediate step of one turn, removed by that turn's own compaction, and is
\* not in its summary only where summary_max_chars cut the newest messages off: no
\* question, no kept message and nothing an earlier turn had left is ever lost,
\* however often the same prefix is compacted again
\* (memory_manager_node.py, add_messages).
OnlyOwnStepsAreLost ==
  \A c \in DOMAIN ckpts :
    LET messages == ckpts[c].values.messages
    IN  \A n \in 1..LastId(messages) :
          \/ \E i \in DOMAIN messages : messages[i].id = n
          \/ RemovedByItsPass(messages, n)

\* While clients send one request at a time, the latest checkpoint's history has
\* the message of every answered request, whatever failed, was interrupted, was
\* resumed or was compacted in between (main_graph_builder.py, BaseAgentState).
AnsweredTurnsAreKept ==
  Serial =>
    \A r \in Requests :
      (pc[r] = "done" /\ kind[r] # "resume") =>
        \E i \in DOMAIN Latest.values.messages : Latest.values.messages[i].turn = r

\* While clients send one request at a time, a review request is decided at
\* most once, also if the run that consumed the decision failed and the thread
\* was resumed again (the subgraph's checkpoint is past the review by then).
OneDecisionPerReview ==
  Serial => \A d, e \in decided : d.turn = e.turn => d = e

\* While clients send one request at a time, a response says interrupted exactly
\* when its own run stopped at the review (to_run_result reads the thread again,
\* after the run).
InterruptedIsOwn ==
  Serial =>
    \A r \in Requests :
      (pc[r] = "done" /\ kind[r] # "stream") =>
        (interrupted[r] <=> at[r] = "human_review")

\* While clients send one request at a time, a pending review request only
\* goes away by being decided or by a newer message.
PendingReviewStays ==
  [][(Serial /\ ckpts # <<>> /\ Latest.asked /\ ~Latest'.asked)
       => \/ \E d \in decided : d.turn = Latest.values.turn
          \/ Latest'.values.turn # Latest.values.turn]_vars

\* Every request is answered, fails or dies with its client or its process: no
\* route of the graph leaves a run waiting for something nobody sends.
EveryRequestEnds == \A r \in Requests : (pc[r] # "idle") ~> (pc[r] \in Over)

\* Seen through the decisions consumed and the tools run, the thread implements
\* the promise of ApprovalGate.
Gate == INSTANCE ApprovalGate WITH
          Turns <- Requests,
          granted <- {d.turn : d \in {e \in decided : e.action = "approved"}},
          used <- {x.turn : x \in ran}
GateSpec == Gate!Spec

(***************************************************************************)
(* What the documents and comments say of the thread, and the code does    *)
(* not keep; each is checked by a run that must find it violated.          *)
(***************************************************************************)

\* state_mapper.py:127: a paused checkpoint is waiting for a human (asked when no
\* request is in progress, so that a run still going does not count).
PausedMeansAsked == (Paused /\ InProgress = {}) => Latest.asked

\* docs/tools.md:74: a human sees the intended action before it runs.
ToolsOnlyAfterRequestShown ==
  \A x \in ran : \E c \in DOMAIN ckpts : ckpts[c].asked /\ ckpts[c].values.turn = x.turn

\* docs/agent-orchestration.md:198: any answer but approve ends the run without
\* executing the tool.
RejectingRunsNothing == \A x \in ran : action[x.by] # "rejected"

\* docs/agent-orchestration.md:176: the summaries of compacted turns are internal
\* and kept out of what the user sees.
SummaryIsInternal ==
  \A r \in Requests :
    (pc[r] = "done" /\ at[r] = "finished") => LastReply(vals[r].messages).kind # "summary"

\* docs/agent-orchestration.md:176: all but the last Keep messages are rolled into
\* one summary, so a history that was just compacted has Keep messages and that one.
HistoryIsCompacted ==
  \A c \in DOMAIN ckpts :
    LET messages == ckpts[c].values.messages
    IN  (ckpts[c].next = "finished" /\ messages[Len(messages)].kind = "summary")
          => Len(messages) <= Keep + 1

=============================================================================
