------------------------------- MODULE ToolLoop -------------------------------
(***************************************************************************)
(* One pass of a tool-using subgraph (researcher_graph.py; workspace_graph *)
(* is the same graph under other names): plan, run the tools the plan asks *)
(* for, collect their results, let a model judge them, plan again or       *)
(* synthesise the reply.                                                   *)
(*                                                                         *)
(* Every step is saved when it ends.  A pass that stops in the middle - a  *)
(* model call raises, the client goes away, the process dies, the limit on *)
(* steps is reached - may be resumed at the step it stopped in, which then *)
(* starts anew.  The calls of one plan run concurrently and have their     *)
(* effects before the step that runs them is saved.                        *)
(*                                                                         *)
(* A message has a size, which stands both for its length in characters    *)
(* and for its tokens; texts are left out.                                 *)
(***************************************************************************)
EXTENDS Integers, Sequences, SequencesExt, FiniteSetsExt, Routing

CONSTANTS
  Histories,         \* conversations a pass may start from
  Sizes,             \* sizes of what a model or a tool produces
  MaxCalls,          \* bound on the calls of one plan
  MaxContextTokens,  \* agent_max_context_tokens
  MaxOutput,         \* max_tool_output_chars
  NoticeLength,      \* length of the truncation notice with the blank line before it
  RecursionLimit,    \* LangGraph's limit on the steps of an invocation
  MaxResumes         \* bound on resumptions of the pass

ASSUME SizesAssumption ==
  /\ Sizes \subseteq Nat
  /\ MaxCalls \in Nat
  /\ MaxContextTokens \in Int
  /\ MaxOutput \in Int
  /\ NoticeLength \in Nat \ 0..2
  /\ RecursionLimit \in Nat \ {0}
  /\ MaxResumes \in Nat

VARIABLES
  history,     \* the conversation the pass started from
  at,          \* the node that runs next
  status,      \* "running", "stopped" or "ended"
  steps,       \* steps since the invocation started
  attempt,     \* plan_search: which attempt the model call is
  done,        \* search: size of the result of each finished call
  messages,
  context,     \* retrieved_context
  sufficient,  \* context_is_sufficient
  queries,     \* length of search_queries
  prompt,      \* the conversation the last model call was given
  effects,     \* history: how often each call was executed
  resumes

vars == <<history, at, status, steps, attempt, done, messages, context, sufficient,
          queries, prompt, effects, resumes>>

stateVars == <<messages, context, sufficient, queries>>
historyVars == <<history, effects, resumes>>

PassNodes == {"plan_search", "search", "collect_context", "validate_context",
              "synthesize", "end"}

(***************************************************************************)
(* Messages.  A call is an AI message that asks for nth tools; a tool      *)
(* message is the result of the nth of them; round tells plans apart.      *)
(***************************************************************************)
MessageKinds == {"human", "ai", "call", "tool"}
Message == [kind : MessageKinds, round : Nat, nth : Nat, size : Nat]

Text(kind, size) == [kind |-> kind, round |-> 0, nth |-> 0, size |-> size]

IsTool(message) == message.kind = "tool"

ASSUME HistoriesAssumption == Histories \subseteq Seq(Message)

\* Rounds of this pass are numbered from the length of its history.
Round == Len(messages)

TotalSize(conversation) ==
  FoldFunction(LAMBDA message, sum : message.size + sum, 0, conversation)

\* trim_messages, strategy "last", no partial messages: the longest suffix that fits.
TrimConversation(conversation, max) ==
  LET last(n) == SubSeq(conversation, Len(conversation) - n + 1, Len(conversation))
  IN  IF max <= 0 THEN conversation
      ELSE last(Max({n \in 0..Len(conversation) : n = 0 \/ TotalSize(last(n)) <= max}))

\* Mutant: the notice is added to a head that already has the full length.
OutputLengthNoHead(length) ==
  IF MaxOutput <= 0 \/ length <= MaxOutput THEN length ELSE MaxOutput + NoticeLength

\* What is left of the notice when nothing stands before it: the line breaks go.
BareNotice == NoticeLength - 2

\* The length truncate_tool_return leaves of a result.
OutputLength(length) ==
  IF MaxOutput <= 0 \/ length <= MaxOutput THEN length
  ELSE IF MaxOutput - NoticeLength < 1 THEN BareNotice
  ELSE MaxOutput

\* Mutant: every result of the conversation, wherever it stands.
TrailingResultsAnywhere(conversation) == SelectSeq(conversation, IsTool)

\* The tool messages the conversation ends with.
TrailingResults(conversation) ==
  LET longest == Max({n \in 0..Len(conversation) :
                        \A i \in 0..(n - 1) : IsTool(conversation[Len(conversation) - i])})
  IN  SubSeq(conversation, Len(conversation) - longest + 1, Len(conversation))

-----------------------------------------------------------------------------
Init ==
  /\ history \in Histories
  /\ at = "plan_search"
  /\ status = "running"
  /\ steps = 0
  /\ attempt = 0
  /\ done = <<>>
  /\ messages = history
  /\ context = <<>>
  /\ sufficient = FALSE
  /\ queries = 0
  /\ prompt = <<>>
  /\ effects = <<>>
  /\ resumes = 0

Runs(node) == status = "running" /\ at = node

\* A step ends: it is saved, and the next one starts unless the limit is reached.
GoTo(node) ==
  /\ at' = node
  /\ steps' = steps + 1
  /\ status' = IF node = "end" THEN "ended"
               ELSE IF steps + 1 >= RecursionLimit THEN "stopped" ELSE "running"
  /\ attempt' = 0
  /\ done' = <<>>

\* Mutant: a route named after the other subgraph's node.
RouteAfterPlanUnmapped(message) == IF message.kind = "call" THEN "tools" ELSE "synthesize"

RouteAfterPlan(message) == IF message.kind = "call" THEN "search" ELSE "synthesize"

PlanSearch ==
  /\ Runs("plan_search")
  /\ \E calls \in 0..MaxCalls, size \in Sizes :
       LET response == IF calls = 0 THEN Text("ai", size)
                       ELSE [kind |-> "call", round |-> Round, nth |-> calls, size |-> size]
       IN  /\ messages' = Append(messages, response)
           /\ GoTo(RouteAfterPlan(response))
  /\ prompt' = TrimConversation(messages, MaxContextTokens)
  /\ UNCHANGED <<context, sufficient, queries, historyVars>>

\* Mutant: every format error is retried.
PlanRetryForever ==
  /\ Runs("plan_search")
  /\ attempt' = 1 - attempt
  /\ prompt' = TrimConversation(messages, MaxContextTokens)
  /\ UNCHANGED <<at, status, steps, done, stateVars, historyVars>>

\* A malformed tool invocation is tried once more, with a nudge.
PlanRetry ==
  /\ Runs("plan_search")
  /\ attempt = 0
  /\ attempt' = 1
  /\ prompt' = TrimConversation(messages, MaxContextTokens)
  /\ UNCHANGED <<at, status, steps, done, stateVars, historyVars>>

Call(n) == <<Last(messages).round, n>>

Executed(call) == IF call \in DOMAIN effects THEN effects[call] ELSE 0

Put(f, key, value) ==
  [k \in DOMAIN f \cup {key} |-> IF k = key THEN value ELSE f[k]]

\* Mutant: a call whose result is there is executed again.
RunToolAgain(n) ==
  /\ Runs("search")
  /\ n \in 1..Last(messages).nth
  /\ \E size \in Sizes : done' = Put(done, n, OutputLength(size))
  /\ effects' = Put(effects, Call(n), Executed(Call(n)) + 1)
  /\ UNCHANGED <<history, at, status, steps, attempt, stateVars, prompt, resumes>>

\* One call of the plan ends; an exception is a result too (handle_tool_errors).
RunTool(n) ==
  /\ Runs("search")
  /\ n \in (1..Last(messages).nth) \ DOMAIN done
  /\ \E size \in Sizes : done' = Put(done, n, OutputLength(size))
  /\ effects' = Put(effects, Call(n), Executed(Call(n)) + 1)
  /\ UNCHANGED <<history, at, status, steps, attempt, stateVars, prompt, resumes>>

Result(n) ==
  [kind |-> "tool", round |-> Last(messages).round, nth |-> n, size |-> done[n]]

\* Mutant: the first result ends the step.
SearchFirst ==
  /\ Runs("search")
  /\ DOMAIN done # {}
  /\ messages' = Append(messages, Result(Min(DOMAIN done)))
  /\ GoTo("collect_context")
  /\ UNCHANGED <<context, sufficient, queries, prompt, historyVars>>

\* All calls have ended: their results are added in the order of the calls.
Search ==
  /\ Runs("search")
  /\ DOMAIN done = 1..Last(messages).nth
  /\ messages' = messages \o [n \in 1..Last(messages).nth |-> Result(n)]
  /\ GoTo("collect_context")
  /\ UNCHANGED <<context, sufficient, queries, prompt, historyVars>>

CollectContext ==
  /\ Runs("collect_context")
  /\ context' = context \o TrailingResults(messages)
  /\ GoTo("validate_context")
  /\ UNCHANGED <<messages, sufficient, queries, prompt, historyVars>>

\* Without any context the verdict is fixed; otherwise a model gives it.
ValidateContext ==
  /\ Runs("validate_context")
  /\ \E verdict \in BOOLEAN, hints \in 0..1 :
       /\ context = <<>> => ~verdict /\ hints = 1
       /\ sufficient' = verdict
       /\ queries' = hints
       /\ LET route == RouteResearcher(FALSE, verdict, hints)
          IN  GoTo(IF route = "search" THEN "plan_search" ELSE route)
  /\ UNCHANGED <<messages, context, prompt, historyVars>>

Synthesize ==
  /\ Runs("synthesize")
  /\ \E size \in Sizes : messages' = Append(messages, Text("ai", size))
  /\ prompt' = TrimConversation(messages, MaxContextTokens)
  /\ GoTo("end")
  /\ UNCHANGED <<context, sufficient, queries, historyVars>>

\* A model call raises (a second format error does), the run is cancelled, or the
\* process dies; what the step did so far is not saved.
Stop ==
  /\ status = "running"
  /\ status' = "stopped"
  /\ attempt' = 0
  /\ done' = <<>>
  /\ UNCHANGED <<at, steps, stateVars, prompt, historyVars>>

\* The thread is resumed: the step that was not saved starts anew.
Resume ==
  /\ status = "stopped"
  /\ resumes < MaxResumes
  /\ resumes' = resumes + 1
  /\ status' = "running"
  /\ steps' = 0
  /\ UNCHANGED <<history, at, attempt, done, stateVars, prompt, effects>>

RunTools == \E n \in 1..MaxCalls : RunTool(n)

Step == PlanSearch \/ PlanRetry \/ RunTools \/ Search \/ CollectContext
          \/ ValidateContext \/ Synthesize

Next == Step \/ Stop \/ Resume

Spec == Init /\ [][Next]_vars

\* Models and tools answer, and the event loop goes on with the run.
FairSpec == Spec /\ WF_vars(Step)

-----------------------------------------------------------------------------
(* Properties *)

\* Every variable holds a value the code can put there; no step follows a plan to a
\* node the graph does not have.
TypeOK ==
  /\ history \in Histories
  /\ at \in PassNodes
  /\ status \in {"running", "stopped", "ended"}
  /\ steps \in 0..RecursionLimit
  /\ attempt \in 0..1
  /\ DOMAIN done \subseteq 1..MaxCalls
  /\ messages \in Seq(Message)
  /\ context \in Seq(Message)
  /\ sufficient \in BOOLEAN
  /\ queries \in 0..1
  /\ prompt \in Seq(Message)
  /\ DOMAIN effects \subseteq Nat \X Nat
  /\ resumes \in 0..MaxResumes
  /\ (status = "ended") <=> (at = "end")

Own == SubSeq(messages, Len(history) + 1, Len(messages))

\* The places of the results this pass has saved, up to the kth message.
ResultsUpTo(k) == {i \in (Len(history) + 1)..k : IsTool(messages[i])}

\* What a model judges and the reply is made from are the results of this pass, each
\* once and in the order they were produced: none of an earlier turn, none twice
\* after a resumed step, none missing (collect_context, retrieved_context).
ContextIsOfThePass ==
  at # "collect_context" =>
    /\ Len(context) = Cardinality(ResultsUpTo(Len(messages)))
    /\ \A i \in ResultsUpTo(Len(messages)) : context[Cardinality(ResultsUpTo(i))] = messages[i]

\* In the saved conversation the results of a plan follow its call, all of them and
\* in the order of the calls, whatever order the tools finished in and wherever the
\* pass was stopped and resumed; only a step still to run leaves a call open.
ResultsFollowTheirCall ==
  /\ \A i \in DOMAIN Own : Own[i].kind = "call" =>
       \/ at = "search" /\ i = Len(Own)
       \/ /\ i + Own[i].nth <= Len(Own)
          /\ \A n \in 1..Own[i].nth :
               IsTool(Own[i + n]) /\ Own[i + n].round = Own[i].round /\ Own[i + n].nth = n
  /\ \A i \in DOMAIN Own : IsTool(Own[i]) =>
       i > Own[i].nth /\ Own[i - Own[i].nth].kind = "call"

\* A call has its effects at most once per invocation that works on its plan, so at
\* most once more for each resume, and at least once when its result is saved.
EffectsAreBounded ==
  /\ \A call \in DOMAIN effects : effects[call] <= 1 + resumes
  /\ \A i \in DOMAIN Own : IsTool(Own[i]) => <<Own[i].round, Own[i].nth>> \in DOMAIN effects

\* A pass ends with a reply, unless a model found the results insufficient and had
\* nothing more to ask for (route_researcher).
PassEndsInReply ==
  at = "end" => Last(messages).kind = "ai" \/ (~sufficient /\ queries = 0)

\* No result saved by this pass is longer than the limit, or than the notice that
\* replaces it when the limit leaves no room for more (truncate_tool_return).
ResultsAreCapped ==
  MaxOutput > 0 =>
    \A i \in DOMAIN Own : IsTool(Own[i]) => Own[i].size <= Max({MaxOutput, BareNotice})

\* Every invocation comes to an end: the plan is retried once, and rounds that stay
\* insufficient end at the limit on steps.
PassStops == (status = "running") ~> (status # "running")

\* prompt_mapper.py:27: the pairs of calls and results survive the trimming, so a
\* model is never given a result without the call before it.
PromptKeepsPairs ==
  \A i \in DOMAIN prompt : IsTool(prompt[i]) =>
    \E j \in 1..(i - 1) : prompt[j].kind = "call" /\ prompt[j].round = prompt[i].round

=============================================================================
