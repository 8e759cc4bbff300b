---------------------------- MODULE ToolLoopProofs ----------------------------
(***************************************************************************)
(* Theorems about ToolLoop, for every conversation a pass starts from, all  *)
(* sizes, any number of calls, rounds and resumes.                         *)
(***************************************************************************)
EXTENDS ToolLoop, SequenceTheorems, FiniteSetTheorems, WellFoundedInduction, TLAPS

(***************************************************************************)
(* The invariant.                                                          *)
(***************************************************************************)

OwnIndex == (Len(history) + 1)..Len(messages)

\* Only messages are added.
Prefix == Len(history) <= Len(messages)

Capped(size) == MaxOutput > 0 => size <= Max({MaxOutput, BareNotice})

\* What a step holds in local variables is gone when it is not running.
Locals ==
  /\ ~Runs("search") => done = <<>>
  /\ \A n \in DOMAIN done : done[n] \in Nat /\ Capped(done[n])

\* The tools run for the call that ends the conversation.
PlanIsLast ==
  at = "search" =>
    /\ Len(messages) > Len(history)
    /\ messages[Len(messages)].kind = "call"
    /\ messages[Len(messages)].nth \in 1..MaxCalls
    /\ messages[Len(messages)].round = Len(messages) - 1
    /\ DOMAIN done \subseteq 1..messages[Len(messages)].nth

Open(j) == at = "search" /\ j = Len(messages)

Answered(j) ==
  /\ j + messages[j].nth <= Len(messages)
  /\ \A n \in 1..messages[j].nth :
       /\ messages[j + n].kind = "tool"
       /\ messages[j + n].round = messages[j].round
       /\ messages[j + n].nth = n

CallsAnswered ==
  \A j \in OwnIndex : messages[j].kind = "call" => Open(j) \/ Answered(j)

ResultsCalled ==
  \A j \in OwnIndex : messages[j].kind = "tool" =>
    /\ j - messages[j].nth > Len(history)
    /\ messages[j - messages[j].nth].kind = "call"

ResultsFit ==
  \A j \in OwnIndex : messages[j].kind = "tool" =>
    /\ <<messages[j].round, messages[j].nth>> \in DOMAIN effects
    /\ Capped(messages[j].size)

\* Rounds are told apart by where their call stands.
EffectsOfRounds ==
  \A call \in DOMAIN effects :
    /\ effects[call] \in Nat
    /\ effects[call] <= 1 + resumes
    /\ call[1] < Len(messages)

\* A call whose result is not there yet has been executed by earlier invocations only.
OncePerInvocation ==
  Runs("search") =>
    /\ \A n \in (1..messages[Len(messages)].nth) \ DOMAIN done : Executed(Call(n)) <= resumes
    /\ \A n \in DOMAIN done : Call(n) \in DOMAIN effects

StepsLeft == status = "running" => steps < RecursionLimit

LoopInv ==
  /\ TypeOK
  /\ StepsLeft
  /\ Prefix
  /\ Locals
  /\ PlanIsLast
  /\ CallsAnswered
  /\ ResultsCalled
  /\ ResultsFit
  /\ EffectsOfRounds
  /\ OncePerInvocation
  /\ PassEndsInReply

(***************************************************************************)
(* What the helpers return.                                                *)
(***************************************************************************)

\* A set of naturals with a bound has a greatest element.
LEMMA MaxBelow ==
  ASSUME NEW k \in Nat, NEW S \in SUBSET (0..k), S # {}
  PROVE  Max(S) \in S
<1> DEFINE T == {k - x : x \in S}
<1>1. T \subseteq Nat /\ T # {}
  OBVIOUS
<1>2. PICK y \in T : \A z \in T : ~(<<z, y>> \in OpToRel(<, Nat))
  BY <1>1, NatLessThanWellFounded, WFMin
<1>3. \A z \in T : ~(z < y)
  BY <1>1, <1>2 DEF OpToRel
<1>4. PICK x \in S : y = k - x
  BY <1>2
<1>5. \A z \in S : x >= z
  <2> SUFFICES ASSUME NEW z \in S
               PROVE  x >= z
    OBVIOUS
  <2>1. ~(k - z < y)
    BY <1>3
  <2>2. QED
    BY <1>4, <2>1
<1>6. \E best \in S : \A z \in S : best >= z
  BY <1>5
<1>7. QED
  BY <1>6 DEF Max

\* The greater of the limit and the bare notice is a bound for both.
LEMMA MaxOfBoth ==
  ASSUME MaxOutput > 0
  PROVE  /\ Max({MaxOutput, BareNotice}) >= MaxOutput
         /\ Max({MaxOutput, BareNotice}) >= BareNotice
         /\ Max({MaxOutput, BareNotice}) \in {MaxOutput, BareNotice}
<1>1. MaxOutput \in Int /\ BareNotice \in Int
  BY SizesAssumption DEF BareNotice
<1>2. \E x \in {MaxOutput, BareNotice} : \A y \in {MaxOutput, BareNotice} : x >= y
  <2>1. CASE MaxOutput >= BareNotice
    BY <1>1, <2>1
  <2>2. CASE ~(MaxOutput >= BareNotice)
    BY <1>1, <2>2
  <2>3. QED
    BY <2>1, <2>2
<1>3. QED
  BY <1>2 DEF Max

\* A truncated result is a natural number of characters, within the limit.
LEMMA OutputFits ==
  ASSUME NEW size \in Sizes
  PROVE  OutputLength(size) \in Nat /\ Capped(OutputLength(size))
<1>1. OutputLength(size) \in Nat
  BY SizesAssumption DEF OutputLength, BareNotice
<1>2. ASSUME MaxOutput > 0
      PROVE  OutputLength(size) <= Max({MaxOutput, BareNotice})
  <2>1. OutputLength(size) <= MaxOutput \/ OutputLength(size) = BareNotice
    BY <1>2, SizesAssumption DEF OutputLength
  <2>2. /\ Max({MaxOutput, BareNotice}) >= MaxOutput
        /\ Max({MaxOutput, BareNotice}) >= BareNotice
        /\ Max({MaxOutput, BareNotice}) \in {MaxOutput, BareNotice}
    BY <1>2, MaxOfBoth
  <2>3. MaxOutput \in Int /\ BareNotice \in Int
    BY SizesAssumption DEF BareNotice
  <2>4. QED
    BY <1>1, <2>1, <2>2, <2>3
<1>3. QED
  BY <1>1, <1>2 DEF Capped

\* A suffix of a conversation is a conversation.
LEMMA SuffixType ==
  ASSUME NEW conversation \in Seq(Message), NEW n \in 0..Len(conversation)
  PROVE  SubSeq(conversation, Len(conversation) - n + 1, Len(conversation)) \in Seq(Message)
<1>1. Len(conversation) \in Nat
  BY LenProperties
<1>2. \A i \in (Len(conversation) - n + 1)..Len(conversation) : conversation[i] \in Message
  BY <1>1, ElementOfSeq
<1>3. QED
  BY <1>1, <1>2, SubSeqProperties

\* Trimming gives a part of the conversation, so again a conversation.
LEMMA TrimType ==
  ASSUME NEW conversation \in Seq(Message)
  PROVE  TrimConversation(conversation, MaxContextTokens) \in Seq(Message)
<1> DEFINE last(n) == SubSeq(conversation, Len(conversation) - n + 1, Len(conversation))
           fit == {n \in 0..Len(conversation) : n = 0 \/ TotalSize(last(n)) <= MaxContextTokens}
<1>1. Len(conversation) \in Nat
  BY LenProperties
<1>2. fit \in SUBSET (0..Len(conversation)) /\ 0 \in fit
  BY <1>1
<1>3. Max(fit) \in 0..Len(conversation)
  <2> HIDE DEF fit
  <2>1. Max(fit) \in fit
    BY <1>1, <1>2, MaxBelow
  <2>2. QED
    BY <1>2, <2>1
<1>4. last(Max(fit)) \in Seq(Message)
  <2> HIDE DEF fit
  <2>1. QED
    BY <1>3, SuffixType
<1>5. QED
  BY <1>4 DEF TrimConversation

\* The trailing results are a part of the conversation.
LEMMA TrailingType ==
  ASSUME NEW conversation \in Seq(Message)
  PROVE  TrailingResults(conversation) \in Seq(Message)
<1> DEFINE tools == {n \in 0..Len(conversation) :
                       \A i \in 0..(n - 1) : IsTool(conversation[Len(conversation) - i])}
<1>1. Len(conversation) \in Nat
  BY LenProperties
<1>2. tools \in SUBSET (0..Len(conversation)) /\ 0 \in tools
  BY <1>1
<1> HIDE DEF tools
<1>3. Max(tools) \in 0..Len(conversation)
  BY <1>1, <1>2, MaxBelow
<1>4. SubSeq(conversation, Len(conversation) - Max(tools) + 1, Len(conversation)) \in Seq(Message)
  BY <1>3, SuffixType
<1>5. QED
  BY <1>4 DEF TrailingResults, tools

\* What the helpers of the loop see of a conversation: its end.
LEMMA LastOf ==
  ASSUME NEW conversation
  PROVE  Last(conversation) = conversation[Len(conversation)]
BY DEF Last

(***************************************************************************)
(* The start, and what all steps share.                                    *)
(***************************************************************************)

\* The state variables have the types the steps rely on.
LEMMA Lengths ==
  ASSUME TypeOK
  PROVE  /\ history \in Seq(Message) /\ Len(history) \in Nat
         /\ messages \in Seq(Message) /\ Len(messages) \in Nat
         /\ \A i \in 1..Len(messages) :
              /\ messages[i] \in Message
              /\ messages[i].kind \in MessageKinds
              /\ messages[i].round \in Nat /\ messages[i].nth \in Nat /\ messages[i].size \in Nat
<1>1. history \in Seq(Message) /\ messages \in Seq(Message)
  BY HistoriesAssumption DEF TypeOK
<1>2. Len(history) \in Nat /\ Len(messages) \in Nat
  BY <1>1, LenProperties
<1>3. \A i \in 1..Len(messages) : messages[i] \in Message
  BY <1>1, ElementOfSeq
<1>4. QED
  BY <1>1, <1>2, <1>3 DEF Message

\* Before the first step the pass has added nothing.
LEMMA InitInv == Init => LoopInv
<1> SUFFICES ASSUME Init
             PROVE  LoopInv
  OBVIOUS
<1>1. history \in Seq(Message) /\ Len(history) \in Nat
  BY HistoriesAssumption, LenProperties DEF Init
<1>2. DOMAIN <<>> = {} /\ <<>> \in Seq(Message)
  BY EmptySeq
<1>3. TypeOK
  <2>1. /\ history \in Histories /\ messages \in Seq(Message)
        /\ context \in Seq(Message) /\ prompt \in Seq(Message)
    BY <1>1, <1>2 DEF Init
  <2>2. steps \in 0..RecursionLimit /\ resumes \in 0..MaxResumes /\ attempt \in 0..1 /\ queries \in 0..1
    BY SizesAssumption DEF Init
  <2>3. DOMAIN done \subseteq 1..MaxCalls /\ DOMAIN effects \subseteq Nat \X Nat
    BY <1>2 DEF Init
  <2>4. QED
    BY <2>1, <2>2, <2>3 DEF Init, TypeOK, PassNodes
<1>4. StepsLeft
  BY SizesAssumption DEF Init, StepsLeft
<1>5. Prefix /\ OwnIndex = {}
  BY <1>1 DEF Init, Prefix, OwnIndex
<1>6. Locals /\ PlanIsLast /\ EffectsOfRounds /\ OncePerInvocation /\ PassEndsInReply
  BY <1>2 DEF Init, Locals, PlanIsLast, EffectsOfRounds, OncePerInvocation, PassEndsInReply, Runs
<1>7. CallsAnswered /\ ResultsCalled /\ ResultsFit
  BY <1>5 DEF CallsAnswered, ResultsCalled, ResultsFit
<1>8. QED
  BY <1>3, <1>4, <1>5, <1>6, <1>7 DEF LoopInv

\* A step that ends leaves the control in order and no local variables.
LEMMA GoToType ==
  ASSUME TypeOK, StepsLeft, status = "running", NEW node \in PassNodes, GoTo(node)
  PROVE  /\ at' = node /\ status' \in {"running", "stopped", "ended"}
         /\ (status' = "ended") <=> (at' = "end")
         /\ steps' \in 0..RecursionLimit /\ attempt' \in 0..1
         /\ done' = <<>> /\ DOMAIN done' = {}
         /\ StepsLeft'
<1>1. steps \in 0..RecursionLimit /\ steps < RecursionLimit /\ RecursionLimit \in Nat
  BY SizesAssumption DEF TypeOK, StepsLeft
<1>2. DOMAIN <<>> = {}
  BY EmptySeq
<1>3. QED
  BY <1>1, <1>2 DEF GoTo, StepsLeft

\* Steps between two nodes other than the tools that leave the messages alone.
LEMMA QuietStep ==
  ASSUME LoopInv, TypeOK', at # "search", at' # "search",
         done' = <<>>, resumes' = resumes,
         UNCHANGED <<history, messages, effects>>
  PROVE  /\ Prefix' /\ Locals' /\ PlanIsLast' /\ CallsAnswered' /\ ResultsCalled'
         /\ ResultsFit' /\ EffectsOfRounds' /\ OncePerInvocation'
<1>1. DOMAIN <<>> = {}
  BY EmptySeq
<1>2. OwnIndex' = OwnIndex /\ \A size : Capped(size)' = Capped(size)
  BY DEF OwnIndex, Capped
<1>3. Prefix' /\ Locals' /\ PlanIsLast' /\ OncePerInvocation' /\ EffectsOfRounds'
  BY <1>1 DEF LoopInv, Prefix, Locals, PlanIsLast, OncePerInvocation, EffectsOfRounds, Runs
<1>4. CallsAnswered'
  <2>1. \A j \in OwnIndex : messages[j].kind = "call" => Answered(j)
    BY DEF LoopInv, CallsAnswered, Open
  <2>2. \A j : Answered(j) => Answered(j)'
    BY DEF Answered
  <2>3. QED
    BY <1>2, <2>1, <2>2 DEF CallsAnswered
<1>5. ResultsCalled' /\ ResultsFit'
  BY <1>2 DEF LoopInv, ResultsCalled, ResultsFit, Capped
<1>6. QED
  BY <1>3, <1>4, <1>5

\* What was said of messages before stays so when others follow them.
LEMMA AnsweredStays ==
  ASSUME TypeOK, NEW j \in 1..Len(messages), Answered(j),
         Len(messages') \in Nat, Len(messages') >= Len(messages),
         \A i \in 1..Len(messages) : messages'[i] = messages[i]
  PROVE  Answered(j)'
<1>1. Len(messages) \in Nat /\ messages[j].nth \in Nat /\ messages'[j] = messages[j]
  BY Lengths
<1>2. \A n \in 1..messages[j].nth : j + n \in 1..Len(messages)
  BY <1>1 DEF Answered
<1>3. \A n \in 1..messages[j].nth : messages'[j + n] = messages[j + n]
  BY <1>2
<1>4. j + messages'[j].nth <= Len(messages')
  BY <1>1 DEF Answered
<1>5. QED
  BY <1>1, <1>3, <1>4 DEF Answered

\* A step that only adds to the conversation leaves every result with its call.
LEMMA ResultStays ==
  ASSUME LoopInv, NEW j \in OwnIndex, messages[j].kind = "tool",
         \A i \in 1..Len(messages) : messages'[i] = messages[i]
  PROVE  /\ messages'[j] = messages[j]
         /\ j - messages'[j].nth > Len(history)
         /\ messages'[j - messages'[j].nth].kind = "call"
         /\ <<messages'[j].round, messages'[j].nth>> \in DOMAIN effects
         /\ Capped(messages'[j].size)
<1>1. Len(history) \in Nat /\ Len(messages) \in Nat /\ j \in 1..Len(messages)
  BY Lengths DEF LoopInv, OwnIndex
<1>2. messages'[j] = messages[j] /\ messages[j].nth \in Nat
  BY <1>1, Lengths DEF LoopInv
<1>3. /\ j - messages[j].nth > Len(history)
      /\ messages[j - messages[j].nth].kind = "call"
      /\ <<messages[j].round, messages[j].nth>> \in DOMAIN effects
      /\ Capped(messages[j].size)
  BY DEF LoopInv, ResultsCalled, ResultsFit
<1>4. j - messages[j].nth \in 1..Len(messages)
  BY <1>1, <1>2, <1>3
<1>5. QED
  BY <1>2, <1>3, <1>4

(***************************************************************************)
(* One lemma for each action.                                              *)
(***************************************************************************)

\* Collecting the context only reads the conversation.
LEMMA CollectContextInv ==
  ASSUME LoopInv, CollectContext
  PROVE  LoopInv'
<1>1. TypeOK /\ StepsLeft
  BY DEF LoopInv
<1>2. at = "collect_context" /\ status = "running" /\ GoTo("validate_context")
  BY DEF CollectContext, Runs
<1>3. /\ at' = "validate_context" /\ status' \in {"running", "stopped", "ended"}
      /\ (status' = "ended") <=> (at' = "end")
      /\ steps' \in 0..RecursionLimit /\ attempt' \in 0..1
      /\ done' = <<>> /\ DOMAIN done' = {} /\ StepsLeft'
  BY <1>1, <1>2, GoToType DEF PassNodes
<1>4. context' \in Seq(Message)
  <2>1. TrailingResults(messages) \in Seq(Message)
    BY <1>1, Lengths, TrailingType
  <2>2. QED
    BY <1>1, <2>1, ConcatProperties DEF CollectContext, TypeOK
<1>5. UNCHANGED <<messages, sufficient, queries, prompt, history, effects, resumes>>
  BY DEF CollectContext, historyVars
<1>6. TypeOK'
  BY <1>1, <1>3, <1>4, <1>5 DEF TypeOK, PassNodes
<1>7. /\ Prefix' /\ Locals' /\ PlanIsLast' /\ CallsAnswered' /\ ResultsCalled'
      /\ ResultsFit' /\ EffectsOfRounds' /\ OncePerInvocation'
  BY <1>2, <1>3, <1>5, <1>6, QuietStep
<1>8. PassEndsInReply'
  BY <1>3 DEF PassEndsInReply
<1>9. QED
  BY <1>3, <1>6, <1>7, <1>8 DEF LoopInv

\* The verdict only chooses the next node.
LEMMA ValidateContextInv ==
  ASSUME LoopInv, ValidateContext
  PROVE  LoopInv'
<1>1. TypeOK /\ StepsLeft
  BY DEF LoopInv
<1>2. PICK verdict \in BOOLEAN, hints \in 0..1 :
        /\ sufficient' = verdict
        /\ queries' = hints
        /\ LET route == RouteResearcher(FALSE, verdict, hints)
           IN  GoTo(IF route = "search" THEN "plan_search" ELSE route)
  BY DEF ValidateContext
<1> DEFINE route == RouteResearcher(FALSE, verdict, hints)
           node == IF route = "search" THEN "plan_search" ELSE route
<1>3. /\ node \in PassNodes /\ node # "search"
      /\ node = "end" => ~verdict /\ hints = 0
  BY DEF RouteResearcher, PassNodes
<1>4. at = "validate_context" /\ status = "running" /\ GoTo(node)
  BY <1>2 DEF ValidateContext, Runs
<1> HIDE DEF node
<1>5. /\ at' = node /\ status' \in {"running", "stopped", "ended"}
      /\ (status' = "ended") <=> (at' = "end")
      /\ steps' \in 0..RecursionLimit /\ attempt' \in 0..1
      /\ done' = <<>> /\ DOMAIN done' = {} /\ StepsLeft'
  BY <1>1, <1>3, <1>4, GoToType
<1>6. UNCHANGED <<messages, context, prompt, history, effects, resumes>>
  BY DEF ValidateContext, historyVars
<1>7. TypeOK'
  BY <1>1, <1>2, <1>3, <1>5, <1>6 DEF TypeOK
<1>8. /\ Prefix' /\ Locals' /\ PlanIsLast' /\ CallsAnswered' /\ ResultsCalled'
      /\ ResultsFit' /\ EffectsOfRounds' /\ OncePerInvocation'
  BY <1>3, <1>4, <1>5, <1>6, <1>7, QuietStep
<1>9. PassEndsInReply'
  BY <1>2, <1>3, <1>5 DEF PassEndsInReply
<1>10. QED
  BY <1>5, <1>7, <1>8, <1>9 DEF LoopInv

\* The second attempt of a failed plan changes nothing but its own count.
LEMMA PlanRetryInv ==
  ASSUME LoopInv, PlanRetry
  PROVE  LoopInv'
<1>1. TypeOK
  BY DEF LoopInv
<1>2. at = "plan_search" /\ at' = at /\ status' = status /\ status = "running" /\ attempt' = 1
  BY DEF PlanRetry, Runs
<1>3. UNCHANGED <<steps, done, messages, context, sufficient, queries, history, effects, resumes>>
  BY DEF PlanRetry, stateVars, historyVars
<1>4. prompt' \in Seq(Message)
  BY <1>1, Lengths, TrimType DEF PlanRetry
<1>5. TypeOK' /\ StepsLeft'
  BY <1>1, <1>2, <1>3, <1>4 DEF LoopInv, TypeOK, StepsLeft
<1>6. done' = <<>>
  BY <1>2, <1>3 DEF LoopInv, Locals, Runs
<1>7. /\ Prefix' /\ Locals' /\ PlanIsLast' /\ CallsAnswered' /\ ResultsCalled'
      /\ ResultsFit' /\ EffectsOfRounds' /\ OncePerInvocation'
  BY <1>2, <1>3, <1>5, <1>6, QuietStep
<1>8. PassEndsInReply'
  BY <1>2 DEF PassEndsInReply
<1>9. QED
  BY <1>5, <1>7, <1>8 DEF LoopInv

\* A plan adds its call at the end of the conversation, and no tool has run for it yet.
LEMMA PlanSearchInv ==
  ASSUME LoopInv, PlanSearch
  PROVE  LoopInv'
<1>1. /\ TypeOK /\ StepsLeft /\ at = "plan_search" /\ status = "running"
      /\ Len(history) \in Nat /\ messages \in Seq(Message) /\ Len(messages) \in Nat
      /\ Len(history) <= Len(messages)
  BY Lengths DEF LoopInv, PlanSearch, Runs, Prefix
<1>2. PICK calls \in 0..MaxCalls, size \in Sizes :
        LET response == IF calls = 0 THEN Text("ai", size)
                        ELSE [kind |-> "call", round |-> Round, nth |-> calls, size |-> size]
        IN  /\ messages' = Append(messages, response)
            /\ GoTo(RouteAfterPlan(response))
  BY DEF PlanSearch
<1> DEFINE response == IF calls = 0 THEN Text("ai", size)
                       ELSE [kind |-> "call", round |-> Round, nth |-> calls, size |-> size]
           node == RouteAfterPlan(response)
<1>3. /\ response \in Message
      /\ response.kind \in {"ai", "call"}
      /\ response.kind = "call" => response.nth \in 1..MaxCalls /\ response.round = Len(messages)
      /\ node = IF response.kind = "call" THEN "search" ELSE "synthesize"
  BY <1>1, SizesAssumption DEF Text, Message, MessageKinds, Round, RouteAfterPlan
<1>4. messages' = Append(messages, response) /\ GoTo(node)
  BY <1>2
<1> HIDE DEF response, node
<1>5. /\ at' = node /\ status' \in {"running", "stopped", "ended"}
      /\ (status' = "ended") <=> (at' = "end")
      /\ steps' \in 0..RecursionLimit /\ attempt' \in 0..1
      /\ done' = <<>> /\ DOMAIN done' = {} /\ StepsLeft'
  BY <1>1, <1>3, <1>4, GoToType DEF PassNodes
<1>6. UNCHANGED <<context, sufficient, queries, history, effects, resumes>>
  BY DEF PlanSearch, historyVars
<1>7. /\ messages' \in Seq(Message) /\ Len(messages') = Len(messages) + 1
      /\ \A i \in 1..Len(messages) : messages'[i] = messages[i]
      /\ messages'[Len(messages) + 1] = response
  BY <1>1, <1>3, <1>4, AppendProperties
<1>8. prompt' \in Seq(Message)
  BY <1>1, TrimType DEF PlanSearch
<1>9. TypeOK'
  BY <1>1, <1>3, <1>5, <1>6, <1>7, <1>8 DEF TypeOK, PassNodes
<1>10. Prefix' /\ Locals'
  BY <1>1, <1>5, <1>6, <1>7 DEF Prefix, Locals
<1>11. PlanIsLast'
  BY <1>1, <1>3, <1>5, <1>6, <1>7 DEF PlanIsLast
<1>12. OwnIndex' = OwnIndex \cup {Len(messages) + 1} /\ OwnIndex \subseteq 1..Len(messages)
  BY <1>1, <1>6, <1>7 DEF OwnIndex
<1>13. CallsAnswered'
  <2> SUFFICES ASSUME NEW j \in OwnIndex', messages'[j].kind = "call"
               PROVE  Open(j)' \/ Answered(j)'
    BY DEF CallsAnswered
  <2>1. CASE j = Len(messages) + 1
    BY <1>3, <1>5, <1>7, <2>1 DEF Open
  <2>2. CASE j \in OwnIndex
    <3>1. j \in 1..Len(messages) /\ Answered(j)
      BY <1>1, <1>7, <1>12, <2>2 DEF LoopInv, CallsAnswered, Open
    <3>2. QED
      BY <1>1, <1>7, <3>1, AnsweredStays
  <2>3. QED
    BY <1>12, <2>1, <2>2
<1>14. ASSUME NEW j \in OwnIndex', messages'[j].kind = "tool"
       PROVE  j \in OwnIndex /\ messages[j].kind = "tool"
  BY <1>3, <1>7, <1>12, <1>14
<1>15. ResultsCalled' /\ ResultsFit'
  BY <1>6, <1>7, <1>14, ResultStays DEF ResultsCalled, ResultsFit, Capped
<1>16. EffectsOfRounds'
  <2>1. \A call \in DOMAIN effects : call[1] \in Nat
    BY <1>1 DEF TypeOK
  <2>2. QED
    BY <1>1, <1>6, <1>7, <2>1 DEF LoopInv, EffectsOfRounds
<1>17. OncePerInvocation'
  <2> SUFFICES ASSUME Runs("search")'
               PROVE  \A n \in (1..messages'[Len(messages')].nth) \ DOMAIN done' :
                        Executed(Call(n))' <= resumes'
    BY <1>5 DEF OncePerInvocation
  <2>1. response.round = Len(messages) /\ messages'[Len(messages')] = response
    BY <1>1, <1>3, <1>5, <1>7 DEF Runs
  <2>2. \A n : Call(n)' = <<Len(messages), n>>
    BY <2>1 DEF Call, Last
  <2>3. \A n : <<Len(messages), n>> \notin DOMAIN effects
    BY <1>1 DEF LoopInv, EffectsOfRounds
  <2>4. resumes \in Nat
    BY <1>1, SizesAssumption DEF TypeOK
  <2>5. QED
    BY <1>6, <2>2, <2>3, <2>4 DEF Executed
<1>18. PassEndsInReply'
  BY <1>3, <1>5 DEF PassEndsInReply
<1>19. QED
  BY <1>5, <1>9, <1>10, <1>11, <1>13, <1>15, <1>16, <1>17, <1>18 DEF LoopInv

\* The reply is added at the end.
LEMMA SynthesizeInv ==
  ASSUME LoopInv, Synthesize
  PROVE  LoopInv'
<1>1. /\ TypeOK /\ StepsLeft /\ at = "synthesize" /\ status = "running"
      /\ Len(history) \in Nat /\ messages \in Seq(Message) /\ Len(messages) \in Nat
      /\ Len(history) <= Len(messages)
  BY Lengths DEF LoopInv, Synthesize, Runs, Prefix
<1>2. PICK size \in Sizes : messages' = Append(messages, Text("ai", size))
  BY DEF Synthesize
<1>3. Text("ai", size) \in Message /\ Text("ai", size).kind = "ai"
  BY SizesAssumption DEF Text, Message, MessageKinds
<1>4. /\ at' = "end" /\ status' \in {"running", "stopped", "ended"}
      /\ (status' = "ended") <=> (at' = "end")
      /\ steps' \in 0..RecursionLimit /\ attempt' \in 0..1
      /\ done' = <<>> /\ DOMAIN done' = {} /\ StepsLeft'
  BY <1>1, GoToType DEF PassNodes, Synthesize
<1>5. UNCHANGED <<context, sufficient, queries, history, effects, resumes>>
  BY DEF Synthesize, historyVars
<1>6. /\ messages' \in Seq(Message) /\ Len(messages') = Len(messages) + 1
      /\ \A i \in 1..Len(messages) : messages'[i] = messages[i]
      /\ messages'[Len(messages) + 1].kind = "ai"
  BY <1>1, <1>2, <1>3, AppendProperties
<1>7. prompt' \in Seq(Message)
  BY <1>1, TrimType DEF Synthesize
<1>8. TypeOK'
  BY <1>1, <1>4, <1>5, <1>6, <1>7 DEF TypeOK, PassNodes
<1>9. Prefix' /\ Locals' /\ PlanIsLast' /\ OncePerInvocation' /\ PassEndsInReply'
  BY <1>1, <1>4, <1>5, <1>6
     DEF Prefix, Locals, PlanIsLast, OncePerInvocation, PassEndsInReply, Runs, Last
<1>10. OwnIndex' = OwnIndex \cup {Len(messages) + 1} /\ OwnIndex \subseteq 1..Len(messages)
  BY <1>1, <1>5, <1>6 DEF OwnIndex
<1>11. CallsAnswered'
  <2> SUFFICES ASSUME NEW j \in OwnIndex', messages'[j].kind = "call"
               PROVE  Answered(j)'
    BY DEF CallsAnswered
  <2>1. j \in 1..Len(messages) /\ Answered(j)
    BY <1>1, <1>6, <1>10 DEF LoopInv, CallsAnswered, Open
  <2>2. QED
    BY <1>1, <1>6, <2>1, AnsweredStays
<1>12. ASSUME NEW j \in OwnIndex', messages'[j].kind = "tool"
       PROVE  j \in OwnIndex /\ messages[j].kind = "tool"
  BY <1>6, <1>10, <1>12
<1>13. ResultsCalled' /\ ResultsFit'
  BY <1>5, <1>6, <1>12, ResultStays DEF ResultsCalled, ResultsFit, Capped
<1>14. EffectsOfRounds'
  <2>1. \A call \in DOMAIN effects : call[1] \in Nat
    BY <1>1 DEF TypeOK
  <2>2. QED
    BY <1>1, <1>5, <1>6, <2>1 DEF LoopInv, EffectsOfRounds
<1>15. QED
  BY <1>4, <1>8, <1>9, <1>11, <1>13, <1>14 DEF LoopInv

\* A call that ends counts one effect, in a round whose results are not saved yet.
LEMMA RunToolInv ==
  ASSUME LoopInv, NEW n \in 1..MaxCalls, RunTool(n)
  PROVE  LoopInv'
<1> DEFINE last == messages[Len(messages)]
<1>1. /\ TypeOK /\ StepsLeft /\ at = "search" /\ status = "running"
      /\ Len(messages) \in Nat /\ Len(messages) > Len(history) /\ Len(history) \in Nat
      /\ n \in (1..last.nth) \ DOMAIN done
      /\ last.round = Len(messages) - 1 /\ Call(n) = <<last.round, n>>
  BY Lengths DEF LoopInv, PlanIsLast, RunTool, Runs, Last, Call
<1>2. PICK size \in Sizes : done' = Put(done, n, OutputLength(size))
  BY DEF RunTool
<1>3. effects' = Put(effects, Call(n), Executed(Call(n)) + 1)
  BY DEF RunTool
<1>4. UNCHANGED <<history, at, status, steps, attempt, messages, context, sufficient, queries,
                  prompt, resumes>>
  BY DEF RunTool, stateVars
<1>5. /\ DOMAIN done' = DOMAIN done \cup {n}
      /\ done'[n] = OutputLength(size)
      /\ \A i \in DOMAIN done : done'[i] = done[i]
  BY <1>1, <1>2 DEF Put
<1>6. /\ DOMAIN effects' = DOMAIN effects \cup {Call(n)}
      /\ effects'[Call(n)] = Executed(Call(n)) + 1
      /\ \A call \in DOMAIN effects : call # Call(n) => effects'[call] = effects[call]
  BY <1>3 DEF Put
<1>7. Executed(Call(n)) \in Nat /\ Executed(Call(n)) <= resumes /\ resumes \in Nat
  <2>1. resumes \in Nat
    BY <1>1, SizesAssumption DEF TypeOK
  <2>2. Executed(Call(n)) <= resumes
    BY <1>1 DEF LoopInv, OncePerInvocation, Runs
  <2>3. Executed(Call(n)) \in Nat
    BY DEF LoopInv, EffectsOfRounds, Executed
  <2>4. QED
    BY <2>1, <2>2, <2>3
<1>8. TypeOK'
  <2>1. n \in 1..MaxCalls /\ DOMAIN done' \subseteq 1..MaxCalls
    BY <1>1, <1>5 DEF TypeOK
  <2>2. Call(n) \in Nat \X Nat /\ DOMAIN effects' \subseteq Nat \X Nat
    BY <1>1, <1>6 DEF TypeOK
  <2>3. QED
    BY <1>1, <1>4, <2>1, <2>2 DEF TypeOK
<1>9. StepsLeft' /\ Prefix'
  BY <1>4 DEF LoopInv, StepsLeft, Prefix
<1>10. Locals'
  <2>1. OutputLength(size) \in Nat /\ Capped(OutputLength(size))
    BY OutputFits
  <2>2. QED
    BY <1>1, <1>4, <1>5, <2>1 DEF LoopInv, Locals, Capped, Runs
<1>11. PlanIsLast'
  BY <1>1, <1>4, <1>5 DEF LoopInv, PlanIsLast
<1>12. CallsAnswered' /\ ResultsCalled'
  BY <1>4 DEF LoopInv, CallsAnswered, ResultsCalled, OwnIndex, Open, Answered
<1>13. ResultsFit'
  BY <1>4, <1>6 DEF LoopInv, ResultsFit, OwnIndex, Capped
<1>14. EffectsOfRounds'
  <2> SUFFICES ASSUME NEW call \in DOMAIN effects'
               PROVE  effects'[call] \in Nat /\ effects'[call] <= 1 + resumes /\ call[1] < Len(messages)
    BY <1>4 DEF EffectsOfRounds
  <2>1. CASE call = Call(n)
    BY <1>1, <1>6, <1>7, <2>1
  <2>2. CASE call # Call(n)
    BY <1>6, <2>2 DEF LoopInv, EffectsOfRounds
  <2>3. QED
    BY <2>1, <2>2
<1>15. OncePerInvocation'
  <2>1. \A i : Call(i)' = Call(i) /\ (i # n => Call(i) # Call(n))
    BY <1>4 DEF Call
  <2>2. \A i \in (1..last.nth) \ DOMAIN done' : Executed(Call(i))' <= resumes
    <3> SUFFICES ASSUME NEW i \in (1..last.nth) \ DOMAIN done'
                 PROVE  Executed(Call(i))' <= resumes
      OBVIOUS
    <3>1. i # n /\ Executed(Call(i)) <= resumes
      BY <1>1, <1>5 DEF LoopInv, OncePerInvocation, Runs
    <3>2. Executed(Call(i))' = Executed(Call(i))
      BY <1>6, <2>1, <3>1 DEF Executed
    <3>3. QED
      BY <3>1, <3>2
  <2>3. \A i \in DOMAIN done' : Call(i) \in DOMAIN effects'
    BY <1>1, <1>5, <1>6 DEF LoopInv, OncePerInvocation, Runs
  <2>4. QED
    BY <1>4, <2>1, <2>2, <2>3 DEF OncePerInvocation
<1>16. PassEndsInReply'
  BY <1>1, <1>4 DEF PassEndsInReply
<1>17. QED
  BY <1>8, <1>9, <1>10, <1>11, <1>12, <1>13, <1>14, <1>15, <1>16 DEF LoopInv

\* A function on 1..n is a sequence.
LEMMA FunctionIsSeq ==
  ASSUME NEW S, NEW n \in Nat, NEW f \in [1..n -> S]
  PROVE  f \in Seq(S)
BY SeqDef

\* What the step that collects the results of its calls adds: a result for each, in order.
LEMMA SearchAdds ==
  ASSUME LoopInv, Search
  PROVE  /\ messages' \in Seq(Message)
         /\ Len(messages') = Len(messages) + messages[Len(messages)].nth
         /\ \A i \in 1..Len(messages) : messages'[i] = messages[i]
         /\ \A n \in 1..messages[Len(messages)].nth :
              /\ messages'[Len(messages) + n] = Result(n)
              /\ Result(n) \in Message /\ Result(n).kind = "tool"
              /\ Result(n).round = messages[Len(messages)].round /\ Result(n).nth = n
              /\ Capped(Result(n).size)
<1> DEFINE last == messages[Len(messages)]
           results == [n \in 1..last.nth |-> Result(n)]
<1>1. /\ TypeOK /\ StepsLeft /\ at = "search" /\ status = "running"
      /\ messages \in Seq(Message) /\ Len(messages) \in Nat
      /\ Len(history) \in Nat /\ Len(messages) > Len(history)
      /\ last.kind = "call" /\ last.nth \in Nat /\ last.round \in Nat
      /\ DOMAIN done = 1..last.nth
      /\ \A n \in 1..last.nth : Call(n) = <<last.round, n>> /\ Call(n) \in DOMAIN effects
  <2>1. TypeOK /\ StepsLeft /\ at = "search" /\ status = "running" /\ DOMAIN done = 1..last.nth
    BY DEF LoopInv, Search, Runs, Last
  <2>2. /\ messages \in Seq(Message) /\ Len(messages) \in Nat
        /\ Len(history) \in Nat /\ Len(messages) > Len(history) /\ last.kind = "call"
    BY <2>1, Lengths DEF LoopInv, PlanIsLast
  <2>3. last.nth \in Nat /\ last.round \in Nat
    BY <2>1, <2>2, Lengths
  <2>4. \A n \in DOMAIN done : Call(n) \in DOMAIN effects
    BY <2>1 DEF LoopInv, OncePerInvocation, Runs
  <2>5. QED
    BY <2>1, <2>2, <2>3, <2>4 DEF Call, Last
<1>2. messages' = messages \o results
  BY DEF Search, Last
<1>3. \A n \in 1..last.nth :
        /\ Result(n) \in Message /\ Result(n).kind = "tool"
        /\ Result(n).round = last.round /\ Result(n).nth = n /\ Capped(Result(n).size)
  <2>1. \A n \in 1..last.nth : done[n] \in Nat /\ Capped(done[n])
    BY <1>1 DEF LoopInv, Locals
  <2>2. Last(messages) = last
    BY DEF Last
  <2> HIDE DEF last
  <2>3. \A n \in 1..last.nth :
          Result(n) = [kind |-> "tool", round |-> last.round, nth |-> n, size |-> done[n]]
    BY <2>2 DEF Result
  <2>4. QED
    BY <1>1, <2>1, <2>3 DEF Message, MessageKinds
<1>4. results \in Seq(Message) /\ Len(results) = last.nth
  <2>1. results \in [1..last.nth -> Message]
    BY <1>3
  <2> HIDE DEF results, last
  <2>2. results \in Seq(Message)
    BY <1>1, <2>1, FunctionIsSeq
  <2>3. DOMAIN results = 1..last.nth /\ DOMAIN results = 1..Len(results) /\ Len(results) \in Nat
    BY <2>1, <2>2, LenProperties
  <2>4. QED
    BY <1>1, <2>2, <2>3
<1>5. \A n \in 1..last.nth : results[n] = Result(n)
  OBVIOUS
<1> HIDE DEF results
<1>6. /\ messages' \in Seq(Message) /\ Len(messages') = Len(messages) + last.nth
      /\ \A i \in 1..Len(messages) : messages'[i] = messages[i]
      /\ \A n \in 1..last.nth : messages'[Len(messages) + n] = Result(n)
  <2>1. /\ messages' \in Seq(Message) /\ Len(messages') = Len(messages) + last.nth
        /\ \A i \in 1..(Len(messages) + last.nth) :
             messages'[i] = IF i <= Len(messages) THEN messages[i] ELSE results[i - Len(messages)]
    BY <1>1, <1>2, <1>4, ConcatProperties
  <2>2. \A n \in 1..last.nth : messages'[Len(messages) + n] = Result(n)
    <3> SUFFICES ASSUME NEW n \in 1..last.nth
                 PROVE  messages'[Len(messages) + n] = Result(n)
      OBVIOUS
    <3>1. /\ Len(messages) + n \in 1..(Len(messages) + last.nth)
          /\ ~(Len(messages) + n <= Len(messages)) /\ (Len(messages) + n) - Len(messages) = n
      BY <1>1
    <3>2. QED
      BY <1>5, <2>1, <3>1
  <2>3. \A i \in 1..Len(messages) : messages'[i] = messages[i]
    <3> HIDE DEF last
    <3>1. QED
      BY <1>1, <2>1
  <2>4. QED
    BY <2>1, <2>2, <2>3
<1> HIDE DEF last
<1>7. QED
  BY <1>3, <1>6 DEF last

\* The results of all calls are added together, in the order of the calls.
LEMMA SearchInv ==
  ASSUME LoopInv, Search
  PROVE  LoopInv'
<1> DEFINE last == messages[Len(messages)]
           results == [n \in 1..last.nth |-> Result(n)]
<1>1. /\ TypeOK /\ StepsLeft /\ at = "search" /\ status = "running"
      /\ messages \in Seq(Message) /\ Len(messages) \in Nat
      /\ Len(history) \in Nat /\ Len(messages) > Len(history)
      /\ last.kind = "call" /\ last.nth \in Nat /\ last.round \in Nat
      /\ DOMAIN done = 1..last.nth
      /\ \A n \in 1..last.nth : Call(n) = <<last.round, n>> /\ Call(n) \in DOMAIN effects
  <2>1. TypeOK /\ StepsLeft /\ at = "search" /\ status = "running" /\ DOMAIN done = 1..last.nth
    BY DEF LoopInv, Search, Runs, Last
  <2>2. /\ messages \in Seq(Message) /\ Len(messages) \in Nat
        /\ Len(history) \in Nat /\ Len(messages) > Len(history) /\ last.kind = "call"
    BY <2>1, Lengths DEF LoopInv, PlanIsLast
  <2>3. last.nth \in Nat /\ last.round \in Nat
    BY <2>1, <2>2, Lengths
  <2>4. \A n \in DOMAIN done : Call(n) \in DOMAIN effects
    BY <2>1 DEF LoopInv, OncePerInvocation, Runs
  <2>5. QED
    BY <2>1, <2>2, <2>3, <2>4 DEF Call, Last
<1>2. messages' = messages \o results /\ GoTo("collect_context")
  BY DEF Search, Last
<1>3. /\ at' = "collect_context" /\ status' \in {"running", "stopped", "ended"}
      /\ (status' = "ended") <=> (at' = "end")
      /\ steps' \in 0..RecursionLimit /\ attempt' \in 0..1
      /\ done' = <<>> /\ DOMAIN done' = {} /\ StepsLeft'
  BY <1>1, <1>2, GoToType DEF PassNodes
<1>4. UNCHANGED <<context, sufficient, queries, prompt, history, effects, resumes>>
  BY DEF Search, historyVars
<1>5. \A n \in 1..last.nth :
        /\ Result(n) \in Message /\ Result(n).kind = "tool"
        /\ Result(n).round = last.round /\ Result(n).nth = n /\ Capped(Result(n).size)
  BY SearchAdds
<1>6. /\ messages' \in Seq(Message) /\ Len(messages') = Len(messages) + last.nth
      /\ \A i \in 1..Len(messages) : messages'[i] = messages[i]
      /\ \A n \in 1..last.nth : messages'[Len(messages) + n] = Result(n)
  BY SearchAdds
<1> HIDE DEF last
<1>7. TypeOK'
  BY <1>1, <1>3, <1>4, <1>6 DEF TypeOK, PassNodes
<1>8. Prefix' /\ Locals' /\ PlanIsLast' /\ OncePerInvocation' /\ PassEndsInReply'
  BY <1>1, <1>3, <1>4, <1>6
     DEF Prefix, Locals, PlanIsLast, OncePerInvocation, PassEndsInReply, Runs
<1>9. /\ OwnIndex \subseteq 1..Len(messages)
       /\ \A j \in OwnIndex' : j \in OwnIndex
                               \/ \E n \in 1..last.nth : j = Len(messages) + n
  <2>1. OwnIndex \subseteq 1..Len(messages)
    BY <1>1 DEF OwnIndex
  <2>2. \A j \in OwnIndex' : ~(j <= Len(messages)) =>
          j - Len(messages) \in 1..last.nth /\ j = Len(messages) + (j - Len(messages))
    BY <1>1, <1>4, <1>6 DEF OwnIndex
  <2>3. \A j \in OwnIndex' : j <= Len(messages) => j \in OwnIndex
    BY <1>1, <1>4, <1>6 DEF OwnIndex
  <2>4. QED
    BY <2>1, <2>2, <2>3
<1>10. CallsAnswered'
  <2> SUFFICES ASSUME NEW j \in OwnIndex', messages'[j].kind = "call"
               PROVE  Answered(j)'
    BY DEF CallsAnswered
  <2>1. j \in OwnIndex /\ j \in 1..Len(messages) /\ messages[j].kind = "call" /\ messages'[j] = messages[j]
    BY <1>5, <1>6, <1>9
  <2>2. CASE j = Len(messages)
    <3>1. messages'[j] = last
      BY <2>1, <2>2 DEF last
    <3>2. j + last.nth <= Len(messages')
      BY <1>1, <1>6, <2>2
    <3>3. \A n \in 1..last.nth :
            /\ messages'[j + n].kind = "tool"
            /\ messages'[j + n].round = last.round /\ messages'[j + n].nth = n
      BY <1>5, <1>6, <2>2
    <3>4. QED
      BY <3>1, <3>2, <3>3 DEF Answered
  <2>3. CASE j # Len(messages)
    <3>1. Answered(j)
      BY <2>1, <2>3 DEF LoopInv, CallsAnswered, Open
    <3>2. Len(messages') \in Nat /\ Len(messages') >= Len(messages)
      BY <1>1, <1>6
    <3>3. QED
      BY <1>1, <1>6, <2>1, <3>1, <3>2, AnsweredStays
  <2>4. QED
    BY <2>2, <2>3
<1>11. ASSUME NEW j \in OwnIndex', messages'[j].kind = "tool"
       PROVE  /\ j - messages'[j].nth > Len(history)
              /\ messages'[j - messages'[j].nth].kind = "call"
              /\ <<messages'[j].round, messages'[j].nth>> \in DOMAIN effects
              /\ Capped(messages'[j].size)
  <2>1. CASE j \in OwnIndex
    <3>1. messages[j].kind = "tool"
      BY <1>6, <1>9, <1>11, <2>1
    <3>2. QED
      BY <1>6, <2>1, <3>1, ResultStays
  <2>2. CASE \E n \in 1..last.nth : j = Len(messages) + n
    <3>1. PICK n \in 1..last.nth : j = Len(messages) + n
      BY <2>2
    <3>2. messages'[j] = Result(n) /\ j - n = Len(messages) /\ Len(messages) \in 1..Len(messages)
      BY <1>1, <1>6, <3>1
    <3>3. messages'[Len(messages)] = last
      BY <1>6, <3>2 DEF last
    <3>4. QED
      BY <1>1, <1>5, <3>2, <3>3
  <2>3. QED
    BY <1>9, <2>1, <2>2
<1>12. ResultsCalled' /\ ResultsFit'
  BY <1>4, <1>11 DEF ResultsCalled, ResultsFit, Capped
<1>13. EffectsOfRounds'
  <2>1. \A call \in DOMAIN effects : call[1] \in Nat
    BY <1>1 DEF TypeOK
  <2>2. QED
    BY <1>1, <1>4, <1>6, <2>1 DEF LoopInv, EffectsOfRounds
<1>14. QED
  BY <1>3, <1>7, <1>8, <1>10, <1>12, <1>13 DEF LoopInv

\* A stop forgets what the calls returned, but not that they were executed.
LEMMA StopInv ==
  ASSUME LoopInv, Stop
  PROVE  LoopInv'
<1>1. DOMAIN <<>> = {}
  BY EmptySeq
<1>2. /\ TypeOK /\ status = "running" /\ status' = "stopped" /\ attempt' = 0 /\ done' = <<>>
      /\ UNCHANGED <<at, steps, messages, context, sufficient, queries, prompt, history,
                     effects, resumes>>
  BY DEF LoopInv, Stop, stateVars, historyVars
<1>3. TypeOK'
  BY <1>1, <1>2 DEF TypeOK
<1>4. StepsLeft' /\ Prefix' /\ Locals' /\ PlanIsLast' /\ OncePerInvocation' /\ EffectsOfRounds'
  BY <1>1, <1>2 DEF LoopInv, StepsLeft, Prefix, Locals, PlanIsLast, OncePerInvocation,
                    EffectsOfRounds, Runs
<1>5. CallsAnswered' /\ ResultsCalled' /\ ResultsFit' /\ PassEndsInReply'
  <2>1. CallsAnswered' /\ ResultsCalled'
    BY <1>2 DEF LoopInv, CallsAnswered, ResultsCalled, OwnIndex, Open, Answered
  <2>2. ResultsFit'
    BY <1>2 DEF LoopInv, ResultsFit, OwnIndex, Capped
  <2>3. PassEndsInReply'
    BY <1>2 DEF LoopInv, PassEndsInReply, Last
  <2>4. QED
    BY <2>1, <2>2, <2>3
<1>6. QED
  BY <1>3, <1>4, <1>5 DEF LoopInv

\* A resume begins the interrupted step anew, so a call may be executed once more.
LEMMA ResumeInv ==
  ASSUME LoopInv, Resume
  PROVE  LoopInv'
<1>1. DOMAIN <<>> = {}
  BY EmptySeq
<1>2. /\ TypeOK /\ status = "stopped" /\ status' = "running" /\ resumes' = resumes + 1
      /\ resumes < MaxResumes /\ steps' = 0
      /\ UNCHANGED <<at, attempt, done, messages, context, sufficient, queries, prompt, history,
                     effects>>
  BY DEF LoopInv, Resume, stateVars
<1>3. resumes \in Nat /\ resumes' \in 0..MaxResumes /\ 0 \in 0..RecursionLimit /\ 0 < RecursionLimit
  BY <1>2, SizesAssumption DEF TypeOK
<1>4. TypeOK' /\ StepsLeft'
  BY <1>2, <1>3 DEF TypeOK, StepsLeft
<1>5. done = <<>>
  BY <1>2 DEF LoopInv, Locals, Runs
<1>6. Prefix' /\ Locals' /\ PlanIsLast'
  BY <1>1, <1>2, <1>5 DEF LoopInv, Prefix, Locals, PlanIsLast
<1>7. EffectsOfRounds'
  BY <1>2, <1>3 DEF LoopInv, EffectsOfRounds
<1>8. OncePerInvocation'
  <2>1. \A call : Executed(call)' = Executed(call) /\ Executed(call) <= resumes'
    BY <1>2, <1>3 DEF LoopInv, EffectsOfRounds, Executed
  <2>2. QED
    BY <1>1, <1>2, <1>5, <2>1 DEF OncePerInvocation, Call, Executed
<1>9. CallsAnswered' /\ ResultsCalled' /\ ResultsFit' /\ PassEndsInReply'
  <2>1. CallsAnswered' /\ ResultsCalled'
    BY <1>2 DEF LoopInv, CallsAnswered, ResultsCalled, OwnIndex, Open, Answered
  <2>2. ResultsFit'
    BY <1>2 DEF LoopInv, ResultsFit, OwnIndex, Capped
  <2>3. PassEndsInReply'
    BY <1>2 DEF LoopInv, PassEndsInReply, Last
  <2>4. QED
    BY <2>1, <2>2, <2>3
<1>10. QED
  BY <1>4, <1>6, <1>7, <1>8, <1>9 DEF LoopInv

\* Every step of the loop, and every stop and resume, keeps the invariant.
LEMMA NextInv ==
  ASSUME LoopInv, [Next]_vars
  PROVE  LoopInv'
<1>1. CASE PlanSearch
  BY <1>1, PlanSearchInv
<1>2. CASE PlanRetry
  BY <1>2, PlanRetryInv
<1>3. CASE RunTools
  BY <1>3, RunToolInv DEF RunTools
<1>4. CASE Search
  BY <1>4, SearchInv
<1>5. CASE CollectContext
  BY <1>5, CollectContextInv
<1>6. CASE ValidateContext
  BY <1>6, ValidateContextInv
<1>7. CASE Synthesize
  BY <1>7, SynthesizeInv
<1>8. CASE Stop
  BY <1>8, StopInv
<1>9. CASE Resume
  BY <1>9, ResumeInv
<1>10. CASE UNCHANGED vars
  <2>1. UNCHANGED <<history, at, status, steps, attempt, done, messages, context, sufficient,
                    queries, prompt, effects, resumes>>
    BY <1>10 DEF vars
  <2>2. TypeOK' /\ StepsLeft' /\ Prefix' /\ PlanIsLast' /\ EffectsOfRounds' /\ PassEndsInReply'
    BY <2>1 DEF LoopInv, TypeOK, StepsLeft, Prefix, PlanIsLast, EffectsOfRounds, PassEndsInReply
  <2>3. CallsAnswered' /\ ResultsCalled' /\ ResultsFit'
    <3>1. CallsAnswered' /\ ResultsCalled'
      BY <2>1 DEF LoopInv, CallsAnswered, ResultsCalled, OwnIndex, Open, Answered
    <3>2. ResultsFit'
      BY <2>1 DEF LoopInv, ResultsFit, OwnIndex, Capped
    <3>3. QED
      BY <3>1, <3>2
  <2>4. Locals' /\ OncePerInvocation'
    BY <2>1 DEF LoopInv, Locals, OncePerInvocation, Runs, Capped, Executed, Call
  <2>5. QED
    BY <2>2, <2>3, <2>4 DEF LoopInv
<1>11. QED
  BY <1>1, <1>2, <1>3, <1>4, <1>5, <1>6, <1>7, <1>8, <1>9, <1>10 DEF Next, Step

(***************************************************************************)
(* The theorems.                                                           *)
(***************************************************************************)

\* The invariant speaks of places in the conversation, the properties of places in
\* what the pass has added to it.
LEMMA OwnPlaces ==
  ASSUME LoopInv
  PROVE  /\ Len(history) \in Nat
         /\ Len(Own) = Len(messages) - Len(history) /\ DOMAIN Own = 1..Len(Own)
         /\ \A i \in 1..Len(Own) :
              Own[i] = messages[Len(history) + i] /\ Len(history) + i \in OwnIndex
<1>1. /\ Len(history) \in Nat /\ Len(messages) \in Nat /\ Len(history) <= Len(messages)
      /\ \A i \in (Len(history) + 1)..Len(messages) : messages[i] \in Message
  BY Lengths DEF LoopInv, Prefix
<1>2. /\ Own \in Seq(Message)
      /\ Len(Own) = IF Len(history) + 1 <= Len(messages)
                    THEN Len(messages) - (Len(history) + 1) + 1 ELSE 0
      /\ \A i \in 1..(Len(messages) - (Len(history) + 1) + 1) :
           Own[i] = messages[(Len(history) + 1) + i - 1]
  BY <1>1, SubSeqProperties DEF Own
<1>3. Len(Own) = Len(messages) - Len(history) /\ DOMAIN Own = 1..Len(Own)
  BY <1>1, <1>2, LenProperties
<1>4. \A i \in 1..Len(Own) : Own[i] = messages[Len(history) + i]
  BY <1>1, <1>2, <1>3
<1>5. \A i \in 1..Len(Own) : Len(history) + i \in OwnIndex
  BY <1>1, <1>3 DEF OwnIndex
<1>6. QED
  BY <1>1, <1>3, <1>4, <1>5

\* What is said of places in the conversation holds of what the pass added.
LEMMA PairsFollow == LoopInv => ResultsFollowTheirCall
<1> SUFFICES ASSUME LoopInv
             PROVE  ResultsFollowTheirCall
  OBVIOUS
<1>1. /\ Len(history) \in Nat /\ Len(messages) \in Nat
      /\ Len(Own) = Len(messages) - Len(history) /\ DOMAIN Own = 1..Len(Own)
      /\ \A i \in 1..Len(Own) :
           /\ Own[i] = messages[Len(history) + i] /\ Len(history) + i \in OwnIndex
           /\ Own[i].nth \in Nat
  <2>1. \A j \in OwnIndex : messages[j].nth \in Nat
    BY Lengths DEF LoopInv, OwnIndex
  <2>2. QED
    BY <2>1, OwnPlaces, Lengths DEF LoopInv
<1>2. ASSUME NEW i \in DOMAIN Own, Own[i].kind = "call"
      PROVE  \/ at = "search" /\ i = Len(Own)
             \/ /\ i + Own[i].nth <= Len(Own)
                /\ \A n \in 1..Own[i].nth :
                     IsTool(Own[i + n]) /\ Own[i + n].round = Own[i].round /\ Own[i + n].nth = n
  <2> DEFINE j == Len(history) + i
  <2>1. Open(j) \/ Answered(j)
    BY <1>1, <1>2 DEF LoopInv, CallsAnswered
  <2>2. CASE Open(j)
    BY <1>1, <2>2 DEF Open
  <2>3. CASE Answered(j)
    <3>1. i + Own[i].nth <= Len(Own)
      BY <1>1, <2>3 DEF Answered
    <3>2. \A n \in 1..Own[i].nth : i + n \in 1..Len(Own) /\ Own[i + n] = messages[j + n]
      <4> SUFFICES ASSUME NEW n \in 1..Own[i].nth
                   PROVE  i + n \in 1..Len(Own) /\ Own[i + n] = messages[j + n]
        OBVIOUS
      <4>1. i + n \in 1..Len(Own) /\ j + n = Len(history) + (i + n)
        BY <1>1, <3>1
      <4>2. QED
        BY <1>1, <4>1
    <3>3. QED
      BY <1>1, <2>3, <3>1, <3>2 DEF Answered, IsTool
  <2>4. QED
    BY <2>1, <2>2, <2>3
<1>3. ASSUME NEW i \in DOMAIN Own, IsTool(Own[i])
      PROVE  i > Own[i].nth /\ Own[i - Own[i].nth].kind = "call"
  <2> DEFINE j == Len(history) + i
  <2>1. /\ j - messages[j].nth > Len(history)
        /\ messages[j - messages[j].nth].kind = "call"
    BY <1>1, <1>3 DEF LoopInv, ResultsCalled, IsTool
  <2>2. i > Own[i].nth /\ i - Own[i].nth \in 1..Len(Own)
        /\ j - messages[j].nth = Len(history) + (i - Own[i].nth)
    <3>1. i \in 1..Len(Own) /\ Own[i] = messages[j]
      BY <1>1, <1>3
    <3>2. Own[i].nth \in Nat
      BY <1>1, <3>1, Lengths DEF LoopInv
    <3>3. j - Own[i].nth > Len(history)
      BY <2>1, <3>1
    <3>4. QED
      BY <1>1, <3>1, <3>2, <3>3
  <2>3. QED
    BY <1>1, <2>1, <2>2
<1>4. QED
  BY <1>2, <1>3 DEF ResultsFollowTheirCall

\* The same for the number of effects and the length of results.
LEMMA ResultsFitOwn == LoopInv => EffectsAreBounded /\ ResultsAreCapped
<1> SUFFICES ASSUME LoopInv
             PROVE  EffectsAreBounded /\ ResultsAreCapped
  OBVIOUS
<1>1. \A i \in DOMAIN Own : IsTool(Own[i]) =>
        /\ <<Own[i].round, Own[i].nth>> \in DOMAIN effects
        /\ Capped(Own[i].size)
  BY OwnPlaces DEF LoopInv, ResultsFit, IsTool
<1>2. QED
  BY <1>1 DEF LoopInv, EffectsOfRounds, EffectsAreBounded, ResultsAreCapped, Capped

\* The invariant holds of every reachable state.
LEMMA AlwaysInv == Spec => []LoopInv
  BY InitInv, NextInv, PTL DEF Spec

\* Every node the edges lead to is one of the graph, and the channels keep their
\* types, wherever a pass stops and is resumed.
THEOREM LoopTypes == Spec => []TypeOK
<1>1. LoopInv => TypeOK
  BY DEF LoopInv
<1>2. QED
  BY <1>1, AlwaysInv, PTL

\* For any number of concurrent calls and rounds, what is saved has the results of
\* each plan after its call, complete and in the order of the calls.
THEOREM ResultsStayWithCalls == Spec => []ResultsFollowTheirCall
  BY PairsFollow, AlwaysInv, PTL

\* A call is executed at most once per invocation, and no result is saved of a call
\* that was not executed.
THEOREM EffectsBounded == Spec => []EffectsAreBounded
<1>1. LoopInv => EffectsAreBounded
  BY ResultsFitOwn
<1>2. QED
  BY <1>1, AlwaysInv, PTL

\* Whatever tools return, no saved result is longer than the limit allows.
THEOREM ResultsCapped == Spec => []ResultsAreCapped
<1>1. LoopInv => ResultsAreCapped
  BY ResultsFitOwn
<1>2. QED
  BY <1>1, AlwaysInv, PTL

\* A pass that ends has a reply, but for the verdict that asks for nothing more.
THEOREM PassReplies == Spec => []PassEndsInReply
<1>1. LoopInv => PassEndsInReply
  BY DEF LoopInv
<1>2. QED
  BY <1>1, AlwaysInv, PTL

(***************************************************************************)
(* The context.  It holds the results up to a place k of the conversation: *)
(* its end, or, while the results of a round are still to be collected,    *)
(* the call before them.                                                   *)
(***************************************************************************)
Gathers(k) ==
  /\ Len(context) = Cardinality(ResultsUpTo(k))
  /\ \A i \in ResultsUpTo(k) : context[Cardinality(ResultsUpTo(i))] = messages[i]

\* The conversation ends with results, and before them stands a call.
ResultsAfter(k) ==
  /\ k \in OwnIndex /\ ~IsTool(messages[k])
  /\ \A i \in (k + 1)..Len(messages) : IsTool(messages[i])

ContextInv ==
  /\ at # "collect_context" => Gathers(Len(messages))
  /\ at = "collect_context" => \E k \in OwnIndex : ResultsAfter(k) /\ Gathers(k)

\* The results up to a place can be counted.
LEMMA ResultsFinite ==
  ASSUME TypeOK, NEW k \in Nat
  PROVE  /\ IsFiniteSet(ResultsUpTo(k)) /\ Cardinality(ResultsUpTo(k)) \in Nat
         /\ \A i \in ResultsUpTo(k) : i \in Nat /\ Cardinality(ResultsUpTo(i)) \in 1..Cardinality(ResultsUpTo(k))
<1>1. Len(history) \in Nat
  BY Lengths
<1>2. ASSUME NEW i \in Nat
      PROVE  IsFiniteSet(ResultsUpTo(i)) /\ Cardinality(ResultsUpTo(i)) \in Nat
  <2>1. IsFiniteSet((Len(history) + 1)..i)
    BY <1>1, FS_Interval
  <2>2. ResultsUpTo(i) \in SUBSET ((Len(history) + 1)..i)
    BY DEF ResultsUpTo
  <2>3. IsFiniteSet(ResultsUpTo(i))
    BY <2>1, <2>2, FS_Subset
  <2>4. QED
    BY <2>3, FS_CardinalityType
<1>3. ASSUME NEW i \in ResultsUpTo(k)
      PROVE  i \in Nat /\ Cardinality(ResultsUpTo(i)) \in 1..Cardinality(ResultsUpTo(k))
  <2>1. i \in Nat /\ i \in ResultsUpTo(i) /\ ResultsUpTo(i) \in SUBSET ResultsUpTo(k)
    BY <1>1 DEF ResultsUpTo
  <2>2. Cardinality(ResultsUpTo(i)) # 0
    BY <1>2, <2>1, FS_EmptySet
  <2>3. Cardinality(ResultsUpTo(i)) <= Cardinality(ResultsUpTo(k))
    BY <1>2, <2>1, FS_Subset
  <2>4. QED
    BY <1>2, <2>1, <2>2, <2>3
<1>4. QED
  BY <1>2, <1>3

\* What was collected stays so when messages are only added.
LEMMA GathersStays ==
  ASSUME LoopInv, NEW k \in 0..Len(messages), Gathers(k),
         UNCHANGED <<history, context>>,
         \A i \in 1..Len(messages) : messages'[i] = messages[i]
  PROVE  Gathers(k)'
<1>1. Len(history) \in Nat /\ Len(messages) \in Nat
  BY Lengths DEF LoopInv
<1>2. ASSUME NEW i \in 0..Len(messages) PROVE ResultsUpTo(i)' = ResultsUpTo(i)
  <2>1. (Len(history) + 1)..i \subseteq 1..Len(messages)
    BY <1>1
  <2>2. QED
    BY <2>1 DEF ResultsUpTo, IsTool
<1>3. ResultsUpTo(k) \subseteq 1..Len(messages) /\ ResultsUpTo(k)' = ResultsUpTo(k)
  BY <1>1, <1>2 DEF ResultsUpTo
<1>4. \A i \in ResultsUpTo(k) : ResultsUpTo(i)' = ResultsUpTo(i) /\ messages'[i] = messages[i]
  BY <1>2, <1>3
<1>5. QED
  BY <1>3, <1>4 DEF Gathers

\* A message that is no result does not count.
LEMMA GathersOver ==
  ASSUME LoopInv, Gathers(Len(messages)), UNCHANGED <<history, context>>,
         Len(messages') = Len(messages) + 1,
         \A i \in 1..Len(messages) : messages'[i] = messages[i],
         ~IsTool(messages'[Len(messages')])
  PROVE  Gathers(Len(messages))'
<1>1. Len(history) \in Nat /\ Len(messages) \in Nat
  BY Lengths DEF LoopInv
<1>2. PICK k \in 0..Len(messages) : k = Len(messages)
  BY <1>1
<1>3. Gathers(k)'
  BY <1>2, GathersStays
<1>4. \A i : i \in ((Len(history') + 1)..(k + 1)) <=> i \in ((Len(history') + 1)..k) \/ (i = k + 1 /\ k + 1 > Len(history'))
  BY <1>1, <1>2
<1>5. \A i \in (Len(history') + 1)..k : i # k + 1
  BY <1>1, <1>2
<1>6. ResultsUpTo(k + 1)' = ResultsUpTo(k)'
  BY <1>2, <1>4, <1>5 DEF ResultsUpTo
<1>7. Gathers(k + 1)'
  BY <1>3, <1>6 DEF Gathers
<1>8. QED
  BY <1>2, <1>7

\* A step that adds no message and collects nothing.
LEMMA QuietContext ==
  ASSUME ContextInv, UNCHANGED <<history, context, messages>>,
         at' = at \/ (at # "collect_context" /\ at' # "collect_context")
  PROVE  ContextInv'
<1>1. \A k : ResultsUpTo(k)' = ResultsUpTo(k)
  BY DEF ResultsUpTo
<1>2. \A k : Gathers(k)' = Gathers(k) /\ ResultsAfter(k)' = ResultsAfter(k)
  BY <1>1 DEF Gathers, ResultsAfter, OwnIndex
<1>3. OwnIndex' = OwnIndex
  BY DEF OwnIndex
<1>4. Gathers(Len(messages))' = Gathers(Len(messages))
  BY <1>1 DEF Gathers
<1>5. QED
  BY <1>2, <1>3, <1>4 DEF ContextInv

\* The first element of a set of numbers that bounds it is its maximum.
LEMMA MaxIs ==
  ASSUME NEW S \in SUBSET Int, NEW m \in S, \A z \in S : m >= z
  PROVE  Max(S) = m
<1>1. Max(S) \in S /\ \A z \in S : Max(S) >= z
  BY DEF Max
<1>2. Max(S) \in Int /\ m \in Int /\ m >= Max(S) /\ Max(S) >= m
  BY <1>1
<1>3. QED
  BY <1>2

\* The trailing results are those after the call.
LEMMA TrailingIs ==
  ASSUME LoopInv, NEW k \in OwnIndex, ResultsAfter(k)
  PROVE  TrailingResults(messages) = SubSeq(messages, k + 1, Len(messages))
<1> DEFINE tools == {n \in 0..Len(messages) :
                       \A i \in 0..(n - 1) : IsTool(messages[Len(messages) - i])}
           rest == Len(messages) - k
<1>1. /\ Len(history) \in Nat /\ Len(messages) \in Nat /\ k \in 1..Len(messages)
      /\ rest \in 0..Len(messages)
  BY Lengths DEF LoopInv, OwnIndex
<1>2. rest \in tools
  <2> SUFFICES ASSUME NEW i \in 0..(rest - 1)
               PROVE  IsTool(messages[Len(messages) - i])
    BY <1>1
  <2>1. Len(messages) - i \in (k + 1)..Len(messages)
    BY <1>1
  <2>2. QED
    BY <2>1 DEF ResultsAfter
<1>3. \A n \in tools : rest >= n
  <2> SUFFICES ASSUME NEW n \in tools, ~(rest >= n)
               PROVE  FALSE
    OBVIOUS
  <2>1. rest \in 0..(n - 1) /\ Len(messages) - rest = k
    BY <1>1
  <2>2. IsTool(messages[k])
    BY <2>1
  <2>3. QED
    BY <2>2 DEF ResultsAfter
<1>4. Max(tools) = rest
  <2>1. tools \in SUBSET Int
    BY <1>1
  <2> HIDE DEF tools, rest
  <2>2. QED
    BY <1>2, <1>3, <2>1, MaxIs
<1>5. Len(messages) - rest + 1 = k + 1
  BY <1>1
<1> HIDE DEF rest
<1>6. QED
  BY <1>4, <1>5 DEF TrailingResults

\* Every message after the call counts for one.
LEMMA RoundCount ==
  ASSUME LoopInv, NEW k \in OwnIndex, ResultsAfter(k), NEW i \in k..Len(messages)
  PROVE  /\ Cardinality(ResultsUpTo(i)) = Cardinality(ResultsUpTo(k)) + (i - k)
         /\ ResultsUpTo(i) = ResultsUpTo(k) \cup ((k + 1)..i)
<1>1. /\ Len(history) \in Nat /\ Len(messages) \in Nat /\ k \in Nat /\ i \in Nat
      /\ k > Len(history) /\ TypeOK
  BY Lengths DEF LoopInv, OwnIndex
<1>2. ResultsUpTo(i) = ResultsUpTo(k) \cup ((k + 1)..i)
  <2>1. \A j : j \in (Len(history) + 1)..i <=> j \in (Len(history) + 1)..k \/ j \in (k + 1)..i
    BY <1>1
  <2>2. \A j \in (k + 1)..i : IsTool(messages[j])
    BY <1>1 DEF ResultsAfter
  <2>3. QED
    BY <2>1, <2>2 DEF ResultsUpTo
<1>3. ResultsUpTo(k) \cap ((k + 1)..i) = {}
  BY <1>1 DEF ResultsUpTo
<1>4. IsFiniteSet((k + 1)..i) /\ Cardinality((k + 1)..i) = i - k
  <2>1. /\ IsFiniteSet((k + 1)..i)
        /\ Cardinality((k + 1)..i) = IF k + 1 > i THEN 0 ELSE i - (k + 1) + 1
    BY <1>1, FS_Interval
  <2>2. QED
    BY <1>1, <2>1
<1>5. IsFiniteSet(ResultsUpTo(k)) /\ Cardinality(ResultsUpTo(k)) \in Nat
  BY <1>1, ResultsFinite
<1>6. Cardinality(ResultsUpTo(k) \cup ((k + 1)..i))
        = Cardinality(ResultsUpTo(k)) + Cardinality((k + 1)..i)
            - Cardinality(ResultsUpTo(k) \cap ((k + 1)..i))
  BY <1>4, <1>5, FS_Union
<1>7. Cardinality(ResultsUpTo(k) \cap ((k + 1)..i)) = 0
  BY <1>3, FS_EmptySet
<1>8. QED
  BY <1>1, <1>2, <1>4, <1>5, <1>6, <1>7

\* The reply of a model is no result.
LEMMA PlanContext ==
  ASSUME LoopInv, ContextInv, PlanSearch \/ Synthesize
  PROVE  ContextInv'
<1>1. /\ at # "collect_context" /\ at' # "collect_context"
      /\ UNCHANGED <<history, context>>
      /\ messages \in Seq(Message)
  BY Lengths DEF PlanSearch, Synthesize, Runs, historyVars, GoTo, RouteAfterPlan, LoopInv
<1>2. \E message \in Message : ~IsTool(message) /\ messages' = Append(messages, message)
  <2>1. CASE PlanSearch
    <3>1. PICK calls \in 0..MaxCalls, size \in Sizes :
            messages' = Append(messages, IF calls = 0 THEN Text("ai", size)
                          ELSE [kind |-> "call", round |-> Round, nth |-> calls, size |-> size])
      BY <2>1 DEF PlanSearch
    <3>2. Round \in Nat
      BY Lengths DEF LoopInv, Round
    <3>3. QED
      BY <3>1, <3>2, SizesAssumption DEF Text, Message, MessageKinds, IsTool
  <2>2. CASE Synthesize
    BY <2>2, SizesAssumption DEF Synthesize, Text, Message, MessageKinds, IsTool
  <2>3. QED
    BY <2>1, <2>2
<1>3. /\ Len(messages') = Len(messages) + 1
      /\ \A i \in 1..Len(messages) : messages'[i] = messages[i]
      /\ ~IsTool(messages'[Len(messages')])
  BY <1>1, <1>2, AppendProperties
<1>4. QED
  BY <1>1, <1>3, GathersOver DEF ContextInv

\* The results of a round are there to be collected, and its call stands before them.
LEMMA SearchContext ==
  ASSUME LoopInv, ContextInv, Search
  PROVE  ContextInv'
<1> DEFINE last == messages[Len(messages)]
<1>1. /\ at = "search" /\ at' = "collect_context" /\ UNCHANGED <<history, context>>
      /\ Len(history) \in Nat /\ Len(messages) \in Nat
      /\ Len(messages) > Len(history) /\ last.kind = "call" /\ last.nth \in Nat
  <2>1. TypeOK /\ PlanIsLast /\ at = "search" /\ at' = "collect_context" /\ UNCHANGED <<history, context>>
    BY DEF LoopInv, Search, Runs, GoTo, historyVars
  <2>2. Len(history) \in Nat /\ Len(messages) \in Nat
    BY <2>1, Lengths
  <2>3. QED
    BY <2>1, <2>2, SizesAssumption DEF PlanIsLast
<1>2. /\ Len(messages') = Len(messages) + last.nth
      /\ \A i \in 1..Len(messages) : messages'[i] = messages[i]
      /\ \A n \in 1..last.nth : IsTool(messages'[Len(messages) + n])
  BY SearchAdds DEF IsTool
<1>3. PICK k \in 1..Len(messages) : k = Len(messages)
  BY <1>1
<1>4. Gathers(k)'
  BY <1>1, <1>2, <1>3, GathersStays DEF ContextInv
<1>5. ResultsAfter(k)'
  <2>1. k \in OwnIndex' /\ ~IsTool(messages'[k])
    BY <1>1, <1>2, <1>3 DEF OwnIndex, IsTool
  <2>2. ASSUME NEW i \in (k + 1)..Len(messages') PROVE IsTool(messages'[i])
    <3>1. i - k \in 1..last.nth /\ i = Len(messages) + (i - k)
      BY <1>1, <1>2, <1>3
    <3>2. QED
      BY <1>2, <3>1
  <2>3. QED
    BY <2>1, <2>2 DEF ResultsAfter
<1>6. k \in OwnIndex'
  BY <1>5 DEF ResultsAfter
<1>7. QED
  BY <1>1, <1>4, <1>5, <1>6 DEF ContextInv

\* The context gains the results of the round, each once, behind those of earlier rounds.
LEMMA CollectContextGathers ==
  ASSUME LoopInv, ContextInv, CollectContext
  PROVE  ContextInv'
<1>1. /\ TypeOK /\ at = "collect_context" /\ at' = "validate_context"
      /\ UNCHANGED <<history, messages>>
      /\ context' = context \o TrailingResults(messages)
      /\ messages \in Seq(Message) /\ Len(messages) \in Nat /\ Len(history) \in Nat
      /\ context \in Seq(Message)
  <2>1. TypeOK
    BY DEF LoopInv
  <2>2. QED
    BY <2>1, Lengths DEF CollectContext, Runs, GoTo, historyVars, TypeOK
<1>2. PICK k \in OwnIndex : ResultsAfter(k) /\ Gathers(k)
  BY <1>1 DEF ContextInv
<1> DEFINE round == SubSeq(messages, k + 1, Len(messages))
           count == Cardinality(ResultsUpTo(k))
<1>3. k \in 1..Len(messages) /\ k \in Nat /\ count \in Nat /\ Len(context) = count
  <2>1. k \in 1..Len(messages) /\ k \in Nat
    BY <1>1 DEF OwnIndex
  <2>2. QED
    BY <1>1, <1>2, <2>1, ResultsFinite DEF Gathers
<1>4. /\ round \in Seq(Message) /\ Len(round) = Len(messages) - k
      /\ \A i \in 1..(Len(messages) - k) : round[i] = messages[k + i]
  <2>1. \A i \in (k + 1)..Len(messages) : messages[i] \in Message
    BY <1>1, <1>3, ElementOfSeq
  <2>2. /\ round \in Seq(Message)
        /\ Len(round) = IF k + 1 <= Len(messages) THEN Len(messages) - (k + 1) + 1 ELSE 0
        /\ \A i \in 1..(Len(messages) - (k + 1) + 1) : round[i] = messages[(k + 1) + i - 1]
    BY <1>1, <1>3, <2>1, SubSeqProperties
  <2> HIDE DEF round
  <2>3. \A i \in 1..(Len(messages) - k) : (k + 1) + i - 1 = k + i
    BY <1>1, <1>3
  <2>4. QED
    BY <1>1, <1>3, <2>2, <2>3
<1>5. context' = context \o round
  BY <1>1, <1>2, TrailingIs
<1> HIDE DEF round
<1>6. /\ Len(context') = count + (Len(messages) - k)
      /\ \A i \in 1..count : context'[i] = context[i]
      /\ \A i \in 1..(Len(messages) - k) : context'[count + i] = messages[k + i]
  <2>1. /\ Len(context') = Len(context) + Len(round)
        /\ \A i \in 1..(Len(context) + Len(round)) :
             context'[i] = IF i <= Len(context) THEN context[i] ELSE round[i - Len(context)]
    BY <1>1, <1>4, <1>5, ConcatProperties
  <2> HIDE DEF count
  <2>2. \A i \in 1..count : context'[i] = context[i]
    BY <1>1, <1>3, <1>4, <2>1
  <2>3. ASSUME NEW i \in 1..(Len(messages) - k) PROVE context'[count + i] = messages[k + i]
    <3>1. /\ count + i \in 1..(Len(context) + Len(round))
          /\ ~(count + i <= Len(context)) /\ (count + i) - Len(context) = i
      BY <1>1, <1>3, <1>4
    <3>2. QED
      BY <1>4, <2>1, <3>1
  <2>4. QED
    BY <1>3, <1>4, <2>1, <2>2, <2>3
<1>7. ASSUME NEW i \in ResultsUpTo(Len(messages))
      PROVE  context'[Cardinality(ResultsUpTo(i))] = messages[i]
  <2>1. Len(messages) \in k..Len(messages)
    BY <1>1, <1>3
  <2>2. i \in ResultsUpTo(k) \/ i \in (k + 1)..Len(messages)
    BY <1>2, <2>1, RoundCount
  <2>3. CASE i \in ResultsUpTo(k)
    BY <1>1, <1>2, <1>3, <1>6, <2>3, ResultsFinite DEF Gathers
  <2>4. CASE i \in (k + 1)..Len(messages)
    <3>1. i \in k..Len(messages) /\ i - k \in 1..(Len(messages) - k) /\ k + (i - k) = i
      BY <1>1, <1>3, <2>4
    <3>2. Cardinality(ResultsUpTo(i)) = count + (i - k)
      BY <1>2, <3>1, RoundCount
    <3>3. QED
      BY <1>6, <3>1, <3>2
  <2>5. QED
    BY <2>2, <2>3, <2>4
<1>8. Cardinality(ResultsUpTo(Len(messages))) = count + (Len(messages) - k)
  BY <1>1, <1>2, <1>3, RoundCount
<1>9. \A i : ResultsUpTo(i)' = ResultsUpTo(i)
  BY <1>1 DEF ResultsUpTo
<1>10. Gathers(Len(messages))'
  BY <1>1, <1>6, <1>7, <1>8, <1>9 DEF Gathers
<1>11. QED
  BY <1>1, <1>10 DEF ContextInv

\* Nothing is collected before the first step, and every step keeps it so.
LEMMA InitContext == Init => ContextInv
<1> SUFFICES ASSUME Init PROVE ContextInv
  OBVIOUS
<1>1. Len(history) \in Nat
  BY HistoriesAssumption, LenProperties DEF Init
<1>2. ResultsUpTo(Len(messages)) = {}
  BY <1>1 DEF Init, ResultsUpTo
<1>3. Len(context) = 0
  BY EmptySeq DEF Init
<1>4. QED
  BY <1>2, <1>3, FS_EmptySet DEF Init, ContextInv, Gathers

\* Every step keeps the invariant about what is collected.
LEMMA NextContext == LoopInv /\ ContextInv /\ [Next]_vars => ContextInv'
<1> SUFFICES ASSUME LoopInv, ContextInv, [Next]_vars PROVE ContextInv'
  OBVIOUS
<1>1. CASE PlanSearch \/ Synthesize
  BY <1>1, PlanContext
<1>2. CASE Search
  BY <1>2, SearchContext
<1>3. CASE CollectContext
  BY <1>3, CollectContextGathers
<1>4. CASE PlanRetry \/ RunTools \/ Stop \/ Resume \/ UNCHANGED vars
  BY <1>4, QuietContext DEF PlanRetry, RunTools, RunTool, Stop, Resume, vars, stateVars, historyVars
<1>5. CASE ValidateContext
  <2>1. /\ at # "collect_context" /\ at' # "collect_context"
        /\ UNCHANGED <<history, context, messages>>
    BY <1>5 DEF ValidateContext, Runs, GoTo, historyVars, RouteResearcher
  <2>2. QED
    BY <2>1, QuietContext
<1>6. QED
  BY <1>1, <1>2, <1>3, <1>4, <1>5 DEF Next, Step

\* However many rounds a pass takes, and wherever it is stopped and resumed, what
\* its models judge are the results of its own calls, each once and in their order.
THEOREM ContextOfThePass == Spec => []ContextIsOfThePass
<1>1. Spec => []ContextInv
  BY InitContext, NextContext, AlwaysInv, PTL DEF Spec
<1>2. ContextInv => ContextIsOfThePass
  BY DEF ContextInv, Gathers, ContextIsOfThePass
<1>3. QED
  BY <1>1, <1>2, PTL

=============================================================================
