------------------------ MODULE SupervisorThreadProofs ------------------------
(***************************************************************************)
(* Theorems about SupervisorThread, for every set of requests, every       *)
(* answer of the models and every setting of the memory policy.            *)
(***************************************************************************)
EXTENDS SupervisorThread, SequenceTheorems, FiniteSetTheorems, TLAPS

(***************************************************************************)
(* What the routing rules return.                                          *)
(***************************************************************************)

\* The delegator only ever writes one of the four agents.
LEMMA DelegationType ==
  ASSUME NEW name, NEW asks, NEW incl
  PROVE  Delegation(name, asks, incl) \in Agents
BY DEF Delegation, LegacyNextAgent, Allowed, Agents

\* After delegation a run never enters the workspace directly.
LEMMA DelegateRoutes ==
  ASSUME NEW error, NEW agent \in Agents
  PROVE  /\ RouteToHumanReview(error, agent) \in Nodes
         /\ RouteToHumanReview(error, agent) # "workspace"
BY DEF RouteToHumanReview, NormalizeAgent, LegacyNextAgent, Agents, Nodes,
       SupervisorNodes, NoAgent

\* The review opens a way only for the answer "approved".
LEMMA ReviewRoutes ==
  ASSUME NEW answer, NEW agent \in Agents \cup {NoAgent}
  PROVE  /\ RouteAfterHumanReview(answer, agent) \in Nodes
         /\ answer # "approved" => RouteAfterHumanReview(answer, agent) = "end"
BY DEF RouteAfterHumanReview, NormalizeAgent, LegacyNextAgent, Agents, Nodes,
       SupervisorNodes, NoAgent

\* After a reply comes the memory manager or the end.
LEMMA PostReplyRoutes ==
  ASSUME NEW v
  PROVE  RoutePostReply(v) \in {"memory_manager", "end"}
BY DEF RoutePostReply


(***************************************************************************)
(* The values of the state stay what they are.                             *)
(***************************************************************************)

\* The greater of two numbers is one of them.
LEMMA MaxOfTwo ==
  ASSUME NEW a \in Int, NEW b \in Int
  PROVE  /\ Max({a, b}) \in {a, b}
         /\ Max({a, b}) >= a
         /\ Max({a, b}) >= b
<1>1. \E x \in {a, b} : \A y \in {a, b} : x >= y
  <2>1. CASE a >= b
    BY <2>1
  <2>2. CASE ~(a >= b)
    BY <2>2
  <2>3. QED
    BY <2>1, <2>2
<1>2. QED
  BY <1>1 DEF Max

\* The cut never goes past the end of the history.
LEMMA CutWithinHistory ==
  ASSUME NEW total \in Nat, NEW keep \in Int
  PROVE  SummaryCutIndex(total, keep) \in 0..total
<1>1. CASE keep < 1
  BY <1>1 DEF SummaryCutIndex
<1>2. CASE ~(keep < 1)
  <2>1. /\ Max({0, total - keep}) \in {0, total - keep}
        /\ Max({0, total - keep}) >= 0
    BY MaxOfTwo
  <2>2. QED
    BY <1>2, <2>1 DEF SummaryCutIndex
<1>3. QED
  BY <1>1, <1>2

\* Ids are numbers, and so is the last one.
LEMMA LastIdType ==
  ASSUME NEW messages \in Seq(Message)
  PROVE  LastId(messages) \in Nat
<1>1. CASE messages = <<>>
  BY <1>1 DEF LastId
<1>2. CASE messages # <<>>
  <2>1. Len(messages) \in 1..Len(messages)
    BY <1>2, EmptySeq
  <2>2. messages[Len(messages)] \in Message
    BY <2>1, ElementOfSeq
  <2>3. QED
    BY <1>2, <2>2 DEF LastId, Message
<1>3. QED
  BY <1>1, <1>2

\* Messages with new ones are messages.
LEMMA ExtendedType ==
  ASSUME NEW messages \in Seq(Message), NEW kinds \in Seq(MessageKinds),
         NEW turn \in Requests
  PROVE  Extended(messages, kinds, turn) \in Seq(Message)
<1> DEFINE last == LastId(messages)
           n == Len(kinds)
           msg(i) == [id |-> last + i, kind |-> kinds[i], turn |-> turn, of |-> {}]
           new == [i \in 1..n |-> msg(i)]
<1>1. last \in Nat /\ n \in Nat
  BY LastIdType
<1>2. \A i \in 1..n : kinds[i] \in MessageKinds
  BY ElementOfSeq
<1> HIDE DEF last, n
<1>3. \A i \in 1..n : msg(i) \in Message
  BY <1>1, <1>2 DEF Message
<1>4. new \in Seq(Message)
  BY <1>1, <1>3, SeqDef
<1> HIDE DEF new
<1>5. messages \o new \in Seq(Message)
  BY <1>4, ConcatProperties
<1>6. QED
  BY <1>5 DEF Extended, new, last, n

\* A node that speaks changes nothing but the messages.
LEMMA SaysType ==
  ASSUME NEW v \in Values, NEW kinds \in Seq(MessageKinds)
  PROVE  /\ Says(v, kinds) \in Values
         /\ Says(v, kinds).turn = v.turn
         /\ Says(v, kinds).human_feedback = v.human_feedback
         /\ Says(v, kinds).next_agent = v.next_agent
<1>1. v.messages \in Seq(Message) /\ v.turn \in Requests
  BY DEF Values
<1>2. Extended(v.messages, kinds, v.turn) \in Seq(Message)
  BY <1>1, ExtendedType
<1>3. QED
  BY <1>2 DEF Says, Values

\* The fields a new message resets have their types.
LEMMA InitialStateType ==
  ASSUME NEW messages \in Seq(Message), NEW r \in Requests
  PROVE  InitialState(messages, r) \in Values
<1>1. <<"human">> \in Seq(MessageKinds)
  BY DEF MessageKinds
<1>2. Extended(messages, <<"human">>, r) \in Seq(Message)
  BY <1>1, ExtendedType
<1>3. QED
  BY <1>2 DEF InitialState, Values

\* What an agent answers is kinds of messages.
LEMMA OutputsType ==
  ASSUME NEW kinds \in AgentOutputs
  PROVE  kinds \in Seq(MessageKinds)
<1> DEFINE some(k, n) == [i \in 1..n |-> k]
           round(n) == <<"call">> \o some("tool", n)
<1>1. \A k \in MessageKinds, n \in Nat : some(k, n) \in Seq(MessageKinds)
  BY SeqDef
<1>2. /\ "ai" \in MessageKinds /\ "tool" \in MessageKinds
      /\ <<"call">> \in Seq(MessageKinds)
  BY DEF MessageKinds
<1> HIDE DEF some
<1>3. \A n \in Nat : round(n) \in Seq(MessageKinds)
  BY <1>1, <1>2, ConcatProperties
<1> HIDE DEF round
<1>4. ASSUME NEW n \in Nat, NEW m \in 0..2
      PROVE  round(n) \o some("ai", m) \in Seq(MessageKinds)
  <2>1. round(n) \in Seq(MessageKinds)
    BY <1>3
  <2>2. some("ai", m) \in Seq(MessageKinds)
    <3>1. m \in Nat
      OBVIOUS
    <3>2. QED
      BY <1>1, <1>2, <3>1
  <2>3. QED
    BY <2>1, <2>2, ConcatProperties
<1>5. some("ai", 2) \in Seq(MessageKinds)
  BY <1>1, <1>2
<1>6. AgentOutputs = {some("ai", 2)} \cup
                     {round(n) \o some("ai", m) : n \in ToolResults, m \in 0..2}
  BY DEF AgentOutputs, round, some
<1>7. CASE kinds = some("ai", 2)
  BY <1>5, <1>7
<1>8. CASE kinds # some("ai", 2)
  <2>1. PICK n \in ToolResults, m \in 0..2 : kinds = round(n) \o some("ai", m)
    BY <1>6, <1>8
  <2>2. n \in Nat
    BY SettingsAssumption
  <2>3. QED
    BY <1>4, <2>1, <2>2
<1>9. QED
  BY <1>7, <1>8

\* The review writes the answer, and leaves the turn and the route.
LEMMA AfterReviewType ==
  ASSUME NEW v \in Values, NEW answer \in Actions
  PROVE  /\ AfterReview(v, answer) \in Values
         /\ AfterReview(v, answer).turn = v.turn
         /\ AfterReview(v, answer).human_feedback = answer
         /\ AfterReview(v, answer).next_agent = v.next_agent
<1> DEFINE told == [v EXCEPT !.human_feedback = answer]
<1>1. told \in Values /\ told.turn = v.turn /\ told.human_feedback = answer
      /\ told.next_agent = v.next_agent
  BY DEF Values
<1>2. <<"ai">> \in Seq(MessageKinds)
  BY DEF MessageKinds
<1> HIDE DEF told
<1>3. LET w == Says(told, <<"ai">>)
      IN  w \in Values /\ w.turn = v.turn /\ w.human_feedback = answer
          /\ w.next_agent = v.next_agent
  BY <1>1, <1>2, SaysType
<1>4. QED
  BY <1>1, <1>3 DEF AfterReview, told

\* A compacted history is one of messages.
LEMMA CompactedType ==
  ASSUME NEW messages \in Seq(Message), NEW turn \in Requests, NEW room \in Nat
  PROVE  Compacted(messages, turn, room) \in Seq(Message)
<1> DEFINE n == Len(messages)
           cut == SummaryCutIndex(n, Keep)
           payload == Payload(cut, room)
           summary == Summary(messages, payload, turn)
<1>1. n \in Nat
  OBVIOUS
<1>2. cut \in 0..n
  BY <1>1, CutWithinHistory, SettingsAssumption
<1> HIDE DEF cut
<1>3. summary \in Message
  <2>1. ASSUME NEW i \in payload PROVE messages[i].id \in Nat /\ messages[i].of \subseteq Nat
    <3>1. i \in 1..n
      BY <1>1, <1>2 DEF Payload
    <3>2. messages[i] \in Message
      BY <3>1, ElementOfSeq
    <3>3. QED
      BY <3>2 DEF Message
  <2> HIDE DEF payload
  <2>2. {messages[i].id : i \in payload} \cup UNION {messages[i].of : i \in payload}
          \subseteq Nat
    BY <2>1
  <2>3. LastId(messages) + 1 \in Nat
    BY LastIdType
  <2>4. QED
    BY <2>2, <2>3 DEF Summary, Message, MessageKinds
<1>4. SubSeq(messages, cut + 1, n) \in Seq(Message)
  <2>1. \A i \in (cut + 1)..n : messages[i] \in Message
    BY <1>2, ElementOfSeq
  <2>2. QED
    BY <1>2, <2>1, SubSeqProperties
<1> HIDE DEF n, summary
<1>5. Append(SubSeq(messages, cut + 1, n), summary) \in Seq(Message)
  BY <1>3, <1>4, AppendProperties
<1>6. QED
  BY <1>5 DEF Compacted, cut, n, payload, summary

\* Merging two histories makes a history.
LEMMA AddMessagesType ==
  ASSUME NEW left \in Seq(Message), NEW right \in Seq(Message)
  PROVE  AddMessages(left, right) \in Seq(Message)
<1> DEFINE n == Len(right)
           known == {i \in 1..n : right[i].id <= LastId(left)}
           k == Cardinality(known)
<1>1. n \in Nat /\ DOMAIN right = 1..n
  OBVIOUS
<1>2. k \in Nat
  <2>1. IsFiniteSet(1..n)
    BY <1>1, FS_Interval
  <2>2. IsFiniteSet(known)
    BY <2>1, FS_Subset
  <2>3. QED
    BY <2>2, FS_CardinalityType
<1> HIDE DEF k
<1>3. SubSeq(right, k + 1, n) \in Seq(Message)
  <2>1. \A i \in (k + 1)..n : right[i] \in Message
    BY <1>1, <1>2, ElementOfSeq
  <2>2. QED
    BY <1>1, <1>2, <2>1, SubSeqProperties
<1>4. left \o SubSeq(right, k + 1, n) \in Seq(Message)
  BY <1>3, ConcatProperties
<1>5. QED
  BY <1>1, <1>4 DEF AddMessages, k

(***************************************************************************)
(* The inductive invariant.  TypeOK and the gate are not inductive alone:  *)
(* the gate also has to hold of what is saved under the checkpoints (a     *)
(* later resume starts from there), and a resume value has to be traced    *)
(* back to the request that sent it.                                       *)
(***************************************************************************)

Unstarted == {"idle", "loaded", "checked"}

\* A run works from a checkpoint of the thread.
BaseInv == \A r \in Requests : pc[r] = "running" => base[r] \in 1..Len(ckpts)

\* A resume value, and a decision, says what the resume request said.
ResumeInv ==
  /\ \A r \in Requests :
       pc[r] = "checked" => /\ kind[r] = "resume"
                            /\ action[r] \in Actions
                            /\ ckpts # <<>>
  /\ \A r \in Requests :
       resume[r] # NoAction => /\ pc[r] \notin Unstarted
                               /\ kind[r] = "resume"
                               /\ action[r] = resume[r]
  /\ \A d \in decided : /\ pc[d.by] \notin Unstarted
                        /\ kind[d.by] = "resume"
                        /\ action[d.by] = d.action

ApprovedIn(decisions, turn) ==
  \E d \in decisions : d.turn = turn /\ d.action = "approved"

Approved(turn) == ApprovedIn(decided, turn)

\* The workspace is reached, and saved as reached, only in an approved turn.
GateInv ==
  /\ \A r \in Requests :
       (pc[r] = "running" /\ at[r] = "workspace") => Approved(vals[r].turn)
  /\ \A c \in 1..Len(ckpts) :
       ckpts[c].sub.at = "workspace" => Approved(ckpts[c].sub.values.turn)
  /\ \A x \in ran : Approved(x.turn)

\* The nodes past every review and every tool.
Closing == {"end", "error_handler", "finished"}

\* No path leads from a rejection to the tools, nor from the tools to a review.
RejectInv ==
  /\ \A d \in decided : d.action = "rejected" => at[d.by] \in Closing
  /\ \A x \in ran : /\ pc[x.by] \notin Unstarted
                    /\ at[x.by] \in {"workspace", "memory_manager"} \cup Closing
  /\ ConsumedRejectionIsFinal

IInv == TypeOK /\ BaseInv /\ ResumeInv /\ GateInv /\ RejectInv

-----------------------------------------------------------------------------
(* The two ways a step writes checkpoints. *)

Saved == [at : Nodes, values : Values]

\* Saving the subgraph's progress touches one checkpoint, and there only sub.
LEMMA SaveProgress ==
  ASSUME NEW s \in Seq(Checkpoint), NEW b \in 1..Len(s), NEW w \in Saved
  PROVE  LET t == [s EXCEPT ![b].sub = w]
         IN  /\ t \in Seq(Checkpoint)
             /\ Len(t) = Len(s)
             /\ \A c \in 1..Len(s) : t[c].sub = IF c = b THEN w ELSE s[c].sub
<1> DEFINE e == [s[b] EXCEPT !.sub = w]
<1>1. s[b] \in Checkpoint
  BY ElementOfSeq
<1>2. e \in Checkpoint /\ e.sub = w
  BY <1>1 DEF Checkpoint, Saved
<1> HIDE DEF e
<1>3. /\ [s EXCEPT ![b] = e] \in Seq(Checkpoint)
      /\ Len([s EXCEPT ![b] = e]) = Len(s)
      /\ \A c \in 1..Len(s) : [s EXCEPT ![b] = e][c] = IF c = b THEN e ELSE s[c]
  BY <1>2, ExceptSeq
<1>4. [s EXCEPT ![b].sub = w] = [s EXCEPT ![b] = e]
  BY DEF e
<1>5. QED
  BY <1>2, <1>3, <1>4

\* Raising the interrupt marks one checkpoint and leaves its progress alone.
LEMMA MarkAsked ==
  ASSUME NEW s \in Seq(Checkpoint), NEW b \in 1..Len(s)
  PROVE  LET t == [s EXCEPT ![b].asked = TRUE]
         IN  /\ t \in Seq(Checkpoint)
             /\ Len(t) = Len(s)
             /\ \A c \in 1..Len(s) : t[c].sub = s[c].sub
<1> DEFINE e == [s[b] EXCEPT !.asked = TRUE]
<1>1. s[b] \in Checkpoint
  BY ElementOfSeq
<1>2. e \in Checkpoint /\ e.sub = s[b].sub
  BY <1>1 DEF Checkpoint
<1> HIDE DEF e
<1>3. /\ [s EXCEPT ![b] = e] \in Seq(Checkpoint)
      /\ Len([s EXCEPT ![b] = e]) = Len(s)
      /\ \A c \in 1..Len(s) : [s EXCEPT ![b] = e][c] = IF c = b THEN e ELSE s[c]
  BY <1>2, ExceptSeq
<1>4. [s EXCEPT ![b].asked = TRUE] = [s EXCEPT ![b] = e]
  BY DEF e
<1>5. QED
  BY <1>2, <1>3, <1>4

\* A new checkpoint leaves the older ones as they are.
LEMMA AddCheckpoint ==
  ASSUME NEW s \in Seq(Checkpoint), NEW next \in {"supervisor", "error_handler", "finished"},
         NEW node \in Nodes, NEW v \in Values
  PROVE  LET t == Append(s, [next |-> next, values |-> v,
                             sub |-> [at |-> node, values |-> v], asked |-> FALSE])
         IN  /\ t \in Seq(Checkpoint)
             /\ t # <<>>
             /\ Len(t) = Len(s) + 1
             /\ \A c \in 1..Len(s) : t[c].sub = s[c].sub
             /\ t[Len(s) + 1].sub.at = node
<1> DEFINE e == [next |-> next, values |-> v,
                 sub |-> [at |-> node, values |-> v], asked |-> FALSE]
<1>1. e \in Checkpoint /\ e.sub.at = node
  BY DEF Checkpoint
<1> HIDE DEF e
<1>2. /\ Append(s, e) \in Seq(Checkpoint)
      /\ Append(s, e) # <<>>
      /\ Len(Append(s, e)) = Len(s) + 1
      /\ \A c \in 1..Len(s) : Append(s, e)[c] = s[c]
      /\ Append(s, e)[Len(s) + 1] = e
  BY <1>1, AppendProperties
<1>3. QED
  BY <1>1, <1>2 DEF e

\* The latest checkpoint of a thread that has one.
LEMMA LatestType ==
  ASSUME ckpts \in Seq(Checkpoint), ckpts # <<>>
  PROVE  /\ Len(ckpts) \in 1..Len(ckpts)
         /\ Latest \in Checkpoint
         /\ Latest.values.messages \in Seq(Message)
<1>1. Len(ckpts) \in 1..Len(ckpts)
  BY EmptySeq
<1>2. Latest \in Checkpoint
  BY <1>1, ElementOfSeq DEF Latest
<1>3. QED
  BY <1>1, <1>2 DEF Checkpoint, Values

\* There is nothing saved and nothing run at first.
LEMMA InitInv == Init => IInv
<1> SUFFICES ASSUME Init PROVE IInv
  OBVIOUS
<1>1. ckpts \in Seq(Checkpoint) /\ Len(ckpts) = 0
  BY EmptySeq DEF Init
<1>2. \A r \in Requests : InitialState(<<>>, r) \in Values
  BY InitialStateType, EmptySeq
<1>3. TypeOK
  BY <1>1, <1>2, SettingsAssumption
     DEF Init, TypeOK, Kinds, Actions, Progress, Nodes
<1>4. BaseInv /\ ResumeInv /\ GateInv /\ RejectInv
  BY <1>1 DEF Init, BaseInv, ResumeInv, GateInv, RejectInv, ConsumedRejectionIsFinal
<1>5. QED
  BY <1>3, <1>4 DEF IInv

-----------------------------------------------------------------------------
(* Every step keeps the invariant: first what the nodes of the supervisor  *)
(* graph have in common, then one lemma per action or group of actions.    *)

\* Saving a node's result keeps the types and touches one saved progress.
LEMMA GoOnType ==
  ASSUME IInv, NEW r \in Requests, pc[r] = "running",
         NEW node \in Nodes, NEW v \in Values, GoOn(r, node, v)
  PROVE  /\ ckpts' \in Seq(Checkpoint)
         /\ Len(ckpts') = Len(ckpts)
         /\ at' \in [Requests -> Nodes]
         /\ vals' \in [Requests -> Values]
         /\ at'[r] = node /\ vals'[r] = v
         /\ \A q \in Requests \ {r} : at'[q] = at[q] /\ vals'[q] = vals[q]
         /\ \A c \in 1..Len(ckpts) :
              ckpts'[c].sub = IF c = base[r] THEN [at |-> node, values |-> v]
                              ELSE ckpts[c].sub
<1>1. base[r] \in 1..Len(ckpts) /\ ckpts \in Seq(Checkpoint)
  BY DEF IInv, BaseInv, TypeOK
<1>2. [at |-> node, values |-> v] \in Saved
  BY DEF Saved
<1>3. at \in [Requests -> Nodes] /\ vals \in [Requests -> Values]
  BY DEF IInv, TypeOK
<1>4. ckpts' = [ckpts EXCEPT ![base[r]].sub = [at |-> node, values |-> v]]
  BY DEF GoOn
<1>5. /\ ckpts' \in Seq(Checkpoint)
      /\ Len(ckpts') = Len(ckpts)
      /\ \A c \in 1..Len(ckpts) :
           ckpts'[c].sub = IF c = base[r] THEN [at |-> node, values |-> v]
                           ELSE ckpts[c].sub
  BY <1>1, <1>2, <1>4, SaveProgress
<1>6. QED
  BY <1>3, <1>5 DEF GoOn

\* A node that decides nothing and goes anywhere but to the workspace.
LEMMA GoOnKeepsInv ==
  ASSUME IInv, NEW r \in Requests, pc[r] = "running", at[r] \in SupervisorNodes,
         NEW node \in Nodes \ {"workspace"}, NEW v \in Values, GoOn(r, node, v),
         at[r] \in {"workspace", "memory_manager"}
           => node \in {"memory_manager"} \cup Closing,
         UNCHANGED <<resume, decided, ran>>
  PROVE  IInv'
<1>1. /\ ckpts' \in Seq(Checkpoint)
      /\ Len(ckpts') = Len(ckpts)
      /\ at' \in [Requests -> Nodes]
      /\ vals' \in [Requests -> Values]
      /\ at'[r] = node /\ vals'[r] = v
      /\ \A q \in Requests \ {r} : at'[q] = at[q] /\ vals'[q] = vals[q]
      /\ \A c \in 1..Len(ckpts) :
           ckpts'[c].sub = IF c = base[r] THEN [at |-> node, values |-> v]
                           ELSE ckpts[c].sub
  BY GoOnType
<1>2. UNCHANGED <<kind, action, base, pc, interrupted, crashes, resume, decided, ran>>
  BY DEF GoOn, requestVars
<1>3. TypeOK'
  BY <1>1, <1>2 DEF IInv, TypeOK
<1>4. BaseInv'
  BY <1>1, <1>2 DEF IInv, BaseInv
<1>5. ResumeInv'
  <2>1. ckpts # <<>> => ckpts' # <<>>
    BY <1>1, EmptySeq DEF IInv, TypeOK
  <2>2. QED
    BY <1>2, <2>1 DEF IInv, ResumeInv
<1>6. GateInv'
  <2>1. \A q \in Requests : (pc'[q] = "running" /\ at'[q] = "workspace")
                              => ApprovedIn(decided', vals'[q].turn)
    BY <1>1, <1>2 DEF IInv, GateInv, Approved
  <2>2. \A c \in 1..Len(ckpts') : ckpts'[c].sub.at = "workspace"
                              => ApprovedIn(decided', ckpts'[c].sub.values.turn)
    BY <1>1, <1>2 DEF IInv, GateInv, Approved
  <2>3. \A x \in ran' : ApprovedIn(decided', x.turn)
    BY <1>2 DEF IInv, GateInv, Approved
  <2>4. QED
    BY <2>1, <2>2, <2>3 DEF GateInv, Approved
<1>7. RejectInv'
  <2>1. at[r] \notin Closing
    BY DEF SupervisorNodes, Closing
  <2>2. decided \subseteq [by : Requests, turn : Requests, action : Actions]
        /\ ran \subseteq [by : Requests, turn : Requests]
    BY DEF IInv, TypeOK
  <2>3. ASSUME NEW d \in decided', d.action = "rejected"
        PROVE  at'[d.by] \in Closing
    <3>1. d \in decided /\ d.by \in Requests /\ at[d.by] \in Closing
      BY <1>2, <2>2, <2>3 DEF IInv, RejectInv
    <3>2. QED
      BY <1>1, <2>1, <3>1
  <2>4. ASSUME NEW x \in ran'
        PROVE  /\ pc'[x.by] \notin Unstarted
               /\ at'[x.by] \in {"workspace", "memory_manager"} \cup Closing
    <3>1. /\ x.by \in Requests /\ pc[x.by] \notin Unstarted
          /\ at[x.by] \in {"workspace", "memory_manager"} \cup Closing
      BY <1>2, <2>2 DEF IInv, RejectInv
    <3>2. QED
      BY <1>1, <1>2, <2>1, <3>1
  <2>5. QED
    BY <1>2, <2>3, <2>4 DEF IInv, RejectInv, ConsumedRejectionIsFinal
<1>8. QED
  BY <1>3, <1>4, <1>5, <1>6, <1>7 DEF IInv

\* The agents, the delegator and the memory manager.
LEMMA NodesKeepInv ==
  ASSUME IInv, NEW r \in Requests,
         Delegate(r) \/ Researcher(r) \/ WorkspaceReply(r) \/ Chat(r) \/ MemoryManager(r)
  PROVE  IInv'
<1>1. vals[r] \in Values /\ vals[r].turn \in Requests /\ vals[r].messages \in Seq(Message)
  BY DEF IInv, TypeOK, Values
<1>2. \A kinds \in Seq(MessageKinds) : Says(vals[r], kinds) \in Values
  BY <1>1, SaysType
<1>3. \A kinds \in AgentOutputs : Says(vals[r], kinds) \in Values
  BY <1>2, OutputsType
<1>4. \A v : /\ RoutePostReply(v) \in Nodes \ {"workspace"}
             /\ RoutePostReply(v) \in {"memory_manager"} \cup Closing
  BY PostReplyRoutes DEF Nodes, SupervisorNodes, Closing
<1>5. CASE Delegate(r)
  <2>1. PICK raw \in RawAgents, asksLocalTime \in LocalTime :
          LET v == [vals[r] EXCEPT
                      !.next_agent = Delegation(raw, asksLocalTime, IncludeWorkspace)]
          IN  GoOn(r, RouteToHumanReview(FALSE, v.next_agent), v)
    BY <1>5 DEF Delegate
  <2> DEFINE agent == Delegation(raw, asksLocalTime, IncludeWorkspace)
             v == [vals[r] EXCEPT !.next_agent = agent]
  <2>2. agent \in Agents
    BY DelegationType
  <2> HIDE DEF agent
  <2>3. v \in Values /\ v.next_agent = agent
    BY <1>1, <2>2 DEF Values
  <2>4. RouteToHumanReview(FALSE, v.next_agent) \in Nodes \ {"workspace"}
    BY <2>2, <2>3, DelegateRoutes
  <2>5. GoOn(r, RouteToHumanReview(FALSE, v.next_agent), v)
    BY <2>1 DEF agent
  <2>6. /\ pc[r] = "running" /\ at[r] = "delegate" /\ at[r] \in SupervisorNodes
        /\ UNCHANGED <<resume, decided, ran>>
    BY <1>5 DEF Delegate, Step, SupervisorNodes
  <2> HIDE DEF v
  <2>7. QED
    BY <2>3, <2>4, <2>5, <2>6, GoOnKeepsInv
<1>6. CASE Researcher(r) \/ WorkspaceReply(r)
  <2>1. PICK new \in AgentOutputs :
          GoOn(r, RoutePostReply(Says(vals[r], new)), Says(vals[r], new))
    BY <1>6 DEF Researcher, WorkspaceReply
  <2>2. /\ pc[r] = "running" /\ at[r] \in SupervisorNodes
        /\ UNCHANGED <<resume, decided, ran>>
    BY <1>6 DEF Researcher, WorkspaceReply, Step, SupervisorNodes
  <2>3. QED
    BY <1>3, <1>4, <2>1, <2>2, GoOnKeepsInv
<1>7. CASE Chat(r)
  <2> DEFINE v == Says(vals[r], <<"ai">>)
  <2>1. <<"ai">> \in Seq(MessageKinds)
    BY DEF MessageKinds
  <2>2. v \in Values
    BY <1>2, <2>1
  <2>3. /\ pc[r] = "running" /\ at[r] \in SupervisorNodes
        /\ GoOn(r, RoutePostReply(v), v)
        /\ UNCHANGED <<resume, decided, ran>>
    BY <1>7 DEF Chat, Step, SupervisorNodes
  <2> HIDE DEF v
  <2>4. QED
    BY <1>4, <2>2, <2>3, GoOnKeepsInv
<1>8. CASE MemoryManager(r)
  <2>0. PICK room \in Rooms :
          GoOn(r, "end", [vals[r] EXCEPT !.messages = Compacted(@, vals[r].turn, room)])
    BY <1>8 DEF MemoryManager
  <2> DEFINE v == [vals[r] EXCEPT !.messages = Compacted(@, vals[r].turn, room)]
  <2>1. v \in Values
    BY <1>1, CompactedType, SettingsAssumption DEF Values
  <2>2. /\ pc[r] = "running" /\ at[r] \in SupervisorNodes
        /\ GoOn(r, "end", v)
        /\ UNCHANGED <<resume, decided, ran>>
    BY <1>8, <2>0 DEF MemoryManager, Step, SupervisorNodes
  <2>3. "end" \in Nodes \ {"workspace"} /\ "end" \in Closing
    BY DEF Nodes, Closing
  <2> HIDE DEF v
  <2>4. QED
    BY <2>1, <2>2, <2>3, GoOnKeepsInv
<1>9. QED
  BY <1>5, <1>6, <1>7, <1>8

\* The review: an approval is recorded in the step that opens the way with it.
LEMMA HumanReviewKeepsInv ==
  ASSUME IInv, NEW r \in Requests, HumanReview(r)
  PROVE  IInv'
<1> DEFINE answer == resume[r]
           v == AfterReview(vals[r], answer)
           node == RouteAfterHumanReview(v.human_feedback, v.next_agent)
           d0 == [by |-> r, turn |-> vals[r].turn, action |-> answer]
<1>1. /\ pc[r] = "running" /\ at[r] = "human_review" /\ answer # NoAction
      /\ resume' = [resume EXCEPT ![r] = NoAction]
      /\ GoOn(r, node, v)
      /\ decided' = decided \cup {d0}
      /\ UNCHANGED ran
  BY DEF HumanReview, Step
<1>2. vals[r] \in Values /\ answer \in Actions /\ vals[r].turn \in Requests
      /\ vals[r].next_agent \in Agents \cup {NoAgent}
  BY <1>1 DEF IInv, TypeOK, Values
<1>3. v \in Values /\ v.turn = vals[r].turn /\ v.human_feedback = answer
      /\ v.next_agent = vals[r].next_agent
  BY <1>2, AfterReviewType
<1>4. node \in Nodes /\ (answer # "approved" => node = "end")
  BY <1>2, <1>3, ReviewRoutes
<1>5. d0.by = r /\ d0.turn = vals[r].turn /\ d0.action = answer
  OBVIOUS
<1>6. kind[r] = "resume" /\ action[r] = answer
  BY <1>1 DEF IInv, ResumeInv
<1> HIDE DEF answer, v, node, d0
<1>7. /\ ckpts' \in Seq(Checkpoint)
      /\ Len(ckpts') = Len(ckpts)
      /\ at' \in [Requests -> Nodes]
      /\ vals' \in [Requests -> Values]
      /\ at'[r] = node /\ vals'[r] = v
      /\ \A q \in Requests \ {r} : at'[q] = at[q] /\ vals'[q] = vals[q]
      /\ \A c \in 1..Len(ckpts) :
           ckpts'[c].sub = IF c = base[r] THEN [at |-> node, values |-> v]
                           ELSE ckpts[c].sub
  BY <1>1, <1>3, <1>4, GoOnType
<1>8. UNCHANGED <<kind, action, base, pc, interrupted, crashes, ran>>
  BY <1>1 DEF GoOn, requestVars
<1>9. d0 \in [by : Requests, turn : Requests, action : Actions]
  BY <1>2 DEF d0
<1>10. TypeOK'
  <2>1. resume' \in [Requests -> Actions \cup {NoAction}]
    BY <1>1 DEF IInv, TypeOK
  <2>2. decided' \subseteq [by : Requests, turn : Requests, action : Actions]
    BY <1>1, <1>9 DEF IInv, TypeOK
  <2>3. QED
    BY <1>7, <1>8, <2>1, <2>2 DEF IInv, TypeOK
<1>11. BaseInv'
  BY <1>7, <1>8 DEF IInv, BaseInv
<1>12. ResumeInv'
  <2>1. ckpts # <<>> => ckpts' # <<>>
    BY <1>7, EmptySeq DEF IInv, TypeOK
  <2>2. \A q \in Requests : resume'[q] # NoAction => resume[q] = resume'[q]
    BY <1>1 DEF IInv, TypeOK
  <2>3. \A q \in Requests :
          resume'[q] # NoAction => /\ pc'[q] \notin Unstarted
                                   /\ kind'[q] = "resume"
                                   /\ action'[q] = resume'[q]
    BY <1>8, <2>2 DEF IInv, ResumeInv
  <2>4. \A d \in decided' : /\ pc'[d.by] \notin Unstarted
                            /\ kind'[d.by] = "resume"
                            /\ action'[d.by] = d.action
    BY <1>1, <1>5, <1>6, <1>8 DEF IInv, ResumeInv, Unstarted
  <2>5. QED
    BY <1>8, <2>1, <2>3, <2>4 DEF IInv, ResumeInv
<1>13. GateInv'
  <2>1. \A turn : ApprovedIn(decided, turn) => ApprovedIn(decided', turn)
    BY <1>1 DEF ApprovedIn
  <2>2. node = "workspace" => ApprovedIn(decided', v.turn)
    BY <1>1, <1>3, <1>4, <1>5 DEF ApprovedIn
  <2>3. \A q \in Requests : (pc'[q] = "running" /\ at'[q] = "workspace")
                              => ApprovedIn(decided', vals'[q].turn)
    BY <1>7, <1>8, <2>1, <2>2 DEF IInv, GateInv, Approved
  <2>4. \A c \in 1..Len(ckpts') : ckpts'[c].sub.at = "workspace"
                              => ApprovedIn(decided', ckpts'[c].sub.values.turn)
    BY <1>7, <2>1, <2>2 DEF IInv, GateInv, Approved
  <2>5. \A x \in ran' : ApprovedIn(decided', x.turn)
    BY <1>8, <2>1 DEF IInv, GateInv, Approved
  <2>6. QED
    BY <2>3, <2>4, <2>5 DEF GateInv, Approved
<1>14. RejectInv'
  <2>1. /\ decided \subseteq [by : Requests, turn : Requests, action : Actions]
        /\ ran \subseteq [by : Requests, turn : Requests]
    BY DEF IInv, TypeOK
  <2>2. \A x \in ran : x.by # r
    BY <1>1 DEF IInv, RejectInv, Closing
  <2>3. ASSUME NEW d \in decided', d.action = "rejected"
        PROVE  at'[d.by] \in Closing
    <3>1. CASE d = d0
      BY <1>4, <1>5, <1>7, <2>3, <3>1 DEF Closing
    <3>2. CASE d # d0
      <4>1. d \in decided /\ d.by \in Requests /\ at[d.by] \in Closing
        BY <1>1, <2>1, <2>3, <3>2 DEF IInv, RejectInv
      <4>2. d.by # r
        BY <1>1, <4>1 DEF Closing
      <4>3. QED
        BY <1>7, <4>1, <4>2
    <3>3. QED
      BY <3>1, <3>2
  <2>4. ASSUME NEW x \in ran'
        PROVE  /\ pc'[x.by] \notin Unstarted
               /\ at'[x.by] \in {"workspace", "memory_manager"} \cup Closing
    BY <1>7, <1>8, <2>1, <2>2 DEF IInv, RejectInv
  <2>5. ConsumedRejectionIsFinal'
    BY <1>1, <1>5, <1>8, <2>2 DEF IInv, RejectInv, ConsumedRejectionIsFinal
  <2>6. QED
    BY <2>3, <2>4, <2>5 DEF RejectInv
<1>15. QED
  BY <1>10, <1>11, <1>12, <1>13, <1>14 DEF IInv

\* A fresh message: the run's own values first, the new checkpoint one step later.
LEMMA ChatKeepsInv ==
  ASSUME IInv, NEW r \in Requests, ChatLoad(r) \/ ChatBegin(r)
  PROVE  IInv'
<1>1. CASE ChatLoad(r)
  <2>1. InitialState(IF ckpts = <<>> THEN <<>> ELSE Latest.values.messages, r) \in Values
    BY InitialStateType, LatestType, EmptySeq DEF IInv, TypeOK
  <2>2. pc[r] = "idle"
    BY <1>1 DEF ChatLoad, Arrive
  <2>3. resume[r] = NoAction /\ (\A d \in decided : d.by # r) /\ (\A x \in ran : x.by # r)
    BY <2>2 DEF IInv, ResumeInv, RejectInv, Unstarted
  <2>4. TypeOK'
    BY <1>1, <2>1 DEF ChatLoad, IInv, TypeOK, Kinds, Progress
  <2>5. BaseInv' /\ ResumeInv'
    BY <1>1, <2>3 DEF ChatLoad, IInv, TypeOK, BaseInv, ResumeInv
  <2>6. GateInv'
    <3>1. \A q \in Requests : (pc'[q] = "running" /\ at'[q] = "workspace")
                                => ApprovedIn(decided', vals'[q].turn)
      BY <1>1 DEF ChatLoad, IInv, TypeOK, GateInv, Approved
    <3>2. QED
      BY <1>1, <3>1 DEF ChatLoad, IInv, GateInv, Approved
  <2>7. RejectInv'
    BY <1>1, <2>3 DEF ChatLoad, IInv, TypeOK, RejectInv, ConsumedRejectionIsFinal
  <2>8. QED
    BY <2>4, <2>5, <2>6, <2>7 DEF IInv
<1>2. CASE ChatBegin(r)
  <2>1. /\ ckpts' \in Seq(Checkpoint)
        /\ ckpts' # <<>>
        /\ Len(ckpts') = Len(ckpts) + 1
        /\ \A c \in 1..Len(ckpts) : ckpts'[c].sub = ckpts[c].sub
        /\ ckpts'[Len(ckpts) + 1].sub.at = "delegate"
    <3>1. /\ ckpts \in Seq(Checkpoint) /\ vals[r] \in Values
          /\ "delegate" \in Nodes
      BY DEF IInv, TypeOK, Nodes, SupervisorNodes
    <3>2. ckpts' = Append(ckpts, [next |-> "supervisor", values |-> vals[r],
                                  sub |-> [at |-> "delegate", values |-> vals[r]],
                                  asked |-> FALSE])
      BY <1>2 DEF ChatBegin
    <3>3. QED
      BY <3>1, <3>2, AddCheckpoint
  <2>2. pc[r] = "loaded"
    BY <1>2 DEF ChatBegin
  <2>3. resume[r] = NoAction /\ (\A d \in decided : d.by # r) /\ (\A x \in ran : x.by # r)
    BY <2>2 DEF IInv, ResumeInv, RejectInv, Unstarted
  <2>4. Len(ckpts) \in Nat
    BY DEF IInv, TypeOK
  <2>5. TypeOK'
    <3>1. base' \in [Requests -> 0..Len(ckpts')]
      BY <1>2, <2>1, <2>4 DEF ChatBegin, IInv, TypeOK
    <3>2. QED
      BY <1>2, <2>1, <3>1
         DEF ChatBegin, historyVars, IInv, TypeOK, Nodes, SupervisorNodes, Progress
  <2>6. BaseInv'
    BY <1>2, <2>1, <2>4 DEF ChatBegin, IInv, TypeOK, BaseInv
  <2>7. ResumeInv'
    BY <1>2, <2>1, <2>3 DEF ChatBegin, historyVars, IInv, TypeOK, ResumeInv
  <2>8. GateInv'
    <3>1. \A q \in Requests : (pc'[q] = "running" /\ at'[q] = "workspace")
                                => ApprovedIn(decided', vals'[q].turn)
      BY <1>2 DEF ChatBegin, historyVars, IInv, TypeOK, GateInv, Approved
    <3>2. \A c \in 1..Len(ckpts') : ckpts'[c].sub.at = "workspace"
                                => ApprovedIn(decided', ckpts'[c].sub.values.turn)
      BY <1>2, <2>1, <2>4 DEF ChatBegin, historyVars, IInv, GateInv, Approved
    <3>3. QED
      BY <1>2, <3>1, <3>2 DEF ChatBegin, historyVars, IInv, GateInv, Approved
  <2>9. RejectInv'
    BY <1>2, <2>3
       DEF ChatBegin, historyVars, IInv, TypeOK, RejectInv, ConsumedRejectionIsFinal
  <2>10. QED
    BY <2>5, <2>6, <2>7, <2>8, <2>9 DEF IInv
<1>3. QED
  BY <1>1, <1>2

\* A resume starts where some run stopped: GateInv holds there because it was
\* saved there.
LEMMA ResumeKeepsInv ==
  ASSUME IInv, NEW r \in Requests, ResumeCheck(r) \/ ResumeBegin(r)
  PROVE  IInv'
<1>1. CASE ResumeCheck(r)
  <2>1. PICK a \in Actions : action' = [action EXCEPT ![r] = a]
    BY <1>1 DEF ResumeCheck
  <2>2. /\ kind' = [kind EXCEPT ![r] = "resume"]
        /\ pc' = [pc EXCEPT ![r] = IF Paused THEN "checked" ELSE "conflict"]
        /\ UNCHANGED <<ckpts, base, at, vals, resume, interrupted, crashes, decided, ran>>
    BY <1>1 DEF ResumeCheck
  <2>3. pc[r] = "idle" /\ (Paused => ckpts # <<>>)
    BY <1>1 DEF ResumeCheck, Arrive, Paused
  <2>4. resume[r] = NoAction /\ (\A d \in decided : d.by # r) /\ (\A x \in ran : x.by # r)
    BY <2>3 DEF IInv, ResumeInv, RejectInv, Unstarted
  <2>5. TypeOK'
    BY <2>1, <2>2 DEF IInv, TypeOK, Kinds, Progress
  <2>6. BaseInv'
    BY <2>2 DEF IInv, TypeOK, BaseInv
  <2>7. ResumeInv'
    BY <2>1, <2>2, <2>3, <2>4 DEF IInv, TypeOK, ResumeInv
  <2>8. GateInv'
    <3>1. \A q \in Requests : (pc'[q] = "running" /\ at'[q] = "workspace")
                                => ApprovedIn(decided', vals'[q].turn)
      BY <2>2 DEF IInv, TypeOK, GateInv, Approved
    <3>2. QED
      BY <2>2, <3>1 DEF IInv, GateInv, Approved
  <2>9. RejectInv'
    BY <2>2, <2>4 DEF IInv, TypeOK, RejectInv, ConsumedRejectionIsFinal
  <2>10. QED
    BY <2>5, <2>6, <2>7, <2>8, <2>9 DEF IInv
<1>2. CASE ResumeBegin(r)
  <2> DEFINE from == IF Latest.next = "supervisor" THEN Latest.sub
                     ELSE [at |-> Latest.next, values |-> Latest.values]
  <2>1. /\ pc[r] = "checked"
        /\ base' = [base EXCEPT ![r] = Len(ckpts)]
        /\ at' = [at EXCEPT ![r] = from.at]
        /\ vals' = [vals EXCEPT ![r] = from.values]
        /\ resume' = [resume EXCEPT ![r] = action[r]]
        /\ pc' = [pc EXCEPT ![r] = IF from.at = "finished" THEN "ended" ELSE "running"]
        /\ UNCHANGED <<ckpts, kind, action, interrupted, crashes, decided, ran>>
    BY <1>2 DEF ResumeBegin, historyVars
  <2>2. kind[r] = "resume" /\ action[r] \in Actions /\ ckpts # <<>>
    BY <2>1 DEF IInv, ResumeInv
  <2>3. Len(ckpts) \in 1..Len(ckpts) /\ Latest \in Checkpoint
    BY <2>2, LatestType DEF IInv, TypeOK
  <2>4. from.at \in Nodes /\ from.values \in Values
    BY <2>3 DEF Checkpoint, Nodes
  <2>5. from.at = "workspace" => Approved(from.values.turn)
    <3>1. Latest.sub.at = "workspace" => Approved(Latest.sub.values.turn)
      BY <2>3 DEF IInv, GateInv, Latest
    <3>2. Latest.next # "workspace"
      BY <2>3 DEF Checkpoint
    <3>3. QED
      BY <3>1, <3>2
  <2> HIDE DEF from
  <2>6. (\A d \in decided : d.by # r) /\ (\A x \in ran : x.by # r)
    BY <2>1 DEF IInv, ResumeInv, RejectInv, Unstarted
  <2>7. TypeOK'
    <3>1. base' \in [Requests -> 0..Len(ckpts')]
      BY <2>1, <2>3 DEF IInv, TypeOK
    <3>2. QED
      BY <2>1, <2>2, <2>4, <3>1 DEF IInv, TypeOK, Progress
  <2>8. BaseInv'
    BY <2>1, <2>3 DEF IInv, TypeOK, BaseInv
  <2>9. ResumeInv'
    BY <2>1, <2>2, <2>6 DEF IInv, TypeOK, ResumeInv, Unstarted
  <2>10. GateInv'
    <3>1. \A q \in Requests : (pc'[q] = "running" /\ at'[q] = "workspace")
                                => ApprovedIn(decided', vals'[q].turn)
      BY <2>1, <2>5 DEF IInv, TypeOK, GateInv, Approved
    <3>2. QED
      BY <2>1, <3>1 DEF IInv, GateInv, Approved
  <2>11. RejectInv'
    BY <2>1, <2>6 DEF IInv, TypeOK, RejectInv, ConsumedRejectionIsFinal
  <2>12. QED
    BY <2>7, <2>8, <2>9, <2>10, <2>11 DEF IInv
<1>3. QED
  BY <1>1, <1>2

\* Stopping at the review marks the checkpoint and moves nothing.
LEMMA AskHumanKeepsInv ==
  ASSUME IInv, NEW r \in Requests, AskHuman(r)
  PROVE  IInv'
<1>1. /\ pc[r] = "running"
      /\ ckpts' = [ckpts EXCEPT ![base[r]].asked = TRUE]
      /\ pc' = [pc EXCEPT ![r] = "ended"]
      /\ UNCHANGED <<kind, action, base, at, vals, resume, interrupted, crashes,
                     decided, ran>>
  BY DEF AskHuman, Step, requestVars, historyVars
<1>2. /\ ckpts' \in Seq(Checkpoint)
      /\ Len(ckpts') = Len(ckpts)
      /\ \A c \in 1..Len(ckpts) : ckpts'[c].sub = ckpts[c].sub
  BY <1>1, MarkAsked DEF IInv, BaseInv, TypeOK
<1>3. TypeOK'
  BY <1>1, <1>2 DEF IInv, TypeOK, Progress
<1>4. BaseInv'
  BY <1>1, <1>2 DEF IInv, TypeOK, BaseInv
<1>5. ResumeInv'
  <2>1. ckpts # <<>> => ckpts' # <<>>
    BY <1>2, EmptySeq DEF IInv, TypeOK
  <2>2. QED
    BY <1>1, <2>1 DEF IInv, TypeOK, ResumeInv, Unstarted
<1>6. GateInv'
  <2>1. \A q \in Requests : (pc'[q] = "running" /\ at'[q] = "workspace")
                              => ApprovedIn(decided', vals'[q].turn)
    BY <1>1 DEF IInv, TypeOK, GateInv, Approved
  <2>2. \A c \in 1..Len(ckpts') : ckpts'[c].sub.at = "workspace"
                              => ApprovedIn(decided', ckpts'[c].sub.values.turn)
    BY <1>1, <1>2 DEF IInv, GateInv, Approved
  <2>3. QED
    BY <1>1, <2>1, <2>2 DEF IInv, GateInv, Approved
<1>7. RejectInv'
  BY <1>1 DEF IInv, TypeOK, RejectInv, ConsumedRejectionIsFinal, Unstarted
<1>8. QED
  BY <1>3, <1>4, <1>5, <1>6, <1>7 DEF IInv

\* The tools run only where GateInv says the turn is approved.
LEMMA WorkspaceToolsKeepsInv ==
  ASSUME IInv, NEW r \in Requests, WorkspaceTools(r)
  PROVE  IInv'
<1> DEFINE x0 == [by |-> r, turn |-> vals[r].turn]
<1>1. /\ pc[r] = "running" /\ at[r] = "workspace"
      /\ ran' = ran \cup {x0}
      /\ UNCHANGED <<ckpts, kind, action, base, pc, at, vals, resume, interrupted,
                     crashes, decided>>
  BY DEF WorkspaceTools, Step, requestVars
<1>2. x0 \in [by : Requests, turn : Requests] /\ x0.by = r /\ x0.turn = vals[r].turn
  BY DEF IInv, TypeOK, Values
<1> HIDE DEF x0
<1>3. TypeOK'
  <2>1. ran' \subseteq [by : Requests, turn : Requests]
    BY <1>1, <1>2 DEF IInv, TypeOK
  <2>2. QED
    BY <1>1, <2>1 DEF IInv, TypeOK
<1>4. BaseInv' /\ ResumeInv'
  BY <1>1 DEF IInv, BaseInv, ResumeInv
<1>5. GateInv'
  BY <1>1, <1>2 DEF IInv, GateInv, Approved
<1>6. RejectInv'
  BY <1>1, <1>2
     DEF IInv, RejectInv, ConsumedRejectionIsFinal, Unstarted, Closing
<1>7. QED
  BY <1>3, <1>4, <1>5, <1>6 DEF IInv

\* The master graph's own checkpoints are past the workspace.
LEMMA MasterKeepsInv ==
  ASSUME IInv, NEW r \in Requests, SupervisorEnd(r) \/ ErrorHandler(r)
  PROVE  IInv'
<1>1. PICK next \in {"error_handler", "finished"}, v \in Values :
        Commit(r, next, v) /\ v.turn = vals[r].turn
  <2>1. vals[r] \in Values /\ vals[r].messages \in Seq(Message)
    BY DEF IInv, TypeOK, Values
  <2>2. CASE SupervisorEnd(r)
    <3> DEFINE merged == AddMessages(ckpts[base[r]].values.messages, vals[r].messages)
               v == [vals[r] EXCEPT !.messages = merged]
    <3>1. ckpts[base[r]].values.messages \in Seq(Message)
      <4>1. pc[r] = "running"
        BY <2>2 DEF SupervisorEnd, Step
      <4>2. ckpts[base[r]] \in Checkpoint
        BY <4>1, ElementOfSeq DEF IInv, BaseInv, TypeOK
      <4>3. QED
        BY <4>2 DEF Checkpoint, Values
    <3>2. merged \in Seq(Message)
      BY <2>1, <3>1, AddMessagesType
    <3> HIDE DEF merged
    <3>3. v \in Values /\ v.turn = vals[r].turn
      BY <2>1, <3>2 DEF Values
    <3>4. Commit(r, "error_handler", v)
      BY <2>2 DEF SupervisorEnd, merged
    <3>5. QED
      BY <3>3, <3>4
  <2>3. CASE ErrorHandler(r)
    BY <2>1, <2>3 DEF ErrorHandler
  <2>4. QED
    BY <2>2, <2>3
<1>2. /\ pc[r] = "running" /\ at[r] \in {"end", "error_handler"}
      /\ pc' = pc \/ pc' = [pc EXCEPT ![r] = "ended"]
  BY DEF SupervisorEnd, ErrorHandler, Step
<1>3. /\ base' = [base EXCEPT ![r] = Len(ckpts) + 1]
      /\ at' = [at EXCEPT ![r] = next]
      /\ vals' = [vals EXCEPT ![r] = v]
      /\ UNCHANGED <<kind, action, resume, interrupted, crashes, decided, ran>>
  BY <1>1 DEF Commit, historyVars
<1>4. /\ ckpts \in Seq(Checkpoint) /\ Len(ckpts) \in Nat
      /\ next \in Nodes /\ next \in Closing /\ next # "workspace"
  BY DEF IInv, TypeOK, Nodes, Closing
<1>5. /\ ckpts' \in Seq(Checkpoint)
      /\ ckpts' # <<>>
      /\ Len(ckpts') = Len(ckpts) + 1
      /\ \A c \in 1..Len(ckpts) : ckpts'[c].sub = ckpts[c].sub
      /\ ckpts'[Len(ckpts) + 1].sub.at = next
  <2>1. ckpts' = Append(ckpts, [next |-> next, values |-> v,
                                sub |-> [at |-> next, values |-> v], asked |-> FALSE])
    BY <1>1 DEF Commit
  <2>2. QED
    BY <1>4, <2>1, AddCheckpoint
<1>6. /\ pc' \in [Requests -> Progress]
      /\ \A q \in Requests : pc'[q] \in Unstarted => pc'[q] = pc[q]
      /\ \A q \in Requests : pc[q] \notin Unstarted => pc'[q] \notin Unstarted
      /\ \A q \in Requests : pc'[q] = "running" => pc[q] = "running"
  BY <1>2 DEF IInv, TypeOK, Progress, Unstarted
<1>7. TypeOK'
  <2>1. base' \in [Requests -> 0..Len(ckpts')]
    BY <1>3, <1>4, <1>5 DEF IInv, TypeOK
  <2>2. QED
    BY <1>3, <1>4, <1>5, <1>6, <2>1 DEF IInv, TypeOK
<1>8. BaseInv'
  BY <1>3, <1>4, <1>5, <1>6 DEF IInv, TypeOK, BaseInv
<1>9. ResumeInv'
  <2>1. \A q \in Requests : pc'[q] = "checked" => pc[q] = "checked"
    BY <1>6 DEF Unstarted
  <2>2. decided \subseteq [by : Requests, turn : Requests, action : Actions]
    BY DEF IInv, TypeOK
  <2>3. QED
    BY <1>3, <1>5, <1>6, <2>1, <2>2 DEF IInv, ResumeInv
<1>10. GateInv'
  <2>1. \A q \in Requests : (pc'[q] = "running" /\ at'[q] = "workspace")
                              => ApprovedIn(decided', vals'[q].turn)
    BY <1>3, <1>4, <1>6 DEF IInv, TypeOK, GateInv, Approved
  <2>2. \A c \in 1..Len(ckpts') : ckpts'[c].sub.at = "workspace"
                              => ApprovedIn(decided', ckpts'[c].sub.values.turn)
    BY <1>3, <1>4, <1>5 DEF IInv, GateInv, Approved
  <2>3. QED
    BY <1>3, <2>1, <2>2 DEF IInv, GateInv, Approved
<1>11. RejectInv'
  <2>1. /\ decided \subseteq [by : Requests, turn : Requests, action : Actions]
        /\ ran \subseteq [by : Requests, turn : Requests]
    BY DEF IInv, TypeOK
  <2>2. \A q \in Requests : at'[q] = at[q] \/ at'[q] \in Closing
    BY <1>3, <1>4 DEF IInv, TypeOK
  <2>3. QED
    BY <1>3, <1>6, <2>1, <2>2 DEF IInv, RejectInv, ConsumedRejectionIsFinal
<1>12. QED
  BY <1>7, <1>8, <1>9, <1>10, <1>11 DEF IInv

\* Requests that are answered, fail, lose their client or die with the process.
LEMMA EndingsKeepInv ==
  ASSUME IInv,
         (\E r \in Requests : Respond(r) \/ Fail(r) \/ Disconnect(r)) \/ Crash
  PROVE  IInv'
<1>1. /\ pc' \in [Requests -> Progress]
      /\ \A q \in Requests : pc'[q] = pc[q] \/ pc'[q] \in Over
      /\ interrupted' \in [Requests -> BOOLEAN]
      /\ crashes' \in 0..MaxCrashes
      /\ UNCHANGED <<ckpts, kind, action, base, at, vals, resume, decided, ran>>
  <2>1. ASSUME NEW r \in Requests, Respond(r) \/ Fail(r) \/ Disconnect(r)
        PROVE  <1>1!:
    BY <2>1 DEF Respond, Fail, Disconnect, requestVars, historyVars, IInv, TypeOK,
                Progress, Over
  <2>2. ASSUME Crash PROVE <1>1!:
    BY <2>2, SettingsAssumption
       DEF Crash, requestVars, historyVars, IInv, TypeOK, Progress, Over
  <2>3. QED
    BY <2>1, <2>2
<1>2. /\ \A q \in Requests : pc[q] \notin Unstarted => pc'[q] \notin Unstarted
      /\ \A q \in Requests : pc'[q] = "running" => pc[q] = "running"
      /\ \A q \in Requests : pc'[q] = "checked" => pc[q] = "checked"
  BY <1>1 DEF Over, Unstarted
<1>3. /\ decided \subseteq [by : Requests, turn : Requests, action : Actions]
      /\ ran \subseteq [by : Requests, turn : Requests]
  BY DEF IInv, TypeOK
<1>4. TypeOK' /\ BaseInv'
  BY <1>1, <1>2 DEF IInv, TypeOK, BaseInv
<1>5. ResumeInv'
  BY <1>1, <1>2, <1>3 DEF IInv, ResumeInv
<1>6. GateInv'
  <2>1. \A q \in Requests : (pc'[q] = "running" /\ at'[q] = "workspace")
                              => ApprovedIn(decided', vals'[q].turn)
    BY <1>1, <1>2 DEF IInv, GateInv, Approved
  <2>2. QED
    BY <1>1, <2>1 DEF IInv, GateInv, Approved
<1>7. RejectInv'
  BY <1>1, <1>2, <1>3 DEF IInv, RejectInv, ConsumedRejectionIsFinal
<1>8. QED
  BY <1>4, <1>5, <1>6, <1>7 DEF IInv

\* Every step keeps the invariant.
LEMMA NextInv == IInv /\ [Next]_vars => IInv'
<1> SUFFICES ASSUME IInv, [Next]_vars PROVE IInv'
  OBVIOUS
<1>1. CASE UNCHANGED vars
  BY <1>1 DEF vars, IInv, TypeOK, BaseInv, ResumeInv, GateInv, Approved, RejectInv,
              ConsumedRejectionIsFinal
<1>2. ASSUME NEW r \in Requests,
             ChatLoad(r) \/ ResumeCheck(r) \/ RunStep(r) \/ WorkspaceTools(r)
      PROVE  IInv'
  <2>1. CASE ChatLoad(r) \/ ChatBegin(r)
    BY <2>1, ChatKeepsInv
  <2>2. CASE ResumeCheck(r) \/ ResumeBegin(r)
    BY <2>2, ResumeKeepsInv
  <2>3. CASE \/ Delegate(r) \/ Researcher(r) \/ WorkspaceReply(r)
             \/ Chat(r) \/ MemoryManager(r)
    BY <2>3, NodesKeepInv
  <2>4. CASE AskHuman(r)
    BY <2>4, AskHumanKeepsInv
  <2>5. CASE HumanReview(r)
    BY <2>5, HumanReviewKeepsInv
  <2>6. CASE WorkspaceTools(r)
    BY <2>6, WorkspaceToolsKeepsInv
  <2>7. CASE SupervisorEnd(r) \/ ErrorHandler(r)
    BY <2>7, MasterKeepsInv
  <2>8. CASE Respond(r)
    BY <2>8, EndingsKeepInv
  <2>9. QED
    BY <1>2, <2>1, <2>2, <2>3, <2>4, <2>5, <2>6, <2>7, <2>8 DEF RunStep
<1>3. CASE (\E r \in Requests : Fail(r) \/ Disconnect(r)) \/ Crash
  BY <1>3, EndingsKeepInv
<1>4. QED
  BY <1>1, <1>2, <1>3 DEF Next

\* The invariant holds of every reachable state.
LEMMA Invariance == Spec => []IInv
<1>1. QED
  BY InitInv, NextInv, PTL DEF Spec

-----------------------------------------------------------------------------
(* What follows for every thread. *)

\* Every variable of the thread holds a value the code can put there: every
\* route is a node the graph's edges list, and every history a history of
\* messages, also after compaction (supervisor_graph.py, memory_manager_node.py).
THEOREM TypeCorrect == Spec => []TypeOK
<1>1. IInv => TypeOK
  BY DEF IInv
<1>2. QED
  BY <1>1, Invariance, PTL

\* The gate: however requests interleave, fail or are cut off, workspace tools
\* run for a turn only after the review node consumed, in that turn, the value of
\* a resume request that said "approved" (approval_router.py, human_review_node.py).
THEOREM GateHolds == Spec => []ToolsOnlyAfterApproval
<1>1. IInv => ToolsOnlyAfterApproval
  <2>1. SUFFICES ASSUME IInv, NEW x \in ran PROVE Granted(x.turn)
    BY DEF ToolsOnlyAfterApproval
  <2>2. PICK d \in decided : d.turn = x.turn /\ d.action = "approved"
    BY <2>1 DEF IInv, GateInv, Approved, ApprovedIn
  <2>3. kind[d.by] = "resume" /\ action[d.by] = "approved"
    BY <2>1, <2>2 DEF IInv, ResumeInv
  <2>4. QED
    BY <2>2, <2>3 DEF Granted
<1>2. QED
  BY <1>1, Invariance, PTL

\* A run whose review consumed a rejection never runs a workspace tool, before
\* or after it (route_after_human_review and the edges of the supervisor graph).
THEOREM RejectionHolds == Spec => []ConsumedRejectionIsFinal
<1>1. IInv => ConsumedRejectionIsFinal
  BY DEF IInv, RejectInv
<1>2. QED
  BY <1>1, Invariance, PTL

-----------------------------------------------------------------------------
(* The thread implements ApprovalGate. *)

granted == {d.turn : d \in {e \in decided : e.action = "approved"}}
used == {x.turn : x \in ran}

\* Only the review node and the workspace touch what the gate is about.
LEMMA QuietSteps ==
  ASSUME [Next]_vars
  PROVE  \/ UNCHANGED <<decided, ran>>
         \/ \E r \in Requests : HumanReview(r) \/ WorkspaceTools(r)
<1>1. CASE UNCHANGED vars
  BY <1>1 DEF vars
<1>2. CASE Crash
  BY <1>2 DEF Crash, historyVars
<1>3. ASSUME NEW r \in Requests,
             ChatLoad(r) \/ ResumeCheck(r) \/ RunStep(r) \/ Fail(r) \/ Disconnect(r)
      PROVE  UNCHANGED <<decided, ran>> \/ HumanReview(r)
  BY <1>3
     DEF RunStep, ChatLoad, ChatBegin, ResumeCheck, ResumeBegin, Delegate, AskHuman,
         Researcher, WorkspaceReply, Chat, MemoryManager, SupervisorEnd, ErrorHandler,
         Commit, Respond, Fail, Disconnect, historyVars
<1>4. QED
  BY <1>1, <1>2, <1>3 DEF Next

\* Seen through the decisions consumed and the tools run, every step of the
\* thread is a grant, a use of a granted turn, or nothing at all.
THEOREM GateRefined == Spec => GateSpec
<1>1. Init => Gate!Init
  BY DEF Init, Gate!Init
<1>2. IInv /\ [Next]_vars => [Gate!Next]_<<granted, used>>
  <2> SUFFICES ASSUME IInv, [Next]_vars
               PROVE  Gate!Next \/ UNCHANGED <<granted, used>>
    OBVIOUS
  <2>1. CASE UNCHANGED <<decided, ran>>
    BY <2>1 DEF granted, used
  <2>2. ASSUME NEW r \in Requests, HumanReview(r)
        PROVE  Gate!Next \/ UNCHANGED <<granted, used>>
    <3> DEFINE d0 == [by |-> r, turn |-> vals[r].turn, action |-> resume[r]]
    <3>1. decided' = decided \cup {d0} /\ used' = used
      BY <2>2 DEF HumanReview, used
    <3>2. d0.turn = vals[r].turn /\ d0.action = resume[r] /\ vals[r].turn \in Requests
      BY DEF IInv, TypeOK, Values
    <3> HIDE DEF d0
    <3>3. CASE resume[r] = "approved"
      <4>1. granted' = granted \cup {vals[r].turn}
        BY <3>1, <3>2, <3>3 DEF granted
      <4>2. QED
        BY <3>1, <3>2, <4>1 DEF Gate!Next, Gate!Grant, granted, used
    <3>4. CASE resume[r] # "approved"
      <4>1. granted' = granted
        BY <3>1, <3>2, <3>4 DEF granted
      <4>2. QED
        BY <3>1, <4>1
    <3>5. QED
      BY <3>3, <3>4
  <2>3. ASSUME NEW r \in Requests, WorkspaceTools(r)
        PROVE  Gate!Next
    <3> DEFINE x0 == [by |-> r, turn |-> vals[r].turn]
    <3>1. ran' = ran \cup {x0} /\ granted' = granted
      BY <2>3 DEF WorkspaceTools, granted
    <3>2. x0.turn = vals[r].turn /\ vals[r].turn \in Requests
      BY DEF IInv, TypeOK, Values
    <3> HIDE DEF x0
    <3>3. used' = used \cup {vals[r].turn}
      BY <3>1, <3>2 DEF used
    <3>4. vals[r].turn \in granted
      BY <2>3 DEF WorkspaceTools, Step, IInv, GateInv, Approved, ApprovedIn, granted
    <3>5. QED
      BY <3>1, <3>2, <3>3, <3>4 DEF Gate!Next, Gate!Use, granted, used
  <2>4. QED
    BY <2>1, <2>2, <2>3, QuietSteps
<1>3. QED
  BY <1>1, <1>2, Invariance, PTL DEF Spec, GateSpec, Gate!Spec, granted, used

=============================================================================
