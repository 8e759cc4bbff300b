-------------------------- MODULE ThreadSerialProofs --------------------------
(***************************************************************************)
(* Theorems about a thread whose clients send one request at a time, as    *)
(* the web client does: what is answered is kept, a review is decided at   *)
(* most once, a response tells of its own run, and a pending review only   *)
(* goes away by a decision or a newer message.  They hold for every set of *)
(* requests, every answer of the models, every failure and every restart.  *)
(***************************************************************************)
EXTENDS ThreadMessagesProofs

(***************************************************************************)
(* The invariant.  None of the properties is inductive: they rest on the   *)
(* run in progress and the latest checkpoint telling the same story, and   *)
(* on a checkpoint that is still before its review never having been       *)
(* decided.                                                                *)
(***************************************************************************)

\* At most one request is in progress.
OneAtATime == \A r, q \in InProgress : r = q

\* It works on the latest checkpoint, whose saved progress is where it stands.
InStep ==
  \A r \in Requests :
    /\ pc[r] = "loaded" =>
         vals[r] = InitialState(IF ckpts = <<>> THEN <<>> ELSE Latest.values.messages, r)
    /\ pc[r] \in {"running", "ended"} =>
         /\ ckpts # <<>>
         /\ base[r] = Len(ckpts)
         /\ Latest.sub = [at |-> at[r], values |-> vals[r]]
    /\ pc[r] = "ended" => at[r] \in {"human_review", "finished"}

\* The latest checkpoint stands in the supervisor graph, or past it with nothing
\* asked; its turn is that of a request whose message has been written.
LatestFits ==
  ckpts # <<>> =>
    /\ IF Latest.next = "supervisor" THEN Latest.sub.at \in GraphNodes
       ELSE Latest.sub = [at |-> Latest.next, values |-> Latest.values] /\ ~Latest.asked
    /\ Latest.sub.values.turn = Latest.values.turn
    /\ pc[Latest.values.turn] \notin {"idle", "loaded"}

DecidedIn(decisions, turn) == \E d \in decisions : d.turn = turn

\* A turn is decided once, by a run that then leaves the review for good.
ReviewsPassed ==
  /\ \A d \in decided : pc[d.turn] \notin {"idle", "loaded"}
  /\ \A d, e \in decided : d.turn = e.turn => d = e
  /\ ckpts # <<>> =>
       /\ Latest.sub.at \in {"delegate", "human_review"} =>
            ~DecidedIn(decided, Latest.values.turn)
       /\ Latest.asked => \/ Latest.sub.at = "human_review"
                          \/ DecidedIn(decided, Latest.values.turn)

TurnIn(messages, r) == \E i \in 1..Len(messages) : messages[i].turn = r

Writing == {"running", "ended", "done"}

\* From its first checkpoint on, the message of a run is in the latest history.
AnsweredKept ==
  \A r \in Requests : (pc[r] \in Writing /\ kind[r] # "resume") =>
    ckpts # <<>> /\ TurnIn(Latest.values.messages, r)

FlagsAreOwn ==
  \A r \in Requests : (pc[r] = "done" /\ kind[r] # "stream") =>
    (interrupted[r] <=> at[r] = "human_review")

SerialInv == OneAtATime /\ InStep /\ LatestFits /\ ReviewsPassed /\ AnsweredKept /\ FlagsAreOwn

-----------------------------------------------------------------------------
(* What the invariant says of a request in progress. *)

Resting == {"idle"} \cup Over

\* While one request is on its way the others have not begun or are over.
LEMMA OthersRest ==
  ASSUME IInv, OneAtATime, NEW r \in Requests, pc[r] \notin Resting
  PROVE  \A q \in Requests \ {r} : pc[q] \in Resting
BY DEF OneAtATime, InProgress, Resting, Over

\* The latest checkpoint of a run that has written one.
LEMMA RunFacts ==
  ASSUME IInv, SerialInv, NEW r \in Requests, pc[r] \in {"running", "ended"}
  PROVE  /\ ckpts # <<>>
         /\ Len(ckpts) \in 1..Len(ckpts)
         /\ base[r] = Len(ckpts)
         /\ Latest \in Checkpoint
         /\ Latest = ckpts[Len(ckpts)]
         /\ Latest.sub = [at |-> at[r], values |-> vals[r]]
         /\ Latest.sub.at = at[r]
         /\ Latest.sub.values = vals[r]
         /\ at[r] \in GraphNodes => Latest.next = "supervisor"
         /\ at[r] \notin GraphNodes => /\ Latest.next = at[r]
                                       /\ Latest.values = vals[r]
                                       /\ ~Latest.asked
         /\ vals[r].turn = Latest.values.turn
         /\ vals[r].turn \in Requests
         /\ pc[vals[r].turn] \notin {"idle", "loaded"}
<1>1. /\ ckpts # <<>> /\ base[r] = Len(ckpts)
      /\ Latest.sub = [at |-> at[r], values |-> vals[r]]
  BY DEF SerialInv, InStep
<1>2. Latest \in Checkpoint /\ Len(ckpts) \in 1..Len(ckpts)
  BY <1>1, HistoryType, LatestType
<1>3. Latest.sub.at = at[r] /\ Latest.sub.values = vals[r]
  BY <1>1
<1>4. vals[r].turn \in Requests
  BY HistoryType DEF Values
<1>5. vals[r].turn = Latest.values.turn /\ pc[vals[r].turn] \notin {"idle", "loaded"}
  BY <1>1, <1>3 DEF SerialInv, LatestFits
<1>6. CASE Latest.next = "supervisor"
  <2>1. at[r] \in GraphNodes
    BY <1>1, <1>3, <1>6 DEF SerialInv, LatestFits
  <2>2. QED
    BY <1>1, <1>2, <1>3, <1>4, <1>5, <1>6, <2>1 DEF Latest
<1>7. CASE Latest.next # "supervisor"
  <2>1. Latest.next \in {"error_handler", "finished"}
    BY <1>2, <1>7 DEF Checkpoint
  <2>2. Latest.sub = [at |-> Latest.next, values |-> Latest.values] /\ ~Latest.asked
    BY <1>1, <1>7 DEF SerialInv, LatestFits
  <2>3. at[r] = Latest.next /\ vals[r] = Latest.values
    BY <1>3, <2>2
  <2>4. at[r] \notin GraphNodes
    BY <2>1, <2>3 DEF GraphNodes, SupervisorNodes
  <2>5. QED
    BY <1>1, <1>2, <1>3, <1>4, <1>5, <2>2, <2>3, <2>4 DEF Latest
<1>8. QED
  BY <1>6, <1>7

\* A step of a request while the others rest: what it owes the parts of the
\* invariant that are about requests.
LEMMA OwnParts ==
  ASSUME IInv, SerialInv, NEW r \in Requests,
         \A q \in Requests \ {r} : pc[q] \in Resting,
         \A q \in Requests \ {r} : /\ pc'[q] = pc[q] /\ kind'[q] = kind[q]
                                   /\ at'[q] = at[q] /\ interrupted'[q] = interrupted[q],
         pc'[r] = "loaded" =>
           vals'[r] = InitialState(IF ckpts' = <<>> THEN <<>> ELSE Latest'.values.messages, r),
         pc'[r] \in {"running", "ended"} =>
           /\ ckpts' # <<>>
           /\ base'[r] = Len(ckpts')
           /\ Latest'.sub = [at |-> at'[r], values |-> vals'[r]],
         pc'[r] = "ended" => at'[r] \in {"human_review", "finished"},
         (pc'[r] = "done" /\ kind'[r] # "stream") =>
           (interrupted'[r] <=> at'[r] = "human_review")
  PROVE  OneAtATime' /\ InStep' /\ FlagsAreOwn'
<1>1. \A q \in Requests \ {r} : pc'[q] \notin {"loaded", "running", "ended"}
  BY DEF Resting, Over
<1>2. OneAtATime'
  BY DEF OneAtATime, InProgress, Resting
<1>3. InStep'
  BY <1>1 DEF InStep
<1>4. FlagsAreOwn'
  BY DEF SerialInv, FlagsAreOwn
<1>5. QED
  BY <1>2, <1>3, <1>4

\* A step that writes no checkpoint and takes no decision: what it owes the parts
\* that are about the thread.
LEMMA ThreadParts ==
  ASSUME IInv, SerialInv, UNCHANGED <<ckpts, decided>>,
         \A q \in Requests : pc'[q] \in {"idle", "loaded"} => pc[q] \in {"idle", "loaded"},
         \A q \in Requests : (pc'[q] \in Writing /\ kind'[q] # "resume") =>
                               (pc[q] \in Writing /\ kind[q] # "resume")
  PROVE  LatestFits' /\ ReviewsPassed' /\ AnsweredKept'
<1>1. \A q \in Requests : pc[q] \notin {"idle", "loaded"} => pc'[q] \notin {"idle", "loaded"}
  OBVIOUS
<1>2. \A d \in decided : d.turn \in Requests
  BY DEF IInv, TypeOK
<1>3. ckpts # <<>> => Latest.values.turn \in Requests
  BY HistoryType, LatestType DEF Checkpoint, Values
<1>4. Latest' = Latest
  BY DEF Latest
<1>5. LatestFits'
  BY <1>1, <1>3, <1>4 DEF SerialInv, LatestFits
<1>6. ReviewsPassed'
  BY <1>1, <1>2, <1>4 DEF SerialInv, ReviewsPassed
<1>7. AnsweredKept'
  BY <1>4 DEF SerialInv, AnsweredKept
<1>8. QED
  BY <1>5, <1>6, <1>7

-----------------------------------------------------------------------------
(* The initial state and the steps. *)

\* No request is on its way at first.
LEMMA InitSerial == Init => SerialInv
BY DEF Init, SerialInv, OneAtATime, InProgress, InStep, LatestFits, ReviewsPassed,
       AnsweredKept, FlagsAreOwn, Writing

\* Arriving, nothing is in progress; the thread is left alone.
LEMMA ArriveKeepsSerial ==
  ASSUME Serial, IInv, SerialInv, NEW r \in Requests, ChatLoad(r) \/ ResumeCheck(r)
  PROVE  SerialInv'
<1>1. pc[r] = "idle" /\ \A q \in Requests \ {r} : pc[q] \in Resting
  BY DEF ChatLoad, ResumeCheck, Arrive, InProgress, Resting
<1>2. CASE ChatLoad(r)
  <2>1. /\ kind' \in [Requests -> Kinds]
        /\ \A q \in Requests \ {r} : kind'[q] = kind[q] /\ pc'[q] = pc[q]
        /\ pc'[r] = "loaded"
        /\ vals'[r] = InitialState(IF ckpts = <<>> THEN <<>> ELSE Latest.values.messages, r)
        /\ UNCHANGED <<ckpts, at, interrupted, decided>>
    BY <1>2 DEF ChatLoad, IInv, TypeOK, Kinds
  <2>2. OneAtATime' /\ InStep' /\ FlagsAreOwn'
    BY <1>1, <2>1, OwnParts DEF Latest
  <2>3. LatestFits' /\ ReviewsPassed' /\ AnsweredKept'
    BY <1>1, <2>1, ThreadParts DEF Writing
  <2>4. QED
    BY <2>2, <2>3 DEF SerialInv
<1>3. CASE ResumeCheck(r)
  <2>1. /\ \A q \in Requests \ {r} : kind'[q] = kind[q] /\ pc'[q] = pc[q]
        /\ pc'[r] \in {"checked", "conflict"}
        /\ UNCHANGED <<ckpts, at, interrupted, decided>>
    BY <1>3 DEF ResumeCheck, IInv, TypeOK
  <2>2. OneAtATime' /\ InStep' /\ FlagsAreOwn'
    BY <1>1, <2>1, OwnParts
  <2>3. LatestFits' /\ ReviewsPassed' /\ AnsweredKept'
    BY <1>1, <2>1, ThreadParts DEF Writing
  <2>4. QED
    BY <2>2, <2>3 DEF SerialInv
<1>4. QED
  BY <1>2, <1>3

\* A resume stands where the latest checkpoint's progress stands.
LEMMA ResumeKeepsSerial ==
  ASSUME Serial, IInv, SerialInv, NEW r \in Requests, ResumeBegin(r)
  PROVE  SerialInv'
<1> DEFINE from == IF Latest.next = "supervisor" THEN Latest.sub
                   ELSE [at |-> Latest.next, values |-> Latest.values]
<1>1. /\ pc[r] = "checked"
      /\ base' = [base EXCEPT ![r] = Len(ckpts)]
      /\ at' = [at EXCEPT ![r] = from.at]
      /\ vals' = [vals EXCEPT ![r] = from.values]
      /\ pc' = [pc EXCEPT ![r] = IF from.at = "finished" THEN "ended" ELSE "running"]
      /\ UNCHANGED <<ckpts, kind, interrupted, decided>>
  BY DEF ResumeBegin, historyVars
<1>2. ckpts # <<>> /\ kind[r] = "resume"
  BY <1>1 DEF IInv, ResumeInv
<1>3. Latest.sub \in [at : Nodes, values : Values]
  BY <1>2, HistoryType, LatestType DEF Checkpoint
<1>4. from = Latest.sub
  BY <1>2 DEF SerialInv, LatestFits
<1>5. Latest.sub = [at |-> from.at, values |-> from.values]
  BY <1>3, <1>4
<1> HIDE DEF from
<1>6. \A q \in Requests \ {r} : pc[q] \in Resting
  BY <1>1, OthersRest DEF SerialInv, Resting, Over
<1>7. /\ at'[r] = from.at /\ vals'[r] = from.values /\ base'[r] = Len(ckpts)
      /\ pc'[r] = IF from.at = "finished" THEN "ended" ELSE "running"
      /\ \A q \in Requests \ {r} : pc'[q] = pc[q] /\ at'[q] = at[q]
  BY <1>1 DEF IInv, TypeOK
<1>8. pc'[r] \in {"running", "ended"} /\ (pc'[r] = "ended" => at'[r] = "finished")
  BY <1>7
<1>9. OneAtATime' /\ InStep' /\ FlagsAreOwn'
  <2>1. Latest' = Latest
    BY <1>1 DEF Latest
  <2>2. Latest'.sub = [at |-> at'[r], values |-> vals'[r]]
    BY <1>5, <1>7, <2>1
  <2>3. QED
    BY <1>1, <1>2, <1>6, <1>7, <1>8, <2>2, OwnParts, ZenonT(60)
<1>10. LatestFits' /\ ReviewsPassed' /\ AnsweredKept'
  BY <1>1, <1>2, <1>7, <1>8, ThreadParts
<1>11. QED
  BY <1>9, <1>10 DEF SerialInv

\* A node saves its result: the run and the checkpoint move together.
LEMMA GoOnKeepsSerial ==
  ASSUME IInv, SerialInv, NEW r \in Requests, pc[r] = "running", at[r] \in GraphNodes,
         NEW node \in GraphNodes, NEW v \in Values, GoOn(r, node, v),
         v.turn = vals[r].turn,
         \/ decided' = decided
         \/ \E d \in [by : Requests, turn : Requests, action : Actions] :
              d.turn = v.turn /\ decided' = decided \cup {d} /\ at[r] = "human_review",
         node # "delegate",
         node = "human_review" => at[r] = "delegate",
         at[r] = "human_review" => DecidedIn(decided', v.turn)
  PROVE  SerialInv'
<1> DEFINE turn == vals[r].turn
<1>0. node \in Nodes
  BY DEF GraphNodes, Nodes
<1>1. /\ ckpts # <<>> /\ Len(ckpts) \in 1..Len(ckpts) /\ base[r] = Len(ckpts)
      /\ Latest = ckpts[Len(ckpts)]
      /\ Latest.sub.at = at[r] /\ Latest.sub.values = vals[r]
      /\ Latest.next = "supervisor"
      /\ Latest.values.turn = turn
      /\ turn \in Requests
      /\ pc[turn] \notin {"idle", "loaded"}
  BY RunFacts
<1>2. /\ at'[r] = node /\ vals'[r] = v
      /\ \A q \in Requests \ {r} : at'[q] = at[q] /\ vals'[q] = vals[q]
      /\ UNCHANGED <<base, pc, kind, interrupted>>
  BY <1>0, GoOnType DEF GoOn, requestVars
<1>3. /\ Len(ckpts') = Len(ckpts)
      /\ Latest'.next = Latest.next
      /\ Latest'.values = Latest.values
      /\ Latest'.asked = Latest.asked
      /\ Latest'.sub = [at |-> node, values |-> v]
      /\ ckpts' # <<>>
  <2>1. /\ Len(ckpts') = Len(ckpts)
        /\ ckpts'[Len(ckpts)].next = ckpts[Len(ckpts)].next
        /\ ckpts'[Len(ckpts)].values = ckpts[Len(ckpts)].values
        /\ ckpts'[Len(ckpts)].asked = ckpts[Len(ckpts)].asked
        /\ ckpts'[Len(ckpts)].sub = [at |-> node, values |-> v]
    BY <1>0, <1>1, SaveStep
  <2>2. ckpts' # <<>>
    BY <1>1, <2>1
  <2>3. QED
    BY <2>1, <2>2 DEF Latest
<1> HIDE DEF turn
<1>4. \A q \in Requests \ {r} : pc[q] \in Resting
  BY OthersRest DEF SerialInv, Resting, Over
<1>5. OneAtATime' /\ InStep' /\ FlagsAreOwn'
  BY <1>1, <1>2, <1>3, <1>4, OwnParts, ZenonT(60)
<1>6. v.turn = turn
  BY DEF turn
<1>7. LatestFits'
  <2>1. Latest'.next = "supervisor" /\ Latest'.sub.at = node /\ Latest'.sub.values = v
    BY <1>1, <1>3
  <2>2. Latest'.values.turn = turn /\ pc'[turn] \notin {"idle", "loaded"}
    BY <1>1, <1>2, <1>3
  <2>3. QED
    BY <1>6, <2>1, <2>2 DEF LatestFits
<1>8. ReviewsPassed'
  <2>1. \A t : DecidedIn(decided, t) => DecidedIn(decided', t)
    BY DEF DecidedIn
  <2>2. \A d \in decided' : pc'[d.turn] \notin {"idle", "loaded"}
    BY <1>1, <1>2, <1>6 DEF SerialInv, ReviewsPassed
  <2>3. at[r] \in {"delegate", "human_review"} => ~DecidedIn(decided, turn)
    BY <1>1 DEF SerialInv, ReviewsPassed
  <2>4. \A d, e \in decided' : d.turn = e.turn => d = e
    BY <1>6, <2>3 DEF SerialInv, ReviewsPassed, DecidedIn
  <2>5. Latest'.sub.at = node /\ Latest'.values.turn = turn /\ Latest'.asked = Latest.asked
    BY <1>1, <1>3
  <2>6. node \in {"delegate", "human_review"} => ~DecidedIn(decided', turn)
    BY <2>3
  <2>7. Latest.asked => at[r] = "human_review" \/ DecidedIn(decided, turn)
    BY <1>1 DEF SerialInv, ReviewsPassed
  <2>8. Latest.asked => DecidedIn(decided', turn)
    BY <1>6, <2>1, <2>7
  <2>9. QED
    BY <2>2, <2>4, <2>5, <2>6, <2>8 DEF ReviewsPassed
<1>9. AnsweredKept'
  BY <1>2, <1>3 DEF SerialInv, AnsweredKept
<1>10. QED
  BY <1>5, <1>7, <1>8, <1>9 DEF SerialInv

\* A new checkpoint keeps the turns of the one before.
LEMMA AppendKeepsSerial ==
  ASSUME IInv, SerialInv, NEW r \in Requests, pc[r] \notin Resting,
         NEW next \in {"supervisor", "error_handler", "finished"},
         NEW node \in Nodes, NEW v \in Values,
         ckpts' = Append(ckpts, [next |-> next, values |-> v,
                                 sub |-> [at |-> node, values |-> v], asked |-> FALSE]),
         base' = [base EXCEPT ![r] = Len(ckpts) + 1],
         at' = [at EXCEPT ![r] = node],
         vals' = [vals EXCEPT ![r] = v],
         UNCHANGED <<kind, interrupted, decided>>,
         \A q \in Requests \ {r} : pc'[q] = pc[q],
         pc'[r] \in {"running", "ended"},
         pc'[r] = "ended" => node = "finished",
         node = IF next = "supervisor" THEN "delegate" ELSE next,
         pc'[v.turn] \notin {"idle", "loaded"},
         node = "delegate" => ~DecidedIn(decided, v.turn),
         ckpts # <<>> => \A q \in Requests :
           TurnIn(Latest.values.messages, q) => TurnIn(v.messages, q),
         kind[r] # "resume" => TurnIn(v.messages, r)
  PROVE  SerialInv'
<1> DEFINE e == [next |-> next, values |-> v,
                 sub |-> [at |-> node, values |-> v], asked |-> FALSE]
           n == Len(ckpts)
<1>1. /\ e \in Checkpoint /\ e.next = next /\ e.values = v /\ e.asked = FALSE
      /\ e.sub = [at |-> node, values |-> v] /\ e.sub.at = node /\ e.sub.values = v
  BY DEF Checkpoint
<1> HIDE DEF e
<1>2. /\ n \in Nat
      /\ Len(ckpts') = n + 1
      /\ ckpts'[n + 1] = e
      /\ ckpts' # <<>>
  <2>1. /\ n \in Nat
        /\ Len(ckpts') = n + 1
        /\ ckpts'[n + 1] = e
    BY <1>1, HistoryType, AppendStep DEF e
  <2>2. ckpts' # <<>>
    BY <2>1
  <2>3. QED
    BY <2>1, <2>2
<1>3. Latest' = e /\ Len(ckpts') = n + 1
  BY <1>2 DEF Latest
<1> HIDE DEF n
<1>4. /\ at'[r] = node /\ vals'[r] = v /\ base'[r] = n + 1
      /\ \A q \in Requests \ {r} : at'[q] = at[q]
  BY DEF IInv, TypeOK, n
<1>5. \A q \in Requests \ {r} : pc[q] \in Resting
  BY OthersRest DEF SerialInv
<1>6. OneAtATime' /\ InStep' /\ FlagsAreOwn'
  BY <1>1, <1>2, <1>3, <1>4, <1>5, OwnParts
<1>7. LatestFits'
  BY <1>1, <1>3 DEF LatestFits, GraphNodes, SupervisorNodes
<1>8. ReviewsPassed'
  <2>1. \A q \in Requests : pc[q] \notin {"idle", "loaded"} => pc'[q] \notin {"idle", "loaded"}
    OBVIOUS
  <2>2. \A d \in decided : d.turn \in Requests
    BY DEF IInv, TypeOK
  <2>3. \A d \in decided' : pc'[d.turn] \notin {"idle", "loaded"}
    BY <2>1, <2>2 DEF SerialInv, ReviewsPassed
  <2>4. node # "human_review"
    OBVIOUS
  <2>5. QED
    BY <1>1, <1>3, <2>3, <2>4 DEF SerialInv, ReviewsPassed
<1>9. AnsweredKept'
  <2> SUFFICES ASSUME NEW q \in Requests, pc'[q] \in Writing, kind[q] # "resume"
               PROVE  TurnIn(v.messages, q)
    BY <1>1, <1>2, <1>3 DEF AnsweredKept
  <2>1. CASE q = r
    BY <2>1
  <2>2. CASE q # r
    BY <2>2 DEF SerialInv, AnsweredKept
  <2>3. QED
    BY <2>1, <2>2
<1>10. QED
  BY <1>6, <1>7, <1>8, <1>9 DEF SerialInv

\* Adding messages loses no turn.
LEMMA ExtendedTurns ==
  ASSUME NEW messages \in Seq(Message), NEW kinds \in Seq(MessageKinds),
         NEW turn \in Requests
  PROVE  LET longer == Extended(messages, kinds, turn)
         IN  /\ \A q : TurnIn(messages, q) => TurnIn(longer, q)
             /\ Len(kinds) > 0 => TurnIn(longer, turn)
<1> DEFINE longer == Extended(messages, kinds, turn)
           m == Len(messages)
           n == Len(kinds)
<1>1. /\ Len(longer) = m + n
      /\ \A i \in 1..m : longer[i] = messages[i]
      /\ \A i \in 1..n : longer[m + i].turn = turn
  BY ExtendedShape
<1>2. m \in Nat /\ n \in Nat
  BY LenProperties
<1> HIDE DEF longer, m, n
<1>3. ASSUME NEW q, TurnIn(messages, q) PROVE TurnIn(longer, q)
  <2>1. PICK i \in 1..m : messages[i].turn = q
    BY <1>3 DEF TurnIn, m
  <2>2. i \in 1..(m + n) /\ longer[i].turn = q
    BY <1>1, <1>2, <2>1
  <2>3. QED
    BY <1>1, <2>2 DEF TurnIn
<1>4. ASSUME n > 0 PROVE TurnIn(longer, turn)
  <2>1. 1 \in 1..n /\ m + 1 \in 1..(m + n)
    BY <1>2, <1>4
  <2>2. QED
    BY <1>1, <2>1 DEF TurnIn
<1>5. QED
  BY <1>3, <1>4 DEF longer, n

\* A turn that is in the history is in it after a merge.
LEMMA MergedTurns ==
  ASSUME NEW left \in Seq(Message), NEW right \in Seq(Message), WellFormed(right)
  PROVE  \A q : TurnIn(left, q) => TurnIn(AddMessages(left, right), q)
<1> DEFINE merged == AddMessages(left, right)
           m == Len(left)
<1>1. PICK k \in 0..Len(right) :
        /\ Len(merged) = m + (Len(right) - k)
        /\ \A i \in 1..m : merged[i] = left[i]
  BY AddMessagesShape
<1>2. m \in Nat /\ Len(right) - k \in Nat
  <2>1. Len(right) \in Nat
    BY LenProperties
  <2>2. QED
    BY <2>1, LenProperties
<1> HIDE DEF merged, m
<1>3. ASSUME NEW q, TurnIn(left, q) PROVE TurnIn(merged, q)
  <2>1. PICK i \in 1..m : left[i].turn = q
    BY <1>3 DEF TurnIn, m
  <2>2. i \in 1..Len(merged) /\ merged[i].turn = q
    BY <1>1, <1>2, <2>1
  <2>3. QED
    BY <2>2 DEF TurnIn
<1>4. QED
  BY <1>3 DEF merged

\* The message of the run enters the thread's history with its first checkpoint.
LEMMA ChatBeginKeepsSerial ==
  ASSUME IInv, SerialInv, NEW r \in Requests, ChatBegin(r)
  PROVE  SerialInv'
<1> DEFINE seen == IF ckpts = <<>> THEN <<>> ELSE Latest.values.messages
<1>1. /\ pc[r] = "loaded" /\ pc[r] \notin Resting
      /\ ckpts' = Append(ckpts, [next |-> "supervisor", values |-> vals[r],
                                 sub |-> [at |-> "delegate", values |-> vals[r]],
                                 asked |-> FALSE])
      /\ base' = [base EXCEPT ![r] = Len(ckpts) + 1]
      /\ at' = [at EXCEPT ![r] = "delegate"]
      /\ pc' = [pc EXCEPT ![r] = "running"]
      /\ UNCHANGED <<vals, kind, interrupted, decided>>
  BY DEF ChatBegin, historyVars, Resting, Over
<1>2. vals[r] = InitialState(seen, r)
  BY <1>1 DEF SerialInv, InStep
<1>3. seen \in Seq(Message)
  BY EmptyIsWhole, HistoryType, LatestType
<1> HIDE DEF seen
<1>4. vals[r].turn = r /\ vals[r].messages = Extended(seen, <<"human">>, r)
  BY <1>2 DEF InitialState
<1>5. \A q : TurnIn(seen, q) => TurnIn(vals[r].messages, q)
  <2>1. <<"human">> \in Seq(MessageKinds)
    BY DEF MessageKinds
  <2>2. QED
    BY <1>3, <1>4, <2>1, ExtendedTurns
<1>6. TurnIn(vals[r].messages, r)
  <2>1. <<"human">> \in Seq(MessageKinds) /\ Len(<<"human">>) > 0
    BY DEF MessageKinds
  <2>2. QED
    BY <1>3, <1>4, <2>1, ExtendedTurns
<1>7. vals' = [vals EXCEPT ![r] = vals[r]] /\ vals[r] \in Values
  BY <1>1, HistoryType DEF IInv, TypeOK
<1>8. pc'[r] = "running" /\ \A q \in Requests \ {r} : pc'[q] = pc[q]
  BY <1>1 DEF IInv, TypeOK
<1>9. ~DecidedIn(decided, r)
  BY <1>1 DEF SerialInv, ReviewsPassed, DecidedIn
<1>10. "delegate" \in Nodes
  BY DEF Nodes, SupervisorNodes
<1>11. ckpts # <<>> => \A q \in Requests :
         TurnIn(Latest.values.messages, q) => TurnIn(vals[r].messages, q)
  BY <1>5 DEF seen
<1>12. QED
  BY <1>1, <1>4, <1>6, <1>7, <1>8, <1>9, <1>10, <1>11, AppendKeepsSerial, ZenonT(60)

\* The nodes that take no decision: where they go, and that the turn stays.
LEMMA NodeStep ==
  ASSUME IInv, NEW r \in Requests,
         Delegate(r) \/ Researcher(r) \/ WorkspaceReply(r) \/ Chat(r) \/ MemoryManager(r)
  PROVE  \E node \in GraphNodes, v \in Values :
           /\ GoOn(r, node, v)
           /\ v.turn = vals[r].turn
           /\ node # "delegate"
           /\ node = "human_review" => at[r] = "delegate"
<1>0. vals[r] \in Values /\ vals[r].turn \in Requests /\ vals[r].messages \in Seq(Message)
  BY HistoryType DEF Values
<1>1. CASE Delegate(r)
  <2>1. PICK raw \in RawAgents, asksLocalTime \in LocalTime :
          LET v == [vals[r] EXCEPT
                      !.next_agent = Delegation(raw, asksLocalTime, IncludeWorkspace)]
          IN  GoOn(r, RouteToHumanReview(FALSE, v.next_agent), v)
    BY <1>1 DEF Delegate
  <2> DEFINE agent == Delegation(raw, asksLocalTime, IncludeWorkspace)
             v == [vals[r] EXCEPT !.next_agent = agent]
             node == RouteToHumanReview(FALSE, agent)
  <2>2. agent \in Agents
    BY DelegationType
  <2> HIDE DEF agent
  <2>3. v \in Values /\ v.next_agent = agent /\ v.turn = vals[r].turn
    BY <1>0, <2>2 DEF Values
  <2>4. node \in GraphNodes /\ node # "delegate"
    BY <2>2 DEF RouteToHumanReview, NormalizeAgent, LegacyNextAgent, Agents, NoAgent,
                GraphNodes, SupervisorNodes
  <2>5. GoOn(r, node, v)
    BY <2>1, <2>3 DEF agent
  <2>6. at[r] = "delegate"
    BY <1>1 DEF Delegate, Step
  <2> HIDE DEF v, node
  <2>7. QED
    BY <2>3, <2>4, <2>5, <2>6
<1>2. CASE Researcher(r) \/ WorkspaceReply(r) \/ Chat(r)
  <2>1. PICK new : /\ new \in AgentOutputs \/ new = <<"ai">>
                   /\ GoOn(r, RoutePostReply(Says(vals[r], new)), Says(vals[r], new))
    BY <1>2 DEF Researcher, WorkspaceReply, Chat
  <2>2. new \in Seq(MessageKinds)
    <3>1. <<"ai">> \in Seq(MessageKinds)
      BY DEF MessageKinds
    <3>2. QED
      BY <2>1, <3>1, OutputsType
  <2> DEFINE v == Says(vals[r], new)
             node == RoutePostReply(v)
  <2>3. v \in Values /\ v.turn = vals[r].turn
    BY <1>0, <2>2, SaysType
  <2>4. GoOn(r, node, v)
    BY <2>1
  <2> HIDE DEF v
  <2>5. node \in GraphNodes /\ node # "delegate" /\ node # "human_review"
    BY PostReplyRoutes DEF GraphNodes, SupervisorNodes
  <2>6. QED
    BY <2>3, <2>4, <2>5
<1>3. CASE MemoryManager(r)
  <2>0. PICK room \in Rooms :
          GoOn(r, "end", [vals[r] EXCEPT !.messages = Compacted(@, vals[r].turn, room)])
    BY <1>3 DEF MemoryManager
  <2> DEFINE v == [vals[r] EXCEPT !.messages = Compacted(@, vals[r].turn, room)]
  <2>1. v \in Values /\ v.turn = vals[r].turn
    BY <1>0, CompactedType, SettingsAssumption DEF Values
  <2>2. GoOn(r, "end", v)
    BY <2>0
  <2>3. "end" \in GraphNodes
    BY DEF GraphNodes
  <2> HIDE DEF v
  <2>4. QED
    BY <2>1, <2>2, <2>3
<1>4. QED
  BY <1>1, <1>2, <1>3

\* The nodes that only speak, route or compact keep the invariant.
LEMMA NodesKeepSerial ==
  ASSUME IInv, SerialInv, NEW r \in Requests,
         Delegate(r) \/ Researcher(r) \/ WorkspaceReply(r) \/ Chat(r) \/ MemoryManager(r)
  PROVE  SerialInv'
<1>1. /\ pc[r] = "running" /\ at[r] \in GraphNodes /\ at[r] # "human_review"
      /\ decided' = decided
  BY DEF Delegate, Researcher, WorkspaceReply, Chat, MemoryManager, Step, GraphNodes,
         SupervisorNodes
<1>2. QED
  BY <1>1, NodeStep, GoOnKeepsSerial

\* The review takes the one decision of its turn and is left for good.
LEMMA HumanReviewKeepsSerial ==
  ASSUME IInv, SerialInv, NEW r \in Requests, HumanReview(r)
  PROVE  SerialInv'
<1> DEFINE answer == resume[r]
           v == AfterReview(vals[r], answer)
           node == RouteAfterHumanReview(v.human_feedback, v.next_agent)
           d0 == [by |-> r, turn |-> vals[r].turn, action |-> answer]
<1>1. /\ pc[r] = "running" /\ at[r] = "human_review" /\ answer # NoAction
      /\ GoOn(r, node, v)
      /\ decided' = decided \cup {d0}
  BY DEF HumanReview, Step
<1>2. vals[r] \in Values /\ answer \in Actions /\ vals[r].turn \in Requests
      /\ vals[r].next_agent \in Agents \cup {NoAgent}
  BY <1>1 DEF IInv, TypeOK, Values
<1>3. v \in Values /\ v.turn = vals[r].turn /\ v.human_feedback = answer
      /\ v.next_agent = vals[r].next_agent
  BY <1>2, AfterReviewType
<1>4. /\ d0 \in [by : Requests, turn : Requests, action : Actions]
      /\ d0.turn = vals[r].turn
  BY <1>2
<1> HIDE DEF answer, v, d0
<1>5. node \in GraphNodes /\ node # "delegate" /\ node # "human_review"
  BY <1>2, <1>3 DEF RouteAfterHumanReview, NormalizeAgent, LegacyNextAgent, Agents, NoAgent,
                    GraphNodes, SupervisorNodes
<1>6. at[r] \in GraphNodes
  BY <1>1 DEF GraphNodes, SupervisorNodes
<1>7. DecidedIn(decided', v.turn)
  BY <1>1, <1>3, <1>4 DEF DecidedIn
<1> HIDE DEF node
<1>8. QED
  BY <1>1, <1>3, <1>4, <1>5, <1>6, <1>7, GoOnKeepsSerial

\* The supervisor's messages are added to the master's, which loses none.
LEMMA MasterKeepsSerial ==
  ASSUME IInv, MsgInv, SerialInv, NEW r \in Requests, SupervisorEnd(r) \/ ErrorHandler(r)
  PROVE  SerialInv'
<1>1. pc[r] = "running" /\ pc[r] \notin Resting
  BY DEF SupervisorEnd, ErrorHandler, Step, Resting, Over
<1>2. /\ ckpts # <<>> /\ Len(ckpts) \in 1..Len(ckpts) /\ base[r] = Len(ckpts)
      /\ Latest = ckpts[Len(ckpts)]
      /\ Latest.sub.values = vals[r]
      /\ at[r] \notin GraphNodes => Latest.values = vals[r]
      /\ vals[r].turn \in Requests
      /\ pc[vals[r].turn] \notin {"idle", "loaded"}
  BY <1>1, RunFacts
<1>3. /\ vals[r] \in Values /\ vals[r].messages \in Seq(Message)
      /\ WellFormed(vals[r].messages)
      /\ Latest.values.messages \in Seq(Message)
  BY <1>2, HistoryType DEF MsgInv, HistoriesAreWhole
<1>4. "error_handler" \in Nodes /\ "finished" \in Nodes /\ "error_handler" \notin GraphNodes
  BY DEF Nodes, GraphNodes, SupervisorNodes
<1>5. kind[r] # "resume" => TurnIn(Latest.values.messages, r)
  BY <1>1 DEF SerialInv, AnsweredKept, Writing
<1>6. CASE SupervisorEnd(r)
  <2> DEFINE left == Latest.values.messages
             v == [vals[r] EXCEPT !.messages = AddMessages(left, @)]
  <2>1. Commit(r, "error_handler", v) /\ pc' = pc
    BY <1>2, <1>6 DEF SupervisorEnd
  <2>2. v \in Values /\ v.messages = AddMessages(left, vals[r].messages)
        /\ v.turn = vals[r].turn
    BY <1>3, AddMessagesType DEF Values
  <2>3. \A q : TurnIn(left, q) => TurnIn(v.messages, q)
    BY <1>3, <2>2, MergedTurns
  <2> HIDE DEF v
  <2>4. /\ ckpts' = Append(ckpts, [next |-> "error_handler", values |-> v,
                                   sub |-> [at |-> "error_handler", values |-> v],
                                   asked |-> FALSE])
        /\ base' = [base EXCEPT ![r] = Len(ckpts) + 1]
        /\ at' = [at EXCEPT ![r] = "error_handler"]
        /\ vals' = [vals EXCEPT ![r] = v]
        /\ UNCHANGED <<kind, interrupted, decided>>
    BY <2>1 DEF Commit, historyVars
  <2>5. QED
    BY <1>1, <1>2, <1>4, <1>5, <2>1, <2>2, <2>3, <2>4, AppendKeepsSerial
<1>7. CASE ErrorHandler(r)
  <2>1. /\ ckpts' = Append(ckpts, [next |-> "finished", values |-> vals[r],
                                   sub |-> [at |-> "finished", values |-> vals[r]],
                                   asked |-> FALSE])
        /\ base' = [base EXCEPT ![r] = Len(ckpts) + 1]
        /\ at' = [at EXCEPT ![r] = "finished"]
        /\ vals' = [vals EXCEPT ![r] = vals[r]]
        /\ UNCHANGED <<kind, interrupted, decided>>
        /\ pc' = [pc EXCEPT ![r] = "ended"]
        /\ at[r] = "error_handler"
    BY <1>7 DEF ErrorHandler, Commit, Step, historyVars
  <2>2. Latest.values = vals[r]
    BY <1>2, <1>4, <2>1
  <2>3. pc'[r] = "ended" /\ \A q \in Requests \ {r} : pc'[q] = pc[q]
    BY <2>1 DEF IInv, TypeOK
  <2>4. pc'[vals[r].turn] \notin {"idle", "loaded"}
    BY <1>2, <2>3
  <2>5. QED
    BY <1>1, <1>3, <1>4, <1>5, <2>1, <2>2, <2>3, <2>4, AppendKeepsSerial
<1>8. QED
  BY <1>6, <1>7

\* The run stops at the review, and the checkpoint says that it was asked.
LEMMA AskHumanKeepsSerial ==
  ASSUME IInv, SerialInv, NEW r \in Requests, AskHuman(r)
  PROVE  SerialInv'
<1>1. /\ pc[r] = "running" /\ at[r] = "human_review" /\ at[r] \in GraphNodes
      /\ pc' = [pc EXCEPT ![r] = "ended"]
      /\ UNCHANGED <<at, base, vals, kind, interrupted, decided>>
  BY DEF AskHuman, Step, requestVars, historyVars, GraphNodes, SupervisorNodes
<1>2. /\ ckpts # <<>> /\ Len(ckpts) \in 1..Len(ckpts) /\ base[r] = Len(ckpts)
      /\ Latest = ckpts[Len(ckpts)]
      /\ Latest.sub = [at |-> at[r], values |-> vals[r]]
      /\ Latest.sub.at = at[r]
      /\ Latest.next = "supervisor"
      /\ Latest.values.turn \in Requests
  BY <1>1, RunFacts
<1>3. /\ Len(ckpts') = Len(ckpts)
      /\ ckpts' # <<>>
      /\ Latest'.next = Latest.next
      /\ Latest'.values = Latest.values
      /\ Latest'.sub = Latest.sub
  <2>1. /\ Len(ckpts') = Len(ckpts)
        /\ ckpts'[Len(ckpts)].next = ckpts[Len(ckpts)].next
        /\ ckpts'[Len(ckpts)].values = ckpts[Len(ckpts)].values
        /\ ckpts'[Len(ckpts)].sub = ckpts[Len(ckpts)].sub
    BY <1>2, MarkStep
  <2>2. ckpts' # <<>>
    BY <1>2, <2>1
  <2>3. QED
    BY <2>1, <2>2 DEF Latest
<1>4. \A q \in Requests \ {r} : pc[q] \in Resting
  BY <1>1, OthersRest DEF SerialInv, Resting, Over
<1>5. pc'[r] = "ended" /\ \A q \in Requests \ {r} : pc'[q] = pc[q]
  BY <1>1 DEF IInv, TypeOK
<1>6. OneAtATime' /\ InStep' /\ FlagsAreOwn'
  BY <1>1, <1>2, <1>3, <1>4, <1>5, OwnParts
<1>7. \A q \in Requests : pc[q] \notin {"idle", "loaded"} => pc'[q] \notin {"idle", "loaded"}
  BY <1>5
<1>8. LatestFits'
  BY <1>2, <1>3, <1>7 DEF SerialInv, LatestFits
<1>9. ReviewsPassed'
  <2>1. \A d \in decided : d.turn \in Requests
    BY DEF IInv, TypeOK
  <2>2. QED
    BY <1>1, <1>2, <1>3, <1>7, <2>1 DEF SerialInv, ReviewsPassed
<1>10. AnsweredKept'
  BY <1>1, <1>2, <1>3, <1>5 DEF SerialInv, AnsweredKept, Writing
<1>11. QED
  BY <1>6, <1>8, <1>9, <1>10 DEF SerialInv

\* The flag of a response is read from a checkpoint that is the run's own.
LEMMA RespondKeepsSerial ==
  ASSUME IInv, SerialInv, NEW r \in Requests, Respond(r)
  PROVE  SerialInv'
<1>1. /\ pc[r] = "ended"
      /\ pc' = [pc EXCEPT ![r] = "done"]
      /\ interrupted' = [interrupted EXCEPT ![r] = kind[r] # "stream" /\ Paused]
      /\ UNCHANGED <<ckpts, at, base, vals, kind, decided>>
  BY DEF Respond, requestVars, historyVars
<1>2. \A q \in Requests \ {r} : pc[q] \in Resting
  BY <1>1, OthersRest DEF SerialInv, Resting, Over
<1>3. /\ pc'[r] = "done" /\ (interrupted'[r] <=> (kind[r] # "stream" /\ Paused))
      /\ \A q \in Requests \ {r} : pc'[q] = pc[q] /\ interrupted'[q] = interrupted[q]
  BY <1>1 DEF IInv, TypeOK
<1>4. Paused <=> at[r] = "human_review"
  <2>1. /\ at[r] \in {"human_review", "finished"}
        /\ ckpts # <<>>
        /\ at[r] \in GraphNodes => Latest.next = "supervisor"
        /\ at[r] \notin GraphNodes => Latest.next = at[r] /\ ~Latest.asked
    BY <1>1, RunFacts DEF SerialInv, InStep
  <2>2. QED
    BY <2>1 DEF Paused, GraphNodes, SupervisorNodes
<1>5. OneAtATime' /\ InStep' /\ FlagsAreOwn'
  BY <1>1, <1>2, <1>3, <1>4, OwnParts
<1>6. LatestFits' /\ ReviewsPassed' /\ AnsweredKept'
  BY <1>1, <1>3, ThreadParts DEF Writing
<1>7. QED
  BY <1>5, <1>6 DEF SerialInv

\* Tools that run, and requests that fail, write no checkpoint.
LEMMA OthersKeepSerial ==
  ASSUME IInv, SerialInv,
         (\E r \in Requests : WorkspaceTools(r) \/ Fail(r) \/ Disconnect(r)) \/ Crash
  PROVE  SerialInv'
<1>1. /\ \A q \in Requests : pc'[q] = pc[q] \/ (pc'[q] = "failed" /\ pc[q] \notin Resting)
      /\ UNCHANGED <<ckpts, kind, base, at, vals, interrupted, decided>>
  <2>1. ASSUME NEW r \in Requests, WorkspaceTools(r) \/ Fail(r) \/ Disconnect(r)
        PROVE  <1>1!:
    BY <2>1 DEF WorkspaceTools, Fail, Disconnect, requestVars, historyVars, IInv, TypeOK,
                Resting, Over
  <2>2. ASSUME Crash PROVE <1>1!:
    BY <2>2 DEF Crash, InProgress, requestVars, historyVars, Resting, Over
  <2>3. QED
    BY <2>1, <2>2
<1>2. Latest' = Latest
  BY <1>1 DEF Latest
<1>3. OneAtATime'
  BY <1>1 DEF SerialInv, OneAtATime, InProgress, Over
<1>4. InStep'
  BY <1>1, <1>2 DEF SerialInv, InStep
<1>5. FlagsAreOwn'
  BY <1>1 DEF SerialInv, FlagsAreOwn
<1>6. LatestFits' /\ ReviewsPassed' /\ AnsweredKept'
  BY <1>1, ThreadParts DEF Writing
<1>7. QED
  BY <1>3, <1>4, <1>5, <1>6 DEF SerialInv

\* Every step keeps the invariant, if requests come one at a time.
LEMMA NextSerial == Serial /\ IInv /\ MsgInv /\ SerialInv /\ [Next]_vars => SerialInv'
<1> SUFFICES ASSUME Serial, IInv, MsgInv, SerialInv, [Next]_vars PROVE SerialInv'
  OBVIOUS
<1>1. CASE UNCHANGED vars
  <2>1. Latest' = Latest
    BY <1>1 DEF vars, Latest
  <2>2. UNCHANGED <<ckpts, kind, pc, base, at, vals, interrupted, decided>>
    BY <1>1 DEF vars
  <2>3. LatestFits' /\ ReviewsPassed' /\ AnsweredKept'
    BY <2>2, ThreadParts
  <2>4. OneAtATime' /\ InStep' /\ FlagsAreOwn'
    BY <2>1, <2>2 DEF SerialInv, OneAtATime, InProgress, InStep, FlagsAreOwn
  <2>5. QED
    BY <2>3, <2>4 DEF SerialInv
<1>2. ASSUME NEW r \in Requests,
             ChatLoad(r) \/ ResumeCheck(r) \/ RunStep(r) \/ WorkspaceTools(r)
      PROVE  SerialInv'
  <2>1. CASE ChatLoad(r) \/ ResumeCheck(r)
    BY <2>1, ArriveKeepsSerial
  <2>2. CASE ChatBegin(r)
    BY <2>2, ChatBeginKeepsSerial
  <2>3. CASE ResumeBegin(r)
    BY <2>3, ResumeKeepsSerial
  <2>4. CASE \/ Delegate(r) \/ Researcher(r) \/ WorkspaceReply(r)
             \/ Chat(r) \/ MemoryManager(r)
    BY <2>4, NodesKeepSerial
  <2>5. CASE HumanReview(r)
    BY <2>5, HumanReviewKeepsSerial
  <2>6. CASE AskHuman(r)
    BY <2>6, AskHumanKeepsSerial
  <2>7. CASE SupervisorEnd(r) \/ ErrorHandler(r)
    BY <2>7, MasterKeepsSerial
  <2>8. CASE Respond(r)
    BY <2>8, RespondKeepsSerial
  <2>9. CASE WorkspaceTools(r)
    BY <2>9, OthersKeepSerial
  <2>10. QED
    BY <1>2, <2>1, <2>2, <2>3, <2>4, <2>5, <2>6, <2>7, <2>8, <2>9 DEF RunStep
<1>3. CASE (\E r \in Requests : Fail(r) \/ Disconnect(r)) \/ Crash
  BY <1>3, OthersKeepSerial
<1>4. QED
  BY <1>1, <1>2, <1>3 DEF Next

\* Serial is a constant: a thread is served one request at a time or it is not.
LEMMA SerialInvariance == Spec => [](Serial => SerialInv)
<1> DEFINE SInv == Serial => SerialInv
<1>1. Init => SInv
  BY InitSerial
<1>2. IInv /\ MsgInv /\ SInv /\ [Next]_vars => SInv'
  BY NextSerial
<1> HIDE DEF SInv
<1>3. Spec => []SInv
  BY <1>1, <1>2, Invariance, MsgInvariance, PTL DEF Spec
<1>4. QED
  BY <1>3 DEF SInv

-----------------------------------------------------------------------------
(* What follows for every thread that is served one request at a time. *)

\* The history of the latest checkpoint has the message of every answered request,
\* whatever failed, was interrupted, was resumed or was compacted in between
\* (main_graph_builder.py, BaseAgentState's add_messages).
THEOREM AnsweredTurnsKept == Spec => []AnsweredTurnsAreKept
<1>1. ASSUME IInv, Serial => SerialInv PROVE AnsweredTurnsAreKept
  <2> SUFFICES ASSUME Serial, NEW r \in Requests, pc[r] = "done", kind[r] # "resume"
               PROVE  \E i \in DOMAIN Latest.values.messages :
                        Latest.values.messages[i].turn = r
    BY DEF AnsweredTurnsAreKept
  <2>1. ckpts # <<>> /\ TurnIn(Latest.values.messages, r)
    BY <1>1 DEF SerialInv, AnsweredKept, Writing
  <2>2. Latest.values.messages \in Seq(Message)
    BY <1>1, <2>1, HistoryType, LatestType
  <2>3. DOMAIN Latest.values.messages = 1..Len(Latest.values.messages)
    BY <2>2, LenProperties
  <2>4. QED
    BY <2>1, <2>3 DEF TurnIn
<1>2. QED
  BY <1>1, Invariance, SerialInvariance, PTL

\* A review request is decided at most once, also when the run that consumed the
\* decision failed and the thread was resumed again: the subgraph's checkpoint is
\* past the review by then (human_review_node.py, supervisor_graph.py).
THEOREM ReviewsDecidedOnce == Spec => []OneDecisionPerReview
<1>1. (Serial => SerialInv) => OneDecisionPerReview
  BY DEF SerialInv, ReviewsPassed, OneDecisionPerReview
<1>2. QED
  BY <1>1, SerialInvariance, PTL

\* A response says interrupted exactly when its own run stopped at the review
\* (to_run_result, which reads the thread again after the run).
THEOREM FlagIsOfTheRun == Spec => []InterruptedIsOwn
<1>1. (Serial => SerialInv) => InterruptedIsOwn
  BY DEF SerialInv, FlagsAreOwn, InterruptedIsOwn
<1>2. QED
  BY <1>1, SerialInvariance, PTL

-----------------------------------------------------------------------------
(* The pending review. *)

PendingGoes ==
  (Serial /\ ckpts # <<>> /\ Latest.asked /\ ~Latest'.asked)
    => \/ \E d \in decided : d.turn = Latest.values.turn
       \/ Latest'.values.turn # Latest.values.turn

\* Every step leaves the latest checkpoint's flag, sets it, or writes a new one.
LEMMA FlagSteps ==
  ASSUME IInv, SerialInv, ckpts # <<>>, [Next]_vars
  PROVE  \/ Latest'.asked = Latest.asked \/ Latest'.asked
         \/ \E r \in Requests : ChatBegin(r) \/ SupervisorEnd(r) \/ ErrorHandler(r)
<1>0. Len(ckpts) \in 1..Len(ckpts)
  BY HistoryType, LatestType
<1>1. CASE ckpts' = ckpts
  BY <1>1 DEF Latest
<1>2. ASSUME NEW r \in Requests, AskHuman(r)
      PROVE  Latest'.asked = Latest.asked \/ Latest'.asked
  BY <1>0, <1>2, MarkStep DEF Latest
<1>3. ASSUME NEW r \in Requests, NEW node \in Nodes, NEW v \in Values, pc[r] = "running",
             GoOn(r, node, v)
      PROVE  Latest'.asked = Latest.asked
  BY <1>0, <1>3, SaveStep DEF Latest
<1>4. ASSUME NEW r \in Requests,
             Delegate(r) \/ Researcher(r) \/ WorkspaceReply(r) \/ Chat(r) \/ MemoryManager(r)
      PROVE  Latest'.asked = Latest.asked
  <2>1. PICK node \in GraphNodes, v \in Values : GoOn(r, node, v)
    BY <1>4, NodeStep
  <2>2. pc[r] = "running" /\ node \in Nodes
    BY <1>4 DEF Delegate, Researcher, WorkspaceReply, Chat, MemoryManager, Step, GraphNodes,
                Nodes
  <2>3. QED
    BY <1>3, <2>1, <2>2
<1>5. ASSUME NEW r \in Requests, HumanReview(r)
      PROVE  Latest'.asked = Latest.asked
  <2> DEFINE v == AfterReview(vals[r], resume[r])
             node == RouteAfterHumanReview(v.human_feedback, v.next_agent)
  <2>1. GoOn(r, node, v) /\ pc[r] = "running" /\ vals[r] \in Values /\ resume[r] \in Actions
    BY <1>5 DEF HumanReview, Step, IInv, TypeOK
  <2>2. v \in Values
    BY <2>1, AfterReviewType
  <2>3. v.next_agent \in Agents \cup {NoAgent}
    BY <2>2 DEF Values
  <2> HIDE DEF v
  <2>4. node \in Nodes
    BY <2>3, ReviewRoutes
  <2>5. QED
    BY <1>3, <2>1, <2>2, <2>4
<1>6. CASE Crash \/ UNCHANGED vars
  BY <1>1, <1>6 DEF Crash, vars
<1>7. ASSUME NEW r \in Requests,
             \/ ChatLoad(r) \/ ResumeCheck(r) \/ ResumeBegin(r) \/ WorkspaceTools(r)
             \/ Respond(r) \/ Fail(r) \/ Disconnect(r)
      PROVE  ckpts' = ckpts
  BY <1>7 DEF ChatLoad, ResumeCheck, ResumeBegin, WorkspaceTools, Respond, Fail, Disconnect
<1>8. QED
  BY <1>1, <1>2, <1>4, <1>5, <1>6, <1>7 DEF Next, RunStep

\* A pending review request only goes away by being decided or by a newer message:
\* the run at its end has passed the review, and one past the supervisor graph has
\* nothing pending (main_graph_builder.py, human_review_node.py).
THEOREM PendingReviewIsKept == Spec => PendingReviewStays
<1>1. ASSUME IInv, Serial => SerialInv, [Next]_vars PROVE PendingGoes
  <2> SUFFICES ASSUME Serial, ckpts # <<>>, Latest.asked, ~Latest'.asked
               PROVE  \/ DecidedIn(decided, Latest.values.turn)
                      \/ Latest'.values.turn # Latest.values.turn
    BY DEF PendingGoes, DecidedIn
  <2>1. SerialInv
    BY <1>1
  <2>2. Latest.asked \in BOOLEAN
    BY <1>1, HistoryType, LatestType DEF Checkpoint
  <2>3. PICK r \in Requests : ChatBegin(r) \/ SupervisorEnd(r) \/ ErrorHandler(r)
    BY <1>1, <2>1, <2>2, FlagSteps
  <2>4. CASE ChatBegin(r)
    <3>1. /\ pc[r] = "loaded"
          /\ ckpts' = Append(ckpts, [next |-> "supervisor", values |-> vals[r],
                                     sub |-> [at |-> "delegate", values |-> vals[r]],
                                     asked |-> FALSE])
      BY <2>4 DEF ChatBegin
    <3>2. vals[r].turn = r
      <4>1. vals[r] = InitialState(Latest.values.messages, r)
        BY <2>1, <3>1 DEF SerialInv, InStep
      <4>2. QED
        BY <4>1 DEF InitialState
    <3> DEFINE e == [next |-> "supervisor", values |-> vals[r],
                     sub |-> [at |-> "delegate", values |-> vals[r]], asked |-> FALSE]
    <3>3. e \in Checkpoint /\ e.values = vals[r]
      BY <1>1, HistoryType DEF Checkpoint, Nodes, SupervisorNodes
    <3>4. Len(ckpts') = Len(ckpts) + 1 /\ ckpts'[Len(ckpts) + 1] = e
      BY <1>1, <3>1, <3>3, HistoryType, AppendStep
    <3> HIDE DEF e
    <3>5. Latest'.values.turn = r
      BY <3>2, <3>3, <3>4 DEF Latest
    <3>6. pc[Latest.values.turn] # "loaded"
      BY <2>1 DEF SerialInv, LatestFits
    <3>7. QED
      BY <3>1, <3>5, <3>6
  <2>5. CASE SupervisorEnd(r)
    <3>1. Latest.sub.at = "end"
      BY <1>1, <2>1, <2>5, RunFacts DEF SupervisorEnd, Step
    <3>2. QED
      BY <2>1, <3>1 DEF SerialInv, ReviewsPassed
  <2>6. CASE ErrorHandler(r)
    <3>1. pc[r] = "running" /\ at[r] \notin GraphNodes
      BY <2>6 DEF ErrorHandler, Step, GraphNodes, SupervisorNodes
    <3>2. ~Latest.asked
      BY <1>1, <2>1, <3>1, RunFacts
    <3>3. QED
      BY <3>2
  <2>7. QED
    BY <2>3, <2>4, <2>5, <2>6
<1>2. Spec => [][PendingGoes]_vars
  BY <1>1, Invariance, SerialInvariance, PTL DEF Spec
<1>3. QED
  BY <1>2 DEF PendingReviewStays, PendingGoes

=============================================================================
