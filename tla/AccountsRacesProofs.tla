------------------------- MODULE AccountsRacesProofs -------------------------
(***************************************************************************)
(* Theorems about what concurrent requests do to each other: which of them *)
(* can wait in a circle, which errors are races, and where the columns a   *)
(* lost update leaves come from.                                           *)
(***************************************************************************)
EXTENDS AccountsProofs

(***************************************************************************)
(* Deadlocks.  A request of a circle waits and is waited for, so it holds  *)
(* a row already: only an update at the index and a deletion at its own    *)
(* row or its cascade do both.                                             *)
(***************************************************************************)
IndexUpdate(r) == /\ call[r].op = "update_user" /\ pc[r] = "index"
                  /\ userRows[r] = {call[r].who} /\ sessionRows[r] = {}

Erases(r) == /\ call[r].op = "delete_user" /\ pc[r] = "row"
             /\ userRows[r] = {} /\ sessionRows[r] \subseteq SessionsOf(call[r].who)

Cascades(r) == /\ call[r].op = "delete_user" /\ pc[r] = "cascade"
               /\ userRows[r] = {call[r].who}
               /\ sessionRows[r] \subseteq SessionsOf(call[r].who)

\* Whoever is waited for has come to its commit, or holds a row.
LEMMA WaitedForHolds ==
  ASSUME NEW r \in Requests, NEW q \in Requests, WaitsFor(r, q)
  PROVE  pc[q] = "commit" \/ ~Clean(q)
BY DEF WaitsFor, WaitsForRow, WaitsForAddress, SharesKey, Clean

\* Whoever waits is at a statement that writes.
LEMMA WaiterWrites ==
  ASSUME NEW r \in Requests, NEW q \in Requests, WaitsFor(r, q)
  PROVE  pc[r] \in {"row", "index", "sessions", "cascade", "insert"}
BY DEF WaitsFor

\* A part of a circle waits for one of it, and is waited for by one of it.
LEMMA CircleEdges ==
  ASSUME NEW S \in SUBSET Requests, Stuck(S), NEW r \in S
  PROVE  /\ \E q \in S : WaitsFor(r, q)
         /\ \E q \in S : WaitsFor(q, r)
<1>1. {r} \in (SUBSET S) \ {{}, S}
  BY DEF Stuck
<1>2. S \ {r} \in (SUBSET S) \ {{}, S}
  BY DEF Stuck
<1>3. \E q \in S : WaitsFor(r, q)
  BY <1>1, ZenonT(60) DEF Stuck
<1>4. PICK p \in S \ {r}, q \in S \ (S \ {r}) : WaitsFor(p, q)
  BY <1>2 DEF Stuck
<1>5. q = r
  BY <1>4
<1>6. QED
  BY <1>3, <1>4, <1>5

\* What a part of a circle is.
LEMMA CircleParts ==
  ASSUME Inv, NEW S \in SUBSET Requests, Stuck(S), NEW r \in S
  PROVE  IndexUpdate(r) \/ Erases(r) \/ Cascades(r)
<1>1. Own(r) /\ call[r].op \in Ops
  BY OpAt DEF Inv
<1>2. pc[r] \in {"row", "index", "sessions", "cascade", "insert"} /\ ~Clean(r)
  BY CircleEdges, WaiterWrites, WaitedForHolds
<1>3. call[r].op \in {"update_user", "delete_user"}
  BY <1>1, <1>2 DEF Own, Ops, Clean, RegisterOwn, CreateOwn, SessionOwn
<1>4. CASE call[r].op = "update_user"
  BY <1>1, <1>2, <1>4 DEF Own, UpdateOwn, Clean, IndexUpdate
<1>5. CASE call[r].op = "delete_user"
  BY <1>1, <1>2, <1>5 DEF Own, DeleteOwn, Clean, Erases, Cascades
<1>6. QED
  BY <1>3, <1>4, <1>5

\* Inside a circle a deletion waits for the holder of its user or for a deletion of its user.
LEMMA DeletionWaits ==
  ASSUME Inv, NEW S \in SUBSET Requests, Stuck(S), NEW r \in S, NEW q \in S,
         call[r].op = "delete_user", WaitsFor(r, q)
  PROVE  call[q].who = call[r].who /\ (Erases(r) \/ call[q].op = "delete_user")
<1>1. Erases(r) \/ Cascades(r)
  BY CircleParts DEF IndexUpdate
<1>2. IndexUpdate(q) \/ Erases(q) \/ Cascades(q)
  BY CircleParts
<1>3. CASE Erases(r)
  BY <1>2, <1>3 DEF Erases, Cascades, IndexUpdate, WaitsFor, WaitsForRow, SharesKey
<1>4. CASE Cascades(r)
  BY <1>2, <1>4 DEF Erases, Cascades, IndexUpdate, WaitsFor, SessionsOf
<1>5. QED
  BY <1>1, <1>3, <1>4

\* Nobody in a circle waits for a deletion that is still at its own row, but its own cascades.
LEMMA ErasesAwaited ==
  ASSUME Inv, NEW S \in SUBSET Requests, Stuck(S), NEW r \in S, NEW q \in S,
         Erases(q), WaitsFor(r, q)
  PROVE  Cascades(r)
<1>1. IndexUpdate(r) \/ Erases(r) \/ Cascades(r)
  BY CircleParts
<1>2. QED
  BY <1>1 DEF Erases, Cascades, IndexUpdate, WaitsFor, WaitsForRow, WaitsForAddress, SharesKey

\* Requests wait for each other in a circle only if all of them delete one
\* user, or all change addresses: no other pair of operations can deadlock.
THEOREM UserDeadlocks == Spec => []DeadlocksAreOfUsers
<1>1. Inv => DeadlocksAreOfUsers
  <2> SUFFICES ASSUME Inv, NEW S \in SUBSET Requests, Stuck(S)
               PROVE  \/ \A r, q \in S : call[r].op = "delete_user" /\ call[r].who = call[q].who
                      \/ \A r \in S : call[r].op = "update_user"
    BY DEF DeadlocksAreOfUsers
  <2>1. ASSUME NEW d \in S, Cascades(d)
        PROVE  \A r \in S : call[r].op = "delete_user" /\ call[r].who = call[d].who
    <3> DEFINE T == {r \in S : call[r].op = "delete_user" /\ call[r].who = call[d].who}
    <3>1. d \in T
      BY <2>1 DEF Cascades
    <3>2. ASSUME T # S PROVE FALSE
      <4>1. T \in (SUBSET S) \ {{}, S}
        BY <3>1, <3>2
      <4>2. PICK r \in T, q \in S \ T : WaitsFor(r, q)
        BY <4>1 DEF Stuck
      <4>3. call[q].who = call[d].who /\ (Erases(r) \/ call[q].op = "delete_user")
        BY <4>2, DeletionWaits
      <4>4. call[q].op # "delete_user"
        BY <4>2, <4>3
      <4>5. userRows[q] = {call[d].who} /\ q # d
        BY <4>2, <4>3, <4>4, <2>1, CircleParts DEF IndexUpdate, Erases, Cascades
      <4>6. QED
        BY <2>1, <4>5 DEF Inv, Apart, Cascades
    <3>3. QED
      BY <3>2
  <2>2. ASSUME \A d \in S : ~Cascades(d)
        PROVE  \A r \in S : call[r].op = "update_user"
    <3> SUFFICES ASSUME NEW r \in S PROVE call[r].op = "update_user"
      OBVIOUS
    <3>1. ~Erases(r)
      BY <2>2, CircleEdges, ErasesAwaited
    <3>2. QED
      BY <2>2, <3>1, CircleParts DEF IndexUpdate
  <2>3. QED
    BY <2>1, <2>2
<1>2. QED
  BY <1>1, InvHolds, PTL

(***************************************************************************)
(* One request's step, and what it leaves of the others.                   *)
(***************************************************************************)
Move(r) ==
  \/ RefuseToken(r) \/ RefusePath(r) \/ Login(r) \/ Refresh(r) \/ ReadUser(r) \/ ReadSessions(r)
  \/ Register(r) \/ UpdateUser(r) \/ DeleteUser(r)
  \/ CreateSession(r) \/ RenameSession(r) \/ DeleteSession(r)
  \/ Statement(r) \/ Fail(r)

Untouched(q) ==
  /\ pc'[q] = pc[q] /\ call'[q] = call[q] /\ seen'[q] = seen[q] /\ dirty'[q] = dirty[q]
  /\ targets'[q] = targets[q] /\ row'[q] = row[q] /\ answer'[q] = answer[q]
  /\ userRows'[q] = userRows[q] /\ sessionRows'[q] = sessionRows[q]

\* The end of a request is about that request, and keeps what it was.
LEMMA EndsTouchesOne ==
  ASSUME TypeOK, NEW r \in Requests, NEW outcome \in Answers, Ends(r, outcome)
  PROVE  /\ \A q \in Requests \ {r} : Untouched(q)
         /\ pc'[r] = "done" /\ answer'[r] = outcome /\ userRows'[r] = {}
         /\ call'[r].op = call[r].op /\ call'[r].who = call[r].who
<1>1. call'[r] = NewCall(call[r].op, call[r].who)
  BY DEF Ends, TypeOK
<1>2. call'[r].op = call[r].op /\ call'[r].who = call[r].who
  BY <1>1 DEF NewCall
<1>3. QED
  BY <1>2 DEF Ends, TypeOK, Untouched

\* The requests that end with their first statement.
LEMMA OnceMove ==
  ASSUME NEW r \in Requests,
         \/ RefuseToken(r) \/ RefusePath(r) \/ Login(r) \/ Refresh(r)
         \/ ReadUser(r) \/ ReadSessions(r)
  PROVE  /\ pc[r] = "idle" /\ UNCHANGED <<users, sessions, alone>>
         /\ Ends(r, "ok") \/ Ends(r, "refused")
BY DEF RefuseToken, RefusePath, Login, Refresh, ReadUser, ReadSessions, EndsAtOnce, Asks

\* The six requests that write arrive, or are refused before they have written.
LEMMA ArrivalMove ==
  ASSUME TypeOK, NEW r \in Requests,
         \/ Register(r) \/ UpdateUser(r) \/ DeleteUser(r)
         \/ CreateSession(r) \/ RenameSession(r) \/ DeleteSession(r)
  PROVE  /\ pc[r] = "idle" /\ UNCHANGED <<users, sessions, issued>>
         /\ \/ Ends(r, "refused") /\ UNCHANGED alone
            \/ /\ \A q \in Requests \ {r} : Untouched(q)
               /\ pc'[r] \in {"check", "refetch", "index", "insert"}
               /\ \E c : Arrives(r, c)
               /\ UNCHANGED answer
<1>1. pc[r] = "idle" /\ UNCHANGED <<users, sessions, issued>>
  BY DEF Register, UpdateUser, DeleteUser, CreateSession, RenameSession, DeleteSession, Asks, tables
<1>2. ASSUME NEW c, NEW statement \in {"check", "refetch", "index", "insert"},
             Arrives(r, c), GoesTo(r, statement),
             \A q \in Requests \ {r} : row'[q] = row[q] /\ seen'[q] = seen[q],
             UNCHANGED <<dirty, targets, userRows, sessionRows>>
      PROVE  /\ \A q \in Requests \ {r} : Untouched(q)
             /\ pc'[r] \in {"check", "refetch", "index", "insert"}
             /\ \E d : Arrives(r, d)
             /\ UNCHANGED answer
  BY <1>2 DEF GoesTo, Arrives, Untouched, TypeOK
<1>3. CASE Register(r)
  BY <1>1, <1>2, <1>3 DEF Register, TypeOK
<1>4. CASE UpdateUser(r)
  BY <1>1, <1>2, <1>4 DEF UpdateUser, TypeOK
<1>5. CASE DeleteUser(r) \/ CreateSession(r) \/ RenameSession(r) \/ DeleteSession(r)
  BY <1>1, <1>2, <1>5 DEF DeleteUser, CreateSession, RenameSession, DeleteSession, writes
<1>6. QED
  BY <1>3, <1>4, <1>5

\* A statement continues, or ends the request.
LEMMA StatementMove ==
  ASSUME TypeOK, NEW r \in Requests, Statement(r) \/ Fail(r)
  PROVE  /\ Active(r) /\ UNCHANGED <<issued, alone>>
         /\ \/ \E outcome \in Answers : Ends(r, outcome)
            \/ /\ \A q \in Requests \ {r} : Untouched(q)
               /\ pc'[r] \in Statements
               /\ UNCHANGED <<answer, call>>
<1>1. CASE Fail(r)
  BY <1>1 DEF Fail, tables, Answers
<1>2. CASE Deadlock(r)
  <2>1. PICK S \in SUBSET Requests : r \in S /\ Stuck(S)
    BY <1>2 DEF Deadlock
  <2>2. Active(r)
    BY <2>1, CircleEdges, WaiterWrites DEF Active, Statements
  <2>3. QED
    BY <1>2, <2>2 DEF Deadlock, tables, Answers
<1>3. CASE Commit(r)
  BY <1>3 DEF Commit, Answers, Active, Statements
<1>4. CASE CheckAddress(r) \/ RefetchToUpdate(r) \/ RefetchToDelete(r) \/ LoadSessions(r)
  BY <1>4 DEF CheckAddress, RefetchToUpdate, RefetchToDelete, LoadSessions, At, Continues, GoesTo,
     tables, writes, Answers, Active, Statements, Untouched, TypeOK
<1>5. CASE RefetchSession(r)
  BY <1>5 DEF RefetchSession, At, Continues, GoesTo,
     tables, writes, Answers, Active, Statements, Untouched, TypeOK
<1>6. CASE WriteSessions(r) \/ WriteUser(r)
  BY <1>6 DEF WriteSessions, WriteUser, At, Continues, GoesTo,
     tables, writes, Answers, Active, Statements, Untouched, TypeOK
<1>7. CASE EraseUser(r) \/ Cascade(r) \/ Index(r) \/ InsertSession(r)
  BY <1>7 DEF EraseUser, Cascade, Index, InsertSession, At, Continues, GoesTo,
     tables, writes, Answers, Active, Statements, Untouched, TypeOK
<1>8. QED
  BY <1>1, <1>2, <1>3, <1>4, <1>5, <1>6, <1>7 DEF Statement

\* No step touches the request of another, but for its being alone.
LEMMA OthersUntouched ==
  ASSUME TypeOK, NEW r \in Requests, Move(r), NEW q \in Requests \ {r}
  PROVE  Untouched(q)
<1>1. {"ok", "refused"} \subseteq Answers
  BY DEF Answers
<1>2. CASE \/ RefuseToken(r) \/ RefusePath(r) \/ Login(r) \/ Refresh(r)
           \/ ReadUser(r) \/ ReadSessions(r)
  BY <1>1, <1>2, OnceMove, EndsTouchesOne
<1>3. CASE \/ Register(r) \/ UpdateUser(r) \/ DeleteUser(r)
           \/ CreateSession(r) \/ RenameSession(r) \/ DeleteSession(r)
  BY <1>1, <1>3, ArrivalMove, EndsTouchesOne
<1>4. CASE Statement(r) \/ Fail(r)
  BY <1>4, StatementMove, EndsTouchesOne
<1>5. QED
  BY <1>2, <1>3, <1>4 DEF Move

(***************************************************************************)
(* Lost updates.  What an update has written is, column by column, what    *)
(* the locked row had, what was asked, or what it had read.                *)
(***************************************************************************)
Sourced(r) == call[r].op = "update_user" /\ userRows[r] # {} =>
  /\ seen[r] # NoRow
  /\ row[r].email \in {users[call[r].who].email, call[r].email, seen[r].email} \ {Unset}
  /\ row[r].name \in {users[call[r].who].name, call[r].text, seen[r].name} \ {Unset}

AllSourced == \A r \in Requests : Sourced(r)

\* The entity has every column set: asked for, or read.
LEMMA EntityColumns ==
  ASSUME TypeOK, NEW r \in Requests, seen[r] \in UserRows
  PROVE  /\ Entity(r) \in UserRows
         /\ Entity(r).email \in {call[r].email, seen[r].email} \ {Unset}
         /\ Entity(r).name \in {call[r].text, seen[r].name} \ {Unset}
<1>1. /\ call[r].email \in Emails \cup {Unset} /\ call[r].text \in Texts \cup {Unset}
      /\ seen[r].email \in Emails /\ seen[r].name \in Texts
  BY DEF TypeOK, Calls, UserRows
<1>2. QED
  BY <1>1, StoreAssumption DEF Entity, UserRows

\* A request that writes a user row takes each column from what it was asked or
\* from what it has read back.
LEMMA WriteUserSourced ==
  ASSUME Inv, NEW r \in Requests, WriteUser(r)
  PROVE  Sourced(r)'
<1>1. /\ TypeOK /\ pc[r] = "row" /\ call[r].op = "update_user" /\ seen[r] \in UserRows
      /\ call[r].who \in UserIds
  BY OpAt DEF Inv, WriteUser, At, Own, UpdateOwn
<1>2. CASE users[call[r].who] = NoRow
  BY <1>1, <1>2 DEF WriteUser, Ends, Sourced, TypeOK
<1>3. CASE users[call[r].who] # NoRow
  <2> DEFINE old == users[call[r].who]
             Column(c) == IF c \in dirty[r] THEN Entity(r)[c] ELSE old[c]
  <2>1. row'[r] = [email |-> Column("email"), name |-> Column("name")]
    BY <1>1, <1>3 DEF WriteUser, TypeOK
  <2>2. UNCHANGED <<users, call, seen>>
    BY <1>3 DEF WriteUser, At, tables, Continues
  <2>3. old.email \in Emails /\ old.name \in Texts
    BY <1>1, <1>3 DEF TypeOK, UserRows
  <2>4. /\ Entity(r).email \in {call[r].email, seen[r].email} \ {Unset}
        /\ Entity(r).name \in {call[r].text, seen[r].name} \ {Unset}
    BY <1>1, EntityColumns
  <2>5. /\ row'[r].email \in {old.email, call[r].email, seen[r].email} \ {Unset}
        /\ row'[r].name \in {old.name, call[r].text, seen[r].name} \ {Unset}
    BY <2>1, <2>3, <2>4, StoreAssumption
  <2>6. QED
    BY <1>1, <2>2, <2>5, StoreAssumption DEF Sourced
<1>4. QED
  BY <1>2, <1>3

\* Only the UPDATE itself makes an update hold its row; the index finds it held.
LEMMA HoldsByUpdate ==
  ASSUME Inv, NEW r \in Requests, Move(r), call'[r].op = "update_user", userRows'[r] # {},
         ~WriteUser(r)
  PROVE  /\ userRows[r] # {}
         /\ UNCHANGED <<users, call, seen, row>>
<1>1. TypeOK /\ Own(r)
  BY DEF Inv
<1>2. \A outcome \in Answers : ~Ends(r, outcome)
  BY <1>1, EndsTouchesOne
<1>3. {"ok", "refused"} \subseteq Answers
  BY DEF Answers
<1>4. CASE \/ RefuseToken(r) \/ RefusePath(r) \/ Login(r) \/ Refresh(r)
           \/ ReadUser(r) \/ ReadSessions(r)
  BY <1>2, <1>3, <1>4, OnceMove
<1>5. CASE \/ Register(r) \/ UpdateUser(r) \/ DeleteUser(r)
           \/ CreateSession(r) \/ RenameSession(r) \/ DeleteSession(r)
  <2>1. pc[r] = "idle" /\ userRows[r] = {}
    BY <1>1, <1>5, ArrivalMove DEF Own, Clean
  <2>2. UNCHANGED userRows \/ Ends(r, "refused")
    BY <1>5 DEF Register, UpdateUser, DeleteUser, CreateSession, RenameSession, DeleteSession, writes
  <2>3. QED
    BY <1>2, <1>3, <2>1, <2>2
<1>6. CASE Statement(r) \/ Fail(r)
  <2>1. call[r].op = "update_user" /\ UNCHANGED <<call, answer>>
    BY <1>1, <1>2, <1>6, StatementMove
  <2>2. CASE CheckAddress(r) \/ RefetchToUpdate(r)
    <3>1. userRows[r] = {} /\ UNCHANGED userRows
      BY <1>1, <1>2, <2>1, <2>2 DEF CheckAddress, RefetchToUpdate, At, Own, UpdateOwn, writes, Answers
    <3>2. QED
      BY <3>1
  <2>3. CASE Index(r)
    BY <1>1, <1>2, <2>1, <2>3 DEF Index, At, tables, Own, UpdateOwn, Answers
  <2>4. CASE \/ RefetchToDelete(r) \/ EraseUser(r) \/ RefetchSession(r)
             \/ LoadSessions(r) \/ WriteSessions(r) \/ Cascade(r) \/ InsertSession(r)
    BY <1>1, <2>1, <2>4 DEF RefetchToDelete, EraseUser, RefetchSession, LoadSessions, WriteSessions,
       Cascade, InsertSession, At, Own, UpdateOwn
  <2>5. CASE Commit(r) \/ Deadlock(r) \/ Fail(r)
    BY <1>2, <2>5 DEF Commit, Deadlock, Fail, Answers
  <2>6. QED
    BY <1>6, <2>2, <2>3, <2>4, <2>5 DEF Statement
<1>7. QED
  BY <1>4, <1>5, <1>6 DEF Move

\* No request has written at first.
LEMMA InitSourced == Init => AllSourced
BY DEF Init, AllSourced, Sourced

\* A step of one request leaves what every request writes asked for or read back.
LEMMA MoveSourced ==
  ASSUME Inv, AllSourced, NEW r \in Requests, Move(r)
  PROVE  AllSourced'
<1>1. Sourced(r)'
  <2>1. CASE WriteUser(r)
    BY <2>1, WriteUserSourced
  <2>2. CASE ~WriteUser(r)
    BY <2>2, HoldsByUpdate DEF AllSourced, Sourced
  <2>3. QED
    BY <2>1, <2>2
<1>2. ASSUME NEW q \in Requests \ {r} PROVE Sourced(q)'
  <2>1. Untouched(q) /\ Sourced(q)
    BY OthersUntouched DEF Inv, AllSourced
  <2>2. ASSUME call[q].op = "update_user", userRows[q] # {}
        PROVE  users'[call[q].who] = users[call[q].who]
    <3>1. call[q].who \in userRows[q] /\ call[q].who \in UserIds
      BY <2>2, OpAt DEF Inv, Own, UpdateOwn
    <3>2. call[q].who \notin userRows[r]
      BY <3>1 DEF Inv, Apart
    <3>3. Commit(r) \/ UNCHANGED users
      BY OnlyCommitsWrite DEF Move
    <3>4. QED
      BY <3>1, <3>2, <3>3, CommitEffect
  <2>3. QED
    BY <2>1, <2>2 DEF Sourced, Untouched
<1>3. QED
  BY <1>1, <1>2 DEF AllSourced

\* So it is in every reachable state.
LEMMA SourcedHolds == Spec => []AllSourced
<1>1. Inv /\ AllSourced /\ [Next]_vars => AllSourced'
  <2>1. ASSUME UNCHANGED vars, AllSourced PROVE AllSourced'
    BY <2>1 DEF vars, request, AllSourced, Sourced
  <2>2. QED
    BY <2>1, MoveSourced DEF Next, Move
<1>2. QED
  BY <1>1, InitSourced, InvHolds, PTL DEF Spec

\* However updates of one user overlap, a column never becomes a value that
\* no request asked for or had read: lost updates lose, they do not invent.
THEOREM LostUpdatesInventNothing == Spec => ChangesAreAskedOrReadBack
<1> DEFINE Explained(u) ==
      \E r \in Requests :
        /\ pc[r] = "commit" /\ pc'[r] = "done" /\ seen[r] # NoRow
        /\ users'[u].email \in {users[u].email, call[r].email, seen[r].email} \ {Unset}
        /\ users'[u].name \in {users[u].name, call[r].text, seen[r].name} \ {Unset}
           Changes == \A u \in UserIds :
             users[u] # NoRow /\ users'[u] \notin {NoRow, users[u]} => Explained(u)
<1>1. ASSUME Inv, AllSourced, NEW r \in Requests, Commit(r) PROVE Changes
  <2> SUFFICES ASSUME NEW u \in UserIds, users[u] # NoRow, users'[u] \notin {NoRow, users[u]}
               PROVE  Explained(u)
    OBVIOUS
  <2>1. /\ pc[r] = "commit" /\ pc'[r] = "done"
        /\ users' = [v \in UserIds |-> IF v \in userRows[r] THEN row[r] ELSE users[v]]
    BY <1>1, CommitEffect
  <2>2. u \in userRows[r] /\ users'[u] = row[r]
    BY <2>1
  <2>3. /\ Clean(r) \/ PutsUser(r) \/ RemovesUser(r) \/ PutsSession(r) \/ RemovesSession(r)
        /\ Own(r) /\ call[r].op \in Ops
    BY <1>1, <2>1, CommitCases, OpAt DEF Inv
  <2>4. u = call[r].who /\ row[r] # NoRow /\ userRows[r] # {}
    BY <2>2, <2>3 DEF Clean, PutsUser, RemovesUser, PutsSession, RemovesSession
  <2>5. call[r].op = "update_user"
    BY <2>1, <2>3, <2>4 DEF Own, Ops, RegisterOwn, DeleteOwn, CreateOwn, SessionOwn
  <2>6. QED
    BY <1>1, <2>1, <2>2, <2>4, <2>5 DEF AllSourced, Sourced
<1>2. Inv /\ AllSourced /\ [Next]_vars => [Changes]_vars
  <2>1. ASSUME UNCHANGED users PROVE Changes
    BY <2>1
  <2>2. ASSUME Inv, AllSourced, Next PROVE Changes
    BY <1>1, <2>1, <2>2, OnlyCommitsWrite DEF Next
  <2>3. QED
    BY <2>2
<1>3. QED
  BY <1>2, InvHolds, SourcedHolds, PTL DEF Spec, ChangesAreAskedOrReadBack

(***************************************************************************)
(* Races.  While a request is alone, what it has read still holds; so its  *)
(* errors come from what others did, and from a foreign key alone if not.  *)
(***************************************************************************)

\* An answer comes at the end.
AnsweredAtEnd == \A r \in Requests : answer[r] # "none" => pc[r] = "done"

\* The user a token is of, or a session was asked for, is an old one or one whose registration
\* has ended: nobody registers it later.
Registered(u) == u \in Requests => pc[u] = "done"
TokensOfRegistered == \A token \in issued : Registered(token.sub)
CreatorsRegistered ==
  \A r \in Requests : call[r].op = "create_session" => Registered(call[r].who)

\* No other writing request is under way.
IsAlone(r) == Active(r) /\ alone[r]
AloneMeansAlone == \A r, q \in Requests : IsAlone(r) /\ q # r => ~Active(q)

\* Nobody but the request itself can have the address.
FreeFor(r, address) == Owners(address) \ {call[r].who} = {}

ReadHolds(r) ==
  /\ call[r].op = "update_user" /\ pc[r] \in {"check", "refetch", "row"}
       => seen[r] = users[call[r].who]
  /\ call[r].op = "update_user" /\ pc[r] \in {"refetch", "row"} => FreeFor(r, Entity(r).email)
  /\ pc[r] = "index" => FreeFor(r, row[r].email)
  /\ call[r].op = "rename_session" /\ pc[r] \in {"refetch", "sessions"}
       => sessions[call[r].on] # NoRow

ReadsHold == \A r \in Requests : IsAlone(r) => ReadHolds(r)

RaceInv ==
  /\ AnsweredAtEnd /\ TokensOfRegistered /\ CreatorsRegistered
  /\ AloneMeansAlone /\ ReadsHold /\ ErrorsAreRaces

\* No transaction is open at first.
LEMMA InitRace == Init => RaceInv
<1> SUFFICES ASSUME Init PROVE RaceInv
  OBVIOUS
<1>1. ASSUME NEW token \in issued PROVE Registered(token.sub)
  BY StoreAssumption DEF Init, TokenPair, Registered
<1>2. \A r \in Requests : ~Active(r) /\ answer[r] = "none" /\ call[r].op = "none"
  BY DEF Init, Active, Statements, NewCall
<1>3. QED
  BY <1>1, <1>2 DEF RaceInv, AnsweredAtEnd, TokensOfRegistered, CreatorsRegistered,
     AloneMeansAlone, ReadsHold, IsAlone, ErrorsAreRaces

\* What a step does to its own request, as far as its place and its answer go.
LEMMA OwnPlace ==
  ASSUME TypeOK, NEW r \in Requests, Move(r)
  PROVE  /\ pc[r] # "done"
         /\ \/ pc'[r] = "done" /\ UNCHANGED alone
            \/ pc[r] = "idle" /\ (\E c : Arrives(r, c)) /\ UNCHANGED answer
            \/ Active(r) /\ UNCHANGED <<alone, answer>>
<1>1. {"ok", "refused"} \subseteq Answers
  BY DEF Answers
<1>2. CASE \/ RefuseToken(r) \/ RefusePath(r) \/ Login(r) \/ Refresh(r)
           \/ ReadUser(r) \/ ReadSessions(r)
  BY <1>1, <1>2, OnceMove, EndsTouchesOne
<1>3. CASE \/ Register(r) \/ UpdateUser(r) \/ DeleteUser(r)
           \/ CreateSession(r) \/ RenameSession(r) \/ DeleteSession(r)
  BY <1>1, <1>3, ArrivalMove, EndsTouchesOne
<1>4. CASE Statement(r) \/ Fail(r)
  BY <1>4, StatementMove, EndsTouchesOne DEF Active, Statements
<1>5. QED
  BY <1>2, <1>3, <1>4 DEF Move

\* A request that is alone after a step of another was so before, and saw no table change.
LEMMA AloneMove ==
  ASSUME Inv, AloneMeansAlone, NEW r \in Requests, Move(r)
  PROVE  /\ AloneMeansAlone'
         /\ \A q \in Requests \ {r} : alone'[q] => alone[q]
         /\ \A q \in Requests \ {r} : IsAlone(q)' => IsAlone(q) /\ UNCHANGED <<users, sessions>>
         /\ pc[r] # "idle" => alone'[r] = alone[r]
<1>1. TypeOK
  BY DEF Inv
<1>2. \A q \in Requests \ {r} : pc'[q] = pc[q] /\ Active(q)' = Active(q)
  BY <1>1, OthersUntouched DEF Untouched, Active
<1>3. ~Active(r)' \/ (pc[r] = "idle" /\ \E c : Arrives(r, c)) \/ (Active(r) /\ UNCHANGED alone)
  BY <1>1, OwnPlace DEF Active, Statements
<1>4. \A q \in Requests \ {r} : alone'[q] => alone[q]
  <2>1. CASE \E c : Arrives(r, c)
    BY <1>1, <2>1 DEF Arrives, TypeOK
  <2>2. QED
    BY <1>1, <2>1, OwnPlace
<1>5. pc[r] # "idle" => alone'[r] = alone[r]
  BY <1>1, OwnPlace
<1>6. ASSUME NEW q \in Requests \ {r}, IsAlone(q)'
      PROVE  IsAlone(q) /\ UNCHANGED <<users, sessions>>
  <2>1. IsAlone(q) /\ ~Active(r)
    BY <1>2, <1>4, <1>6 DEF IsAlone, AloneMeansAlone
  <2>2. ~Commit(r)
    BY <2>1 DEF Commit, Active, Statements
  <2>3. QED
    BY <2>1, <2>2, OnlyCommitsWrite DEF Move
<1>7. ASSUME NEW p \in Requests, NEW q \in Requests, IsAlone(p)', q # p PROVE ~Active(q)'
  <2>1. CASE p = r
    <3>1. CASE \E c : Arrives(r, c)
      BY <1>1, <1>2, <1>7, <2>1, <3>1 DEF Arrives, IsAlone, TypeOK
    <3>2. CASE Active(r) /\ UNCHANGED alone
      BY <1>2, <1>7, <2>1, <3>2 DEF IsAlone, AloneMeansAlone
    <3>3. QED
      BY <1>3, <1>7, <2>1, <3>1, <3>2 DEF IsAlone
  <2>2. CASE p # r /\ q # r
    BY <1>2, <1>6, <1>7, <2>2 DEF AloneMeansAlone
  <2>3. CASE p # r /\ q = r
    <3>1. IsAlone(p) /\ ~Active(r)
      BY <1>6, <1>7, <2>3 DEF AloneMeansAlone
    <3>2. ~\E c : Arrives(r, c)
      BY <1>1, <1>7, <2>3, <3>1 DEF Arrives, IsAlone, TypeOK
    <3>3. QED
      BY <1>3, <2>3, <3>1, <3>2
  <2>4. QED
    BY <2>1, <2>2, <2>3
<1>8. QED
  BY <1>4, <1>5, <1>6, <1>7 DEF AloneMeansAlone

\* Tokens are issued to users that exist, and a user exists only once registered.
LEMMA RowsAreRegistered ==
  ASSUME Inv, NEW u \in UserIds, users[u] # NoRow
  PROVE  Registered(u)
BY DEF Inv, Own, Registered

\* Who is registered stays so.
LEMMA StaysRegistered ==
  ASSUME TypeOK, NEW r \in Requests, Move(r)
  PROVE  \A u \in Requests : pc[u] = "done" => pc'[u] = "done"
BY OwnPlace, OthersUntouched DEF Untouched

\* A token that is new is of a registered user.
LEMMA TokensMove ==
  ASSUME Inv, TokensOfRegistered, NEW r \in Requests, Move(r)
  PROVE  TokensOfRegistered'
<1> TypeOK
  BY DEF Inv
<1>1. \A type : \A u \in Bearers(type) : Registered(u)
  BY DEF Bearers, TokensOfRegistered
<1>2. ASSUME NEW token \in issued' \ issued PROVE Registered(token.sub)
  <2>1. Login(r) \/ Refresh(r)
    <3>1. CASE \/ Register(r) \/ UpdateUser(r) \/ DeleteUser(r)
               \/ CreateSession(r) \/ RenameSession(r) \/ DeleteSession(r)
      BY <1>2, <3>1, ArrivalMove
    <3>2. CASE Statement(r) \/ Fail(r)
      BY <1>2, <3>2, StatementMove
    <3>3. CASE RefuseToken(r) \/ RefusePath(r) \/ ReadUser(r) \/ ReadSessions(r)
      BY <1>2, <3>3 DEF RefuseToken, RefusePath, ReadUser, ReadSessions
    <3>4. QED
      BY <3>1, <3>2, <3>3 DEF Move
  <2>2. CASE Login(r)
    <3>1. PICK secret \in UserIds : users[secret] # NoRow /\ token \in TokenPair(secret)
      BY <1>2, <2>2 DEF Login, Owners
    <3>2. QED
      BY <3>1, RowsAreRegistered DEF TokenPair
  <2>3. CASE Refresh(r)
    <3>1. PICK who \in Bearers("refresh") : token \in TokenPair(who)
      BY <1>2, <2>3 DEF Refresh
    <3>2. QED
      BY <1>1, <3>1 DEF TokenPair
  <2>4. QED
    BY <2>1, <2>2, <2>3
<1>3. QED
  BY <1>2, StaysRegistered DEF TokensOfRegistered, Registered

\* A session is asked for with a token.
LEMMA CreatorsMove ==
  ASSUME Inv, TokensOfRegistered, CreatorsRegistered, NEW r \in Requests, Move(r)
  PROVE  CreatorsRegistered'
<1> TypeOK
  BY DEF Inv
<1>1. ASSUME NEW q \in Requests \ {r}, call'[q].op = "create_session"
      PROVE  (Registered(call[q].who))'
  BY <1>1, OthersUntouched, StaysRegistered DEF CreatorsRegistered, Registered, Untouched
<1>2. ASSUME call'[r].op = "create_session" PROVE (Registered(call[r].who))'
  <2>1. CASE call'[r].op = call[r].op /\ call'[r].who = call[r].who
    BY <1>2, <2>1, StaysRegistered DEF CreatorsRegistered, Registered
  <2>2. CASE CreateSession(r)
    <3>1. PICK who \in Bearers("access") : call'[r] = NewCall("create_session", who)
      BY <2>2 DEF CreateSession, Arrives, TypeOK
    <3>2. Registered(who) /\ call'[r].who = who
      BY <3>1 DEF Bearers, TokensOfRegistered, NewCall
    <3>3. QED
      BY <3>2, StaysRegistered DEF Registered
  <2>3. CASE Register(r) \/ UpdateUser(r) \/ DeleteUser(r) \/ RenameSession(r) \/ DeleteSession(r)
    <3>1. CASE Ends(r, "refused")
      BY <2>1, <3>1, EndsTouchesOne DEF Answers
    <3>2. CASE Register(r) /\ ~Ends(r, "refused")
      <4>1. PICK address \in Emails : Arrives(r, [NewCall("register", r) EXCEPT !.email = address])
        BY <3>2 DEF Register
      <4>2. call'[r].op = "register"
        BY <4>1 DEF Arrives, NewCall, TypeOK
      <4>3. QED
        BY <1>2, <4>2
    <3>3. CASE UpdateUser(r) /\ ~Ends(r, "refused")
      <4>1. PICK who \in Bearers("access"), address \in Emails \cup {Unset},
                 text \in Texts \cup {Unset} :
              Arrives(r, [NewCall("update_user", who) EXCEPT !.email = address, !.text = text])
        BY <3>3 DEF UpdateUser
      <4>2. call'[r].op = "update_user"
        BY <4>1 DEF Arrives, NewCall, TypeOK
      <4>3. QED
        BY <1>2, <4>2
    <3>4. CASE DeleteUser(r) /\ ~Ends(r, "refused")
      <4>1. PICK who \in Bearers("access") : Arrives(r, NewCall("delete_user", who))
        BY <3>4 DEF DeleteUser
      <4>2. call'[r].op = "delete_user"
        BY <4>1 DEF Arrives, NewCall, TypeOK
      <4>3. QED
        BY <1>2, <4>2
    <3>5. CASE (RenameSession(r) \/ DeleteSession(r)) /\ ~Ends(r, "refused")
      <4>1. PICK op \in {"rename_session", "delete_session"}, who \in Bearers("access"),
                 s \in SessionIds : Arrives(r, [NewCall(op, who) EXCEPT !.on = s])
        BY <3>5 DEF RenameSession, DeleteSession
      <4>2. call'[r].op = op
        BY <4>1 DEF Arrives, NewCall, TypeOK
      <4>3. QED
        BY <1>2, <4>2
    <3>6. QED
      BY <2>3, <3>1, <3>2, <3>3, <3>4, <3>5
  <2>4. CASE Statement(r) \/ Fail(r)
    BY <2>1, <2>4, StatementMove, EndsTouchesOne
  <2>5. CASE \/ RefuseToken(r) \/ RefusePath(r) \/ Login(r) \/ Refresh(r)
             \/ ReadUser(r) \/ ReadSessions(r)
    BY <2>1, <2>5, OnceMove, EndsTouchesOne DEF Answers
  <2>6. QED
    BY <2>2, <2>3, <2>4, <2>5 DEF Move
<1>3. QED
  BY <1>1, <1>2 DEF CreatorsRegistered

\* A user's own address is nobody else's.
LEMMA OwnAddress ==
  ASSUME Inv, NEW u \in UserIds, users[u] # NoRow
  PROVE  Owners(users[u].email) \ {u} = {}
BY DEF Inv, OneUserPerAddress, Owners

\* What a request reads when it arrives holds when it goes on.
LEMMA ArrivalReads ==
  ASSUME Inv, NEW r \in Requests, IsAlone(r)',
         \/ Register(r) \/ UpdateUser(r) \/ DeleteUser(r)
         \/ CreateSession(r) \/ RenameSession(r) \/ DeleteSession(r)
  PROVE  ReadHolds(r)'
<1>1. TypeOK /\ UNCHANGED <<users, sessions>>
  BY ArrivalMove DEF Inv
<1>2. ~Ends(r, "refused")
  BY <1>1, EndsTouchesOne DEF IsAlone, Active, Statements, Answers
<1>3. CASE Register(r)
  <2>1. PICK address \in Emails :
          /\ Owners(address) = {}
          /\ call'[r] = [NewCall("register", r) EXCEPT !.email = address]
          /\ pc'[r] = "index" /\ row'[r] = [email |-> address, name |-> NewName]
    BY <1>1, <1>2, <1>3 DEF Register, Arrives, GoesTo, TypeOK
  <2>2. call'[r].op = "register" /\ row'[r].email = address
    BY <2>1 DEF NewCall
  <2>3. QED
    BY <1>1, <2>1, <2>2 DEF ReadHolds, FreeFor, Owners
<1>4. CASE UpdateUser(r)
  <2>1. PICK who \in Bearers("access"), address \in Emails \cup {Unset}, text \in Texts \cup {Unset} :
          /\ users[who] # NoRow
          /\ Arrives(r, [NewCall("update_user", who) EXCEPT !.email = address, !.text = text])
          /\ GoesTo(r, IF address \in {Unset, users[who].email} THEN "refetch" ELSE "check")
          /\ seen' = [seen EXCEPT ![r] = users[who]]
    BY <1>2, <1>4 DEF UpdateUser
  <2>2. /\ call'[r].op = "update_user" /\ call'[r].who = who /\ call'[r].email = address
        /\ seen'[r] = users[who] /\ who \in UserIds
        /\ pc'[r] = IF address \in {Unset, users[who].email} THEN "refetch" ELSE "check"
    BY <1>1, <2>1, BearersType DEF Arrives, NewCall, GoesTo, TypeOK
  <2>3. pc'[r] = "refetch" => Entity(r)'.email = users[who].email
    BY <2>2 DEF Entity
  <2>4. Owners(users[who].email) \ {who} = {}
    BY <2>1, <2>2, OwnAddress
  <2>5. pc'[r] = "refetch" => FreeFor(r, Entity(r).email)'
    BY <1>1, <2>2, <2>3, <2>4 DEF FreeFor, Owners
  <2>6. QED
    BY <1>1, <2>2, <2>5 DEF ReadHolds
<1>5. CASE DeleteUser(r)
  <2>1. PICK who \in Bearers("access") :
          Arrives(r, NewCall("delete_user", who)) /\ GoesTo(r, "refetch")
    BY <1>2, <1>5 DEF DeleteUser
  <2>2. call'[r].op = "delete_user" /\ pc'[r] = "refetch"
    BY <1>1, <2>1 DEF Arrives, NewCall, GoesTo, TypeOK
  <2>3. QED
    BY <2>2 DEF ReadHolds
<1>6. CASE CreateSession(r)
  <2>1. PICK who \in Bearers("access") :
          Arrives(r, NewCall("create_session", who)) /\ GoesTo(r, "insert")
    BY <1>2, <1>6 DEF CreateSession
  <2>2. call'[r].op = "create_session" /\ pc'[r] = "insert"
    BY <1>1, <2>1 DEF Arrives, NewCall, GoesTo, TypeOK
  <2>3. QED
    BY <2>2 DEF ReadHolds
<1>7. CASE RenameSession(r) \/ DeleteSession(r)
  <2>1. PICK op \in {"rename_session", "delete_session"}, who \in Bearers("access"),
             s \in SessionIds :
          /\ sessions[s] # NoRow
          /\ Arrives(r, [NewCall(op, who) EXCEPT !.on = s]) /\ GoesTo(r, "refetch")
    BY <1>2, <1>7 DEF RenameSession, DeleteSession, SessionsOf
  <2>2. call'[r].op = op /\ call'[r].on = s /\ pc'[r] = "refetch"
    BY <1>1, <2>1 DEF Arrives, NewCall, GoesTo, TypeOK
  <2>3. QED
    BY <1>1, <2>1, <2>2 DEF ReadHolds
<1>8. QED
  BY <1>3, <1>4, <1>5, <1>6, <1>7

\* What a request has read goes on to hold at its next statement, while it is alone.
LEMMA StatementReads ==
  ASSUME Inv, NEW r \in Requests, ReadHolds(r), IsAlone(r)', Statement(r) \/ Fail(r)
  PROVE  ReadHolds(r)'
<1>1. TypeOK
  BY DEF Inv
<1>2. \A outcome \in Answers : ~Ends(r, outcome)
  BY <1>1, EndsTouchesOne DEF IsAlone, Active, Statements
<1>3. UNCHANGED <<users, sessions, call>>
  <2>1. ~Commit(r)
    BY <1>2 DEF Commit, Answers
  <2>2. QED
    BY <1>1, <1>2, <2>1, StatementMove, OnlyCommitsWrite
<1>4. CASE CheckAddress(r)
  <2>1. /\ pc'[r] = "refetch" /\ pc[r] = "check" /\ UNCHANGED seen
        /\ Owners(call[r].email) \ {call[r].who} = {} /\ call[r].op = "update_user"
    BY <1>1, <1>2, <1>4, OpAt DEF CheckAddress, Continues, GoesTo, TypeOK, At, Answers, writes
  <2>2. seen[r] = users[call[r].who] /\ seen[r] \in UserRows /\ call[r].who \in UserIds
    BY <2>1, OpAt DEF ReadHolds, Inv, Own, UpdateOwn
  <2>3. Entity(r).email \in {call[r].email, seen[r].email}
    BY DEF Entity
  <2>4. FreeFor(r, Entity(r).email)
    <3>1. Owners(seen[r].email) \ {call[r].who} = {}
      BY <2>2, OwnAddress, StoreAssumption
    <3>2. QED
      BY <2>1, <2>3, <3>1 DEF FreeFor
  <2>5. FreeFor(r, Entity(r).email)'
    BY <1>3, <2>1, <2>4 DEF FreeFor, Owners, Entity
  <2>6. QED
    BY <1>3, <2>1, <2>2, <2>5 DEF ReadHolds
<1>5. CASE RefetchToUpdate(r)
  <2>1. /\ pc'[r] \in {"commit", "row"} /\ pc[r] = "refetch" /\ UNCHANGED seen
        /\ call[r].op = "update_user"
    BY <1>1, <1>2, <1>5 DEF RefetchToUpdate, Continues, GoesTo, TypeOK, At, Answers
  <2>2. QED
    BY <1>3, <2>1 DEF ReadHolds, FreeFor, Owners, Entity
<1>6. CASE WriteUser(r)
  <2> DEFINE u == call[r].who
  <2>1. /\ pc'[r] \in {"index", "commit"} /\ pc[r] = "row" /\ call[r].op = "update_user"
        /\ users[u] # NoRow /\ u \in UserIds
        /\ row'[r].email = IF "email" \in dirty[r] THEN Entity(r).email ELSE users[u].email
    BY <1>1, <1>2, <1>6, OpAt DEF WriteUser, Continues, GoesTo, TypeOK, At, Answers
  <2>2. Owners(row'[r].email) \ {u} = {}
    BY <2>1, OwnAddress DEF ReadHolds, FreeFor
  <2>3. FreeFor(r, row[r].email)'
    BY <1>3, <2>2 DEF FreeFor, Owners
  <2>4. QED
    BY <1>3, <2>1, <2>3 DEF ReadHolds
<1>7. CASE RefetchSession(r)
  <2>1. /\ pc'[r] \in {"commit", "sessions"} /\ pc[r] = "refetch"
        /\ call[r].op \in {"rename_session", "delete_session"}
    BY <1>1, <1>2, <1>7 DEF RefetchSession, Continues, GoesTo, TypeOK, At, Answers
  <2>2. QED
    BY <1>3, <2>1 DEF ReadHolds
<1>8. CASE RefetchToDelete(r) \/ LoadSessions(r) \/ EraseUser(r) \/ Cascade(r)
  <2>1. call[r].op = "delete_user" /\ pc'[r] # "index"
    BY <1>1, <1>8, OpAt DEF RefetchToDelete, LoadSessions, EraseUser, Cascade, Continues, GoesTo,
       TypeOK, At
  <2>2. QED
    BY <1>3, <2>1 DEF ReadHolds
<1>9. CASE WriteSessions(r)
  <2>1. /\ pc'[r] = IF call[r].op = "delete_user" THEN "row" ELSE "commit"
        /\ call[r].op # "update_user"
    BY <1>1, <1>2, <1>9, OpAt DEF WriteSessions, Continues, GoesTo, TypeOK, At, Answers
  <2>2. QED
    BY <1>3, <2>1 DEF ReadHolds
<1>10. CASE Index(r) \/ InsertSession(r)
  <2>1. pc'[r] = "commit"
    BY <1>1, <1>2, <1>10 DEF Index, InsertSession, Continues, GoesTo, TypeOK, At, Answers
  <2>2. QED
    BY <2>1 DEF ReadHolds
<1>11. CASE Commit(r) \/ Deadlock(r) \/ Fail(r)
  BY <1>2, <1>11 DEF Commit, Deadlock, Fail, Answers
<1>12. QED
  BY <1>4, <1>5, <1>6, <1>7, <1>8, <1>9, <1>10, <1>11 DEF Statement

\* Whoever is alone, its reads hold after every step.
LEMMA ReadsMove ==
  ASSUME Inv, AloneMeansAlone, ReadsHold, NEW r \in Requests, Move(r)
  PROVE  ReadsHold'
<1>1. TypeOK
  BY DEF Inv
<1>2. ASSUME NEW q \in Requests \ {r}, IsAlone(q)' PROVE ReadHolds(q)'
  <2>1. IsAlone(q) /\ UNCHANGED <<users, sessions>> /\ Untouched(q)
    BY <1>1, <1>2, AloneMove, OthersUntouched
  <2>2. ReadHolds(q)
    BY <2>1 DEF ReadsHold
  <2>3. Entity(q)' = Entity(q)
    BY <2>1 DEF Entity, Untouched
  <2>4. QED
    BY <2>1, <2>2, <2>3 DEF ReadHolds, FreeFor, Owners, Untouched
<1>3. ASSUME IsAlone(r)' PROVE ReadHolds(r)'
  <2>1. CASE \/ RefuseToken(r) \/ RefusePath(r) \/ Login(r) \/ Refresh(r)
             \/ ReadUser(r) \/ ReadSessions(r)
    BY <1>1, <1>3, <2>1, OnceMove, EndsTouchesOne DEF IsAlone, Active, Statements, Answers
  <2>2. CASE \/ Register(r) \/ UpdateUser(r) \/ DeleteUser(r)
             \/ CreateSession(r) \/ RenameSession(r) \/ DeleteSession(r)
    BY <1>3, <2>2, ArrivalReads
  <2>3. CASE Statement(r) \/ Fail(r)
    <3>1. ReadHolds(r)
      BY <1>1, <1>3, <2>3, StatementMove DEF ReadsHold, IsAlone
    <3>2. QED
      BY <1>3, <2>3, <3>1, StatementReads
  <2>4. QED
    BY <2>1, <2>2, <2>3 DEF Move
<1>4. QED
  BY <1>2, <1>3 DEF ReadsHold

\* A request that waits in a circle is not alone.
LEMMA CircleIsNoneAlone ==
  ASSUME Inv, AloneMeansAlone, NEW r \in Requests, Deadlock(r)
  PROVE  ~IsAlone(r)
<1>1. PICK S \in SUBSET Requests : r \in S /\ Stuck(S)
  BY DEF Deadlock
<1>2. PICK q \in S : WaitsFor(r, q)
  BY <1>1, CircleEdges
<1>3. Active(q)
  BY <1>1, CircleParts DEF IndexUpdate, Erases, Cascades, Active, Statements
<1>4. q # r
  BY <1>2 DEF WaitsFor
<1>5. QED
  BY <1>3, <1>4 DEF AloneMeansAlone

\* The step that answers a request with an error while it is alone is the one the foreign key
\* refuses.
LEMMA ErrorStep ==
  ASSUME Inv, AloneMeansAlone, NEW r \in Requests, ReadHolds(r), IsAlone(r),
         Statement(r) \/ Fail(r), answer[r] = "none", answer'[r] = "error"
  PROVE  call[r].op = "create_session" /\ users[call[r].who] = NoRow
<1>1. TypeOK /\ Own(r)
  BY DEF Inv
<1>2. ~UNCHANGED answer
  OBVIOUS
<1>3. \A outcome \in Answers : Ends(r, outcome) => outcome = "error"
  BY <1>1 DEF Ends, TypeOK
<1>4. CASE CheckAddress(r)
  BY <1>2, <1>3, <1>4 DEF CheckAddress, Continues, GoesTo, Answers
<1>5. CASE RefetchToUpdate(r)
  <2>1. users[call[r].who] = NoRow /\ pc[r] = "refetch" /\ call[r].op = "update_user"
    BY <1>2, <1>5 DEF RefetchToUpdate, Continues, GoesTo, At
  <2>2. QED
    BY <1>1, <2>1, StoreAssumption DEF ReadHolds, Own, UpdateOwn
<1>6. CASE WriteUser(r)
  <2>1. users[call[r].who] = NoRow /\ pc[r] = "row" /\ call[r].op = "update_user"
    BY <1>2, <1>6 DEF WriteUser, Continues, GoesTo, At
  <2>2. QED
    BY <1>1, <2>1, StoreAssumption DEF ReadHolds, Own, UpdateOwn
<1>7. CASE RefetchToDelete(r) \/ LoadSessions(r) \/ EraseUser(r) \/ Cascade(r)
  BY <1>2, <1>7 DEF RefetchToDelete, LoadSessions, EraseUser, Cascade, Continues, GoesTo
<1>8. CASE RefetchSession(r)
  BY <1>2, <1>8 DEF RefetchSession, Continues, GoesTo, At, ReadHolds
<1>9. CASE WriteSessions(r)
  <2>1. /\ pc[r] = "sessions" /\ call[r].op = "rename_session"
        /\ \A s \in targets[r] : sessions[s] = NoRow
    BY <1>2, <1>9 DEF WriteSessions, Continues, GoesTo, At
  <2>2. targets[r] = {call[r].on}
    BY <1>1, <2>1 DEF Own, SessionOwn
  <2>3. QED
    BY <2>1, <2>2 DEF ReadHolds
<1>10. CASE Index(r)
  BY <1>2, <1>10 DEF Index, Continues, GoesTo, At, ReadHolds, FreeFor
<1>11. CASE InsertSession(r)
  BY <1>2, <1>11, OpAt DEF InsertSession, Continues, GoesTo, At
<1>12. CASE Commit(r) \/ Fail(r)
  BY <1>3, <1>12 DEF Commit, Fail, Answers
<1>13. CASE Deadlock(r)
  BY <1>13, CircleIsNoneAlone
<1>14. QED
  BY <1>4, <1>5, <1>6, <1>7, <1>8, <1>9, <1>10, <1>11, <1>12, <1>13 DEF Statement

\* A user that is gone and is nobody's to register does not come back.
LEMMA GoneStaysGone ==
  ASSUME Inv, NEW r \in Requests, Move(r), NEW q \in Requests,
         Registered(call[q].who), users[call[q].who] = NoRow
  PROVE  users'[call[q].who] = NoRow
<1>1. CASE UNCHANGED users
  BY <1>1
<1>2. CASE Commit(r)
  <2> DEFINE u == call[q].who
  <2>1. /\ pc[r] = "commit" /\ u \in UserIds
        /\ users' = [v \in UserIds |-> IF v \in userRows[r] THEN row[r] ELSE users[v]]
        /\ Clean(r) \/ PutsUser(r) \/ RemovesUser(r) \/ PutsSession(r) \/ RemovesSession(r)
    BY <1>2, CommitEffect, CommitCases, OpAt
  <2>2. u # r
    BY <2>1 DEF Registered
  <2>3. u \in userRows[r] => row[r] = NoRow
    BY <2>1, <2>2 DEF Clean, PutsUser, RemovesUser, PutsSession, RemovesSession
  <2>4. QED
    BY <2>1, <2>3
<1>3. QED
  BY <1>1, <1>2, OnlyCommitsWrite DEF Move

\* An error of a request that was alone is the foreign key's, and remains so.
LEMMA ErrorsMove ==
  ASSUME Inv, RaceInv, NEW r \in Requests, Move(r)
  PROVE  ErrorsAreRaces' /\ AnsweredAtEnd'
<1>1. TypeOK /\ {"ok", "refused"} \subseteq Answers
  BY DEF Inv, Answers
<1>2. pc[r] # "done" /\ answer[r] = "none"
  BY <1>1, OwnPlace DEF RaceInv, AnsweredAtEnd
<1>3. ASSUME NEW q \in Requests \ {r}, answer'[q] = "error", alone'[q]
      PROVE  call'[q].op = "create_session" /\ users'[call'[q].who] = NoRow
  <2>1. Untouched(q) /\ alone[q]
    BY <1>1, <1>3, OthersUntouched, AloneMove DEF RaceInv
  <2>2. call[q].op = "create_session" /\ users[call[q].who] = NoRow
    BY <1>3, <2>1 DEF RaceInv, ErrorsAreRaces, Untouched
  <2>3. users'[call[q].who] = NoRow
    BY <2>2, GoneStaysGone DEF RaceInv, CreatorsRegistered
  <2>4. QED
    BY <2>1, <2>2, <2>3 DEF Untouched
<1>4. ASSUME answer'[r] = "error", alone'[r]
      PROVE  call'[r].op = "create_session" /\ users'[call'[r].who] = NoRow
  <2>1. CASE \/ RefuseToken(r) \/ RefusePath(r) \/ Login(r) \/ Refresh(r)
             \/ ReadUser(r) \/ ReadSessions(r)
    BY <1>1, <1>4, <2>1, OnceMove, EndsTouchesOne
  <2>2. CASE \/ Register(r) \/ UpdateUser(r) \/ DeleteUser(r)
             \/ CreateSession(r) \/ RenameSession(r) \/ DeleteSession(r)
    BY <1>1, <1>2, <1>4, <2>2, ArrivalMove, EndsTouchesOne
  <2>3. CASE Statement(r) \/ Fail(r)
    <3>1. IsAlone(r) /\ ReadHolds(r)
      BY <1>1, <1>4, <2>3, StatementMove DEF IsAlone, RaceInv, ReadsHold
    <3>2. call[r].op = "create_session" /\ users[call[r].who] = NoRow
      BY <1>2, <1>4, <2>3, <3>1, ErrorStep DEF RaceInv
    <3>3. call'[r].op = call[r].op /\ call'[r].who = call[r].who
      BY <1>1, <2>3, StatementMove, EndsTouchesOne
    <3>4. users'[call[r].who] = NoRow
      BY <3>2, GoneStaysGone DEF RaceInv, CreatorsRegistered
    <3>5. QED
      BY <3>2, <3>3, <3>4
  <2>4. QED
    BY <2>1, <2>2, <2>3 DEF Move
<1>5. AnsweredAtEnd'
  <2>1. \A q \in Requests \ {r} : answer'[q] # "none" => pc'[q] = "done"
    BY <1>1, OthersUntouched DEF RaceInv, AnsweredAtEnd, Untouched
  <2>2. answer'[r] # "none" => pc'[r] = "done"
    BY <1>1, <1>2, OwnPlace
  <2>3. QED
    BY <2>1, <2>2 DEF AnsweredAtEnd
<1>6. QED
  BY <1>3, <1>4, <1>5 DEF ErrorsAreRaces

\* The invariant about overlaps holds of every reachable state.
LEMMA RacesHold == Spec => []RaceInv
<1>1. Inv /\ RaceInv /\ [Next]_vars => RaceInv'
  <2>1. ASSUME UNCHANGED vars, RaceInv PROVE RaceInv'
    <3>1. /\ UNCHANGED <<users, sessions, issued, pc, call, seen, dirty, targets, row>>
          /\ UNCHANGED <<userRows, sessionRows, answer, alone>>
      BY <2>1 DEF vars, request
    <3>2. \A r : Entity(r)' = Entity(r)
      BY <3>1 DEF Entity
    <3>3. QED
      BY <2>1, <3>1, <3>2 DEF RaceInv, AnsweredAtEnd, TokensOfRegistered, Registered,
         CreatorsRegistered, AloneMeansAlone, IsAlone, Active, ReadsHold, ReadHolds, FreeFor, Owners,
         ErrorsAreRaces
  <2>2. ASSUME Inv, RaceInv, NEW r \in Requests, Move(r) PROVE RaceInv'
    BY <2>2, ErrorsMove, TokensMove, CreatorsMove, AloneMove, ReadsMove DEF RaceInv
  <2>3. QED
    BY <2>1, <2>2 DEF Next, Move
<1>2. QED
  BY <1>1, InitRace, InvHolds, PTL DEF Spec

\* A request no other writer overlaps never gets an error no handler maps,
\* unless its token outlived its user and it creates a session: whatever it
\* was asked, every other such error has another request as its cause.
THEOREM ErrorsComeFromRaces == Spec => []ErrorsAreRaces
<1>1. RaceInv => ErrorsAreRaces
  BY DEF RaceInv
<1>2. QED
  BY <1>1, RacesHold, PTL
=============================================================================
