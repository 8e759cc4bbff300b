------------------------------ MODULE Accounts ------------------------------
(***************************************************************************)
(* Users, their sessions and their tokens: concurrent HTTP requests, each   *)
(* a transaction (SqlAlchemyUnitOfWork) of a few statements at the          *)
(* isolation the engine uses, READ COMMITTED.  One action is one statement: *)
(* a SELECT sees what is committed; an INSERT, UPDATE or DELETE waits for   *)
(* the rows and addresses that other open transactions have written, then   *)
(* works on what is committed by now.  The flush of delete_user is three    *)
(* statements (its loaded sessions, the row, the cascade); an UPDATE that   *)
(* writes the address has two parts (the row, then the unique index).       *)
(*                                                                         *)
(* A repository reads a row, drops the object and reads it again before it  *)
(* writes: session.get finds nothing in the identity map, which holds its   *)
(* objects weakly.  Column name stands for name and is_active, the columns  *)
(* no rule looks at; a session's title is left out, and a rename to the    *)
(* title it has already writes nothing.  The id a request makes is its own. *)
(***************************************************************************)
CONSTANTS Requests, OldUsers, OldSessions, Emails, Texts, NoRow, Unset,
          InitialUsers, InitialSessions, NewName, MayAsk

UserIds == OldUsers \cup Requests
SessionIds == OldSessions \cup Requests
UserRows == [email : Emails, name : Texts]
SessionRows == [user : UserIds]

(* The requests: those that write, and all that end with one statement *)
Ops == {"none", "read", "register", "update_user", "delete_user",
        "create_session", "rename_session", "delete_session"}

ASSUME StoreAssumption ==
    /\ NoRow \notin UserRows \cup SessionRows
    /\ Unset \notin Emails \cup Texts
    /\ Requests \cap (OldUsers \cup OldSessions) = {}
    /\ InitialUsers \in [UserIds -> UserRows \cup {NoRow}]
    /\ InitialSessions \in [SessionIds -> SessionRows \cup {NoRow}]
    /\ NewName \in Texts
    /\ MayAsk \in [Requests -> SUBSET Ops]
    /\ \A r \in Requests : InitialUsers[r] = NoRow /\ InitialSessions[r] = NoRow
    /\ \A u, v \in UserIds :
         u # v /\ InitialUsers[u] # NoRow /\ InitialUsers[v] # NoRow
           => InitialUsers[u].email # InitialUsers[v].email
    /\ \A s \in SessionIds :
         InitialSessions[s] # NoRow => InitialUsers[InitialSessions[s].user] # NoRow

VARIABLES
    users,          \* the users table, as committed
    sessions,       \* the sessions table, as committed
    issued,         \* the tokens issued so far; their signatures cannot be forged
    pc,             \* the statement a request comes to next
    call,           \* what the request asks, and for whom
    seen,           \* the user row an update has read first
    dirty,          \* the columns its UPDATE writes
    targets,        \* the session rows its next statement writes
    row,            \* what the transaction has written (NoRow: it deletes)
    userRows,       \* the user rows it has written, and so holds
    sessionRows,    \* the session rows it has written, and so holds
    answer,         \* the outcome the client gets
    alone           \* whether no other writing request has overlapped it

request == <<pc, call, seen, dirty, targets, row, userRows, sessionRows, answer, alone>>
vars == <<users, sessions, issued, request>>

NewCall(op, who) == [op |-> op, who |-> who, on |-> Unset, email |-> Unset, text |-> Unset]
Calls == [op : Ops, who : UserIds, on : SessionIds \cup {Unset},
          email : Emails \cup {Unset}, text : Texts \cup {Unset}]

Statements == {"check", "refetch", "load", "sessions", "row", "index",
               "cascade", "insert", "commit"}
(* refused is any 4xx; error a 500 no handler maps, failed one that an outage  *)
(* or a lost client makes *)
Answers == {"none", "ok", "refused", "error", "failed"}

Tokens == [sub : UserIds, type : {"access", "refresh"}]
TokenPair(u) == {[sub |-> u, type |-> "access"], [sub |-> u, type |-> "refresh"]}

(* The users a token of a type speaks for, verify_access_token and          *)
(* verify_refresh_token: whether they still exist is not looked at *)
Bearers(type) == {token.sub : token \in {t \in issued : t.type = type}}

Active(r) == pc[r] \in Statements

(* The users table by address: get_by_email *)
Owners(address) == {u \in UserIds : users[u] # NoRow /\ users[u].email = address}
SessionsOf(u) == {s \in SessionIds : sessions[s] # NoRow /\ sessions[s].user = u}

(* Mutant: the fields that were not asked for are set to nothing *)
EntityAsAsked(r) == [email |-> call[r].email, name |-> call[r].text]

(* The entity update_user hands to the repository *)
Entity(r) == [email |-> IF call[r].email = Unset THEN seen[r].email ELSE call[r].email,
              name  |-> IF call[r].text = Unset THEN seen[r].name ELSE call[r].text]

-----------------------------------------------------------------------------
(* What the database makes a statement wait for. *)

(* An uncommitted deletion or change of address: a key of the row is locked *)
ChangesKey(q) == row[q] # NoRow => \E u \in userRows[q] : row[q].email # users[u].email

(* An INSERT of a session holds a share of its user's key until its end *)
SharesKey(q) == call[q].op = "create_session" /\ pc[q] = "commit"

WaitsForRow(r, q) ==
    \/ call[r].who \in userRows[q]
    \/ /\ SharesKey(q)
       /\ call[q].who = call[r].who
       /\ call[r].op = "delete_user" \/ "email" \in dirty[r]

(* Mutant: addresses are compared with committed rows only *)
WaitsForAddressCommitted(r, q) ==
    \E u \in userRows[q] : users[u] # NoRow /\ users[u].email = row[r].email

WaitsForAddress(r, q) ==
    \/ \E u \in userRows[q] : users[u] # NoRow /\ users[u].email = row[r].email
    \/ pc[q] = "commit" /\ userRows[q] # {} /\ row[q] # NoRow /\ row[q].email = row[r].email

WaitsFor(r, q) ==
    /\ q # r
    /\ CASE pc[r] = "row"      -> WaitsForRow(r, q)
         [] pc[r] = "index"    -> WaitsForAddress(r, q)
         [] pc[r] = "sessions" -> targets[r] \cap sessionRows[q] # {}
         [] pc[r] = "cascade"  -> SessionsOf(call[r].who) \cap sessionRows[q] # {}
         [] pc[r] = "insert"   -> call[r].who \in userRows[q] /\ ChangesKey(q)
         [] OTHER              -> FALSE

Blocked(r) == \E q \in Requests : WaitsFor(r, q)

(* Transactions that wait for each other in a circle: every part of S waits  *)
(* for the rest of it *)
Stuck(S) ==
    /\ \E r, q \in S : r # q
    /\ \A T \in (SUBSET S) \ {{}, S} : \E r \in T, q \in S \ T : WaitsFor(r, q)

-----------------------------------------------------------------------------
Init ==
    /\ users = InitialUsers
    /\ sessions = InitialSessions
    /\ issued = UNION {TokenPair(u) : u \in OldUsers}
    /\ pc = [r \in Requests |-> "idle"]
    /\ call = [r \in Requests |-> NewCall("none", r)]
    /\ seen = [r \in Requests |-> NoRow]
    /\ dirty = [r \in Requests |-> {}]
    /\ targets = [r \in Requests |-> {}]
    /\ row = [r \in Requests |-> NoRow]
    /\ userRows = [r \in Requests |-> {}]
    /\ sessionRows = [r \in Requests |-> {}]
    /\ answer = [r \in Requests |-> "none"]
    /\ alone = [r \in Requests |-> TRUE]

tables == <<users, sessions, issued>>

(* A writing request arrives; others that are under way are no longer alone *)
Arrives(r, c) ==
    /\ call' = [call EXCEPT ![r] = c]
    /\ alone' = [q \in Requests |-> IF q = r THEN \A p \in Requests : ~Active(p)
                                    ELSE alone[q] /\ ~Active(q)]

GoesTo(r, statement) ==
    /\ pc' = [pc EXCEPT ![r] = statement]
    /\ UNCHANGED answer

Continues(r, statement) == GoesTo(r, statement) /\ UNCHANGED call

(* Mutant: the transaction of a request that fails stays open *)
EndsUnclosed(r, outcome) ==
    /\ pc' = [pc EXCEPT ![r] = "done"]
    /\ answer' = [answer EXCEPT ![r] = outcome]
    /\ userRows' = IF outcome = "failed" THEN userRows ELSE [userRows EXCEPT ![r] = {}]
    /\ sessionRows' = IF outcome = "failed" THEN sessionRows ELSE [sessionRows EXCEPT ![r] = {}]
    /\ row' = IF outcome = "failed" THEN row ELSE [row EXCEPT ![r] = NoRow]
    /\ call' = [call EXCEPT ![r] = NewCall(@.op, @.who)]
    /\ UNCHANGED <<seen, dirty, targets>>

(* The end of the transaction: the unit of work closes its session, which   *)
(* gives up all it holds; of the call, only what it was remains *)
Ends(r, outcome) ==
    /\ pc' = [pc EXCEPT ![r] = "done"]
    /\ answer' = [answer EXCEPT ![r] = outcome]
    /\ userRows' = [userRows EXCEPT ![r] = {}]
    /\ sessionRows' = [sessionRows EXCEPT ![r] = {}]
    /\ row' = [row EXCEPT ![r] = NoRow]
    /\ targets' = [targets EXCEPT ![r] = {}]
    /\ dirty' = [dirty EXCEPT ![r] = {}]
    /\ seen' = [seen EXCEPT ![r] = NoRow]
    /\ call' = [call EXCEPT ![r] = NewCall(@.op, @.who)]

writes == <<seen, dirty, targets, row, userRows, sessionRows>>


-----------------------------------------------------------------------------
(* MayAsk bounds what each request of an instance asks *)
Asks(r, op) == pc[r] = "idle" /\ op \in MayAsk[r]

(* Requests that end with their first statement: those that only read, and  *)
(* those refused *)

EndsAtOnce(r, outcome) ==
    /\ Asks(r, "read")
    /\ Ends(r, outcome)
    /\ UNCHANGED <<users, sessions, alone>>

(* The token is missing, expired, malformed or of the wrong type *)
RefuseToken(r) ==
    /\ EndsAtOnce(r, "refused")
    /\ UNCHANGED issued

(* get, update and delete user: the user in the path is not the token's own *)
RefusePath(r) ==
    /\ \E who \in Bearers("access") : UserIds \ {who} # {} /\ EndsAtOnce(r, "refused")
    /\ UNCHANGED issued

(* The password is that of the account secret, the address any address *)
Login(r) ==
    \E secret \in UserIds, address \in Emails :
      LET valid == secret \in Owners(address)
      IN  /\ EndsAtOnce(r, IF valid THEN "ok" ELSE "refused")
          /\ issued' = IF valid THEN issued \cup TokenPair(secret) ELSE issued

(* The new pair is issued to a user that exists; the old tokens stay valid *)
Refresh(r) ==
    \E who \in Bearers("refresh") :
      LET known == users[who] # NoRow
      IN  /\ EndsAtOnce(r, IF known THEN "ok" ELSE "refused")
          /\ issued' = IF known THEN issued \cup TokenPair(who) ELSE issued

(* me, list users, get user: all read the user of the token *)
ReadUser(r) ==
    /\ \E who \in Bearers("access") :
         EndsAtOnce(r, IF users[who] = NoRow THEN "refused" ELSE "ok")
    /\ UNCHANGED issued

(* list sessions, get session: a session of another user is not found *)
ReadSessions(r) ==
    /\ \/ EndsAtOnce(r, "ok")
       \/ \E who \in Bearers("access"), s \in SessionIds :
            EndsAtOnce(r, IF s \in SessionsOf(who) THEN "ok" ELSE "refused")
    /\ UNCHANGED issued

-----------------------------------------------------------------------------
(* The first statement of the requests that write. *)

(* Mutant: no get_by_email before the INSERT *)
RegisterUnchecked(r) ==
    /\ Asks(r, "register")
    /\ \E address \in Emails :
         /\ Arrives(r, [NewCall("register", r) EXCEPT !.email = address])
         /\ GoesTo(r, "index")
         /\ row' = [row EXCEPT ![r] = [email |-> address, name |-> NewName]]
         /\ UNCHANGED <<seen, dirty, targets, userRows, sessionRows>>
    /\ UNCHANGED tables

Register(r) ==
    /\ Asks(r, "register")
    /\ \E address \in Emails :
         IF Owners(address) # {}
         THEN Ends(r, "refused") /\ UNCHANGED alone
         ELSE /\ Arrives(r, [NewCall("register", r) EXCEPT !.email = address])
              /\ GoesTo(r, "index")
              /\ row' = [row EXCEPT ![r] = [email |-> address, name |-> NewName]]
              /\ UNCHANGED <<seen, dirty, targets, userRows, sessionRows>>
    /\ UNCHANGED tables

UpdateUser(r) ==
    /\ Asks(r, "update_user")
    /\ \E who \in Bearers("access"), address \in Emails \cup {Unset}, text \in Texts \cup {Unset} :
         IF users[who] = NoRow
         THEN Ends(r, "refused") /\ UNCHANGED alone
         ELSE /\ Arrives(r, [NewCall("update_user", who) EXCEPT !.email = address, !.text = text])
              /\ GoesTo(r, IF address \in {Unset, users[who].email} THEN "refetch" ELSE "check")
              /\ seen' = [seen EXCEPT ![r] = users[who]]
              /\ UNCHANGED <<dirty, targets, row, userRows, sessionRows>>
    /\ UNCHANGED tables

DeleteUser(r) ==
    /\ Asks(r, "delete_user")
    /\ \E who \in Bearers("access") :
         IF users[who] = NoRow
         THEN Ends(r, "refused") /\ UNCHANGED alone
         ELSE Arrives(r, NewCall("delete_user", who)) /\ GoesTo(r, "refetch") /\ UNCHANGED writes
    /\ UNCHANGED tables

CreateSession(r) ==
    /\ Asks(r, "create_session")
    /\ \E who \in Bearers("access") : Arrives(r, NewCall("create_session", who))
    /\ GoesTo(r, "insert")
    /\ UNCHANGED <<tables, writes>>

RenameSession(r) ==
    /\ Asks(r, "rename_session")
    /\ \E who \in Bearers("access"), s \in SessionIds :
         IF s \notin SessionsOf(who)
         THEN Ends(r, "refused") /\ UNCHANGED alone
         ELSE /\ Arrives(r, [NewCall("rename_session", who) EXCEPT !.on = s])
              /\ GoesTo(r, "refetch")
              /\ UNCHANGED writes
    /\ UNCHANGED tables

(* Mutant: the owner of the session is not looked at *)
DeleteSessionOfAnyone(r) ==
    /\ Asks(r, "delete_session")
    /\ \E who \in Bearers("access"), s \in SessionIds :
         /\ sessions[s] # NoRow
         /\ Arrives(r, [NewCall("delete_session", who) EXCEPT !.on = s])
         /\ GoesTo(r, "refetch")
         /\ UNCHANGED writes
    /\ UNCHANGED tables

DeleteSession(r) ==
    /\ Asks(r, "delete_session")
    /\ \E who \in Bearers("access"), s \in SessionIds :
         IF s \notin SessionsOf(who)
         THEN Ends(r, "refused") /\ UNCHANGED alone
         ELSE /\ Arrives(r, [NewCall("delete_session", who) EXCEPT !.on = s])
              /\ GoesTo(r, "refetch")
              /\ UNCHANGED writes
    /\ UNCHANGED tables

-----------------------------------------------------------------------------
(* The statements that follow. *)

At(r, statement) ==
    /\ pc[r] = statement
    /\ ~Blocked(r)
    /\ UNCHANGED <<tables, alone>>

(* get_by_email of an update that changes the address *)
CheckAddress(r) ==
    /\ At(r, "check")
    /\ IF Owners(call[r].email) \ {call[r].who} # {}
       THEN Ends(r, "refused")
       ELSE Continues(r, "refetch") /\ UNCHANGED writes

(* session.get in UserRepository.update, and the columns its flush writes *)
RefetchToUpdate(r) ==
    /\ At(r, "refetch") /\ call[r].op = "update_user"
    /\ LET now == users[call[r].who]
           differ == {c \in {"email", "name"} : Entity(r)[c] # now[c]}
       IN  IF now = NoRow
           THEN Ends(r, "error")
           ELSE /\ Continues(r, IF differ = {} THEN "commit" ELSE "row")
                /\ dirty' = [dirty EXCEPT ![r] = differ]
                /\ UNCHANGED <<seen, targets, row, userRows, sessionRows>>

RefetchToDelete(r) ==
    /\ At(r, "refetch") /\ call[r].op = "delete_user"
    /\ Continues(r, IF users[call[r].who] = NoRow THEN "commit" ELSE "load")
    /\ UNCHANGED writes

(* session.delete(orm) loads the sessions the delete cascades to *)
LoadSessions(r) ==
    /\ At(r, "load")
    /\ LET loaded == SessionsOf(call[r].who)
       IN  /\ Continues(r, IF loaded = {} THEN "row" ELSE "sessions")
           /\ targets' = [targets EXCEPT ![r] = loaded]
    /\ UNCHANGED <<seen, dirty, row, userRows, sessionRows>>

RefetchSession(r) ==
    /\ At(r, "refetch") /\ call[r].op \in {"rename_session", "delete_session"}
    /\ LET gone == sessions[call[r].on] = NoRow
           rename == call[r].op = "rename_session"
       IN  \/ gone /\ rename /\ Ends(r, "error")
           \/ /\ gone => ~rename
              /\ \/ (gone \/ rename) /\ Continues(r, "commit")   \* nothing to write
                 \/ ~gone /\ Continues(r, "sessions")
              /\ targets' = [targets EXCEPT ![r] = {call[r].on}]
              /\ UNCHANGED <<seen, dirty, row, userRows, sessionRows>>

(* Mutant: a rename goes on to write the session's user as well *)
WriteSessionsAndUser(r) ==
    /\ At(r, "sessions")
    /\ LET live == {s \in targets[r] : sessions[s] # NoRow}
           rename == call[r].op = "rename_session"
       IN  IF rename /\ live = {}
           THEN Ends(r, "error")
           ELSE /\ Continues(r, IF call[r].op = "delete_session" THEN "commit" ELSE "row")
                /\ sessionRows' = [sessionRows EXCEPT ![r] = live]
                /\ UNCHANGED <<seen, dirty, targets, row, userRows>>

(* UPDATE or DELETE of session rows: a row gone meanwhile is not written,    *)
(* which is an error for an UPDATE and a warning for a DELETE *)
WriteSessions(r) ==
    /\ At(r, "sessions")
    /\ LET live == {s \in targets[r] : sessions[s] # NoRow}
           rename == call[r].op = "rename_session"
       IN  IF rename /\ live = {}
           THEN Ends(r, "error")
           ELSE /\ Continues(r, IF call[r].op = "delete_user" THEN "row" ELSE "commit")
                /\ sessionRows' = [sessionRows EXCEPT ![r] = live]
                /\ row' = [row EXCEPT ![r] =
                             IF rename THEN sessions[call[r].on] ELSE NoRow]
                /\ UNCHANGED <<seen, dirty, targets, userRows>>

(* UPDATE users ... SET the dirty columns *)
WriteUser(r) ==
    /\ At(r, "row") /\ call[r].op = "update_user"
    /\ LET u == call[r].who
           Column(c) == IF c \in dirty[r] THEN Entity(r)[c] ELSE users[u][c]
       IN  IF users[u] = NoRow
           THEN Ends(r, "error")
           ELSE /\ Continues(r, IF "email" \in dirty[r] THEN "index" ELSE "commit")
                /\ userRows' = [userRows EXCEPT ![r] = {u}]
                /\ row' = [row EXCEPT ![r] = [email |-> Column("email"), name |-> Column("name")]]
                /\ UNCHANGED <<seen, dirty, targets, sessionRows>>

(* DELETE FROM users; its trigger then deletes the sessions left *)
EraseUser(r) ==
    /\ At(r, "row") /\ call[r].op = "delete_user"
    /\ IF users[call[r].who] = NoRow
       THEN Continues(r, "commit") /\ UNCHANGED writes
       ELSE /\ Continues(r, "cascade")
            /\ userRows' = [userRows EXCEPT ![r] = {call[r].who}]
            /\ UNCHANGED <<seen, dirty, targets, row, sessionRows>>

(* Mutant: only the sessions loaded before are deleted *)
CascadeLoaded(r) == At(r, "cascade") /\ Continues(r, "commit") /\ UNCHANGED writes

Cascade(r) ==
    /\ At(r, "cascade")
    /\ Continues(r, "commit")
    /\ sessionRows' = [sessionRows EXCEPT ![r] = @ \cup SessionsOf(call[r].who)]
    /\ UNCHANGED <<seen, dirty, targets, row, userRows>>

(* The unique index: of an INSERT, or of an UPDATE of the address *)
Index(r) ==
    /\ At(r, "index")
    /\ IF Owners(row[r].email) \ {call[r].who} # {}
       THEN Ends(r, "error")
       ELSE /\ Continues(r, "commit")
            /\ userRows' = [userRows EXCEPT ![r] = {call[r].who}]
            /\ UNCHANGED <<seen, dirty, targets, row, sessionRows>>

(* Mutant: no foreign key *)
InsertSessionUnchecked(r) ==
    /\ At(r, "insert")
    /\ Continues(r, "commit")
    /\ sessionRows' = [sessionRows EXCEPT ![r] = {r}]
    /\ row' = [row EXCEPT ![r] = [user |-> call[r].who]]
    /\ UNCHANGED <<seen, dirty, targets, userRows>>

(* INSERT INTO sessions, with the foreign key to its user *)
InsertSession(r) ==
    /\ At(r, "insert")
    /\ IF users[call[r].who] = NoRow
       THEN Ends(r, "error")
       ELSE /\ Continues(r, "commit")
            /\ sessionRows' = [sessionRows EXCEPT ![r] = {r}]
            /\ row' = [row EXCEPT ![r] = [user |-> call[r].who]]
            /\ UNCHANGED <<seen, dirty, targets, userRows>>

(* The commit; its acknowledgement may be lost *)
Commit(r) ==
    /\ pc[r] = "commit"
    /\ users' = [u \in UserIds |-> IF u \in userRows[r] THEN row[r] ELSE users[u]]
    /\ sessions' = [s \in SessionIds |-> IF s \in sessionRows[r] THEN row[r] ELSE sessions[s]]
    /\ \E outcome \in {"ok", "failed"} : Ends(r, outcome)
    /\ UNCHANGED <<issued, alone>>

(* Any await may raise: the database is away, the client has left, the       *)
(* process dies.  The transaction is rolled back *)
Fail(r) ==
    /\ Active(r)
    /\ Ends(r, "failed")
    /\ UNCHANGED <<tables, alone>>

(* The database ends one of the transactions that wait for each other *)
Deadlock(r) ==
    /\ \E S \in SUBSET Requests : r \in S /\ Stuck(S)
    /\ Ends(r, "error")
    /\ UNCHANGED <<tables, alone>>

Statement(r) ==
    \/ CheckAddress(r) \/ RefetchToUpdate(r) \/ RefetchToDelete(r) \/ LoadSessions(r)
    \/ RefetchSession(r) \/ WriteSessions(r) \/ WriteUser(r) \/ EraseUser(r)
    \/ Cascade(r) \/ Index(r) \/ InsertSession(r) \/ Commit(r) \/ Deadlock(r)

Next ==
    \E r \in Requests :
      \/ RefuseToken(r) \/ RefusePath(r) \/ Login(r) \/ Refresh(r) \/ ReadUser(r) \/ ReadSessions(r)
      \/ Register(r) \/ UpdateUser(r) \/ DeleteUser(r)
      \/ CreateSession(r) \/ RenameSession(r) \/ DeleteSession(r)
      \/ Statement(r) \/ Fail(r)

Spec == Init /\ [][Next]_vars /\ WF_vars(\E r \in Requests : Statement(r))

-----------------------------------------------------------------------------
TypeOK ==
    /\ users \in [UserIds -> UserRows \cup {NoRow}]
    /\ sessions \in [SessionIds -> SessionRows \cup {NoRow}]
    /\ issued \subseteq Tokens
    /\ pc \in [Requests -> Statements \cup {"idle", "done"}]
    /\ call \in [Requests -> Calls]
    /\ seen \in [Requests -> UserRows \cup {NoRow}]
    /\ dirty \in [Requests -> SUBSET {"email", "name"}]
    /\ targets \in [Requests -> SUBSET SessionIds]
    /\ row \in [Requests -> UserRows \cup SessionRows \cup {NoRow}]
    /\ userRows \in [Requests -> SUBSET UserIds]
    /\ sessionRows \in [Requests -> SUBSET SessionIds]
    /\ answer \in [Requests -> Answers]
    /\ alone \in [Requests -> BOOLEAN]

(* Two requests that both found an address free cannot both get it: only    *)
(* the wait at the unique index stands between get_by_email and the write. *)
OneUserPerAddress ==
    \A u, v \in UserIds :
      u # v /\ users[u] # NoRow /\ users[v] # NoRow => users[u].email # users[v].email

(* No session outlives its user, whenever it was created or renamed with     *)
(* respect to the statements of the deletion. *)
SessionsHaveUser ==
    \A s \in SessionIds : sessions[s] # NoRow => users[sessions[s].user] # NoRow

(* What each request did is a whole operation of the abstract store: a user  *)
(* leaves in one step with every session there is at that moment. *)
Store == INSTANCE Directory
StoreSpec == Store!Spec

(* What a request does to the tables it does to its own user, the one its   *)
(* token was issued for, and to that user's sessions, although it looks at  *)
(* the owner one statement or more before it writes. *)
OnlyOwnDataChanges ==
    [][/\ \A u \in UserIds : users'[u] # users[u] =>
            \E r \in Requests : pc[r] = "commit" /\ pc'[r] = "done" /\ call[r].who = u
       /\ \A s \in SessionIds : sessions'[s] # sessions[s] =>
            \E r \in Requests : pc[r] = "commit" /\ pc'[r] = "done"
              /\ call[r].who = (IF sessions[s] = NoRow THEN sessions'[s] ELSE sessions[s]).user]_vars

(* A column of a user changes to what an update asks for, or else back to    *)
(* what that update had read first, another having changed it since: never *)
(* to anything a request neither read nor was given. *)
ChangesAreAskedOrReadBack ==
    [][\A u \in UserIds : users[u] # NoRow /\ users'[u] \notin {NoRow, users[u]} =>
         \E r \in Requests :
           /\ pc[r] = "commit" /\ pc'[r] = "done" /\ seen[r] # NoRow
           /\ users'[u].email \in {users[u].email, call[r].email, seen[r].email} \ {Unset}
           /\ users'[u].name \in {users[u].name, call[r].text, seen[r].name} \ {Unset}]_vars

(* An error no handler maps (500) is the price of a race: a request no other *)
(* writer overlaps gets one only if its token is of a user that has left and *)
(* it creates a session, whose foreign key is then the only check. *)
ErrorsAreRaces ==
    \A r \in Requests : answer[r] = "error" /\ alone[r] =>
      call[r].op = "create_session" /\ users[call[r].who] = NoRow

(* Requests that wait for each other are deletions of one user, which       *)
(* loaded different sessions, or changes of address. *)
DeadlocksAreOfUsers ==
    \A S \in SUBSET Requests : Stuck(S) =>
      \/ \A r, q \in S : call[r].op = "delete_user" /\ call[r].who = call[q].who
      \/ \A r \in S : call[r].op = "update_user"

(* Every request that has started is answered, whoever it had to wait for. *)
EveryRequestEnds == []<>(\A r \in Requests : ~Active(r))
=============================================================================
