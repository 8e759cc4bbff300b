--------------------------- MODULE AccountsProofs ---------------------------
(***************************************************************************)
(* Theorems about Accounts, for every number of requests, every store they *)
(* start from and everything they ask.                                     *)
(***************************************************************************)
EXTENDS Accounts, TLAPS

(***************************************************************************)
(* The inductive invariant.  Own(r) is what a request has done so far, by  *)
(* the operation it was asked for; Apart(r, q) is what the locks keep      *)
(* apart: the rows two transactions hold, the addresses they are about to  *)
(* publish, a new session and the deletion of its user.                    *)
(***************************************************************************)

\* A transaction that has written nothing.
Clean(r) == userRows[r] = {} /\ sessionRows[r] = {}

\* The address it is about to commit is free for it.
Publishes(r) == pc[r] = "commit" /\ userRows[r] # {} /\ row[r] # NoRow
AddressIsFree(r) ==
  Publishes(r) => \A v \in UserIds \ userRows[r] :
                    users[v] # NoRow => users[v].email # row[r].email

\* A session a request works on is one that was committed, or went since.
Known(r, s) ==
  /\ s \in Requests => pc[s] = "done"
  /\ sessions[s] # NoRow => sessions[s].user = call[r].who

RegisterOwn(r) == call[r].op = "register" =>
  /\ pc[r] \in {"index", "commit", "done"}
  /\ call[r].who = r
  /\ sessionRows[r] = {}
  /\ pc[r] = "index" => userRows[r] = {} /\ row[r] \in UserRows
  /\ pc[r] = "commit" => userRows[r] = {r} /\ row[r] \in UserRows

UpdateOwn(r) == call[r].op = "update_user" =>
  /\ pc[r] \in {"check", "refetch", "row", "index", "commit", "done"}
  /\ sessionRows[r] = {}
  /\ pc[r] \in {"check", "refetch", "row"} => userRows[r] = {} /\ seen[r] \in UserRows
  /\ pc[r] = "index" => userRows[r] = {call[r].who}
  /\ userRows[r] # {} => /\ userRows[r] = {call[r].who}
                         /\ users[call[r].who] # NoRow
                         /\ row[r] \in UserRows

DeleteOwn(r) == call[r].op = "delete_user" =>
  /\ pc[r] \in {"refetch", "load", "sessions", "row", "cascade", "commit", "done"}
  /\ row[r] = NoRow
  /\ pc[r] \in {"refetch", "load", "sessions"} => Clean(r)
  /\ pc[r] = "sessions" => \A s \in targets[r] : Known(r, s)
  /\ pc[r] = "row" => userRows[r] = {}
  /\ pc[r] = "cascade" => userRows[r] = {call[r].who}
  /\ userRows[r] # {} => userRows[r] = {call[r].who} /\ users[call[r].who] # NoRow
  /\ sessionRows[r] \subseteq SessionsOf(call[r].who)
  /\ pc[r] = "commit" => \/ Clean(r)
                         \/ /\ userRows[r] = {call[r].who}
                            /\ sessionRows[r] = SessionsOf(call[r].who)

CreateOwn(r) == call[r].op = "create_session" =>
  /\ pc[r] \in {"insert", "commit", "done"}
  /\ userRows[r] = {}
  /\ pc[r] = "insert" => sessionRows[r] = {}
  /\ pc[r] = "commit" => /\ sessionRows[r] = {r}
                         /\ row[r] = [user |-> call[r].who]
                         /\ users[call[r].who] # NoRow

SessionOwn(r) == call[r].op \in {"rename_session", "delete_session"} =>
  /\ pc[r] \in {"refetch", "sessions", "commit", "done"}
  /\ userRows[r] = {}
  /\ pc[r] \in {"refetch", "sessions"} => sessionRows[r] = {}
  /\ pc[r] # "done" => call[r].on \in SessionIds /\ Known(r, call[r].on)
  /\ pc[r] = "sessions" => targets[r] = {call[r].on}
  /\ sessionRows[r] # {} =>
       /\ sessionRows[r] = {call[r].on}
       /\ sessions[call[r].on] # NoRow
       /\ row[r] = IF call[r].op = "rename_session" THEN sessions[call[r].on] ELSE NoRow

Own(r) ==
  /\ pc[r] \in {"idle", "done"} => Clean(r) /\ row[r] = NoRow
  /\ pc[r] # "done" => users[r] = NoRow /\ sessions[r] = NoRow
  /\ pc[r] = "idle" => call[r].op = "none"
  /\ call[r].op \in {"none", "read"} => pc[r] \in {"idle", "done"}
  /\ RegisterOwn(r) /\ UpdateOwn(r) /\ DeleteOwn(r) /\ CreateOwn(r) /\ SessionOwn(r)
  /\ AddressIsFree(r)

Apart(r, q) ==
  /\ userRows[r] \cap userRows[q] = {}
  /\ sessionRows[r] \cap sessionRows[q] = {}
  /\ Publishes(r) /\ Publishes(q) => row[r].email # row[q].email
  /\ SharesKey(r) /\ call[q].op = "delete_user" => call[r].who \notin userRows[q]

Inv ==
  /\ TypeOK
  /\ OneUserPerAddress
  /\ SessionsHaveUser
  /\ \A r \in Requests : Own(r)
  /\ \A r, q \in Requests : r # q => Apart(r, q)

(***************************************************************************)
(* The start.                                                              *)
(***************************************************************************)
LEMMA CallType ==
  ASSUME NEW op \in Ops, NEW who \in UserIds
  PROVE  NewCall(op, who) \in Calls
BY DEF NewCall, Calls

\* At the start no transaction is open, and the tables are those StoreAssumption describes.
LEMMA InitInv == Init => Inv
<1> SUFFICES ASSUME Init PROVE Inv
  OBVIOUS
<1> USE StoreAssumption
<1>1. TypeOK
  <2>1. call \in [Requests -> Calls]
    BY CallType DEF Init, Ops, UserIds
  <2>2. issued \subseteq Tokens
    BY DEF Init, TokenPair, Tokens, UserIds
  <2>3. QED
    BY <2>1, <2>2 DEF Init, TypeOK, Answers, Statements
<1>2. OneUserPerAddress
  BY DEF Init, OneUserPerAddress
<1>3. SessionsHaveUser
  BY DEF Init, SessionsHaveUser
<1>4. ASSUME NEW r \in Requests PROVE Own(r)
  BY DEF Init, Own, Clean, RegisterOwn, UpdateOwn, DeleteOwn, CreateOwn, SessionOwn,
     AddressIsFree, Publishes, NewCall
<1>5. ASSUME NEW r \in Requests, NEW q \in Requests PROVE Apart(r, q)
  BY DEF Init, Apart, Publishes, SharesKey, NewCall
<1>6. QED
  BY <1>1, <1>2, <1>3, <1>4, <1>5 DEF Inv

(***************************************************************************)
(* A step that commits nothing disturbs only what is about its request.    *)
(***************************************************************************)
Frame(r) ==
  /\ pc[r] # "done"
  /\ UNCHANGED <<users, sessions>>
  /\ \A q \in Requests \ {r} :
       /\ pc'[q] = pc[q] /\ call'[q] = call[q] /\ seen'[q] = seen[q]
       /\ targets'[q] = targets[q] /\ row'[q] = row[q]
       /\ userRows'[q] = userRows[q] /\ sessionRows'[q] = sessionRows[q]

\* A step that leaves the tables and the other transactions alone needs an argument only about
\* its own transaction, and that it stays apart from the others.
LEMMA LocalStep ==
  ASSUME Inv, NEW r \in Requests, Frame(r), TypeOK', Own(r)',
         \A q \in Requests \ {r} : Apart(r, q)' /\ Apart(q, r)'
  PROVE  Inv'
<1>1. ASSUME NEW q \in Requests \ {r} PROVE Own(q)'
  <2>1. Own(q)
    BY DEF Inv
  <2>2. \A s : Known(q, s) => Known(q, s)'
    BY DEF Known, Frame
  <2>3. (SessionsOf(call[q].who))' = SessionsOf(call[q].who)
    BY DEF SessionsOf, Frame
  <2>4. RegisterOwn(q)' /\ UpdateOwn(q)' /\ CreateOwn(q)' /\ AddressIsFree(q)'
    BY <2>1 DEF Own, RegisterOwn, UpdateOwn, CreateOwn, AddressIsFree, Publishes, Frame
  <2>5. DeleteOwn(q)'
    BY <2>1, <2>2, <2>3 DEF Own, DeleteOwn, Clean, Frame
  <2>6. SessionOwn(q)'
    BY <2>1, <2>2 DEF Own, SessionOwn, Frame
  <2>7. QED
    BY <2>1, <2>4, <2>5, <2>6 DEF Own, Clean, Frame
<1>2. ASSUME NEW p \in Requests \ {r}, NEW q \in Requests \ {r}, p # q PROVE Apart(p, q)'
  BY <1>2 DEF Inv, Apart, Publishes, SharesKey, Frame
<1>3. OneUserPerAddress' /\ SessionsHaveUser'
  BY DEF Inv, OneUserPerAddress, SessionsHaveUser, Frame
<1>4. QED
  BY <1>1, <1>2, <1>3 DEF Inv

\* A request that ends without a commit: it gives up all it held.
LEMMA EndStep ==
  ASSUME Inv, NEW r \in Requests, NEW outcome \in Answers, Ends(r, outcome),
         pc[r] # "done", UNCHANGED <<users, sessions>>,
         issued' \subseteq Tokens, alone' \in [Requests -> BOOLEAN]
  PROVE  Inv'
<1>1. TypeOK /\ Own(r)
  BY DEF Inv
<1>2. call'[r] = NewCall(call[r].op, call[r].who)
  BY <1>1 DEF Ends, TypeOK
<1>3. call[r].op \in Ops /\ call[r].who \in UserIds
  BY <1>1 DEF TypeOK, Calls
<1>4. TypeOK'
  <2>1. call' \in [Requests -> Calls]
    BY <1>1, <1>2, <1>3, CallType DEF Ends, TypeOK
  <2>2. QED
    BY <1>1, <2>1 DEF Ends, TypeOK, Statements
<1>5. Frame(r)
  BY <1>1 DEF Frame, Ends, TypeOK
<1>6. Clean(r)' /\ row'[r] = NoRow /\ pc'[r] = "done"
  BY <1>1 DEF Clean, Ends, TypeOK
<1>7. call'[r].op = call[r].op /\ call'[r].who = call[r].who
  BY <1>2 DEF NewCall
<1>8. Own(r)'
  BY <1>1, <1>6, <1>7 DEF Own, Clean, RegisterOwn, UpdateOwn, DeleteOwn, CreateOwn, SessionOwn,
     AddressIsFree, Publishes
<1>9. \A q \in Requests \ {r} : Apart(r, q)' /\ Apart(q, r)'
  BY <1>6 DEF Apart, Clean, Publishes, SharesKey
<1>10. QED
  BY <1>4, <1>5, <1>8, <1>9, LocalStep
\* A request that still holds nothing keeps apart from all others.
LEMMA CleanStep ==
  ASSUME Inv, NEW r \in Requests, Frame(r), TypeOK', Own(r)', Clean(r)',
         ~SharesKey(r)'
  PROVE  Inv'
<1>1. \A q \in Requests \ {r} : Apart(r, q)' /\ Apart(q, r)'
  BY DEF Apart, Clean, Publishes
<1>2. QED
  BY <1>1, LocalStep

(***************************************************************************)
(* Requests that end with their first statement.                           *)
(***************************************************************************)
LEMMA OnceStep ==
  ASSUME Inv, NEW r \in Requests,
         \/ RefuseToken(r) \/ RefusePath(r) \/ Login(r) \/ Refresh(r)
         \/ ReadUser(r) \/ ReadSessions(r)
  PROVE  Inv'
<1>1. TypeOK
  BY DEF Inv
<1>2. PICK outcome \in Answers : EndsAtOnce(r, outcome)
  BY DEF RefuseToken, RefusePath, Login, Refresh, ReadUser, ReadSessions, Answers
<1>3. issued' \subseteq Tokens
  <2>1. \A u \in UserIds : TokenPair(u) \subseteq Tokens
    BY DEF TokenPair, Tokens
  <2>2. \A type : Bearers(type) \subseteq UserIds
    BY <1>1 DEF Bearers, TypeOK, Tokens
  <2>3. QED
    BY <1>1, <2>1, <2>2 DEF TypeOK, RefuseToken, RefusePath, Login, Refresh, ReadUser, ReadSessions
<1>4. /\ Ends(r, outcome) /\ pc[r] # "done" /\ UNCHANGED <<users, sessions>>
      /\ alone' \in [Requests -> BOOLEAN]
  BY <1>1, <1>2 DEF EndsAtOnce, Asks, TypeOK
<1>5. QED
  BY <1>3, <1>4, EndStep

(***************************************************************************)
(* The first statement of the requests that write.                         *)
(***************************************************************************)
LEMMA BearersType == TypeOK => Bearers("access") \subseteq UserIds
BY DEF TypeOK, Bearers, Tokens

\* A request that is not idle has no writes yet when it arrives.
LEMMA ArrivalState ==
  ASSUME Inv, NEW r \in Requests, pc[r] = "idle"
  PROVE  /\ TypeOK
         /\ Clean(r)
         /\ row[r] = NoRow
         /\ users[r] = NoRow /\ sessions[r] = NoRow
BY DEF Inv, Own

\* A request arrives with an operation it may ask, and holds and writes nothing.
LEMMA ArriveType ==
  ASSUME TypeOK, NEW r \in Requests, NEW c \in Calls, Arrives(r, c),
         NEW statement \in Statements, GoesTo(r, statement)
  PROVE  /\ call' \in [Requests -> Calls] /\ call'[r] = c
         /\ alone' \in [Requests -> BOOLEAN]
         /\ pc' \in [Requests -> Statements \cup {"idle", "done"}] /\ pc'[r] = statement
         /\ answer' \in [Requests -> Answers]
BY DEF TypeOK, Arrives, GoesTo

\* Registering writes a row of the request's own user, once the look-up found the address free.
LEMMA RegisterStep ==
  ASSUME Inv, NEW r \in Requests, Register(r)
  PROVE  Inv'
<1>1. pc[r] = "idle" /\ UNCHANGED <<users, sessions, issued>>
  BY DEF Register, Asks, tables
<1>2. TypeOK /\ Clean(r) /\ users[r] = NoRow /\ sessions[r] = NoRow
  BY <1>1, ArrivalState
<1>3. CASE Ends(r, "refused") /\ UNCHANGED alone
  BY <1>1, <1>2, <1>3, EndStep DEF TypeOK, Answers
<1>4. ASSUME NEW address \in Emails,
             Arrives(r, [NewCall("register", r) EXCEPT !.email = address]),
             GoesTo(r, "index"),
             row' = [row EXCEPT ![r] = [email |-> address, name |-> NewName]],
             UNCHANGED <<seen, dirty, targets, userRows, sessionRows>>
      PROVE  Inv'
  <2> DEFINE c == [NewCall("register", r) EXCEPT !.email = address]
  <2>1. c \in Calls /\ c.op = "register" /\ c.who = r
    BY DEF NewCall, Calls, Ops, UserIds
  <2>2. /\ call' \in [Requests -> Calls] /\ call'[r] = c
        /\ alone' \in [Requests -> BOOLEAN]
        /\ pc' \in [Requests -> Statements \cup {"idle", "done"}] /\ pc'[r] = "index"
        /\ answer' \in [Requests -> Answers]
    BY <1>2, <1>4, <2>1, ArriveType DEF Statements
  <2>3. row' \in [Requests -> UserRows \cup SessionRows \cup {NoRow}] /\ row'[r] \in UserRows
    BY <1>2, <1>4, StoreAssumption DEF TypeOK, UserRows
  <2>4. TypeOK'
    BY <1>1, <1>2, <1>4, <2>2, <2>3 DEF TypeOK
  <2>5. Frame(r)
    BY <1>1, <1>2, <1>4 DEF Frame, Arrives, GoesTo, TypeOK
  <2>6. Clean(r)'
    BY <1>2, <1>4 DEF Clean
  <2>7. Own(r)'
    BY <1>1, <1>2, <2>1, <2>2, <2>3, <2>6 DEF Own, Clean, RegisterOwn, UpdateOwn, DeleteOwn, CreateOwn,
       SessionOwn, AddressIsFree, Publishes
  <2>8. QED
    BY <2>2, <2>4, <2>5, <2>6, <2>7, CleanStep DEF SharesKey
<1>5. QED
  BY <1>3, <1>4 DEF Register

\* An update begins with the check of the address or with the row, as UserService does.
LEMMA UpdateUserStep ==
  ASSUME Inv, NEW r \in Requests, UpdateUser(r)
  PROVE  Inv'
<1>1. pc[r] = "idle" /\ UNCHANGED <<users, sessions, issued>>
  BY DEF UpdateUser, Asks, tables
<1>2. TypeOK /\ Clean(r) /\ users[r] = NoRow /\ sessions[r] = NoRow
  BY <1>1, ArrivalState
<1>3. CASE Ends(r, "refused") /\ UNCHANGED alone
  BY <1>1, <1>2, <1>3, EndStep DEF TypeOK, Answers
<1>4. ASSUME NEW who \in Bearers("access"),
             NEW address \in Emails \cup {Unset}, NEW text \in Texts \cup {Unset},
             users[who] # NoRow,
             Arrives(r, [NewCall("update_user", who) EXCEPT !.email = address, !.text = text]),
             NEW statement \in {"refetch", "check"}, GoesTo(r, statement),
             seen' = [seen EXCEPT ![r] = users[who]],
             UNCHANGED <<dirty, targets, row, userRows, sessionRows>>
      PROVE  Inv'
  <2> DEFINE c == [NewCall("update_user", who) EXCEPT !.email = address, !.text = text]
  <2>1. c \in Calls /\ c.op = "update_user" /\ who \in UserIds
    BY <1>2, BearersType DEF NewCall, Calls, Ops
  <2>2. /\ call' \in [Requests -> Calls] /\ call'[r] = c
        /\ alone' \in [Requests -> BOOLEAN]
        /\ pc' \in [Requests -> Statements \cup {"idle", "done"}] /\ pc'[r] = statement
        /\ answer' \in [Requests -> Answers]
    BY <1>2, <1>4, <2>1, ArriveType DEF Statements
  <2>3. seen' \in [Requests -> UserRows \cup {NoRow}] /\ seen'[r] \in UserRows
    BY <1>2, <1>4, <2>1 DEF TypeOK
  <2>4. TypeOK'
    BY <1>1, <1>2, <1>4, <2>2, <2>3 DEF TypeOK
  <2>5. Frame(r)
    BY <1>1, <1>2, <1>4 DEF Frame, Arrives, GoesTo, TypeOK
  <2>6. Clean(r)'
    BY <1>2, <1>4 DEF Clean
  <2>7. Own(r)'
    BY <1>1, <1>2, <2>1, <2>2, <2>3, <2>6 DEF Own, Clean, RegisterOwn, UpdateOwn, DeleteOwn, CreateOwn,
       SessionOwn, AddressIsFree, Publishes
  <2>8. QED
    BY <2>2, <2>4, <2>5, <2>6, <2>7, CleanStep DEF SharesKey
<1>5. QED
  BY <1>3, <1>4 DEF UpdateUser

\* The others keep what they hold as it is: nothing, and go to a statement.
LEMMA PlainArrival ==
  ASSUME Inv, NEW r \in Requests, pc[r] = "idle",
         NEW op \in {"delete_user", "create_session", "rename_session", "delete_session"},
         NEW who \in UserIds, NEW c \in Calls, c.op = op, c.who = who,
         op = "create_session" \/ users[who] # NoRow,
         op \in {"rename_session", "delete_session"} => c.on \in SessionsOf(who),
         Arrives(r, c),
         GoesTo(r, IF op = "create_session" THEN "insert" ELSE "refetch"),
         UNCHANGED writes, UNCHANGED tables
  PROVE  Inv'
<1>1. TypeOK /\ Clean(r) /\ row[r] = NoRow /\ users[r] = NoRow /\ sessions[r] = NoRow
  BY ArrivalState
<1>2. /\ UNCHANGED <<users, sessions, issued>>
      /\ UNCHANGED <<seen, dirty, targets, row, userRows, sessionRows>>
  BY DEF tables, writes
<1>3. /\ call' \in [Requests -> Calls] /\ call'[r] = c
      /\ alone' \in [Requests -> BOOLEAN]
      /\ pc' \in [Requests -> Statements \cup {"idle", "done"}]
      /\ pc'[r] = IF op = "create_session" THEN "insert" ELSE "refetch"
      /\ answer' \in [Requests -> Answers]
  BY <1>1, ArriveType DEF Statements
<1>4. TypeOK'
  BY <1>1, <1>2, <1>3 DEF TypeOK
<1>5. Frame(r)
  BY <1>1, <1>2 DEF Frame, Arrives, GoesTo, TypeOK
<1>6. Clean(r)' /\ row'[r] = NoRow
  BY <1>1, <1>2 DEF Clean
<1>7. op \in {"rename_session", "delete_session"} => c.on \in SessionIds /\ Known(r, c.on)'
  <2>1. ASSUME op \in {"rename_session", "delete_session"}
        PROVE  c.on \in SessionIds /\ sessions[c.on] # NoRow /\ sessions[c.on].user = who
    BY <2>1 DEF SessionsOf
  <2>2. ASSUME op \in {"rename_session", "delete_session"}, c.on \in Requests
        PROVE  pc[c.on] = "done" /\ c.on # r
    BY <2>1, <2>2, <1>1 DEF Inv, Own
  <2>3. QED
    BY <1>1, <1>2, <1>3, <2>1, <2>2 DEF Known, GoesTo, TypeOK
<1>8. Own(r)'
  BY <1>1, <1>2, <1>3, <1>6, <1>7 DEF Own, Clean, RegisterOwn, UpdateOwn, DeleteOwn, CreateOwn,
     SessionOwn, AddressIsFree, Publishes
<1>9. QED
  BY <1>3, <1>4, <1>5, <1>6, <1>8, CleanStep DEF SharesKey

\* A deletion begins by loading the user.
LEMMA DeleteUserStep ==
  ASSUME Inv, NEW r \in Requests, DeleteUser(r)
  PROVE  Inv'
<1>1. pc[r] = "idle" /\ UNCHANGED <<users, sessions, issued>> /\ TypeOK
  BY DEF DeleteUser, Asks, tables, Inv
<1>2. CASE Ends(r, "refused") /\ UNCHANGED alone
  BY <1>1, <1>2, EndStep DEF TypeOK, Answers
<1>3. ASSUME NEW who \in Bearers("access"), users[who] # NoRow,
             Arrives(r, NewCall("delete_user", who)), GoesTo(r, "refetch"), UNCHANGED writes
      PROVE  Inv'
  <2>1. who \in UserIds
    BY <1>1, BearersType
  <2>2. NewCall("delete_user", who) \in Calls
    BY <2>1, CallType DEF Ops
  <2>3. NewCall("delete_user", who).op = "delete_user" /\ NewCall("delete_user", who).who = who
    BY DEF NewCall
  <2>4. QED
    BY <1>1, <1>3, <2>1, <2>2, <2>3, PlainArrival DEF tables
<1>4. QED
  BY <1>2, <1>3 DEF DeleteUser

\* A new session is staged before anything is written.
LEMMA CreateSessionStep ==
  ASSUME Inv, NEW r \in Requests, CreateSession(r)
  PROVE  Inv'
<1>1. PICK who \in Bearers("access") : Arrives(r, NewCall("create_session", who))
  BY DEF CreateSession
<1>2. who \in UserIds
  BY BearersType DEF Inv
<1>3. NewCall("create_session", who) \in Calls
  BY <1>2, CallType DEF Ops
<1>4. NewCall("create_session", who).op = "create_session" /\ NewCall("create_session", who).who = who
  BY DEF NewCall
<1>5. pc[r] = "idle" /\ GoesTo(r, "insert") /\ UNCHANGED writes /\ UNCHANGED tables
  BY DEF CreateSession, Asks
<1>6. QED
  BY <1>1, <1>2, <1>3, <1>4, <1>5, PlainArrival

\* A rename or a deletion of a session goes on only for the session's owner.
LEMMA SessionRequestStep ==
  ASSUME Inv, NEW r \in Requests, RenameSession(r) \/ DeleteSession(r)
  PROVE  Inv'
<1>1. pc[r] = "idle" /\ UNCHANGED <<users, sessions, issued>> /\ TypeOK
  BY DEF RenameSession, DeleteSession, Asks, tables, Inv
<1>2. CASE Ends(r, "refused") /\ UNCHANGED alone
  BY <1>1, <1>2, EndStep DEF TypeOK, Answers
<1>3. ASSUME NEW op \in {"rename_session", "delete_session"},
             NEW who \in Bearers("access"), NEW s \in SessionIds, s \in SessionsOf(who),
             Arrives(r, [NewCall(op, who) EXCEPT !.on = s]), GoesTo(r, "refetch"), UNCHANGED writes
      PROVE  Inv'
  <2> DEFINE c == [NewCall(op, who) EXCEPT !.on = s]
  <2>1. who \in UserIds
    BY <1>1, BearersType
  <2>2. c \in Calls /\ c.op = op /\ c.who = who /\ c.on = s
    BY <2>1 DEF NewCall, Calls, Ops
  <2>3. users[who] # NoRow
    BY <1>3 DEF Inv, SessionsHaveUser, SessionsOf
  <2>4. UNCHANGED tables
    BY <1>1 DEF tables
  <2>5. QED
    BY <1>1, <1>3, <2>1, <2>2, <2>3, <2>4, PlainArrival
<1>4. QED
  BY <1>2, <1>3 DEF RenameSession, DeleteSession

(***************************************************************************)
(* The statements that follow.                                             *)
(***************************************************************************)

\* Which request can be at which statement.
LEMMA OpAt ==
  ASSUME Inv, NEW r \in Requests
  PROVE  /\ pc[r] = "check" => call[r].op = "update_user"
         /\ pc[r] \in {"load", "cascade"} => call[r].op = "delete_user"
         /\ pc[r] = "insert" => call[r].op = "create_session"
         /\ pc[r] = "index" => call[r].op \in {"register", "update_user"}
         /\ pc[r] = "sessions" =>
              call[r].op \in {"delete_user", "rename_session", "delete_session"}
         /\ call[r].op \in Ops /\ call[r].who \in UserIds
<1>1. Own(r) /\ call[r].op \in Ops /\ call[r].who \in UserIds
  BY DEF Inv, TypeOK, Calls
<1>2. QED
  BY <1>1 DEF Own, Ops, RegisterOwn, UpdateOwn, DeleteOwn, CreateOwn, SessionOwn

\* A statement writes what is about its own request, and keeps the types.
WritesOwn(r) ==
  /\ seen' = seen
  /\ dirty' \in [Requests -> SUBSET {"email", "name"}]
  /\ targets' \in [Requests -> SUBSET SessionIds]
  /\ row' \in [Requests -> UserRows \cup SessionRows \cup {NoRow}]
  /\ userRows' \in [Requests -> SUBSET UserIds]
  /\ sessionRows' \in [Requests -> SUBSET SessionIds]
  /\ \A q \in Requests \ {r} :
       /\ targets'[q] = targets[q] /\ row'[q] = row[q]
       /\ userRows'[q] = userRows[q] /\ sessionRows'[q] = sessionRows[q]

\* What every statement that goes on to another leaves as it was.
LEMMA StatementFrame ==
  ASSUME Inv, NEW r \in Requests, NEW from \in Statements, At(r, from),
         NEW to \in Statements, Continues(r, to), WritesOwn(r)
  PROVE  /\ TypeOK /\ TypeOK' /\ Own(r) /\ Frame(r)
         /\ pc[r] = from /\ pc'[r] = to /\ call' = call /\ seen' = seen
         /\ users' = users /\ sessions' = sessions
         /\ \A q \in Requests : ~WaitsFor(r, q)
<1>1. TypeOK /\ Own(r)
  BY DEF Inv
<1>2. /\ pc[r] = from /\ UNCHANGED <<users, sessions, issued, alone>>
      /\ \A q \in Requests : ~WaitsFor(r, q)
  BY DEF At, tables, Blocked
<1>3. /\ pc' = [pc EXCEPT ![r] = to] /\ call' = call /\ answer' = answer
  BY DEF Continues, GoesTo
<1>4. TypeOK'
  BY <1>1, <1>2, <1>3 DEF TypeOK, WritesOwn
<1>5. from # "done"
  BY DEF Statements
<1>6. Frame(r)
  BY <1>1, <1>2, <1>3, <1>5 DEF Frame, WritesOwn, TypeOK
<1>7. QED
  BY <1>1, <1>2, <1>3, <1>4, <1>6 DEF TypeOK, WritesOwn

\* A statement that only reads leaves what every transaction has written.
LEMMA UnchangedWrites ==
  ASSUME Inv, NEW r \in Requests, UNCHANGED writes
  PROVE  WritesOwn(r)
BY DEF Inv, TypeOK, writes, WritesOwn

\* A statement that ends its transaction without having committed.
LEMMA EndsAt ==
  ASSUME Inv, NEW r \in Requests, NEW from \in Statements, At(r, from),
         NEW outcome \in {"refused", "error"}, Ends(r, outcome)
  PROVE  Inv'
<1>1. /\ pc[r] # "done" /\ UNCHANGED <<users, sessions>> /\ outcome \in Answers
      /\ issued' \subseteq Tokens /\ alone' \in [Requests -> BOOLEAN]
  BY DEF Inv, TypeOK, At, tables, Statements, Answers
<1>2. QED
  BY <1>1, EndStep

\* The look at the address writes nothing: that the address is free is not yet known.
LEMMA CheckAddressStep ==
  ASSUME Inv, NEW r \in Requests, CheckAddress(r)
  PROVE  Inv'
<1>1. At(r, "check") /\ "check" \in Statements /\ "refetch" \in Statements
  BY DEF CheckAddress, Statements
<1>2. CASE Ends(r, "refused")
  BY <1>1, <1>2, EndsAt
<1>3. CASE Continues(r, "refetch") /\ UNCHANGED writes
  <2>1. /\ TypeOK' /\ Own(r) /\ Frame(r) /\ pc[r] = "check" /\ pc'[r] = "refetch" /\ call' = call
        /\ users' = users /\ sessions' = sessions /\ seen' = seen
    BY <1>1, <1>3, UnchangedWrites, StatementFrame
  <2>2. call[r].op = "update_user"
    BY <2>1, OpAt
  <2>3. UNCHANGED <<seen, row, userRows, sessionRows>>
    BY <1>3 DEF writes
  <2>4. Own(r)' /\ Clean(r)'
    BY <2>1, <2>2, <2>3 DEF Own, Clean, RegisterOwn, UpdateOwn, DeleteOwn, CreateOwn, SessionOwn,
       AddressIsFree, Publishes
  <2>5. QED
    BY <2>1, <2>4, CleanStep DEF SharesKey
<1>4. QED
  BY <1>2, <1>3 DEF CheckAddress

\* Fetching the user again decides what the update will write: its own user's row.
LEMMA RefetchToUpdateStep ==
  ASSUME Inv, NEW r \in Requests, RefetchToUpdate(r)
  PROVE  Inv'
<1> DEFINE differ == {c \in {"email", "name"} : Entity(r)[c] # users[call[r].who][c]}
           next == IF differ = {} THEN "commit" ELSE "row"
<1>1. /\ At(r, "refetch") /\ "refetch" \in Statements /\ next \in Statements
      /\ call[r].op = "update_user"
  BY DEF RefetchToUpdate, Statements
<1>2. CASE Ends(r, "error")
  BY <1>1, <1>2, EndsAt
<1>3. CASE /\ Continues(r, next)
           /\ dirty' = [dirty EXCEPT ![r] = differ]
           /\ UNCHANGED <<seen, targets, row, userRows, sessionRows>>
  <2>1. WritesOwn(r)
    BY <1>3 DEF Inv, TypeOK, WritesOwn
  <2>2. /\ TypeOK' /\ Own(r) /\ Frame(r) /\ pc[r] = "refetch" /\ pc'[r] = next /\ call' = call
        /\ users' = users /\ sessions' = sessions /\ seen' = seen
    BY <1>1, <1>3, <2>1, StatementFrame
  <2>3. Own(r)' /\ Clean(r)'
    BY <1>1, <1>3, <2>2 DEF Own, Clean, RegisterOwn, UpdateOwn, DeleteOwn, CreateOwn, SessionOwn,
       AddressIsFree, Publishes
  <2>4. ~SharesKey(r)'
    BY <1>1, <2>2 DEF SharesKey
  <2>5. QED
    BY <2>2, <2>3, <2>4, CleanStep
<1>4. QED
  BY <1>2, <1>3 DEF RefetchToUpdate

\* Fetching the user again for a deletion leaves nothing to write when it has gone.
LEMMA RefetchToDeleteStep ==
  ASSUME Inv, NEW r \in Requests, RefetchToDelete(r)
  PROVE  Inv'
<1> DEFINE next == IF users[call[r].who] = NoRow THEN "commit" ELSE "load"
<1>1. /\ At(r, "refetch") /\ "refetch" \in Statements /\ next \in Statements
      /\ call[r].op = "delete_user" /\ Continues(r, next) /\ UNCHANGED writes
  BY DEF RefetchToDelete, Statements
<1>2. /\ TypeOK' /\ Own(r) /\ Frame(r) /\ pc[r] = "refetch" /\ pc'[r] = next /\ call' = call
      /\ users' = users /\ sessions' = sessions
  BY <1>1, UnchangedWrites, StatementFrame
<1>3. UNCHANGED <<row, userRows, sessionRows>>
  BY <1>1 DEF writes
<1>4. Own(r)' /\ Clean(r)'
  BY <1>1, <1>2, <1>3 DEF Own, Clean, RegisterOwn, UpdateOwn, DeleteOwn, CreateOwn, SessionOwn,
     AddressIsFree, Publishes
<1>5. ~SharesKey(r)'
  BY <1>1, <1>2 DEF SharesKey
<1>6. QED
  BY <1>2, <1>4, <1>5, CleanStep

\* A session that was committed is of a request that is done, if of any.
LEMMA SessionKnown ==
  ASSUME Inv, NEW r \in Requests, NEW s \in SessionIds, s \in SessionsOf(call[r].who)
  PROVE  Known(r, s)
BY DEF Inv, Own, Known, SessionsOf

\* The sessions to delete with a user are those the relationship loads.
LEMMA LoadSessionsStep ==
  ASSUME Inv, NEW r \in Requests, LoadSessions(r)
  PROVE  Inv'
<1> DEFINE loaded == SessionsOf(call[r].who)
           next == IF loaded = {} THEN "row" ELSE "sessions"
<1>1. /\ At(r, "load") /\ "load" \in Statements /\ next \in Statements
      /\ Continues(r, next)
      /\ targets' = [targets EXCEPT ![r] = loaded]
      /\ UNCHANGED <<seen, dirty, row, userRows, sessionRows>>
  BY DEF LoadSessions, Statements
<1>2. WritesOwn(r)
  BY <1>1 DEF Inv, TypeOK, WritesOwn, SessionsOf
<1>3. /\ TypeOK /\ TypeOK' /\ Own(r) /\ Frame(r) /\ pc[r] = "load" /\ pc'[r] = next /\ call' = call
      /\ users' = users /\ sessions' = sessions
  BY <1>1, <1>2, StatementFrame
<1>4. call[r].op = "delete_user"
  BY <1>3, OpAt
<1>5. \A s \in targets'[r] : Known(r, s)'
  <2>1. targets'[r] = loaded /\ loaded \subseteq SessionIds
    BY <1>1, <1>3 DEF TypeOK, SessionsOf
  <2>2. \A s \in loaded : Known(r, s)
    BY <2>1, SessionKnown
  <2>3. ASSUME NEW s \in loaded PROVE Known(r, s)'
    <3>1. s \in Requests => s # r
      BY <2>2, <2>3, <1>3 DEF Known
    <3>2. QED
      BY <2>2, <2>3, <3>1, <1>3 DEF Known, Frame
  <2>4. QED
    BY <2>1, <2>3
<1>6. Own(r)' /\ Clean(r)'
  BY <1>1, <1>3, <1>4, <1>5 DEF Own, Clean, RegisterOwn, UpdateOwn, DeleteOwn, CreateOwn, SessionOwn,
     AddressIsFree, Publishes
<1>7. ~SharesKey(r)'
  BY <1>3, <1>4 DEF SharesKey
<1>8. QED
  BY <1>3, <1>6, <1>7, CleanStep

\* Fetching the session again decides which row is written or that the request ends.
LEMMA RefetchSessionStep ==
  ASSUME Inv, NEW r \in Requests, RefetchSession(r)
  PROVE  Inv'
<1>1. /\ At(r, "refetch") /\ "refetch" \in Statements
      /\ call[r].op \in {"rename_session", "delete_session"}
  BY DEF RefetchSession, Statements
<1>2. CASE Ends(r, "error")
  BY <1>1, <1>2, EndsAt
<1>3. ASSUME NEW next \in {"commit", "sessions"}, Continues(r, next),
             targets' = [targets EXCEPT ![r] = {call[r].on}],
             UNCHANGED <<seen, dirty, row, userRows, sessionRows>>
      PROVE  Inv'
  <2>1. Own(r) /\ pc[r] = "refetch"
    BY <1>1 DEF Inv, At
  <2>2. call[r].on \in SessionIds /\ Known(r, call[r].on)
    BY <1>1, <2>1 DEF Own, SessionOwn
  <2>3. WritesOwn(r)
    BY <1>3, <2>2 DEF Inv, TypeOK, WritesOwn
  <2>4. /\ TypeOK /\ TypeOK' /\ Frame(r) /\ pc'[r] = next /\ call' = call
        /\ users' = users /\ sessions' = sessions
    BY <1>1, <1>3, <2>3, StatementFrame DEF Statements
  <2>5. Known(r, call[r].on)'
    <3>1. call[r].on \in Requests => call[r].on # r
      BY <2>1, <2>2 DEF Known
    <3>2. QED
      BY <2>2, <2>4, <3>1 DEF Known, Frame
  <2>6. targets'[r] = {call[r].on}
    BY <1>3, <2>4 DEF TypeOK
  <2>7. Own(r)' /\ Clean(r)'
    BY <1>1, <1>3, <2>1, <2>2, <2>4, <2>5, <2>6 DEF Own, Clean, RegisterOwn, UpdateOwn, DeleteOwn,
       CreateOwn, SessionOwn, AddressIsFree, Publishes
  <2>8. ~SharesKey(r)'
    BY <1>1, <2>4 DEF SharesKey
  <2>9. QED
    BY <2>4, <2>7, <2>8, CleanStep
<1>4. QED
  BY <1>2, <1>3 DEF RefetchSession

\* Writing session rows takes only rows no open transaction holds.
LEMMA WriteSessionsStep ==
  ASSUME Inv, NEW r \in Requests, WriteSessions(r)
  PROVE  Inv'
<1> DEFINE live == {s \in targets[r] : sessions[s] # NoRow}
           rename == call[r].op = "rename_session"
           next == IF call[r].op = "delete_user" THEN "row" ELSE "commit"
           written == IF rename THEN sessions[call[r].on] ELSE NoRow
<1>1. At(r, "sessions") /\ "sessions" \in Statements /\ next \in Statements
  BY DEF WriteSessions, Statements
<1>2. CASE Ends(r, "error")
  BY <1>1, <1>2, EndsAt
<1>3. ASSUME ~(rename /\ live = {}), Continues(r, next),
             sessionRows' = [sessionRows EXCEPT ![r] = live],
             row' = [row EXCEPT ![r] = written],
             UNCHANGED <<seen, dirty, targets, userRows>>
      PROVE  Inv'
  <2>1. Own(r) /\ pc[r] = "sessions" /\ TypeOK
    BY <1>1 DEF Inv, At
  <2>2. call[r].op \in {"delete_user", "rename_session", "delete_session"}
    BY <2>1, OpAt
  <2>3. userRows[r] = {} /\ sessionRows[r] = {}
    BY <2>1, <2>2 DEF Own, Clean, DeleteOwn, SessionOwn
  <2>4. call[r].op # "delete_user" => call[r].on \in SessionIds /\ targets[r] = {call[r].on}
    BY <2>1, <2>2 DEF Own, SessionOwn
  <2>5. live \subseteq SessionsOf(call[r].who)
    BY <2>1, <2>2 DEF Own, SessionOwn, DeleteOwn, Known, SessionsOf, TypeOK
  <2>6. written \in SessionRows \cup {NoRow}
    BY <2>1, <2>4 DEF TypeOK
  <2>7. WritesOwn(r)
    BY <1>3, <2>1, <2>5, <2>6 DEF TypeOK, WritesOwn, SessionsOf
  <2>8. /\ TypeOK' /\ Frame(r) /\ pc'[r] = next /\ call' = call
        /\ users' = users /\ sessions' = sessions
        /\ \A q \in Requests : ~WaitsFor(r, q)
    BY <1>1, <1>3, <2>7, StatementFrame
  <2>9. userRows'[r] = {} /\ sessionRows'[r] = live /\ row'[r] = written /\ targets' = targets
    BY <1>3, <2>1, <2>3 DEF TypeOK
  <2>10. Own(r)'
    <3>1. DeleteOwn(r)'
      BY <2>1, <2>2, <2>5, <2>8, <2>9 DEF Own, DeleteOwn, SessionsOf
    <3>2. SessionOwn(r)'
      <4>1. call[r].op # "delete_user" => Known(r, call[r].on)'
        BY <2>1, <2>2, <2>8 DEF Own, SessionOwn, Known, Frame
      <4>2. call[r].op # "delete_user" /\ live # {} =>
              live = {call[r].on} /\ sessions[call[r].on] # NoRow
        BY <2>4
      <4>3. QED
        BY <2>2, <2>4, <2>8, <2>9, <4>1, <4>2 DEF SessionOwn
    <3>3. QED
      BY <2>1, <2>2, <2>8, <2>9, <3>1, <3>2 DEF Own, RegisterOwn, UpdateOwn, CreateOwn,
         AddressIsFree, Publishes
  <2>11. ASSUME NEW q \in Requests \ {r} PROVE Apart(r, q)' /\ Apart(q, r)'
    <3>1. targets[r] \cap sessionRows[q] = {}
      BY <2>1, <2>8 DEF WaitsFor
    <3>2. sessionRows'[r] \cap sessionRows'[q] = {} /\ userRows'[r] \cap userRows'[q] = {}
      BY <2>8, <2>9, <3>1 DEF Frame
    <3>3. ~Publishes(r)' /\ ~SharesKey(r)'
      BY <2>2, <2>8, <2>9 DEF Publishes, SharesKey
    <3>4. QED
      BY <2>9, <3>2, <3>3 DEF Apart
  <2>12. QED
    BY <2>8, <2>10, <2>11, LocalStep
<1>4. QED
  BY <1>2, <1>3 DEF WriteSessions

\* Writing a user's row takes the row and, where the address changes, the place in the index.
LEMMA WriteUserStep ==
  ASSUME Inv, NEW r \in Requests, WriteUser(r)
  PROVE  Inv'
<1> DEFINE u == call[r].who
           Column(c) == IF c \in dirty[r] THEN Entity(r)[c] ELSE users[u][c]
           next == IF "email" \in dirty[r] THEN "index" ELSE "commit"
           written == [email |-> Column("email"), name |-> Column("name")]
<1>1. /\ At(r, "row") /\ "row" \in Statements /\ next \in Statements
      /\ call[r].op = "update_user"
  BY DEF WriteUser, Statements
<1>2. CASE Ends(r, "error")
  BY <1>1, <1>2, EndsAt
<1>3. ASSUME users[u] # NoRow, Continues(r, next),
             userRows' = [userRows EXCEPT ![r] = {u}],
             row' = [row EXCEPT ![r] = written],
             UNCHANGED <<seen, dirty, targets, sessionRows>>
      PROVE  Inv'
  <2>1. Own(r) /\ pc[r] = "row" /\ TypeOK /\ u \in UserIds /\ call[r] \in Calls
    BY <1>1, OpAt DEF Inv, At, TypeOK
  <2>2. /\ userRows[r] = {} /\ sessionRows[r] = {} /\ seen[r] \in UserRows
        /\ users[u] \in UserRows
    BY <1>1, <1>3, <2>1 DEF Own, UpdateOwn, TypeOK
  <2>3. Entity(r) \in UserRows
    BY <2>1, <2>2 DEF Entity, UserRows, Calls
  <2>4. written \in UserRows
    BY <2>2, <2>3 DEF UserRows
  <2>5. WritesOwn(r)
    BY <1>3, <2>1, <2>4 DEF TypeOK, WritesOwn
  <2>6. /\ TypeOK' /\ Frame(r) /\ pc'[r] = next /\ call' = call
        /\ users' = users /\ sessions' = sessions /\ seen' = seen
        /\ \A q \in Requests : ~WaitsFor(r, q)
    BY <1>1, <1>3, <2>5, StatementFrame
  <2>7. userRows'[r] = {u} /\ sessionRows'[r] = {} /\ row'[r] = written
    BY <1>3, <2>1, <2>2 DEF TypeOK
  <2>8. next = "commit" => written.email = users[u].email
    OBVIOUS
  <2>9. AddressIsFree(r)'
    <3>1. Publishes(r)' => row'[r].email = users[u].email
      BY <2>6, <2>7, <2>8 DEF Publishes
    <3>2. \A v \in UserIds \ {u} : users[v] # NoRow => users[v].email # users[u].email
      BY <1>3, <2>1 DEF Inv, OneUserPerAddress
    <3>3. QED
      BY <2>6, <2>7, <3>1, <3>2 DEF AddressIsFree
  <2>10. Own(r)'
    BY <1>1, <1>3, <2>1, <2>2, <2>4, <2>6, <2>7, <2>9 DEF Own, RegisterOwn, UpdateOwn, DeleteOwn,
       CreateOwn, SessionOwn
  <2>11. ASSUME NEW q \in Requests \ {r} PROVE Apart(r, q)' /\ Apart(q, r)'
    <3>1. u \notin userRows[q]
      BY <2>1, <2>6 DEF WaitsFor, WaitsForRow
    <3>2. Publishes(r)' /\ Publishes(q) => row'[r].email # row[q].email
      <4>1. Publishes(r)' => row'[r].email = users[u].email
        BY <2>6, <2>7, <2>8 DEF Publishes
      <4>2. AddressIsFree(q)
        BY DEF Inv, Own
      <4>3. Publishes(q) => users[u].email # row[q].email
        BY <1>3, <2>1, <3>1, <4>2 DEF AddressIsFree
      <4>4. QED
        BY <4>1, <4>3
    <3>3. Publishes(q)' = Publishes(q) /\ row'[q] = row[q]
      BY <2>6 DEF Publishes, Frame
    <3>4. userRows'[r] \cap userRows'[q] = {} /\ sessionRows'[r] = {}
      BY <2>6, <2>7, <3>1 DEF Frame
    <3>5. ~SharesKey(r)' /\ call'[r].op # "delete_user"
      BY <1>1, <2>6 DEF SharesKey
    <3>6. QED
      BY <3>2, <3>3, <3>4, <3>5 DEF Apart
  <2>12. QED
    BY <2>6, <2>10, <2>11, LocalStep
<1>4. QED
  BY <1>2, <1>3 DEF WriteUser

\* Erasing a user takes the row, or finds nothing to erase.
LEMMA EraseUserStep ==
  ASSUME Inv, NEW r \in Requests, EraseUser(r)
  PROVE  Inv'
<1>1. /\ At(r, "row") /\ "row" \in Statements /\ "commit" \in Statements /\ "cascade" \in Statements
      /\ call[r].op = "delete_user" /\ Own(r) /\ pc[r] = "row" /\ TypeOK
  BY DEF EraseUser, Statements, Inv, At
<1>2. /\ userRows[r] = {} /\ row[r] = NoRow /\ sessionRows[r] \subseteq SessionsOf(call[r].who)
      /\ call[r].who \in UserIds
  BY <1>1, OpAt DEF Own, DeleteOwn
<1>3. CASE users[call[r].who] = NoRow /\ Continues(r, "commit") /\ UNCHANGED writes
  <2>1. sessionRows[r] = {}
    BY <1>2, <1>3 DEF Inv, SessionsHaveUser, SessionsOf
  <2>2. /\ TypeOK' /\ Frame(r) /\ pc'[r] = "commit" /\ call' = call
        /\ users' = users /\ sessions' = sessions
    BY <1>1, <1>3, UnchangedWrites, StatementFrame
  <2>3. Own(r)' /\ Clean(r)'
    BY <1>1, <1>2, <1>3, <2>1, <2>2 DEF Own, Clean, RegisterOwn, UpdateOwn, DeleteOwn, CreateOwn,
       SessionOwn, AddressIsFree, Publishes, writes
  <2>4. ~SharesKey(r)'
    BY <1>1, <2>2 DEF SharesKey
  <2>5. QED
    BY <2>2, <2>3, <2>4, CleanStep
<1>4. CASE /\ users[call[r].who] # NoRow /\ Continues(r, "cascade")
           /\ userRows' = [userRows EXCEPT ![r] = {call[r].who}]
           /\ UNCHANGED <<seen, dirty, targets, row, sessionRows>>
  <2>1. WritesOwn(r)
    BY <1>1, <1>2, <1>4 DEF TypeOK, WritesOwn
  <2>2. /\ TypeOK' /\ Frame(r) /\ pc'[r] = "cascade" /\ call' = call
        /\ users' = users /\ sessions' = sessions
        /\ \A q \in Requests : ~WaitsFor(r, q)
    BY <1>1, <1>4, <2>1, StatementFrame
  <2>3. userRows'[r] = {call[r].who} /\ sessionRows' = sessionRows /\ row' = row
    BY <1>1, <1>4 DEF TypeOK
  <2>4. Own(r)'
    BY <1>1, <1>2, <1>4, <2>2, <2>3 DEF Own, Clean, RegisterOwn, UpdateOwn, DeleteOwn, CreateOwn,
       SessionOwn, AddressIsFree, Publishes, SessionsOf
  <2>5. ASSUME NEW q \in Requests \ {r} PROVE Apart(r, q)' /\ Apart(q, r)'
    <3>1. call[r].who \notin userRows[q] /\ ~(SharesKey(q) /\ call[q].who = call[r].who)
      BY <1>1, <2>2 DEF WaitsFor, WaitsForRow
    <3>2. ~Publishes(r)' /\ ~SharesKey(r)'
      BY <1>1, <2>2 DEF Publishes, SharesKey
    <3>3. SharesKey(q)' => call'[q].who \notin userRows'[r]
      BY <2>2, <2>3, <3>1 DEF SharesKey, Frame
    <3>4. userRows'[r] \cap userRows'[q] = {}
      BY <2>2, <2>3, <3>1 DEF Frame
    <3>5. sessionRows'[r] \cap sessionRows'[q] = {}
      BY <2>3 DEF Inv, Apart
    <3>6. QED
      BY <3>2, <3>3, <3>4, <3>5 DEF Apart
  <2>6. QED
    BY <2>2, <2>4, <2>5, LocalStep
<1>5. QED
  BY <1>3, <1>4 DEF EraseUser

\* The cascade takes every session of the user that is left.
LEMMA CascadeStep ==
  ASSUME Inv, NEW r \in Requests, Cascade(r)
  PROVE  Inv'
<1>1. /\ At(r, "cascade") /\ "cascade" \in Statements /\ "commit" \in Statements
      /\ Continues(r, "commit")
      /\ sessionRows' = [sessionRows EXCEPT ![r] = @ \cup SessionsOf(call[r].who)]
      /\ UNCHANGED <<seen, dirty, targets, row, userRows>>
      /\ Own(r) /\ pc[r] = "cascade" /\ TypeOK
  BY DEF Cascade, Statements, Inv, At
<1>2. call[r].op = "delete_user"
  BY <1>1, OpAt
<1>3. userRows[r] = {call[r].who} /\ row[r] = NoRow /\ sessionRows[r] \subseteq SessionsOf(call[r].who)
  BY <1>1, <1>2 DEF Own, DeleteOwn
<1>4. sessionRows'[r] = SessionsOf(call[r].who)
  BY <1>1, <1>3 DEF TypeOK
<1>5. WritesOwn(r)
  BY <1>1, <1>3, <1>4 DEF TypeOK, WritesOwn, SessionsOf
<1>6. /\ TypeOK' /\ Frame(r) /\ pc'[r] = "commit" /\ call' = call
      /\ users' = users /\ sessions' = sessions
      /\ \A q \in Requests : ~WaitsFor(r, q)
  BY <1>1, <1>5, StatementFrame
<1>7. Own(r)'
  BY <1>1, <1>2, <1>3, <1>4, <1>6 DEF Own, RegisterOwn, UpdateOwn, DeleteOwn, CreateOwn,
     SessionOwn, AddressIsFree, Publishes, SessionsOf
<1>8. ASSUME NEW q \in Requests \ {r} PROVE Apart(r, q)' /\ Apart(q, r)'
  <2>1. SessionsOf(call[r].who) \cap sessionRows[q] = {}
    BY <1>1, <1>6 DEF WaitsFor
  <2>2. sessionRows'[r] \cap sessionRows'[q] = {} /\ userRows'[r] \cap userRows'[q] = {}
    BY <1>1, <1>4, <1>6, <2>1 DEF Frame, Inv, Apart
  <2>3. ~Publishes(r)' /\ ~SharesKey(r)'
    BY <1>1, <1>2, <1>3, <1>6 DEF Publishes, SharesKey
  <2>4. ~SharesKey(q)' \/ call'[q].who \notin userRows'[r]
    <3>1. Apart(q, r)
      BY DEF Inv
    <3>2. SharesKey(q)' = SharesKey(q) /\ call'[q] = call[q] /\ userRows' = userRows
      BY <1>1, <1>6 DEF SharesKey, Frame
    <3>3. QED
      BY <1>2, <3>1, <3>2 DEF Apart
  <2>5. QED
    BY <2>2, <2>3, <2>4 DEF Apart
<1>9. QED
  BY <1>6, <1>7, <1>8, LocalStep

\* What a request holds is what was committed, or has its own fresh id.
LEMMA Held ==
  ASSUME Inv, NEW q \in Requests
  PROVE  /\ \A u \in userRows[q] : users[u] # NoRow \/ u = q
         /\ \A s \in sessionRows[q] : sessions[s] # NoRow \/ s = q
<1>1. Own(q) /\ call[q].op \in Ops
  BY OpAt DEF Inv
<1>2. CASE call[q].op = "register"
  BY <1>1, <1>2 DEF Own, Clean, RegisterOwn, Inv, TypeOK
<1>3. CASE call[q].op = "update_user"
  BY <1>1, <1>3 DEF Own, UpdateOwn
<1>4. CASE call[q].op = "delete_user"
  BY <1>1, <1>4 DEF Own, DeleteOwn, SessionsOf
<1>5. CASE call[q].op = "create_session"
  BY <1>1, <1>5 DEF Own, Clean, CreateOwn
<1>6. CASE call[q].op \in {"rename_session", "delete_session"}
  BY <1>1, <1>6 DEF Own, SessionOwn
<1>7. CASE call[q].op \in {"none", "read"}
  BY <1>1, <1>7 DEF Own, Clean
<1>8. QED
  BY <1>1, <1>2, <1>3, <1>4, <1>5, <1>6, <1>7 DEF Ops

\* The ids a request makes are its own: nobody else holds a row of that id.
LEMMA Fresh ==
  ASSUME Inv, NEW r \in Requests, pc[r] # "done", NEW q \in Requests, q # r
  PROVE  r \notin userRows[q] /\ r \notin sessionRows[q]
<1>1. users[r] = NoRow /\ sessions[r] = NoRow
  BY DEF Inv, Own
<1>2. QED
  BY <1>1, Held

\* The index lets an address through only when no table row and no open transaction has it.
LEMMA IndexStep ==
  ASSUME Inv, NEW r \in Requests, Index(r)
  PROVE  Inv'
<1>1. /\ At(r, "index") /\ "index" \in Statements /\ "commit" \in Statements
      /\ Own(r) /\ pc[r] = "index" /\ TypeOK
  BY DEF Index, Statements, Inv, At
<1>2. call[r].op \in {"register", "update_user"} /\ call[r].who \in UserIds
  BY <1>1, OpAt
<1>3. CASE Ends(r, "error")
  BY <1>1, <1>3, EndsAt
<1>4. CASE /\ ~(Owners(row[r].email) \ {call[r].who} # {})
           /\ Continues(r, "commit")
           /\ userRows' = [userRows EXCEPT ![r] = {call[r].who}]
           /\ UNCHANGED <<seen, dirty, targets, row, sessionRows>>
  <2>1. WritesOwn(r)
    BY <1>1, <1>2, <1>4 DEF TypeOK, WritesOwn
  <2>2. /\ TypeOK' /\ Frame(r) /\ pc'[r] = "commit" /\ call' = call /\ seen' = seen
        /\ users' = users /\ sessions' = sessions
        /\ \A q \in Requests : ~WaitsFor(r, q)
    BY <1>1, <1>4, <2>1, StatementFrame
  <2>3. /\ userRows'[r] = {call[r].who} /\ sessionRows' = sessionRows /\ row' = row
        /\ sessionRows[r] = {}
    BY <1>1, <1>2, <1>4 DEF TypeOK, Own, RegisterOwn, UpdateOwn
  <2>4. row[r] \in UserRows
    BY <1>1, <1>2 DEF Own, RegisterOwn, UpdateOwn
  <2>5. AddressIsFree(r)'
    BY <1>4, <2>2, <2>3 DEF AddressIsFree, Owners
  <2>6. Own(r)'
    BY <1>1, <1>2, <2>2, <2>3, <2>4, <2>5 DEF Own, RegisterOwn, UpdateOwn, DeleteOwn, CreateOwn,
       SessionOwn
  <2>7. ASSUME NEW q \in Requests \ {r} PROVE Apart(r, q)' /\ Apart(q, r)'
    <3>1. Publishes(q) => row[r].email # row[q].email
      BY <1>1, <2>2 DEF WaitsFor, WaitsForAddress, Publishes
    <3>2. call[r].who \notin userRows[q]
      <4>1. CASE call[r].op = "register"
        BY <1>1, <4>1, Fresh DEF Own, RegisterOwn
      <4>2. CASE call[r].op = "update_user"
        BY <1>1, <4>2 DEF Own, UpdateOwn, Inv, Apart
      <4>3. QED
        BY <1>2, <4>1, <4>2
    <3>3. Publishes(q)' = Publishes(q) /\ row'[q] = row[q] /\ row'[r] = row[r]
      BY <2>2, <2>3 DEF Publishes, Frame
    <3>4. userRows'[r] \cap userRows'[q] = {} /\ sessionRows'[r] = {}
      BY <2>2, <2>3, <3>2 DEF Frame
    <3>5. ~SharesKey(r)' /\ call'[r].op # "delete_user"
      BY <1>2, <2>2 DEF SharesKey
    <3>6. QED
      BY <3>1, <3>3, <3>4, <3>5 DEF Apart
  <2>8. QED
    BY <2>2, <2>6, <2>7, LocalStep
<1>5. QED
  BY <1>3, <1>4 DEF Index

\* A session is inserted only while its user is there and nobody is about to delete it.
LEMMA InsertSessionStep ==
  ASSUME Inv, NEW r \in Requests, InsertSession(r)
  PROVE  Inv'
<1>1. /\ At(r, "insert") /\ "insert" \in Statements /\ "commit" \in Statements
      /\ Own(r) /\ pc[r] = "insert" /\ TypeOK
  BY DEF InsertSession, Statements, Inv, At
<1>2. call[r].op = "create_session" /\ call[r].who \in UserIds
  BY <1>1, OpAt
<1>3. CASE Ends(r, "error")
  BY <1>1, <1>3, EndsAt
<1>4. CASE /\ users[call[r].who] # NoRow
           /\ Continues(r, "commit")
           /\ sessionRows' = [sessionRows EXCEPT ![r] = {r}]
           /\ row' = [row EXCEPT ![r] = [user |-> call[r].who]]
           /\ UNCHANGED <<seen, dirty, targets, userRows>>
  <2>1. [user |-> call[r].who] \in SessionRows /\ r \in SessionIds
    BY <1>2 DEF SessionRows, SessionIds
  <2>2. WritesOwn(r)
    BY <1>1, <1>4, <2>1 DEF TypeOK, WritesOwn
  <2>3. /\ TypeOK' /\ Frame(r) /\ pc'[r] = "commit" /\ call' = call /\ seen' = seen
        /\ users' = users /\ sessions' = sessions
        /\ \A q \in Requests : ~WaitsFor(r, q)
    BY <1>1, <1>4, <2>2, StatementFrame
  <2>4. /\ sessionRows'[r] = {r} /\ userRows'[r] = {} /\ row'[r] = [user |-> call[r].who]
    BY <1>1, <1>2, <1>4 DEF TypeOK, Own, CreateOwn
  <2>5. Own(r)'
    BY <1>1, <1>2, <1>4, <2>3, <2>4 DEF Own, RegisterOwn, UpdateOwn, DeleteOwn, CreateOwn,
       SessionOwn, AddressIsFree, Publishes
  <2>6. ASSUME NEW q \in Requests \ {r} PROVE Apart(r, q)' /\ Apart(q, r)'
    <3>1. r \notin sessionRows[q]
      BY <1>1, Fresh
    <3>2. call[q].op = "delete_user" => call[r].who \notin userRows[q]
      <4>1. call[q].op = "delete_user" => row[q] = NoRow
        BY DEF Inv, Own, DeleteOwn
      <4>2. QED
        BY <1>1, <2>3, <4>1 DEF WaitsFor, ChangesKey
    <3>3. call'[r].who \notin userRows'[q] \/ call'[q].op # "delete_user"
      BY <2>3, <3>2 DEF Frame
    <3>4. userRows'[r] = {} /\ sessionRows'[r] \cap sessionRows'[q] = {}
      BY <2>3, <2>4, <3>1 DEF Frame
    <3>5. ~Publishes(r)'
      BY <2>4 DEF Publishes
    <3>6. QED
      BY <3>3, <3>4, <3>5 DEF Apart
  <2>7. QED
    BY <2>3, <2>5, <2>6, LocalStep
<1>5. QED
  BY <1>3, <1>4 DEF InsertSession

(***************************************************************************)
(* The commit: what a transaction has written becomes one operation of the *)
(* store.                                                                  *)
(***************************************************************************)

\* A registration or an update puts one user, whose address is free.
PutsUser(r) ==
  /\ userRows[r] = {call[r].who} /\ sessionRows[r] = {} /\ row[r] \in UserRows
  /\ \A v \in UserIds \ {call[r].who} : users[v] # NoRow => users[v].email # row[r].email
  /\ call[r].who = r \/ users[call[r].who] # NoRow

\* A deletion removes one user, with all of its sessions.
RemovesUser(r) ==
  /\ call[r].op = "delete_user" /\ row[r] = NoRow
  /\ userRows[r] = {call[r].who} /\ sessionRows[r] = SessionsOf(call[r].who)

PutsSession(r) ==
  /\ userRows[r] = {} /\ row[r] \in SessionRows /\ row[r].user = call[r].who
  /\ users[call[r].who] # NoRow
  /\ \/ sessionRows[r] = {r} /\ call[r].op = "create_session"
     \/ \E s \in SessionIds : sessionRows[r] = {s} /\ sessions[s] = row[r]

RemovesSession(r) ==
  /\ userRows[r] = {} /\ row[r] = NoRow
  /\ \E s \in SessionIds :
       sessionRows[r] = {s} /\ sessions[s] # NoRow /\ sessions[s].user = call[r].who

\* What a transaction that comes to its commit has written.
LEMMA CommitCases ==
  ASSUME Inv, NEW r \in Requests, pc[r] = "commit"
  PROVE  Clean(r) \/ PutsUser(r) \/ RemovesUser(r) \/ PutsSession(r) \/ RemovesSession(r)
<1>1. Own(r) /\ call[r].op \in Ops /\ call[r].who \in UserIds /\ TypeOK
  BY OpAt DEF Inv
<1>2. ASSUME userRows[r] = {call[r].who}, row[r] \in UserRows
      PROVE  \A v \in UserIds \ {call[r].who} : users[v] # NoRow => users[v].email # row[r].email
  BY <1>1, <1>2, StoreAssumption DEF Own, AddressIsFree, Publishes
<1>3. CASE call[r].op = "register"
  BY <1>1, <1>2, <1>3 DEF Own, RegisterOwn, PutsUser
<1>4. CASE call[r].op = "update_user"
  BY <1>1, <1>2, <1>4 DEF Own, UpdateOwn, PutsUser, Clean
<1>5. CASE call[r].op = "delete_user"
  BY <1>1, <1>5 DEF Own, DeleteOwn, RemovesUser
<1>6. CASE call[r].op = "create_session"
  <2>1. row[r] = [user |-> call[r].who] /\ sessionRows[r] = {r} /\ userRows[r] = {}
        /\ users[call[r].who] # NoRow
    BY <1>1, <1>6 DEF Own, CreateOwn
  <2>2. QED
    BY <1>1, <1>6, <2>1 DEF PutsSession, SessionRows
<1>7. CASE call[r].op \in {"rename_session", "delete_session"}
  <2>1. /\ userRows[r] = {} /\ call[r].on \in SessionIds /\ Known(r, call[r].on)
        /\ sessionRows[r] # {} =>
             /\ sessionRows[r] = {call[r].on}
             /\ sessions[call[r].on] # NoRow
             /\ row[r] = IF call[r].op = "rename_session" THEN sessions[call[r].on] ELSE NoRow
    BY <1>1, <1>7 DEF Own, SessionOwn
  <2>2. CASE sessionRows[r] = {}
    BY <2>1, <2>2 DEF Clean
  <2>3. CASE sessionRows[r] # {}
    <3>1. sessions[call[r].on] \in SessionRows /\ sessions[call[r].on].user = call[r].who
      BY <1>1, <2>1, <2>3 DEF TypeOK, Known
    <3>2. users[call[r].who] # NoRow
      BY <2>1, <2>3, <3>1 DEF Inv, SessionsHaveUser
    <3>3. CASE call[r].op = "rename_session"
      BY <2>1, <2>3, <3>1, <3>2, <3>3 DEF PutsSession
    <3>4. CASE call[r].op = "delete_session"
      BY <2>1, <2>3, <3>1, <3>4 DEF RemovesSession
    <3>5. QED
      BY <1>7, <3>3, <3>4
  <2>4. QED
    BY <2>2, <2>3
<1>8. QED
  BY <1>1, <1>3, <1>4, <1>5, <1>6, <1>7 DEF Ops, Own

\* What a commit changes, and what it leaves of its own and the others' state.
LEMMA CommitEffect ==
  ASSUME Inv, NEW r \in Requests, Commit(r)
  PROVE  /\ pc[r] = "commit" /\ pc'[r] = "done" /\ Clean(r)' /\ row'[r] = NoRow
         /\ call'[r].op = call[r].op /\ call'[r].who = call[r].who
         /\ users' = [u \in UserIds |-> IF u \in userRows[r] THEN row[r] ELSE users[u]]
         /\ sessions' = [s \in SessionIds |-> IF s \in sessionRows[r] THEN row[r] ELSE sessions[s]]
         /\ \A q \in Requests \ {r} :
              /\ pc'[q] = pc[q] /\ call'[q] = call[q] /\ seen'[q] = seen[q]
              /\ targets'[q] = targets[q] /\ row'[q] = row[q]
              /\ userRows'[q] = userRows[q] /\ sessionRows'[q] = sessionRows[q]
<1>1. TypeOK
  BY DEF Inv
<1>2. call'[r] = NewCall(call[r].op, call[r].who)
  BY <1>1 DEF Commit, Ends, TypeOK
<1>3. call'[r].op = call[r].op /\ call'[r].who = call[r].who
  BY <1>2 DEF NewCall
<1>4. QED
  BY <1>1, <1>3 DEF Commit, Ends, TypeOK, Clean

\* What a commit does to the tables, whichever it is: a user goes only by a
\* deletion, and a session comes only under the id of the request.
LEMMA CommitTables ==
  ASSUME Inv, NEW r \in Requests, Commit(r)
  PROVE  /\ users' \in [UserIds -> UserRows \cup {NoRow}]
         /\ sessions' \in [SessionIds -> SessionRows \cup {NoRow}]
         /\ \A u \in UserIds : users[u] # NoRow /\ users'[u] = NoRow =>
              u \in userRows[r] /\ call[r].op = "delete_user"
         /\ \A s \in SessionIds : sessions'[s] \notin {sessions[s], NoRow} =>
              /\ s = r /\ call[r].op = "create_session"
              /\ sessions'[s] # NoRow /\ sessions'[s].user = call[r].who
<1>1. TypeOK /\ pc[r] = "commit" /\ call[r].who \in UserIds
  BY CommitEffect, OpAt DEF Inv
<1>2. Clean(r) \/ PutsUser(r) \/ RemovesUser(r) \/ PutsSession(r) \/ RemovesSession(r)
  BY <1>1, CommitCases
<1>3. /\ users' = [u \in UserIds |-> IF u \in userRows[r] THEN row[r] ELSE users[u]]
      /\ sessions' = [s \in SessionIds |-> IF s \in sessionRows[r] THEN row[r] ELSE sessions[s]]
  BY CommitEffect
<1>4. CASE Clean(r)
  BY <1>1, <1>3, <1>4 DEF Clean, TypeOK
<1>5. CASE PutsUser(r)
  BY <1>1, <1>3, <1>5, StoreAssumption DEF PutsUser, TypeOK
<1>6. CASE RemovesUser(r)
  BY <1>1, <1>3, <1>6 DEF RemovesUser, TypeOK
<1>7. CASE PutsSession(r)
  BY <1>1, <1>3, <1>7, StoreAssumption DEF PutsSession, TypeOK
<1>8. CASE RemovesSession(r)
  BY <1>1, <1>3, <1>8 DEF RemovesSession, TypeOK
<1>9. QED
  BY <1>2, <1>4, <1>5, <1>6, <1>7, <1>8

\* Every commit is one operation of the abstract store, or none.
LEMMA CommitRefines ==
  ASSUME Inv, NEW r \in Requests, Commit(r)
  PROVE  Store!Next \/ UNCHANGED <<users, sessions>>
<1>1. TypeOK /\ pc[r] = "commit" /\ call[r].who \in UserIds /\ r \in SessionIds
  BY CommitEffect, OpAt DEF Inv, SessionIds
<1>2. Clean(r) \/ PutsUser(r) \/ RemovesUser(r) \/ PutsSession(r) \/ RemovesSession(r)
  BY <1>1, CommitCases
<1>3. /\ users' = [u \in UserIds |-> IF u \in userRows[r] THEN row[r] ELSE users[u]]
      /\ sessions' = [s \in SessionIds |-> IF s \in sessionRows[r] THEN row[r] ELSE sessions[s]]
      /\ users \in [UserIds -> UserRows \cup {NoRow}]
      /\ sessions \in [SessionIds -> SessionRows \cup {NoRow}]
  BY <1>1, CommitEffect DEF TypeOK
<1>4. CASE Clean(r)
  BY <1>3, <1>4 DEF Clean
<1>5. CASE PutsUser(r)
  <2>1. Store!PutUser(call[r].who, row[r])
    BY <1>1, <1>3, <1>5 DEF PutsUser, Store!PutUser, Store!AddressFree
  <2>2. QED
    BY <1>1, <1>5, <2>1 DEF PutsUser, Store!Next
<1>6. CASE RemovesUser(r)
  <2>1. Store!RemoveUser(call[r].who)
    BY <1>1, <1>3, <1>6 DEF RemovesUser, Store!RemoveUser, SessionsOf
  <2>2. QED
    BY <1>1, <2>1 DEF Store!Next
<1>7. CASE PutsSession(r)
  <2>1. users' = users
    BY <1>3, <1>7 DEF PutsSession
  <2>2. CASE sessionRows[r] = {r} /\ call[r].op = "create_session"
    <3>1. sessions[r] = NoRow
      BY <1>1 DEF Inv, Own
    <3>2. Store!PutSession(r, row[r])
      BY <1>1, <1>3, <1>7, <2>1, <2>2, <3>1 DEF PutsSession, Store!PutSession
    <3>3. QED
      BY <1>1, <1>7, <3>2 DEF PutsSession, Store!Next
  <2>3. CASE \E s \in SessionIds : sessionRows[r] = {s} /\ sessions[s] = row[r]
    BY <1>3, <2>1, <2>3
  <2>4. QED
    BY <1>7, <2>2, <2>3 DEF PutsSession
<1>8. CASE RemovesSession(r)
  <2>1. PICK s \in SessionIds : sessionRows[r] = {s}
    BY <1>8 DEF RemovesSession
  <2>2. Store!RemoveSession(s)
    BY <1>3, <1>8, <2>1 DEF RemovesSession, Store!RemoveSession
  <2>3. QED
    BY <2>2 DEF Store!Next
<1>9. QED
  BY <1>2, <1>4, <1>5, <1>6, <1>7, <1>8

\* A commit changes the tables as one operation: addresses stay unique, sessions keep their user,
\* and the transactions still open stay apart from the new tables.
LEMMA CommitStep ==
  ASSUME Inv, NEW r \in Requests, Commit(r)
  PROVE  Inv'
<1>1. /\ TypeOK /\ Own(r) /\ OneUserPerAddress /\ SessionsHaveUser
      /\ call[r].op \in Ops /\ call[r].who \in UserIds
  BY OpAt DEF Inv
<1>2. /\ pc[r] = "commit" /\ pc'[r] = "done" /\ Clean(r)' /\ row'[r] = NoRow
      /\ call'[r].op = call[r].op /\ call'[r].who = call[r].who
      /\ users' = [u \in UserIds |-> IF u \in userRows[r] THEN row[r] ELSE users[u]]
      /\ sessions' = [s \in SessionIds |-> IF s \in sessionRows[r] THEN row[r] ELSE sessions[s]]
  BY CommitEffect
<1>3. \A q \in Requests \ {r} :
        /\ pc'[q] = pc[q] /\ call'[q] = call[q] /\ seen'[q] = seen[q]
        /\ targets'[q] = targets[q] /\ row'[q] = row[q]
        /\ userRows'[q] = userRows[q] /\ sessionRows'[q] = sessionRows[q]
  BY CommitEffect
<1>4. /\ \A u \in UserIds : users[u] # NoRow /\ users'[u] = NoRow =>
           u \in userRows[r] /\ call[r].op = "delete_user"
      /\ \A s \in SessionIds : sessions'[s] \notin {sessions[s], NoRow} =>
           /\ s = r /\ call[r].op = "create_session"
           /\ sessions'[s] # NoRow /\ sessions'[s].user = call[r].who
  BY CommitTables
<1>5. TypeOK'
  <2>1. PICK outcome \in {"ok", "failed"} : Ends(r, outcome)
    BY DEF Commit
  <2>2. call'[r] = NewCall(call[r].op, call[r].who)
    BY <1>1, <2>1 DEF Ends, TypeOK
  <2>3. call' \in [Requests -> Calls]
    BY <1>1, <2>1, <2>2, CallType DEF Ends, TypeOK
  <2>4. issued' \subseteq Tokens /\ alone' \in [Requests -> BOOLEAN]
    BY <1>1 DEF Commit, TypeOK
  <2>5. outcome \in Answers
    BY DEF Answers
  <2>6. QED
    BY <1>1, <2>1, <2>3, <2>4, <2>5, CommitTables DEF Ends, TypeOK
<1>6. OneUserPerAddress'
  <2>1. CASE userRows[r] = {}
    BY <1>1, <1>2, <2>1 DEF OneUserPerAddress
  <2>2. CASE userRows[r] # {}
    <3>1. PutsUser(r) \/ RemovesUser(r)
      BY <1>2, <2>2, CommitCases DEF Clean, PutsSession, RemovesSession
    <3>2. CASE PutsUser(r)
      BY <1>1, <1>2, <3>2 DEF PutsUser, OneUserPerAddress
    <3>3. CASE RemovesUser(r)
      BY <1>1, <1>2, <3>3 DEF RemovesUser, OneUserPerAddress
    <3>4. QED
      BY <3>1, <3>2, <3>3
  <2>3. QED
    BY <2>1, <2>2
<1>7. SessionsHaveUser'
  <2>1. ASSUME NEW s \in SessionIds, sessions'[s] # NoRow
        PROVE  users'[sessions'[s].user] # NoRow
    <3>1. CASE sessions'[s] = sessions[s]
      <4>1. users[sessions[s].user] # NoRow /\ sessions[s].user \in UserIds
        BY <1>1, <2>1, <3>1 DEF SessionsHaveUser, TypeOK, SessionRows
      <4>2. ASSUME users'[sessions[s].user] = NoRow PROVE FALSE
        <5>1. sessions[s].user \in userRows[r] /\ call[r].op = "delete_user"
          BY <1>4, <4>1, <4>2
        <5>2. RemovesUser(r)
          BY <1>1, <1>2, <5>1 DEF Own, DeleteOwn, RemovesUser, Clean
        <5>3. s \in sessionRows[r] /\ row[r] = NoRow
          BY <2>1, <3>1, <5>1, <5>2 DEF RemovesUser, SessionsOf
        <5>4. QED
          BY <1>2, <2>1, <5>3
      <4>3. QED
        BY <3>1, <4>2
    <3>2. CASE sessions'[s] # sessions[s]
      <4>1. sessions'[s].user = call[r].who /\ call[r].op = "create_session"
        BY <1>4, <2>1, <3>2
      <4>2. users[call[r].who] # NoRow
        BY <1>1, <1>2, <4>1 DEF Own, CreateOwn
      <4>3. QED
        BY <1>1, <1>4, <4>1, <4>2
    <3>3. QED
      BY <3>1, <3>2
  <2>2. QED
    BY <2>1 DEF SessionsHaveUser
<1>8. Own(r)'
  <2>1. pc'[r] = "done" /\ Clean(r)' /\ row'[r] = NoRow
    BY <1>2
  <2>2. call'[r].op = call[r].op /\ call'[r].who = call[r].who
    BY <1>2
  <2>3. call[r].op \notin {"none", "read"} /\ (call[r].op = "register" => call[r].who = r)
    BY <1>1, <1>2 DEF Own, RegisterOwn
  <2>4. AddressIsFree(r)'
    BY <2>1 DEF AddressIsFree, Publishes
  <2>5. QED
    BY <2>1, <2>2, <2>3, <2>4 DEF Own, Clean, RegisterOwn, UpdateOwn, DeleteOwn, CreateOwn, SessionOwn
<1>9. ASSUME NEW q \in Requests \ {r} PROVE Own(q)'
  <2>1. Own(q) /\ Apart(r, q) /\ Apart(q, r) /\ call[q].who \in UserIds
    BY OpAt DEF Inv
  <2>2. /\ \A u \in UserIds : u \in userRows[q] => users'[u] = users[u]
        /\ \A s \in SessionIds : s \in sessionRows[q] => sessions'[s] = sessions[s]
    BY <1>2, <2>1 DEF Apart
  <2>3. pc[q] # "done" => users'[q] = NoRow /\ sessions'[q] = NoRow
    BY <1>2, <2>1, Fresh DEF Own, UserIds, SessionIds
  <2>4. ASSUME NEW s \in SessionIds, Known(q, s) PROVE Known(q, s)'
    <3>1. s # r
      BY <1>2, <2>4 DEF Known
    <3>2. s \in Requests => pc'[s] = "done"
      BY <1>3, <2>4, <3>1 DEF Known
    <3>3. sessions'[s] \in {sessions[s], NoRow}
      BY <1>4, <3>1
    <3>4. QED
      BY <1>3, <2>4, <3>2, <3>3 DEF Known
  <2>5. RegisterOwn(q)'
    BY <1>3, <2>1 DEF Own, RegisterOwn
  <2>6. UpdateOwn(q)'
    BY <1>3, <2>1, <2>2 DEF Own, UpdateOwn
  <2>7. DeleteOwn(q)'
    <3>1. ASSUME call[q].op = "delete_user"
          PROVE  sessionRows[q] \subseteq (SessionsOf(call[q].who))'
      BY <1>3, <2>1, <2>2, <3>1 DEF Own, DeleteOwn, SessionsOf
    <3>2. ASSUME call[q].op = "delete_user", userRows[q] = {call[q].who}
          PROVE  (SessionsOf(call[q].who))' \subseteq SessionsOf(call[q].who)
      <4>1. call[r].op = "create_session" => call[r].who # call[q].who
        BY <1>2, <2>1, <3>2 DEF Apart, SharesKey
      <4>2. QED
        BY <1>3, <1>4, <4>1 DEF SessionsOf
    <3>3. (pc[q] = "sessions" /\ call[q].op = "delete_user")
             => \A s \in targets[q] : Known(q, s)'
      BY <1>1, <2>1, <2>4 DEF Own, DeleteOwn, TypeOK
    <3>4. QED
      BY <1>3, <2>1, <2>2, <3>1, <3>2, <3>3, SMTT(60) DEF Own, DeleteOwn, Clean
  <2>8. CreateOwn(q)'
    <3>1. ASSUME call[q].op = "create_session", pc[q] = "commit"
          PROVE  users'[call[q].who] # NoRow
      BY <1>4, <2>1, <3>1 DEF Own, CreateOwn, Apart, SharesKey
    <3>2. QED
      BY <1>3, <2>1, <3>1 DEF Own, CreateOwn
  <2>9. SessionOwn(q)'
    <3>1. ASSUME call[q].op \in {"rename_session", "delete_session"}, pc[q] # "done"
          PROVE  call[q].on \in SessionIds /\ Known(q, call[q].on)'
      <4>1. call[q].on \in SessionIds /\ Known(q, call[q].on) /\ call'[q] = call[q]
        BY <1>3, <2>1, <3>1 DEF Own, SessionOwn
      <4>2. QED
        BY <2>4, <4>1 DEF Known
    <3>2. ASSUME call[q].op \in {"rename_session", "delete_session"}, sessionRows[q] # {}
          PROVE  pc[q] # "done" /\ sessions'[call[q].on] = sessions[call[q].on]
      <4>1. pc[q] # "done" /\ sessionRows[q] = {call[q].on}
        BY <2>1, <3>2 DEF Own, Clean, SessionOwn
      <4>2. QED
        BY <2>2, <3>1, <3>2, <4>1
    <3>3. /\ pc'[q] = pc[q] /\ call'[q] = call[q] /\ targets'[q] = targets[q] /\ row'[q] = row[q]
          /\ userRows'[q] = userRows[q] /\ sessionRows'[q] = sessionRows[q]
      BY <1>3
    <3>4. SessionOwn(q)
      BY <2>1 DEF Own
    <3>5. QED
      BY <3>1, <3>2, <3>3, <3>4 DEF SessionOwn
  <2>10. AddressIsFree(q)'
    BY <1>2, <1>3, <2>1 DEF Own, AddressIsFree, Apart, Publishes
  <2>11. QED
    BY <1>3, <2>1, <2>3, <2>5, <2>6, <2>7, <2>8, <2>9, <2>10 DEF Own, Clean
<1>10. ASSUME NEW p \in Requests, NEW q \in Requests, p # q PROVE Apart(p, q)'
  <2>1. CASE p # r /\ q # r
    BY <1>3, <1>10, <2>1 DEF Inv, Apart, Publishes, SharesKey
  <2>2. CASE p = r \/ q = r
    BY <1>2, <2>2 DEF Apart, Clean, Publishes, SharesKey
  <2>3. QED
    BY <2>1, <2>2
<1>11. QED
  BY <1>5, <1>6, <1>7, <1>8, <1>9, <1>10 DEF Inv

(***************************************************************************)
(* Requests that end before their commit.                                  *)
(***************************************************************************)
LEMMA FailStep ==
  ASSUME Inv, NEW r \in Requests, Fail(r)
  PROVE  Inv'
<1>1. /\ Ends(r, "failed") /\ pc[r] # "done" /\ UNCHANGED <<users, sessions, issued, alone>>
      /\ "failed" \in Answers
  BY DEF Fail, Active, Statements, tables, Answers
<1>2. QED
  BY <1>1, EndStep DEF Inv, TypeOK

\* A request that is part of a circle waits for a lock, so it is under way.
LEMMA StuckIsActive ==
  ASSUME NEW S \in SUBSET Requests, Stuck(S), NEW r \in S
  PROVE  pc[r] # "done"
<1>1. {r} \in (SUBSET S) \ {{}, S}
  BY DEF Stuck
<1>2. PICK q \in S : WaitsFor(r, q)
  BY <1>1, ZenonT(60) DEF Stuck
<1>3. QED
  BY <1>2 DEF WaitsFor

\* The transaction a deadlock ends gives up all it held.
LEMMA DeadlockStep ==
  ASSUME Inv, NEW r \in Requests, Deadlock(r)
  PROVE  Inv'
<1>1. /\ Ends(r, "error") /\ UNCHANGED <<users, sessions, issued, alone>> /\ "error" \in Answers
  BY DEF Deadlock, tables, Answers
<1>2. pc[r] # "done"
  BY StuckIsActive DEF Deadlock
<1>3. QED
  BY <1>1, <1>2, EndStep DEF Inv, TypeOK

(***************************************************************************)
(* The invariant, and what it gives.                                       *)
(***************************************************************************)

\* Only a commit changes the two tables.
LEMMA OnlyCommitsWrite ==
  ASSUME NEW r \in Requests,
         \/ RefuseToken(r) \/ RefusePath(r) \/ Login(r) \/ Refresh(r) \/ ReadUser(r) \/ ReadSessions(r)
         \/ Register(r) \/ UpdateUser(r) \/ DeleteUser(r)
         \/ CreateSession(r) \/ RenameSession(r) \/ DeleteSession(r)
         \/ Statement(r) \/ Fail(r)
  PROVE  Commit(r) \/ UNCHANGED <<users, sessions>>
<1>1. CASE \/ RefuseToken(r) \/ RefusePath(r) \/ Login(r) \/ Refresh(r) \/ ReadUser(r)
           \/ ReadSessions(r)
  BY <1>1 DEF RefuseToken, RefusePath, Login, Refresh, ReadUser, ReadSessions, EndsAtOnce
<1>2. CASE \/ Register(r) \/ UpdateUser(r) \/ DeleteUser(r)
           \/ CreateSession(r) \/ RenameSession(r) \/ DeleteSession(r)
  BY <1>2 DEF Register, UpdateUser, DeleteUser, CreateSession, RenameSession, DeleteSession, tables
<1>3. CASE Statement(r) \/ Fail(r)
  BY <1>3 DEF Statement, Fail, CheckAddress, RefetchToUpdate, RefetchToDelete, LoadSessions,
     RefetchSession, WriteSessions, WriteUser, EraseUser, Cascade, Index, InsertSession, Deadlock,
     At, tables
<1>4. QED
  BY <1>1, <1>2, <1>3

\* Every statement, and doing nothing, keeps the invariant.
LEMMA NextInv == Inv /\ [Next]_vars => Inv'
<1> SUFFICES ASSUME Inv, [Next]_vars PROVE Inv'
  OBVIOUS
<1>1. CASE UNCHANGED vars
  <2>1. /\ UNCHANGED <<users, sessions, issued, pc, call, seen, dirty, targets, row>>
        /\ UNCHANGED <<userRows, sessionRows, answer, alone>>
    BY <1>1 DEF vars, request
  <2>2. TypeOK' /\ OneUserPerAddress' /\ SessionsHaveUser'
    BY <2>1 DEF Inv, TypeOK, OneUserPerAddress, SessionsHaveUser
  <2>3. ASSUME NEW r \in Requests PROVE Own(r)'
    <3>1. Own(r)
      BY DEF Inv
    <3>2. QED
      BY <2>1, <3>1 DEF Own, Clean, RegisterOwn, UpdateOwn, DeleteOwn, CreateOwn, SessionOwn,
         AddressIsFree, Publishes, Known, SessionsOf
  <2>4. ASSUME NEW r \in Requests, NEW q \in Requests, r # q PROVE Apart(r, q)'
    BY <2>1, <2>4 DEF Inv, Apart, Publishes, SharesKey
  <2>5. QED
    BY <2>2, <2>3, <2>4 DEF Inv
<1>2. ASSUME NEW r \in Requests,
             \/ RefuseToken(r) \/ RefusePath(r) \/ Login(r) \/ Refresh(r)
             \/ ReadUser(r) \/ ReadSessions(r)
      PROVE  Inv'
  BY <1>2, OnceStep
<1>3. ASSUME NEW r \in Requests,
             \/ Register(r) \/ UpdateUser(r) \/ DeleteUser(r)
             \/ CreateSession(r) \/ RenameSession(r) \/ DeleteSession(r)
      PROVE  Inv'
  BY <1>3, RegisterStep, UpdateUserStep, DeleteUserStep, CreateSessionStep, SessionRequestStep
<1>4. ASSUME NEW r \in Requests, Statement(r) \/ Fail(r)
      PROVE  Inv'
  BY <1>4, CheckAddressStep, RefetchToUpdateStep, RefetchToDeleteStep, LoadSessionsStep,
     RefetchSessionStep, WriteSessionsStep, WriteUserStep, EraseUserStep, CascadeStep, IndexStep,
     InsertSessionStep, CommitStep, DeadlockStep, FailStep DEF Statement
<1>5. QED
  BY <1>1, <1>2, <1>3, <1>4 DEF Next

\* The invariant holds of every reachable state.
LEMMA InvHolds == Spec => []Inv
BY InitInv, NextInv, PTL DEF Spec

\* Every request, row and lock set keeps its type, whatever is asked at once.
THEOREM AccountTypes == Spec => []TypeOK
<1>1. Inv => TypeOK
  BY DEF Inv
<1>2. QED
  BY <1>1, InvHolds, PTL

\* However registrations and changes of address overlap, no two users ever
\* have one address: the waits at the unique index are enough.
THEOREM UniqueAddresses == Spec => []OneUserPerAddress
<1>1. Inv => OneUserPerAddress
  BY DEF Inv
<1>2. QED
  BY <1>1, InvHolds, PTL

\* However creations and renames of sessions overlap the deletion of their
\* user, no session is left without its user.
THEOREM NoOrphanSessions == Spec => []SessionsHaveUser
<1>1. Inv => SessionsHaveUser
  BY DEF Inv
<1>2. QED
  BY <1>1, InvHolds, PTL

\* The requests implement the abstract store: every commit is one of its
\* operations, and a user goes in one step with all the sessions there are.
THEOREM StoreRefined == Spec => StoreSpec
<1>1. Init => Store!Init
  <2> SUFFICES ASSUME Init PROVE Store!Init
    OBVIOUS
  <2> USE StoreAssumption
  <2>1. ASSUME NEW u \in UserIds, users[u] # NoRow
        PROVE  Store!AddressFree(u, users[u].email)
    BY <2>1 DEF Init, Store!AddressFree
  <2>2. \A s \in SessionIds : sessions[s] # NoRow => users[sessions[s].user] # NoRow
    BY DEF Init
  <2>3. QED
    BY <2>1, <2>2 DEF Store!Init
<1>2. Inv /\ [Next]_vars => [Store!Next]_<<users, sessions>>
  <2> SUFFICES ASSUME Inv, [Next]_vars PROVE Store!Next \/ UNCHANGED <<users, sessions>>
    OBVIOUS
  <2>1. CASE UNCHANGED vars
    BY <2>1 DEF vars
  <2>2. CASE Next
    BY <2>2, OnlyCommitsWrite, CommitRefines DEF Next
  <2>3. QED
    BY <2>1, <2>2
<1>3. QED
  BY <1>1, <1>2, InvHolds, PTL DEF Spec, StoreSpec, Store!Spec

\* Whatever happens between the check of the owner and the write, a request
\* changes only the user of its token and the sessions of that user.
THEOREM OnlyOwnData == Spec => OnlyOwnDataChanges
<1> DEFINE OwnUser == \A u \in UserIds : users'[u] # users[u] =>
             \E r \in Requests : pc[r] = "commit" /\ pc'[r] = "done" /\ call[r].who = u
           OwnSession == \A s \in SessionIds : sessions'[s] # sessions[s] =>
             \E r \in Requests : pc[r] = "commit" /\ pc'[r] = "done"
               /\ call[r].who = (IF sessions[s] = NoRow THEN sessions'[s] ELSE sessions[s]).user
<1>1. ASSUME Inv, NEW r \in Requests, Commit(r) PROVE OwnUser /\ OwnSession
  <2>1. pc[r] = "commit" /\ pc'[r] = "done"
    BY <1>1, CommitEffect
  <2>2. /\ users' = [u \in UserIds |-> IF u \in userRows[r] THEN row[r] ELSE users[u]]
        /\ sessions' = [s \in SessionIds |-> IF s \in sessionRows[r] THEN row[r] ELSE sessions[s]]
    BY <1>1, CommitEffect
  <2>3. Clean(r) \/ PutsUser(r) \/ RemovesUser(r) \/ PutsSession(r) \/ RemovesSession(r)
    BY <1>1, <2>1, CommitCases
  <2>4. userRows[r] \subseteq {call[r].who}
    BY <2>3 DEF Clean, PutsUser, RemovesUser, PutsSession, RemovesSession
  <2>5. ASSUME NEW s \in sessionRows[r], s \in SessionIds, sessions'[s] # sessions[s]
        PROVE  call[r].who = (IF sessions[s] = NoRow THEN sessions'[s] ELSE sessions[s]).user
    <3>1. CASE RemovesUser(r)
      BY <2>5, <3>1 DEF RemovesUser, SessionsOf
    <3>2. CASE RemovesSession(r)
      BY <2>5, <3>2 DEF RemovesSession
    <3>3. CASE PutsSession(r)
      <4>1. s = r /\ call[r].op = "create_session" /\ sessions'[s] = row[r]
        BY <2>2, <2>5, <3>3 DEF PutsSession
      <4>2. sessions[s] = NoRow
        BY <1>1, <2>1, <4>1 DEF Inv, Own
      <4>3. QED
        BY <3>3, <4>1, <4>2 DEF PutsSession
    <3>4. QED
      BY <2>3, <2>5, <3>1, <3>2, <3>3 DEF Clean, PutsUser
  <2>6. \A s \in SessionIds : sessions'[s] # sessions[s] => s \in sessionRows[r]
    BY <2>2 DEF Inv
  <2>7. \A u \in UserIds : users'[u] # users[u] => u \in userRows[r]
    BY <2>2
  <2>8. QED
    BY <2>1, <2>4, <2>5, <2>6, <2>7
<1>2. Inv /\ [Next]_vars => [OwnUser /\ OwnSession]_vars
  <2>1. ASSUME UNCHANGED <<users, sessions>> PROVE OwnUser /\ OwnSession
    BY <2>1
  <2>2. ASSUME Inv, Next PROVE OwnUser /\ OwnSession
    BY <1>1, <2>1, <2>2, OnlyCommitsWrite DEF Next
  <2>3. QED
    BY <2>2
<1>3. QED
  BY <1>2, InvHolds, PTL DEF Spec, OnlyOwnDataChanges
=============================================================================
