----------------------------- MODULE Directory -----------------------------
(***************************************************************************)
(* What the account store promises, whatever the requests do: its two      *)
(* tables change by whole operations only.  An address belongs to at most  *)
(* one user, a session always belongs to a user that exists, keeps its     *)
(* owner, and goes together with it.                                       *)
(***************************************************************************)
CONSTANTS UserIds, SessionIds, UserRows, SessionRows, NoRow
VARIABLES users, sessions

AddressFree(u, address) ==
    \A v \in UserIds \ {u} : users[v] # NoRow => users[v].email # address

PutUser(u, row) ==
    /\ AddressFree(u, row.email)
    /\ users' = [users EXCEPT ![u] = row]
    /\ UNCHANGED sessions

RemoveUser(u) ==
    /\ users' = [users EXCEPT ![u] = NoRow]
    /\ sessions' = [s \in SessionIds |->
                      IF sessions[s] # NoRow /\ sessions[s].user = u
                      THEN NoRow ELSE sessions[s]]

PutSession(s, row) ==
    /\ users[row.user] # NoRow
    /\ sessions[s] # NoRow => sessions[s].user = row.user
    /\ sessions' = [sessions EXCEPT ![s] = row]
    /\ UNCHANGED users

RemoveSession(s) ==
    /\ sessions' = [sessions EXCEPT ![s] = NoRow]
    /\ UNCHANGED users

Init ==
    /\ \A u \in UserIds : users[u] # NoRow => AddressFree(u, users[u].email)
    /\ \A s \in SessionIds : sessions[s] # NoRow => users[sessions[s].user] # NoRow

Next ==
    \/ \E u \in UserIds : RemoveUser(u) \/ \E row \in UserRows : PutUser(u, row)
    \/ \E s \in SessionIds : RemoveSession(s) \/ \E row \in SessionRows : PutSession(s, row)

Spec == Init /\ [][Next]_<<users, sessions>>
=============================================================================
