----------------------------- MODULE MCAccounts -----------------------------
EXTENDS Accounts, TLC

CONSTANTS ann, bob, chat, r1, r2, r3, ea, eb, ec, x, y

(* Two users, one of them with a session *)
MCUsers == [u \in UserIds |-> CASE u = ann -> [email |-> ea, name |-> x]
                                [] u = bob -> [email |-> eb, name |-> x]
                                [] OTHER   -> NoRow]
MCSessions == [s \in SessionIds |-> IF s = chat THEN [user |-> ann] ELSE NoRow]
(* A request of any other kind, one that takes away what the others rely on, and   *)
(* one both can wait for or miss *)
MCMayAsk == [r \in Requests |->
  CASE r = r1 -> Ops \ {"create_session"}
    [] r = r2 -> {"register", "update_user", "delete_user", "delete_session"}
    [] OTHER  -> {"create_session"}]
=============================================================================
