----------------------------- MODULE ApprovalGate -----------------------------
(***************************************************************************)
(* What the human-in-the-loop gate promises, seen from outside: the tools  *)
(* with side effects are used for a turn of the conversation only after a  *)
(* human granted that turn, a grant is for one turn, and neither a grant   *)
(* nor a use is ever taken back.                                           *)
(***************************************************************************)
CONSTANT Turns

VARIABLES granted, used

Init == granted = {} /\ used = {}

Grant(t) ==
  /\ granted' = granted \cup {t}
  /\ UNCHANGED used

Use(t) ==
  /\ t \in granted
  /\ used' = used \cup {t}
  /\ UNCHANGED granted

Next == \E t \in Turns : Grant(t) \/ Use(t)

Spec == Init /\ [][Next]_<<granted, used>>

=============================================================================
