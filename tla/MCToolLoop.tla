------------------------------ MODULE MCToolLoop ------------------------------
(***************************************************************************)
(* ToolLoop on small instances: a pass on a new conversation, and one on a *)
(* conversation that holds an earlier pass.                                *)
(***************************************************************************)
EXTENDS ToolLoop

Asked == Text("human", 1)

EarlierPass ==
  <<Asked,
    [kind |-> "call", round |-> 1, nth |-> 1, size |-> 1],
    [kind |-> "tool", round |-> 1, nth |-> 1, size |-> 1],
    Text("ai", 1),
    Asked>>

NewOrLater == {<<Asked>>, EarlierPass}

=============================================================================
