----------------------------- MODULE MCProcess -----------------------------
EXTENDS AgentProcess, PathRewriting

CONSTANTS api1, api2, r1, r2, task

(* Servers that have no name in common with others, one whose tools clash  *)
(* with those of another, and one that is configured twice *)
MCServerNames == {<<"a">>, <<"a", "b">>}
MCOffers == (<<"a">> :> << <<"c">>, <<"b", "c">> >>) @@ (<<"a", "b">> :> << <<"c">> >>)

MCInitialSettings == [servers |-> << <<"a">> >>, search |-> TRUE, model |-> 1]
MCSettings ==
    {MCInitialSettings,
     [MCInitialSettings EXCEPT !.servers = << <<"a">>, <<"a", "b">> >>, !.search = FALSE],
     [MCInitialSettings EXCEPT !.servers = << <<"a">>, <<"a">> >>]}

NoCrew == [apis |-> {}, requests |-> {}, tasks |-> {}, edits |-> 0]

(* Two requests of a process, two processes with a request, or a task and *)
(* two workers; or none, and a call of a file tool *)
MCCrews == {[apis |-> {api1}, requests |-> {r1, r2}, tasks |-> {}, edits |-> 2],
            [apis |-> {api1, api2}, requests |-> {r1}, tasks |-> {}, edits |-> 0],
            [apis |-> {}, requests |-> {}, tasks |-> {task}, edits |-> 1],
            NoCrew}

(* In the project p are the sandbox ws and, beside it, other files; a link  *)
(* leads out of the sandbox and another into it *)
MCNames == {"p", "ws", "out", "ln", "etc", "file"}
MCLinks == (<<"p", "ws", "out">> :> <<"etc">>) @@ (<<"ln">> :> <<"p", "ws">>)
MCWorkingDirectory == <<"p">>
MCSandbox == [quoted |-> FALSE, absolute |-> FALSE, parts |-> <<"ws">>]

(* A path goes its way beside the processes and shares no state with them: *)
(* one or the other is run. *)
Idle == edits = 0 /\ \A api \in Apis : phase[api] = "unused"
MCInit == Init /\ IF Idle THEN CallInit ELSE NoCall
MCNext == (Next /\ UNCHANGED call) \/ (CallNext /\ UNCHANGED vars)
MCSpec == MCInit /\ [][MCNext]_<<vars, call>> /\ Fairness
=============================================================================
