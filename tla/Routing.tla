------------------------------- MODULE Routing -------------------------------
(***************************************************************************)
(* The deterministic routing rules of the agent graph                      *)
(* (domain/routing_rules) and the part of the task delegator that turns    *)
(* the model's answer into a route.  They are pure: every one of them      *)
(* reads a few fields of the graph's state and names the next node.        *)
(*                                                                         *)
(* Agent names are strings; NoAgent stands for Python's None and for the   *)
(* empty string, which the code tests with a plain truth test.             *)
(***************************************************************************)
EXTENDS Naturals

NoAgent == "no agent"

\* What next_agent may hold once the delegator has written it.
Agents == {"researcher", "workspace", "chat", "end"}

\* The legacy name of the workspace agent is still accepted everywhere.
LegacyNextAgent(name) == IF name = "file_writer" THEN "workspace" ELSE name

NormalizeAgent(name) == IF name = NoAgent THEN "chat" ELSE LegacyNextAgent(name)

(***************************************************************************)
(* The delegator's decision.  raw is the agent the model named, after      *)
(* strip/lower and "-" replaced by "_"; it may be anything.  The           *)
(* local-time override looks at the user's text and only turns chat into   *)
(* researcher; the missing-workspace fallback runs after it and wins.      *)
(***************************************************************************)
Allowed(includeWorkspace) ==
  {"researcher", "chat", "end"} \cup (IF includeWorkspace THEN {"workspace"} ELSE {})

Delegation(name, asksLocalTime, includeWorkspace) ==
  LET raw == LegacyNextAgent(name)
      listed == IF raw \in Allowed(includeWorkspace) THEN raw ELSE "chat"
  IN  IF raw = "workspace" /\ ~includeWorkspace THEN "chat"
      ELSE IF asksLocalTime /\ listed = "chat" THEN "researcher"
      ELSE listed

\* Mutant: only the legacy name is sent to the review.
RouteToHumanReviewUngated(error, nextAgent) ==
  IF error THEN "end"
  ELSE IF nextAgent = "file_writer" THEN "human_review"
  ELSE NormalizeAgent(nextAgent)

\* After delegation: workspace work goes to a human first.
RouteToHumanReview(error, nextAgent) ==
  IF error THEN "end"
  ELSE IF NormalizeAgent(nextAgent) = "workspace" THEN "human_review"
  ELSE NormalizeAgent(nextAgent)

\* Mutant: the answer is not looked at.
RouteAfterHumanReviewAnyway(feedback, nextAgent) == NormalizeAgent(nextAgent)

\* Mutant: a route that the graph's edges do not list.
RouteAfterHumanReviewUnmapped(feedback, nextAgent) ==
  IF feedback = "approved" THEN NormalizeAgent(nextAgent) ELSE feedback

\* After the review: only the word "approved" opens the way.
RouteAfterHumanReview(feedback, nextAgent) ==
  IF feedback = "approved" THEN NormalizeAgent(nextAgent) ELSE "end"

\* Mutant: sufficient results end the pass.
RouteResearcherNoReply(error, sufficient, queries) ==
  IF error \/ sufficient THEN "end"
  ELSE IF queries > 0 THEN "search"
  ELSE "end"

\* The loop test that the researcher and the workspace subgraph share.
RouteResearcher(error, sufficient, queries) ==
  IF error THEN "end"
  ELSE IF sufficient THEN "synthesize"
  ELSE IF queries > 0 THEN "search"
  ELSE "end"

=============================================================================
