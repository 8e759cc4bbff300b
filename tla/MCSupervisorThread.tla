--------------------------- MODULE MCSupervisorThread ---------------------------
(***************************************************************************)
(* SupervisorThread on small instances: three requests on one thread.      *)
(***************************************************************************)
EXTENDS SupervisorThread, TLC

Symmetry == Permutations(Requests)

=============================================================================
