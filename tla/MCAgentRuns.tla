---------------------------- MODULE MCAgentRuns ----------------------------
(* One run, two calls at a time, two people beside the requester. *)
EXTENDS AgentRuns

CONSTANTS c1, c2

\* A read-only plan of two steps, one that needs approval from its second
\* step on, and the empty plan the deterministic planner can return.
MCPlans == {<<>>, <<"read_only", "read_only">>, <<"read_only", "approval_required">>}
=============================================================================
