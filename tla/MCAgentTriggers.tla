-------------------------- MODULE MCAgentTriggers --------------------------
(* One cron expression with a slot every minute and one metric. *)
EXTENDS AgentTriggers

MCPeriod == [x \in Crons |-> 1]
=============================================================================
