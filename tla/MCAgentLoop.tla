---------------------------- MODULE MCAgentLoop ----------------------------
(***************************************************************************)
(* AgentLoop with one registered and one unknown tool, responses of one or *)
(* two tool calls, and limits small enough for every guard to fire first.  *)
(***************************************************************************)
EXTENDS AgentLoop

MCStepLimits == {-1, 0, 1}
MCBudgets    == {0, 1}
MCCosts      == {1, 2}
=============================================================================
