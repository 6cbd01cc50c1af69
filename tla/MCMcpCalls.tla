----------------------------- MODULE MCMcpCalls -----------------------------
(***************************************************************************)
(* Two calls, two tools: one risky by definition, one that is re-tiered.   *)
(***************************************************************************)
EXTENDS McpCalls

CONSTANTS write, clock

MCTools == {write, clock}
MCRisky == {write}
=============================================================================
