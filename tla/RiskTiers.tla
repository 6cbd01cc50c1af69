----------------------------- MODULE RiskTiers -----------------------------
(***************************************************************************)
(* The two tiers of tools, which every face of the control plane consults: *)
(* a tool in RISKY_TOOLS is simulated and asked for before it acts.  The   *)
(* meta-loop moves a tool that is not risky by definition between them, at *)
(* any moment (MetaLoop models when it may).                               *)
(***************************************************************************)
CONSTANTS
  Tools,        \* the tools an action may name
  BuiltinRisky  \* RISKY_TOOLS as the module defines it

ASSUME TiersAssumption == BuiltinRisky \subseteq Tools

VARIABLE risky  \* RISKY_TOOLS

MoveTier(t) ==
  /\ t \in Tools \ BuiltinRisky
  /\ risky' = IF t \in risky THEN risky \ {t} ELSE risky \union {t}
=============================================================================
