-------------------------- MODULE MCMissionRuntime --------------------------
EXTENDS MissionRuntime, TLC
MCDeps == (1 :> {}) @@ (2 :> {1})
=============================================================================
