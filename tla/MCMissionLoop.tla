---------------------------- MODULE MCMissionLoop ----------------------------
EXTENDS MissionLoop
=============================================================================
