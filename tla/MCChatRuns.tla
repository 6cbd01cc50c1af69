----------------------------- MODULE MCChatRuns -----------------------------
(***************************************************************************)
(* Two overlapping chat runs, plans of at most two actions, one restart.     *)
(***************************************************************************)
EXTENDS ChatRuns

CONSTANTS write, search

MCTools == {write, search, Dispatch}
MCRisky == {write, Dispatch}
MCPlans == {<<search, write>>, <<Dispatch>>}
MCReanswered == {<<1, 1>>}
=============================================================================
