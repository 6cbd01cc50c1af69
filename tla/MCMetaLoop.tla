----------------------------- MODULE MCMetaLoop -----------------------------
(***************************************************************************)
(* Three ledger entries over one tool of the floor, one that can be        *)
(* tightened and one preference; the ledger keeps two.                     *)
(***************************************************************************)
EXTENDS MetaLoop

CONSTANTS write, clock, concise

MCTools == {write, clock}
MCPrefs == {concise}
MCRisky == {write}
=============================================================================
