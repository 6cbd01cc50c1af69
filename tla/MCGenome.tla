------------------------------- MODULE MCGenome -------------------------------
(* Instance of Genome for TLC.                                             *)
EXTENDS Genome, TLC

CONSTANTS c, d, local, external

MCCap == {c, d}
MCClass == {local, external}
MCPermitted == {local}

(* A skill distilled from a vouched run.                                   *)
Skill == [class |-> local, deps |-> {}, required |-> TRUE,
          origin |-> "distilled", receipt |-> TRUE]

MCBodies == c :> {Skill} @@ d :> {}

(* From another host: a child without its parent that reaches out, leans   *)
(* on d and brings its proof along - and that may be filed here under the  *)
(* number of the parent it names - and a d distilled from no known run.    *)
MCPackages ==
  {[id |-> c, version |-> 2, lineage |-> <<c, 3>>,
    body |-> [class |-> external, deps |-> {d}, required |-> FALSE,
              origin |-> "derived", receipt |-> TRUE],
    evidence |-> [regressions |-> FALSE, proven |-> TRUE]],
   [id |-> d, version |-> 1, lineage |-> <<>>,
    body |-> [Skill EXCEPT !.receipt = FALSE], evidence |-> NoEvidence]}
=============================================================================
