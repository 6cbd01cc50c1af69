-------------------------------- MODULE Genome --------------------------------
(***************************************************************************)
(* The capability genome: the registry of one host's evolved capabilities  *)
(* and the operations that move their versions along the lifecycle.        *)
(*                                                                         *)
(* The code publishes the lifecycle as a table, GENOME_TRANSITIONS, which  *)
(* none of its operations consults; each finds the version it acts on by   *)
(* itself, as the newest live one.  Operations are synchronous: one action *)
(* is one call, and calls come in any order.                               *)
(***************************************************************************)
EXTENDS Integers, FiniteSets

CONSTANTS
  Cap,         \* capability ids
  MaxVersion,  \* bound: versions of one id
  Class,       \* permission classes
  Permitted,   \* HostPolicy.permittedClasses
  Bodies,      \* what a genome of each id may declare
  Packages     \* verified packages: [id, version, body, lineage, evidence]

ASSUME GenomeAssumption == MaxVersion \in Nat \ {0} /\ Permitted \subseteq Class

Version == 1 .. MaxVersion

(* The parent's id and version.  What a package names is taken as it comes:*)
(* another id, a later version, or the very version it is filed under.     *)
Orphan  == <<>>
Lineage == (Cap \X Version) \union {Orphan}

VARIABLE genomes   \* the registry: the genome of each id and version

Status == {"OBSERVED", "CANDIDATE", "UNDER_EVALUATION", "SHADOW", "CANARY", "ACTIVE",
           "REJECTED", "BLOCKED", "ROLLED_BACK", "DEPRECATED", "QUARANTINED"}

(* What a genome declares.  origin: distilled from a run, whose receipt it *)
(* names or not, observed, or derived from a parent.                       *)
Body == [class : Class, deps : SUBSET Cap, required : BOOLEAN,
         origin : {"distilled", "observed", "derived"}, receipt : BOOLEAN]

(* PromotionEvidence: whether it shows regressions, and whether it shows   *)
(* passes and no failure.                                                  *)
Evidence   == [regressions : BOOLEAN, proven : BOOLEAN]
NoEvidence == [regressions |-> FALSE, proven |-> FALSE]

(* climbed: how many gates the genome's history says it passed here since  *)
(* anything else happened to it.  granted is a history variable: whether   *)
(* the governor's grant for its class came with the last of them.          *)
Genome == [status : Status, body : Body, lineage : Lineage,
           lastEvidence : Evidence, climbed : 0 .. 5, granted : BOOLEAN]

Absent == [status |-> "none"]

ASSUME BodiesAssumption ==
  /\ Bodies \in [Cap -> SUBSET {b \in Body : b.origin # "derived"}]
  /\ \A p \in Packages :
       /\ p.id \in Cap /\ p.version \in Version /\ p.body \in Body
       /\ p.lineage \in Lineage /\ p.evidence \in Evidence

Registered(c, v) == genomes[c][v] # Absent

TypeOK == genomes \in [Cap -> [Version -> Genome \union {Absent}]]

-----------------------------------------------------------------------------
(* The table.                                                              *)

GENOME_TRANSITIONS ==
  [s \in Status |->
     CASE s = "OBSERVED"         -> {"CANDIDATE", "BLOCKED", "QUARANTINED"}
       [] s = "CANDIDATE"        -> {"UNDER_EVALUATION", "REJECTED", "BLOCKED", "QUARANTINED"}
       [] s = "UNDER_EVALUATION" -> {"SHADOW", "REJECTED", "QUARANTINED"}
       [] s = "SHADOW"           -> {"CANARY", "REJECTED", "QUARANTINED"}
       [] s = "CANARY"           -> {"ACTIVE", "ROLLED_BACK", "QUARANTINED"}
       [] s = "ACTIVE"           -> {"DEPRECATED", "ROLLED_BACK", "QUARANTINED"}
       [] s = "QUARANTINED"      -> {"UNDER_EVALUATION"}
       [] OTHER                  -> {}]

FORWARD_STEP ==
  [s \in {"OBSERVED", "CANDIDATE", "UNDER_EVALUATION", "SHADOW", "CANARY"} |->
     CASE s = "OBSERVED"         -> "CANDIDATE"
       [] s = "CANDIDATE"        -> "UNDER_EVALUATION"
       [] s = "UNDER_EVALUATION" -> "SHADOW"
       [] s = "SHADOW"           -> "CANARY"
       [] s = "CANARY"           -> "ACTIVE"]

-----------------------------------------------------------------------------
(* The registry.                                                           *)

TERMINAL_STATES == {"REJECTED", "BLOCKED", "ROLLED_BACK", "DEPRECATED"}

Live(c) == {v \in Version : Registered(c, v) /\ genomes[c][v].status \notin TERMINAL_STATES}

(* latestVersion: v is the newest live version of c.                       *)
LatestVersion(c, v) == v \in Live(c) /\ \A u \in Live(c) : u <= v

(* currentFor: v is the version of c a host runs.                          *)
CurrentFor(c, v) ==
  /\ Registered(c, v) /\ genomes[c][v].status = "ACTIVE"
  /\ \A u \in Version : Registered(c, u) /\ genomes[c][u].status = "ACTIVE" => u <= v

(* registerGenome refuses a key it has.                                    *)
RegisterGenome(c, v, g) ==
  /\ v \in Version
  /\ ~Registered(c, v)
  /\ genomes' = [genomes EXCEPT ![c][v] = g]

(* The entry of any event that is not a passed gate.                       *)
Moved(g, s) == [g EXCEPT !.status = s, !.climbed = 0, !.granted = FALSE]

-----------------------------------------------------------------------------
(* The hard gates.                                                         *)

SafetyGate(g, grant) == g.body.class \in Permitted \/ grant

ProvenanceGate(g) ==
  /\ g.body.origin = "distilled" => g.body.receipt
  /\ g.body.origin = "derived" =>
       g.lineage # Orphan /\ Registered(g.lineage[1], g.lineage[2])

DependencyGate(g) == \A d \in g.body.deps : \E v \in Version : Registered(d, v)

RegressionGate(g, e) == ~e.regressions /\ (g.body.required => e.proven)

(* runHardGates; grant: the governor's grant names the genome's class.     *)
HardGates(g, e, grant) ==
  /\ SafetyGate(g, grant)
  /\ ProvenanceGate(g)
  /\ DependencyGate(g)
  /\ RegressionGate(g, e)

-----------------------------------------------------------------------------
Init == genomes = [c \in Cap |-> [v \in Version |-> Absent]]

(* newGenome and its registration.                                         *)
Observe(c, b) ==
  RegisterGenome(c, 1, [status |-> "OBSERVED", body |-> b, lineage |-> Orphan,
                        lastEvidence |-> NoEvidence, climbed |-> 0, granted |-> FALSE])

(* promote: one step forward of the newest live version, if it passes the  *)
(* gates; quarantine, if not - an active one included.  A quarantined one  *)
(* stays, and so does an active one that passes.                           *)
Promote(c, e, grant) ==
  \E v \in Version :
    LET g == genomes[c][v] IN
    /\ LatestVersion(c, v)
    /\ g.status # "QUARANTINED"
    /\ \/ /\ ~HardGates(g, e, grant)
          /\ genomes' = [genomes EXCEPT ![c][v] = Moved(g, "QUARANTINED")]
       \/ /\ HardGates(g, e, grant)
          /\ g.status # "ACTIVE"
          /\ genomes' = [genomes EXCEPT ![c][v] =
               [g EXCEPT !.status = FORWARD_STEP[@], !.lastEvidence = e,
                         !.climbed = @ + 1, !.granted = grant]]

(* governorReopen: the only way out of quarantine.                         *)
\* Mutant: back to the last step it had reached.
ReopenWhereItFell(c) ==
  \E v \in Version :
    /\ LatestVersion(c, v)
    /\ genomes[c][v].status = "QUARANTINED"
    /\ genomes' = [genomes EXCEPT ![c][v] = Moved(@, "CANARY")]
GovernorReopen(c) ==
  \E v \in Version :
    /\ LatestVersion(c, v)
    /\ genomes[c][v].status = "QUARANTINED"
    /\ genomes' = [genomes EXCEPT ![c][v] = Moved(@, "UNDER_EVALUATION")]

(* rollbackActive of the newest live version, by hand or by monitor when   *)
(* its evidence shows a regression.                                        *)
\* Mutant: whatever the newest version's status.
RollbackAny(c) ==
  \E v \in Version :
    /\ LatestVersion(c, v)
    /\ genomes' = [genomes EXCEPT ![c][v] = Moved(@, "ROLLED_BACK")]
RollbackActive(c) ==
  \E v \in Version :
    /\ LatestVersion(c, v)
    /\ genomes[c][v].status = "ACTIVE"
    /\ genomes' = [genomes EXCEPT ![c][v] = Moved(@, "ROLLED_BACK")]

(* deriveChild: a version of its own, with the newest live one - of any    *)
(* status - as parent.  It is refused when that number is taken.           *)
DeriveChild(c, b) ==
  \E v \in Version :
    /\ LatestVersion(c, v)
    /\ RegisterGenome(c, v + 1,
         [status |-> "CANDIDATE",
          body |-> [b EXCEPT !.origin = "derived", !.receipt = genomes[c][v].body.receipt],
          lineage |-> <<c, v>>, lastEvidence |-> NoEvidence, climbed |-> 0, granted |-> FALSE])

(* importPackage: under evaluation at the next free number, with its       *)
(* lineage and its foreign evidence as they came.                          *)
\* Mutant: the number the package names is taken over.
ImportInPlace(p) ==
  genomes' = [genomes EXCEPT ![p.id][p.version] =
    [status |-> "UNDER_EVALUATION", body |-> p.body, lineage |-> p.lineage,
     lastEvidence |-> p.evidence, climbed |-> 0, granted |-> FALSE]]
ImportPackage(p) ==
  \E v \in p.version .. MaxVersion :
    /\ \A u \in p.version .. v - 1 : Registered(p.id, u)
    /\ RegisterGenome(p.id, v,
         [status |-> "UNDER_EVALUATION", body |-> p.body, lineage |-> p.lineage,
          lastEvidence |-> p.evidence, climbed |-> 0, granted |-> FALSE])

Next ==
  \/ \E c \in Cap : \E b \in Bodies[c] : Observe(c, b)
  \/ \E c \in Cap, e \in Evidence, grant \in BOOLEAN : Promote(c, e, grant)
  \/ \E c \in Cap : GovernorReopen(c)
  \/ \E c \in Cap : RollbackActive(c)
  \/ \E c \in Cap : \E b \in Bodies[c] : DeriveChild(c, b)
  \/ \E p \in Packages : ImportPackage(p)

Spec == Init /\ [][Next]_genomes

-----------------------------------------------------------------------------
(* Properties.                                                             *)

(* Whatever runs has earned it on this host: an active version climbed     *)
(* from evaluation to active here, its last step with evidence that its    *)
(* gates accept and with leave for its class, and what it leans on - its   *)
(* parent, its dependencies - is still in the registry.  No import, child  *)
(* or reopened quarantine arrives any other way.                           *)
ActiveEarnedItHere ==
  \A c \in Cap, v \in Version : genomes[c][v].status = "ACTIVE" =>
    LET g == genomes[c][v] IN
    /\ g.climbed >= 3
    /\ HardGates(g, g.lastEvidence, g.granted)

(* The operations keep to the table none of them reads, a version never    *)
(* changes what it declares or whom it descends from, and none disappears: *)
(* evolution only adds.                                                    *)
FollowsTheTable ==
  [][\A c \in Cap, v \in Version : genomes'[c][v] # genomes[c][v] =>
       \/ /\ ~Registered(c, v)
          /\ genomes'[c][v].status \in {"OBSERVED", "CANDIDATE", "UNDER_EVALUATION"}
       \/ /\ Registered(c, v)
          /\ genomes'[c][v].status \in GENOME_TRANSITIONS[genomes[c][v].status]
          /\ genomes'[c][v].body = genomes[c][v].body
          /\ genomes'[c][v].lineage = genomes[c][v].lineage]_genomes

(* "a live capability under monitoring: regressions roll it back": the     *)
(* version a host runs is the one monitor looks at.  The code does not     *)
(* keep this: a candidate, however young, is newer than the one that runs. *)
RunningIsMonitored ==
  \A c \in Cap, v \in Version : CurrentFor(c, v) => LatestVersion(c, v)

(* "evolution is a child (deriveChild), not a re-promotion": a capability  *)
(* that lives can have one.  The code does not keep this: once the child   *)
(* is rolled back its number stays taken, and its parent is the newest.    *)
EvolutionGoesOn ==
  \A c \in Cap, v \in Version :
    LatestVersion(c, v) /\ v < MaxVersion => ~Registered(c, v + 1)
=============================================================================
