----------------------------- MODULE Genome_proofs -----------------------------
(***************************************************************************)
(* What holds of the capability genome for all capabilities, packages and  *)
(* numbers of versions.  Every operation either registers a version or     *)
(* moves a registered one; the invariants are shown of these two steps.    *)
(***************************************************************************)
EXTENDS Genome, TLAPS

(* How many gates a version can have passed here in each status: it starts *)
(* at one of the first three with none.                                    *)
Reach(g) ==
  /\ g.status = "OBSERVED" => g.climbed = 0
  /\ g.status = "CANDIDATE" => g.climbed \in 0 .. 1
  /\ g.status = "UNDER_EVALUATION" => g.climbed \in 0 .. 2
  /\ g.status = "SHADOW" => g.climbed \in 1 .. 3
  /\ g.status = "CANARY" => g.climbed \in 2 .. 4
  /\ g.status = "ACTIVE" => g.climbed \in 3 .. 5

Climbs == \A c \in Cap, v \in Version : Registered(c, v) => Reach(genomes[c][v])

(* The two kinds of steps.                                                 *)
Registers(c, v, g) ==
  /\ ~Registered(c, v)
  /\ genomes' = [genomes EXCEPT ![c][v] = g]
  /\ g.status \in {"OBSERVED", "CANDIDATE", "UNDER_EVALUATION"}
  /\ g.climbed = 0

Moves(c, v, g) ==
  /\ Registered(c, v)
  /\ genomes' = [genomes EXCEPT ![c][v] = g]
  /\ g.status \in GENOME_TRANSITIONS[genomes[c][v].status]
  /\ g.body = genomes[c][v].body
  /\ g.lineage = genomes[c][v].lineage
  /\ Reach(g)
  /\ g.status = "ACTIVE" => HardGates(g, g.lastEvidence, g.granted)

GInv == TypeOK /\ Climbs /\ ActiveEarnedItHere

-----------------------------------------------------------------------------
(* A registered version is a genome.                                       *)
LEMMA RegisteredIsGenome ==
  ASSUME TypeOK, NEW c \in Cap, NEW v \in Version, Registered(c, v)
  PROVE  genomes[c][v] \in Genome
BY DEF TypeOK, Registered

(* Fields of a genome may be rewritten.                                    *)
LEMMA GenomeRewritten ==
  ASSUME NEW S, NEW B, NEW P, NEW E, NEW C, NEW G,
         NEW g \in [status : S, body : B, lineage : P, lastEvidence : E, climbed : C, granted : G],
         NEW s \in S, NEW e \in E, NEW n \in C, NEW x \in G
  PROVE  /\ [g EXCEPT !.status = s, !.climbed = n, !.granted = x]
             \in [status : S, body : B, lineage : P, lastEvidence : E, climbed : C, granted : G]
         /\ [g EXCEPT !.status = s, !.lastEvidence = e, !.climbed = n, !.granted = x]
             \in [status : S, body : B, lineage : P, lastEvidence : E, climbed : C, granted : G]
OBVIOUS

(* What promote, a quarantine, a rollback or a reopening makes of one.     *)
LEMMA MovedIsGenome ==
  ASSUME NEW g \in Genome, NEW s \in Status
  PROVE  /\ Moved(g, s) \in Genome /\ Moved(g, s).status = s
         /\ Moved(g, s).climbed = 0
         /\ Moved(g, s).body = g.body /\ Moved(g, s).lineage = g.lineage
<1>1. s \in Status /\ 0 \in 0 .. 5 /\ FALSE \in BOOLEAN
  OBVIOUS
<1>2. Moved(g, s) \in Genome
  BY <1>1, GenomeRewritten DEF Moved, Genome
<1> QED BY <1>2 DEF Moved, Genome

(* Every live status may be quarantined.                                   *)
LEMMA QuarantineAllowed ==
  ASSUME NEW s \in Status, s \notin TERMINAL_STATES, s # "QUARANTINED"
  PROVE  "QUARANTINED" \in GENOME_TRANSITIONS[s]
BY DEF Status, TERMINAL_STATES, GENOME_TRANSITIONS

(* A step forward is one of the table, and of the rank.                    *)
LEMMA ForwardAllowed ==
  ASSUME NEW s \in Status, s \notin TERMINAL_STATES, s \notin {"QUARANTINED", "ACTIVE"}
  PROVE  /\ FORWARD_STEP[s] \in Status
         /\ FORWARD_STEP[s] \in GENOME_TRANSITIONS[s]
BY DEF Status, TERMINAL_STATES, GENOME_TRANSITIONS, FORWARD_STEP

LEMMA ForwardReach ==
  ASSUME NEW g \in Genome, NEW h \in Genome, Reach(g),
         g.status \notin TERMINAL_STATES, g.status \notin {"QUARANTINED", "ACTIVE"},
         h.status = FORWARD_STEP[g.status], h.climbed = g.climbed + 1
  PROVE  Reach(h)
<1>1. g.status \in {"OBSERVED", "CANDIDATE", "UNDER_EVALUATION", "SHADOW", "CANARY"}
  BY DEF Genome, Status, TERMINAL_STATES
<1>2. g.climbed \in 0 .. 5
  BY DEF Genome
<1>3. CASE g.status = "OBSERVED"
  BY <1>2, <1>3 DEF Reach, FORWARD_STEP
<1>4. CASE g.status = "CANDIDATE"
  BY <1>2, <1>4 DEF Reach, FORWARD_STEP
<1>5. CASE g.status = "UNDER_EVALUATION"
  BY <1>2, <1>5 DEF Reach, FORWARD_STEP
<1>6. CASE g.status = "SHADOW"
  BY <1>2, <1>6 DEF Reach, FORWARD_STEP
<1>7. CASE g.status = "CANARY"
  BY <1>2, <1>7 DEF Reach, FORWARD_STEP
<1> QED BY <1>1, <1>3, <1>4, <1>5, <1>6, <1>7

-----------------------------------------------------------------------------
(* Each operation is one of the two kinds of steps.                        *)

LEMMA ObserveRegisters ==
  ASSUME NEW c \in Cap, NEW b \in Bodies[c], Observe(c, b)
  PROVE  \E v \in Version, g \in Genome : Registers(c, v, g)
<1> DEFINE g == [status |-> "OBSERVED", body |-> b, lineage |-> Orphan,
                 lastEvidence |-> NoEvidence, climbed |-> 0, granted |-> FALSE]
<1>1. b \in Body
  BY BodiesAssumption
<1>2. g \in Genome
  BY <1>1, GenomeAssumption DEF Genome, Status, Lineage, NoEvidence, Evidence
<1>3. 1 \in Version /\ Registers(c, 1, g)
  BY DEF Observe, RegisterGenome, Registers
<1> QED BY <1>2, <1>3

LEMMA DeriveRegisters ==
  ASSUME TypeOK, NEW c \in Cap, NEW b \in Bodies[c], DeriveChild(c, b)
  PROVE  \E v \in Version, g \in Genome : Registers(c, v, g)
<1>1. PICK v \in Version :
        /\ LatestVersion(c, v)
        /\ RegisterGenome(c, v + 1,
             [status |-> "CANDIDATE",
              body |-> [b EXCEPT !.origin = "derived", !.receipt = genomes[c][v].body.receipt],
              lineage |-> <<c, v>>, lastEvidence |-> NoEvidence, climbed |-> 0, granted |-> FALSE])
  BY DEF DeriveChild
<1> DEFINE body == [b EXCEPT !.origin = "derived", !.receipt = genomes[c][v].body.receipt]
           g == [status |-> "CANDIDATE", body |-> body, lineage |-> <<c, v>>,
                 lastEvidence |-> NoEvidence, climbed |-> 0, granted |-> FALSE]
<1>2. b \in Body
  BY BodiesAssumption
<1>3. genomes[c][v] \in Genome
  BY <1>1, RegisteredIsGenome DEF LatestVersion, Live
<1>4. body \in Body
  BY <1>2, <1>3 DEF Body, Genome
<1>5. <<c, v>> \in Lineage /\ v + 1 \in Version
  BY <1>1 DEF Lineage, RegisterGenome
<1>6. g \in Genome
  BY <1>4, <1>5 DEF Genome, Status, NoEvidence, Evidence
<1>7. Registers(c, v + 1, g)
  BY <1>1, <1>5 DEF RegisterGenome, Registers
<1> QED BY <1>5, <1>6, <1>7

LEMMA ImportRegisters ==
  ASSUME NEW p \in Packages, ImportPackage(p)
  PROVE  p.id \in Cap /\ \E v \in Version, g \in Genome : Registers(p.id, v, g)
<1> DEFINE g == [status |-> "UNDER_EVALUATION", body |-> p.body, lineage |-> p.lineage,
                 lastEvidence |-> p.evidence, climbed |-> 0, granted |-> FALSE]
<1>1. PICK v \in p.version .. MaxVersion : RegisterGenome(p.id, v, g)
  BY DEF ImportPackage
<1>2. /\ p.id \in Cap /\ p.version \in Version /\ p.body \in Body
      /\ p.lineage \in Lineage /\ p.evidence \in Evidence
  BY BodiesAssumption
<1>3. v \in Version
  BY <1>1 DEF RegisterGenome
<1>4. g \in Genome
  BY <1>2, <1>3 DEF Genome, Status
<1>5. Registers(p.id, v, g)
  BY <1>1, <1>3 DEF RegisterGenome, Registers
<1> QED BY <1>2, <1>3, <1>4, <1>5

LEMMA PromoteMoves ==
  ASSUME TypeOK, Climbs, NEW c \in Cap, NEW e \in Evidence, NEW grant \in BOOLEAN,
         Promote(c, e, grant)
  PROVE  \E v \in Version, h \in Genome : Moves(c, v, h)
<1>1. PICK v \in Version :
        LET g == genomes[c][v] IN
        /\ LatestVersion(c, v)
        /\ g.status # "QUARANTINED"
        /\ \/ /\ ~HardGates(g, e, grant)
              /\ genomes' = [genomes EXCEPT ![c][v] = Moved(g, "QUARANTINED")]
           \/ /\ HardGates(g, e, grant)
              /\ g.status # "ACTIVE"
              /\ genomes' = [genomes EXCEPT ![c][v] =
                   [g EXCEPT !.status = FORWARD_STEP[@], !.lastEvidence = e,
                             !.climbed = @ + 1, !.granted = grant]]
  BY DEF Promote
<1> DEFINE g == genomes[c][v]
           h == [g EXCEPT !.status = FORWARD_STEP[@], !.lastEvidence = e,
                          !.climbed = @ + 1, !.granted = grant]
<1>2. Registered(c, v) /\ g.status \notin TERMINAL_STATES
  BY <1>1 DEF LatestVersion, Live
<1>3. g \in Genome /\ Reach(g)
  BY <1>2, RegisteredIsGenome DEF Climbs
<1>4. g.status \in Status
  BY <1>3 DEF Genome
<1>5. CASE genomes' = [genomes EXCEPT ![c][v] = Moved(g, "QUARANTINED")]
  <2>1. "QUARANTINED" \in GENOME_TRANSITIONS[g.status]
    BY <1>1, <1>2, <1>4, QuarantineAllowed
  <2>2. "QUARANTINED" \in Status
    BY DEF Status
  <2>3. Moves(c, v, Moved(g, "QUARANTINED"))
    BY <1>2, <1>3, <1>5, <2>1, <2>2, MovedIsGenome DEF Moves, Reach
  <2> QED BY <1>3, <2>2, <2>3, MovedIsGenome
<1>6. CASE HardGates(g, e, grant) /\ g.status # "ACTIVE" /\ genomes' = [genomes EXCEPT ![c][v] = h]
  <2>1. /\ FORWARD_STEP[g.status] \in Status
        /\ FORWARD_STEP[g.status] \in GENOME_TRANSITIONS[g.status]
    BY <1>1, <1>2, <1>4, <1>6, ForwardAllowed
  <2>2. g.climbed \in 0 .. 4
    BY <1>1, <1>2, <1>3, <1>6 DEF Reach, Genome, Status, TERMINAL_STATES
  <2>3. h \in Genome
    <3>1. g.climbed + 1 \in 0 .. 5
      BY <2>2
    <3> QED BY <1>3, <2>1, <3>1, GenomeRewritten DEF Genome
  <2>4. /\ h.status = FORWARD_STEP[g.status] /\ h.climbed = g.climbed + 1
        /\ h.body = g.body /\ h.lineage = g.lineage
        /\ h.lastEvidence = e /\ h.granted = grant
    BY <1>3 DEF Genome
  <2>5. Reach(h)
    BY <1>1, <1>2, <1>3, <1>6, <2>3, <2>4, ForwardReach
  <2>6. HardGates(h, h.lastEvidence, h.granted)
    BY <1>6, <2>4 DEF HardGates, SafetyGate, ProvenanceGate, DependencyGate, RegressionGate
  <2>7. Moves(c, v, h)
    BY <1>2, <1>6, <2>1, <2>4, <2>5, <2>6 DEF Moves
  <2> QED BY <2>3, <2>7
<1> QED BY <1>1, <1>5, <1>6

LEMMA ReopenMoves ==
  ASSUME TypeOK, NEW c \in Cap, GovernorReopen(c)
  PROVE  \E v \in Version, g \in Genome : Moves(c, v, g)
<1>1. PICK v \in Version :
        /\ LatestVersion(c, v)
        /\ genomes[c][v].status = "QUARANTINED"
        /\ genomes' = [genomes EXCEPT ![c][v] = Moved(@, "UNDER_EVALUATION")]
  BY DEF GovernorReopen
<1> DEFINE h == Moved(genomes[c][v], "UNDER_EVALUATION")
<1>2. Registered(c, v) /\ genomes[c][v] \in Genome
  BY <1>1, RegisteredIsGenome DEF LatestVersion, Live
<1>3. "UNDER_EVALUATION" \in Status /\ "UNDER_EVALUATION" \in GENOME_TRANSITIONS["QUARANTINED"]
  BY DEF Status, GENOME_TRANSITIONS
<1>4. genomes' = [genomes EXCEPT ![c][v] = h]
  BY <1>1, <1>2 DEF TypeOK
<1>5. Moves(c, v, h)
  BY <1>1, <1>2, <1>3, <1>4, MovedIsGenome DEF Moves, Reach
<1> QED BY <1>2, <1>3, <1>5, MovedIsGenome

LEMMA RollbackMoves ==
  ASSUME TypeOK, NEW c \in Cap, RollbackActive(c)
  PROVE  \E v \in Version, g \in Genome : Moves(c, v, g)
<1>1. PICK v \in Version :
        /\ LatestVersion(c, v)
        /\ genomes[c][v].status = "ACTIVE"
        /\ genomes' = [genomes EXCEPT ![c][v] = Moved(@, "ROLLED_BACK")]
  BY DEF RollbackActive
<1> DEFINE h == Moved(genomes[c][v], "ROLLED_BACK")
<1>2. Registered(c, v) /\ genomes[c][v] \in Genome
  BY <1>1, RegisteredIsGenome DEF LatestVersion, Live
<1>3. "ROLLED_BACK" \in Status /\ "ROLLED_BACK" \in GENOME_TRANSITIONS["ACTIVE"]
  BY DEF Status, GENOME_TRANSITIONS
<1>4. genomes' = [genomes EXCEPT ![c][v] = h]
  BY <1>1, <1>2 DEF TypeOK
<1>5. Moves(c, v, h)
  BY <1>1, <1>2, <1>3, <1>4, MovedIsGenome DEF Moves, Reach
<1> QED BY <1>2, <1>3, <1>5, MovedIsGenome

LEMMA StepKinds ==
  ASSUME TypeOK, Climbs, Next
  PROVE  \E c \in Cap, v \in Version, g \in Genome : Registers(c, v, g) \/ Moves(c, v, g)
<1>1. CASE \E c \in Cap : \E b \in Bodies[c] : Observe(c, b)
  BY <1>1, ObserveRegisters
<1>2. CASE \E c \in Cap, e \in Evidence, grant \in BOOLEAN : Promote(c, e, grant)
  BY <1>2, PromoteMoves
<1>3. CASE \E c \in Cap : GovernorReopen(c)
  BY <1>3, ReopenMoves
<1>4. CASE \E c \in Cap : RollbackActive(c)
  BY <1>4, RollbackMoves
<1>5. CASE \E c \in Cap : \E b \in Bodies[c] : DeriveChild(c, b)
  BY <1>5, DeriveRegisters
<1>6. CASE \E p \in Packages : ImportPackage(p)
  BY <1>6, ImportRegisters
<1> QED BY <1>1, <1>2, <1>3, <1>4, <1>5, <1>6 DEF Next

-----------------------------------------------------------------------------
(* The invariant.                                                          *)

(* What a step leaves alone, and what it writes.                           *)
LEMMA StepWrites ==
  ASSUME TypeOK, NEW c \in Cap, NEW v \in Version, NEW g \in Genome,
         Registers(c, v, g) \/ Moves(c, v, g)
  PROVE  /\ genomes' \in [Cap -> [Version -> Genome \union {Absent}]]
         /\ genomes'[c][v] = g
         /\ \A d \in Cap, u \in Version :
              <<d, u>> # <<c, v>> => genomes'[d][u] = genomes[d][u]
         /\ \A d \in Cap, u \in Version : Registered(d, u) => Registered(d, u)'
<1>1. /\ genomes \in [Cap -> [Version -> Genome \union {Absent}]]
      /\ genomes' = [genomes EXCEPT ![c][v] = g]
  BY DEF TypeOK, Registers, Moves
<1>2. g # Absent
  BY DEF Absent, Genome, Status
<1> QED BY <1>1, <1>2 DEF Registered

LEMMA InvStep == GInv /\ [Next]_genomes => GInv'
<1> SUFFICES ASSUME GInv, [Next]_genomes PROVE GInv'
  OBVIOUS
<1> USE DEF GInv
<1>1. CASE UNCHANGED genomes
  BY <1>1 DEF TypeOK, Climbs, ActiveEarnedItHere, Registered, HardGates, SafetyGate,
              ProvenanceGate, DependencyGate, RegressionGate
<1>2. CASE Next
  <2>1. PICK c \in Cap, v \in Version, g \in Genome : Registers(c, v, g) \/ Moves(c, v, g)
    BY <1>2, StepKinds
  <2>2. /\ genomes' \in [Cap -> [Version -> Genome \union {Absent}]]
        /\ genomes'[c][v] = g
        /\ \A d \in Cap, u \in Version :
             <<d, u>> # <<c, v>> => genomes'[d][u] = genomes[d][u]
        /\ \A d \in Cap, u \in Version : Registered(d, u) => Registered(d, u)'
    BY <2>1, StepWrites
  <2>3. Reach(g)
    BY <2>1 DEF Registers, Moves, Reach
  <2>4. TypeOK'
    BY <2>2 DEF TypeOK
  <2>5. Climbs'
    BY <2>2, <2>3 DEF Climbs, Registered
  <2>6. ASSUME NEW d \in Cap, NEW u \in Version, genomes'[d][u].status = "ACTIVE"
        PROVE  \E h \in Genome : /\ genomes'[d][u] = h /\ h.climbed >= 3
                                 /\ HardGates(h, h.lastEvidence, h.granted)'
    <3>1. PICK h \in Genome : /\ genomes'[d][u] = h /\ h.climbed >= 3
                              /\ HardGates(h, h.lastEvidence, h.granted)
      <4>1. CASE <<d, u>> = <<c, v>>
        <5>1. Moves(c, v, g) /\ g.status = "ACTIVE"
          BY <2>1, <2>2, <2>6, <4>1 DEF Registers
        <5> QED BY <2>2, <4>1, <5>1 DEF Moves, Reach
      <4>2. CASE <<d, u>> # <<c, v>>
        <5>1. genomes'[d][u] = genomes[d][u] /\ genomes[d][u].status = "ACTIVE"
          BY <2>2, <2>6, <4>2
        <5>2. Registered(d, u)
          BY <5>1 DEF Registered, Absent
        <5> QED BY <5>1, <5>2, RegisteredIsGenome DEF ActiveEarnedItHere
      <4> QED BY <4>1, <4>2
    <3>2. ProvenanceGate(h)'
      BY <2>2, <3>1 DEF HardGates, ProvenanceGate, Genome, Lineage
    <3>3. DependencyGate(h)'
      BY <2>2, <3>1, BodiesAssumption DEF HardGates, DependencyGate, Genome, Body
    <3>4. SafetyGate(h, h.granted)' /\ RegressionGate(h, h.lastEvidence)'
      BY <3>1 DEF HardGates, SafetyGate, RegressionGate
    <3> QED BY <3>1, <3>2, <3>3, <3>4 DEF HardGates
  <2>7. ActiveEarnedItHere'
    BY <2>6 DEF ActiveEarnedItHere, HardGates, SafetyGate, ProvenanceGate, DependencyGate,
                RegressionGate
  <2> QED BY <2>4, <2>5, <2>7
<1> QED BY <1>1, <1>2

LEMMA InitInv == Init => GInv
BY DEF Init, GInv, TypeOK, Climbs, ActiveEarnedItHere, Registered, Absent

LEMMA Invariance == Spec => []GInv
<1>1. Init => GInv
  BY InitInv
<1>2. GInv /\ [Next]_genomes => GInv'
  BY InvStep
<1> QED BY <1>1, <1>2, PTL DEF Spec

(* Whatever operations run, in any order and with any packages, a key of   *)
(* the registry is free or holds a well-formed genome: no step forward is  *)
(* taken from a status that has none, and no number is given beyond the    *)
(* bound.                                                                  *)
THEOREM TypeCorrect == Spec => []TypeOK
<1>1. GInv => TypeOK
  BY DEF GInv
<1> QED BY <1>1, Invariance, PTL

(* The gates a version has passed on this host fit the status it has: none *)
(* is in the shadow, a canary or active on foreign gates, and none that    *)
(* was derived, imported, quarantined or reopened skips one here.          *)
THEOREM ClimbsCorrect == Spec => []Climbs
<1>1. GInv => Climbs
  BY DEF GInv
<1> QED BY <1>1, Invariance, PTL

(* An active version climbed to it on this host, through gates that still  *)
(* hold, whatever was imported, derived, quarantined or reopened.          *)
THEOREM ActiveCorrect == Spec => []ActiveEarnedItHere
<1>1. GInv => ActiveEarnedItHere
  BY DEF GInv
<1> QED BY <1>1, Invariance, PTL

(* Every step of every operation is one of the published table, and        *)
(* rewrites nothing a version declares.                                    *)
THEOREM TableCorrect == Spec => FollowsTheTable
<1> DEFINE A ==
      \A c \in Cap, v \in Version : genomes'[c][v] # genomes[c][v] =>
        \/ /\ ~Registered(c, v)
           /\ genomes'[c][v].status \in {"OBSERVED", "CANDIDATE", "UNDER_EVALUATION"}
        \/ /\ Registered(c, v)
           /\ genomes'[c][v].status \in GENOME_TRANSITIONS[genomes[c][v].status]
           /\ genomes'[c][v].body = genomes[c][v].body
           /\ genomes'[c][v].lineage = genomes[c][v].lineage
<1>1. GInv /\ [Next]_genomes => [A]_genomes
  <2> SUFFICES ASSUME GInv, Next PROVE A
    OBVIOUS
  <2>1. PICK c \in Cap, v \in Version, g \in Genome : Registers(c, v, g) \/ Moves(c, v, g)
    BY StepKinds DEF GInv
  <2>2. /\ genomes'[c][v] = g
        /\ \A d \in Cap, u \in Version :
             <<d, u>> # <<c, v>> => genomes'[d][u] = genomes[d][u]
    BY <2>1, StepWrites DEF GInv
  <2> QED BY <2>1, <2>2 DEF Registers, Moves
<1> QED BY <1>1, Invariance, PTL DEF Spec, FollowsTheTable
=============================================================================
