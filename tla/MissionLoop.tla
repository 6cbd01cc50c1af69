----------------------------- MODULE MissionLoop -----------------------------
(***************************************************************************)
(* The mission loop: cycles run a crew's seats, their measured outcome is  *)
(* folded into what is known of a seat, and enough evidence proposes a     *)
(* correction of its instructions, which a human accepts or rejects.       *)
(*                                                                         *)
(* A cycle is asked for by the Loop page, a chat or an MCP call; nobody    *)
(* asks whether one is under way already.  The loop's ledger, the          *)
(* evolution store and the crew are kept in localStorage: each handler     *)
(* loads, changes and saves them without giving way, and a cycle gives way *)
(* while its seats run and while its receipt is sealed.                    *)
(*                                                                         *)
(* One crew with one seat.  Instructions are the sequence of corrections   *)
(* appended to what the user wrote; what a run shows against the seat is   *)
(* one weight (the code has a bullet for the outcome and one for the cost).*)
(***************************************************************************)
EXTENDS Integers, Sequences, FiniteSets, SequencesExt

CONSTANTS
  NumCycles,   \* bound: cycles ever asked for
  MaxUnderWay, \* bound: cycles under way at once
  Weights,     \* what a run may weigh against the seat; 0 is no evidence
  Modes,       \* the evolution modes the store may hold
  MinRuns, MinRealRuns, MinWeight, PraiseRuns,   \* TEAM_EVO_CONFIG
  EvidenceCap, \* a seat remembers its newest evidence (8 in the code)
  MaxRatings,  \* bound: ratings ever submitted
  MaxRestarts  \* bound: restarts of the application

ASSUME LoopAssumption ==
  /\ NumCycles \in Nat /\ MaxUnderWay \in Nat /\ Weights \subseteq Nat /\ Modes \subseteq {"OFF", "SUGGEST", "AUTONOMOUS"}
  /\ MinRuns \in Nat /\ MinRealRuns \in Nat /\ MinWeight \in Nat \ {0} /\ PraiseRuns \in Nat
  /\ EvidenceCap \in Nat \ {0} /\ MaxRatings \in Nat /\ MaxRestarts \in Nat

Cycles == 1 .. NumCycles
Rating == {"bad", "fair", "praise"}   \* 1-2, 3 and 4-5

VARIABLES
  cycle,      \* each cycle: where it is or how loopState.cycles records it, its
              \* number, and the instructions it runs with
  running,    \* loopState.running
  crew,       \* the seat's instructions in the saved crew
  mode,       \* the mode the evolution store holds for the crew
  seat,       \* what the store knows of the seat
  candidates, \* the candidate that the fold of each cycle proposed
  ratings, restarts,
  alone,      \* history: no two cycles were ever under way at once
  sincePraise \* history: folds since one that took in praise, that one included

loopVars == <<cycle, running, alone>>
evoVars  == <<mode, seat, candidates, sincePraise>>
bounds   == <<ratings, restarts>>
crewVars == <<loopVars, evoVars, crew, bounds>>

Text == Seq(Cycles)
Evidence == [of : Cycles \union {0}, weight : Nat \ {0}]   \* 0: a human's rating
Cycle ==
  [pc : {"none", "executing", "sealing", "ran", "aborted", "lost"}, no : Nat, text : Text]
Candidate ==
  [status : {"none", "proposed", "accepted", "rejected", "automatic"}, baseline : Text,
   evidence : Seq(Evidence)]
Seat ==
  [runs : 0 .. MinRuns, realRuns : 0 .. MinRealRuns, evidence : Seq(Evidence),
   suppressed : 0 .. PraiseRuns, pending : [Cycles -> Rating \union {"none"}]]

CrewTypeOK ==
  /\ cycle \in [Cycles -> Cycle]
  /\ running \in BOOLEAN /\ alone \in BOOLEAN
  /\ crew \in Text /\ mode \in Modes /\ seat \in Seat
  /\ Len(seat.evidence) <= EvidenceCap
  /\ candidates \in [Cycles -> Candidate]
  /\ ratings \in 0 .. MaxRatings /\ restarts \in 0 .. MaxRestarts
  /\ sincePraise \in 0 .. PraiseRuns + 1

NoCycle == [pc |-> "none", no |-> 0, text |-> <<>>]
NoCandidate == [status |-> "none", baseline |-> <<>>, evidence |-> <<>>]
NewSeat ==
  [runs |-> 0, realRuns |-> 0, evidence |-> <<>>, suppressed |-> 0,
   pending |-> [c \in Cycles |-> "none"]]

UnderWay == {c \in Cycles : cycle[c].pc \in {"executing", "sealing"}}
Recorded == {c \in Cycles : cycle[c].pc \in {"ran", "aborted"}}
IsNext(c) == cycle[c].pc = "none" /\ \A d \in 1 .. c - 1 : cycle[d].pc # "none"

-----------------------------------------------------------------------------
(* runMissionLoopCycle up to the call of the executor.  A cycle is         *)
(* numbered by the length of the ledger it finds.                          *)

\* Mutant: only cycles that ran are counted.
NextNoOfRuns == Cardinality({c \in Cycles : cycle[c].pc = "ran"}) + 1
NextNo == Cardinality(Recorded) + 1

Begin(c, text) ==
  /\ IsNext(c) /\ Cardinality(UnderWay) < MaxUnderWay
  /\ cycle' = [cycle EXCEPT ![c] = [pc |-> "executing", no |-> NextNo, text |-> text]]
  /\ running' = TRUE
  /\ alone' = (alone /\ UnderWay = {})
  /\ UNCHANGED <<evoVars, crew, bounds>>

StartCycle(c) == Begin(c, crew)

(* "Run 3 cycles": the later ones run with the crew the page had when the  *)
(* button was pressed.                                                     *)
Again(c, b) ==
  /\ cycle[b].pc = "ran" /\ cycle[b].text # crew
  /\ Begin(c, cycle[b].text)

(* The end of a cycle: fail() or the record of what ran.                   *)
\* Mutant: an aborted cycle leaves the flag as it is.
EnterLeavesFlag(c, status) ==
  /\ running' = (running /\ status = "aborted")
  /\ cycle' = [cycle EXCEPT ![c].pc = status]
  /\ UNCHANGED <<alone, evoVars, crew, bounds>>
Enter(c, status) ==
  /\ running' = FALSE
  /\ cycle' = [cycle EXCEPT ![c].pc = status]
  /\ UNCHANGED <<alone, evoVars, crew, bounds>>

Abort(c)     == cycle[c].pc = "executing" /\ Enter(c, "aborted")
Record(c)    == cycle[c].pc = "sealing" /\ Enter(c, "ran")
SealFails(c) == cycle[c].pc = "sealing" /\ Enter(c, "aborted")

-----------------------------------------------------------------------------
(* ADAPT: evolveTeamAfterRun folds the run and the queued ratings into the *)
(* store the seat has now.                                                 *)

UpTo(n, cap) == IF n > cap THEN cap ELSE n
NewestEvidence(list) == SubSeq(list, IF Len(list) > EvidenceCap THEN Len(list) - EvidenceCap + 1 ELSE 1, Len(list))
Weight(list) == FoldLeft(LAMBDA sum, e : sum + e.weight, 0, list)
Queued(r) == {c \in Cycles : seat.pending[c] = r}

\* Evidence of the run, then of the ratings that criticise one.
Critics == [i \in 1 .. Cardinality(Queued("bad")) |-> [of |-> 0, weight |-> 2]]
Fresh(c, w) == (IF w > 0 THEN <<[of |-> c, weight |-> w]>> ELSE <<>>) \o Critics

\* Mutant: praise that was queued arms nothing.
SuppressedBefore(c) == IF seat.suppressed > 0 THEN seat.suppressed - 1 ELSE 0
Suppressed(c) ==
  IF Queued("praise") # {} THEN PraiseRuns
  ELSE IF seat.suppressed > 0 THEN seat.suppressed - 1 ELSE 0

Folded(c, w, real) ==
  [runs |-> UpTo(seat.runs + 1, MinRuns),
   realRuns |-> UpTo(seat.realRuns + (IF real THEN 1 ELSE 0), MinRealRuns),
   evidence |-> NewestEvidence(seat.evidence \o Fresh(c, w)),
   suppressed |-> Suppressed(c),
   pending |-> [d \in Cycles |-> "none"]]

\* Mutant: a candidate that waits for its human is not looked at.
DueAgain(f) ==
  /\ mode # "OFF" /\ f.runs >= MinRuns /\ f.realRuns >= MinRealRuns
  /\ Weight(f.evidence) >= MinWeight /\ f.suppressed = 0
Due(f) ==
  /\ mode # "OFF" /\ f.runs >= MinRuns /\ f.realRuns >= MinRealRuns
  /\ Weight(f.evidence) >= MinWeight /\ f.suppressed = 0
  /\ \A d \in Cycles : candidates[d].status # "proposed"

\* Mutant: the evidence stays after it has become a candidate.
KeepsEvidence(f) == f
Spent(f) == [f EXCEPT !.evidence = <<>>]

(* A candidate appends to the instructions the cycle ran with; whether it  *)
(* fits the growth limit decides what AUTONOMOUS does with it.             *)
Adapt(c) ==
  /\ cycle[c].pc = "executing"
  /\ cycle' = [cycle EXCEPT ![c].pc = "sealing"]
  /\ \E w \in Weights, real \in BOOLEAN, passes \in BOOLEAN :
       LET f == Folded(c, w, real) IN
         IF Due(f)
         THEN /\ seat' = Spent(f)
              /\ candidates' = [candidates EXCEPT ![c] =
                   [status |-> IF mode = "AUTONOMOUS" /\ passes THEN "automatic" ELSE "proposed",
                    baseline |-> cycle[c].text, evidence |-> f.evidence]]
         ELSE seat' = f /\ UNCHANGED candidates
  /\ sincePraise' = IF Queued("praise") # {} THEN 1 ELSE UpTo(sincePraise + 1, PraiseRuns + 1)
  /\ UNCHANGED <<running, alone, mode, crew, bounds>>

-----------------------------------------------------------------------------
(* The humans.                                                             *)

(* submitHumanFeedback: one rating of a run is queued, the newest.         *)
Rate(c) ==
  /\ ratings < MaxRatings /\ cycle[c].pc = "ran"
  /\ \E r \in Rating : seat' = [seat EXCEPT !.pending[c] = r]
  /\ ratings' = ratings + 1
  /\ UNCHANGED <<loopVars, mode, candidates, sincePraise, crew, restarts>>

(* decideLoopCandidate, and the page saves the crew it returns.            *)
Corrected(c) == Append(candidates[c].baseline, c)

Accept(c) ==
  /\ candidates[c].status = "proposed"
  /\ candidates' = [candidates EXCEPT ![c].status = "accepted"]
  /\ crew' = Corrected(c)
  /\ UNCHANGED <<loopVars, mode, seat, sincePraise, bounds>>

RejectCandidate(c) ==
  /\ candidates[c].status = "proposed"
  /\ candidates' = [candidates EXCEPT ![c].status = "rejected"]
  /\ UNCHANGED <<loopVars, mode, seat, sincePraise, crew, bounds>>

(* The application stops and is opened again.                              *)
RestartLoop ==
  /\ restarts < MaxRestarts
  /\ restarts' = restarts + 1
  /\ cycle' = [c \in Cycles |-> IF c \in UnderWay THEN [cycle[c] EXCEPT !.pc = "lost"] ELSE cycle[c]]
  /\ UNCHANGED <<running, alone, evoVars, crew, ratings>>

-----------------------------------------------------------------------------
CrewInit ==
  /\ cycle = [c \in Cycles |-> NoCycle]
  /\ running = FALSE /\ alone = TRUE
  /\ crew = <<>> /\ mode \in Modes /\ seat = NewSeat
  /\ candidates = [c \in Cycles |-> NoCandidate]
  /\ ratings = 0 /\ restarts = 0 /\ sincePraise = PraiseRuns + 1

CrewNext ==
  \/ RestartLoop
  \/ \E c \in Cycles :
       \/ StartCycle(c) \/ Abort(c) \/ Adapt(c) \/ Record(c) \/ SealFails(c)
       \/ Rate(c) \/ Accept(c) \/ RejectCandidate(c)
       \/ \E b \in Cycles : Again(c, b)

CrewSpec == CrewInit /\ [][CrewNext]_crewVars

-----------------------------------------------------------------------------
(* As long as cycles do not overlap, the ledger numbers each of them once  *)
(* (an aborted one as well), and the running flag means that one is under  *)
(* way - or was, when the application stopped.                             *)
NumberedOnce == \A c, d \in Recorded : c # d => cycle[c].no # cycle[d].no
FlagIsTrue ==
  /\ UnderWay # {} => running
  /\ running => UnderWay # {} \/ \E c \in Cycles : cycle[c].pc = "lost"
LedgerIsStraight == alone => NumberedOnce /\ FlagIsTrue

(* However cycles overlap, what a run showed against the seat is used      *)
(* once: it is in the evidence the seat still carries, or in that of one   *)
(* candidate, and there is one proposal at a time for the human.           *)
Shown(c, list) == {i \in DOMAIN list : list[i].of = c}
Kept(d) == IF d = 0 THEN seat.evidence ELSE candidates[d].evidence
EvidenceSpentOnce ==
  /\ \A c \in Cycles : \A d, e \in 0 .. NumCycles :
       \A i \in Shown(c, Kept(d)), j \in Shown(c, Kept(e)) : d = e /\ i = j
  /\ \A c, d \in Cycles :
       candidates[c].status = "proposed" /\ candidates[d].status = "proposed" => c = d

(* "Praise suppresses new candidates for the next 3 runs": the fold that   *)
(* takes praise in, and those after it, propose nothing, whatever evidence *)
(* there is.                                                               *)
PraiseHolds ==
  [][\A c \in Cycles :
       candidates[c].status = "none" /\ candidates'[c].status # "none"
         => sincePraise' > PraiseRuns]_crewVars

(* composeSeatCandidate: "nothing already known is ever lost": a correction*)
(* the human accepted stays in the crew's instructions.                    *)
CorrectionsKept ==
  \A c \in Cycles : candidates[c].status = "accepted" => c \in ToSet(crew)
=============================================================================
