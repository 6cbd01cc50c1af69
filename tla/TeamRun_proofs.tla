--------------------------- MODULE TeamRun_proofs ---------------------------
(***************************************************************************)
(* What holds of a team's run for every team, policy, budget, ceiling and  *)
(* set of charges.  TInv is the inductive invariant; each property adds    *)
(* the part it needs: Finished, Trees, Reviews, Permitted or Accounted.    *)
(***************************************************************************)
EXTENDS TeamRun, FiniteSetTheorems, TLAPS

Running(s) == at[s] \in {"ask", "cli", "check"}
Closed(w)  == w < wave \/ (w = wave /\ pc # "wave")

(* What a seat is at agrees with the wave that is open, and with what is   *)
(* in its record.                                                          *)
Waiting ==
  /\ pc = "setup" => wave = 0
  /\ pc = "wave" => ~waveFailed
  /\ \A s \in Seats :
       /\ Running(s) => pc = "wave" /\ WaveOf(s) = wave
       /\ WaveOf(s) > wave => at[s] = "idle"
       /\ at[s] # "done" => outcome[s] = "none"

(* Only writers commit; what is committed was committed when its wave was  *)
(* closed, and then all of it was.                                         *)
Commits ==
  \A s \in Seats :
    /\ work[s].commit => s \in Writers /\ outcome[s] = "completed"
    /\ s \in committed <=> work[s].commit /\ Closed(WaveOf(s))

TInv == TypeOK /\ Waiting /\ Commits

(* Until a wave fails, each wave that is closed has a seat that completed. *)
Finished ==
  ~waveFailed => \A w \in Waves : Closed(w) => InWave(w) \intersect Completed # {}

(* A seat that was given a try is in a tree of its own, or will be refused *)
(* because it has none; a reviewer looks at all that is committed.         *)
Trees ==
  /\ pc \in {"next", "wave"} => Writers \subseteq worktrees \union setupFailed
  /\ Writers # {} => \A s \in Seats : at[s] = "ask" /\ s \notin setupFailed =>
       s \in worktrees /\ (s \in Deferred => sees[s] = committed)

(* When waves are not flattened, reviewers run in the third wave, where    *)
(* nobody writes.                                                          *)
Reviews ==
  ~req.serial => \A s \in Deferred : Running(s) \/ outcome[s] = "completed" =>
    WaveOf(s) = 3 /\ wave = 3 /\ sees[s] = committed

(* What the turns under way may still cost is accounted for.               *)
Calling == {s \in Seats : at[s] = "cli"}
Accounted ==
  \A dearest \in Charges : (\A c \in Charges : c <= dearest) =>
    \E w \in Waves :
      spent + dearest * Cardinality(Calling) < MaxCostUsd + dearest * Cardinality(InWave(w))

(* A merge is under way, or was, only if it was allowed.                   *)
Permitted ==
  /\ merged # {} => pc \in {"merging", "over"}
  /\ pc = "merging" \/ merged # {} => Allowed \/ Overridden

-----------------------------------------------------------------------------
(* The team does not change, and what is said of its seats does not.       *)
LEMMA TeamStays ==
  ASSUME req' = req
  PROVE  /\ Seats' = Seats /\ Writers' = Writers /\ Deferred' = Deferred
         /\ Waves' = Waves /\ Verifiers' = Verifiers /\ GateWriters' = GateWriters
         /\ \A s : WaveOf(s)' = WaveOf(s)
         /\ \A w : InWave(w)' = InWave(w)
BY DEF Seats, Writers, Deferred, Waves, Verifiers, GateWriters, WaveOf, InWave

LEMMA TeamShape ==
  ASSUME TypeOK
  PROVE  /\ Seats = 1 .. Len(req.seats) /\ Len(req.seats) \in Nat \ {0}
         /\ \A s \in Seats : req.seats[s] \in SeatSpec /\ WaveOf(s) \in Nat \ {0}
         /\ Waves \subseteq Nat \ {0} /\ Waves # {}
         /\ Writers \subseteq Seats /\ Deferred \subseteq Seats
         /\ Writers \intersect Deferred = {}
         /\ \A w : InWave(w) \subseteq Seats /\ InWave(w) = {s \in Seats : WaveOf(s) = w}
         /\ \A s \in Seats : WaveOf(s) \in Waves
<1>1. req.seats \in Seq(SeatSpec) /\ req.seats # <<>> /\ req.serial \in BOOLEAN
  BY RequestsAssumption DEF TypeOK
<1>2. Seats = 1 .. Len(req.seats) /\ Len(req.seats) \in Nat \ {0}
  BY <1>1 DEF Seats
<1>3. \A s \in Seats : req.seats[s] \in SeatSpec
  BY <1>1, <1>2
<1>4. \A s \in Seats : WaveOf(s) \in Nat \ {0}
  BY <1>2 DEF WaveOf
<1>5. Waves \subseteq Nat \ {0} /\ Waves # {} /\ \A s \in Seats : WaveOf(s) \in Waves
  <2>1. 1 \in Seats
    BY <1>2
  <2> QED
    BY <2>1, <1>4 DEF Waves
<1>6. /\ Writers \subseteq Seats /\ Deferred \subseteq Seats
      /\ Writers \intersect Deferred = {}
  BY DEF Writers, Deferred
<1>7. \A w : InWave(w) \subseteq Seats /\ InWave(w) = {s \in Seats : WaveOf(s) = w}
  BY DEF InWave
<1> QED
  BY <1>2, <1>3, <1>4, <1>5, <1>6, <1>7

LEMMA InitTInv == Init => TInv
<1> SUFFICES ASSUME Init PROVE TInv
  OBVIOUS
<1>1. TypeOK
  BY DEF Init, TypeOK, PC, Outcome, Work, NoWork, NoSnapshot
<1>2. Waiting
  BY DEF Init, Waiting, Running
<1>3. Commits
  BY <1>1, TeamShape DEF Init, Commits, Closed, NoWork
<1> QED
  BY <1>1, <1>2, <1>3 DEF TInv

-----------------------------------------------------------------------------
(* Every step keeps the team.                                              *)
LEMMA ReqStays == [Next]_vars => req' = req
BY DEF Next, Execute, Merge, Decide, Done, Refuse, Prepare, CloseWave, Report, WaveStep, SeatStep,
       SkipWave, OpenWave, NothingToReview, SnapshotFails, SnapshotBuilt, Open,
       Blocked, OverBudget, Invoke, TimesOut, Returns, Completes, Seat,
       MergeRefused, MergeStarts, MergeFails, CleanUp, MergeBranch,
       vars, waveVars, treeVars, seatVars, gateVars

LEMMA StepType ==
  ASSUME TInv, [Next]_vars
  PROVE  TypeOK'
<1> USE DEF TInv, PC, Outcome
<1>0. TypeOK /\ req' = req
  BY ReqStays
<1>1. CASE Refuse
  BY <1>0, <1>1, TeamStays DEF TypeOK, Refuse, waveVars, treeVars, seatVars, gateVars
<1>2. CASE Prepare
  BY <1>0, <1>2, TeamStays, TeamShape DEF TypeOK, Prepare, waveVars, seatVars, gateVars
<1>3. CASE CloseWave
  <2>1. committed' \subseteq Writers
    BY <1>0, <1>3, TeamShape DEF TypeOK, CloseWave, Commits
  <2> QED
    BY <1>0, <1>3, <2>1, TeamStays DEF TypeOK, CloseWave, treeVars, seatVars, gateVars, BudgetGone
<1>4. CASE Report
  BY <1>0, <1>4, TeamStays DEF TypeOK, Report, waveVars, treeVars, seatVars
<1>5. CASE Decide
  BY <1>0, <1>5, TeamStays DEF TypeOK, Decide, waveVars, treeVars, seatVars
<1>6. CASE MergeRefused \/ MergeStarts
  BY <1>0, <1>6, TeamStays DEF TypeOK, MergeRefused, MergeStarts, waveVars, treeVars, seatVars, gateVars
<1>7. CASE MergeFails
  BY <1>0, <1>7, TeamStays DEF TypeOK, MergeFails, waveVars, seatVars, gateVars
<1>8. CASE CleanUp
  BY <1>0, <1>8, TeamStays DEF TypeOK, CleanUp, waveVars, seatVars, gateVars
<1>9. CASE \E s \in Writers : MergeBranch(s)
  BY <1>0, <1>9, TeamStays DEF TypeOK, MergeBranch, Mergeable, waveVars, seatVars
<1>10. CASE Done \/ UNCHANGED vars
  BY <1>0, <1>10, TeamStays DEF TypeOK, Done, vars, waveVars, treeVars, seatVars, gateVars
<1>11. ASSUME NEW w \in Waves, SkipWave(w)
       PROVE  TypeOK'
  BY <1>0, <1>11, TeamStays, TeamShape DEF TypeOK, SkipWave, treeVars, gateVars
<1>12. ASSUME NEW w \in Waves, NEW ran, Open(w, ran),
              /\ setupFailed' \subseteq Seats /\ worktrees' \subseteq Seats
              /\ head' \in {"base", "review"} /\ sees' \in [Seats -> SUBSET Writers]
              /\ snapshot' \in [built : BOOLEAN, sha : BOOLEAN, of : SUBSET Writers]
       PROVE  TypeOK'
  BY <1>0, <1>12, TeamStays, TeamShape DEF TypeOK, Open, gateVars
<1>13. ASSUME NEW w \in Waves, OpenWave(w) \/ NothingToReview(w)
       PROVE  TypeOK'
  <2>1. NoSnapshot \in [built : BOOLEAN, sha : BOOLEAN, of : SUBSET Writers]
    BY DEF NoSnapshot
  <2>2. \E ran : Open(w, ran)
    BY <1>13 DEF OpenWave, NothingToReview
  <2>3. /\ setupFailed' = setupFailed /\ worktrees' = worktrees /\ head' = head /\ sees' = sees
        /\ snapshot' \in {snapshot, NoSnapshot}
    BY <1>13 DEF OpenWave, NothingToReview
  <2> QED
    BY <1>0, <1>12, <2>1, <2>2, <2>3 DEF TypeOK
<1>14. ASSUME NEW w \in Waves, SnapshotFails(w)
       PROVE  TypeOK'
  BY <1>0, <1>12, <1>14, TeamShape DEF TypeOK, SnapshotFails, Pending
<1>15. ASSUME NEW w \in Waves, SnapshotBuilt(w)
       PROVE  TypeOK'
  <2>1. worktrees' \subseteq Seats /\ setupFailed' \subseteq Seats /\ head' = "base"
    BY <1>0, <1>15, TeamShape DEF TypeOK, SnapshotBuilt, Pending
  <2>2. snapshot' \in [built : BOOLEAN, sha : BOOLEAN, of : SUBSET Writers]
    BY <1>0, <1>15 DEF TypeOK, SnapshotBuilt
  <2>3. sees' \in [Seats -> SUBSET Writers]
    BY <1>0, <1>15 DEF TypeOK, SnapshotBuilt
  <2>4. Open(w, InWave(w))
    BY <1>15 DEF SnapshotBuilt
  <2> QED
    BY <1>0, <1>12, <2>1, <2>2, <2>3, <2>4
<1>16. ASSUME NEW s \in Seats, NEW from,
              NEW to \in {"cli", "check", "done"}, NEW result \in Outcome, Seat(s, from, to, result),
              work' \in [Seats -> Work], spent' \in Nat
       PROVE  TypeOK'
  BY <1>0, <1>16, TeamStays DEF TypeOK, Seat, waveVars, treeVars, gateVars
<1>17. ASSUME NEW s \in Seats, SeatStep(s)
       PROVE  TypeOK'
  BY <1>0, <1>16, <1>17, CostsAssumption
     DEF TypeOK, SeatStep, Blocked, OverBudget, Invoke, TimesOut, Returns, Completes, Left
<1> QED
  BY <1>1, <1>2, <1>3, <1>4, <1>5, <1>6, <1>7, <1>8, <1>9, <1>10, <1>11, <1>13, <1>14, <1>15, <1>17
     DEF Next, Execute, Merge, WaveStep

-----------------------------------------------------------------------------
(* The steps by what they do to the waves and the seats; Quiet are those   *)
(* before the first wave and after the last.                               *)
Quiet ==
  /\ UNCHANGED <<req, waveVars, seatVars>>
  /\ pc' = pc \/ (pc # "wave" /\ pc' \notin {"setup", "wave"})
Skips == \E w \in Waves : SkipWave(w)
Opens == \E w \in Waves : \E ran \in SUBSET InWave(w) : Open(w, ran)
Moves == \E s \in Seats : SeatStep(s)

LEMMA Kinds ==
  ASSUME TInv, [Next]_vars
  PROVE  Quiet \/ CloseWave \/ Skips \/ Opens \/ Moves
<1>1. CASE Refuse \/ Prepare \/ Report \/ Decide \/ Done \/ UNCHANGED vars
  BY <1>1 DEF Quiet, Refuse, Prepare, Report, Decide, Done, vars, waveVars, seatVars
<1>2. CASE Merge
  BY <1>2 DEF Quiet, Merge, MergeRefused, MergeStarts, MergeFails, CleanUp, MergeBranch
<1>3. ASSUME NEW w \in Waves, WaveStep(w)
      PROVE  Skips \/ Opens
  <2>1. CASE SkipWave(w)
    BY <2>1 DEF Skips
  <2>2. CASE OpenWave(w) \/ SnapshotBuilt(w)
    BY <2>2 DEF Opens, OpenWave, SnapshotBuilt
  <2>3. CASE NothingToReview(w) \/ SnapshotFails(w)
    <3>1. InWave(w) \ Deferred \in SUBSET InWave(w)
      OBVIOUS
    <3> QED
      BY <2>3, <3>1 DEF Opens, NothingToReview, SnapshotFails
  <2> QED
    BY <1>3, <2>1, <2>2, <2>3 DEF WaveStep
<1> QED
  BY <1>1, <1>2, <1>3 DEF Next, Execute, Moves

(* No seat of a wave that is not open yet has a record, and none is        *)
(* running between two waves.                                              *)
LEMMA Ahead ==
  ASSUME TInv
  PROVE  /\ pc # "wave" => \A s \in Seats : ~Running(s)
         /\ \A w : IsNext(w) => \A s \in Seats :
              /\ WaveOf(s) >= w \/ WaveOf(s) <= wave
              /\ s \in InWave(w) => outcome[s] = "none" /\ ~work[s].commit /\ s \notin committed
BY TeamShape DEF TInv, Waiting, Commits, IsNext, TypeOK

LEMMA SeatSteps ==
  ASSUME NEW s \in Seats, SeatStep(s)
  PROVE  \E to \in {"cli", "check", "done"}, result \in Outcome :
           /\ pc = "wave" /\ Running(s)
           /\ UNCHANGED <<req, pc, waveVars, treeVars, snapshot, sees, gateVars>>
           /\ at' = [at EXCEPT ![s] = to]
           /\ outcome' = [outcome EXCEPT ![s] = result]
           /\ to # "done" => result = "none"
           /\ \/ result = "completed" /\ \E k \in Left(s) : work' = [work EXCEPT ![s] = k]
              \/ result # "completed" /\ work' = work
<1> USE DEF Seat, Running, Outcome
<1>1. CASE Blocked(s) \/ OverBudget(s) \/ Invoke(s) \/ TimesOut(s)
  BY <1>1 DEF Blocked, OverBudget, Invoke, TimesOut
<1>2. CASE Returns(s)
  BY <1>2 DEF Returns
<1>3. CASE Completes(s)
  BY <1>3 DEF Completes
<1> QED
  BY <1>1, <1>2, <1>3 DEF SeatStep

LEMMA StepWaiting ==
  ASSUME TInv, [Next]_vars
  PROVE  Waiting'
<1> USE DEF Waiting, Running
<1>0. /\ TypeOK /\ Waiting /\ req' = req
      /\ Seats' = Seats /\ \A s : WaveOf(s)' = WaveOf(s)
  BY ReqStays, TeamStays DEF TInv
<1>1. CASE Quiet
  BY <1>0, <1>1 DEF Quiet, waveVars, seatVars
<1>2. CASE CloseWave
  BY <1>0, <1>2, TeamShape DEF CloseWave, seatVars
<1>3. CASE Skips
  BY <1>0, <1>3, TeamShape DEF Skips, SkipWave, IsNext, TypeOK
<1>4. CASE Opens
  BY <1>0, <1>4, TeamShape DEF Opens, Open, IsNext, TypeOK
<1>5. ASSUME NEW s \in Seats, SeatStep(s)
      PROVE  Waiting'
  BY <1>0, <1>5, SeatSteps DEF TypeOK, waveVars
<1> QED
  BY <1>1, <1>2, <1>3, <1>4, <1>5, Kinds DEF Moves

LEMMA StepCommits ==
  ASSUME TInv, [Next]_vars
  PROVE  Commits'
<1> USE DEF Commits, Closed
<1>0. /\ TypeOK /\ Waiting /\ Commits /\ req' = req
      /\ Seats' = Seats /\ Writers' = Writers /\ \A s : WaveOf(s)' = WaveOf(s)
  BY ReqStays, TeamStays DEF TInv
<1>1. CASE Quiet
  BY <1>0, <1>1 DEF Quiet, waveVars, seatVars
<1>2. CASE CloseWave
  BY <1>0, <1>2, TeamShape DEF CloseWave, seatVars, Completed, TypeOK
<1>3. ASSUME NEW w \in Waves, SkipWave(w)
      PROVE  Commits'
  <2>1. \A s \in Seats : s \in committed' <=> s \in committed
    BY <1>3 DEF SkipWave
  <2>2. \A s \in Seats : Closed(WaveOf(s))' <=> (Closed(WaveOf(s)) \/ s \in InWave(w))
    BY <1>0, <1>3, TeamShape, Ahead DEF SkipWave, IsNext, TypeOK
  <2> QED
    BY <1>0, <1>3, <2>1, <2>2, Ahead, TeamShape DEF SkipWave, TypeOK
<1>4. ASSUME NEW w \in Waves, NEW ran, Open(w, ran)
      PROVE  Commits'
  <2>1. \A s \in Seats : s \in committed' <=> s \in committed
    BY <1>4 DEF Open
  <2>2. \A s \in Seats : Closed(WaveOf(s))' <=> Closed(WaveOf(s))
    <3>1. pc = "next" /\ pc' = "wave" /\ wave' = w /\ w > wave /\ w \in Nat /\ wave \in Nat
      BY <1>0, <1>4, TeamShape DEF Open, IsNext, TypeOK
    <3>2. \A s \in Seats : WaveOf(s) \in Nat /\ (WaveOf(s) >= w \/ WaveOf(s) <= wave)
      BY <1>4, TeamShape, <1>0, Ahead DEF Open
    <3> QED
      BY <1>0, <3>1, <3>2
  <2> QED
    BY <1>0, <1>4, <2>1, <2>2, Ahead, TeamShape DEF Open, TypeOK
<1>5. ASSUME NEW s \in Seats, SeatStep(s)
      PROVE  Commits'
  <2>1. /\ outcome[s] = "none" /\ ~work[s].commit /\ s \notin committed /\ WaveOf(s) = wave
        /\ pc = "wave" /\ UNCHANGED <<pc, wave, committed>>
    BY <1>0, <1>5, SeatSteps DEF Waiting, Running, waveVars
  <2>2. work'[s].commit => s \in Writers /\ outcome'[s] = "completed"
    BY <1>0, <1>5, <2>1, SeatSteps DEF Left, TypeOK
  <2>3. \A r \in Seats \ {s} : work'[r] = work[r] /\ outcome'[r] = outcome[r]
    BY <1>0, <1>5, SeatSteps DEF TypeOK
  <2>4. \A r \in Seats : Closed(WaveOf(r))' <=> Closed(WaveOf(r))
    BY <1>0, <2>1
  <2>5. ~Closed(WaveOf(s))
    BY <1>0, <2>1, TeamShape DEF TypeOK
  <2>6. \A r \in Seats :
          /\ work'[r].commit => r \in Writers /\ outcome'[r] = "completed"
          /\ r \in committed <=> work'[r].commit /\ Closed(WaveOf(r))
    <3> HIDE DEF Closed
    <3> QED
      BY <1>0, <2>1, <2>2, <2>3, <2>5
  <2> QED
    BY <1>0, <2>1, <2>4, <2>6
<1> QED
  BY <1>1, <1>2, <1>3, <1>4, <1>5, Kinds DEF Skips, Opens, Moves

LEMMA StepTInv == TInv /\ [Next]_vars => TInv'
BY StepType, StepWaiting, StepCommits DEF TInv

(* Every variable keeps its type, for every team, policy, budget and       *)
(* ceiling.                                                                *)
THEOREM TypeCorrect == Spec => []TypeOK
<1>1. TInv => TypeOK
  BY DEF TInv
<1> QED
  BY InitTInv, StepTInv, <1>1, PTL DEF Spec

-----------------------------------------------------------------------------
(* A seat that completed stays so.                                         *)
LEMMA CompletedStays ==
  ASSUME TInv, [Next]_vars
  PROVE  Completed \subseteq Completed'
<1> USE DEF Completed
<1>0. TypeOK /\ Waiting /\ Seats' = Seats
  BY ReqStays, TeamStays DEF TInv
<1>1. CASE Quiet \/ CloseWave
  BY <1>0, <1>1 DEF Quiet, CloseWave, seatVars
<1>2. ASSUME NEW w \in Waves, SkipWave(w) \/ \E ran : Open(w, ran)
      PROVE  Completed \subseteq Completed'
  <2>1. \A s \in Seats : s \notin InWave(w) => outcome'[s] = outcome[s]
    BY <1>2 DEF SkipWave, Open
  <2>2. \A s \in InWave(w) : outcome[s] = "none"
    BY <1>2, Ahead, TeamShape, <1>0 DEF SkipWave, Open
  <2> QED
    BY <1>0, <2>1, <2>2
<1>3. ASSUME NEW s \in Seats, SeatStep(s)
      PROVE  Completed \subseteq Completed'
  BY <1>0, <1>3, SeatSteps DEF Waiting, Running, TypeOK
<1> QED
  BY <1>1, <1>2, <1>3, Kinds DEF Skips, Opens, Moves

LEMMA StepFinished ==
  ASSUME TInv, Finished, [Next]_vars
  PROVE  Finished'
<1>0. /\ TypeOK /\ Waiting /\ Completed \subseteq Completed'
      /\ Waves' = Waves /\ \A w : InWave(w)' = InWave(w)
  BY ReqStays, TeamStays, CompletedStays DEF TInv
<1>1. CASE Quiet
  BY <1>0, <1>1 DEF Quiet, Finished, Closed, waveVars
<1>2. CASE CloseWave
  <2>1. /\ ~waveFailed /\ wave' = wave /\ pc = "wave" /\ Completed' = Completed
        /\ ~waveFailed' => InWave(wave) \intersect Completed # {}
    BY <1>0, <1>2, TeamStays DEF CloseWave, Waiting, seatVars, Completed
  <2>2. \A v \in Waves : Closed(v)' => Closed(v) \/ v = wave
    BY <1>0, <2>1, TeamShape DEF Closed, TypeOK
  <2> QED
    BY <1>0, <2>1, <2>2 DEF Finished
<1>3. CASE Skips
  BY <1>3 DEF Skips, SkipWave, Finished
<1>4. ASSUME NEW w \in Waves, NEW ran, Open(w, ran)
      PROVE  Finished'
  <2>1. \A v \in Waves : Closed(v)' => Closed(v)
    BY <1>0, <1>4, TeamShape DEF Open, IsNext, Closed, TypeOK
  <2> QED
    BY <1>0, <1>4, <2>1 DEF Open, Finished
<1>5. CASE Moves
  BY <1>0, <1>5, SeatSteps DEF Moves, Finished, Closed, waveVars
<1> QED
  BY <1>1, <1>2, <1>3, <1>4, <1>5, Kinds DEF Opens

LEMMA StepRuns ==
  ASSUME TInv, Finished, RunsOnFinishedWork, [Next]_vars
  PROVE  RunsOnFinishedWork'
<1>0. /\ TypeOK /\ Waiting /\ Completed \subseteq Completed' /\ Seats' = Seats
      /\ Waves' = Waves /\ (\A w : InWave(w)' = InWave(w)) /\ \A s : WaveOf(s)' = WaveOf(s)
  BY ReqStays, TeamStays, CompletedStays DEF TInv
<1>1. SUFFICES ASSUME NEW s \in Seats, at'[s] \in {"cli", "check"} \/ outcome'[s] = "completed",
                      ~(at[s] \in {"cli", "check"} \/ outcome[s] = "completed")
               PROVE  at[s] = "ask" /\ SeatStep(s)
  <2>1. ASSUME NEW s \in Seats, at'[s] \in {"cli", "check"} \/ outcome'[s] = "completed"
        PROVE  \A w \in Waves : w < WaveOf(s) => InWave(w) \intersect Completed # {}
    <3>1. CASE at[s] \in {"cli", "check"} \/ outcome[s] = "completed"
      BY <3>1 DEF RunsOnFinishedWork
    <3>2. CASE at[s] = "ask" /\ SeatStep(s)
      BY <1>0, <3>2, TeamShape DEF Waiting, Running, Finished, Closed, TypeOK
    <3> QED
      BY <1>1, <2>1, <3>1, <3>2
  <2> QED
    BY <1>0, <2>1 DEF RunsOnFinishedWork
<1>2. CASE Quiet \/ CloseWave
  BY <1>1, <1>2 DEF Quiet, CloseWave, seatVars
<1>3. CASE Skips \/ Opens
  BY <1>0, <1>1, <1>3 DEF Skips, Opens, SkipWave, Open
<1>4. ASSUME NEW r \in Seats, SeatStep(r)
      PROVE  at[s] = "ask" /\ SeatStep(s)
  <2>1. r = s
    BY <1>0, <1>1, <1>4, SeatSteps DEF TypeOK
  <2> QED
    BY <1>1, <1>4, <2>1, SeatSteps DEF Running
<1> QED
  BY <1>2, <1>3, <1>4, Kinds DEF Moves

(* A wave that failed stops what would build on it.                        *)
THEOREM RunsCorrect == Spec => []RunsOnFinishedWork
<1>1. Init => Finished /\ RunsOnFinishedWork
  BY InitTInv, TeamShape DEF Init, Finished, RunsOnFinishedWork, Closed, TInv
<1>2. TInv /\ Finished /\ RunsOnFinishedWork /\ [Next]_vars => (Finished /\ RunsOnFinishedWork)'
  BY StepFinished, StepRuns
<1> QED
  BY InitTInv, StepTInv, <1>1, <1>2, PTL DEF Spec

-----------------------------------------------------------------------------
LEMMA StepTrees ==
  ASSUME TInv, Trees, [Next]_vars
  PROVE  Trees'
<1> USE DEF Trees
<1>0. /\ TypeOK /\ Waiting /\ Seats' = Seats /\ Writers' = Writers /\ Deferred' = Deferred
      /\ Writers \subseteq Seats
  BY ReqStays, TeamStays, TeamShape DEF TInv
<1>a. ASSUME pc # "wave", NEW s \in Seats
      PROVE  at[s] # "ask"
  BY <1>a, Ahead DEF Running
<1>b. ASSUME pc # "wave", at' = at,
             pc' \in {"next", "wave"} => Writers \subseteq worktrees' \union setupFailed'
      PROVE  Trees'
  BY <1>0, <1>a, <1>b
<1>1. CASE Refuse
  BY <1>b, <1>1 DEF Refuse, seatVars
<1>2. CASE Prepare
  BY <1>b, <1>2 DEF Prepare, seatVars
<1>3. CASE CloseWave
  BY <1>0, <1>3, TeamShape DEF CloseWave, treeVars, seatVars, Waiting, Running
<1>4. CASE Report
  BY <1>b, <1>4 DEF Report, seatVars
<1>5. CASE Decide \/ Done \/ UNCHANGED vars
  BY <1>0, <1>5 DEF Decide, Done, vars, waveVars, treeVars, seatVars
<1>6. CASE Merge
  BY <1>b, <1>6 DEF Merge, MergeRefused, MergeStarts, MergeFails, CleanUp, MergeBranch, seatVars
<1>7. ASSUME NEW w \in Waves, SkipWave(w)
      PROVE  Trees'
  BY <1>0, <1>7 DEF SkipWave, treeVars
<1>8. ASSUME NEW w \in Waves, NEW ran, Open(w, ran), ran \intersect Deferred = {},
             worktrees \union setupFailed \subseteq worktrees' \union setupFailed',
             worktrees \subseteq worktrees'
      PROVE  Trees'
  <2>1. ASSUME NEW s \in Seats, at'[s] = "ask"
        PROVE  s \in ran /\ s \notin Deferred
    <3>1. at[s] # "ask"
      BY <1>a, <1>8 DEF Open
    <3> QED
      BY <1>8, <2>1, <3>1 DEF Open
  <2>2. Writers # {} => \A s \in Seats : s \notin Deferred => s \in Writers
    BY DEF Deferred
  <2> QED
    BY <1>0, <1>8, <2>1, <2>2 DEF Open
<1>9. ASSUME NEW w \in Waves, OpenWave(w) \/ NothingToReview(w)
      PROVE  Trees'
  <2>1. InWave(w) \intersect Deferred = {} \/ NothingToReview(w)
    BY <1>9 DEF OpenWave, Readers
  <2> QED
    BY <1>8, <1>9, <2>1 DEF OpenWave, NothingToReview
<1>10. ASSUME NEW w \in Waves, SnapshotFails(w)
       PROVE  Trees'
  BY <1>8, <1>10 DEF SnapshotFails
<1>11. ASSUME NEW w \in Waves, SnapshotBuilt(w)
       PROVE  Trees'
  <2>1. ASSUME NEW s \in Seats, at'[s] = "ask"
        PROVE  s \in InWave(w)
    <3>1. at[s] # "ask"
      BY <1>a, <1>11 DEF SnapshotBuilt, Open
    <3> QED
      BY <1>11, <2>1, <3>1 DEF SnapshotBuilt, Open
  <2>2. ASSUME NEW s \in Seats, at'[s] = "ask", s \notin setupFailed', s \in Deferred
        PROVE  s \in worktrees' /\ sees'[s] = committed'
    BY <1>0, <1>11, <2>1, <2>2 DEF SnapshotBuilt, Open, Readers, Pending
  <2>3. Writers # {} => \A s \in Seats : s \notin Deferred => s \in Writers
    BY DEF Deferred
  <2>4. pc = "next" /\ worktrees \subseteq worktrees' /\ setupFailed' = setupFailed
    BY <1>11 DEF SnapshotBuilt, Open
  <2> QED
    BY <1>0, <2>1, <2>2, <2>3, <2>4
<1>12. ASSUME NEW s \in Seats, SeatStep(s)
       PROVE  Trees'
  BY <1>0, <1>12, SeatSteps DEF TypeOK, waveVars, treeVars
<1> QED
  BY <1>1, <1>2, <1>3, <1>4, <1>5, <1>6, <1>7, <1>9, <1>10, <1>11, <1>12
     DEF Next, Execute, WaveStep

LEMMA StartsStep ==
  ASSUME TInv, Trees, [Next]_vars, NEW s \in Seats, at[s] = "ask", at'[s] = "cli", Writers # {}
  PROVE  s \in worktrees /\ (s \in Deferred => sees[s] = committed)
<1>0. TypeOK /\ Waiting
  BY DEF TInv
<1>1. CASE Quiet \/ CloseWave
  BY <1>1 DEF Quiet, CloseWave, seatVars
<1>2. CASE Skips \/ Opens
  BY <1>2 DEF Skips, Opens, SkipWave, Open
<1>3. ASSUME NEW r \in Seats, SeatStep(r)
      PROVE  s \notin setupFailed
  <2>1. r = s
    BY <1>0, <1>3, SeatSteps DEF TypeOK
  <2> QED
    BY <1>0, <1>3, <2>1
       DEF SeatStep, Blocked, OverBudget, Invoke, TimesOut, Returns, Completes, Seat, Fit, TypeOK
<1> QED
  BY <1>1, <1>2, <1>3, Kinds DEF Moves, Trees

(* A seat is only started in a tree of its own, a reviewer on all that is  *)
(* committed.                                                              *)
THEOREM StartsCorrect == Spec => StartsInItsOwnTree
<1>1. Init => Trees
  BY DEF Init, Trees
<1>2. TInv /\ Trees /\ [Next]_vars => Trees'
  BY StepTrees
<1>3. TInv /\ Trees /\ [Next]_vars =>
        [\A s \in Seats : at[s] = "ask" /\ at'[s] = "cli" /\ Writers # {} =>
           s \in worktrees /\ (s \in Deferred => sees[s] = committed)]_vars
  BY StartsStep
<1> QED
  BY InitTInv, StepTInv, <1>1, <1>2, <1>3, PTL DEF Spec, StartsInItsOwnTree

-----------------------------------------------------------------------------
(* Without flattening, nobody writes in the third wave, and a read-only    *)
(* seat of a team with writers is in the first or the third.               *)
LEMMA ThreeWaves ==
  ASSUME TypeOK, ~req.serial, NEW s \in Seats
  PROVE  /\ WaveOf(s) \in {1, 2, 3}
         /\ s \in Writers => WaveOf(s) # 3
         /\ s \in Deferred => WaveOf(s) # 2
BY DEF WaveOf, Writers, Deferred

LEMMA StepReviews ==
  ASSUME TInv, Reviews, [Next]_vars
  PROVE  Reviews'
<1>0. /\ TypeOK /\ Waiting /\ Commits /\ req' = req /\ Deferred' = Deferred /\ Deferred \subseteq Seats
      /\ \A s : WaveOf(s)' = WaveOf(s)
  BY ReqStays, TeamStays, TeamShape DEF TInv
<1> SUFFICES ASSUME ~req.serial, NEW s \in Deferred, Running(s)' \/ outcome'[s] = "completed"
             PROVE  WaveOf(s) = 3 /\ wave' = 3 /\ sees'[s] = committed'
  BY <1>0 DEF Reviews
<1>1. s \in Seats
  BY <1>0
<1>2. Running(s) \/ outcome[s] = "completed" => WaveOf(s) = 3 /\ wave = 3 /\ sees[s] = committed
  BY DEF Reviews
<1>3. CASE Quiet
  BY <1>2, <1>3 DEF Quiet, waveVars, seatVars, Running
<1>4. CASE CloseWave
  <2>1. WaveOf(s) = 3 /\ wave = 3 /\ sees[s] = committed
    BY <1>2, <1>4 DEF CloseWave, seatVars, Running
  <2>2. \A r \in InWave(3) : ~work[r].commit
    BY <1>0, ThreeWaves, TeamShape DEF Commits
  <2> QED
    BY <1>4, <2>1, <2>2 DEF CloseWave, seatVars
<1>5. ASSUME NEW w \in Waves, IsNext(w)
      PROVE  /\ outcome[s] # "completed" /\ w \in {1, 2, 3}
             /\ w = 1 => committed = {}
  <2>1. w \in {1, 2, 3} /\ w > wave
    BY <1>0, <1>5, ThreeWaves DEF Waves, IsNext
  <2>2. w = 1 => \A r \in Seats : ~Closed(WaveOf(r))
    BY <1>0, <2>1, TeamShape DEF Closed, TypeOK
  <2>3. w = 1 => committed = {}
    BY <1>0, <2>2, TeamShape DEF Commits, TypeOK
  <2> QED
    BY <1>2, <2>1, <2>3
<1>6. ASSUME NEW w \in Waves, SkipWave(w)
      PROVE  FALSE
  BY <1>0, <1>1, <1>5, <1>6, Ahead DEF SkipWave, Running
<1>7. ASSUME NEW w \in Waves, NEW ran, Open(w, ran)
      PROVE  s \in ran /\ (s \in InWave(w) => w # 2 /\ WaveOf(s) = w)
  <2>1. pc = "next" /\ IsNext(w)
    BY <1>7 DEF Open
  <2>2. ~Running(s) /\ outcome[s] # "completed"
    BY <1>1, <1>5, <2>1, Ahead
  <2>3. s \in ran
    BY <1>1, <1>7, <2>2 DEF Open, Running
  <2> QED
    BY <1>0, <1>1, <2>3, ThreeWaves, TeamShape
<1>8. ASSUME NEW w \in Waves, WaveStep(w)
      PROVE  WaveOf(s) = 3 /\ wave' = 3 /\ sees'[s] = committed'
  <2>1. ~OpenWave(w) /\ ~NothingToReview(w) /\ ~SnapshotFails(w)
    BY <1>7 DEF OpenWave, NothingToReview, SnapshotFails, Readers
  <2>2. SnapshotBuilt(w)
    BY <1>6, <1>8, <2>1 DEF WaveStep
  <2>3. Open(w, InWave(w)) /\ IsNext(w) /\ committed # {}
    BY <2>2 DEF SnapshotBuilt, Open
  <2>4. s \in InWave(w) /\ WaveOf(s) = w /\ w = 3
    BY <1>5, <1>7, <2>3
  <2> QED
    BY <1>1, <2>2, <2>4 DEF SnapshotBuilt, Open, Readers
<1>9. ASSUME NEW r \in Seats, SeatStep(r)
      PROVE  WaveOf(s) = 3 /\ wave' = 3 /\ sees'[s] = committed'
  BY <1>0, <1>1, <1>2, <1>9, SeatSteps DEF Running, TypeOK, waveVars
<1>10. Refuse \/ Prepare \/ Report \/ Decide \/ Merge \/ Done \/ UNCHANGED vars => Quiet
  BY DEF Quiet, Refuse, Prepare, Report, Decide, Done, Merge, MergeRefused, MergeStarts, MergeFails,
         CleanUp, MergeBranch, vars, waveVars, seatVars
<1> QED
  BY <1>3, <1>4, <1>8, <1>9, <1>10 DEF Next, Execute

(* What a reviewer was pointed at is all the work of the run.              *)
THEOREM ReviewersCorrect == Spec => []ReviewersSeeAllWork
<1>1. Init => Reviews
  BY InitTInv, TeamShape DEF Init, Reviews, Running, TInv
<1>2. TInv /\ Reviews /\ [Next]_vars => Reviews'
  BY StepReviews
<1>3. Reviews => ReviewersSeeAllWork
  BY DEF Reviews, ReviewersSeeAllWork, Running
<1> QED
  BY InitTInv, StepTInv, <1>1, <1>2, <1>3, PTL DEF Spec

-----------------------------------------------------------------------------
LEMMA VerdictStays ==
  ASSUME UNCHANGED <<req, snapshot, outcome, sees>>
  PROVE  Allowed' = Allowed
BY DEF Allowed, Passed, CrossVerified, Completed, Counting, OtherVendor, Verifiers, GateWriters,
       Deferred, Writers, Seats

LEMMA StepPermitted ==
  ASSUME TInv, Permitted, [Next]_vars
  PROVE  Permitted'
<1> USE DEF Permitted
<1>1. CASE Execute
  <2>1. pc \in {"setup", "next", "wave"} /\ pc' # "merging" /\ merged' = merged
    BY <1>1 DEF Execute, Refuse, Prepare, CloseWave, Report, WaveStep, SkipWave, OpenWave, NothingToReview,
                SnapshotFails, SnapshotBuilt, Open, SeatStep, Blocked, OverBudget, Invoke, TimesOut,
                Returns, Completes, Seat, gateVars
  <2> QED
    BY <2>1
<1>2. CASE Decide
  BY <1>2, VerdictStays DEF Decide, Overridden, seatVars
<1>3. CASE Merge
  <2>1. Allowed' = Allowed /\ Overridden' = Overridden
    BY <1>3, VerdictStays DEF Merge, MergeRefused, MergeStarts, MergeFails, CleanUp, MergeBranch,
                              Overridden, seatVars, gateVars
  <2> QED
    BY <1>3, <2>1 DEF Merge, MergeRefused, MergeStarts, MergeFails, CleanUp, MergeBranch, gateVars
<1>4. CASE Done \/ UNCHANGED vars
  BY <1>4, VerdictStays DEF Done, vars, Overridden, seatVars, gateVars
<1> QED
  BY <1>1, <1>2, <1>3, <1>4 DEF Next

(* In a run that is over, all that completed seats committed was seen by   *)
(* each verifier that counts.                                              *)
LEMMA ReviewOfMerged ==
  ASSUME TInv, Reviews, Permitted
  PROVE  MergedWasReviewed
<1> SUFFICES ASSUME req.policy = "STRICT", ~req.serial, Writers \subseteq GateWriters, ~Overridden,
                    NEW s \in merged, work[s].commit
             PROVE  \E v \in Verifiers \intersect Completed : s \in sees[v] /\ OtherVendor(s, v)
  BY DEF MergedWasReviewed
<1>1. TypeOK /\ Waiting /\ Commits
  BY DEF TInv
<1>2. s \in Writers /\ s \in Seats /\ s \in GateWriters
  BY <1>1, TeamShape DEF TypeOK
<1>3. Completed = Seats /\ CrossVerified /\ pc \in {"merging", "over"}
  BY DEF Permitted, Allowed, Passed
<1>4. PICK v \in Counting : OtherVendor(s, v)
  BY <1>2, <1>3 DEF CrossVerified
<1>5. v \in Verifiers /\ v \in Deferred /\ v \in Completed
  BY <1>1, <1>3, TeamShape DEF Counting
<1>6. sees[v] = committed
  BY <1>5 DEF Reviews, Completed
<1>7. s \in committed
  <2>1. WaveOf(s) <= wave
    BY <1>1, <1>2, TeamShape DEF Waiting, Commits, TypeOK
  <2> QED
    BY <1>1, <1>2, <1>3, <2>1, TeamShape DEF Commits, Closed, TypeOK
<1> QED
  BY <1>4, <1>5, <1>6, <1>7

(* What a strict gate lets through was reviewed by another vendor.         *)
THEOREM MergedCorrect == Spec => []MergedWasReviewed
<1>1. Init => Reviews /\ Permitted
  BY InitTInv, TeamShape DEF Init, Reviews, Permitted, Running, TInv
<1>2. TInv /\ Reviews /\ Permitted /\ [Next]_vars => (Reviews /\ Permitted)'
  BY StepReviews, StepPermitted
<1> QED
  BY InitTInv, StepTInv, <1>1, <1>2, ReviewOfMerged, PTL DEF Spec

-----------------------------------------------------------------------------
LEMMA TimesMonotone ==
  ASSUME NEW d \in Nat, NEW a \in Nat, NEW b \in Nat, a <= b
  PROVE  d * a <= d * b /\ d * a \in Nat /\ d * b \in Nat
<1>1. b - a \in Nat /\ b = a + (b - a)
  OBVIOUS
<1>2. \A x, y \in Nat : d * x \in Nat /\ d * (x + y) = d * x + d * y
  BY SMT
<1>3. d * b = d * a + d * (b - a)
  BY <1>1, <1>2
<1> QED
  BY <1>1, <1>2, <1>3

LEMMA FiniteTeam ==
  ASSUME TypeOK
  PROVE  \A S \in SUBSET Seats : IsFiniteSet(S) /\ Cardinality(S) \in Nat
<1>1. IsFiniteSet(Seats)
  BY TeamShape, FS_Interval
<1> QED
  BY <1>1, FS_Subset, FS_CardinalityType

LEMMA StepAccounted ==
  ASSUME TInv, Accounted, [Next]_vars
  PROVE  Accounted'
<1>0. /\ TypeOK /\ Waiting /\ req' = req /\ Seats' = Seats /\ Waves' = Waves
      /\ \A w : InWave(w)' = InWave(w)
      /\ spent \in Nat /\ MaxCostUsd \in Nat /\ Charges \subseteq Nat
  BY ReqStays, TeamStays, CostsAssumption DEF TInv, TypeOK
<1> SUFFICES ASSUME NEW d \in Charges, \A c \in Charges : c <= d
             PROVE  \E w \in Waves : spent' + d * Cardinality(Calling')
                                       < MaxCostUsd + d * Cardinality(InWave(w))
  <2>1. \A w : Cardinality(InWave(w))' = Cardinality(InWave(w))
    BY <1>0
  <2> QED
    BY <1>0, <2>1 DEF Accounted
<1>1. PICK w \in Waves : spent + d * Cardinality(Calling) < MaxCostUsd + d * Cardinality(InWave(w))
  BY DEF Accounted
<1>2. Calling \subseteq Seats /\ InWave(w) \subseteq Seats /\ d \in Nat
  BY <1>0, TeamShape DEF Calling
<1>3. Cardinality(Calling) \in Nat /\ Cardinality(InWave(w)) \in Nat /\ IsFiniteSet(Calling)
  BY <1>0, <1>2, FiniteTeam
<1>4. ASSUME spent' = spent, Calling' = Calling
      PROVE  \E v \in Waves : spent' + d * Cardinality(Calling') < MaxCostUsd + d * Cardinality(InWave(v))
  BY <1>1, <1>4
<1>5. CASE Quiet \/ CloseWave
  BY <1>0, <1>4, <1>5 DEF Quiet, CloseWave, seatVars, Calling
<1>6. ASSUME NEW v \in Waves, SkipWave(v) \/ \E ran \in SUBSET InWave(v) : Open(v, ran)
      PROVE  Calling' = Calling /\ spent' = spent
  <2>1. pc = "next" /\ spent' = spent
    BY <1>6 DEF SkipWave, Open
  <2>2. \A s \in Seats : at[s] # "cli"
    BY <2>1, Ahead DEF Running
  <2>3. \A s \in Seats : at'[s] # "cli"
    BY <1>6, <2>2 DEF SkipWave, Open
  <2> QED
    BY <1>0, <2>1, <2>2, <2>3 DEF Calling
<1>7. ASSUME NEW s \in Seats, at[s] = "cli", Calling' = Calling \ {s}, spent' \in Nat, spent' <= spent + d
      PROVE  \E v \in Waves : spent' + d * Cardinality(Calling') < MaxCostUsd + d * Cardinality(InWave(v))
  <2>1. s \in Calling
    BY <1>7 DEF Calling
  <2>2. Cardinality(Calling') = Cardinality(Calling) - 1 /\ Cardinality(Calling') \in Nat
    BY <1>3, <1>7, <2>1, FS_RemoveElement, FS_CardinalityType
  <2>3. \A k \in Nat, m \in Nat : m = k - 1 => d * k = d * m + d /\ d * m \in Nat /\ d * k \in Nat
    BY <1>2, SMT
  <2>4. d * Cardinality(Calling) = d * Cardinality(Calling') + d
    BY <1>3, <2>2, <2>3
  <2>5. d * Cardinality(InWave(w)) \in Nat /\ d * Cardinality(Calling') \in Nat
    BY <1>2, <1>3, <2>2, TimesMonotone
  <2> QED
    BY <1>0, <1>1, <1>2, <1>7, <2>4, <2>5
<1>8. ASSUME NEW s \in Seats, Invoke(s)
      PROVE  \E v \in Waves : spent' + d * Cardinality(Calling') < MaxCostUsd + d * Cardinality(InWave(v))
  <2>1. spent' = spent /\ spent < MaxCostUsd
    BY <1>8 DEF Invoke
  <2>2. \A r \in Seats : at'[r] = "cli" => WaveOf(r) = wave /\ wave \in Waves
    BY <1>0, <1>8, TeamShape DEF Invoke, Seat, Waiting, Running, TypeOK
  <2>3. wave \in Waves /\ Calling' \subseteq InWave(wave)
    BY <1>0, <1>8, <2>2, TeamShape DEF Invoke, Seat, Calling, TypeOK
  <2>4. IsFiniteSet(InWave(wave)) /\ Cardinality(InWave(wave)) \in Nat
    BY <1>0, TeamShape, FiniteTeam
  <2>5. Cardinality(Calling') <= Cardinality(InWave(wave)) /\ Cardinality(Calling') \in Nat
    BY <2>3, <2>4, FS_Subset, FS_CardinalityType
  <2>6. /\ d * Cardinality(Calling') <= d * Cardinality(InWave(wave))
        /\ d * Cardinality(Calling') \in Nat /\ d * Cardinality(InWave(wave)) \in Nat
    BY <1>2, <2>4, <2>5, TimesMonotone
  <2> QED
    BY <1>0, <2>1, <2>3, <2>6
<1>9. ASSUME NEW s \in Seats, SeatStep(s)
      PROVE  \E v \in Waves : spent' + d * Cardinality(Calling') < MaxCostUsd + d * Cardinality(InWave(v))
  <2>1. CASE Blocked(s) \/ OverBudget(s) \/ Completes(s)
    <3>1. spent' = spent /\ at[s] # "cli" /\ at' = [at EXCEPT ![s] = "done"]
      BY <2>1 DEF Blocked, OverBudget, Completes, Seat
    <3>2. Calling' = Calling
      BY <1>0, <3>1 DEF Calling, TypeOK
    <3> QED
      BY <1>4, <3>1, <3>2
  <2>2. CASE TimesOut(s) \/ Returns(s)
    <3>1. /\ at[s] = "cli" /\ \E to \in {"check", "done"} : at' = [at EXCEPT ![s] = to]
          /\ spent' = spent \/ \E c \in Charges : spent' = spent + c
      BY <2>2 DEF TimesOut, Returns, Seat
    <3>2. Calling' = Calling \ {s}
      BY <1>0, <3>1 DEF Calling, TypeOK
    <3>3. spent' \in Nat /\ spent' <= spent + d
      BY <1>0, <1>2, <3>1
    <3> QED
      BY <1>7, <3>1, <3>2, <3>3
  <2> QED
    BY <1>8, <1>9, <2>1, <2>2 DEF SeatStep
<1> QED
  BY <1>4, <1>5, <1>6, <1>9, Kinds DEF Skips, Opens, Moves

(* The ceiling is overrun by at most the seats of one wave.                *)
THEOREM SpendCorrect == Spec => []SpendBounded
<1>1. Init => Accounted
  <2> SUFFICES ASSUME Init, NEW d \in Charges
               PROVE  \E w \in Waves : spent + d * Cardinality(Calling) < MaxCostUsd + d * Cardinality(InWave(w))
    BY DEF Accounted
  <2>1. TypeOK
    BY InitTInv DEF TInv
  <2>2. Calling = {} /\ spent = 0
    BY DEF Init, Calling
  <2>3. PICK w \in Waves : InWave(w) \subseteq Seats
    BY <2>1, TeamShape
  <2>4. Cardinality(Calling) = 0 /\ Cardinality(InWave(w)) \in Nat
    BY <2>1, <2>2, <2>3, FiniteTeam, FS_EmptySet
  <2>5. d * 0 <= d * Cardinality(InWave(w)) /\ d * 0 \in Nat /\ d * Cardinality(InWave(w)) \in Nat
    BY <2>4, TimesMonotone, CostsAssumption
  <2> QED
    BY <2>2, <2>4, <2>5, CostsAssumption
<1>2. TInv /\ Accounted /\ [Next]_vars => Accounted'
  BY StepAccounted
<1>3. TInv /\ Accounted => SpendBounded
  <2> SUFFICES ASSUME TInv, Accounted, NEW d \in Charges, \A c \in Charges : c <= d
               PROVE  \E w \in Waves : spent < MaxCostUsd + d * Cardinality(InWave(w))
    BY DEF SpendBounded
  <2>1. PICK w \in Waves : spent + d * Cardinality(Calling) < MaxCostUsd + d * Cardinality(InWave(w))
    BY DEF Accounted
  <2>2. Cardinality(Calling) \in Nat /\ Cardinality(InWave(w)) \in Nat /\ spent \in Nat
    BY TeamShape, FiniteTeam DEF TInv, TypeOK, Calling
  <2>3. d * Cardinality(Calling) \in Nat /\ d * Cardinality(InWave(w)) \in Nat
    BY <2>2, TimesMonotone, CostsAssumption
  <2> QED
    BY <2>1, <2>2, <2>3, CostsAssumption
<1> QED
  BY InitTInv, StepTInv, <1>1, <1>2, <1>3, PTL DEF Spec

=============================================================================
