------------------------------ MODULE TeamRun ------------------------------
(***************************************************************************)
(* One run of a team of coding agents: executeTeam, and the merge of what  *)
(* it left.                                                                *)
(*                                                                         *)
(* Seats run in waves.  A seat that may write has a branch and a worktree  *)
(* of its own; a seat that may not is given a worktree on the review       *)
(* snapshot, the base with the branches committed so far merged into it,   *)
(* which is built in the user's own checkout when its wave opens.  Seats   *)
(* of one wave run at once and share the mission's ledger.  At the end a   *)
(* gate judges the run, a human may be asked, and the branches are merged. *)
(*                                                                         *)
(* A branch is named by the seat that writes it, a snapshot by the         *)
(* branches merged into it.                                                *)
(***************************************************************************)
EXTENDS Integers, Sequences, FiniteSets

CONSTANTS
  Requests,    \* the requests to choose from: seats in team order, serial, policy, budget
  MaxCostUsd,  \* the ceiling of the mission's ledger
  Charges,     \* what a CLI may report a turn has cost; 0 when it names no price
  NoBudget     \* the budget of an authority that is not capped

(* ROLE_ORDER of the merge: what others build on first, then tests and     *)
(* reviews; a planner has no place in it and comes last.                   *)
RoleOrder == <<"architect", "coder", "debugger", "tester", "security", "reviewer",
               "synthesizer", "planner">>
Roles == {RoleOrder[n] : n \in 1 .. 8}
SeatSpec == [role : Roles, harness : STRING, mayWrite : BOOLEAN]

ASSUME RequestsAssumption ==
  \A r \in Requests :
    /\ r.seats \in Seq(SeatSpec) /\ r.seats # <<>>
    /\ r.serial \in BOOLEAN
    /\ r.policy \in {"STRICT", "ADVISORY"}
    /\ r.budget \in (Nat \ {0}) \union {NoBudget}
ASSUME CostsAssumption == MaxCostUsd \in Nat \ {0} /\ Charges \subseteq Nat

VARIABLES
  req,          \* the request
  pc,           \* what executeTeam, then the merge, is at
  wave,         \* the wave that is open, or was last
  missing,      \* seats whose harness is not installed
  setupFailed,  \* seats whose worktree could not be created
  worktrees,    \* seats whose own worktree exists
  head,         \* what the user's checkout has checked out
  at,           \* what each seat is at
  outcome,      \* the outcome in its record
  work,         \* what a completed seat left
  committed,    \* committedBranches
  snapshot,     \* the review snapshot of the report
  sees,         \* the branches in the snapshot a seat was pointed at
  spent,        \* the ledger's spentUsd
  waveFailed,   \* no later wave runs
  approval,     \* the merge's entry in the approval inbox
  merged        \* branches merged into the base

waveVars == <<wave, waveFailed, committed>>
treeVars == <<missing, setupFailed, worktrees, head>>
seatVars == <<at, outcome, work, sees, spent>>
gateVars == <<approval, merged>>
vars == <<req, pc, waveVars, treeVars, snapshot, seatVars, gateVars>>

Seats     == DOMAIN req.seats
Writers   == {s \in Seats : req.seats[s].mayWrite}
Deferred  == IF Writers = {} THEN {} ELSE Seats \ Writers   \* worktree only when its wave opens
Completed == {s \in Seats : outcome[s] = "completed"}

Work == [changed : BOOLEAN, lines : BOOLEAN, commit : BOOLEAN, verified : BOOLEAN]
NoWork == [changed |-> FALSE, lines |-> FALSE, commit |-> FALSE, verified |-> FALSE]
NoSnapshot == [built |-> FALSE, sha |-> FALSE, of |-> {}]

PC == {"setup", "next", "wave", "reported", "merging", "over", "aborted"}
Outcome == {"none", "skipped", "missing", "failed", "blocked_budget", "completed"}

TypeOK ==
  /\ req \in Requests
  /\ pc \in PC
  /\ wave \in Nat
  /\ missing \subseteq Seats /\ setupFailed \subseteq Seats /\ worktrees \subseteq Seats
  /\ head \in {"base", "review"}
  /\ at \in [Seats -> {"idle", "ask", "cli", "check", "done"}]
  /\ outcome \in [Seats -> Outcome]
  /\ work \in [Seats -> Work]
  /\ committed \subseteq Writers
  /\ snapshot \in [built : BOOLEAN, sha : BOOLEAN, of : SUBSET Writers]
  /\ sees \in [Seats -> SUBSET Writers]
  /\ spent \in Nat
  /\ waveFailed \in BOOLEAN
  /\ approval \in {"none", "asked", "approved", "rejected"}
  /\ merged \subseteq Writers

-----------------------------------------------------------------------------
(* The waves: planning, writing, reviewing; or one seat at a time, in the  *)
(* order of the team.                                                      *)

\* Mutant: writing and reviewing share a wave.
WaveOfTwo(s) ==
  IF req.serial THEN s
  ELSE IF req.seats[s].role \in {"planner", "architect"} THEN 1 ELSE 2
WaveOf(s) ==
  IF req.serial THEN s
  ELSE IF req.seats[s].role \in {"planner", "architect"} THEN 1
  ELSE IF req.seats[s].mayWrite THEN 2 ELSE 3

Waves == {WaveOf(s) : s \in Seats}
InWave(w) == {s \in Seats : WaveOf(s) = w}
Readers(w) == InWave(w) \intersect Deferred

IsNext(w) == w > wave /\ \A v \in Waves : v > wave => w <= v

(* The wave w opens and the seats ran are started; the rest of it is not.  *)
(* What is left of the budget is reserved for them in equal shares, which  *)
(* refuses none: a wave opens only while something is left.                *)
Open(w, ran) ==
  /\ pc = "next" /\ ~waveFailed /\ IsNext(w)
  /\ pc' = "wave"
  /\ wave' = w
  /\ at' = [s \in Seats |->
              IF s \in ran THEN "ask" ELSE IF s \in InWave(w) THEN "done" ELSE at[s]]
  /\ outcome' = [s \in Seats |-> IF s \in InWave(w) \ ran THEN "skipped" ELSE outcome[s]]
  /\ UNCHANGED <<req, missing, work, spent, waveFailed, committed, gateVars>>

-----------------------------------------------------------------------------
Init ==
  /\ req \in Requests
  /\ pc = "setup" /\ wave = 0
  /\ missing = {} /\ setupFailed = {} /\ worktrees = {} /\ head = "base"
  /\ at = [s \in Seats |-> "idle"]
  /\ outcome = [s \in Seats |-> "none"]
  /\ work = [s \in Seats |-> NoWork]
  /\ committed = {} /\ snapshot = NoSnapshot
  /\ sees = [s \in Seats |-> {}]
  /\ spent = 0 /\ waveFailed = FALSE
  /\ approval = "none" /\ merged = {}

(* Custody, the action packet or the arena refuse the mission.             *)
Refuse ==
  /\ pc = "setup"
  /\ pc' = "aborted"
  /\ UNCHANGED <<req, waveVars, treeVars, snapshot, seatVars, gateVars>>

(* The writers' worktrees are created, some perhaps not; then the binaries *)
(* are looked up, and a run of which no seat can run is given up.          *)
Prepare ==
  /\ pc = "setup"
  /\ \E broken \in SUBSET Writers, gone \in SUBSET {req.seats[s].harness : s \in Seats} :
       /\ setupFailed' = broken
       /\ worktrees' = Writers \ broken
       /\ missing' = {s \in Seats : req.seats[s].harness \in gone}
       /\ pc' = IF missing' = Seats THEN "aborted" ELSE "next"
  /\ UNCHANGED <<req, waveVars, head, snapshot, seatVars, gateVars>>

(* After a wave that failed, or that used the budget up, none is run.      *)
SkipWave(w) ==
  /\ pc = "next" /\ waveFailed /\ IsNext(w)
  /\ wave' = w
  /\ at' = [s \in Seats |-> IF s \in InWave(w) THEN "done" ELSE at[s]]
  /\ outcome' = [s \in Seats |-> IF s \in InWave(w) THEN "skipped" ELSE outcome[s]]
  /\ UNCHANGED <<req, pc, waveFailed, committed, treeVars, snapshot, work, sees, spent, gateVars>>

(* A wave without read-only seats, or of a team without writers.           *)
OpenWave(w) ==
  /\ Readers(w) = {}
  /\ Open(w, InWave(w))
  /\ UNCHANGED <<setupFailed, worktrees, head, snapshot, sees>>

NothingToReview(w) ==
  /\ Readers(w) # {} /\ committed = {}
  /\ Open(w, InWave(w) \ Deferred)
  /\ snapshot' = NoSnapshot
  /\ UNCHANGED <<setupFailed, worktrees, head, sees>>

(* Every deferred worktree is added, also those of later waves and those   *)
(* that exist; the first that fails ends it.                               *)
Pending == Deferred \ setupFailed

SnapshotFails(w) ==
  /\ Readers(w) # {} /\ committed # {}
  /\ Open(w, InWave(w) \ Deferred)
  /\ snapshot' = [built |-> FALSE, sha |-> FALSE, of |-> committed]
  /\ \/ UNCHANGED <<setupFailed, worktrees, head>>              \* git checkout -B fails
     \/ head' = "review" /\ UNCHANGED <<setupFailed, worktrees>> \* a merge fails
     \/ \E s \in Pending :                                      \* git worktree add fails
          LET before == {r \in Pending : r < s} IN
          /\ before \intersect worktrees = {}
          /\ setupFailed' = setupFailed \union {s}
          /\ worktrees' = worktrees \union before
          /\ head' = "base"
  /\ UNCHANGED sees

SnapshotBuilt(w) ==
  /\ Readers(w) # {} /\ committed # {}
  /\ Pending \intersect worktrees = {}
  /\ Open(w, InWave(w))
  /\ \E known \in BOOLEAN : snapshot' = [built |-> TRUE, sha |-> known, of |-> committed]
  /\ worktrees' = worktrees \union Pending
  /\ head' = "base"
  /\ sees' = [s \in Seats |-> IF s \in Readers(w) THEN committed ELSE sees[s]]
  /\ UNCHANGED setupFailed

-----------------------------------------------------------------------------
(* One seat: runSeat.  No caller asks for a follow-up turn, so a seat has  *)
(* one turn.                                                               *)

\* Mutant: setupFailed is not looked at.
FitIfInstalled(s) == s \notin missing
Fit(s) == s \notin missing \union setupFailed

Seat(s, from, to, result) ==
  /\ pc = "wave" /\ at[s] = from
  /\ at' = [at EXCEPT ![s] = to]
  /\ outcome' = [outcome EXCEPT ![s] = result]
  /\ UNCHANGED <<req, pc, waveVars, treeVars, snapshot, sees, gateVars>>

Blocked(s) ==
  /\ ~Fit(s)
  /\ Seat(s, "ask", "done", IF s \in missing THEN "missing" ELSE "failed")
  /\ UNCHANGED <<work, spent>>

(* The ledger refuses the turn: for its ceiling, or for the wall clock of  *)
(* the mission, which may run out at any time.                             *)
OverBudget(s) ==
  /\ Fit(s)
  /\ Seat(s, "ask", "done", "blocked_budget")
  /\ UNCHANGED <<work, spent>>

\* Mutant: > for >= in the test of the ceiling.
InvokeAtCeiling(s) ==
  /\ Fit(s) /\ spent <= MaxCostUsd
  /\ Seat(s, "ask", "cli", "none")
  /\ UNCHANGED <<work, spent>>
Invoke(s) ==
  /\ Fit(s) /\ spent < MaxCostUsd
  /\ Seat(s, "ask", "cli", "none")
  /\ UNCHANGED <<work, spent>>

(* The deadline wins, or the call throws: nothing is charged, whatever the *)
(* CLI reports later.                                                      *)
TimesOut(s) ==
  /\ Seat(s, "cli", "done", "failed")
  /\ UNCHANGED <<work, spent>>

(* The CLI returns and is charged, whether it succeeded or not.            *)
Returns(s) ==
  /\ \E c \in Charges : spent' = spent + c
  /\ \/ Seat(s, "cli", "check", "none")
     \/ Seat(s, "cli", "done", "failed")
  /\ UNCHANGED work

(* The repository's check is run, the diff is measured before the commit   *)
(* (git diff shows no new files, and may fail), and a writer's work is     *)
(* committed, if git does.                                                 *)
Left(s) ==
  {k \in Work : /\ k.changed => s \in Writers
                /\ k.lines => k.changed
                /\ k.commit => k.changed}

Completes(s) ==
  /\ Seat(s, "check", "done", "completed")
  /\ \E k \in Left(s) : work' = [work EXCEPT ![s] = k]
  /\ UNCHANGED spent

(* All seats of the wave have settled.  Each record carries what the       *)
(* ledger charged for it, so their sum is what is spent.                   *)
BudgetGone == req.budget # NoBudget /\ spent >= req.budget

\* Mutant: only the budget stops the run.
CloseWaveUnchecked ==
  /\ pc = "wave" /\ \A s \in InWave(wave) : at[s] = "done"
  /\ committed' = committed \union {s \in InWave(wave) \intersect Completed : work[s].commit}
  /\ waveFailed' = BudgetGone
  /\ pc' = "next"
  /\ UNCHANGED <<req, wave, treeVars, snapshot, seatVars, gateVars>>
\* Mutant: a seat that did not complete never settles.
CloseWaveCompleted ==
  /\ pc = "wave" /\ InWave(wave) \subseteq Completed
  /\ committed' = committed \union {s \in InWave(wave) : work[s].commit}
  /\ waveFailed' = BudgetGone
  /\ pc' = "next"
  /\ UNCHANGED <<req, wave, treeVars, snapshot, seatVars, gateVars>>
CloseWave ==
  /\ pc = "wave" /\ \A s \in InWave(wave) : at[s] = "done"
  /\ committed' = committed \union {s \in InWave(wave) \intersect Completed : work[s].commit}
  /\ waveFailed' = (BudgetGone \/ InWave(wave) \intersect Completed = {})
  /\ pc' = "next"
  /\ UNCHANGED <<req, wave, treeVars, snapshot, seatVars, gateVars>>

-----------------------------------------------------------------------------
(* The gate.  A verifier counts if it was pointed at the snapshot the      *)
(* report names, and that is known by its sha.                             *)

Verifiers   == {s \in Seats : req.seats[s].role \in {"reviewer", "security", "tester"}}
GateWriters == {s \in Seats : req.seats[s].role \in {"coder", "debugger"}}
Counting    == {v \in Verifiers \intersect Deferred :
                  snapshot.built /\ snapshot.sha /\ sees[v] = snapshot.of}
OtherVendor(s, v) == req.seats[s].harness # req.seats[v].harness

CrossVerified ==
  /\ Verifiers # {}
  /\ \A s \in GateWriters : \E v \in Counting : OtherVendor(s, v)

(* Every seat completed, so no verifier rejected and none was left out.    *)
\* Mutant: the status of the run is not asked for.
PassedIfSeen == CrossVerified
Passed  == Completed = Seats /\ CrossVerified
Allowed == Passed \/ req.policy = "ADVISORY"

Report ==
  /\ pc = "next" /\ \A w \in Waves : w <= wave
  /\ pc' = "reported"
  /\ approval' = IF Allowed THEN "none" ELSE "asked"
  /\ UNCHANGED <<req, waveVars, treeVars, snapshot, seatVars, merged>>

(* Mission Control, at any time after the request.                         *)
Decide ==
  /\ approval = "asked"
  /\ approval' \in {"approved", "rejected"}
  /\ UNCHANGED <<req, pc, waveVars, treeVars, snapshot, seatVars, merged>>

-----------------------------------------------------------------------------
(* The merge: planMerge and executeMergePlan.  The button is there until   *)
(* it has been used once.  No seat's name is taken to begin with "review": *)
(* executeTeam would take its branch for the snapshot and offer no merge.  *)

Mergeable == {s \in Writers : work[s].verified /\ work[s].lines}
Overridden == approval \in {"approved", "rejected"}   \* globalFleet.isDecided

(* The gate, the plan (nothing in it, or too much), or a conflict that     *)
(* merge-tree finds between two of the branches.                           *)
MergeRefused ==
  /\ pc = "reported" /\ Writers # {}
  /\ \/ ~Allowed /\ ~Overridden
     \/ Mergeable = {} \/ Cardinality(Mergeable) >= 2
  /\ pc' = "over"
  /\ UNCHANGED <<req, waveVars, treeVars, snapshot, seatVars, gateVars>>

MergeStarts ==
  /\ pc = "reported"
  /\ Allowed \/ Overridden
  /\ Mergeable # {} /\ Cardinality(Mergeable) <= 4
  /\ pc' = "merging"
  /\ UNCHANGED <<req, waveVars, treeVars, snapshot, seatVars, gateVars>>

(* One branch at a time, in the order of roles; equals, by size.           *)
Rank(s) == CHOOSE n \in 1 .. 8 : RoleOrder[n] = req.seats[s].role

MergeBranch(s) ==
  /\ pc = "merging" /\ s \in Mergeable \ merged
  /\ \A r \in Mergeable \ merged : Rank(s) <= Rank(r)
  /\ merged' = merged \union {s}
  /\ head' = "base"
  /\ UNCHANGED <<req, pc, waveVars, missing, setupFailed, worktrees, snapshot, seatVars, approval>>

(* The checkout of the base fails, or the merge does.                      *)
MergeFails ==
  /\ pc = "merging" /\ Mergeable \ merged # {}
  /\ pc' = "over"
  /\ head' \in {head, "base"}
  /\ UNCHANGED <<req, waveVars, missing, setupFailed, worktrees, snapshot, seatVars, gateVars>>

(* After the last merge: git worktree remove --force, which may fail.      *)
CleanUp ==
  /\ pc = "merging" /\ merged = Mergeable
  /\ \E kept \in SUBSET merged : worktrees' = (worktrees \ merged) \union (kept \intersect worktrees)
  /\ pc' = "over"
  /\ UNCHANGED <<req, waveVars, missing, setupFailed, head, snapshot, seatVars, gateVars>>

(* Nothing is left to do: a run that ended, or one nobody merges.          *)
Done ==
  /\ pc \in {"reported", "over", "aborted"}
  /\ UNCHANGED vars

-----------------------------------------------------------------------------
SeatStep(s) ==
  Blocked(s) \/ OverBudget(s) \/ Invoke(s) \/ TimesOut(s) \/ Returns(s) \/ Completes(s)

WaveStep(w) ==
  SkipWave(w) \/ OpenWave(w) \/ NothingToReview(w) \/ SnapshotFails(w) \/ SnapshotBuilt(w)

Execute ==
  \/ Refuse \/ Prepare \/ CloseWave \/ Report
  \/ \E w \in Waves : WaveStep(w)
  \/ \E s \in Seats : SeatStep(s)

Merge ==
  \/ MergeRefused \/ MergeStarts \/ MergeFails \/ CleanUp
  \/ \E s \in Writers : MergeBranch(s)

Next == Execute \/ Decide \/ Merge \/ Done

Spec == Init /\ [][Next]_vars /\ WF_vars(Execute)

-----------------------------------------------------------------------------
(* A seat of a team with writers is only started in a worktree of its own  *)
(* that exists: a writer never in the user's checkout, and a reviewer only *)
(* on a snapshot of everything committed by then.  (runSeat's refusals of  *)
(* a seat whose setup failed, and the order of the snapshot.)              *)
StartsInItsOwnTree ==
  [][\A s \in Seats :
       at[s] = "ask" /\ at'[s] = "cli" /\ Writers # {} =>
         s \in worktrees /\ (s \in Deferred => sees[s] = committed)]_vars

(* When waves are not flattened, what a reviewer was pointed at is all the *)
(* work of the run: no branch is committed after it looked.                *)
ReviewersSeeAllWork ==
  ~req.serial =>
    \A s \in Deferred : at[s] \in {"cli", "check"} \/ outcome[s] = "completed" =>
      sees[s] = committed

(* A seat only runs if in each earlier wave some seat completed: a wave    *)
(* that failed stops what would build on it.  (waveFailed.)                *)
RunsOnFinishedWork ==
  \A s \in Seats : at[s] \in {"cli", "check"} \/ outcome[s] = "completed" =>
    \A w \in Waves : w < WaveOf(s) => InWave(w) \intersect Completed # {}

(* The ceiling of the ledger is overrun by at most the seats of one wave,  *)
(* that were admitted before any of them was charged.  (CapLedger.)        *)
SpendBounded ==
  \A dearest \in Charges : (\A c \in Charges : c <= dearest) =>
    \E w \in Waves : spent < MaxCostUsd + dearest * Cardinality(InWave(w))

(* Under the strict policy, in a team whose writers are coders and         *)
(* debuggers and whose waves are not flattened, work reaches the base only *)
(* if a verifier of another vendor completed its review of it, or a human  *)
(* decided.  (The gate over the run, through plan and merge.)              *)
MergedWasReviewed ==
  req.policy = "STRICT" /\ ~req.serial /\ Writers \subseteq GateWriters /\ ~Overridden =>
    \A s \in merged : work[s].commit =>
      \E v \in Verifiers \intersect Completed : s \in sees[v] /\ OtherVendor(s, v)

(* The run ends with a report, whatever the seats and git do.  Turns have  *)
(* deadlines, and so do the native calls for git and the checks.           *)
RunEnds == <>(pc \notin {"setup", "next", "wave"})

-----------------------------------------------------------------------------
(* What the code says, and does not keep.                                  *)

(* "An earlier wave did not complete": a seat is only skipped for that     *)
(* after some seat was given a try.                                        *)
SkippedAfterATry ==
  \A s \in Writers : outcome[s] = "skipped" =>
    \E r \in Seats : outcome[r] \notin {"none", "skipped"}

(* "the user recorded an explicit, named override": a merge the gate       *)
(* blocked is done only if the human approved it.                          *)
OverrideMeansApproved ==
  merged # {} /\ ~Allowed => approval = "approved"

(* "clean up only after a full success": a worktree is only removed when   *)
(* what was changed in it is in a commit.                                  *)
CleanUpKeepsWork ==
  \A s \in Writers : pc = "over" /\ work[s].changed /\ s \notin worktrees => work[s].commit

(* "Leaving it there would mean the user's own working copy silently ended *)
(* the run on a branch they never asked for".                              *)
CheckoutRestored == pc = "reported" => head = "base"

(* "An author grading its own work is not a review": MergedWasReviewed for *)
(* every team.                                                             *)
NoWorkUnreviewed ==
  req.policy = "STRICT" /\ ~Overridden =>
    \A s \in merged : work[s].commit =>
      \E v \in Verifiers \intersect Completed : s \in sees[v] /\ OtherVendor(s, v)
=============================================================================
