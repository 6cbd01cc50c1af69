--------------------------- MODULE MissionRuntime ---------------------------
(***************************************************************************)
(* One mission: the loop of MissionRuntime.run over the tasks of the       *)
(* organization, with the approval gate, the repair ladder, the            *)
(* supervisor, checkpoints, and the buttons of the Mission page.           *)
(*                                                                         *)
(* The Run button is shown whenever the mission reads READY, PAUSED or     *)
(* BLOCKED, which it also does while a run is under way, so several loops  *)
(* may work on the same tasks.  A loop gives way only where it awaits a    *)
(* timer, a human or a harness: from there to the next such point it goes  *)
(* through its phases in Sync before anything else happens.                *)
(*                                                                         *)
(* Every task has an agent and an eligible harness, under the default      *)
(* policy (switching the harness is allowed); a task's prompt, artifacts   *)
(* and cost are left out, what evaluate() makes of them is a free choice.  *)
(* cancel() has no caller, and is left out.                                *)
(***************************************************************************)
EXTENDS Integers, Sequences, FiniteSets, FiniteSetsExt, SequencesExt

CONSTANTS
  Task,        \* tasks, numbered in the order of the plan
  Deps,        \* dependsOn of each task
  Gated,       \* tasks whose gate opens a request: a human is needed
  Added,       \* tasks of the steps that a reorganization adds
  Loop,        \* bound: presses of Run, numbered
  MaxRetries,  \* maxRetriesPerTask: attempts and repairs of a task
  MaxVersion,  \* maxGraphMutations
  MayReorganize, \* allowReorganization of the mission's policy
  MaxTurns,    \* the guard of the loop (200 in the code)
  MaxRollbacks, \* bound: how often the user goes back
  MaxBack      \* bound: to one of how many newest checkpoints

ASSUME MissionAssumption ==
  /\ Task \subseteq Nat /\ Added \subseteq Task /\ Gated \subseteq Task \ Added
  /\ Deps \in [Task -> SUBSET Task]
  /\ Loop \subseteq Nat /\ IsFiniteSet(Loop)
  /\ MaxRetries \in 1 .. 3   \* what every template leaves it at: only three rungs are reached
  /\ MaxVersion \in Nat /\ MayReorganize \in BOOLEAN /\ MaxTurns \in Nat
  /\ MaxRollbacks \in Nat /\ MaxBack \in Nat

VARIABLES
  status,     \* mission.status
  planned,    \* the runtime holds a plan
  paused,     \* the runtime's flag
  over,       \* a budget ceiling was passed
  task,       \* the state of each task; NONE before it is created
  attempts,   \* task.attempts, counted as far as anyone asks for
  repairs,    \* repairCount; past MaxRetries the task is exhausted
  advised,    \* tasks the supervisor has raised REPEATED_FAILURE for
  stalled,    \* it has raised STALL
  version,    \* mission.graphVersion
  unverified, \* some artifact's evaluation is not a measured pass
  request,    \* what each loop has asked the human last; REFUSED: rejected or timed out
  checkpoints,
  loop,       \* where each press of Run has come to
  consents,   \* history: approvals of each gated task less those used or lost
  raced,      \* history: Run was pressed while a run was under way
  rollbacks   \* how often the user went back

taskVars  == <<task, attempts, repairs, unverified>>
watchVars == <<advised, stalled, over>>
graphVars == <<version, checkpoints, rollbacks>>
askVars   == <<request, consents>>
pageVars  == <<planned, paused, raced>>
vars == <<status, loop, taskVars, watchVars, graphVars, askVars, pageVars>>

TaskState == {"NONE", "PENDING", "RUNNING", "BLOCKED", "DONE", "FAILED"}
Status == {"DRAFT", "READY", "RUNNING", "PAUSED", "BLOCKED", "COMPLETED"}
Sync == {"top", "rec", "decide", "wave", "enter", "repair", "finish"}
Request == [task : Gated \union {0}, status : {"NONE", "PENDING", "APPROVED", "REFUSED"}]
Checkpoint == [task : [Task -> TaskState], version : Nat]

\* The fields of a loop: its pc and guard, the task it executes or repairs and
\* for whom, whether it holds that task in repairInFlight, what is left of its
\* wave and of its recommendations, whether PAUSE_MISSION is the last of these,
\* and the loops whose requests drainApprovals awaits.
LoopState ==
  [pc : Sync \union {"idle", "turn", "gate", "work", "drain", "over", "dead"},
   turn : 0 .. MaxTurns, job : Task \union {0}, from : {"wave", "rec"}, repairing : BOOLEAN,
   wave : SUBSET Task, recs : SUBSET Task, pausing : BOOLEAN, draining : SUBSET Loop]

TypeOK ==
  /\ status \in Status
  /\ planned \in BOOLEAN /\ paused \in BOOLEAN /\ over \in BOOLEAN
  /\ task \in [Task -> TaskState]
  /\ attempts \in [Task -> Nat] /\ repairs \in [Task -> 0 .. MaxRetries + 1]
  /\ advised \subseteq Task /\ stalled \in BOOLEAN /\ unverified \in BOOLEAN
  /\ version \in Nat /\ rollbacks \in 0 .. MaxRollbacks
  /\ request \in [Loop -> Request] /\ checkpoints \in Seq(Checkpoint)
  /\ loop \in [Loop -> LoopState]
  /\ consents \in [Gated -> Int] /\ raced \in BOOLEAN

-----------------------------------------------------------------------------
(* What the organization and the approvals answer.                         *)

In(states) == {t \in Task : task[t] \in states}
Created == Task \ In({"NONE"})
Met(state, t) == \A d \in Deps[t] : state[d] = "DONE"
DependenciesMet(t) == Met(task, t)
DispatchableWave == {t \in In({"PENDING"}) : DependenciesMet(t)}
IsDone == Created # {} /\ \A t \in Created : task[t] = "DONE"
HasUnrecoverable == \E t \in In({"FAILED"}) : attempts[t] >= MaxRetries
Pending == {l \in Loop : request[l].status = "PENDING"}

Another(n) == IF n < MaxRetries \/ n < 2 THEN n + 1 ELSE n

Live(l) == loop[l].pc \notin {"idle", "over", "dead"}
At(l, where) == loop[l].pc = where
Quiet == \A l \in Loop : loop[l].pc \notin Sync
InFlight == {loop[l].job : l \in {k \in Loop : loop[k].repairing}}

-----------------------------------------------------------------------------
(* Where a loop goes.  A loop that ended or died leaves nothing behind.    *)

Idle == [pc |-> "idle", turn |-> 0, job |-> 0, from |-> "wave", repairing |-> FALSE,
         wave |-> {}, recs |-> {}, pausing |-> FALSE, draining |-> {}]

Goto(l, where) == loop' = [loop EXCEPT ![l].pc = where]
Become(l, state) == loop' = [loop EXCEPT ![l] = state]
Over(l) == Become(l, [Idle EXCEPT !.pc = "over"])
Dies(l) == Become(l, [Idle EXCEPT !.pc = "dead"])

(* executeTask() or repair() returns to the wave or to the recommendation. *)
Return(l) ==
  Become(l, [loop[l] EXCEPT !.pc = loop[l].from, !.job = 0, !.repairing = FALSE])

(* transition(): MISSION_TRANSITIONS, and an exception for the rest, which *)
(* ends the loop that asked for it.  (PLANNING, REPAIRING and VERIFYING    *)
(* are left again before anyone can look.)                                 *)
CanTransition(s) ==
  CASE s = "DRAFT"     -> {"READY"}
    [] s = "READY"     -> {"RUNNING"}
    [] s = "RUNNING"   -> {"PAUSED", "BLOCKED", "REPAIRING", "VERIFYING"}
    [] s = "PAUSED"    -> {"RUNNING", "BLOCKED"}
    [] s = "BLOCKED"   -> {"REPAIRING", "RUNNING", "PAUSED"}
    [] OTHER           -> {}

Legal(to) == status = to \/ to \in CanTransition(status)

Transition(l, to, next) ==
  IF Legal(to) THEN status' = to /\ Become(l, next)
               ELSE Dies(l) /\ UNCHANGED status

(* take().  Only the checkpoints the user may go back to are kept, and one *)
(* of two equal ones in a row: they lead back to the same state.           *)
Snapshot == [task |-> task, version |-> version]
Newest(list) == SubSeq(list, IF Len(list) > MaxBack THEN Len(list) - MaxBack + 1 ELSE 1, Len(list))
Take(snapshot) ==
  checkpoints' =
    IF rollbacks = MaxRollbacks THEN <<>>
    ELSE IF checkpoints # <<>> /\ Last(checkpoints) = snapshot THEN checkpoints
    ELSE Newest(Append(checkpoints, snapshot))

-----------------------------------------------------------------------------
(* run().                                                                  *)

(* The page offers Run; a runtime that was restored holds no plan, makes   *)
(* one, and fails: no status but DRAFT may turn into PLANNING.             *)
Run(l) ==
  /\ Quiet
  /\ At(l, "idle") /\ \A k \in Loop : k < l => ~At(k, "idle")
  /\ status \in {"READY", "PAUSED", "BLOCKED"}
  /\ IF planned
     THEN Goto(l, "top") /\ status' = "RUNNING"
     ELSE Dies(l) /\ UNCHANGED status
  /\ raced' = (raced \/ \E k \in Loop : Live(k))
  /\ UNCHANGED <<planned, paused, taskVars, watchVars, graphVars, askVars>>

(* The head of the loop.                                                   *)
\* Mutant: the turns are not counted.
TopForEver(l) ==
  /\ At(l, "top")
  /\ Goto(l, "turn")
  /\ UNCHANGED <<status, taskVars, watchVars, graphVars, askVars, pageVars>>
Top(l) ==
  /\ At(l, "top")
  /\ IF loop[l].turn = MaxTurns
     THEN Goto(l, "finish")
     ELSE Become(l, [loop[l] EXCEPT !.pc = "turn", !.turn = @ + 1])
  /\ UNCHANGED <<status, taskVars, watchVars, graphVars, askVars, pageVars>>

(* Once not paused: the budget, and what the supervisor recommends: of the *)
(* signals, a task that failed twice is repaired and a stall pauses.       *)
OverBudget(l) ==
  /\ Quiet /\ At(l, "turn") /\ ~paused
  /\ over' = TRUE
  /\ Transition(l, "BLOCKED", [loop[l] EXCEPT !.pc = "finish"])
  /\ UNCHANGED <<advised, stalled, taskVars, graphVars, askVars, pageVars>>

Repeated == {t \in In({"FAILED", "BLOCKED"}) : attempts[t] >= 2} \ advised

Supervise(l) ==
  /\ Quiet /\ At(l, "turn") /\ ~paused /\ ~over
  /\ advised' = advised \union Repeated
  /\ \E stall \in BOOLEAN :
       /\ stall => ~stalled /\ In({"RUNNING", "PENDING"}) # {}
       /\ stalled' = (stalled \/ stall)
       /\ Become(l, [loop[l] EXCEPT !.pc = "rec", !.recs = Repeated, !.pausing = stall])
  /\ UNCHANGED <<status, over, taskVars, graphVars, askVars, pageVars>>

(* executeRecommendation(): SWITCH_HARNESS repairs, PAUSE_MISSION pauses - *)
(* the status, and not the flag that the loop sleeps on.                   *)
Recommended(l) ==
  /\ At(l, "rec") /\ loop[l].recs # {}
  /\ LET t == Min(loop[l].recs) IN
       Become(l, [loop[l] EXCEPT !.pc = "repair", !.recs = @ \ {t}, !.job = t, !.from = "rec"])
  /\ UNCHANGED <<status, taskVars, watchVars, graphVars, askVars, pageVars>>

AllRecommended(l) ==
  /\ At(l, "rec") /\ loop[l].recs = {}
  /\ LET next == [loop[l] EXCEPT !.pc = "decide", !.pausing = FALSE] IN
       IF loop[l].pausing THEN Transition(l, "PAUSED", next)
                          ELSE Become(l, next) /\ UNCHANGED status
  /\ UNCHANGED <<taskVars, watchVars, graphVars, askVars, pageVars>>

(* Is there a wave, and if not, why not?                                   *)
Dispatch(l) ==
  /\ At(l, "decide") /\ ~IsDone /\ DispatchableWave # {}
  /\ Become(l, [loop[l] EXCEPT !.pc = "wave", !.wave = DispatchableWave])
  /\ UNCHANGED <<status, taskVars, watchVars, graphVars, askVars, pageVars>>

Stuck(l) == At(l, "decide") /\ ~IsDone /\ DispatchableWave = {}
Exhausted(l) == Stuck(l) /\ HasUnrecoverable /\ Pending = {}
Unfinished == In({"PENDING", "RUNNING"}) # {}

(* reorganize(): a graph that passes the gates replaces the plan's, and    *)
(* the steps it adds become tasks; one that does not blocks the mission,   *)
(* and the loop goes on all the same.                                      *)
Reorganize(l) ==
  /\ Exhausted(l) /\ MayReorganize /\ version < MaxVersion
  /\ version' = version + 1
  /\ task' = [t \in Task |->
                IF t \in Added /\ task[t] = "NONE" THEN "PENDING" ELSE task[t]]
  /\ Take([task |-> task', version |-> version'])
  /\ Goto(l, "top")
  /\ UNCHANGED <<status, attempts, repairs, unverified, rollbacks, watchVars, askVars, pageVars>>

CannotReorganize(l) ==
  /\ Exhausted(l) /\ MayReorganize /\ version >= MaxVersion
  /\ Transition(l, "BLOCKED", [loop[l] EXCEPT !.pc = "top"])
  /\ UNCHANGED <<taskVars, watchVars, graphVars, askVars, pageVars>>

Await(l) ==
  /\ Stuck(l) /\ ~Exhausted(l) /\ Unfinished /\ Pending # {}
  /\ Transition(l, "BLOCKED", [loop[l] EXCEPT !.pc = "drain", !.draining = Pending])
  /\ UNCHANGED <<taskVars, watchVars, graphVars, askVars, pageVars>>

GiveUp(l) ==
  /\ Stuck(l) /\ IF Exhausted(l) THEN ~MayReorganize ELSE Unfinished /\ Pending = {}
  /\ Transition(l, "BLOCKED", [loop[l] EXCEPT !.pc = "finish"])
  /\ UNCHANGED <<taskVars, watchVars, graphVars, askVars, pageVars>>

NothingLeft(l) ==
  /\ At(l, "decide")
  /\ IsDone \/ (Stuck(l) /\ ~Exhausted(l) /\ ~Unfinished)
  /\ Goto(l, "finish")
  /\ UNCHANGED <<status, taskVars, watchVars, graphVars, askVars, pageVars>>

(* drainApprovals() is over.                                               *)
Drained(l) ==
  /\ Quiet /\ At(l, "drain") /\ loop[l].draining = {}
  /\ Transition(l, "RUNNING", [loop[l] EXCEPT !.pc = "top"])
  /\ UNCHANGED <<taskVars, watchVars, graphVars, askVars, pageVars>>

(* The tasks of a wave, one after the other; what the other loop has done  *)
(* meanwhile is skipped.                                                   *)
NextTask(l) ==
  /\ At(l, "wave") /\ loop[l].wave # {}
  /\ LET t == Min(loop[l].wave)
         rest == [loop[l] EXCEPT !.wave = @ \ {t}] IN
       Become(l, IF task[t] = "DONE" THEN rest
                 ELSE [rest EXCEPT !.pc = "enter", !.job = t, !.from = "wave"])
  /\ UNCHANGED <<status, taskVars, watchVars, graphVars, askVars, pageVars>>

WaveDone(l) ==
  /\ At(l, "wave") /\ loop[l].wave = {}
  /\ Goto(l, "top")
  /\ UNCHANGED <<status, taskVars, watchVars, graphVars, askVars, pageVars>>

-----------------------------------------------------------------------------
(* executeTask().                                                          *)

Job(l) == loop[l].job

(* Up to the first await.  What the task depends on was done when it was   *)
(* dispatched; where runs race it may have failed since, and the task      *)
(* waits for it again.                                                     *)
Postpone(l) ==
  /\ task' = [task EXCEPT ![Job(l)] = "PENDING"]
  /\ Return(l)
  /\ UNCHANGED <<status, attempts, repairs, unverified, watchVars, graphVars, askVars, pageVars>>

(* requestApproval(): every execution asks anew.                           *)
Ask(l) ==
  /\ request' = [request EXCEPT ![l] = [task |-> Job(l), status |-> "PENDING"]]
  /\ Goto(l, "gate")
  /\ UNCHANGED <<status, consents, taskVars, watchVars, graphVars, pageVars>>

(* delegate, then the harness is invoked.                                  *)
Start(l) ==
  /\ task' = [task EXCEPT ![Job(l)] = "RUNNING"]
  /\ Become(l, [loop[l] EXCEPT !.pc = "work"])
  /\ UNCHANGED <<attempts, repairs, unverified>>

ExecuteTask(l) ==
  /\ At(l, "enter")
  /\ IF ~DependenciesMet(Job(l)) THEN Postpone(l)
     ELSE IF Job(l) \in Gated THEN Ask(l)
     ELSE Start(l) /\ UNCHANGED <<status, watchVars, graphVars, askVars, pageVars>>

(* waitFor() resolves.                                                     *)
NoRequest == [task |-> 0, status |-> "NONE"]
Answered(l) ==
  /\ Quiet /\ At(l, "gate") /\ l \notin Pending
  /\ request' = [request EXCEPT ![l] = NoRequest]

(* delegate() looks again, and throws where the human took so long that a  *)
(* dependency is undone: the run ends, and the approval is lost with it.   *)
Approved(l) ==
  /\ Answered(l) /\ request[l].status = "APPROVED"
  /\ Take(Snapshot)
  /\ consents' = [consents EXCEPT ![Job(l)] = @ - 1]
  /\ IF DependenciesMet(Job(l)) THEN Start(l) ELSE Dies(l) /\ UNCHANGED taskVars
  /\ UNCHANGED <<status, version, rollbacks, watchVars, pageVars>>

Refused(l) ==
  /\ Answered(l) /\ request[l].status # "APPROVED"
  /\ task' = [task EXCEPT ![Job(l)] = "BLOCKED"]
  /\ Return(l)
  /\ UNCHANGED <<status, attempts, repairs, unverified, consents, watchVars, graphVars,
                 pageVars>>

(* A request is settled, and every wait for it.                            *)
Settle(l, answer) ==
  /\ request' = [request EXCEPT ![l].status = answer]
  /\ loop' = [k \in Loop |-> [loop[k] EXCEPT !.draining = @ \ {l}]]

(* Silence is no consent: a wait ends by itself, and the request with it.  *)
Waits(l, k) == (At(l, "gate") /\ k = l) \/ (At(l, "drain") /\ k \in loop[l].draining)

\* Mutant: the task gives up and leaves its request open.
TimeOutLeavesOpen(l) ==
  /\ Quiet /\ At(l, "gate") /\ l \in Pending
  /\ task' = [task EXCEPT ![Job(l)] = "BLOCKED"]
  /\ Return(l)
  /\ UNCHANGED <<status, attempts, repairs, unverified, watchVars, graphVars, askVars, pageVars>>
\* Mutant: silence is consent.
TimeOutApproves(l) ==
  /\ Quiet
  /\ \E k \in Pending : Waits(l, k) /\ Settle(k, "APPROVED")
  /\ UNCHANGED <<status, consents, taskVars, watchVars, graphVars, pageVars>>
TimeOut(l) ==
  /\ Quiet
  /\ \E k \in Pending : Waits(l, k) /\ Settle(k, "REFUSED")
  /\ UNCHANGED <<status, consents, taskVars, watchVars, graphVars, pageVars>>

(* The harness returns and its work is evaluated: delivered, verified or   *)
(* not, or failed, which is repaired.                                      *)
Delivered(l) ==
  /\ Quiet /\ At(l, "work")
  /\ task' = [task EXCEPT ![Job(l)] = "DONE"]
  /\ \E shortfall \in BOOLEAN : unverified' = (unverified \/ shortfall)
  /\ Return(l)
  /\ UNCHANGED <<status, attempts, repairs, watchVars, graphVars, askVars, pageVars>>

Failed(l) ==
  /\ Quiet /\ At(l, "work")
  /\ task' = [task EXCEPT ![Job(l)] = "FAILED"]
  /\ attempts' = [attempts EXCEPT ![Job(l)] = Another(@)]
  /\ unverified' = TRUE
  /\ Goto(l, "repair")
  /\ UNCHANGED <<status, repairs, watchVars, graphVars, askVars, pageVars>>

-----------------------------------------------------------------------------
(* repair(): one at a time per task, at most MaxRetries; RETRY, then       *)
(* ENRICH_CONTEXT, then SWITCH_HARNESS.                                    *)

\* Mutant: the repairs in flight are not looked at.
RefusesExhausted(l) == repairs[Job(l)] > MaxRetries
Refuses(l) == Job(l) \in InFlight \/ repairs[Job(l)] > MaxRetries

NoRepair(l) ==
  /\ At(l, "repair") /\ Refuses(l)
  /\ Return(l)
  /\ UNCHANGED <<status, taskVars, watchVars, graphVars, askVars, pageVars>>

Counts(l) ==
  /\ At(l, "repair") /\ ~Refuses(l)
  /\ repairs' = [repairs EXCEPT ![Job(l)] = @ + 1]

LastRepair(l) ==
  /\ Counts(l) /\ repairs[Job(l)] = MaxRetries
  /\ Transition(l, "BLOCKED", [loop[l] EXCEPT !.pc = loop[l].from, !.job = 0])
  /\ UNCHANGED <<task, attempts, unverified, watchVars, graphVars, askVars, pageVars>>

Repairs(l) ==
  /\ Counts(l) /\ repairs[Job(l)] < MaxRetries
  /\ Take(Snapshot)

(* The mission may not be REPAIRING now: the exception ends the run.       *)
RepairThrows(l) ==
  /\ Repairs(l) /\ ~Legal("REPAIRING")
  /\ Dies(l)
  /\ UNCHANGED <<status, task, attempts, unverified, version, rollbacks, watchVars, askVars,
                 pageVars>>

RepairWorks(l) ==
  /\ Repairs(l) /\ Legal("REPAIRING")
  /\ status' = "RUNNING"
  /\ task' = [task EXCEPT ![Job(l)] = "PENDING"]
  /\ IF Met(task', Job(l)) THEN Become(l, [loop[l] EXCEPT !.pc = "enter", !.repairing = TRUE])
                           ELSE Return(l)
  /\ UNCHANGED <<attempts, unverified, version, rollbacks, watchVars, askVars, pageVars>>

NoOtherHarness(l) ==
  /\ Repairs(l) /\ Legal("REPAIRING") /\ repairs[Job(l)] = 2
  /\ status' = "RUNNING"
  /\ Return(l)
  /\ UNCHANGED <<task, attempts, unverified, version, rollbacks, watchVars, askVars, pageVars>>

-----------------------------------------------------------------------------
(* finish(): completed only when all is done and verified.                 *)

Finish(l) ==
  /\ At(l, "finish")
  /\ IF IsDone
     THEN IF Legal("VERIFYING")
          THEN status' = (IF unverified THEN "BLOCKED" ELSE "COMPLETED") /\ Over(l)
          ELSE Dies(l) /\ UNCHANGED status
     ELSE IF status = "PAUSED"
          THEN Over(l) /\ UNCHANGED status
          ELSE Transition(l, "BLOCKED", [Idle EXCEPT !.pc = "over"])
  /\ UNCHANGED <<taskVars, watchVars, graphVars, askVars, pageVars>>

-----------------------------------------------------------------------------
(* The Mission page: the user's buttons.                                   *)

(* prepare() and buildOrganization().  The first checkpoint knows no task. *)
Prepare ==
  /\ status = "DRAFT"
  /\ status' = "READY"
  /\ planned' = TRUE
  /\ version' = 1
  /\ Take([task |-> task, version |-> 1])
  /\ task' = [t \in Task |-> IF t \in Added THEN "NONE" ELSE "PENDING"]
  /\ UNCHANGED <<loop, attempts, repairs, unverified, paused, raced, rollbacks, watchVars,
                 askVars>>

(* The flag is set before the transition is tried, which may throw.        *)
Pause ==
  /\ Quiet
  /\ paused' = TRUE
  /\ status' = IF Legal("PAUSED") THEN "PAUSED" ELSE status
  /\ UNCHANGED <<loop, planned, raced, taskVars, watchVars, graphVars, askVars>>

Unpause ==
  /\ Quiet
  /\ paused' = FALSE
  /\ status' = IF Legal("RUNNING") THEN "RUNNING" ELSE status
  /\ UNCHANGED <<loop, planned, raced, taskVars, watchVars, graphVars, askVars>>

Approve ==
  /\ Quiet
  /\ \E l \in Pending : /\ Settle(l, "APPROVED")
                        /\ consents' = [consents EXCEPT ![request[l].task] = @ + 1]
  /\ UNCHANGED <<status, taskVars, watchVars, graphVars, pageVars>>

Reject ==
  /\ Quiet
  /\ \E l \in Pending : Settle(l, "REFUSED")
  /\ UNCHANGED <<status, consents, taskVars, watchVars, graphVars, pageVars>>

TakeCheckpoint ==
  /\ Quiet /\ planned
  /\ Take(Snapshot)
  /\ UNCHANGED <<status, loop, version, rollbacks, taskVars, watchVars, askVars, pageVars>>

(* restoreCheckpoint(): failed, blocked and running tasks are put back to  *)
(* what they were, done ones are not; setting FAILED counts as an attempt. *)
\* Mutant: finished tasks are put back, too.
RolledBackAll(c, t) ==
  IF checkpoints[c].task[t] # "NONE" THEN checkpoints[c].task[t] ELSE task[t]
RolledBack(c, t) ==
  IF checkpoints[c].task[t] # "NONE" /\ task[t] \in {"FAILED", "BLOCKED", "RUNNING"}
  THEN IF checkpoints[c].task[t] = "DONE" THEN "PENDING" ELSE checkpoints[c].task[t]
  ELSE task[t]

Rollback ==
  /\ Quiet /\ rollbacks < MaxRollbacks
  /\ rollbacks' = rollbacks + 1
  /\ \E c \in DOMAIN checkpoints :
       /\ task' = [t \in Task |-> RolledBack(c, t)]
       /\ attempts' = [t \in Task |->
            IF task[t] \in {"FAILED", "BLOCKED", "RUNNING"} /\ checkpoints[c].task[t] = "FAILED"
            THEN Another(attempts[t]) ELSE attempts[t]]
       /\ version' = checkpoints[c].version
       /\ checkpoints' = IF rollbacks' < MaxRollbacks THEN SubSeq(checkpoints, 1, c) ELSE <<>>
  /\ UNCHANGED <<status, loop, repairs, unverified, watchVars, askVars, pageVars>>

(* The app is closed just after a Save, and opened again: tasks, requests, *)
(* checkpoints and usage are restored, loops, plan and counters are not.   *)
Restart ==
  /\ Quiet /\ planned
  /\ loop' = [l \in Loop |-> IF Live(l) THEN [Idle EXCEPT !.pc = "dead"] ELSE loop[l]]
  /\ planned' = FALSE /\ paused' = FALSE
  /\ repairs' = [t \in Task |-> 0]
  /\ advised' = {} /\ stalled' = FALSE
  /\ UNCHANGED <<status, task, attempts, unverified, over, raced, graphVars, askVars>>

-----------------------------------------------------------------------------
Init ==
  /\ status = "DRAFT" /\ planned = FALSE /\ paused = FALSE /\ over = FALSE
  /\ task = [t \in Task |-> "NONE"]
  /\ attempts = [t \in Task |-> 0] /\ repairs = [t \in Task |-> 0]
  /\ advised = {} /\ stalled = FALSE /\ unverified = FALSE
  /\ version = 0 /\ rollbacks = 0
  /\ request = [l \in Loop |-> NoRequest] /\ checkpoints = <<>>
  /\ loop = [l \in Loop |-> Idle]
  /\ consents = [t \in Gated |-> 0] /\ raced = FALSE

(* What a loop does of itself: it never waits for a human for ever.        *)
Step(l) ==
  \/ Top(l) \/ OverBudget(l) \/ Supervise(l) \/ Recommended(l) \/ AllRecommended(l)
  \/ Dispatch(l) \/ Reorganize(l) \/ CannotReorganize(l) \/ Await(l) \/ GiveUp(l)
  \/ NothingLeft(l) \/ Drained(l) \/ NextTask(l) \/ WaveDone(l)
  \/ ExecuteTask(l) \/ Approved(l) \/ Refused(l) \/ TimeOut(l)
  \/ Delivered(l) \/ Failed(l)
  \/ NoRepair(l) \/ LastRepair(l) \/ RepairThrows(l) \/ RepairWorks(l) \/ NoOtherHarness(l)
  \/ Finish(l)

User ==
  \/ Prepare \/ Pause \/ Unpause \/ Approve \/ Reject \/ TakeCheckpoint \/ Rollback
  \/ Restart \/ \E l \in Loop : Run(l)

Next == User \/ \E l \in Loop : Step(l)

Spec == Init /\ [][Next]_vars /\ \A l \in Loop : WF_vars(Step(l))

-----------------------------------------------------------------------------
(* Nothing that needs a human runs without one: an agent was given a task  *)
(* at most as often as the human approved a request for that very task,    *)
(* however often it was retried, rolled back, raced by a second run, or    *)
(* waited for in vain.                                                     *)
ApprovedBeforeRun == \A t \in Gated : consents[t] >= 0

(* A user who lets a run end before the next one is never shown a          *)
(* completed mission with a task that is not done: no rollback, repair or  *)
(* late answer takes finished work back.                                   *)
CompletedStands == ~raced /\ status = "COMPLETED" => IsDone

(* The supervisor, the wave and a second run may all ask for the repair of *)
(* one task: only one of them gets it.                                     *)
OneRepairPerTask ==
  \A k, l \in Loop : k # l /\ loop[k].repairing /\ loop[l].repairing => Job(k) # Job(l)

(* A mission that was not restored has no question open that nobody waits  *)
(* for: an abandoned, retried or rolled back task takes its request along. *)
AskedIsSettled == planned => \A l \in Pending : At(l, "gate")

(* Where runs do not overlap, no task is at work or done before all that   *)
(* it depends on is: neither a repair, nor a rollback to a checkpoint of   *)
(* half of the plan, nor a restart puts back what others were built on.    *)
OrderKept ==
  ~raced => \A t \in In({"RUNNING", "DONE"}) : \A d \in Deps[t] : task[d] = "DONE"

(* Where they do, a dependency can be undone by the second run while the   *)
(* first works on another task of its wave, or waits for the human: no     *)
(* agent is given a task that was ready only when its wave was formed.     *)
StartsInOrder ==
  [][\A l \in Loop : ~At(l, "work") /\ loop'[l].pc = "work" =>
       \A d \in Deps[Job(l)] : task[d] = "DONE"]_vars

(* Every run ends or is paused by the user, whatever the human does not    *)
(* answer and the supervisor does not find.                                *)
RunsEnd == \A l \in Loop : Live(l) ~> ~Live(l) \/ paused

(* finish(): "A mission completes only when the work is done AND verified."*)
CompletedMeansDone == status = "COMPLETED" => IsDone

(* The supervisor on its pause: it "prevents spending budget on a stuck    *)
(* organization" - so no gated task is given to an agent while the mission *)
(* reads PAUSED.                                                           *)
PauseStopsSpending ==
  [][status = "PAUSED" => \A l \in Loop : ~(loop[l].pc # "work" /\ loop'[l].pc = "work")]_vars

(* persist(): what is saved is "everything needed to resume": a restored   *)
(* mission can be run.                                                     *)
RestoredRuns == [][\A l \in Loop : Run(l) => loop'[l].pc # "dead"]_vars
=============================================================================
