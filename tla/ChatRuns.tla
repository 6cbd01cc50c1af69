------------------------------ MODULE ChatRuns ------------------------------
(***************************************************************************)
(* The Vouch Cycle: sendVouchMessage, stopVouch and what they share.       *)
(*                                                                         *)
(* A run is one call of sendVouchMessage.  The code is single threaded, so *)
(* one action stands for what a run does between two suspensions (a sleep, *)
(* the human gate, a tool or a mission, the hashing of the receipt); pc    *)
(* names the suspension the run is in.  sendVouchMessage itself takes any  *)
(* number of overlapping calls; the page's lock (a streaming message among *)
(* the shown ones) is left by switching thread, so threads are left out.   *)
(***************************************************************************)
EXTENDS RiskTiers, Integers, Sequences, FiniteSets

CONSTANTS
  NumRuns,      \* bound: messages sent; a run is its place in that order
  Dispatch,     \* the tool "dispatch_mission"
  Plans,        \* the action lists a brain may decide on
  MaxPlan,      \* bound: the longest of them
  Reanswered,   \* bound: the cards that are answered a second time
  MaxToken,     \* bound: sends and stops in one process life
  MaxRestarts   \* bound: restarts of the process

ASSUME RunsAssumption == NumRuns \in Nat
ASSUME ToolsAssumption == Dispatch \in BuiltinRisky
ASSUME PlansAssumption ==
  /\ MaxPlan \in Nat \ {0}
  /\ Plans \subseteq Seq(Tools)
  /\ \A p \in Plans : Len(p) <= MaxPlan
ASSUME BoundsAssumption ==
  /\ MaxToken \in Nat
  /\ MaxRestarts \in Nat

Runs  == 1 .. NumRuns
NoRun == 0              \* lastMission = null

(* A plan is restarted at most once, after its first action.               *)
Steps == 1 .. MaxPlan + 1
Card  == Runs \X Steps

ASSUME ReansweredAssumption == Reanswered \subseteq Card

VARIABLES
  run,         \* each run's local state and its message
  runToken,    \* the module's runToken: the run that may still act
  lastMission, \* the run whose mission outcome the module remembers
  vouched,     \* runs that got a receipt (session.receipts forgets all but 20)
  skills,      \* the learned skill of each tool
  restarts,
  status, waiting, answer

Gate == INSTANCE HumanGate

vars == <<run, runToken, lastMission, vouched, skills, risky, restarts,
          status, waiting, answer>>

-----------------------------------------------------------------------------
(* Types.                                                                  *)

PC == {"idle", "ready", "simulate", "gate", "act", "stream", "typed", "mint",
       "done", "lost"}
Parked == {"ready", "simulate", "gate", "act", "stream", "typed", "mint"}

(* One entry of results and of the receipt's events.                       *)
Result == [tool : Tools, simulated : BOOLEAN, approved : BOOLEAN, ok : BOOLEAN,
           mission : Runs \union {NoRun}]

Run == [pc : PC, token : 0 .. MaxToken,
        plan : Plans \union {<<>>} \union {<<t>> : t \in Tools},
        skill : BOOLEAN, replanned : BOOLEAN, results : Seq(Result),
        msg : {"none", "streaming", "final", "interrupted"}]

Skill == {"none", "proven", "flagged"}

TypeOK ==
  /\ run \in [Runs -> Run]
  /\ \A r \in Runs : Len(run[r].results) <= Len(run[r].plan) + 1
  /\ runToken \in 0 .. MaxToken
  /\ lastMission \in Runs \union {NoRun}
  /\ vouched \in SUBSET Runs
  /\ skills \in [Tools -> Skill]
  /\ risky \in SUBSET Tools
  /\ restarts \in 0 .. MaxRestarts
  /\ Gate!GateTypeOK

-----------------------------------------------------------------------------
(* What the actions read.                                                  *)

Current(r) == run[r].token = runToken

StepNo(r) == Len(run[r].results) + 1

CardOf(r) == <<r, StepNo(r)>>

(* The loop's index: actions of the current plan already finished.         *)
\* Mutant: the fallback forgets ai = -1.
IndexNotReset(r) == Len(run[r].results)
Index(r) == Len(run[r].results) - (IF run[r].replanned THEN 1 ELSE 0)

NextTool(r) == run[r].plan[Index(r) + 1]

-----------------------------------------------------------------------------
Init ==
  /\ run = [r \in Runs |->
             [pc |-> "idle", token |-> 0, plan |-> <<>>, skill |-> FALSE,
              replanned |-> FALSE, results |-> <<>>, msg |-> "none"]]
  /\ runToken = 0
  /\ lastMission = NoRun
  /\ vouched = {}
  /\ skills = [t \in Tools |-> "none"]
  /\ risky = BuiltinRisky
  /\ restarts = 0
  /\ Gate!GateInit

(* The run starts: it takes the token, its message starts streaming, and   *)
(* the brain decides - either a fresh plan or the single step of a         *)
(* recalled skill that is proven and not flagged.                          *)
Send(r, p, replay) ==
  /\ run[r].pc = "idle"
  /\ \A q \in 1 .. r - 1 : run[q].pc # "idle"
  /\ runToken < MaxToken
  /\ IF replay THEN \E t \in Tools : skills[t] = "proven" /\ p = <<t>>
               ELSE p \in Plans
  /\ runToken' = runToken + 1
  /\ run' = [run EXCEPT ![r] =
               [pc |-> "ready", token |-> runToken + 1, plan |-> p,
                skill |-> replay, replanned |-> FALSE, results |-> <<>>,
                msg |-> "streaming"]]
  /\ UNCHANGED <<lastMission, vouched, skills, risky, restarts,
                 status, waiting, answer>>

(* stopVouch (while a run is in flight: otherwise nothing reads the token).*)
Stop ==
  /\ \E r \in Runs : run[r].pc \in Parked
  /\ runToken < MaxToken
  /\ runToken' = runToken + 1
  /\ UNCHANGED <<run, lastMission, vouched, skills,
                 risky, restarts, status, waiting, answer>>

(* A return in the body runs finalizeIfAborted: a streaming message of a   *)
(* stale run is closed with the note that no receipt was minted.           *)
\* Mutant: no finally clause closes the message.
AbortedRunLeftStreaming(r) == [run[r] EXCEPT !.pc = "done"]
AbortedRun(r) == [run[r] EXCEPT !.pc = "done", !.msg = "interrupted"]

Abort(r) ==
  /\ run[r].pc \in {"ready", "stream"}
  /\ ~Current(r)
  /\ run' = [run EXCEPT ![r] = AbortedRun(r)]
  /\ UNCHANGED <<runToken, lastMission, vouched, skills,
                 risky, restarts, status, waiting, answer>>

(* The head of the action loop: a risky action is simulated first, any     *)
(* other starts at once.                                                   *)
\* Mutant: the token check at the head of the loop is dropped.
BeginActionUnchecked(r) ==
  /\ run[r].pc = "ready"
  /\ Index(r) < Len(run[r].plan)
  /\ run' = [run EXCEPT ![r].pc = IF NextTool(r) \in risky THEN "simulate" ELSE "act"]
  /\ UNCHANGED <<runToken, lastMission, vouched, skills,
                 risky, restarts, status, waiting, answer>>
BeginAction(r) ==
  /\ run[r].pc = "ready"
  /\ Current(r)
  /\ Index(r) < Len(run[r].plan)
  /\ run' = [run EXCEPT ![r].pc = IF NextTool(r) \in risky THEN "simulate" ELSE "act"]
  /\ UNCHANGED <<runToken, lastMission, vouched, skills,
                 risky, restarts, status, waiting, answer>>

(* After the simulation's sleep the card is asked for, stale run or not.   *)
RequestGate(r) ==
  /\ run[r].pc = "simulate"
  /\ Gate!Request(CardOf(r))
  /\ run' = [run EXCEPT ![r].pc = "gate"]
  /\ UNCHANGED <<runToken, lastMission, vouched, skills,
                 risky, restarts>>

(* dispatchMission forgets the last mission before it runs its own.        *)
ForgetMission(r) ==
  lastMission' = IF NextTool(r) = Dispatch THEN NoRun ELSE lastMission

\* Mutant: approved = granted is dropped.
DeniedResultKeptApproved(r) ==
  [tool |-> NextTool(r), simulated |-> TRUE, approved |-> TRUE, ok |-> FALSE,
   mission |-> NoRun]
DeniedResult(r) ==
  [tool |-> NextTool(r), simulated |-> TRUE, approved |-> FALSE, ok |-> FALSE,
   mission |-> IF NextTool(r) = Dispatch THEN lastMission ELSE NoRun]

(* The human answers the card of run r that is still waited for, and the   *)
(* run goes on in the same turn of the event loop: stale, it ends; denied, *)
(* nothing runs and the refusal is an entry of the receipt; granted, the   *)
(* tool or the mission starts.                                             *)
\* Mutant: neither the token nor the answer is looked at.
DecideActsAnyway(r, ok) ==
  /\ CardOf(r) \in waiting
  /\ run[r].pc = "gate"
  /\ Gate!Resolve(CardOf(r), ok)
  /\ run' = [run EXCEPT ![r].pc = "act"]
  /\ ForgetMission(r)
  /\ UNCHANGED <<runToken, vouched, skills, risky, restarts>>
DecideWaiting(r, ok) ==
  /\ CardOf(r) \in waiting
  /\ run[r].pc = "gate"
  /\ Gate!Resolve(CardOf(r), ok)
  /\ \/ /\ ~Current(r)
        /\ run' = [run EXCEPT ![r] = AbortedRun(r)]
        /\ UNCHANGED lastMission
     \/ /\ Current(r) /\ ok
        /\ run' = [run EXCEPT ![r].pc = "act"]
        /\ ForgetMission(r)
     \/ /\ Current(r) /\ ~ok
        /\ run' = [run EXCEPT ![r].pc = "ready",
                              ![r].results = Append(@, DeniedResult(r))]
        /\ UNCHANGED lastMission
  /\ UNCHANGED <<runToken, vouched, skills, risky, restarts>>

(* The buttons of an answered card stay on screen: answering again only    *)
(* rewrites the record.                                                    *)
DecideAgain(c, ok) ==
  /\ c \notin waiting
  /\ Gate!Resolve(c, ok)
  /\ UNCHANGED <<run, runToken, lastMission, vouched, skills, risky, restarts>>

(* The tool or the mission comes back.  A dispatch always counts as ok: a  *)
(* refused or failed one is an output string, with no mission to show.  A  *)
(* replayed skill that failed is flagged and the plan is made afresh,      *)
(* once per run; otherwise the loop goes on (its head checks the token).   *)
FinishAct(r, ok, mission, replan) ==
  LET tool  == NextTool(r)
      entry == [tool |-> tool, simulated |-> status[CardOf(r)] # "none",
                approved |-> TRUE, ok |-> ok, mission |-> mission]
      fails == run[r].skill /\ ~ok /\ ~run[r].replanned
  IN
  /\ run[r].pc = "act"
  /\ tool = Dispatch => ok /\ mission \in {r, NoRun}
  /\ tool # Dispatch => mission = NoRun
  /\ lastMission' = IF tool = Dispatch THEN mission ELSE lastMission
  /\ \/ /\ fails
        /\ replan \in Plans
        /\ run' = [run EXCEPT ![r].pc = "ready", ![r].plan = replan,
                              ![r].skill = FALSE, ![r].replanned = TRUE,
                              ![r].results = Append(@, entry)]
        /\ skills' = [skills EXCEPT ![tool] = "flagged"]
     \/ /\ ~fails
        /\ replan = <<>>
        /\ run' = [run EXCEPT ![r].pc = "ready", ![r].results = Append(@, entry)]
        /\ UNCHANGED skills
  /\ UNCHANGED <<runToken, vouched, risky, restarts,
                 status, waiting, answer>>

(* Every action is done: the final text is typed out in chunks, the token  *)
(* being checked before each of them ...                                   *)
BeginStream(r) ==
  /\ run[r].pc = "ready"
  /\ Current(r)
  /\ Index(r) = Len(run[r].plan)
  /\ run' = [run EXCEPT ![r].pc = "stream"]
  /\ UNCHANGED <<runToken, lastMission, vouched, skills,
                 risky, restarts, status, waiting, answer>>

(* ... and not after the last one.                                         *)
TypeLastChunk(r) ==
  /\ run[r].pc = "stream"
  /\ Current(r)
  /\ run' = [run EXCEPT ![r].pc = "typed"]
  /\ UNCHANGED <<runToken, lastMission, vouched, skills,
                 risky, restarts, status, waiting, answer>>

(* LEARN: a run whose every action succeeded, and which replayed no skill, *)
(* distills one from its first action; a mission skill needs the mission.  *)
\* Mutant: allOk is not asked for.
DistillsFromAny(r) == run[r].results # <<>> /\ ~run[r].skill
Distills(r) ==
  /\ run[r].results # <<>>
  /\ \A k \in DOMAIN run[r].results : run[r].results[k].ok /\ run[r].results[k].approved
  /\ ~run[r].skill
  /\ run[r].results[1].tool = Dispatch => lastMission # NoRun

(* LEARN, then the receipt's hashing begins (no token check from here on). *)
(* The test gate may reject the candidate; a flagged skill stays flagged.  *)
BeginMint(r, learn) ==
  /\ run[r].pc = "typed"
  /\ learn => Distills(r)
  /\ skills' = IF learn /\ skills[run[r].results[1].tool] = "none"
               THEN [skills EXCEPT ![run[r].results[1].tool] = "proven"]
               ELSE skills
  /\ run' = [run EXCEPT ![r].pc = "mint"]
  /\ UNCHANGED <<runToken, lastMission, vouched, risky,
                 restarts, status, waiting, answer>>

(* The receipt enters the ledger; the message is closed by the final patch *)
(* if the run is live, and by finalizeIfAborted if it was stopped while    *)
(* hashing.                                                                *)
Mint(r) ==
  /\ run[r].pc = "mint"
  /\ vouched' = vouched \union {r}
  /\ run' = IF Current(r)
            THEN [run EXCEPT ![r].pc = "done", ![r].msg = "final"]
            ELSE [run EXCEPT ![r] = AbortedRun(r)]
  /\ UNCHANGED <<runToken, lastMission, skills, risky, restarts,
                 status, waiting, answer>>

Retier(t) ==
  /\ MoveTier(t)
  /\ UNCHANGED <<run, runToken, lastMission, vouched,
                 skills, restarts, status, waiting, answer>>

(* The process ends and the session is loaded again: what was in memory is *)
(* gone, what commit() wrote is as it was - streaming messages included.   *)
Restart ==
  /\ restarts < MaxRestarts
  /\ restarts' = restarts + 1
  /\ run' = [r \in Runs |->
               IF run[r].pc \in Parked
               THEN [run[r] EXCEPT !.pc = "lost", !.token = 0]
               ELSE [run[r] EXCEPT !.token = 0]]
  /\ runToken' = 0
  /\ lastMission' = NoRun
  /\ risky' = BuiltinRisky
  /\ Gate!GateRestart
  /\ UNCHANGED <<vouched, skills>>

-----------------------------------------------------------------------------
(* What a run does by itself once its suspension ends.                     *)
RunStep(r) ==
  \/ Abort(r)
  \/ BeginAction(r)
  \/ RequestGate(r)
  \/ \E ok \in BOOLEAN, m \in {r, NoRun}, p \in Plans \union {<<>>} : FinishAct(r, ok, m, p)
  \/ BeginStream(r)
  \/ TypeLastChunk(r)
  \/ \E learn \in BOOLEAN : BeginMint(r, learn)
  \/ Mint(r)

Next ==
  \/ \E r \in Runs, replay \in BOOLEAN :
       \E p \in Plans \union {<<t>> : t \in Tools} : Send(r, p, replay)
  \/ Stop
  \/ \E r \in Runs : RunStep(r)
  \/ \E r \in Runs, ok \in BOOLEAN : DecideWaiting(r, ok)
  \/ \E c \in Reanswered, ok \in BOOLEAN : DecideAgain(c, ok)
  \/ \E t \in Tools : Retier(t)
  \/ Restart

(* Timers fire, tools and missions come back, hashing ends (RunStep).  No  *)
(* human is assumed to answer a card: a run stopped before its card is     *)
(* asked for shows none (Threads).                                         *)
Fairness == \A r \in Runs : WF_vars(RunStep(r))

Spec == Init /\ [][Next]_vars /\ Fairness

-----------------------------------------------------------------------------
(* Properties.                                                             *)

(* The cards still waited for are exactly those of the runs parked at the  *)
(* gate, and none of them has been decided: a parked run can always be let *)
(* go, and an answer never reaches a run that is elsewhere.                *)
ParkedRunsHaveCards ==
  /\ waiting = {CardOf(r) : r \in {q \in Runs : run[q].pc = "gate"}}
  /\ Gate!WaitersUndecided

(* What a run reports of a step is what the human answered it: a simulated *)
(* step ran only if its own card was granted, is reported as denied only   *)
(* if it was refused; a step without a card is never reported denied, and  *)
(* is none of a tool that is risky by definition, whatever the meta-loop   *)
(* did to the tiers meanwhile.                                             *)
ConsentBeforeEffect ==
  \A r \in Runs :
    /\ \A k \in DOMAIN run[r].results :
         LET e == run[r].results[k] IN
         /\ e.simulated => answer[<<r, k>>] = IF e.approved THEN "yes" ELSE "no"
         /\ ~e.simulated => /\ e.approved /\ status[<<r, k>>] = "none"
                            /\ e.tool \notin BuiltinRisky
    /\ run[r].pc = "act" /\ status[CardOf(r)] # "none" => answer[CardOf(r)] = "yes"

(* A tool or a mission is started only by the run that holds the token: a  *)
(* run that was stopped or superseded never begins another effect, however *)
(* late its card is granted.                                               *)
StaleRunNeverActs ==
  [][\A r \in Runs : run[r].pc # "act" /\ run'[r].pc = "act" => Current(r)]_vars

(* A message that ends as complete has a receipt, and the receipt accounts *)
(* for every action of the plan in its order, also when the plan replaced  *)
(* a skill replay that failed.                                             *)
FinalMeansVouched ==
  \A r \in Runs : run[r].msg = "final" =>
    LET before == Len(run[r].results) - Len(run[r].plan) IN
    /\ r \in vouched
    /\ before = IF run[r].replanned THEN 1 ELSE 0
    /\ \A k \in DOMAIN run[r].plan : run[r].results[before + k].tool = run[r].plan[k]

(* A skill is only ever learned from a run that reached its receipt with   *)
(* every action executed and successful.                                   *)
SkillsFromCleanRuns ==
  \A t \in Tools : skills[t] # "none" =>
    \E r \in Runs :
      /\ run[r].pc \in {"mint", "done", "lost"}
      /\ run[r].results # <<>> /\ run[r].results[1].tool = t
      /\ \A k \in DOMAIN run[r].results : run[r].results[k].ok /\ run[r].results[k].approved

(* Every message that starts streaming is closed, unless the process ends  *)
(* under it or the run waits for an answer: by whatever way it leaves the  *)
(* loop, stopped, superseded, failed or replanned, none is overlooked.     *)
RunsEnd ==
  \A r \in Runs :
    run[r].msg = "streaming" ~>
      run[r].msg # "streaming" \/ run[r].pc \in {"gate", "lost"}

(* "stopVouch() aborts between steps; aborted runs mint NO receipt."  The  *)
(* code does not keep this: Stop while the receipt is being hashed.        *)
AbortedRunsMintNoReceipt ==
  \A r \in Runs : run[r].msg = "interrupted" => r \notin vouched

(* "Denied by the human gate - nothing was executed": a denied action has  *)
(* no mission to show.  The code does not keep this: the receipt's entry   *)
(* for a denied dispatch carries the previous dispatch's mission.          *)
DeniedShowsNoMission ==
  \A r \in Runs : \A k \in DOMAIN run[r].results :
    ~run[r].results[k].approved => run[r].results[k].mission = NoRun

-----------------------------------------------------------------------------
(* The promise every face makes, one job per action of a run.              *)

JobPhase(c) ==
  LET r == c[1]  k == c[2]  n == Len(run[r].results) IN
  IF k <= n THEN IF r \in vouched THEN "vouched"
                 ELSE IF run[r].results[k].approved THEN "acted" ELSE "refused"
  ELSE IF run[r].pc \in {"done", "lost"} THEN "dropped"
  ELSE IF k > n + 1 THEN "new"
  ELSE IF run[r].pc = "gate" THEN "asked"
  ELSE IF run[r].pc # "act" THEN "new"
  ELSE IF status[c] = "none" THEN "free" ELSE "granted"

Promise == INSTANCE Governed WITH
  Asker <- Runs, Job <- Card, By <- [c \in Card |-> c[1]],
  phase <- [c \in Card |-> JobPhase(c)]

(* Each run keeps the promise of the control plane: nothing risky acts     *)
(* before it is asked for and granted, nothing refused ever acts, what is  *)
(* vouched is what was done or refused, and stays vouched.                 *)
KeepsPromise == Promise!Spec
=============================================================================
