-------------------------- MODULE ChatRuns_proofs --------------------------
(***************************************************************************)
(* What holds of the chat runs for any number of runs, any tools and any   *)
(* plans.  The invariants are proved in layers: LoopInv (where each run is *)
(* in its plan) makes TypeOK inductive; CardInv (which cards exist, and    *)
(* what they say) rests on it and gives the two gate properties;           *)
(* ReceiptInv (a record follows its plan) gives what a finished message    *)
(* shows; the refinement of Governed rests on all three.  The last part is *)
(* about the other face, the tool calls of McpCalls: McpInv and TierInv    *)
(* give that a refused or unasked call never acts, and the same promise.   *)
(***************************************************************************)
EXTENDS ChatRuns, McpCalls, TLAPS

ActingPC == {"simulate", "gate", "act"}

(* The loop's index is within the plan, and strictly within it while an    *)
(* action is under way; a replayed skill is a plan of one action, and has  *)
(* not fallen back yet.                                                    *)
LoopInv ==
  \A r \in Runs :
    /\ Index(r) \in 0 .. Len(run[r].plan)
    /\ run[r].pc \in ActingPC => Index(r) < Len(run[r].plan)
    /\ run[r].skill => ~run[r].replanned /\ Len(run[r].plan) = 1

TInv == TypeOK /\ LoopInv

AnyPlan == Plans \union {<<>>} \union {<<t>> : t \in Tools}

LEMMA PlansAreShort ==
  ASSUME NEW p \in AnyPlan
  PROVE  p \in Seq(Tools) /\ Len(p) \in 0 .. MaxPlan
<1>1. CASE p \in Plans
  <2>1. p \in Seq(Tools) /\ Len(p) <= MaxPlan
    BY <1>1, PlansAssumption
  <2> QED BY <2>1, PlansAssumption
<1>2. CASE p = <<>>
  BY <1>2, PlansAssumption
<1>3. CASE p \in {<<t>> : t \in Tools}
  <2>1. PICK t \in Tools : p = <<t>>
    BY <1>3
  <2> QED BY <2>1, PlansAssumption
<1> QED BY <1>1, <1>2, <1>3 DEF AnyPlan

(* What a run's next tool and card are while an action of it is under way. *)
LEMMA InRange ==
  ASSUME TInv, NEW r \in Runs, Index(r) < Len(run[r].plan)
  PROVE  /\ NextTool(r) \in Tools
         /\ CardOf(r) \in Card
<1>1. run[r].plan \in Seq(Tools) /\ Len(run[r].plan) \in 0 .. MaxPlan
  BY PlansAreShort DEF TInv, TypeOK, Run, AnyPlan
<1>2. run[r].results \in Seq(Result) /\ run[r].replanned \in BOOLEAN
  BY DEF TInv, TypeOK, Run
<1>3. Index(r) \in 0 .. Len(run[r].plan) - 1
  BY <1>1 DEF TInv, LoopInv
<1>4. NextTool(r) \in Tools
  BY <1>1, <1>3 DEF NextTool
<1>5. StepNo(r) \in Steps
  <2>1. Len(run[r].results) \in Nat
    BY <1>2
  <2>2. Len(run[r].results) <= Index(r) + 1
    BY <1>2, <2>1 DEF Index
  <2> QED BY <1>1, <1>3, <2>1, <2>2, PlansAssumption DEF StepNo, Steps
<1> QED BY <1>4, <1>5 DEF CardOf, Card

(* A step that gives run r the new local state x keeps the invariant of    *)
(* the runs if x is one of a run that is in its plan.                      *)
InPlan(x) ==
  LET index == Len(x.results) - (IF x.replanned THEN 1 ELSE 0) IN
  /\ x \in Run
  /\ index \in 0 .. Len(x.plan)
  /\ x.pc \in ActingPC => index < Len(x.plan)
  /\ x.skill => ~x.replanned /\ Len(x.plan) = 1

RunsInPlan == run \in [Runs -> Run] /\ \A r \in Runs : InPlan(run[r])

LEMMA InPlanIsInv ==
  TInv <=> /\ RunsInPlan
           /\ runToken \in 0 .. MaxToken
           /\ lastMission \in Runs \union {NoRun}
           /\ vouched \in SUBSET Runs
           /\ skills \in [Tools -> Skill]
           /\ risky \in SUBSET Tools
           /\ restarts \in 0 .. MaxRestarts
           /\ Gate!GateTypeOK
<1>1. ASSUME run \in [Runs -> Run], NEW r \in Runs,
             Index(r) \in 0 .. Len(run[r].plan)
      PROVE  Len(run[r].results) <= Len(run[r].plan) + 1
  <2>1. Len(run[r].results) \in Nat /\ Len(run[r].plan) \in Nat
    <3>1. run[r].results \in Seq(Result)
      BY <1>1 DEF Run
    <3>2. run[r].plan \in Seq(Tools)
      BY <1>1, PlansAreShort DEF Run, AnyPlan
    <3> QED BY <3>1, <3>2
  <2>2. Len(run[r].results) <= Index(r) + 1
    BY <2>1 DEF Index
  <2>3. Index(r) \in Int /\ Index(r) <= Len(run[r].plan)
    BY <1>1, <2>1
  <2> QED BY <2>1, <2>2, <2>3
<1> QED BY <1>1 DEF TInv, TypeOK, LoopInv, RunsInPlan, InPlan, Index

LEMMA OneRunMoves ==
  ASSUME RunsInPlan, NEW r \in Runs, NEW x, InPlan(x), run' = [run EXCEPT ![r] = x]
  PROVE  RunsInPlan'
BY DEF RunsInPlan, InPlan

LEMMA InitTInv == Init => TInv
<1> SUFFICES ASSUME Init PROVE TInv
  OBVIOUS
<1>1. RunsInPlan
  <2> DEFINE x == [pc |-> "idle", token |-> 0, plan |-> <<>>, skill |-> FALSE,
                   replanned |-> FALSE, results |-> <<>>, msg |-> "none"]
  <2>1. InPlan(x)
    BY BoundsAssumption DEF InPlan, Run, PC, ActingPC
  <2> QED BY <2>1 DEF Init, RunsInPlan, InPlan
<1> QED BY <1>1, InPlanIsInv, ToolsAssumption, TiersAssumption, BoundsAssumption
        DEF Init, Skill, Gate!GateInit, Gate!GateTypeOK, Gate!Status, Gate!Answer

(* Recording the outcome of the action under way keeps a run in its plan.  *)
LEMMA EntryAdded ==
  ASSUME RunsInPlan, NEW r \in Runs, Index(r) < Len(run[r].plan), NEW e \in Result
  PROVE  InPlan([run[r] EXCEPT !.pc = "ready", !.results = Append(run[r].results, e)])
<1> DEFINE x == [run[r] EXCEPT !.pc = "ready", !.results = Append(run[r].results, e)]
<1>1. run[r] \in Run /\ run[r].results \in Seq(Result)
  BY DEF RunsInPlan, Run
<1>2. /\ Append(run[r].results, e) \in Seq(Result)
      /\ Len(Append(run[r].results, e)) = Len(run[r].results) + 1
      /\ Len(run[r].results) \in Nat
  BY <1>1
<1>3. Len(run[r].plan) \in Nat
  BY <1>1, PlansAreShort DEF Run, AnyPlan
<1>4. x \in Run
  BY <1>1, <1>2 DEF Run, PC
<1>5. InPlan(run[r])
  BY DEF RunsInPlan
<1>6. /\ x.pc = "ready" /\ x.plan = run[r].plan
      /\ x.skill = run[r].skill /\ x.replanned = run[r].replanned
      /\ Len(x.results) = Len(run[r].results) + 1
  BY <1>1, <1>2 DEF Run
<1>7. Len(x.results) - (IF x.replanned THEN 1 ELSE 0) = Index(r) + 1
  BY <1>2, <1>6 DEF Index
<1>8. Index(r) + 1 \in 0 .. Len(run[r].plan)
  <2>1. Index(r) \in 0 .. Len(run[r].plan)
    BY <1>5 DEF InPlan, Index
  <2> QED BY <1>3, <2>1
<1> QED BY <1>4, <1>5, <1>6, <1>7, <1>8 DEF InPlan, ActingPC

LEMMA StepTInv ==
  ASSUME TInv, [Next]_vars
  PROVE  TInv'
<1> USE DEF TInv
<1> DEFINE Rest == /\ runToken \in 0 .. MaxToken
                   /\ lastMission \in Runs \union {NoRun}
                   /\ vouched \in SUBSET Runs
                   /\ skills \in [Tools -> Skill]
                   /\ risky \in SUBSET Tools
                   /\ restarts \in 0 .. MaxRestarts
                   /\ Gate!GateTypeOK
<1>0. RunsInPlan /\ Rest
  BY InPlanIsInv
<1> SUFFICES RunsInPlan' /\ Rest'
  <2>1. TInv' <=> RunsInPlan' /\ Rest'
    BY InPlanIsInv, PTL
  <2> QED BY <2>1
<1> HIDE DEF TInv
<1>1. CASE UNCHANGED vars
  BY <1>0, <1>1 DEF vars, RunsInPlan, InPlan, Gate!GateTypeOK
<1>2. ASSUME NEW r \in Runs, NEW p, NEW replay \in BOOLEAN,
             p \in Plans \union {<<t>> : t \in Tools}, Send(r, p, replay)
      PROVE  RunsInPlan' /\ Rest'
  <2> DEFINE x == [pc |-> "ready", token |-> runToken + 1, plan |-> p,
                   skill |-> replay, replanned |-> FALSE, results |-> <<>>,
                   msg |-> "streaming"]
  <2>1. p \in Seq(Tools) /\ Len(p) \in 0 .. MaxPlan
    BY <1>2, PlansAreShort DEF AnyPlan
  <2>2. replay => Len(p) = 1
    BY <1>2 DEF Send
  <2>3. InPlan(x)
    BY <1>0, <1>2, <2>1, <2>2, BoundsAssumption DEF Send, InPlan, Run, PC, ActingPC
  <2>4. RunsInPlan'
    BY <1>0, <1>2, <2>3, OneRunMoves DEF Send
  <2> QED BY <1>0, <1>2, <2>4, BoundsAssumption DEF Send, Gate!GateTypeOK
<1>3. CASE Stop
  <2>1. RunsInPlan'
    BY <1>0, <1>3 DEF Stop, RunsInPlan, InPlan
  <2>2. runToken' \in 0 .. MaxToken
    BY <1>0, <1>3, BoundsAssumption DEF Stop
  <2> QED BY <1>0, <1>3, <2>1, <2>2 DEF Stop, Gate!GateTypeOK
<1>4. ASSUME NEW r \in Runs, Abort(r)
      PROVE  RunsInPlan' /\ Rest'
  <2>1. InPlan(AbortedRun(r))
    BY <1>0 DEF RunsInPlan, InPlan, AbortedRun, Run, PC, ActingPC
  <2>2. RunsInPlan'
    BY <1>0, <1>4, <2>1, OneRunMoves DEF Abort
  <2> QED BY <1>0, <1>4, <2>2 DEF Abort, Gate!GateTypeOK
<1>5. ASSUME NEW r \in Runs, BeginAction(r)
      PROVE  RunsInPlan' /\ Rest'
  <2> DEFINE x == [run[r] EXCEPT !.pc = IF NextTool(r) \in risky THEN "simulate" ELSE "act"]
  <2>1. Len(run[r].results) - (IF run[r].replanned THEN 1 ELSE 0) < Len(run[r].plan)
    BY <1>5 DEF BeginAction, Index
  <2>2. InPlan(x)
    BY <1>0, <2>1 DEF RunsInPlan, InPlan, Run, PC, ActingPC
  <2>3. run' = [run EXCEPT ![r] = x]
    BY <1>0, <1>5 DEF BeginAction, RunsInPlan
  <2>4. RunsInPlan'
    BY <1>0, <2>2, <2>3, OneRunMoves
  <2> QED BY <1>0, <1>5, <2>4 DEF BeginAction, Gate!GateTypeOK
<1>6. ASSUME NEW r \in Runs, RequestGate(r)
      PROVE  RunsInPlan' /\ Rest'
  <2> DEFINE x == [run[r] EXCEPT !.pc = "gate"]
  <2>1. InPlan(x)
    BY <1>0, <1>6 DEF RequestGate, RunsInPlan, InPlan, Run, PC, ActingPC
  <2>2. run' = [run EXCEPT ![r] = x]
    BY <1>0, <1>6 DEF RequestGate, RunsInPlan
  <2>3. RunsInPlan'
    BY <1>0, <2>1, <2>2, OneRunMoves
  <2>4. CardOf(r) \in Card
    BY <1>6, InRange DEF RequestGate, TInv, LoopInv, ActingPC
  <2>5. Gate!GateTypeOK'
    BY <1>0, <1>6, <2>4 DEF RequestGate, Gate!Request, Gate!GateTypeOK, Gate!Status
  <2> QED BY <1>0, <1>6, <2>3, <2>5 DEF RequestGate
<1>7. ASSUME NEW r \in Runs, NEW ok \in BOOLEAN, DecideWaiting(r, ok)
      PROVE  RunsInPlan' /\ Rest'
  <2>1. /\ Index(r) < Len(run[r].plan)
        /\ NextTool(r) \in Tools
    BY <1>7, InRange DEF DecideWaiting, TInv, LoopInv, ActingPC
  <2>2. ASSUME run' = [run EXCEPT ![r] = AbortedRun(r)]
        PROVE  RunsInPlan'
    <3>1. InPlan(AbortedRun(r))
      BY <1>0 DEF RunsInPlan, InPlan, AbortedRun, Run, PC, ActingPC
    <3> QED BY <1>0, <2>2, <3>1, OneRunMoves
  <2>3. ASSUME run' = [run EXCEPT ![r].pc = "act"]
        PROVE  RunsInPlan'
    <3> DEFINE x == [run[r] EXCEPT !.pc = "act"]
    <3>1. InPlan(x)
      BY <1>0, <2>1 DEF RunsInPlan, InPlan, Run, PC, ActingPC, Index
    <3>2. run' = [run EXCEPT ![r] = x]
      BY <1>0, <2>3 DEF RunsInPlan
    <3> QED BY <1>0, <3>1, <3>2, OneRunMoves
  <2>4. ASSUME run' = [run EXCEPT ![r].pc = "ready",
                                  ![r].results = Append(@, DeniedResult(r))]
        PROVE  RunsInPlan'
    <3> DEFINE x == [run[r] EXCEPT !.pc = "ready",
                                   !.results = Append(run[r].results, DeniedResult(r))]
    <3>1. DeniedResult(r) \in Result
      BY <1>0, <2>1 DEF DeniedResult, Result
    <3>2. InPlan(x)
      BY <1>0, <2>1, <3>1, EntryAdded
    <3>3. run' = [run EXCEPT ![r] = x]
      BY <1>0, <2>4 DEF RunsInPlan
    <3> QED BY <1>0, <3>2, <3>3, OneRunMoves
  <2>5. RunsInPlan'
    BY <1>7, <2>2, <2>3, <2>4 DEF DecideWaiting
  <2>6. lastMission' \in Runs \union {NoRun}
    BY <1>0, <1>7 DEF DecideWaiting, ForgetMission
  <2>7. Gate!GateTypeOK'
    BY <1>0, <1>7 DEF DecideWaiting, Gate!Resolve, Gate!GateTypeOK, Gate!Status, Gate!Answer
  <2> QED BY <1>0, <1>7, <2>5, <2>6, <2>7 DEF DecideWaiting
<1>8. ASSUME NEW c \in Card, NEW ok \in BOOLEAN, DecideAgain(c, ok)
      PROVE  RunsInPlan' /\ Rest'
  <2>1. Gate!GateTypeOK'
    BY <1>0, <1>8 DEF DecideAgain, Gate!Resolve, Gate!GateTypeOK, Gate!Status, Gate!Answer
  <2>2. RunsInPlan'
    BY <1>0, <1>8 DEF DecideAgain, RunsInPlan, InPlan
  <2> QED BY <1>0, <1>8, <2>1, <2>2 DEF DecideAgain
<1>9. ASSUME NEW r \in Runs, NEW ok \in BOOLEAN, NEW m \in {r, NoRun},
             NEW p \in Plans \union {<<>>}, FinishAct(r, ok, m, p)
      PROVE  RunsInPlan' /\ Rest'
  <2> DEFINE entry == [tool |-> NextTool(r), simulated |-> status[CardOf(r)] # "none",
                       approved |-> TRUE, ok |-> ok, mission |-> m]
             fails == run[r].skill /\ ~ok /\ ~run[r].replanned
  <2>1. /\ Index(r) < Len(run[r].plan)
        /\ NextTool(r) \in Tools
    BY <1>9, InRange DEF FinishAct, TInv, LoopInv, ActingPC
  <2>2. entry \in Result
    BY <2>1 DEF Result
  <2>3. ASSUME fails PROVE RunsInPlan'
    <3> DEFINE x == [run[r] EXCEPT !.pc = "ready", !.plan = p, !.skill = FALSE,
                                   !.replanned = TRUE,
                                   !.results = Append(run[r].results, entry)]
    <3>1. p \in Plans
      BY <1>9, <2>3 DEF FinishAct
    <3>2. InPlan(x)
      <4>1. run[r].results \in Seq(Result) /\ run[r] \in Run
        BY <1>0 DEF RunsInPlan, Run
      <4>2. Len(run[r].results) = 0
        <5>1. ~run[r].replanned /\ Len(run[r].plan) = 1
          BY <1>0, <2>3 DEF RunsInPlan, InPlan
        <5>2. Len(run[r].results) \in Nat
          BY <4>1
        <5> QED BY <2>1, <5>1, <5>2 DEF Index
      <4>3. /\ Append(run[r].results, entry) \in Seq(Result)
            /\ Len(Append(run[r].results, entry)) = 1
        BY <2>2, <4>1, <4>2
      <4>4. Len(p) \in Nat
        BY PlansAreShort DEF AnyPlan
      <4>5. x \in Run
        BY <3>1, <4>1, <4>3 DEF Run, PC
      <4> QED BY <4>1, <4>3, <4>4, <4>5 DEF InPlan, Run, ActingPC
    <3>3. run' = [run EXCEPT ![r] = x]
      BY <1>0, <1>9, <2>3 DEF FinishAct, RunsInPlan
    <3> QED BY <1>0, <3>2, <3>3, OneRunMoves
  <2>4. ASSUME ~fails PROVE RunsInPlan'
    <3> DEFINE x == [run[r] EXCEPT !.pc = "ready",
                                   !.results = Append(run[r].results, entry)]
    <3>1. InPlan(x)
      BY <1>0, <2>1, <2>2, EntryAdded
    <3>2. run' = [run EXCEPT ![r] = x]
      BY <1>0, <1>9, <2>4 DEF FinishAct, RunsInPlan
    <3> QED BY <1>0, <3>1, <3>2, OneRunMoves
  <2>5. lastMission' \in Runs \union {NoRun} /\ skills' \in [Tools -> Skill]
    BY <1>0, <1>9, <2>1 DEF FinishAct, Skill
  <2> QED BY <1>0, <1>9, <2>3, <2>4, <2>5 DEF FinishAct, Gate!GateTypeOK
<1>10. ASSUME NEW r \in Runs, BeginStream(r) \/ TypeLastChunk(r)
       PROVE  RunsInPlan' /\ Rest'
  <2> PICK pc \in {"stream", "typed"} : run' = [run EXCEPT ![r].pc = pc]
    BY <1>10 DEF BeginStream, TypeLastChunk
  <2> DEFINE x == [run[r] EXCEPT !.pc = pc]
  <2>1. InPlan(x)
    BY <1>0 DEF RunsInPlan, InPlan, Run, PC, ActingPC
  <2>2. run' = [run EXCEPT ![r] = x]
    BY <1>0 DEF RunsInPlan
  <2>3. RunsInPlan'
    BY <1>0, <2>1, <2>2, OneRunMoves
  <2> QED BY <1>0, <1>10, <2>3 DEF BeginStream, TypeLastChunk, Gate!GateTypeOK
<1>11. ASSUME NEW r \in Runs, NEW learn \in BOOLEAN, BeginMint(r, learn)
       PROVE  RunsInPlan' /\ Rest'
  <2> DEFINE x == [run[r] EXCEPT !.pc = "mint"]
  <2>1. InPlan(x)
    BY <1>0 DEF RunsInPlan, InPlan, Run, PC, ActingPC
  <2>2. run' = [run EXCEPT ![r] = x]
    BY <1>0, <1>11 DEF BeginMint, RunsInPlan
  <2>3. RunsInPlan'
    BY <1>0, <2>1, <2>2, OneRunMoves
  <2>4. skills' \in [Tools -> Skill]
    BY <1>0, <1>11 DEF BeginMint, Skill
  <2> QED BY <1>0, <1>11, <2>3, <2>4 DEF BeginMint, Gate!GateTypeOK
<1>12. ASSUME NEW r \in Runs, Mint(r)
       PROVE  RunsInPlan' /\ Rest'
  <2> PICK msg \in {"final", "interrupted"} :
        run' = [run EXCEPT ![r] = [run[r] EXCEPT !.pc = "done", !.msg = msg]]
    BY <1>0, <1>12 DEF Mint, AbortedRun, RunsInPlan
  <2>1. InPlan([run[r] EXCEPT !.pc = "done", !.msg = msg])
    BY <1>0 DEF RunsInPlan, InPlan, Run, PC, ActingPC
  <2>2. RunsInPlan'
    BY <1>0, <2>1, OneRunMoves
  <2> QED BY <1>0, <1>12, <2>2 DEF Mint, Gate!GateTypeOK
<1>13. ASSUME NEW t \in Tools, Retier(t)
       PROVE  RunsInPlan' /\ Rest'
  BY <1>0, <1>13 DEF Retier, MoveTier, RunsInPlan, InPlan, Gate!GateTypeOK
<1>14. CASE Restart
  <2>1. ASSUME NEW r \in Runs
        PROVE  InPlan(run'[r]) /\ run'[r] \in Run
    <3>1. run[r] \in Run /\ InPlan(run[r])
      BY <1>0 DEF RunsInPlan
    <3>2. 0 \in 0 .. MaxToken
      BY BoundsAssumption
    <3>3. CASE run[r].pc \in Parked
      <4>1. run'[r] = [run[r] EXCEPT !.pc = "lost", !.token = 0]
        BY <1>14, <3>3 DEF Restart
      <4> QED BY <3>1, <3>2, <4>1 DEF InPlan, Run, PC, ActingPC
    <3>4. CASE run[r].pc \notin Parked
      <4>1. run'[r] = [run[r] EXCEPT !.token = 0]
        BY <1>14, <3>4 DEF Restart
      <4> QED BY <3>1, <3>2, <4>1 DEF InPlan, Run, PC, ActingPC
    <3> QED BY <3>3, <3>4
  <2>2. RunsInPlan'
    BY <1>14, <2>1 DEF Restart, RunsInPlan, InPlan
  <2>3. Gate!GateTypeOK'
    BY <1>0, <1>14 DEF Restart, Gate!GateRestart, Gate!GateTypeOK
  <2>4. /\ runToken' \in 0 .. MaxToken
        /\ restarts' \in 0 .. MaxRestarts
    <3>1. runToken' = 0 /\ restarts < MaxRestarts /\ restarts' = restarts + 1
      BY <1>14 DEF Restart
    <3> QED BY <1>0, <3>1, BoundsAssumption
  <2> QED BY <1>0, <1>14, <2>2, <2>3, <2>4, ToolsAssumption, TiersAssumption DEF Restart
<1> QED
  BY <1>1, <1>2, <1>3, <1>4, <1>5, <1>6, <1>7, <1>8, <1>9, <1>10, <1>11, <1>12,
     <1>13, <1>14, ReansweredAssumption DEF Next, RunStep

(* Every value stays of its type: the loop never runs past its plan, and   *)
(* no card is asked for beyond the steps a plan can have.                  *)
THEOREM TypeCorrect == Spec => []TypeOK
<1>1. Spec => []TInv
  BY InitTInv, StepTInv, PTL DEF Spec
<1>2. TInv => TypeOK
  BY DEF TInv
<1> QED BY <1>1, <1>2, PTL

-----------------------------------------------------------------------------
(* The cards.                                                              *)

Before == {"idle", "ready", "simulate"}

(* A card exists from the moment its run asks for it, and not before; no   *)
(* built-in risky tool acts without one.                                   *)
CardInv ==
  /\ BuiltinRisky \subseteq risky
  /\ \A c \in Card : status[c] = "none" => answer[c] = "none"
  /\ \A r \in Runs :
       /\ run[r].pc = "idle" => run[r].results = <<>>
       /\ \A k \in Steps : k > StepNo(r) => status[<<r, k>>] = "none"
       /\ run[r].pc \in Before /\ StepNo(r) \in Steps => status[CardOf(r)] = "none"
       /\ run[r].pc = "act" /\ status[CardOf(r)] = "none" => NextTool(r) \notin BuiltinRisky

GateInv == CardInv /\ ParkedRunsHaveCards /\ ConsentBeforeEffect

LEMMA ParkedOneByOne ==
  ParkedRunsHaveCards <=>
    /\ \A r \in Runs : run[r].pc = "gate" => CardOf(r) \in waiting
    /\ \A c \in waiting : \E r \in Runs : run[r].pc = "gate" /\ c = CardOf(r)
    /\ Gate!WaitersUndecided
BY DEF ParkedRunsHaveCards

(* A step is quiet if it leaves the cards alone and lets no run pass the   *)
(* gate: all it may do is start an action that is not risky by definition. *)
Quiet ==
  /\ UNCHANGED <<status, waiting, answer>>
  /\ BuiltinRisky \subseteq risky'
  /\ \A r \in Runs :
       /\ run'[r].results = run[r].results
       /\ run'[r].pc = "gate" <=> run[r].pc = "gate"
       /\ run'[r].pc \in Before => run[r].pc \in Before
       /\ run'[r].pc = "idle" => run[r].pc = "idle"
       /\ run'[r].pc = "act" =>
            /\ NextTool(r)' = NextTool(r)
            /\ \/ run[r].pc = "act"
               \/ /\ run[r].pc \in Before /\ StepNo(r) \in Steps
                  /\ NextTool(r) \notin BuiltinRisky

LEMMA QuietSteps ==
  ASSUME TInv, GateInv, Quiet
  PROVE  GateInv'
<1>1. \A r \in Runs : StepNo(r)' = StepNo(r) /\ CardOf(r)' = CardOf(r)
  BY DEF Quiet, StepNo, CardOf
<1>2. CardInv'
  BY <1>1 DEF GateInv, CardInv, Quiet
<1>3. ParkedRunsHaveCards'
  <2>1. Gate!WaitersUndecided'
    BY DEF GateInv, ParkedRunsHaveCards, Quiet, Gate!WaitersUndecided
  <2>2. \A r \in Runs : run'[r].pc = "gate" => CardOf(r)' \in waiting'
    BY <1>1, ParkedOneByOne DEF GateInv, Quiet
  <2>3. \A c \in waiting' : \E r \in Runs : run'[r].pc = "gate" /\ c = CardOf(r)'
    BY <1>1, ParkedOneByOne DEF GateInv, Quiet
  <2> QED BY <2>1, <2>2, <2>3 DEF ParkedRunsHaveCards
<1>4. ConsentBeforeEffect'
  BY <1>1 DEF GateInv, CardInv, ConsentBeforeEffect, Quiet
<1> QED BY <1>2, <1>3, <1>4 DEF GateInv

LEMMA InitGateInv == Init => GateInv
BY ToolsAssumption, TiersAssumption DEF Init, GateInv, CardInv, ParkedRunsHaveCards, ConsentBeforeEffect,
   Gate!GateInit, Gate!WaitersUndecided, Card, CardOf, StepNo, Before

LEMMA QuietActions ==
  ASSUME TInv, GateInv,
         \/ UNCHANGED vars
         \/ Stop
         \/ \E t \in Tools : Retier(t)
         \/ \E r \in Runs :
              \/ \E p, replay : Send(r, p, replay)
              \/ Abort(r)
              \/ BeginAction(r)
              \/ BeginStream(r)
              \/ TypeLastChunk(r)
              \/ \E learn \in BOOLEAN : BeginMint(r, learn)
              \/ Mint(r)
  PROVE  Quiet
<1> USE DEF Quiet, Before
<1>1. /\ run \in [Runs -> Run]
      /\ \A q \in Runs : run[q] \in Run
      /\ BuiltinRisky \subseteq risky
  BY DEF TInv, TypeOK, GateInv, CardInv
<1>2. CASE UNCHANGED vars
  BY <1>1, <1>2 DEF vars, NextTool, Index
<1>3. ASSUME NEW r \in Runs, \E p, replay : Send(r, p, replay) PROVE Quiet
  <2>1. PICK p, replay :
          /\ run[r].pc = "idle"
          /\ UNCHANGED <<status, waiting, answer, risky>>
          /\ run' = [run EXCEPT ![r] =
                      [pc |-> "ready", token |-> runToken + 1, plan |-> p,
                       skill |-> replay, replanned |-> FALSE, results |-> <<>>,
                       msg |-> "streaming"]]
    BY <1>3 DEF Send
  <2>2. run[r].results = <<>>
    BY <2>1 DEF GateInv, CardInv
  <2>3. \A q \in Runs : q # r => run'[q] = run[q]
    BY <1>1, <2>1
  <2>4. run'[r].pc = "ready" /\ run'[r].results = <<>>
    BY <1>1, <2>1
  <2> QED BY <1>1, <2>1, <2>2, <2>3, <2>4 DEF NextTool, Index
<1>4. CASE Stop
  BY <1>1, <1>4 DEF Stop, NextTool, Index
<1>5. ASSUME NEW r \in Runs, Abort(r) PROVE Quiet
  BY <1>1, <1>5 DEF Abort, AbortedRun, Run, NextTool, Index
<1>6. ASSUME NEW r \in Runs, BeginAction(r) PROVE Quiet
  <2>1. StepNo(r) \in Steps
    BY <1>6, InRange DEF BeginAction, CardOf, Card
  <2>2. /\ run[r].pc = "ready"
        /\ UNCHANGED <<status, waiting, answer, risky>>
        /\ run' = [run EXCEPT ![r].pc = IF NextTool(r) \in risky THEN "simulate" ELSE "act"]
    BY <1>6 DEF BeginAction
  <2>3. \A q \in Runs : NextTool(q)' = NextTool(q)
    BY <1>1, <2>2 DEF NextTool, Index, Run
  <2> QED BY <1>1, <2>1, <2>2, <2>3 DEF Run
<1>7. ASSUME NEW r \in Runs, BeginStream(r) PROVE Quiet
  BY <1>1, <1>7 DEF BeginStream, Run, NextTool, Index
<1>8. ASSUME NEW r \in Runs, TypeLastChunk(r) PROVE Quiet
  BY <1>1, <1>8 DEF TypeLastChunk, Run, NextTool, Index
<1>9. ASSUME NEW r \in Runs, \E learn \in BOOLEAN : BeginMint(r, learn) PROVE Quiet
  <2>1. /\ run[r].pc = "typed"
        /\ UNCHANGED <<status, waiting, answer, risky>>
        /\ run' = [run EXCEPT ![r].pc = "mint"]
    BY <1>9 DEF BeginMint
  <2> QED BY <1>1, <2>1 DEF Run, NextTool, Index
<1>10. ASSUME NEW r \in Runs, Mint(r) PROVE Quiet
  BY <1>1, <1>10 DEF Mint, AbortedRun, Run, NextTool, Index
<1>11. CASE \E t \in Tools : Retier(t)
  BY <1>1, <1>11 DEF Retier, MoveTier, NextTool, Index
<1> QED BY <1>2, <1>3, <1>4, <1>5, <1>6, <1>7, <1>8, <1>9, <1>10, <1>11

(* Every recorded step lies before the current one, and could have a card. *)
LEMMA RecordedSteps ==
  ASSUME TInv, NEW r \in Runs
  PROVE  /\ StepNo(r) \in Nat \ {0}
         /\ \A k \in DOMAIN run[r].results : k \in Steps /\ k < StepNo(r)
<1>1. run[r].results \in Seq(Result) /\ Len(run[r].plan) \in 0 .. MaxPlan
  BY PlansAreShort DEF TInv, TypeOK, Run, AnyPlan
<1>2. Len(run[r].results) \in 0 .. MaxPlan + 1
  BY <1>1, PlansAssumption DEF TInv, TypeOK
<1> QED BY <1>1, <1>2, PlansAssumption DEF StepNo, Steps

LEMMA RequestKeeps ==
  ASSUME TInv, GateInv, NEW r \in Runs, RequestGate(r)
  PROVE  GateInv'
<1>1. /\ run \in [Runs -> Run]
      /\ run[r].pc = "simulate"
      /\ run' = [run EXCEPT ![r].pc = "gate"]
      /\ risky' = risky
      /\ CardOf(r) \in Card
  BY InRange DEF RequestGate, TInv, TypeOK, LoopInv, ActingPC
<1>2. /\ status \in [Card -> Gate!Status]
      /\ status[CardOf(r)] = "none"
      /\ status' = [status EXCEPT ![CardOf(r)] = "pending"]
      /\ waiting' = waiting \union {CardOf(r)}
      /\ answer' = answer
  BY DEF RequestGate, Gate!Request, TInv, TypeOK, Gate!GateTypeOK
<1>3. \A q \in Runs :
        /\ run'[q].results = run[q].results
        /\ StepNo(q)' = StepNo(q)
        /\ CardOf(q)' = CardOf(q)
        /\ NextTool(q)' = NextTool(q)
        /\ run'[q].pc = IF q = r THEN "gate" ELSE run[q].pc
  BY <1>1 DEF Run, StepNo, CardOf, NextTool, Index
<1>4. \A q \in Runs, k \in Steps :
        <<q, k>> # CardOf(r) => status'[<<q, k>>] = status[<<q, k>>]
  BY <1>2 DEF Card
<1>5. \A q \in Runs : q # r => CardOf(q) # CardOf(r)
  BY DEF CardOf
<1>6. CardInv'
  <2>1. \A c \in Card : status'[c] = "none" => answer'[c] = "none"
    BY <1>2 DEF GateInv, CardInv
  <2>2. ASSUME NEW q \in Runs, NEW k \in Steps, k > StepNo(q)
        PROVE  status'[<<q, k>>] = "none"
    <3>1. k # StepNo(q)
      BY <2>2, RecordedSteps DEF Steps
    <3> QED BY <1>4, <2>2, <3>1 DEF GateInv, CardInv, CardOf
  <2>3. \A q \in Runs : run'[q].pc \in Before /\ StepNo(q) \in Steps => status'[CardOf(q)] = "none"
    BY <1>2, <1>3, <1>5 DEF GateInv, CardInv, Before, CardOf, Card
  <2>4. \A q \in Runs : run'[q].pc = "act" => status'[CardOf(q)] = status[CardOf(q)]
    BY <1>1, <1>2, <1>3, <1>5
  <2> QED BY <1>1, <1>3, <2>1, <2>2, <2>3, <2>4 DEF GateInv, CardInv
<1>7. ParkedRunsHaveCards'
  <2>1. Gate!WaitersUndecided'
    BY <1>1, <1>2 DEF GateInv, CardInv, ParkedRunsHaveCards, Gate!WaitersUndecided
  <2>2. \A q \in Runs : run'[q].pc = "gate" => CardOf(q)' \in waiting'
    BY <1>2, <1>3, ParkedOneByOne DEF GateInv
  <2>3. \A c \in waiting' : \E q \in Runs : run'[q].pc = "gate" /\ c = CardOf(q)'
    BY <1>2, <1>3, ParkedOneByOne DEF GateInv
  <2> QED BY <2>1, <2>2, <2>3 DEF ParkedRunsHaveCards
<1>8. ConsentBeforeEffect'
  <2>1. ASSUME NEW q \in Runs, NEW k \in DOMAIN run[q].results
        PROVE  status'[<<q, k>>] = status[<<q, k>>]
    BY <1>4, <2>1, RecordedSteps DEF CardOf
  <2>2. \A q \in Runs : run'[q].pc = "act" => status'[CardOf(q)] = status[CardOf(q)]
    BY <1>1, <1>2, <1>3, <1>5
  <2> QED BY <1>1, <1>2, <1>3, <2>1, <2>2 DEF GateInv, ConsentBeforeEffect
<1> QED BY <1>6, <1>7, <1>8 DEF GateInv

(* What an answer does to the cards when run r, parked at the gate, waits  *)
(* for it; the run itself may go anywhere but back.                        *)
LEMMA DecideWaitingKeeps ==
  ASSUME TInv, GateInv, NEW r \in Runs, NEW ok \in BOOLEAN, DecideWaiting(r, ok)
  PROVE  GateInv'
<1> DEFINE card == CardOf(r)
<1>1. /\ run \in [Runs -> Run]
      /\ run[r].pc = "gate"
      /\ card \in Card /\ card \in waiting
      /\ Index(r) < Len(run[r].plan)
      /\ risky' = risky
  BY InRange DEF DecideWaiting, TInv, TypeOK, LoopInv, ActingPC
<1>2. /\ status' = [status EXCEPT ![card] = IF ok THEN "approved" ELSE "denied"]
      /\ waiting' = waiting \ {card}
      /\ answer' = [answer EXCEPT ![card] = IF ok THEN "yes" ELSE "no"]
      /\ status \in [Card -> Gate!Status]
      /\ answer \in [Card -> Gate!Answer]
  BY <1>1 DEF DecideWaiting, Gate!Resolve, TInv, TypeOK, Gate!GateTypeOK
<1>3. \A q \in Runs : q # r => run'[q] = run[q]
  BY <1>1 DEF DecideWaiting
<1>4. \A q \in Runs : q # r =>
        /\ StepNo(q)' = StepNo(q)
        /\ CardOf(q)' = CardOf(q)
        /\ NextTool(q)' = NextTool(q)
        /\ CardOf(q) # card
  BY <1>3 DEF StepNo, CardOf, NextTool, Index
<1>5. \A c \in Card : c # card => status'[c] = status[c] /\ answer'[c] = answer[c]
  BY <1>2
<1>6. /\ status'[card] = IF ok THEN "approved" ELSE "denied"
      /\ answer'[card] = IF ok THEN "yes" ELSE "no"
  BY <1>1, <1>2
<1>7. \/ /\ run'[r].pc \in {"done", "act"}
         /\ run'[r].results = run[r].results
         /\ run'[r].pc = "act" => ok
      \/ /\ run'[r].pc = "ready" /\ ~ok
         /\ run'[r].results = Append(run[r].results, DeniedResult(r))
  <2>1. CASE run' = [run EXCEPT ![r] = AbortedRun(r)]
    BY <1>1, <2>1 DEF AbortedRun, Run
  <2>2. CASE ok /\ run' = [run EXCEPT ![r].pc = "act"]
    BY <1>1, <2>2 DEF Run
  <2>3. CASE ~ok /\ run' = [run EXCEPT ![r].pc = "ready",
                                       ![r].results = Append(@, DeniedResult(r))]
    BY <1>1, <2>3 DEF Run
  <2> QED BY <2>1, <2>2, <2>3 DEF DecideWaiting
<1>8. run[r].results \in Seq(Result) /\ DeniedResult(r) \in Result
  BY <1>1, InRange DEF Run, DeniedResult, Result, TInv, TypeOK
<1>9. StepNo(r)' \in {StepNo(r), StepNo(r) + 1}
  BY <1>7, <1>8 DEF StepNo
<1>10. run'[r].pc = "ready" => StepNo(r)' = StepNo(r) + 1
  BY <1>7, <1>8 DEF StepNo
<1>11. run'[r].pc # "ready" => StepNo(r)' = StepNo(r) /\ CardOf(r)' = card
  BY <1>7 DEF StepNo, CardOf
<1>12. CardInv'
  <2>1. \A c \in Card : status'[c] = "none" => answer'[c] = "none"
    BY <1>5, <1>6 DEF GateInv, CardInv
  <2>2. ASSUME NEW q \in Runs, NEW k \in Steps, k > StepNo(q)'
        PROVE  status'[<<q, k>>] = "none"
    <3>1. k > StepNo(q) /\ <<q, k>> # card /\ <<q, k>> \in Card
      BY <1>4, <1>9, <2>2, RecordedSteps DEF CardOf, Card, Steps
    <3> QED BY <1>5, <3>1 DEF GateInv, CardInv
  <2>3. ASSUME NEW q \in Runs, run'[q].pc \in Before, StepNo(q)' \in Steps
        PROVE  status'[CardOf(q)'] = "none"
    <3>1. CASE q = r
      <4>1. StepNo(r)' = StepNo(r) + 1 /\ StepNo(r)' > StepNo(r)
        BY <1>7, <1>10, <2>3, <3>1, RecordedSteps DEF Before
      <4>2. /\ CardOf(r)' = <<r, StepNo(r)'>> /\ CardOf(r)' \in Card
            /\ CardOf(r)' # card
        BY <2>3, <3>1, <4>1, RecordedSteps DEF CardOf, Card
      <4> QED BY <1>5, <2>3, <3>1, <4>1, <4>2 DEF GateInv, CardInv
    <3>2. CASE q # r
      BY <1>3, <1>4, <1>5, <2>3, <3>2 DEF GateInv, CardInv, CardOf, Card
    <3> QED BY <3>1, <3>2
  <2>4. ASSUME NEW q \in Runs, run'[q].pc = "act", status'[CardOf(q)'] = "none"
        PROVE  NextTool(q)' \notin BuiltinRisky
    <3>1. q # r
      BY <1>6, <1>11, <2>4
    <3>2. CardOf(q) \in Card
      BY <1>3, <2>4, <3>1, InRange DEF TInv, LoopInv, ActingPC
    <3> QED BY <1>3, <1>4, <1>5, <2>4, <3>1, <3>2 DEF GateInv, CardInv
  <2>5. \A q \in Runs : run'[q].pc # "idle" \/ run'[q].results = <<>>
    BY <1>3, <1>7 DEF GateInv, CardInv
  <2> QED BY <1>1, <2>1, <2>2, <2>3, <2>4, <2>5 DEF GateInv, CardInv
<1>13. ParkedRunsHaveCards'
  <2>1. Gate!WaitersUndecided'
    BY <1>2 DEF GateInv, ParkedRunsHaveCards, Gate!WaitersUndecided, TInv, TypeOK, Gate!GateTypeOK
  <2>2. \A q \in Runs : run'[q].pc = "gate" => CardOf(q)' \in waiting'
    BY <1>2, <1>3, <1>4, <1>7, ParkedOneByOne DEF GateInv
  <2>3. \A c \in waiting' : \E q \in Runs : run'[q].pc = "gate" /\ c = CardOf(q)'
    <3> TAKE c \in waiting'
    <3>1. PICK q \in Runs : run[q].pc = "gate" /\ c = CardOf(q) /\ c # card
      BY <1>2, ParkedOneByOne DEF GateInv
    <3> QED BY <1>3, <1>4, <3>1
  <2> QED BY <2>1, <2>2, <2>3 DEF ParkedRunsHaveCards
<1>14. ConsentBeforeEffect'
  <2>1. ASSUME NEW q \in Runs, NEW k \in DOMAIN run[q].results
        PROVE  /\ status'[<<q, k>>] = status[<<q, k>>]
               /\ answer'[<<q, k>>] = answer[<<q, k>>]
    <3>1. <<q, k>> \in Card /\ <<q, k>> # card
      BY <2>1, RecordedSteps DEF CardOf, Card
    <3> QED BY <1>5, <3>1
  <2>2. ASSUME NEW q \in Runs, run'[q].pc = "act", status'[CardOf(q)'] # "none"
        PROVE  answer'[CardOf(q)'] = "yes"
    <3>1. CASE q = r
      BY <1>6, <1>7, <1>11, <2>2, <3>1
    <3>2. CASE q # r
      <4>1. CardOf(q) \in Card
        BY <1>3, <2>2, <3>2, InRange DEF TInv, LoopInv, ActingPC
      <4> QED BY <1>3, <1>4, <1>5, <2>2, <3>2, <4>1 DEF GateInv, ConsentBeforeEffect
    <3> QED BY <3>1, <3>2
  <2>3. CASE run'[r].results = run[r].results
    BY <1>3, <2>1, <2>2, <2>3 DEF GateInv, ConsentBeforeEffect
  <2>4. CASE run'[r].pc = "ready" /\ ~ok /\ run'[r].results = Append(run[r].results, DeniedResult(r))
    <3>1. ASSUME NEW k \in DOMAIN run'[r].results
          PROVE  \/ k \in DOMAIN run[r].results /\ run'[r].results[k] = run[r].results[k]
                 \/ <<r, k>> = card /\ run'[r].results[k] = DeniedResult(r)
      BY <1>8, <2>4, <3>1 DEF CardOf, StepNo
    <3>2. DeniedResult(r).simulated /\ ~DeniedResult(r).approved
      BY DEF DeniedResult
    <3>3. \A k \in DOMAIN run'[r].results :
            LET e == run'[r].results[k] IN
            /\ e.simulated => answer'[<<r, k>>] = IF e.approved THEN "yes" ELSE "no"
            /\ ~e.simulated => /\ e.approved /\ status'[<<r, k>>] = "none"
                               /\ e.tool \notin BuiltinRisky
      BY <1>6, <2>1, <2>4, <3>1, <3>2 DEF GateInv, ConsentBeforeEffect
    <3> QED BY <1>3, <2>1, <2>2, <3>3 DEF GateInv, ConsentBeforeEffect
  <2> QED BY <1>7, <2>3, <2>4
<1> QED BY <1>12, <1>13, <1>14 DEF GateInv

LEMMA DecideAgainKeeps ==
  ASSUME TInv, GateInv, NEW c \in Card, NEW ok \in BOOLEAN, DecideAgain(c, ok)
  PROVE  GateInv'
<1>1. /\ c \notin waiting /\ status[c] # "none"
      /\ status' = [status EXCEPT ![c] = IF ok THEN "approved" ELSE "denied"]
      /\ status \in [Card -> Gate!Status]
      /\ UNCHANGED <<run, waiting, answer, risky>>
  BY DEF DecideAgain, Gate!Resolve, TInv, TypeOK, Gate!GateTypeOK
<1>2. \A d \in Card : status'[d] = "none" <=> status[d] = "none"
  BY <1>1
<1>3. \A q \in Runs : /\ StepNo(q)' = StepNo(q)
                      /\ CardOf(q)' = CardOf(q)
                      /\ NextTool(q)' = NextTool(q)
  BY <1>1 DEF StepNo, CardOf, NextTool, Index
<1>4. CardInv'
  <2>1. \A q \in Runs : StepNo(q) \in Steps => CardOf(q) \in Card
    BY DEF CardOf, Card
  <2>2. \A q \in Runs : run[q].pc = "act" => CardOf(q) \in Card
    BY InRange DEF TInv, LoopInv, ActingPC
  <2>3. \A q \in Runs, k \in Steps : <<q, k>> \in Card
    BY DEF Card
  <2> QED BY <1>1, <1>2, <1>3, <2>1, <2>2, <2>3 DEF GateInv, CardInv
<1>5. ParkedRunsHaveCards'
  <2>1. Gate!WaitersUndecided'
    BY <1>1 DEF GateInv, ParkedRunsHaveCards, Gate!WaitersUndecided, TInv, TypeOK, Gate!GateTypeOK
  <2> QED BY <1>1, <1>3, <2>1 DEF GateInv, ParkedRunsHaveCards
<1>6. ConsentBeforeEffect'
  <2>1. \A q \in Runs : \A k \in DOMAIN run[q].results : <<q, k>> \in Card
    BY RecordedSteps DEF Card
  <2>2. \A q \in Runs : run[q].pc = "act" => CardOf(q) \in Card
    BY InRange DEF TInv, LoopInv, ActingPC
  <2> QED BY <1>1, <1>2, <1>3, <2>1, <2>2 DEF GateInv, ConsentBeforeEffect
<1> QED BY <1>4, <1>5, <1>6 DEF GateInv

LEMMA FinishActKeeps ==
  ASSUME TInv, GateInv, NEW r \in Runs, NEW ok \in BOOLEAN, NEW m, NEW p,
         FinishAct(r, ok, m, p)
  PROVE  GateInv'
<1> DEFINE entry == [tool |-> NextTool(r), simulated |-> status[CardOf(r)] # "none",
                     approved |-> TRUE, ok |-> ok, mission |-> m]
<1>1. /\ run \in [Runs -> Run]
      /\ run[r].pc = "act"
      /\ run[r].results \in Seq(Result)
      /\ CardOf(r) \in Card
      /\ UNCHANGED <<status, waiting, answer, risky>>
  BY InRange DEF FinishAct, TInv, TypeOK, LoopInv, ActingPC, Run
<1>2. \A q \in Runs : q # r => run'[q] = run[q]
  BY <1>1 DEF FinishAct
<1>3. run'[r].pc = "ready" /\ run'[r].results = Append(run[r].results, entry)
  <2>1. CASE run[r].skill /\ ~ok /\ ~run[r].replanned
    BY <1>1, <2>1 DEF FinishAct, Run
  <2>2. CASE ~(run[r].skill /\ ~ok /\ ~run[r].replanned)
    BY <1>1, <2>2 DEF FinishAct, Run
  <2> QED BY <2>1, <2>2
<1>4. \A q \in Runs : q # r => /\ StepNo(q)' = StepNo(q)
                               /\ CardOf(q)' = CardOf(q)
                               /\ NextTool(q)' = NextTool(q)
  BY <1>2 DEF StepNo, CardOf, NextTool, Index
<1>5. StepNo(r)' = StepNo(r) + 1 /\ StepNo(r)' > StepNo(r)
  <2>1. StepNo(r)' = StepNo(r) + 1
    BY <1>1, <1>3 DEF StepNo
  <2> QED BY <2>1, RecordedSteps
<1>6. CardInv'
  <2>1. ASSUME NEW q \in Runs, NEW k \in Steps, k > StepNo(q)'
        PROVE  status'[<<q, k>>] = "none"
    <3>1. k > StepNo(q)
      BY <1>4, <1>5, <2>1, RecordedSteps DEF Steps
    <3> QED BY <1>1, <3>1 DEF GateInv, CardInv
  <2>2. ASSUME NEW q \in Runs, run'[q].pc \in Before, StepNo(q)' \in Steps
        PROVE  status'[CardOf(q)'] = "none"
    <3>1. CASE q = r
      BY <1>1, <1>5, <2>2, <3>1 DEF GateInv, CardInv, CardOf
    <3>2. CASE q # r
      BY <1>1, <1>2, <1>4, <2>2, <3>2 DEF GateInv, CardInv
    <3> QED BY <3>1, <3>2
  <2> QED BY <1>1, <1>2, <1>3, <1>4, <2>1, <2>2 DEF GateInv, CardInv
<1>7. ParkedRunsHaveCards'
  <2>1. Gate!WaitersUndecided'
    BY <1>1 DEF GateInv, ParkedRunsHaveCards, Gate!WaitersUndecided
  <2>2. \A q \in Runs : run'[q].pc = "gate" => CardOf(q)' \in waiting'
    BY <1>1, <1>2, <1>3, <1>4, ParkedOneByOne DEF GateInv
  <2>3. \A c \in waiting' : \E q \in Runs : run'[q].pc = "gate" /\ c = CardOf(q)'
    <3> TAKE c \in waiting'
    <3>1. PICK q \in Runs : run[q].pc = "gate" /\ c = CardOf(q)
      BY <1>1, ParkedOneByOne DEF GateInv
    <3> QED BY <1>1, <1>2, <1>4, <3>1
  <2> QED BY <2>1, <2>2, <2>3 DEF ParkedRunsHaveCards
<1>8. ConsentBeforeEffect'
  <2>1. ASSUME NEW k \in DOMAIN run'[r].results
        PROVE  \/ k \in DOMAIN run[r].results /\ run'[r].results[k] = run[r].results[k]
               \/ <<r, k>> = CardOf(r) /\ run'[r].results[k] = entry
    BY <1>1, <1>3, <2>1 DEF CardOf, StepNo
  <2>2. \A k \in DOMAIN run'[r].results :
          LET e == run'[r].results[k] IN
          /\ e.simulated => answer'[<<r, k>>] = IF e.approved THEN "yes" ELSE "no"
          /\ ~e.simulated => /\ e.approved /\ status'[<<r, k>>] = "none"
                             /\ e.tool \notin BuiltinRisky
    <3> TAKE k \in DOMAIN run'[r].results
    <3>1. CASE k \in DOMAIN run[r].results /\ run'[r].results[k] = run[r].results[k]
      BY <1>1, <3>1 DEF GateInv, ConsentBeforeEffect
    <3>2. CASE <<r, k>> = CardOf(r) /\ run'[r].results[k] = entry
      <4>1. /\ status[<<r, k>>] # "none" => answer[<<r, k>>] = "yes"
            /\ status[<<r, k>>] = "none" => NextTool(r) \notin BuiltinRisky
        BY <1>1, <3>2 DEF GateInv, CardInv, ConsentBeforeEffect
      <4>2. /\ entry.simulated <=> status[<<r, k>>] # "none"
            /\ entry.approved = TRUE /\ entry.tool = NextTool(r)
        BY <3>2
      <4> HIDE DEF entry
      <4> QED BY <1>1, <3>2, <4>1, <4>2
    <3> QED BY <2>1, <3>1, <3>2
  <2>3. run'[r].pc # "act" /\ \A q \in Runs : q # r => run'[q].pc = run[q].pc
    BY <1>2, <1>3
  <2> QED BY <1>1, <1>2, <1>4, <2>2, <2>3 DEF GateInv, ConsentBeforeEffect
<1> QED BY <1>6, <1>7, <1>8 DEF GateInv

LEMMA RestartKeeps ==
  ASSUME TInv, GateInv, Restart
  PROVE  GateInv'
<1>1. /\ run \in [Runs -> Run]
      /\ waiting' = {} /\ risky' = BuiltinRisky
      /\ UNCHANGED <<status, answer>>
  BY DEF Restart, Gate!GateRestart, TInv, TypeOK
<1>2. ASSUME NEW q \in Runs
      PROVE  /\ run'[q].results = run[q].results
             /\ run'[q].pc = IF run[q].pc \in Parked THEN "lost" ELSE run[q].pc
  BY <1>1 DEF Restart, Run
<1>3. ASSUME NEW q \in Runs
      PROVE  /\ StepNo(q)' = StepNo(q)
             /\ CardOf(q)' = CardOf(q)
             /\ run'[q].pc \notin {"gate", "act"}
             /\ run'[q].pc \in Before => run[q].pc \in Before
             /\ run'[q].pc = "idle" => run[q].pc = "idle"
  BY <1>2 DEF StepNo, CardOf, Parked, Before
<1>4. CardInv'
  BY <1>1, <1>2, <1>3 DEF GateInv, CardInv
<1>5. ParkedRunsHaveCards'
  BY <1>1, <1>3 DEF ParkedRunsHaveCards, Gate!WaitersUndecided
<1>6. ConsentBeforeEffect'
  BY <1>1, <1>2, <1>3 DEF GateInv, ConsentBeforeEffect
<1> QED BY <1>4, <1>5, <1>6 DEF GateInv

LEMMA StepGateInv ==
  ASSUME TInv, GateInv, [Next]_vars
  PROVE  GateInv'
<1>1. ASSUME NEW r \in Runs, RunStep(r)
      PROVE  GateInv'
  <2>1. CASE RequestGate(r)
    BY <2>1, RequestKeeps
  <2>2. ASSUME NEW ok \in BOOLEAN, NEW m \in {r, NoRun}, NEW p \in Plans \union {<<>>},
               FinishAct(r, ok, m, p)
        PROVE  GateInv'
    BY <2>2, FinishActKeeps
  <2>3. CASE \/ Abort(r) \/ BeginAction(r) \/ BeginStream(r) \/ TypeLastChunk(r)
             \/ Mint(r) \/ \E learn \in BOOLEAN : BeginMint(r, learn)
    BY <2>3, QuietActions, QuietSteps
  <2> QED BY <1>1, <2>1, <2>2, <2>3 DEF RunStep
<1>2. ASSUME NEW r \in Runs, NEW ok \in BOOLEAN, DecideWaiting(r, ok)
      PROVE  GateInv'
  BY <1>2, DecideWaitingKeeps
<1>3. ASSUME NEW c \in Reanswered, NEW ok \in BOOLEAN, DecideAgain(c, ok)
      PROVE  GateInv'
  BY <1>3, DecideAgainKeeps, ReansweredAssumption
<1>4. ASSUME NEW r \in Runs, NEW p, NEW replay, Send(r, p, replay)
      PROVE  GateInv'
  BY <1>4, QuietActions, QuietSteps
<1>5. CASE Restart
  BY <1>5, RestartKeeps
<1>6. CASE UNCHANGED vars \/ Stop \/ \E t \in Tools : Retier(t)
  BY <1>6, QuietActions, QuietSteps
<1> QED BY <1>1, <1>2, <1>3, <1>4, <1>5, <1>6 DEF Next

(* Whoever is parked at the gate is waited for under a card nobody has     *)
(* decided: no answer is lost, and none reaches a run that is elsewhere.   *)
THEOREM ParkedCorrect == Spec => []ParkedRunsHaveCards
<1>1. Spec => [](TInv /\ GateInv)
  BY InitTInv, StepTInv, InitGateInv, StepGateInv, PTL DEF Spec
<1>2. GateInv => ParkedRunsHaveCards
  BY DEF GateInv
<1> QED BY <1>1, <1>2, PTL

(* No built-in risky tool acts, in any run, under any change of the tiers, *)
(* without its own card having been granted; what was refused never ran.   *)
THEOREM ConsentCorrect == Spec => []ConsentBeforeEffect
<1>1. Spec => [](TInv /\ GateInv)
  BY InitTInv, StepTInv, InitGateInv, StepGateInv, PTL DEF Spec
<1>2. GateInv => ConsentBeforeEffect
  BY DEF GateInv
<1> QED BY <1>1, <1>2, PTL

(* A run that lost the token starts no further tool or mission.            *)
THEOREM StaleRunsCorrect == Spec => StaleRunNeverActs
<1> DEFINE A == \A r \in Runs : run[r].pc # "act" /\ run'[r].pc = "act" => Current(r)
<1>1. ASSUME TInv, [Next]_vars
      PROVE  A
  <2>1. SUFFICES ASSUME NEW r \in Runs, run[r].pc # "act", run'[r].pc = "act"
                 PROVE  Current(r)
    OBVIOUS
  <2>2. run \in [Runs -> Run] /\ \A q \in Runs : run[q] \in Run
    BY <1>1 DEF TInv, TypeOK
  <2>3. BeginAction(r) \/ \E ok \in BOOLEAN : DecideWaiting(r, ok)
    <3>1. ASSUME NEW q \in Runs, RunStep(q)
          PROVE  BeginAction(r)
      <4>1. ~(Abort(q) \/ RequestGate(q) \/ BeginStream(q) \/ TypeLastChunk(q) \/ Mint(q))
        BY <2>1, <2>2 DEF Abort, AbortedRun, RequestGate, BeginStream, TypeLastChunk, Mint, Run
      <4>2. ASSUME NEW learn, BeginMint(q, learn) PROVE FALSE
        <5>1. run' = [run EXCEPT ![q].pc = "mint"]
          BY <4>2 DEF BeginMint
        <5> QED BY <2>1, <2>2, <5>1 DEF Run
      <4>3. ASSUME NEW ok, NEW m, NEW p, FinishAct(q, ok, m, p) PROVE FALSE
        <5>1. (\A s \in Runs : s # q => run'[s] = run[s]) /\ run'[q].pc = "ready"
          BY <2>2, <4>3 DEF FinishAct, Run
        <5> QED BY <2>1, <5>1
      <4>4. BeginAction(q)
        BY <3>1, <4>1, <4>2, <4>3 DEF RunStep
      <4> QED BY <2>1, <2>2, <4>4 DEF BeginAction
    <3>2. ASSUME NEW q \in Runs, NEW ok \in BOOLEAN, DecideWaiting(q, ok)
          PROVE  q = r
      BY <2>1, <2>2, <3>2 DEF DecideWaiting
    <3>3. ASSUME NEW q \in Runs, NEW p, NEW replay, Send(q, p, replay)
          PROVE  FALSE
      <4>1. (\A s \in Runs : s # q => run'[s] = run[s]) /\ run'[q].pc = "ready"
        BY <2>2, <3>3 DEF Send
      <4> QED BY <2>1, <4>1
    <3>4. ~(UNCHANGED vars \/ Stop)
      BY <2>1 DEF vars, Stop
    <3>5. /\ \A c, ok : ~DecideAgain(c, ok)
          /\ \A t : ~Retier(t)
      BY <2>1 DEF DecideAgain, Retier, MoveTier
    <3>6. ~Restart
      <4>1. Restart => run'[r].pc = IF run[r].pc \in Parked THEN "lost" ELSE run[r].pc
        BY <2>2 DEF Restart, Run
      <4> QED BY <2>1, <4>1
    <3> QED BY <1>1, <3>1, <3>2, <3>3, <3>4, <3>5, <3>6 DEF Next
  <2>4. CASE BeginAction(r)
    BY <2>4 DEF BeginAction
  <2>5. ASSUME NEW ok \in BOOLEAN, DecideWaiting(r, ok)
        PROVE  Current(r)
    BY <2>1, <2>2, <2>5 DEF DecideWaiting, AbortedRun, Run
  <2> QED BY <2>3, <2>4, <2>5
<1>2. TInv /\ [Next]_vars => [A]_vars
  BY <1>1
<1>3. Spec => []TInv
  BY InitTInv, StepTInv, PTL DEF Spec
<1>4. Spec => [][A]_vars
  BY <1>2, <1>3, PTL DEF Spec
<1> QED BY <1>4 DEF StaleRunNeverActs

-----------------------------------------------------------------------------
(* The receipts.                                                           *)

Replaced(x) == IF x.replanned THEN 1 ELSE 0

(* Everything recorded since the plan at hand was made is an action of it, *)
(* in its order.                                                           *)
Follows(x) ==
  \A k \in 1 .. Len(x.results) - Replaced(x) :
    x.results[Replaced(x) + k].tool = x.plan[k]

Complete(x) == Len(x.results) - Replaced(x) = Len(x.plan)

(* x is the local state of a run whose record can become a receipt, has    *)
(* (v) or has not (~v).                                                    *)
Accounts(x, v) ==
  /\ Follows(x)
  /\ x.pc \in {"stream", "typed", "mint"} => Complete(x)
  /\ x.msg = "final" => x.pc = "done" /\ v /\ Complete(x)
  /\ v => x.pc = "done"

ReceiptInv == \A r \in Runs : Accounts(run[r], r \in vouched)

LEMMA InitReceiptInv == Init => ReceiptInv
BY DEF Init, ReceiptInv, Accounts, Follows, Replaced, Complete

(* A run that only goes on to x, or stays, leaves the other runs' records. *)
LEMMA OneRunAccounts ==
  ASSUME TInv, ReceiptInv, NEW r \in Runs, NEW x, Accounts(x, r \in vouched'),
         run' = [run EXCEPT ![r] = x], \A q \in Runs \ {r} : q \in vouched' <=> q \in vouched
  PROVE  ReceiptInv'
<1>1. run'[r] = x /\ \A q \in Runs : q # r => run'[q] = run[q]
  BY DEF TInv, TypeOK
<1>2. ASSUME NEW q \in Runs, q # r
      PROVE  Accounts(run'[q], q \in vouched')
  <2>1. run'[q] = run[q] /\ (q \in vouched' <=> q \in vouched)
    BY <1>1, <1>2
  <2> QED BY <2>1 DEF ReceiptInv, Accounts
<1> QED BY <1>1, <1>2 DEF ReceiptInv

(* Recording the plan's next action keeps the record in the plan's order.  *)
LEMMA EntryFollows ==
  ASSUME TInv, ReceiptInv, NEW r \in Runs, run[r].pc # "done", Index(r) < Len(run[r].plan),
         NEW e \in Result, e.tool = NextTool(r)
  PROVE  Accounts([run[r] EXCEPT !.pc = "ready", !.results = Append(run[r].results, e)],
                  r \in vouched)
<1> DEFINE x == [run[r] EXCEPT !.pc = "ready", !.results = Append(run[r].results, e)]
<1>1. /\ run[r] \in Run /\ run[r].results \in Seq(Result)
      /\ Index(r) \in Nat /\ Index(r) = Len(run[r].results) - Replaced(run[r])
      /\ Accounts(run[r], r \in vouched)
  <2>1. run[r] \in Run /\ run[r].results \in Seq(Result) /\ Accounts(run[r], r \in vouched)
    BY DEF TInv, TypeOK, Run, ReceiptInv
  <2>2. Index(r) = Len(run[r].results) - Replaced(run[r])
    BY DEF Index, Replaced
  <2>3. Len(run[r].plan) \in Nat
    BY <2>1, PlansAreShort DEF Run, AnyPlan
  <2> QED BY <2>1, <2>2, <2>3 DEF TInv, LoopInv
<1>2. /\ x.pc = "ready" /\ x.plan = run[r].plan /\ x.msg = run[r].msg
      /\ x.replanned = run[r].replanned /\ Replaced(x) = Replaced(run[r])
      /\ x.results = Append(run[r].results, e)
  BY <1>1 DEF Run, Replaced
<1>3. Follows(x)
  <2> SUFFICES ASSUME NEW k \in 1 .. Len(x.results) - Replaced(x)
               PROVE  x.results[Replaced(x) + k].tool = x.plan[k]
    BY DEF Follows
  <2>1. /\ Len(x.results) = Len(run[r].results) + 1 /\ Len(run[r].results) \in Nat
        /\ Replaced(run[r]) \in {0, 1}
    BY <1>1, <1>2 DEF Replaced
  <2>2. CASE k \in 1 .. Index(r)
    <3>1. Replaced(run[r]) + k \in 1 .. Len(run[r].results)
      BY <1>1, <2>1, <2>2
    <3>2. x.results[Replaced(x) + k] = run[r].results[Replaced(run[r]) + k]
      <4> DEFINE i == Replaced(run[r]) + k
      <4>1. i \in 1 .. Len(run[r].results)
        BY <3>1
      <4> HIDE DEF i
      <4>2. Append(run[r].results, e)[i] = run[r].results[i]
        BY <1>1, <4>1
      <4> QED BY <1>2, <4>2 DEF i
    <3> QED BY <1>1, <1>2, <2>2, <3>2 DEF Accounts, Follows
  <2>3. CASE k = Index(r) + 1
    <3>1. Replaced(x) + k = Len(run[r].results) + 1
      BY <1>1, <1>2, <2>1, <2>3
    <3>2. x.results[Replaced(x) + k] = e
      BY <1>1, <1>2, <3>1
    <3> QED BY <1>2, <2>3, <3>2 DEF NextTool
  <2> QED BY <1>1, <1>2, <2>1, <2>2, <2>3
<1> QED BY <1>1, <1>2, <1>3 DEF Accounts

LEMMA StepReceiptInv ==
  ASSUME TInv, ReceiptInv, [Next]_vars
  PROVE  ReceiptInv'
<1> DEFINE Reports(x, r) == /\ x.results = run[r].results /\ x.plan = run[r].plan
                            /\ x.replanned = run[r].replanned
<1>0. /\ run \in [Runs -> Run]
      /\ \A r \in Runs : /\ run[r] \in Run /\ Accounts(run[r], r \in vouched)
                         /\ Len(run[r].results) \in Nat
  BY DEF TInv, TypeOK, ReceiptInv, Run
<1>a. ASSUME NEW r \in Runs, NEW x, Reports(x, r), run[r].pc # "done",
             run' = [run EXCEPT ![r] = x], vouched' = vouched,
             x.msg # "final",
             x.pc \in {"stream", "typed", "mint"} => Complete(run[r])
      PROVE  ReceiptInv'
  <2>1. Follows(x) /\ (Complete(run[r]) => Complete(x))
    BY <1>0, <1>a DEF Accounts, Follows, Complete, Replaced
  <2>2. r \notin vouched
    BY <1>0, <1>a DEF Accounts
  <2>3. Accounts(x, r \in vouched')
    BY <1>a, <2>1, <2>2 DEF Accounts
  <2> QED BY <1>a, <2>3, OneRunAccounts
<1>1. CASE UNCHANGED vars \/ Stop \/ \E t \in Tools : Retier(t)
  <2>1. run' = run /\ vouched' = vouched
    BY <1>1 DEF vars, Stop, Retier, MoveTier
  <2> QED BY <2>1 DEF ReceiptInv
<1>2. ASSUME NEW r \in Runs, NEW p, NEW replay, Send(r, p, replay)
      PROVE  ReceiptInv'
  <2> DEFINE x == [pc |-> "ready", token |-> runToken + 1, plan |-> p,
                   skill |-> replay, replanned |-> FALSE, results |-> <<>>,
                   msg |-> "streaming"]
  <2>1. r \notin vouched
    BY <1>0, <1>2 DEF Send, Accounts
  <2>2. Accounts(x, r \in vouched')
    BY <1>2, <2>1 DEF Send, Accounts, Follows, Replaced
  <2> QED BY <1>2, <2>2, OneRunAccounts DEF Send
<1>3. ASSUME NEW r \in Runs, run[r].pc # "done", vouched' = vouched,
             run' = [run EXCEPT ![r] = AbortedRun(r)]
      PROVE  ReceiptInv'
  <2> DEFINE x == AbortedRun(r)
  <2>1. Reports(x, r) /\ x.pc = "done" /\ x.msg = "interrupted"
    BY <1>0 DEF AbortedRun, Run
  <2> HIDE DEF x
  <2>2. run' = [run EXCEPT ![r] = x]
    BY <1>3 DEF x
  <2> QED BY <1>3, <2>1, <2>2, <1>a
<1>4. ASSUME NEW r \in Runs, run[r].pc # "done", vouched' = vouched,
             NEW pc \in {"simulate", "gate", "act", "ready"}, run' = [run EXCEPT ![r].pc = pc]
      PROVE  ReceiptInv'
  <2> DEFINE x == [run[r] EXCEPT !.pc = pc]
  <2>1. /\ Reports(x, r) /\ run' = [run EXCEPT ![r] = x] /\ x.msg # "final"
        /\ x.pc \notin {"stream", "typed", "mint"}
    BY <1>0, <1>4 DEF Accounts, Run
  <2> QED BY <1>4, <2>1, <1>a
<1>5. ASSUME NEW r \in Runs, vouched' = vouched, run[r].pc # "done",
             NEW pc \in {"stream", "typed", "mint"}, run' = [run EXCEPT ![r].pc = pc],
             Complete(run[r])
      PROVE  ReceiptInv'
  <2> DEFINE x == [run[r] EXCEPT !.pc = pc]
  <2>1. /\ Reports(x, r) /\ run' = [run EXCEPT ![r] = x] /\ x.msg # "final"
    BY <1>0, <1>5 DEF Accounts, Run
  <2> QED BY <1>5, <2>1, <1>a
<1>6. ASSUME NEW r \in Runs, RunStep(r)
      PROVE  ReceiptInv'
  <2>1. CASE Abort(r)
    BY <1>3, <2>1 DEF Abort
  <2>2. CASE BeginAction(r)
    <3>1. run' = [run EXCEPT ![r].pc = IF NextTool(r) \in risky THEN "simulate" ELSE "act"]
      BY <2>2 DEF BeginAction
    <3>2. \/ run' = [run EXCEPT ![r].pc = "simulate"]
          \/ run' = [run EXCEPT ![r].pc = "act"]
      BY <3>1
    <3> QED BY <2>2, <3>2, <1>4 DEF BeginAction
  <2>3. CASE RequestGate(r)
    BY <1>4, <2>3 DEF RequestGate
  <2>4. ASSUME NEW ok \in BOOLEAN, NEW m \in {r, NoRun}, NEW p \in Plans \union {<<>>},
               FinishAct(r, ok, m, p)
        PROVE  ReceiptInv'
    <3> DEFINE entry == [tool |-> NextTool(r), simulated |-> status[CardOf(r)] # "none",
                         approved |-> TRUE, ok |-> ok, mission |-> m]
               fails == run[r].skill /\ ~ok /\ ~run[r].replanned
    <3>1. /\ run[r].pc = "act" /\ Index(r) < Len(run[r].plan) /\ NextTool(r) \in Tools
          /\ vouched' = vouched /\ r \notin vouched /\ run[r].msg # "final"
      BY <1>0, <2>4, InRange DEF FinishAct, TInv, LoopInv, ActingPC, Accounts
    <3>2. entry \in Result /\ entry.tool = NextTool(r)
      BY <3>1 DEF Result
    <3>3. CASE fails
      <4> DEFINE x == [run[r] EXCEPT !.pc = "ready", !.plan = p, !.skill = FALSE,
                                     !.replanned = TRUE,
                                     !.results = Append(run[r].results, entry)]
      <4>1. run' = [run EXCEPT ![r] = x]
        BY <1>0, <2>4, <3>3 DEF FinishAct
      <4>2. Len(run[r].results) = 0
        <5>1. run[r].skill /\ ~run[r].replanned
          BY <3>3
        <5>2. Len(run[r].plan) = 1
          BY <5>1 DEF TInv, LoopInv
        <5>3. Len(run[r].results) - 0 < 1
          BY <3>1, <5>1, <5>2 DEF Index
        <5> QED BY <1>0, <5>3
      <4>3. /\ x.pc = "ready" /\ x.msg # "final" /\ x.replanned = TRUE
            /\ x.results = Append(run[r].results, entry)
        BY <1>0, <3>1 DEF Run
      <4>4. Len(x.results) = 1
        BY <1>0, <3>2, <4>2, <4>3 DEF Run
      <4>5. Accounts(x, r \in vouched')
        BY <3>1, <4>3, <4>4 DEF Accounts, Follows, Replaced
      <4> QED BY <3>1, <4>1, <4>5, OneRunAccounts
    <3>4. CASE ~fails
      <4> DEFINE x == [run[r] EXCEPT !.pc = "ready",
                                     !.results = Append(run[r].results, entry)]
      <4>1. run' = [run EXCEPT ![r] = x]
        BY <1>0, <2>4, <3>4 DEF FinishAct
      <4>2. Accounts(x, r \in vouched')
        BY <3>1, <3>2, EntryFollows
      <4> QED BY <3>1, <4>1, <4>2, OneRunAccounts
    <3> QED BY <3>3, <3>4
  <2>5. CASE BeginStream(r)
    <3>1. Complete(run[r])
      BY <2>5 DEF BeginStream, Complete, Index, Replaced
    <3> QED BY <1>5, <2>5, <3>1 DEF BeginStream
  <2>6. CASE TypeLastChunk(r)
    <3>1. Complete(run[r])
      BY <1>0, <2>6 DEF TypeLastChunk, Accounts
    <3> QED BY <1>5, <2>6, <3>1 DEF TypeLastChunk
  <2>7. ASSUME NEW learn \in BOOLEAN, BeginMint(r, learn)
        PROVE  ReceiptInv'
    <3>1. Complete(run[r])
      BY <1>0, <2>7 DEF BeginMint, Accounts
    <3> QED BY <1>5, <2>7, <3>1 DEF BeginMint
  <2>8. CASE Mint(r)
    <3>1. Complete(run[r]) /\ r \in vouched' /\ \A q \in Runs \ {r} : q \in vouched' <=> q \in vouched
      BY <1>0, <2>8 DEF Mint, Accounts
    <3>2. PICK msg : run' = [run EXCEPT ![r] = [run[r] EXCEPT !.pc = "done", !.msg = msg]]
      BY <1>0, <2>8 DEF Mint, AbortedRun
    <3> DEFINE x == [run[r] EXCEPT !.pc = "done", !.msg = msg]
    <3>3. Reports(x, r) /\ x.pc = "done"
      BY <1>0 DEF Run
    <3>4. Accounts(x, r \in vouched')
      BY <1>0, <3>1, <3>3 DEF Accounts, Follows, Complete, Replaced
    <3> QED BY <3>1, <3>2, <3>4, OneRunAccounts
  <2> QED BY <1>6, <2>1, <2>2, <2>3, <2>4, <2>5, <2>6, <2>7, <2>8 DEF RunStep
<1>7. ASSUME NEW r \in Runs, NEW ok \in BOOLEAN, DecideWaiting(r, ok)
      PROVE  ReceiptInv'
  <2>1. /\ run[r].pc = "gate" /\ vouched' = vouched
        /\ Index(r) < Len(run[r].plan) /\ NextTool(r) \in Tools
    BY <1>7, InRange DEF DecideWaiting, TInv, LoopInv, ActingPC
  <2>2. ASSUME run' = [run EXCEPT ![r].pc = "ready",
                                  ![r].results = Append(@, DeniedResult(r))]
        PROVE  ReceiptInv'
    <3> DEFINE x == [run[r] EXCEPT !.pc = "ready",
                                   !.results = Append(run[r].results, DeniedResult(r))]
    <3>1. DeniedResult(r) \in Result /\ DeniedResult(r).tool = NextTool(r)
      BY <2>1 DEF DeniedResult, Result, TInv, TypeOK
    <3>2. run' = [run EXCEPT ![r] = x]
      BY <1>0, <2>2
    <3>3. Accounts(x, r \in vouched')
      BY <2>1, <3>1, EntryFollows
    <3> QED BY <2>1, <3>2, <3>3, OneRunAccounts
  <2> QED BY <1>3, <1>4, <1>7, <2>1, <2>2 DEF DecideWaiting
<1>8. ASSUME NEW c, NEW ok, DecideAgain(c, ok)
      PROVE  ReceiptInv'
  BY <1>8 DEF DecideAgain, ReceiptInv
<1>9. CASE Restart
  <2> SUFFICES ASSUME NEW r \in Runs PROVE Accounts(run'[r], r \in vouched')
    BY DEF ReceiptInv
  <2>1. /\ Reports(run'[r], r) /\ run'[r].msg = run[r].msg /\ vouched' = vouched
        /\ run'[r].pc = IF run[r].pc \in Parked THEN "lost" ELSE run[r].pc
    BY <1>0, <1>9 DEF Restart, Run
  <2> QED BY <1>0, <2>1 DEF Accounts, Follows, Complete, Replaced, Parked
<1> QED BY <1>1, <1>2, <1>6, <1>7, <1>8, <1>9 DEF Next

(* A message shown as complete has its receipt, and the receipt accounts   *)
(* for every action of the plan, in the plan's order.                      *)
THEOREM FinalCorrect == Spec => []FinalMeansVouched
<1>1. Spec => [](TInv /\ ReceiptInv)
  BY InitTInv, StepTInv, InitReceiptInv, StepReceiptInv, PTL DEF Spec
<1>2. ASSUME TInv, ReceiptInv
      PROVE  FinalMeansVouched
  <2> SUFFICES ASSUME NEW r \in Runs, run[r].msg = "final"
               PROVE  LET before == Len(run[r].results) - Len(run[r].plan) IN
                      /\ r \in vouched
                      /\ before = IF run[r].replanned THEN 1 ELSE 0
                      /\ \A k \in DOMAIN run[r].plan :
                           run[r].results[before + k].tool = run[r].plan[k]
    BY DEF FinalMeansVouched
  <2>1. r \in vouched /\ Complete(run[r]) /\ Follows(run[r])
    BY <1>2 DEF ReceiptInv, Accounts
  <2>2. run[r].results \in Seq(Result) /\ run[r].plan \in Seq(Tools)
    BY <1>2, PlansAreShort DEF TInv, TypeOK, Run, AnyPlan
  <2>3. Len(run[r].results) - Len(run[r].plan) = Replaced(run[r])
    <3> DEFINE n == Len(run[r].results)
               m == Len(run[r].plan)
               i == Replaced(run[r])
    <3>1. n \in Nat /\ m \in Nat /\ i \in Nat
      BY <2>2 DEF Replaced
    <3>2. n - i = m
      BY <2>1 DEF Complete
    <3> HIDE DEF n, m, i
    <3>3. n - m = i
      BY <3>1, <3>2
    <3> QED BY <3>3 DEF n, m, i
  <2>4. DOMAIN run[r].plan = 1 .. Len(run[r].results) - Replaced(run[r])
    BY <2>1, <2>2 DEF Complete
  <2> QED BY <2>1, <2>3, <2>4 DEF Follows, Replaced
<1> QED BY <1>1, <1>2, PTL

-----------------------------------------------------------------------------
(* The promise.                                                            *)

Inv == TInv /\ GateInv /\ ReceiptInv

Resting == {"idle", "ready", "simulate", "stream", "typed", "mint"}
Ended   == {"done", "lost"}

LEMMA InitPromise == Init => Promise!Init
<1> SUFFICES ASSUME Init PROVE \A c \in Card : JobPhase(c) = "new"
  BY DEF Promise!Init
<1> TAKE c \in Card
<1>1. c[1] \in Runs /\ c[2] \in Steps
  BY DEF Card
<1>2. run[c[1]].results = <<>> /\ run[c[1]].pc = "idle"
  BY <1>1 DEF Init
<1> QED BY <1>1, <1>2, PlansAssumption DEF JobPhase, Steps

(* A run whose record, receipt and place at the gate stay moves no job.    *)
LEMMA SameJobs ==
  ASSUME TInv, NEW q \in Runs,
         run'[q].results = run[q].results, q \in vouched' <=> q \in vouched,
         \/ run'[q].pc = run[q].pc
         \/ run[q].pc \in Resting /\ run'[q].pc \in Resting,
         run[q].pc = "act" => (status'[CardOf(q)] = "none" <=> status[CardOf(q)] = "none")
  PROVE  \A k \in Steps : JobPhase(<<q, k>>)' = JobPhase(<<q, k>>)
<1> TAKE k \in Steps
<1> DEFINE n == Len(run[q].results)
<1>1. n \in Nat /\ k \in Nat
  BY PlansAssumption DEF TInv, TypeOK, Run, Steps
<1>2. ~(k <= n) /\ ~(k > n + 1) => <<q, k>> = CardOf(q)
  BY <1>1 DEF CardOf, StepNo
<1> HIDE DEF n
<1> QED BY <1>1, <1>2 DEF JobPhase, n, Resting

(* The runs in A end with their open actions; nothing else happens.        *)
LEMMA RunsDrop ==
  ASSUME Inv, NEW A \in SUBSET Runs, UNCHANGED vouched,
         \A q \in Runs :
           /\ run'[q].results = run[q].results
           /\ q \in A => run[q].pc \notin Ended /\ run'[q].pc \in Ended
           /\ q \notin A => run'[q].pc = run[q].pc
           /\ q \notin A /\ run[q].pc = "act" =>
                (status'[CardOf(q)] = "none" <=> status[CardOf(q)] = "none")
  PROVE  Promise!Drop(A)
<1> SUFFICES ASSUME NEW c \in Card
             PROVE  JobPhase(c)' = IF c[1] \in A /\ JobPhase(c) \in Promise!Unfinished
                                   THEN "dropped" ELSE JobPhase(c)
  BY DEF Promise!Drop
<1>1. PICK q \in Runs, k \in Steps : c = <<q, k>>
  BY DEF Card
<1>2. CASE q \notin A
  BY <1>1, <1>2, SameJobs DEF Inv
<1>3. CASE q \in A
  <2>1. /\ run'[q].results = run[q].results /\ vouched' = vouched /\ q \notin vouched
        /\ run[q].pc \notin Ended /\ run'[q].pc \in Ended
    BY <1>3 DEF Inv, ReceiptInv, Accounts, Ended
  <2> QED BY <1>1, <1>3, <2>1 DEF JobPhase, Promise!Unfinished, Ended
<1> QED BY <1>2, <1>3

(* Only the action j run r is at moves, from one phase to the next.        *)
LEMMA OneJobMoves ==
  ASSUME Inv, NEW CONSTANT r \in Runs, NEW CONSTANT j \in Card, NEW CONSTANT from, NEW CONSTANT to,
         j = CardOf(r), UNCHANGED vouched,
         JobPhase(j) = from, JobPhase(j)' = to,
         \A k \in Steps : <<r, k>> # j => JobPhase(<<r, k>>)' = JobPhase(<<r, k>>),
         \A q \in Runs : q # r =>
           /\ run'[q] = run[q]
           /\ run[q].pc = "act" => (status'[CardOf(q)] = "none" <=> status[CardOf(q)] = "none")
  PROVE  Promise!Move(j, from, to)
<1>1. ASSUME NEW c \in Card, c # j PROVE JobPhase(c)' = JobPhase(c)
  <2>1. PICK q \in Runs, k \in Steps : c = <<q, k>>
    BY DEF Card
  <2>2. CASE q = r
    BY <1>1, <2>1, <2>2
  <2>3. CASE q # r
    BY <2>1, <2>3, SameJobs DEF Inv
  <2> QED BY <2>2, <2>3
<1> QED BY <1>1 DEF Promise!Move

(* The other actions of a run that goes from one place at its action to    *)
(* the next.                                                               *)
LEMMA OtherStepsStay ==
  ASSUME Inv, NEW r \in Runs, UNCHANGED vouched, run'[r].results = run[r].results,
         run[r].pc \notin Ended, run'[r].pc \notin Ended
  PROVE  \A k \in Steps : <<r, k>> # CardOf(r) => JobPhase(<<r, k>>)' = JobPhase(<<r, k>>)
<1> TAKE k \in Steps
<1> DEFINE n == Len(run[r].results)
<1>1. n \in Nat /\ k \in Nat
  BY PlansAssumption DEF Inv, TInv, TypeOK, Run, Steps
<1>2. <<r, k>> # CardOf(r) => k <= n \/ k > n + 1
  BY <1>1 DEF CardOf, StepNo
<1>3. Len(run'[r].results) = n
  OBVIOUS
<1> HIDE DEF n
<1> QED BY <1>1, <1>2, <1>3 DEF JobPhase, n, Ended

(* The outcome of the action a run is at is recorded: it was done, or      *)
(* refused, and the others stay.                                           *)
LEMMA StepRecorded ==
  ASSUME Inv, NEW CONSTANT r \in Runs, NEW CONSTANT j \in Card, j = CardOf(r), NEW e,
         UNCHANGED vouched, run[r].pc \in {"gate", "act"}, run'[r].pc = "ready",
         run'[r].results = Append(run[r].results, e)
  PROVE  /\ JobPhase(j)' = IF e.approved THEN "acted" ELSE "refused"
         /\ \A k \in Steps : <<r, k>> # j => JobPhase(<<r, k>>)' = JobPhase(<<r, k>>)
<1> DEFINE n == Len(run[r].results)
<1>1. n \in Nat /\ run[r].results \in Seq(Result) /\ r \notin vouched /\ r \notin vouched'
  BY DEF Inv, TInv, TypeOK, Run, ReceiptInv, Accounts
<1>2. /\ Len(run'[r].results) = n + 1
      /\ run'[r].results[n + 1] = e
      /\ \A k \in 1 .. n : run'[r].results[k] = run[r].results[k]
  BY <1>1
<1>3. j = <<r, n + 1>>
  BY DEF CardOf, StepNo
<1> HIDE DEF n
<1>4. JobPhase(j)' = IF e.approved THEN "acted" ELSE "refused"
  BY <1>1, <1>2, <1>3 DEF JobPhase
<1>5. ASSUME NEW k \in Steps, <<r, k>> # j
      PROVE  JobPhase(<<r, k>>)' = JobPhase(<<r, k>>)
  <2>1. k \in Nat \ {0} /\ k # n + 1
    BY <1>3, <1>5, PlansAssumption DEF Steps
  <2>2. CASE k <= n
    <3>1. run'[r].results[k] = run[r].results[k]
      BY <1>1, <1>2, <2>1, <2>2
    <3> QED BY <1>1, <1>2, <2>1, <2>2, <3>1 DEF JobPhase, n
  <2>3. CASE k > n + 1
    <3>1. JobPhase(<<r, k>>) = "new"
      BY <1>1, <2>1, <2>3 DEF JobPhase, n
    <3>2. JobPhase(<<r, k>>)' = "new"
      BY <1>1, <1>2, <2>1, <2>3 DEF JobPhase
    <3> QED BY <3>1, <3>2
  <2> QED BY <1>1, <2>1, <2>2, <2>3
<1> QED BY <1>4, <1>5

(* The action under way, by where its run is.                              *)
LEMMA JobUnderWay ==
  ASSUME Inv, NEW r \in Runs, run[r].pc \notin Ended
  PROVE  JobPhase(CardOf(r)) =
           IF run[r].pc = "gate" THEN "asked"
           ELSE IF run[r].pc # "act" THEN "new"
           ELSE IF status[CardOf(r)] = "none" THEN "free" ELSE "granted"
<1>1. Len(run[r].results) \in Nat
  BY DEF Inv, TInv, TypeOK, Run
<1>2. ~(Len(run[r].results) + 1 <= Len(run[r].results))
      /\ ~(Len(run[r].results) + 1 > Len(run[r].results) + 1)
  BY <1>1
<1> QED BY <1>2 DEF JobPhase, CardOf, StepNo, Ended

(* A run that stays at its action, or goes on without one, and what that   *)
(* means for the promise.                                                  *)
LEMMA QuietPromise ==
  ASSUME Inv, UNCHANGED vouched,
         \A q \in Runs :
           /\ run'[q].results = run[q].results
           /\ \/ run'[q].pc = run[q].pc
              \/ run[q].pc \in Resting /\ run'[q].pc \in Resting
           /\ run[q].pc = "act" => (status'[CardOf(q)] = "none" <=> status[CardOf(q)] = "none")
  PROVE  [c \in Card |-> JobPhase(c)]' = [c \in Card |-> JobPhase(c)]
<1>1. ASSUME NEW c \in Card PROVE JobPhase(c)' = JobPhase(c)
  <2>1. PICK q \in Runs, k \in Steps : c = <<q, k>>
    BY DEF Card
  <2> QED BY <2>1, SameJobs DEF Inv
<1> QED BY <1>1

PromiseStep == [Promise!Next]_[c \in Card |-> JobPhase(c)]

LEMMA StepPromise ==
  ASSUME Inv, [Next]_vars
  PROVE  PromiseStep
<1>0. /\ run \in [Runs -> Run]
      /\ \A r \in Runs : run[r] \in Run
      /\ status \in [Card -> Gate!Status]
  BY DEF Inv, TInv, TypeOK, Gate!GateTypeOK
<1>1. ASSUME UNCHANGED vars \/ Stop \/ \E t \in Tools : Retier(t)
      PROVE  PromiseStep
  <2>1. UNCHANGED <<run, vouched, status>>
    BY <1>1 DEF vars, Stop, Retier, MoveTier
  <2> QED BY <2>1, QuietPromise DEF PromiseStep
<1>2. ASSUME NEW r \in Runs, NEW p, NEW replay, Send(r, p, replay)
      PROVE  PromiseStep
  <2>1. /\ run[r].pc = "idle" /\ run'[r].pc = "ready"
        /\ run[r].results = <<>> /\ run'[r].results = <<>>
        /\ \A q \in Runs : q # r => run'[q] = run[q]
        /\ UNCHANGED <<vouched, status>>
    BY <1>0, <1>2 DEF Send, Inv, GateInv, CardInv
  <2> QED BY <2>1, QuietPromise DEF PromiseStep, Resting
<1>3. ASSUME NEW r \in Runs, run[r].pc \notin Ended, vouched' = vouched,
             run' = [run EXCEPT ![r] = AbortedRun(r)],
             \A q \in Runs : q # r /\ run[q].pc = "act" =>
               (status'[CardOf(q)] = "none" <=> status[CardOf(q)] = "none")
      PROVE  PromiseStep
  <2>1. /\ run'[r].pc = "done" /\ run'[r].results = run[r].results
        /\ \A q \in Runs : q # r => run'[q] = run[q]
    BY <1>0, <1>3 DEF AbortedRun, Run
  <2>2. Promise!Drop({r})
    BY <1>3, <2>1, RunsDrop DEF Ended
  <2> QED BY <2>2 DEF PromiseStep, Promise!Next
<1>4. ASSUME NEW r \in Runs, NEW pc \in Resting, run[r].pc \in Resting,
             run' = [run EXCEPT ![r].pc = pc], UNCHANGED <<vouched, status>>
      PROVE  PromiseStep
  <2>1. /\ run'[r].pc = pc /\ run'[r].results = run[r].results
        /\ \A q \in Runs : q # r => run'[q] = run[q]
    BY <1>0, <1>4 DEF Run
  <2> QED BY <1>4, <2>1, QuietPromise DEF PromiseStep
<1>5. ASSUME NEW r \in Runs, BeginAction(r), run' = [run EXCEPT ![r].pc = "act"]
      PROVE  PromiseStep
  <2>1. /\ run[r].pc = "ready" /\ run'[r].pc = "act" /\ run'[r].results = run[r].results
        /\ \A q \in Runs : q # r => run'[q] = run[q]
        /\ UNCHANGED <<vouched, status>>
        /\ CardOf(r) \in Card
    BY <1>0, <1>5, InRange DEF BeginAction, Run, Inv
  <2> PICK j \in Card : j = CardOf(r)
    BY <2>1
  <2>2. status[j] = "none"
    BY <2>1 DEF Inv, GateInv, CardInv, Before, CardOf, Card
  <2>3. JobPhase(j) = "new"
    BY <2>1, JobUnderWay DEF Ended
  <2>4. JobPhase(j)' = "free"
    <3>1. CardOf(r)' = j /\ Len(run'[r].results) \in Nat
      BY <1>0, <2>1 DEF CardOf, StepNo, Run
    <3> QED BY <2>1, <2>2, <3>1 DEF JobPhase, CardOf, StepNo
  <2>5. \A k \in Steps : <<r, k>> # j => JobPhase(<<r, k>>)' = JobPhase(<<r, k>>)
    BY <2>1, OtherStepsStay DEF Ended
  <2>6. Promise!Move(j, "new", "free")
    BY <2>1, <2>3, <2>4, <2>5, OneJobMoves
  <2> QED BY <2>6 DEF PromiseStep, Promise!Next, Promise!Free
<1>6. ASSUME NEW r \in Runs, RequestGate(r)
      PROVE  PromiseStep
  <2>1. /\ run[r].pc = "simulate" /\ run'[r].pc = "gate" /\ run'[r].results = run[r].results
        /\ \A q \in Runs : q # r => run'[q] = run[q]
        /\ vouched' = vouched
        /\ CardOf(r) \in Card
        /\ status' = [status EXCEPT ![CardOf(r)] = "pending"]
    BY <1>0, <1>6, InRange DEF RequestGate, Gate!Request, Run, Inv, TInv, LoopInv, ActingPC
  <2> PICK j \in Card : j = CardOf(r)
    BY <2>1
  <2>2. JobPhase(j) = "new"
    BY <2>1, JobUnderWay DEF Ended
  <2>3. JobPhase(j)' = "asked"
    <3>1. CardOf(r)' = j /\ Len(run'[r].results) \in Nat
      BY <1>0, <2>1 DEF CardOf, StepNo, Run
    <3> QED BY <2>1, <3>1 DEF JobPhase, CardOf, StepNo
  <2>4. \A k \in Steps : <<r, k>> # j => JobPhase(<<r, k>>)' = JobPhase(<<r, k>>)
    BY <2>1, OtherStepsStay DEF Ended
  <2>5. \A q \in Runs : q # r => status'[CardOf(q)] = status[CardOf(q)]
    BY <2>1, <1>0 DEF CardOf
  <2>6. Promise!Move(j, "new", "asked")
    BY <2>1, <2>2, <2>3, <2>4, <2>5, OneJobMoves
  <2> QED BY <2>6 DEF PromiseStep, Promise!Next, Promise!Ask
<1>7. ASSUME NEW r \in Runs, NEW ok \in BOOLEAN, DecideWaiting(r, ok)
      PROVE  PromiseStep
  <2>1. /\ run[r].pc = "gate" /\ vouched' = vouched
        /\ CardOf(r) \in Card
        /\ status' = [status EXCEPT ![CardOf(r)] = IF ok THEN "approved" ELSE "denied"]
    BY <1>7, InRange DEF DecideWaiting, Gate!Resolve, Inv, TInv, LoopInv, ActingPC
  <2> PICK j \in Card : j = CardOf(r)
    BY <2>1
  <2>2. JobPhase(j) = "asked"
    BY <2>1, JobUnderWay DEF Ended
  <2>3. \A q \in Runs : q # r => status'[CardOf(q)] = status[CardOf(q)]
    BY <2>1, <1>0 DEF CardOf
  <2>4. ASSUME run' = [run EXCEPT ![r].pc = "act"], ok
        PROVE  PromiseStep
    <3>1. /\ run'[r].pc = "act" /\ run'[r].results = run[r].results
          /\ \A q \in Runs : q # r => run'[q] = run[q]
      BY <1>0, <2>4 DEF Run
    <3>2. status'[j] = "approved"
      BY <1>0, <2>1, <2>4
    <3>3. JobPhase(j)' = "granted"
      <4>1. CardOf(r)' = j /\ Len(run'[r].results) \in Nat
        BY <1>0, <3>1 DEF CardOf, StepNo, Run
      <4> QED BY <3>1, <3>2, <4>1 DEF JobPhase, CardOf, StepNo
    <3>4. \A k \in Steps : <<r, k>> # j => JobPhase(<<r, k>>)' = JobPhase(<<r, k>>)
      BY <2>1, <3>1, OtherStepsStay DEF Ended
    <3>5. Promise!Move(j, "asked", "granted")
      BY <2>1, <2>2, <2>3, <3>1, <3>3, <3>4, OneJobMoves
    <3> QED BY <3>5 DEF PromiseStep, Promise!Next, Promise!Grant
  <2>5. ASSUME run' = [run EXCEPT ![r].pc = "ready",
                                  ![r].results = Append(@, DeniedResult(r))]
        PROVE  PromiseStep
    <3>1. /\ run'[r].pc = "ready" /\ run'[r].results = Append(run[r].results, DeniedResult(r))
          /\ \A q \in Runs : q # r => run'[q] = run[q]
      BY <1>0, <2>5 DEF Run
    <3>2. ~DeniedResult(r).approved
      BY DEF DeniedResult
    <3>3. /\ JobPhase(j)' = "refused"
          /\ \A k \in Steps : <<r, k>> # j => JobPhase(<<r, k>>)' = JobPhase(<<r, k>>)
      BY <2>1, <3>1, <3>2, StepRecorded
    <3>4. Promise!Move(j, "asked", "refused")
      BY <2>1, <2>2, <2>3, <3>1, <3>3, OneJobMoves
    <3> QED BY <3>4 DEF PromiseStep, Promise!Next, Promise!Refuse
  <2> QED BY <1>3, <1>7, <2>1, <2>3, <2>4, <2>5 DEF DecideWaiting, Ended
<1>8. ASSUME NEW c \in Card, NEW ok, DecideAgain(c, ok)
      PROVE  PromiseStep
  <2>1. /\ UNCHANGED <<run, vouched>>
        /\ status[c] # "none"
        /\ status' = [status EXCEPT ![c] = IF ok THEN "approved" ELSE "denied"]
    BY <1>8 DEF DecideAgain, Gate!Resolve
  <2>2. \A d \in Card : status'[d] = "none" <=> status[d] = "none"
    BY <1>0, <2>1
  <2>3. \A q \in Runs : run[q].pc = "act" => CardOf(q) \in Card
    BY InRange DEF Inv, TInv, LoopInv, ActingPC
  <2> QED BY <2>1, <2>2, <2>3, QuietPromise DEF PromiseStep
<1>9. ASSUME NEW r \in Runs, NEW ok, NEW m, NEW p, FinishAct(r, ok, m, p)
      PROVE  PromiseStep
  <2> DEFINE entry == [tool |-> NextTool(r), simulated |-> status[CardOf(r)] # "none",
                       approved |-> TRUE, ok |-> ok, mission |-> m]
  <2>1. /\ run[r].pc = "act" /\ UNCHANGED <<vouched, status>>
        /\ CardOf(r) \in Card
    BY <1>9, InRange DEF FinishAct, Inv, TInv, LoopInv, ActingPC
  <2>2. /\ run'[r].pc = "ready" /\ run'[r].results = Append(run[r].results, entry)
        /\ \A q \in Runs : q # r => run'[q] = run[q]
    <3>1. CASE run[r].skill /\ ~ok /\ ~run[r].replanned
      BY <1>0, <1>9, <3>1 DEF FinishAct, Run
    <3>2. CASE ~(run[r].skill /\ ~ok /\ ~run[r].replanned)
      BY <1>0, <1>9, <3>2 DEF FinishAct, Run
    <3> QED BY <3>1, <3>2
  <2>3. entry.approved = TRUE
    OBVIOUS
  <2> HIDE DEF entry
  <2> PICK j \in Card : j = CardOf(r)
    BY <2>1
  <2>4. /\ JobPhase(j)' = "acted"
        /\ \A k \in Steps : <<r, k>> # j => JobPhase(<<r, k>>)' = JobPhase(<<r, k>>)
    BY <2>1, <2>2, <2>3, StepRecorded
  <2>5. ASSUME NEW CONSTANT from, JobPhase(j) = from PROVE Promise!Move(j, from, "acted")
    BY <2>1, <2>2, <2>4, <2>5, OneJobMoves
  <2>6. JobPhase(j) = "free" \/ JobPhase(j) = "granted"
    BY <2>1, JobUnderWay DEF Ended
  <2> QED BY <2>5, <2>6 DEF PromiseStep, Promise!Next, Promise!Act
<1>10. ASSUME NEW r \in Runs, Mint(r)
       PROVE  PromiseStep
  <2>1. /\ run[r].pc = "mint" /\ run'[r].pc = "done" /\ run'[r].results = run[r].results
        /\ \A q \in Runs : q # r => run'[q] = run[q]
        /\ vouched' = vouched \union {r} /\ status' = status
    BY <1>0, <1>10 DEF Mint, AbortedRun, Run
  <2>2. r \notin vouched
    BY <2>1 DEF Inv, ReceiptInv, Accounts
  <2>3. ASSUME NEW k \in Steps
        PROVE  /\ JobPhase(<<r, k>>) \in {"new", "acted", "refused"}
               /\ JobPhase(<<r, k>>)' = IF JobPhase(<<r, k>>) = "new" THEN "dropped" ELSE "vouched"
    BY <2>1, <2>2 DEF JobPhase
  <2>4. ASSUME NEW q \in Runs, q # r, NEW k \in Steps
        PROVE  JobPhase(<<q, k>>)' = JobPhase(<<q, k>>)
    BY <2>1, <2>4, SameJobs DEF Inv
  <2>5. Promise!Vouch(r)
    BY <2>3, <2>4 DEF Promise!Vouch, Card
  <2> QED BY <2>5 DEF PromiseStep, Promise!Next
<1>11. CASE Restart
  <2> DEFINE A == {r \in Runs : run[r].pc \in Parked}
  <2>1. UNCHANGED <<vouched, status>>
    BY <1>11 DEF Restart, Gate!GateRestart
  <2>2. ASSUME NEW q \in Runs
        PROVE  /\ run'[q].results = run[q].results
               /\ q \in A => run[q].pc \notin Ended /\ run'[q].pc \in Ended
               /\ q \notin A => run'[q].pc = run[q].pc
    BY <1>0, <1>11 DEF Restart, Run, Parked, Ended
  <2> HIDE DEF A
  <2>3. Promise!Drop(A)
    BY <2>1, <2>2, RunsDrop DEF A
  <2> QED BY <2>3 DEF PromiseStep, Promise!Next, A
<1>12. ASSUME NEW r \in Runs, RunStep(r)
       PROVE  PromiseStep
  <2>1. CASE Abort(r)
    BY <1>3, <2>1 DEF Abort, Ended
  <2>2. CASE BeginAction(r)
    <3>1. run' = [run EXCEPT ![r].pc = IF NextTool(r) \in risky THEN "simulate" ELSE "act"]
      BY <2>2 DEF BeginAction
    <3>2. CASE run' = [run EXCEPT ![r].pc = "simulate"]
      BY <1>4, <2>2, <3>2 DEF BeginAction, Resting
    <3>3. CASE run' = [run EXCEPT ![r].pc = "act"]
      BY <1>5, <2>2, <3>3
    <3> QED BY <3>1, <3>2, <3>3
  <2>3. CASE BeginStream(r) \/ TypeLastChunk(r)
    BY <1>4, <2>3 DEF BeginStream, TypeLastChunk, Resting
  <2>4. ASSUME NEW learn, BeginMint(r, learn) PROVE PromiseStep
    <3>1. /\ run[r].pc = "typed" /\ run' = [run EXCEPT ![r].pc = "mint"]
          /\ UNCHANGED <<vouched, status>>
      BY <2>4 DEF BeginMint
    <3> QED BY <1>4, <3>1 DEF Resting
  <2> QED BY <1>6, <1>9, <1>10, <1>12, <2>1, <2>2, <2>3, <2>4 DEF RunStep
<1>13. ASSUME NEW c \in Reanswered, NEW ok \in BOOLEAN, DecideAgain(c, ok)
       PROVE  PromiseStep
  BY <1>8, <1>13, ReansweredAssumption
<1> QED BY <1>1, <1>2, <1>7, <1>11, <1>12, <1>13 DEF Next

(* The chat runs implement the promise of the control plane: whatever the  *)
(* interleaving of runs, stops, answers and restarts, no action is done    *)
(* that was not free or granted, and none is vouched that was not done or  *)
(* refused.                                                                *)
THEOREM PromiseKept == Spec => KeepsPromise
<1>1. Init => Promise!Init
  BY InitPromise
<1>2. Inv /\ [Next]_vars => [Promise!Next]_[c \in Card |-> JobPhase(c)]
  BY StepPromise DEF PromiseStep
<1>3. Spec => []Inv
  BY InitTInv, StepTInv, InitGateInv, StepGateInv, InitReceiptInv, StepReceiptInv, PTL
     DEF Spec, Inv
<1> QED BY <1>1, <1>2, <1>3, PTL DEF Spec, KeepsPromise, Promise!Spec

-----------------------------------------------------------------------------
(* The other face: tools/call of the MCP server, over the same tools, the  *)
(* same tiers, the same gate and the same promise.                         *)

(* Where a call is says what it has been asked and told, and what it did.  *)
Fits(x, parked, record, heard) ==
  /\ x.pc = "none" => x.tool = Unknown /\ ~x.simulated /\ ~x.acted
  /\ x.pc = "acting" => ~x.simulated /\ x.acted
  /\ x.pc = "gate" <=> parked
  /\ x.pc = "gate" => x.simulated /\ ~x.acted /\ record = "pending"
  /\ x.pc = "running" => x.simulated /\ x.acted
  /\ x.receipt => x.pc = "done"
  /\ x.simulated <=> record # "none"
  /\ x.tool = Unknown <=> ~x.simulated /\ ~x.acted
  /\ heard = "none" <=> ~x.simulated \/ x.pc = "gate"
  /\ x.simulated => (x.acted <=> heard = "yes")

CallInv == \A c \in Calls : Fits(call[c], c \in callWaiting, callStatus[c], callAnswer[c])

(* A task belongs to a call that was asked about, and one cancelled at the *)
(* gate to one that was refused.                                           *)
TaskFits(t, x, heard) ==
  /\ t # "none" => x.simulated
  /\ t = "cancelled_gated" => heard = "no"

TaskInv == \A c \in Calls : TaskFits(task[c], call[c], callAnswer[c])

McpInv == CallsTypeOK /\ CallInv /\ TaskInv

LEMMA InitMcp == CallsInit => McpInv
<1> SUFFICES ASSUME CallsInit PROVE McpInv
  OBVIOUS
<1> DEFINE fresh == [pc |-> "none", tool |-> Unknown, simulated |-> FALSE,
                     acted |-> FALSE, ok |-> FALSE, receipt |-> FALSE]
<1>1. call = [c \in Calls |-> fresh]
  BY DEF CallsInit
<1>2. /\ fresh \in Call /\ fresh.pc = "none" /\ fresh.tool = Unknown
      /\ ~fresh.simulated /\ ~fresh.acted /\ ~fresh.receipt
  BY DEF Call, CallPC
<1> HIDE DEF fresh
<1>3. CallGate!GateTypeOK
  BY DEF CallsInit, CallGate!GateInit, CallGate!GateTypeOK, CallGate!Status, CallGate!Answer
<1>4. call \in [Calls -> Call]
  BY <1>1, <1>2
<1>5. CallsTypeOK
  BY <1>3, <1>4, TiersAssumption DEF CallsInit, CallsTypeOK
<1>6. CallInv /\ TaskInv
  BY <1>1, <1>2 DEF CallsInit, CallGate!GateInit, CallInv, TaskInv, Fits, TaskFits
<1> QED BY <1>5, <1>6 DEF McpInv

(* One call changes, and nothing else that the others can see.             *)
LEMMA OneCall ==
  ASSUME McpInv, NEW c \in Calls, NEW x \in Call, NEW r, NEW h, NEW t,
         call' = [call EXCEPT ![c] = x],
         callStatus' = [callStatus EXCEPT ![c] = r], r \in CallGate!Status,
         callAnswer' = [callAnswer EXCEPT ![c] = h], h \in CallGate!Answer,
         task' = [task EXCEPT ![c] = t],
         t \in {"none", "open", "cancelled_gated", "cancelled_running"},
         callWaiting' \in SUBSET Calls,
         \A d \in Calls : d # c => (d \in callWaiting' <=> d \in callWaiting),
         Fits(x, c \in callWaiting', r, h), TaskFits(t, x, h),
         told' \subseteq Calls, server' \in Calls \union {Free}, risky' = risky
  PROVE  McpInv'
<1>1. /\ call \in [Calls -> Call]
      /\ task \in [Calls -> {"none", "open", "cancelled_gated", "cancelled_running"}]
      /\ callStatus \in [Calls -> CallGate!Status] /\ callAnswer \in [Calls -> CallGate!Answer]
      /\ risky \in SUBSET Tools
  BY DEF McpInv, CallsTypeOK, CallGate!GateTypeOK
<1>2. /\ call' \in [Calls -> Call]
      /\ task' \in [Calls -> {"none", "open", "cancelled_gated", "cancelled_running"}]
      /\ callStatus' \in [Calls -> CallGate!Status] /\ callAnswer' \in [Calls -> CallGate!Answer]
  BY <1>1
<1>3. CallsTypeOK'
  BY <1>1, <1>2 DEF CallsTypeOK, CallGate!GateTypeOK
<1>4. ASSUME NEW d \in Calls
      PROVE  /\ Fits(call'[d], d \in callWaiting', callStatus'[d], callAnswer'[d])
             /\ TaskFits(task'[d], call'[d], callAnswer'[d])
  <2>1. CASE d = c
    BY <1>1, <2>1
  <2>2. CASE d # c
    <3>1. /\ call'[d] = call[d] /\ callStatus'[d] = callStatus[d] /\ callAnswer'[d] = callAnswer[d]
          /\ task'[d] = task[d] /\ (d \in callWaiting' <=> d \in callWaiting)
      BY <1>1, <2>2
    <3>2. /\ Fits(call[d], d \in callWaiting, callStatus[d], callAnswer[d])
          /\ TaskFits(task[d], call[d], callAnswer[d])
      BY DEF McpInv, CallInv, TaskInv
    <3> QED BY <3>1, <3>2 DEF Fits
  <2> QED BY <2>1, <2>2
<1>5. CallInv' /\ TaskInv'
  BY <1>4 DEF CallInv, TaskInv
<1> QED BY <1>3, <1>5 DEF McpInv

(* The calls' phases: one moves, or none.                                  *)
McpPromise == [CallsPromise!Next]_[c \in Calls |-> CallPhase(c)]

LEMMA OnePhase ==
  ASSUME McpInv, NEW c \in Calls, NEW x, call' = [call EXCEPT ![c] = x],
         NEW from, NEW to, CallPhase(c) = from, CallPhase(c)' = to
  PROVE  /\ CallsPromise!Move(c, from, to)
         /\ from = to => UNCHANGED [d \in Calls |-> CallPhase(d)]
<1>1. \A d \in Calls : d # c => call'[d] = call[d]
  BY DEF McpInv, CallsTypeOK
<1>2. \A d \in Calls : d # c => CallPhase(d)' = CallPhase(d)
  BY <1>1 DEF CallPhase
<1> QED BY <1>2 DEF CallsPromise!Move

LEMMA QuietCall ==
  ASSUME McpInv, NEW c \in Calls, NEW x \in Call,
         call' = [call EXCEPT ![c] = x],
         UNCHANGED <<task, told, risky, callStatus, callWaiting, callAnswer>>,
         server' \in Calls \union {Free},
         Fits(x, c \in callWaiting, callStatus[c], callAnswer[c]),
         call[c].simulated => x.simulated
  PROVE  McpInv'
<1>1. /\ callStatus \in [Calls -> CallGate!Status] /\ callAnswer \in [Calls -> CallGate!Answer]
      /\ task \in [Calls -> {"none", "open", "cancelled_gated", "cancelled_running"}]
      /\ callWaiting \in SUBSET Calls /\ told \subseteq Calls
  BY DEF McpInv, CallsTypeOK, CallGate!GateTypeOK
<1>2. /\ callStatus' = [callStatus EXCEPT ![c] = callStatus[c]] /\ callStatus[c] \in CallGate!Status
      /\ callAnswer' = [callAnswer EXCEPT ![c] = callAnswer[c]] /\ callAnswer[c] \in CallGate!Answer
      /\ task' = [task EXCEPT ![c] = task[c]]
      /\ task[c] \in {"none", "open", "cancelled_gated", "cancelled_running"}
  BY <1>1
<1>3. TaskFits(task[c], x, callAnswer[c])
  BY DEF McpInv, TaskInv, TaskFits
<1> QED BY <1>1, <1>2, <1>3, OneCall

LEMMA CallTyped ==
  ASSUME McpInv, NEW c \in Calls
  PROVE  /\ call[c] \in Call
         /\ Fits(call[c], c \in callWaiting, callStatus[c], callAnswer[c])
         /\ TaskFits(task[c], call[c], callAnswer[c])
BY DEF McpInv, CallsTypeOK, CallInv, TaskInv

(* A call that does not ask: it acts, or is refused, and goes to its       *)
(* receipt.                                                                *)
LEMMA PlainCall ==
  ASSUME McpInv, NEW c \in Calls,
         \/ CallUnknown(c)
         \/ \E tool \in Tools : CallSafe(c, tool)
         \/ Background(c)
  PROVE  McpInv' /\ McpPromise
<1>1. /\ call[c] \in Call
      /\ Fits(call[c], c \in callWaiting, callStatus[c], callAnswer[c])
  BY CallTyped
<1>2. server \in Calls \union {Free}
  BY DEF McpInv, CallsTypeOK
<1>3. CASE CallUnknown(c)
  <2> DEFINE x == [call[c] EXCEPT !.pc = "minting"]
  <2>1. /\ call' = [call EXCEPT ![c] = x] /\ call[c].pc = "none" /\ server' = c
        /\ UNCHANGED <<task, told, risky, callStatus, callWaiting, callAnswer>>
    BY <1>3 DEF CallUnknown, NextCall, McpInv, CallsTypeOK
  <2>2. /\ x \in Call /\ x.pc = "minting" /\ x.tool = call[c].tool /\ x.acted = call[c].acted
        /\ x.simulated = call[c].simulated /\ x.receipt = call[c].receipt
    BY <1>1 DEF Call, CallPC
  <2> HIDE DEF x
  <2>3. Fits(x, c \in callWaiting, callStatus[c], callAnswer[c])
    BY <1>1, <2>1, <2>2 DEF Fits
  <2>4. McpInv'
    BY <2>1, <2>2, <2>3, QuietCall
  <2>5. call'[c] = x
    BY <2>1 DEF McpInv, CallsTypeOK
  <2>6. CallPhase(c) = "new" /\ CallPhase(c)' = "new"
    BY <1>1, <2>1, <2>2, <2>5 DEF CallPhase, Fits
  <2> QED BY <2>1, <2>4, <2>6, OnePhase DEF McpPromise
<1>4. ASSUME NEW tool \in Tools, CallSafe(c, tool)
      PROVE  McpInv' /\ McpPromise
  <2> DEFINE x == [call[c] EXCEPT !.pc = "acting", !.tool = tool, !.acted = TRUE]
  <2>1. /\ call' = [call EXCEPT ![c] = x] /\ call[c].pc = "none" /\ server' = c
        /\ UNCHANGED <<task, told, risky, callStatus, callWaiting, callAnswer>>
    BY <1>4 DEF CallSafe, NextCall, McpInv, CallsTypeOK
  <2>2. /\ x \in Call /\ x.pc = "acting" /\ x.tool = tool /\ x.acted
        /\ x.simulated = call[c].simulated /\ x.receipt = call[c].receipt
    BY <1>1 DEF Call, CallPC
  <2> HIDE DEF x
  <2>3. tool # Unknown
    BY CallToolsAssumption
  <2>4. Fits(x, c \in callWaiting, callStatus[c], callAnswer[c])
    BY <1>1, <2>1, <2>2, <2>3 DEF Fits
  <2>5. McpInv'
    BY <2>1, <2>2, <2>4, QuietCall
  <2>6. call'[c] = x
    BY <2>1 DEF McpInv, CallsTypeOK
  <2>7. CallPhase(c) = "new" /\ CallPhase(c)' = "free"
    BY <2>1, <2>2, <2>6 DEF CallPhase
  <2>8. CallsPromise!Free(c)
    BY <2>1, <2>7, OnePhase DEF CallsPromise!Free
  <2> QED BY <2>5, <2>8 DEF McpPromise, CallsPromise!Next
<1>5. ASSUME NEW ok \in BOOLEAN, FinishCall(c, ok)
      PROVE  McpInv' /\ McpPromise
  <2> DEFINE x == [call[c] EXCEPT !.pc = "minting", !.ok = ok]
  <2>1. /\ call' = [call EXCEPT ![c] = x] /\ call[c].pc \in {"acting", "running"} /\ server' = server
        /\ UNCHANGED <<task, told, risky, callStatus, callWaiting, callAnswer>>
    BY <1>5 DEF FinishCall, McpInv, CallsTypeOK
  <2>2. /\ x \in Call /\ x.pc = "minting" /\ x.tool = call[c].tool /\ x.acted = call[c].acted
        /\ x.simulated = call[c].simulated /\ x.receipt = call[c].receipt
    BY <1>1 DEF Call, CallPC
  <2> HIDE DEF x
  <2>3. Fits(x, c \in callWaiting, callStatus[c], callAnswer[c])
    BY <1>1, <2>1, <2>2 DEF Fits
  <2>4. McpInv'
    BY <1>2, <2>1, <2>2, <2>3, QuietCall
  <2>5. call'[c] = x
    BY <2>1 DEF McpInv, CallsTypeOK
  <2>6. CallPhase(c) \in {"free", "granted"}
    BY <2>1 DEF CallPhase
  <2>7. CallPhase(c)' = "acted"
    BY <1>1, <2>1, <2>2, <2>5 DEF CallPhase, Fits
  <2>8. CallsPromise!Act(c)
    BY <2>1, <2>6, <2>7, OnePhase DEF CallsPromise!Act
  <2> QED BY <2>4, <2>8 DEF McpPromise, CallsPromise!Next
<1>6. ASSUME NEW minted \in BOOLEAN, Finalize(c, minted)
      PROVE  McpInv' /\ McpPromise
  <2> DEFINE x == [call[c] EXCEPT !.pc = "done", !.receipt = minted, !.ok = @ /\ minted]
  <2>1. /\ call' = [call EXCEPT ![c] = x] /\ call[c].pc = "minting"
        /\ server' \in {server, Free}
        /\ UNCHANGED <<task, told, risky, callStatus, callWaiting, callAnswer>>
    BY <1>6 DEF Finalize, McpInv, CallsTypeOK
  <2>2. (call[c].ok /\ minted) \in BOOLEAN
    BY <1>1 DEF Call
  <2>3. /\ x \in Call /\ x.pc = "done" /\ x.tool = call[c].tool /\ x.acted = call[c].acted
        /\ x.simulated = call[c].simulated /\ x.receipt = minted
    BY <1>1, <2>2 DEF Call, CallPC
  <2> HIDE DEF x
  <2>4. Fits(x, c \in callWaiting, callStatus[c], callAnswer[c])
    BY <1>1, <2>1, <2>3 DEF Fits
  <2>5. McpInv'
    BY <1>2, <2>1, <2>3, <2>4, QuietCall
  <2>6. call'[c] = x
    BY <2>1 DEF McpInv, CallsTypeOK
  <2>7. CASE ~minted
    <3>1. CallPhase(c)' = CallPhase(c)
      BY <2>1, <2>3, <2>6, <2>7 DEF CallPhase
    <3> QED BY <2>1, <2>5, <3>1, OnePhase DEF McpPromise
  <2>8. CASE minted
    <3>1. /\ CallPhase(c) \in {"new", "acted", "refused"}
          /\ CallPhase(c)' = IF CallPhase(c) = "new" THEN "dropped" ELSE "vouched"
      BY <2>1, <2>3, <2>6, <2>8 DEF CallPhase
    <3>2. \A d \in Calls : d # c => CallPhase(d)' = CallPhase(d)
      BY <2>1 DEF McpInv, CallsTypeOK, CallPhase
    <3>3. CallsPromise!Vouch(c)
      BY <3>1, <3>2 DEF CallsPromise!Vouch
    <3> QED BY <2>5, <3>3 DEF McpPromise, CallsPromise!Next
  <2> QED BY <2>7, <2>8
<1> QED BY <1>3, <1>4, <1>5, <1>6 DEF Background

(* A call that asks: it is parked under a card of its own.                 *)
LEMMA AskedCall ==
  ASSUME McpInv, NEW c \in Calls, NEW tool \in Tools,
         NEW declared \in BOOLEAN, CallRisky(c, tool, declared)
  PROVE  McpInv' /\ McpPromise
<1> DEFINE x == [call[c] EXCEPT !.pc = "gate", !.tool = tool, !.simulated = TRUE]
           t == IF declared THEN "open" ELSE "none"
<1>1. /\ call[c] \in Call
      /\ Fits(call[c], c \in callWaiting, callStatus[c], callAnswer[c])
  BY CallTyped
<1>2. /\ callAnswer \in [Calls -> CallGate!Answer] /\ callWaiting \in SUBSET Calls
      /\ told \subseteq Calls /\ server \in Calls \union {Free}
  BY DEF McpInv, CallsTypeOK, CallGate!GateTypeOK
<1>3. /\ call' = [call EXCEPT ![c] = x] /\ call[c].pc = "none"
      /\ UNCHANGED <<told, server, risky>>
      /\ callStatus' = [callStatus EXCEPT ![c] = "pending"]
      /\ callWaiting' = callWaiting \union {c} /\ callAnswer' = callAnswer
      /\ task' = [task EXCEPT ![c] = t]
  BY DEF CallRisky, NextCall, CallGate!Request, McpInv, CallsTypeOK
<1>4. /\ x \in Call /\ x.pc = "gate" /\ x.tool = tool /\ x.simulated
      /\ x.acted = call[c].acted /\ x.receipt = call[c].receipt
  BY <1>1 DEF Call, CallPC
<1>5. t \in {"none", "open"} /\ "pending" \in CallGate!Status /\ tool # Unknown
  BY CallToolsAssumption DEF CallGate!Status
<1> HIDE DEF x, t
<1>6. Fits(x, c \in callWaiting', "pending", callAnswer[c])
  BY <1>1, <1>3, <1>4, <1>5 DEF Fits
<1>7. TaskFits(t, x, callAnswer[c])
  BY <1>4, <1>5 DEF TaskFits
<1>8. callAnswer' = [callAnswer EXCEPT ![c] = callAnswer[c]] /\ callAnswer[c] \in CallGate!Answer
  BY <1>2, <1>3
<1>9. McpInv'
  BY <1>2, <1>3, <1>4, <1>5, <1>6, <1>7, <1>8, OneCall
<1>10. call'[c] = x
  BY <1>3 DEF McpInv, CallsTypeOK
<1>11. CallPhase(c) = "new" /\ CallPhase(c)' = "asked"
  BY <1>3, <1>4, <1>10 DEF CallPhase
<1>12. CallsPromise!Ask(c)
  BY <1>3, <1>11, OnePhase DEF CallsPromise!Ask
<1> QED BY <1>9, <1>12 DEF McpPromise, CallsPromise!Next

(* An answer, whoever gives it, settles a call that waits and leaves every *)
(* other call where it is; the record says the last answer all the same.   *)
LEMMA AnsweredCall ==
  ASSUME McpInv, NEW c \in Calls, NEW ok \in BOOLEAN, CallGate!Resolve(c, ok),
         call' = Settled(c, ok), NEW t, task' = [task EXCEPT ![c] = t],
         \/ t = task[c]
         \/ t = "cancelled_gated" /\ ~ok /\ call[c].simulated /\ callAnswer[c] # "yes",
         told' \subseteq Calls, UNCHANGED <<server, risky>>
  PROVE  McpInv' /\ McpPromise
<1> DEFINE r == IF ok THEN "approved" ELSE "denied"
           h == IF c \in callWaiting THEN IF ok THEN "yes" ELSE "no" ELSE callAnswer[c]
           x == IF c \notin callWaiting THEN call[c]
                ELSE IF ok THEN [call[c] EXCEPT !.pc = "running", !.acted = TRUE]
                ELSE [call[c] EXCEPT !.pc = "minting"]
<1>1. /\ call[c] \in Call
      /\ Fits(call[c], c \in callWaiting, callStatus[c], callAnswer[c])
      /\ TaskFits(task[c], call[c], callAnswer[c])
  BY CallTyped
<1>2. /\ call \in [Calls -> Call] /\ callAnswer \in [Calls -> CallGate!Answer]
      /\ callWaiting \in SUBSET Calls /\ server \in Calls \union {Free}
      /\ task \in [Calls -> {"none", "open", "cancelled_gated", "cancelled_running"}]
  BY DEF McpInv, CallsTypeOK, CallGate!GateTypeOK
<1>3. /\ callStatus[c] # "none" /\ callStatus' = [callStatus EXCEPT ![c] = r]
      /\ callWaiting' = callWaiting \ {c}
      /\ callAnswer' = [callAnswer EXCEPT ![c] = h]
  BY <1>2 DEF CallGate!Resolve
<1>4. call' = [call EXCEPT ![c] = x]
  BY <1>2 DEF Settled
<1>5. /\ r \in CallGate!Status /\ r # "none" /\ h \in CallGate!Answer
  BY <1>2 DEF CallGate!Status, CallGate!Answer
<1>6. /\ c \in callWaiting => h = IF ok THEN "yes" ELSE "no"
      /\ c \notin callWaiting => h = callAnswer[c] /\ x = call[c]
  OBVIOUS
<1>7. /\ x \in Call /\ x.tool = call[c].tool
      /\ x.simulated = call[c].simulated /\ x.receipt = call[c].receipt
      /\ c \in callWaiting => /\ x.pc = IF ok THEN "running" ELSE "minting"
                              /\ x.acted = IF ok THEN TRUE ELSE call[c].acted
  BY <1>1 DEF Call, CallPC
<1>8. t \in {"none", "open", "cancelled_gated", "cancelled_running"}
  BY <1>2
<1> HIDE DEF r, h, x
<1>9. Fits(x, c \in callWaiting', r, h)
  <2>1. c \notin callWaiting'
    BY <1>3
  <2>2. CASE c \in callWaiting /\ ok
    BY <1>1, <1>5, <1>6, <1>7, <2>1, <2>2 DEF Fits
  <2>3. CASE c \in callWaiting /\ ~ok
    BY <1>1, <1>5, <1>6, <1>7, <2>1, <2>3 DEF Fits
  <2>4. CASE c \notin callWaiting
    BY <1>1, <1>3, <1>5, <1>6, <2>1, <2>4 DEF Fits
  <2> QED BY <2>2, <2>3, <2>4
<1>10. TaskFits(t, x, h)
  <2>1. CASE c \in callWaiting
    BY <1>1, <1>6, <1>7, <2>1 DEF Fits, TaskFits
  <2>2. CASE c \notin callWaiting /\ t = task[c]
    BY <1>1, <1>6, <2>2 DEF TaskFits
  <2>3. CASE c \notin callWaiting /\ t # task[c]
    <3>1. callAnswer[c] = "no"
      BY <1>1, <1>2, <2>3 DEF Fits, CallGate!Answer
    <3> QED BY <1>6, <2>3, <3>1 DEF TaskFits
  <2> QED BY <2>1, <2>2, <2>3
<1>11. McpInv'
  BY <1>2, <1>3, <1>4, <1>5, <1>7, <1>8, <1>9, <1>10, OneCall
<1>12. call'[c] = x
  BY <1>2, <1>4
<1>13. CASE c \notin callWaiting
  <2>1. CallPhase(c)' = CallPhase(c)
    BY <1>6, <1>12, <1>13 DEF CallPhase
  <2> QED BY <1>4, <1>11, <2>1, OnePhase DEF McpPromise
<1>14. CASE c \in callWaiting
  <2>1. CallPhase(c) = "asked"
    BY <1>1, <1>14 DEF CallPhase, Fits
  <2>2. CASE ok
    <3>1. CallPhase(c)' = "granted"
      BY <1>7, <1>12, <1>14, <2>2 DEF CallPhase
    <3>2. CallsPromise!Grant(c)
      BY <1>4, <2>1, <3>1, OnePhase DEF CallsPromise!Grant
    <3> QED BY <1>11, <3>2 DEF McpPromise, CallsPromise!Next
  <2>3. CASE ~ok
    <3>1. call[c].tool # Unknown /\ ~call[c].acted
      BY <1>1, <1>14 DEF Fits
    <3>2. CallPhase(c)' = "refused"
      BY <1>7, <1>12, <1>14, <2>3, <3>1 DEF CallPhase
    <3>3. CallsPromise!Refuse(c)
      BY <1>4, <2>1, <3>2, OnePhase DEF CallsPromise!Refuse
    <3> QED BY <1>11, <3>3 DEF McpPromise, CallsPromise!Next
  <2> QED BY <2>2, <2>3
<1> QED BY <1>13, <1>14

(* A cancellation is the answer "no" while the track says gated, and only  *)
(* a label once it says running.                                           *)
LEMMA CancelledCall ==
  ASSUME McpInv, NEW c \in Calls, Cancel(c)
  PROVE  McpInv' /\ McpPromise
<1>1. /\ call[c] \in Call
      /\ Fits(call[c], c \in callWaiting, callStatus[c], callAnswer[c])
  BY CallTyped
<1>2. told \subseteq Calls /\ UNCHANGED <<told, server, risky>>
  BY DEF McpInv, CallsTypeOK, Cancel
<1>3. CASE Track(c) = "gated" /\ CallGate!Resolve(c, FALSE)
           /\ call' = Settled(c, FALSE) /\ task' = [task EXCEPT ![c] = "cancelled_gated"]
  <2>1. call[c].simulated /\ callAnswer[c] # "yes"
    BY <1>3 DEF Track
  <2> QED BY <1>2, <1>3, <2>1, AnsweredCall
<1>4. CASE Track(c) = "running" /\ task' = [task EXCEPT ![c] = "cancelled_running"]
           /\ UNCHANGED <<call, callStatus, callWaiting, callAnswer>>
  <2>1. call[c].simulated
    BY <1>4 DEF Track
  <2>2. /\ call' = [call EXCEPT ![c] = call[c]]
        /\ callStatus' = [callStatus EXCEPT ![c] = callStatus[c]] /\ callStatus[c] \in CallGate!Status
        /\ callAnswer' = [callAnswer EXCEPT ![c] = callAnswer[c]] /\ callAnswer[c] \in CallGate!Answer
        /\ callWaiting' \in SUBSET Calls /\ server' \in Calls \union {Free}
    BY <1>2, <1>4 DEF McpInv, CallsTypeOK, CallGate!GateTypeOK
  <2>3. TaskFits("cancelled_running", call[c], callAnswer[c])
    BY <2>1 DEF TaskFits
  <2>4. Fits(call[c], c \in callWaiting', callStatus[c], callAnswer[c])
    BY <1>1, <1>4
  <2>5. McpInv'
    BY <1>1, <1>2, <1>4, <2>2, <2>3, <2>4, OneCall
  <2>6. [d \in Calls |-> CallPhase(d)]' = [d \in Calls |-> CallPhase(d)]
    BY <1>4 DEF CallPhase
  <2> QED BY <2>5, <2>6 DEF McpPromise
<1> QED BY <1>3, <1>4 DEF Cancel

LEMMA StepMcp ==
  ASSUME McpInv, [CallsNext]_callVars
  PROVE  McpInv' /\ McpPromise
<1>1. CASE UNCHANGED callVars
  <2>1. McpInv'
    BY <1>1 DEF McpInv, CallInv, TaskInv, Fits, TaskFits, callVars, CallsTypeOK,
                CallGate!GateTypeOK
  <2>2. [d \in Calls |-> CallPhase(d)]' = [d \in Calls |-> CallPhase(d)]
    BY <1>1 DEF CallPhase, callVars
  <2> QED BY <2>1, <2>2 DEF McpPromise
<1>2. ASSUME NEW t \in Tools, RetierCalls(t) PROVE McpInv' /\ McpPromise
  <2>1. /\ risky' \subseteq Tools
        /\ UNCHANGED <<call, task, told, server, callStatus, callWaiting, callAnswer>>
    BY <1>2 DEF RetierCalls, MoveTier, McpInv, CallsTypeOK
  <2>2. McpInv'
    BY <2>1 DEF McpInv, CallInv, TaskInv, Fits, TaskFits, CallsTypeOK, CallGate!GateTypeOK
  <2>3. [d \in Calls |-> CallPhase(d)]' = [d \in Calls |-> CallPhase(d)]
    BY <2>1 DEF CallPhase
  <2> QED BY <2>2, <2>3 DEF McpPromise
<1>3. ASSUME NEW c \in Calls, NEW ok \in BOOLEAN, NEW inWords \in BOOLEAN,
             Decide(c, ok, inWords)
      PROVE  McpInv' /\ McpPromise
  <2>1. /\ CallGate!Resolve(c, ok) /\ call' = Settled(c, ok) /\ told' \subseteq Calls
        /\ task' = [task EXCEPT ![c] = task[c]] /\ UNCHANGED <<server, risky>>
    BY <1>3 DEF Decide, McpInv, CallsTypeOK
  <2> QED BY <2>1, AnsweredCall
<1>4. ASSUME NEW c \in Calls, Cancel(c) PROVE McpInv' /\ McpPromise
  BY <1>4, CancelledCall
<1>5. ASSUME NEW c \in Calls, NEW t \in Tools, NEW declared \in BOOLEAN,
             CallRisky(c, t, declared)
      PROVE  McpInv' /\ McpPromise
  BY <1>5, AskedCall
<1>6. ASSUME NEW c \in Calls,
             \/ CallUnknown(c)
             \/ \E t \in Tools : CallSafe(c, t)
             \/ Background(c)
      PROVE  McpInv' /\ McpPromise
  BY <1>6, PlainCall
<1> QED BY <1>1, <1>2, <1>3, <1>4, <1>5, <1>6 DEF CallsNext

(* A task that says "cancelled at the gate - nothing was executed" is      *)
(* right, now and later: the cancellation that races an approval either is *)
(* the answer or finds the call running.                                   *)
THEOREM CancelCorrect == CallsSpec => []CancelledAtGateNeverActs
<1>1. McpInv => CancelledAtGateNeverActs
  BY DEF McpInv, CallInv, TaskInv, Fits, TaskFits, CancelledAtGateNeverActs
<1>2. McpInv /\ [CallsNext]_callVars => McpInv'
  BY StepMcp
<1> QED BY <1>1, <1>2, InitMcp, PTL DEF CallsSpec

(* The tool calls implement the same promise the chat runs do: whatever    *)
(* the order of calls, answers, cancellations and tier changes.            *)
THEOREM CallsPromiseKept == CallsSpec => CallsKeepPromise
<1>1. CallsInit => CallsPromise!Init
  <2>1. ASSUME CallsInit, NEW c \in Calls PROVE CallPhase(c) = "new"
    <3>1. call[c].pc = "none"
      BY <2>1 DEF CallsInit
    <3> QED BY <3>1 DEF CallPhase
  <2> QED BY <2>1 DEF CallsPromise!Init
<1>2. McpInv /\ [CallsNext]_callVars
      => McpInv' /\ [CallsPromise!Next]_[c \in Calls |-> CallPhase(c)]
  BY StepMcp DEF McpPromise
<1> QED BY <1>1, <1>2, InitMcp, PTL DEF CallsSpec, CallsKeepPromise, CallsPromise!Spec

(* No tier the meta-loop moves is one the modules define as risky, so a    *)
(* call of such a tool was always asked about.                             *)
TierInv ==
  /\ BuiltinRisky \subseteq risky
  /\ \A c \in Calls : call[c].tool \in BuiltinRisky => call[c].simulated

LEMMA StepTierInv ==
  ASSUME McpInv, TierInv, [CallsNext]_callVars
  PROVE  TierInv'
<1>0. call \in [Calls -> Call]
  BY DEF McpInv, CallsTypeOK
<1>1. CASE UNCHANGED <<call, risky>>
  BY <1>1 DEF TierInv
<1>2. ASSUME NEW c \in Calls, NEW x \in Call, call' = [call EXCEPT ![c] = x],
             risky' = risky,
             \/ x.simulated
             \/ x.tool \notin BuiltinRisky
             \/ x.tool = call[c].tool /\ x.simulated = call[c].simulated
      PROVE  TierInv'
  BY <1>0, <1>2 DEF TierInv
<1>3. ASSUME NEW t \in Tools, RetierCalls(t) PROVE TierInv'
  BY <1>3 DEF TierInv, RetierCalls, MoveTier
<1>4. ASSUME NEW c \in Calls, CallUnknown(c) PROVE TierInv'
  <2> DEFINE x == [call[c] EXCEPT !.pc = "minting"]
  <2>1. call' = [call EXCEPT ![c] = x] /\ risky' = risky
    BY <1>0, <1>4 DEF CallUnknown
  <2>2. x \in Call /\ x.tool = call[c].tool /\ x.simulated = call[c].simulated
    BY <1>0 DEF Call, CallPC
  <2> QED BY <1>2, <2>1, <2>2
<1>5. ASSUME NEW c \in Calls, NEW tool \in Tools, CallSafe(c, tool) PROVE TierInv'
  <2> DEFINE x == [call[c] EXCEPT !.pc = "acting", !.tool = tool, !.acted = TRUE]
  <2>1. call' = [call EXCEPT ![c] = x] /\ risky' = risky /\ tool \notin BuiltinRisky
    BY <1>0, <1>5 DEF CallSafe, TierInv
  <2>2. x \in Call /\ x.tool = tool
    BY <1>0 DEF Call, CallPC
  <2> QED BY <1>2, <2>1, <2>2
<1>6. ASSUME NEW c \in Calls, NEW tool \in Tools, NEW declared \in BOOLEAN,
             CallRisky(c, tool, declared)
      PROVE  TierInv'
  <2> DEFINE x == [call[c] EXCEPT !.pc = "gate", !.tool = tool, !.simulated = TRUE]
  <2>1. call' = [call EXCEPT ![c] = x] /\ risky' = risky
    BY <1>0, <1>6 DEF CallRisky
  <2>2. x \in Call /\ x.simulated
    BY <1>0 DEF Call, CallPC
  <2> QED BY <1>2, <2>1, <2>2
<1>7. ASSUME NEW c \in Calls, NEW ok \in BOOLEAN, call' = Settled(c, ok), risky' = risky
      PROVE  TierInv'
  <2>1. CASE c \notin callWaiting
    BY <1>1, <1>7, <2>1 DEF Settled
  <2>2. CASE c \in callWaiting
    <3> DEFINE x == IF ok THEN [call[c] EXCEPT !.pc = "running", !.acted = TRUE]
                    ELSE [call[c] EXCEPT !.pc = "minting"]
    <3>1. call' = [call EXCEPT ![c] = x]
      BY <1>0, <1>7, <2>2 DEF Settled
    <3>2. x \in Call /\ x.tool = call[c].tool /\ x.simulated = call[c].simulated
      BY <1>0 DEF Call, CallPC
    <3> QED BY <1>2, <1>7, <3>1, <3>2
  <2> QED BY <2>1, <2>2
<1>8. ASSUME NEW c \in Calls, NEW ok \in BOOLEAN, NEW inWords \in BOOLEAN,
             Decide(c, ok, inWords)
      PROVE  TierInv'
  BY <1>7, <1>8 DEF Decide
<1>9. ASSUME NEW c \in Calls, Cancel(c) PROVE TierInv'
  BY <1>1, <1>7, <1>9 DEF Cancel
<1>10. ASSUME NEW c \in Calls, NEW ok \in BOOLEAN, FinishCall(c, ok) PROVE TierInv'
  <2> DEFINE x == [call[c] EXCEPT !.pc = "minting", !.ok = ok]
  <2>1. call' = [call EXCEPT ![c] = x] /\ risky' = risky
    BY <1>0, <1>10 DEF FinishCall
  <2>2. x \in Call /\ x.tool = call[c].tool /\ x.simulated = call[c].simulated
    BY <1>0 DEF Call, CallPC
  <2> QED BY <1>2, <2>1, <2>2
<1>11. ASSUME NEW c \in Calls, NEW minted \in BOOLEAN, Finalize(c, minted) PROVE TierInv'
  <2> DEFINE x == [call[c] EXCEPT !.pc = "done", !.receipt = minted, !.ok = @ /\ minted]
  <2>1. call' = [call EXCEPT ![c] = x] /\ risky' = risky
    BY <1>0, <1>11 DEF Finalize
  <2>2. (call[c].ok /\ minted) \in BOOLEAN
    BY <1>0 DEF Call
  <2>3. x \in Call /\ x.tool = call[c].tool /\ x.simulated = call[c].simulated
    BY <1>0, <2>2 DEF Call, CallPC
  <2> QED BY <1>2, <2>1, <2>3
<1> QED BY <1>1, <1>3, <1>4, <1>5, <1>6, <1>8, <1>9, <1>10, <1>11
        DEF CallsNext, Background, callVars

(* "The MCP face cannot bypass any of it": a tool that is risky by         *)
(* definition acts only for a call that was simulated and granted, however *)
(* the tiers move while the call is on its way.                            *)
THEOREM NoBypassCorrect == CallsSpec => []NoBypass
<1>1. CallsInit => TierInv
  BY TiersAssumption, CallToolsAssumption DEF CallsInit, TierInv
<1>2. McpInv /\ TierInv /\ [CallsNext]_callVars => McpInv' /\ TierInv'
  BY StepMcp, StepTierInv
<1>3. McpInv /\ TierInv => NoBypass
  <2> SUFFICES ASSUME McpInv, TierInv, NEW c \in Calls, call[c].acted
               PROVE  /\ call[c].tool \in Tools
                      /\ call[c].tool \in BuiltinRisky => call[c].simulated
                      /\ call[c].simulated => callAnswer[c] = "yes"
    BY DEF NoBypass
  <2>1. call[c].tool \in Tools \union {Unknown}
    BY DEF McpInv, CallsTypeOK, Call
  <2>2. Fits(call[c], c \in callWaiting, callStatus[c], callAnswer[c])
    BY CallTyped
  <2> QED BY <2>1, <2>2 DEF TierInv, Fits
<1> QED BY <1>1, <1>2, <1>3, InitMcp, PTL DEF CallsSpec

(* A call waits at the gate exactly while its card is undecided: none is   *)
(* parked under a card whose answer went elsewhere, none is woken twice.   *)
THEOREM ParkedCallsCorrect == CallsSpec => []ParkedCallsHaveCards
<1>1. McpInv => ParkedCallsHaveCards
  <2> SUFFICES ASSUME McpInv PROVE ParkedCallsHaveCards
    OBVIOUS
  <2>1. callWaiting \subseteq Calls
    BY DEF McpInv, CallsTypeOK, CallGate!GateTypeOK
  <2>2. \A c \in Calls : Fits(call[c], c \in callWaiting, callStatus[c], callAnswer[c])
    BY CallTyped
  <2> QED BY <2>1, <2>2 DEF Fits, ParkedCallsHaveCards, CallGate!WaitersUndecided
<1>2. McpInv /\ [CallsNext]_callVars => McpInv'
  BY StepMcp
<1> QED BY <1>1, <1>2, InitMcp, PTL DEF CallsSpec

(* The serve loop awaits nothing but a call on its way to its receipt, so  *)
(* the answer a gated call waits for can always be read.                   *)
THEOREM LoopCorrect == CallsSpec => []LoopNeverAwaitsTheGate
<1> DEFINE L == LoopNeverAwaitsTheGate
<1>1. CallsInit => L
  BY DEF CallsInit, LoopNeverAwaitsTheGate
<1>2. ASSUME McpInv, L, [CallsNext]_callVars PROVE L'
  <2>0. call \in [Calls -> Call] /\ server \in Calls \union {Free}
    BY <1>2 DEF McpInv, CallsTypeOK
  <2>1. CASE UNCHANGED <<call, server>>
    BY <1>2, <2>1 DEF LoopNeverAwaitsTheGate
  <2>2. CASE server' = Free
    BY <2>2 DEF LoopNeverAwaitsTheGate
  <2>3. ASSUME NEW c \in Calls, CallUnknown(c) PROVE L'
    <3>1. call[c].pc = "none" /\ ~call[c].simulated
      BY <1>2, <2>3, CallTyped DEF CallUnknown, NextCall, Fits
    <3>2. call'[c].pc = "minting" /\ ~call'[c].simulated /\ server' = c
      BY <2>0, <2>3, <3>1 DEF CallUnknown, Call
    <3> QED BY <3>2 DEF LoopNeverAwaitsTheGate
  <2>4. ASSUME NEW c \in Calls, NEW t \in Tools, CallSafe(c, t) PROVE L'
    <3>1. call[c].pc = "none" /\ ~call[c].simulated
      BY <1>2, <2>4, CallTyped DEF CallSafe, NextCall, Fits
    <3>2. call'[c].pc = "acting" /\ ~call'[c].simulated /\ server' = c
      BY <2>0, <2>4, <3>1 DEF CallSafe, Call
    <3> QED BY <3>2 DEF LoopNeverAwaitsTheGate
  <2>5. ASSUME NEW c \in Calls,
               \/ \E t \in Tools, declared \in BOOLEAN : CallRisky(c, t, declared)
               \/ \E ok, inWords \in BOOLEAN : Decide(c, ok, inWords)
               \/ Cancel(c)
        PROVE  L'
    BY <2>2, <2>5 DEF CallRisky, NextCall, Decide, Cancel
  <2>6. ASSUME NEW c \in Calls, NEW ok \in BOOLEAN, FinishCall(c, ok) PROVE L'
    <3>1. server' = server /\ \A d \in Calls : /\ call'[d].simulated = call[d].simulated
                                               /\ call'[d].pc \in {call[d].pc, "minting"}
      BY <2>0, <2>6 DEF FinishCall, Call
    <3> QED BY <1>2, <2>0, <3>1 DEF LoopNeverAwaitsTheGate
  <2>7. ASSUME NEW c \in Calls, NEW minted \in BOOLEAN, Finalize(c, minted) PROVE L'
    <3>1. CASE server = c
      BY <2>2, <2>7, <3>1 DEF Finalize
    <3>2. CASE server # c
      <4>1. server' = server /\ \A d \in Calls : d # c => call'[d] = call[d]
        BY <2>0, <2>7, <3>2 DEF Finalize
      <4> QED BY <1>2, <2>0, <3>2, <4>1 DEF LoopNeverAwaitsTheGate
    <3> QED BY <3>1, <3>2
  <2>8. ASSUME NEW t \in Tools, RetierCalls(t) PROVE L'
    BY <2>1, <2>8 DEF RetierCalls, MoveTier
  <2> QED BY <1>2, <2>1, <2>3, <2>4, <2>5, <2>6, <2>7, <2>8
          DEF CallsNext, Background, callVars
<1>3. McpInv /\ [CallsNext]_callVars => McpInv'
  BY StepMcp
<1>4. McpInv /\ L /\ [CallsNext]_callVars => L'
  BY <1>2
<1> HIDE DEF L
<1>5. CallsSpec => []L
  BY <1>1, <1>3, <1>4, InitMcp, PTL DEF CallsSpec
<1> QED BY <1>5 DEF L
=============================================================================
